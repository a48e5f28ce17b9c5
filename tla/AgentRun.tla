----------------------------- MODULE AgentRun -----------------------------
(***************************************************************************)
(* One attempt at one task: the agent loop (ExecutionLoop.run), the repair *)
(* of model output, the retries of the model provider, the checkpoint of   *)
(* steps, the runner's verification and bookkeeping around the loop        *)
(* (LiveTrainingRunner._run_one), and the rows its events leave behind.    *)
(* A reviewer and the external creative evaluation work on the same rows.  *)
(*                                                                         *)
(* A step is what happens between two calls whose outcome the loop does    *)
(* not control (runtime, model, verifier) or between two records that      *)
(* somebody else can see separately.                                       *)
(***************************************************************************)
EXTENDS RunRecords

CONSTANTS
  Tasks,            \* the tasks of this instance
  Interval,         \* budget.checkpoint_interval_steps, 0 without a state store
  MaxAttempts,      \* ActionRepairConfig.max_attempts
  TimeoutRetries,   \* ActionRepairConfig.model_timeout_retries
  TransientRetries, \* ResilientModelProvider.transient_retries
  MaxRevisions,     \* AgentPlannerPolicy.max_revisions
  MaxLosses         \* bound: losses of the process

(* external: the task asks for an evaluator after the run; checker: the    *)
(* loop has a success checker; planner: it has a planner; fallback: a safe *)
(* fallback action is among the actions shown in the prompt.               *)
ASSUME TasksAssumption ==
  Tasks \subseteq [external : BOOLEAN, checker : BOOLEAN, planner : BOOLEAN,
                   fallback : BOOLEAN]
ASSUME BoundsAssumption ==
  /\ {Interval, MaxAttempts, TimeoutRetries, TransientRetries} \subseteq Nat
  /\ {MaxRevisions, MaxLosses} \subseteq Nat

(* Actions by what the loop does with them: knowledge tools, the finish    *)
(* request, a scan (its empty result asks for a new plan), everything else *)
(* a worker executes, and a registered action the prompt does not show.    *)
Offered == {"knowledge", "submit", "scan", "work"}
ActionKinds == Offered \cup {"hidden", "unregistered"}
Fallback == "query"
Errors == {"model", "timeout", "cancelled", "error"}
(* stuck: a walk or a fight that failed with a code that asks for a new plan.*)
Results == {"ok", "failed", "stuck", "empty", "rpc_timeout", "terminated"}
Verdicts == {"success", "inconclusive", "failure"}
StopReasons == {"runtime_terminated", "action_rpc_timeout", "action_terminated",
                "agent_submitted_verified", "agent_submitted_for_external_evaluation",
                "agent_finished_unverified", "success_checker", "max_steps_exhausted"}
Phases == {"load", "observe", "plan", "model", "handoff", "act", "revise", "save", "check",
           "finish", "verify", "inconclusive", "raised", "close", "done", "lost"}

VARIABLES
  task,       \* the task of the attempt
  pc,         \* where the attempt is
  step,       \* step_index
  retry,      \* [repair, timeout, transient]: the three nested retry counters
  calls,      \* history: provider calls made for this step
  action,     \* kind of the action of this step
  result,     \* kind of its result
  submission, \* verdict on a finish request, None for other actions
  revisions,  \* plan_revision_count, NoStep while there is no plan
  stop,       \* stop_reason
  raised,     \* what the loop raised
  checkpoint, \* next_step_index of the stored checkpoint, 0 for none
  losses,     \* losses of the process so far
  outcome,    \* status of the LiveTrainingOutcome
  evaluation, \* what the external evaluation has recorded so far
  rows        \* the database

vars == <<task, pc, step, retry, calls, action, result, submission, revisions, stop, raised,
          checkpoint, losses, outcome, evaluation, rows>>
turn == <<retry, calls, action, result, submission>>
ending == <<stop, raised, outcome>>
outside == <<task, losses, evaluation>>

NoRetry == [repair |-> 0, timeout |-> 0, transient |-> 0]
Forget == retry' = NoRetry /\ calls' = 0    \* counters local to the model call
RecordAll(events) == rows' = FoldLeft(Recorded, rows, events)
At(type) == Event(type, step, None)
Plainly(type) == Event(type, NoStep, None)
Raise(kind) == pc' = "raised" /\ raised' = kind
InLoop == pc \in {"load", "observe", "plan", "model", "handoff", "act", "revise", "save", "check",
                  "finish"}

Init ==
  /\ task \in Tasks
  /\ pc = "load" /\ step = 0 /\ retry = NoRetry /\ calls = 0
  /\ action = None /\ result = None /\ submission = None /\ revisions = NoStep
  /\ stop = None /\ raised = None /\ checkpoint = 0 /\ losses = 0
  /\ outcome = None /\ evaluation = None /\ rows = NoRows

(* ------------------------------------------------------------------------*)
(* Start: load the task and the checkpoint, reset the runtime.             *)
(* ------------------------------------------------------------------------*)

Resumed == losses > 0

(* The task cannot be loaded: nothing is recorded, because there is no     *)
(* task_spec yet.  A resumed task could be loaded once and can be again.   *)
LoadFails ==
  /\ pc = "load" /\ ~Resumed /\ pc' = "close" /\ outcome' = "runtime_error"
  /\ UNCHANGED <<outside, turn, step, revisions, stop, raised, checkpoint, rows>>
(* A first start may look around before the first model call.              *)
InitialSnapshot == IF step' = 0 THEN <<Plainly("initial_visual_snapshot")>> ELSE <<>>
Start ==
  /\ pc = "load" /\ pc' = "observe"
  /\ step' = IF Resumed THEN checkpoint ELSE 0
  /\ revisions' = NoStep
  /\ RecordAll(<<Plainly("run_started")>> \o
               (IF step' > 0 THEN <<Event("checkpoint_loaded", step', None)>> ELSE InitialSnapshot))
  /\ UNCHANGED <<outside, turn, ending, checkpoint>>

(* The exception is recorded and passes; a TimeoutError of reset or        *)
(* observe is then taken for the time limit of the task.                   *)
RuntimeError(at, kinds) ==
  /\ RecordAll(<<Event("runtime_error", at, None)>>)
  /\ \E kind \in kinds : Raise(kind)
  /\ UNCHANGED <<outside, turn, step, revisions, stop, outcome, checkpoint>>

ResetRaises == pc = "load" /\ RuntimeError(NoStep, {"error", "timeout"})

(* ------------------------------------------------------------------------*)
(* Observe and plan.                                                       *)
(* ------------------------------------------------------------------------*)
StepsExhausted ==
  /\ pc = "observe" /\ step = MaxSteps
  /\ pc' = "finish" /\ stop' = "max_steps_exhausted"
  /\ UNCHANGED <<outside, turn, step, revisions, raised, checkpoint, outcome, rows>>

Observe ==
  /\ pc = "observe" /\ step < MaxSteps
  /\ RecordAll(<<At("observation")>>)
  /\ \/ pc' = "finish" /\ stop' = "runtime_terminated"
     \/ pc' = "plan" /\ UNCHANGED stop
  /\ UNCHANGED <<outside, turn, step, revisions, raised, checkpoint, outcome>>

ObserveRaises == pc = "observe" /\ step < MaxSteps /\ RuntimeError(step, {"error", "timeout"})

(* A planner answer that cannot be used gives a fallback plan; only an     *)
(* error that is no ModelRouterError passes.                               *)
PlanEvents(type) == <<At("agent_plan_model_call"), At(type)>>

Plan ==
  /\ pc = "plan"
  /\ LET first == task.planner /\ revisions = NoStep
     IN /\ revisions' = IF first THEN 0 ELSE revisions
        /\ RecordAll(IF first THEN PlanEvents("agent_plan_created") ELSE <<>>)
  /\ pc' = "model" /\ Forget
  /\ action' = None /\ result' = None /\ submission' = None
  /\ UNCHANGED <<outside, ending, step, checkpoint>>

(* ------------------------------------------------------------------------*)
(* The model call of a step: repair attempts, in each of them retries of   *)
(* timeouts, in each of those retries of transient HTTP errors.            *)
(* ------------------------------------------------------------------------*)

(* What one request to the provider can come back with.                    *)
Failed(http) == [http |-> http, content |-> None, kind |-> None]
Said(content, kind) == [http |-> "ok", content |-> content, kind |-> kind]
Replies ==
  {Failed(h) : h \in {"timeout", "transport", "429", "5xx", "4xx", "no_choices"}} \cup
  {Said(c, None) : c \in {"text", "list", "bad_envelope", "bad_action"}} \cup
  {Said(c, k) : c \in {"envelope", "legacy"}, k \in ActionKinds}

(* The provider: a lost connection is a timeout like a late answer, and a  *)
(* body that is no completion is an exception nobody names.                *)
Completed(reply) ==
  CASE reply.http \in {"timeout", "transport"} -> "timeout"
    [] reply.http \in {"429", "5xx"} -> "transient"
    [] reply.http = "4xx" -> "error"
    [] reply.http = "no_choices" -> "broken"
    [] reply.http = "ok" -> "content"

(* An envelope or a bare action is a decision, with or without a fence.    *)
IsDecision(reply) == reply.content \in {"envelope", "legacy"}

(* generate_action: what of it reaches the repair policy.                  *)
Routed(reply) ==
  IF Completed(reply) # "content" THEN Completed(reply)
  ELSE IF IsDecision(reply) THEN "decision" ELSE "error"
Usable(reply) == Routed(reply) = "decision" /\ reply.kind \in Offered
Unusable(reply) ==
  Routed(reply) = "error" \/ (Routed(reply) = "decision" /\ reply.kind \notin Offered)

Choose(kind, events) ==
  /\ action' = kind
  /\ pc' = IF kind \in {"scan", "work", Fallback} THEN "handoff" ELSE "act"
  /\ RecordAll(events \o <<At("model_action")>>)
  /\ Forget /\ UNCHANGED ending

(* The provider answers with an action that the registry accepts and the   *)
(* prompt offers.                                                          *)
ModelChooses ==
  /\ pc = "model"
  /\ \E reply \in Replies : Usable(reply) /\ Choose(reply.kind, <<>>)
  /\ UNCHANGED <<outside, step, result, submission, revisions, checkpoint>>

(* No attempt is left: the fallback action if the prompt offers it, else   *)
(* ActionRepairFailed.                                                     *)
FallBack ==
  IF task.fallback THEN Choose(Fallback, <<At("model_fallback_action")>>)
  ELSE /\ Raise("error") /\ Forget
       /\ RecordAll(<<At("model_repair_exhausted")>>)
       /\ UNCHANGED <<action, stop, outcome>>

(* An answer that is no action, an action not offered, or an HTTP status   *)
(* that is not transient: the next repair attempt.                         *)
ModelErrs ==
  /\ pc = "model" /\ \E reply \in Replies : Unusable(reply)
  /\ IF retry.repair < MaxAttempts
     THEN /\ retry' = [NoRetry EXCEPT !.repair = retry.repair + 1]
          /\ calls' = calls + 1
          /\ RecordAll(<<At("model_error"), At("model_repair_attempt")>>)
          /\ UNCHANGED <<pc, action, ending>>
     ELSE FallBack
  /\ UNCHANGED <<outside, step, result, submission, revisions, checkpoint>>
(* A timeout, or transient errors that were retried often enough.          *)
TimesOut ==
  IF retry.timeout < TimeoutRetries
  THEN /\ retry' = [retry EXCEPT !.timeout = @ + 1, !.transient = 0]
       /\ calls' = calls + 1
       /\ RecordAll(<<At("model_timeout"), At("model_timeout_retry")>>)
       /\ UNCHANGED <<pc, raised>>
  ELSE /\ Raise("model") /\ Forget
       /\ RecordAll(<<At("model_timeout"), At("model_timeout_exhausted")>>)
ModelTimesOut ==
  /\ pc = "model" /\ \E reply \in Replies : Routed(reply) = "timeout"
  /\ TimesOut
  /\ UNCHANGED <<outside, step, action, result, submission, revisions, stop, outcome, checkpoint>>

ModelIsBusy ==
  /\ pc = "model" /\ \E reply \in Replies : Routed(reply) = "transient"
  /\ IF retry.transient < TransientRetries
     THEN /\ retry' = [retry EXCEPT !.transient = @ + 1] /\ calls' = calls + 1
          /\ UNCHANGED <<pc, raised, rows>>
     ELSE TimesOut
  /\ UNCHANGED <<outside, step, action, result, submission, revisions, stop, outcome, checkpoint>>

(* ------------------------------------------------------------------------*)
(* Act.                                                                    *)
(* ------------------------------------------------------------------------*)

(* An attack or use of the followed entity waits until the follow brought  *)
(* the agent close, ended, could not be observed or took too long; other   *)
(* actions pass at once.                                                   *)
MayWait == action = "work"
Handoff ==
  /\ pc = "handoff" /\ pc' = "act"
  /\ RecordAll(<<>>) \/ (MayWait /\ RecordAll(<<At("follow_handoff_wait")>>))
  /\ UNCHANGED <<outside, turn, ending, step, revisions, checkpoint>>

OkOf(r) == IF r \in {"failed", "stuck", "rpc_timeout", "action_timeout"} THEN "error" ELSE "ok"

(* After the call: the action_result and, when the worker did not answer   *)
(* in time, runtime_action_timeout; memory and trajectory follow.          *)
Returns(r, before) ==
  /\ result' = r /\ pc' = "revise"
  /\ RecordAll(before \o <<Event("action_result", step, OkOf(r))>> \o
               (IF r = "rpc_timeout" THEN <<At("runtime_action_timeout")>> ELSE <<>>))

Lookup ==
  /\ pc = "act" /\ action = "knowledge"
  /\ \E r \in {"ok", "failed"} : Returns(r, <<At("knowledge_tool_call")>>)
  /\ UNCHANGED <<outside, ending, step, retry, calls, action, submission, revisions, checkpoint>>

WorkerActs == action \in {"scan", "work", Fallback}
RuntimeActs ==
  /\ pc = "act" /\ WorkerActs /\ \E r \in Results : Returns(r, <<>>)
  /\ UNCHANGED <<outside, ending, step, retry, calls, action, submission, revisions, checkpoint>>

(* A TimeoutError of act: its effect is unknown, and the run goes on with  *)
(* what a fresh observation shows, or without one.                         *)
ActTimesOut ==
  /\ pc = "act" /\ WorkerActs
  /\ Returns("action_timeout", <<At("runtime_action_timeout")>>)
  /\ UNCHANGED <<outside, ending, step, retry, calls, action, submission, revisions, checkpoint>>

ActRaises == pc = "act" /\ WorkerActs /\ RuntimeError(step, {"error"})

(* A finish request asks the checker (a timeout is asked again once and is *)
(* then inconclusive); without one it is inconclusive.                     *)
(* An external task has no other verdict than inconclusive.                *)
TaskVerdicts == IF task.external THEN {"inconclusive"} ELSE Verdicts
AskedVerdicts == IF task.checker THEN TaskVerdicts ELSE {"inconclusive"}
Accepted(verdict) ==
  \/ verdict = "success"
  \/ verdict = "inconclusive" /\ (task.external \/ ~task.checker)
AcceptedAs(verdict) ==
  CASE verdict = "success" -> "agent_submitted_verified"
    [] verdict # "success" /\ task.external -> "agent_submitted_for_external_evaluation"
    [] OTHER -> "agent_finished_unverified"

Submit ==
  /\ pc = "act" /\ action = "submit"
  /\ \E verdict \in AskedVerdicts :
       /\ submission' = verdict
       /\ Returns(IF Accepted(verdict) THEN "ok" ELSE "failed", <<At("agent_finish_requested")>>)
  /\ UNCHANGED <<outside, ending, step, retry, calls, action, revisions, checkpoint>>
(* Mutant: one revision more than the policy allows.                       *)
ShouldReviseOnceMore ==
  /\ revisions >= 0 /\ revisions <= MaxRevisions
  /\ action = "scan" /\ result = "empty"

(* Evidence against the plan: an empty scan, a walk or a fight that failed.*)
ShouldRevise ==
  /\ revisions >= 0 /\ revisions < MaxRevisions
  /\ \/ action = "scan" /\ result = "empty"
     \/ action = "work" /\ result = "stuck"
Revise ==
  /\ pc = "revise" /\ pc' = "save"
  /\ IF ShouldRevise
     THEN /\ revisions' = revisions + 1
          /\ RecordAll(PlanEvents("agent_plan_revised"))
     ELSE UNCHANGED <<revisions, rows>>
  /\ UNCHANGED <<outside, turn, ending, step, checkpoint>>

(* An exception that is no ModelRouterError: nothing between here and the  *)
(* runner handles it.                                                      *)
ModelBreaks ==
  /\ \E reply \in Replies : Routed(reply) = "broken"
  /\ \/ pc \in {"plan", "model"}
     \/ pc = "revise" /\ ShouldRevise
  /\ Raise("error") /\ Forget
  /\ UNCHANGED <<outside, action, result, submission, step, revisions, stop, outcome,
                 checkpoint, rows>>

Save ==
  /\ pc = "save" /\ pc' = "check"
  /\ IF Interval > 0 /\ (step + 1) % Interval = 0
     THEN checkpoint' = step + 1 /\ RecordAll(<<At("checkpoint_saved")>>)
     ELSE UNCHANGED <<checkpoint, rows>>
  /\ UNCHANGED <<outside, turn, ending, step, revisions>>

(* ------------------------------------------------------------------------*)
(* The stop checks, in the order of the code, and the end of the loop.     *)
(* ------------------------------------------------------------------------*)
Stop(reason) == pc' = "finish" /\ stop' = reason /\ UNCHANGED step
(* Mutant: the step is not counted.                                        *)
SameStep == pc' = "observe" /\ UNCHANGED <<step, stop>>

NextStep == pc' = "observe" /\ step' = step + 1 /\ UNCHANGED stop

CheckResult ==
  /\ pc = "check" /\ result \in {"rpc_timeout", "terminated"}
  /\ Stop(IF result = "rpc_timeout" THEN "action_rpc_timeout" ELSE "action_terminated")
  /\ UNCHANGED <<outside, turn, revisions, raised, outcome, checkpoint, rows>>

CheckSubmission ==
  /\ pc = "check" /\ submission # None
  /\ IF Accepted(submission)
     THEN /\ Stop(AcceptedAs(submission))
          /\ RecordAll(<<At("step_verifier_result"),
                         Event("agent_finish_accepted", step, AcceptedAs(submission))>>)
     ELSE NextStep /\ RecordAll(<<At("step_verifier_result"), At("agent_finish_rejected")>>)
  /\ UNCHANGED <<outside, turn, revisions, raised, outcome, checkpoint>>

CheckSuccess ==
  /\ pc = "check" /\ submission = None /\ result \notin {"rpc_timeout", "terminated"}
  /\ \/ task.checker /\ "success" \in TaskVerdicts /\ Stop("success_checker")
     \/ NextStep
  /\ RecordAll(IF task.checker THEN <<At("step_verifier_result")>> ELSE <<>>)
  /\ UNCHANGED <<outside, turn, revisions, raised, outcome, checkpoint>>

Finish ==
  /\ pc = "finish" /\ pc' = "verify"
  /\ RecordAll(<<Event("run_finished", NoStep, stop)>>)
  /\ UNCHANGED <<outside, turn, ending, step, revisions, checkpoint>>

(* ------------------------------------------------------------------------*)
(* The runner around the loop.                                             *)
(* ------------------------------------------------------------------------*)

(* A last action without a definite result goes before verification.       *)
Unanswered == stop = "action_rpc_timeout"
RuntimeFailure ==
  /\ pc = "verify" /\ Unanswered
  /\ RecordAll(<<At("run_runtime_error")>>)
  /\ pc' = "close" /\ outcome' = "runtime_error"
  /\ UNCHANGED <<outside, turn, step, revisions, stop, raised, checkpoint>>

(* A verifier that times out twice is inconclusive.                        *)
FinalVerdicts == TaskVerdicts \cup {"inconclusive"}
Verify ==
  /\ pc = "verify" /\ ~Unanswered
  /\ \E verdict \in FinalVerdicts :
       /\ RecordAll(<<Event("verifier_result", NoStep, verdict)>>)
       /\ pc' = IF verdict = "inconclusive" THEN "inconclusive" ELSE "close"
       /\ outcome' = CASE verdict = "success" -> "succeeded"
                       [] verdict = "failure" -> "failed"
                       [] OTHER -> "verification_inconclusive"
  /\ UNCHANGED <<outside, turn, step, revisions, stop, raised, checkpoint>>

Inconclusive ==
  /\ pc = "inconclusive" /\ pc' = "close"
  /\ RecordAll(<<Plainly("run_verification_inconclusive")>>)
  /\ UNCHANGED <<outside, turn, ending, step, revisions, checkpoint>>

VerifierRaises ==
  /\ pc = "verify" /\ ~Unanswered /\ Raise("error")
  /\ UNCHANGED <<outside, turn, step, revisions, stop, outcome, checkpoint, rows>>

(* wait_for: the time limit of the task cancels the loop at any await.     *)
TimeLimit ==
  /\ InLoop /\ pc # "load" /\ Raise("timeout") /\ Forget
  /\ UNCHANGED <<outside, action, result, submission, step, revisions, stop, outcome, checkpoint, rows>>
Cancel ==
  /\ pc \notin {"load", "raised", "close", "done", "lost"} /\ Raise("cancelled") /\ Forget
  /\ UNCHANGED <<outside, action, result, submission, step, revisions, stop, outcome, checkpoint, rows>>
(* The exception handlers of _run_one; a cancellation is raised again.     *)
HandlerEvents ==
  CASE raised = "model" -> <<At("run_model_timeout")>>
    [] raised = "timeout" -> <<Plainly("run_task_timeout")>>
    [] raised = "cancelled" -> <<Plainly("run_interrupted")>>
    [] raised = "error" -> <<Plainly("runtime_error"), Plainly("run_failed")>>
Handle ==
  /\ pc = "raised" /\ pc' = "close"
  /\ RecordAll(HandlerEvents)
  /\ outcome' = CASE raised = "model" -> "model_timeout"
                  [] raised = "timeout" -> "task_timeout"
                  [] raised = "error" -> "runtime_error"
                  [] OTHER -> None
  /\ UNCHANGED <<outside, turn, step, revisions, stop, raised, checkpoint>>

(* finally: a failing close is recorded if there is a run to record it in. *)
Close ==
  /\ pc = "close" /\ pc' = "done"
  /\ RecordAll(<<>>) \/ (rows # NoRows /\ RecordAll(<<Plainly("runtime_error")>>))
  /\ UNCHANGED <<outside, turn, ending, step, revisions, checkpoint>>

(* ------------------------------------------------------------------------*)
(* Loss and resume; the process guard of the script; the world outside.    *)
(* ------------------------------------------------------------------------*)
Lose ==
  /\ pc \notin {"load", "done", "lost"} /\ losses < MaxLosses
  /\ pc' = "lost" /\ losses' = losses + 1
  /\ UNCHANGED <<task, turn, ending, step, revisions, checkpoint, evaluation, rows>>

(* _mark_job_runs_interrupted, when the script outlived its task.          *)
Guard ==
  /\ pc = "lost" /\ rows.status = "running"
  /\ pc' = "done" /\ raised' = "cancelled" /\ outcome' = None
  /\ RecordAll(<<Plainly("run_interrupted")>>)
  /\ UNCHANGED <<outside, turn, step, revisions, stop, checkpoint>>

(* A new process with resume set and the run_id of the lost one.           *)
Resume ==
  /\ pc = "lost" /\ pc' = "load" /\ Interval > 0
  /\ step' = 0 /\ retry' = NoRetry /\ calls' = 0 /\ revisions' = NoStep
  /\ action' = None /\ result' = None /\ submission' = None
  /\ stop' = None /\ raised' = None /\ outcome' = None
  /\ UNCHANGED <<outside, checkpoint, rows>>

(* run_week11_creative_evaluation.py on the finished run: its evidence,    *)
(* then its verdict, which it declares not authoritative.                  *)
Evaluate ==
  /\ task.external /\ pc = "done" /\ rows.status # None /\ evaluation = None
  /\ evaluation' = "evidence"
  /\ RecordAll(<<Plainly("creative_evaluation_completed")>>)
  /\ UNCHANGED <<task, pc, turn, ending, step, revisions, checkpoint, losses>>
Advise ==
  /\ evaluation = "evidence" /\ evaluation' = "verdict"
  /\ RecordAll(<<Event("verifier_result", NoStep, "advisory")>>)
  /\ UNCHANGED <<task, pc, turn, ending, step, revisions, checkpoint, losses>>

Review ==
  /\ Decidable(rows)
  /\ \E decision \in Decisions : rows' = Decided(rows, decision)
  /\ UNCHANGED <<outside, pc, turn, ending, step, revisions, checkpoint>>

Attempt ==
  \/ LoadFails \/ Start \/ ResetRaises \/ StepsExhausted \/ Observe \/ ObserveRaises \/ Plan
  \/ ModelChooses \/ ModelErrs \/ ModelTimesOut \/ ModelIsBusy \/ ModelBreaks
  \/ Handoff \/ Lookup \/ RuntimeActs \/ ActTimesOut \/ ActRaises \/ Submit \/ Revise \/ Save
  \/ CheckResult \/ CheckSubmission \/ CheckSuccess \/ Finish
  \/ RuntimeFailure \/ Verify \/ Inconclusive \/ VerifierRaises \/ Handle \/ Close
Environment ==
  \/ TimeLimit \/ Cancel \/ Lose \/ Guard \/ Resume \/ Evaluate \/ Advise \/ Review
Next == Attempt \/ Environment

Spec == Init /\ [][Next]_vars
(* Every call of the attempt has a deadline of its own, and the event loop *)
(* runs it on when the call is over.                                       *)
FairSpec == Spec /\ WF_vars(Attempt)

(* ------------------------------------------------------------------------*)
(* Properties.                                                             *)
(* ------------------------------------------------------------------------*)
TypeOK ==
  /\ task \in Tasks /\ pc \in Phases /\ step \in Rounds /\ calls \in Nat
  /\ retry \in [repair : 0 .. MaxAttempts, timeout : 0 .. TimeoutRetries,
                transient : 0 .. TransientRetries]
  /\ action \in ActionKinds \cup {None, Fallback}
  /\ result \in Results \cup {None, "action_timeout"}
  /\ submission \in Verdicts \cup {None}
  /\ revisions \in NoStep .. MaxRevisions
  /\ stop \in StopReasons \cup {None} /\ raised \in Errors \cup {None}
  /\ checkpoint \in Rounds /\ losses \in 0 .. MaxLosses
  /\ outcome \in Statuses \cup {None} /\ evaluation \in {None, "evidence", "verdict"}
  /\ rows \in Rows

StatusesOf(o) ==
  CASE o = "verification_inconclusive" -> {o, "awaiting_human_review"}
    [] o = "runtime_error" -> {o, "failed"}
    [] o = None -> {"cancelled"}
    [] OTHER -> {o}

(* When the attempt is over and no reviewer has decided, the run row says  *)
(* what the outcome in the report says, whatever order of events led there.*)
StatusTellsOutcome ==
  pc = "done" /\ rows # NoRows /\ rows.review \notin Decisions =>
    rows.status \in StatusesOf(outcome) \cup
      (IF evaluation = None THEN {} ELSE {"awaiting_human_review"})

(* No round of an attempt that is over is still shown as active: whichever *)
(* way the loop was left, a terminal event came after the last event of a  *)
(* round.                                                                  *)
RoundsAreClosed ==
  pc = "done" => \A s \in Rounds : rows.spans[s] # "active"

(* The rows of the steps have no gap, hold every step before the present   *)
(* one and every step before the checkpoint, and a resumed run does not    *)
(* execute a step again that its checkpoint covers.                        *)
HistoryIsWhole ==
  /\ \A s \in rows.steps : 0 .. s \subseteq rows.steps
  /\ \A s \in Rounds : s < step \/ s < checkpoint => s \in rows.steps
  /\ pc \in {"handoff", "act"} => step >= checkpoint

(* The nested retries never make more calls for one step than their limits *)
(* multiply to: the call that is next is within that product.              *)
RetriesBounded ==
  pc = "model" => calls < (MaxAttempts + 1) * (TimeoutRetries + 1) * (TransientRetries + 1)

(* The audit tables tell how the run went, whatever ended it and however   *)
(* often it was resumed.                                                   *)
RecordsTellTheRun == StatusTellsOutcome /\ RoundsAreClosed /\ HistoryIsWhole /\ RetriesBounded

(* What a reviewer decided about a run whose attempt is over stays its     *)
(* status: evaluations that come later only add evidence.                  *)
LateDecisionStands ==
  [][pc = "done" /\ rows.review \in Decisions => rows'.status = rows.status]_vars

(* docs/week11-development.md: nothing overwrites the human result.        *)
HumanDecisionStands ==
  [][rows.review \in Decisions => rows'.status = rows.status]_vars

(* An attempt ends, unless its process is lost.                            *)
AttemptEnds == <>(pc \in {"done", "lost"})
=============================================================================
