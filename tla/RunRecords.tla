---------------------------- MODULE RunRecords ----------------------------
(***************************************************************************)
(* What PersistentEvaluationRecorder.record and the review request make of *)
(* the rows of one run: the status of the run, the span of every round,    *)
(* the rows of the steps, the human review and the creative evaluation.    *)
(* Every operator maps the rows before one transaction to the rows after.  *)
(***************************************************************************)
EXTENDS Integers, SequencesExt

CONSTANT MaxSteps        \* steps a run may have

ASSUME StepsAssumption == MaxSteps \in Nat \ {0}

(* A run resumed after its last step loads a checkpoint for round MaxSteps. *)
Rounds == 0 .. MaxSteps
NoStep == -1
None == "none"

Operational == {"cancelled", "model_timeout", "runtime_error", "task_timeout"}
Statuses == Operational \cup
  {"running", "terminated", "completed", "completed_unverified", "awaiting_human_review",
   "failed", "succeeded", "verification_inconclusive", "revision_requested"}
Decisions == {"approved", "rejected", "revision_requested", "inconclusive"}
SpanStatuses == {None, "active", "interrupted", "ok", "error"}

Rows == [status : Statuses \cup {None},
         review : Decisions \cup {None, "awaiting_review"}, evaluation : BOOLEAN,
         steps : SUBSET Rounds, spans : [Rounds -> SpanStatuses]]
NoRows == [status |-> None, review |-> None, evaluation |-> FALSE,
           steps |-> {}, spans |-> [s \in Rounds |-> None]]

(* An event: its type, its step_index and the one detail the recorder      *)
(* looks at (stop reason, verdict, ok or not ok, authoritative or not).    *)
Event(type, step, info) == [type |-> type, step |-> step, info |-> info]
(* Mutant: a model timeout does not close the rounds.                      *)
RunTerminalButTimeout == {"run_failed", "run_finished", "run_interrupted", "run_runtime_error",
                          "run_task_timeout", "run_verification_inconclusive"}

RunTerminal == {"run_failed", "run_finished", "run_interrupted", "run_model_timeout",
                "run_runtime_error", "run_task_timeout", "run_verification_inconclusive"}

(* Events that set the status whatever it was before.                      *)
Plain == [run_started |-> "running", run_failed |-> "failed", run_interrupted |-> "cancelled",
          run_model_timeout |-> "model_timeout", run_task_timeout |-> "task_timeout",
          run_runtime_error |-> "runtime_error"]

StatusWhenFinished(reason) ==
  CASE reason = "agent_submitted_for_external_evaluation" -> "awaiting_human_review"
    [] reason = "agent_finished_unverified" -> "completed_unverified"
    [] reason = "max_steps_exhausted" -> "completed"
    [] OTHER -> "terminated"

Pending(d) == d.review = "awaiting_review"

(* verifier_result: an operational end stands, an undecided review comes   *)
(* before the verdict, an advisory verdict says nothing.                   *)
StatusWhenVerified(d, verdict) ==
  CASE d.status \in Operational -> d.status
    [] d.status \notin Operational /\ Pending(d) -> "awaiting_human_review"
    [] d.status \notin Operational /\ ~Pending(d) ->
         CASE verdict = "success" -> "succeeded"
           [] verdict = "inconclusive" -> "verification_inconclusive"
           [] verdict = "failure" -> "failed"
           [] OTHER -> d.status

StatusWhenInconclusive(d) ==
  CASE d.status \in Operational -> d.status
    [] d.status \notin Operational /\ Pending(d) -> "awaiting_human_review"
    [] OTHER -> "verification_inconclusive"

StatusAfter(d, e) ==
  CASE e.type \in DOMAIN Plain -> Plain[e.type]
    [] e.type = "run_finished" -> StatusWhenFinished(e.info)
    [] e.type = "verifier_result" -> StatusWhenVerified(d, e.info)
    [] e.type = "run_verification_inconclusive" -> StatusWhenInconclusive(d)
    [] OTHER -> d.status

(* A run row is created as running by whatever event comes first.          *)
EnsureRun(d, e) ==
  LET r == IF d.status = None THEN [d EXCEPT !.status = "running"] ELSE d
  IN [r EXCEPT !.status = StatusAfter(r, e)]

RoundTerminal(e) ==
  CASE e.type = "action_result" -> e.info
    [] e.type \in {"runtime_error", "runtime_action_timeout"} -> "error"
    [] OTHER -> None
Rank == [s \in SpanStatuses |-> CASE s = "error" -> 3 [] s = "ok" -> 2
                                  [] s = "interrupted" -> 1 [] OTHER -> 0]

SpanAfter(span, e) ==
  LET open == IF span = None \/ (e.type = "observation" /\ span = "interrupted")
              THEN "active" ELSE span
      end == RoundTerminal(e)
  IN IF end # None /\ Rank[end] >= Rank[open] THEN end ELSE open
EnsureSpan(d, e) ==
  IF e.step = NoStep THEN d ELSE [d EXCEPT !.spans[e.step] = SpanAfter(@, e)]
FinalizeSpans(d, e) ==
  IF e.type \notin RunTerminal THEN d
  ELSE [d EXCEPT !.spans = [s \in Rounds |-> IF d.spans[s] = "active" THEN "interrupted"
                                            ELSE d.spans[s]]]
(* Mutant: evidence puts even a decided run back into the queue.           *)
EvaluatedAgain(d) ==
  [d EXCEPT !.evaluation = TRUE, !.review = IF @ = None THEN "awaiting_review" ELSE @,
            !.status = IF @ \in Operational THEN @ ELSE "awaiting_human_review"]

(* The evaluation of a creative run attaches evidence: the review is       *)
(* opened if there is none, and an undecided one puts the run in its queue.*)
Evaluated(d) ==
  LET r == [d EXCEPT !.evaluation = TRUE, !.review = IF @ = None THEN "awaiting_review" ELSE @]
  IN IF Pending(r) /\ r.status \notin Operational
     THEN [r EXCEPT !.status = "awaiting_human_review"] ELSE r
Submitted(d) == [d EXCEPT !.review = IF @ = None THEN "awaiting_review" ELSE @]

Specialized(d, e) ==
  CASE e.type = "action_result" -> [d EXCEPT !.steps = @ \cup {e.step}]
    [] e.type \in {"creative_evaluation_completed", "creative_evaluation_inconclusive"} ->
         Evaluated(d)
    [] e.type = "agent_finish_accepted"
         /\ e.info = "agent_submitted_for_external_evaluation" -> Submitted(d)
    [] OTHER -> d

(* One call of record, one transaction.                                    *)
Recorded(d, e) == Specialized(FinalizeSpans(EnsureSpan(EnsureRun(d, e), e), e), e)

StatusForDecision(decision) ==
  CASE decision = "approved" -> "succeeded"
    [] decision = "rejected" -> "failed"
    [] decision = "revision_requested" -> "revision_requested"
    [] decision = "inconclusive" -> "verification_inconclusive"

(* decide_human_review, for a request that carries the current version.    *)
Decidable(d) == Pending(d)
Decided(d, decision) ==
  [d EXCEPT !.review = decision, !.status = StatusForDecision(decision)]
=============================================================================
