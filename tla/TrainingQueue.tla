---------------------------- MODULE TrainingQueue ----------------------------
(***************************************************************************)
(* The parallel training runner: requests and stop items on one queue,     *)
(* workers that take an item each, and the report made from what they      *)
(* return. The list of the Redis backend outlives the process and is       *)
(* found again by a later run of the same job.                             *)
(*                                                                         *)
(* Everything between two awaits is one step; the list and the mirror of   *)
(* the states in Redis are written in steps of their own.                  *)
(***************************************************************************)
EXTENDS Integers, SequencesExt, FiniteSetsExt

CONSTANTS
  Tasks,        \* task ids of the manifests, none twice
  Concurrency,  \* worker_concurrency
  Results,      \* how a task may end, of the five terminal statuses
  MaxRuns,      \* bound: runs of the job
  MaxFaults     \* bound: Redis calls that fail, losses of the process

VARIABLES
  backend,   \* "memory" or "redis"
  phase,     \* "idle", "enqueue", "work", "reported", "failed"
  selected,  \* selected_task_ids
  list,      \* the queue
  sent,      \* requests and stop items enqueued in this run
  states,    \* status per request, _states
  remote,    \* the same in Redis
  worker,    \* what every worker does and with which request
  outcomes,  \* per worker, what it returns
  active, highest,   \* _active_count, _max_observed_concurrency
  report,
  clean,     \* ghost: the list was empty when the run began
  runs, faults

vars == <<backend, phase, selected, list, sent, states, remote, worker, outcomes, active, highest,
          report, clean, runs, faults>>

Stop == "stop"
None == "none"
WorkerCount == IF Len(selected) < Concurrency THEN Len(selected) ELSE Concurrency
Workers == 1 .. WorkerCount
NoReport == [status |-> None, outcomes |-> <<>>]
NoStates == [t \in {} |-> None]

Init ==
  /\ backend \in {"memory", "redis"} /\ phase = "idle" /\ selected = <<>> /\ list = <<>>
  /\ sent = 0 /\ states = NoStates /\ remote = NoStates /\ worker = <<>> /\ outcomes = <<>>
  /\ active = 0 /\ highest = 0 /\ report = NoReport /\ clean = TRUE /\ runs = 0 /\ faults = 0

(* ------------------------------------------------------------------------*)
(* The run.                                                                *)
(* ------------------------------------------------------------------------*)
(* A run selects tasks; the queue object is new, the Redis list is not.    *)
Run ==
  /\ phase \in {"idle", "reported", "failed"} /\ runs < MaxRuns /\ runs' = runs + 1
  /\ \E chosen \in SUBSET Tasks : selected' = SetToSeq(chosen)
  /\ list' = (IF backend = "redis" THEN list ELSE <<>>) /\ clean' = (list' = <<>>)
  /\ phase' = "enqueue" /\ sent' = 0 /\ states' = NoStates /\ active' = 0 /\ highest' = 0
  /\ worker' = <<>> /\ outcomes' = <<>> /\ report' = NoReport
  /\ UNCHANGED <<backend, remote, faults>>

Put(map, task, status) == [t \in DOMAIN map \cup {task} |-> IF t = task THEN status ELSE map[t]]
(* Mutant: a request that Redis already has is left as it is.              *)
MirroredOnce(task, status) ==
  IF backend = "redis" /\ task \notin DOMAIN remote THEN Put(remote, task, status) ELSE remote

Mirrored(task, status) == IF backend = "redis" THEN Put(remote, task, status) ELSE remote

Enqueue ==
  /\ phase = "enqueue" /\ sent < Len(selected)
  /\ LET task == selected[sent + 1]
     IN /\ states' = Put(states, task, "queued") /\ list' = Append(list, task)
        /\ remote' = Mirrored(task, "queued")
  /\ sent' = sent + 1
  /\ UNCHANGED <<backend, phase, selected, worker, outcomes, active, highest, report, clean, runs,
                 faults>>
(* One stop item for every worker.                                         *)
StopItems == WorkerCount
CloseForWorkers ==
  /\ phase = "enqueue" /\ sent >= Len(selected) /\ sent < Len(selected) + StopItems
  /\ list' = Append(list, Stop) /\ sent' = sent + 1
  /\ UNCHANGED <<backend, phase, selected, states, remote, worker, outcomes, active, highest, report,
                 clean, runs, faults>>

Gather ==
  /\ phase = "enqueue" /\ sent = Len(selected) + StopItems
  /\ phase' = "work" /\ worker' = [w \in Workers |-> [pc |-> "get", task |-> None, status |-> None]]
  /\ outcomes' = [w \in Workers |-> <<>>]
  /\ UNCHANGED <<backend, selected, list, sent, states, remote, active, highest, report, clean, runs,
                 faults>>

(* ------------------------------------------------------------------------*)
(* A worker.                                                               *)
(* ------------------------------------------------------------------------*)
At(w, pc) == phase = "work" /\ worker[w].pc = pc
Goes(w, pc, task, status) ==
  worker' = [worker EXCEPT ![w] = [pc |-> pc, task |-> task, status |-> status]]

Get(w) ==
  /\ At(w, "get") /\ list # <<>> /\ list' = Tail(list)
  /\ IF Head(list) = Stop THEN Goes(w, "returned", None, None) ELSE Goes(w, "taken", Head(list), None)
  /\ UNCHANGED <<backend, phase, selected, sent, states, remote, outcomes, active, highest, report,
                 clean, runs, faults>>

MarkStarted(w) ==
  /\ At(w, "taken") /\ states' = Put(states, worker[w].task, "running")
  /\ active' = active + 1 /\ highest' = (IF active' > highest THEN active' ELSE highest)
  /\ Goes(w, IF backend = "redis" THEN "started" ELSE "running", worker[w].task, None)
  /\ UNCHANGED <<backend, phase, selected, list, sent, remote, outcomes, report, clean, runs, faults>>

(* The benchmark of the task in its budgets, every exception is caught.    *)
RunOne(w) ==
  /\ At(w, "running") /\ \E s \in Results : Goes(w, "ran", worker[w].task, s)
  /\ UNCHANGED <<backend, phase, selected, list, sent, states, remote, outcomes, active, highest,
                 report, clean, runs, faults>>

MarkFinished(w) ==
  /\ At(w, "ran") /\ states' = Put(states, worker[w].task, worker[w].status)
  /\ active' = IF active > 0 THEN active - 1 ELSE 0
  /\ Goes(w, "finished", worker[w].task, worker[w].status)
  /\ UNCHANGED <<backend, phase, selected, list, sent, remote, outcomes, highest, report, clean, runs,
                 faults>>

(* The mirror is written with the state that is there by then.             *)
Mirror(w) ==
  /\ backend = "redis" /\ At(w, "started")
  /\ remote' = Mirrored(worker[w].task, states[worker[w].task])
  /\ Goes(w, "running", worker[w].task, None)
  /\ UNCHANGED <<backend, phase, selected, list, sent, states, outcomes, active, highest, report, clean,
                 runs, faults>>

Outcome(w) == [task |-> worker[w].task, status |-> worker[w].status]
AddOutcome(w) ==
  /\ At(w, "finished") /\ outcomes' = [outcomes EXCEPT ![w] = Append(@, Outcome(w))]
  /\ remote' = Mirrored(worker[w].task, states[worker[w].task])
  /\ Goes(w, "get", None, None)
  /\ UNCHANGED <<backend, phase, selected, list, sent, states, active, highest, report, clean, runs,
                 faults>>

(* ------------------------------------------------------------------------*)
(* The report: what the workers returned, sorted by the selection, and a   *)
(* task of an earlier run has no place in that order. The sorting itself   *)
(* is left out, an outcome is named by its worker and its place there.     *)
(* ------------------------------------------------------------------------*)
Positions(returned) == UNION {{<<w, i>> : i \in DOMAIN returned[w]} : w \in DOMAIN returned}
JobStatus ==
  IF Positions(outcomes) = {} THEN "empty"
  ELSE IF \A p \in Positions(outcomes) : outcomes[p[1]][p[2]].status = "succeeded" THEN "succeeded"
  ELSE "completed_with_failures"
Report ==
  /\ phase = "work" /\ \A w \in Workers : worker[w].pc = "returned"
  /\ IF \A p \in Positions(outcomes) : outcomes[p[1]][p[2]].task \in ToSet(selected)
     THEN phase' = "reported" /\ report' = [status |-> JobStatus, outcomes |-> outcomes]
     ELSE phase' = "failed" /\ UNCHANGED report
  /\ UNCHANGED <<backend, selected, list, sent, states, remote, worker, outcomes, active, highest,
                 clean, runs, faults>>

(* A Redis call fails or the process is lost: the run ends without report. *)
Fails ==
  /\ phase \in {"enqueue", "work"} /\ faults < MaxFaults /\ faults' = faults + 1
  /\ phase' = "failed"
  /\ UNCHANGED <<backend, selected, list, sent, states, remote, worker, outcomes, active, highest,
                 report, clean, runs>>

Next ==
  \/ Run \/ Enqueue \/ CloseForWorkers \/ Gather \/ Report \/ Fails
  \/ \E w \in DOMAIN worker :
       Get(w) \/ MarkStarted(w) \/ RunOne(w) \/ MarkFinished(w) \/ Mirror(w) \/ AddOutcome(w)

Spec == Init /\ [][Next]_vars

(* ------------------------------------------------------------------------*)
(* Properties.                                                             *)
(* ------------------------------------------------------------------------*)
TypeOK ==
  /\ phase \in {"idle", "enqueue", "work", "reported", "failed"} /\ ToSet(selected) \subseteq Tasks
  /\ ToSet(list) \subseteq Tasks \cup {Stop} /\ sent \in 0 .. 2 * Cardinality(Tasks)
  /\ DOMAIN states \subseteq Tasks /\ active \in 0 .. Concurrency /\ highest \in active .. Concurrency
  /\ faults \in 0 .. MaxFaults

(* No worker waits for ever: there is a stop item for each that has not    *)
(* returned, also when the list held items of an earlier run.              *)
StopForEveryWorker ==
  phase = "work" =>
    Cardinality({w \in Workers : worker[w].pc # "returned"})
      <= Cardinality({i \in DOMAIN list : list[i] = Stop})

(* A run that began with an empty list reports every task it selected      *)
(* once, with the status that the queue shows for it, in Redis too; and no *)
(* request is worked on twice.                                             *)
ReportIsComplete ==
  /\ phase = "reported" /\ clean =>
       /\ \A t \in ToSet(selected) : \E p \in Positions(report.outcomes) :
            /\ report.outcomes[p[1]][p[2]] = [task |-> t, status |-> states[t]]
            /\ backend = "redis" => remote[t] = states[t]
       /\ \A p, q \in Positions(report.outcomes) :
            report.outcomes[p[1]][p[2]].task = report.outcomes[q[1]][q[2]].task => p = q
       /\ list = <<>> /\ active = 0
  /\ phase = "work" /\ clean => \A v, w \in Workers :
       worker[v].task = worker[w].task /\ worker[v].task # None => v = w

(* Both: the queue of the week 9 runner, in memory and in Redis.           *)
QueueIsServed == StopForEveryWorker /\ ReportIsComplete
=============================================================================
