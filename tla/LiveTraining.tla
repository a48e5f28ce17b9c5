---------------------------- MODULE LiveTraining ----------------------------
(***************************************************************************)
(* The parallel live-training job of training/live_runner.py together with *)
(* the wave checkpoint of scripts/run_week10_live_training.py: waves of    *)
(* tasks drained from one asyncio.Queue by a pool of workers, per-attempt  *)
(* retries, recovery of a worker whose action state is unknown, the wave   *)
(* checkpoint, process crashes and resumes, and the skill updates that     *)
(* wait for the end of the batch.                                          *)
(*                                                                         *)
(* One step is what runs between two suspension points of the asyncio      *)
(* loop.  An attempt's internals are abstracted to the way it ends.        *)
(***************************************************************************)
EXTENDS Naturals, Sequences, SequencesExt

CONSTANTS
  Waves,                \* sequence of task sequences (the wave plan)
  TaskOrder,            \* TaskOrder[t]: index of t in the requested task_ids
  WorkerCount,          \* size of the worker pool
  MaxTaskRetries,       \* config.max_task_retries
  ModelTimeoutRequeues, \* config.model_timeout_requeues
  WorkerFailureRequeues,\* config.worker_failure_requeues
  Endings,              \* the ways an attempt may end in this instance
  Revisions,            \* contents the skill and learning tables can have
  MaxCrashes,           \* bound: process losses (kill, cancellation, error)
  MaxForeignWrites,     \* bound: writes by other users of the same database
  RecorderMayFail,      \* may recording an event raise out of an attempt?
  NoTask, NoVerdict, NoReport, NoRevision

(* Statuses of _outcome; "worker_unresponsive" is a runtime_error whose    *)
(* failure class asks for recovery, "not_retryable" one whose message has  *)
(* a non-retryable marker.                                                 *)
AllEndings == {"succeeded", "failed", "verification_inconclusive", "model_timeout",
               "task_timeout", "runtime_error", "worker_unresponsive", "not_retryable"}

TasksOf(n) == UNION {ToSet(Waves[i]) : i \in 1 .. n}
AllTasks == TasksOf(Len(Waves))
Workers == 1 .. WorkerCount

(* What _normalized_task_waves leaves: no empty wave, no task twice.       *)
ASSUME WavesAssumption ==
  /\ Waves \in Seq(Seq(AllTasks))
  /\ \A i \in DOMAIN Waves : Waves[i] # <<>>
  /\ \A i, j \in DOMAIN Waves : \A a \in DOMAIN Waves[i], b \in DOMAIN Waves[j] :
       Waves[i][a] = Waves[j][b] => i = j /\ a = b
  /\ TaskOrder \in [AllTasks -> Nat]
  /\ NoTask \notin AllTasks

ASSUME ConfigAssumption ==
  /\ WorkerCount \in Nat \ {0}
  /\ MaxTaskRetries \in Nat
  /\ ModelTimeoutRequeues \in Nat
  /\ WorkerFailureRequeues \in Nat
  /\ Endings \subseteq AllEndings
  /\ NoRevision \notin Revisions
  /\ MaxCrashes \in Nat
  /\ MaxForeignWrites \in Nat
  /\ RecorderMayFail \in BOOLEAN

Request == [task : AllTasks, attempt : Nat \ {0}]
Sentinel == [task |-> NoTask, attempt |-> 0]
(* skills is the revision of the snapshot the attempt's prompts came from. *)
Outcome == [task : AllTasks, attempt : Nat \ {0}, status : AllEndings, skills : Revisions]

NoCheckpoint == [stage |-> "none", waves |-> 0, outcomes |-> {}, revision |-> NoRevision]
Checkpoint == [stage : {"none", "executing", "complete"}, waves : 0 .. Len(Waves),
               outcomes : SUBSET Outcome, revision : Revisions \cup {NoRevision}]

VARIABLES
  main,       \* what LiveTrainingRunner.run is doing; "down": no process
  wave,       \* completed waves, as the process counts them
  attempts,   \* attempt_outcomes of the completed waves
  snapshot,   \* revision of the skill and learning snapshots of this process
  queue,      \* the wave's asyncio.Queue
  unfinished, \* its _unfinished_tasks counter
  pc,         \* pc[w]: where the worker loop of w is
  held,       \* held[w]: the request w took last
  results,    \* outcomes in the worker loops' lists
  todo,       \* outcomes _finalize_skill_updates has still to settle
  checkpoint, \* the checkpoint file
  library,    \* revision of the skill and learning tables
  settled,    \* attempts whose skill and learning updates are in the database
  report,     \* the report file: final outcome per task
  crashes, foreign \* counters of the two bounds

loopVars == <<queue, unfinished, pc, held, results>>
durableVars == <<checkpoint, library, settled, report>>
boundVars == <<crashes, foreign>>
vars == <<main, wave, attempts, snapshot, todo, loopVars, durableVars, boundVars>>

IdleLoops == /\ queue' = <<>>
             /\ unfinished' = 0
             /\ pc' = [w \in Workers |-> "off"]
             /\ held' = [w \in Workers |-> Sentinel]
             /\ results' = {}

Init == /\ main = "down"
        /\ wave = 0
        /\ attempts = {}
        /\ snapshot = NoRevision
        /\ queue = <<>>
        /\ unfinished = 0
        /\ pc = [w \in Workers |-> "off"]
        /\ held = [w \in Workers |-> Sentinel]
        /\ results = {}
        /\ todo = {}
        /\ checkpoint = NoCheckpoint
        /\ library \in Revisions
        /\ settled = {}
        /\ report = NoReport
        /\ crashes = 0
        /\ foreign = 0
-----------------------------------------------------------------------------
(* Retry policy                                                            *)

RecoveryRequired(ending) == ending = "worker_unresponsive"

Retryable(ending) == ending \notin {"succeeded", "not_retryable"}

(* Mutant: a success counts as repeatable too. *)
ShouldRetryAnything(attempt, ending) == attempt <= MaxTaskRetries

(* attempt <= the largest of the limits that apply to this ending.         *)
ShouldRetry(attempt, ending) ==
  /\ Retryable(ending)
  /\ \/ attempt <= MaxTaskRetries
     \/ ending = "model_timeout" /\ attempt <= ModelTimeoutRequeues
     \/ RecoveryRequired(ending) /\ attempt <= WorkerFailureRequeues

(* _final_task_outcomes: the last success, else the last attempt.          *)
FinalOutcome(task, outcomes) ==
  LET mine == {o \in outcomes : o.task = task}
      won  == {o \in mine : o.status = "succeeded"}
      pool == IF won # {} THEN won ELSE mine
  IN  CHOOSE o \in pool : \A p \in pool : p.attempt <= o.attempt

FinalOutcomes(outcomes) ==
  [task \in {o.task : o \in outcomes} |-> FinalOutcome(task, outcomes)]
-----------------------------------------------------------------------------
(* The process: start, resume, loss                                        *)

(* Mutant: the snapshot revisions of the checkpoint are not compared. *)
ResumeUnchecked == TRUE

(* A start with an incomplete checkpoint is refused when the tables have   *)
(* changed since, unless only the settling of skills is left.              *)
ResumeValid ==
  \/ checkpoint.stage = "none"
  \/ checkpoint.waves = Len(Waves)
  \/ checkpoint.revision = library

(* Mutant: the checkpoint is ignored and every wave runs again. *)
LaunchFromScratch ==
  /\ main = "down"
  /\ checkpoint.stage # "complete"
  /\ main' = "next"
  /\ snapshot' = library
  /\ UNCHANGED <<wave, attempts, todo, loopVars, durableVars, boundVars>>

Launch ==
  /\ main = "down"
  /\ checkpoint.stage # "complete"
  /\ ResumeValid
  /\ main' = "next"
  /\ wave' = checkpoint.waves
  /\ attempts' = checkpoint.outcomes
  /\ snapshot' = library
  /\ UNCHANGED <<todo, loopVars, durableVars, boundVars>>

(* Everything in memory is gone; files and tables stay.                    *)
LoseProcess ==
  /\ crashes < MaxCrashes
  /\ crashes' = crashes + 1
  /\ main' = "down"
  /\ wave' = 0
  /\ attempts' = {}
  /\ snapshot' = NoRevision
  /\ todo' = {}
  /\ IdleLoops
  /\ UNCHANGED <<durableVars, foreign>>

Crash == main \notin {"down", "reported"} /\ LoseProcess

(* Another job, or a reviewer on the dashboard, changes the tables.        *)
ForeignWrite ==
  /\ foreign < MaxForeignWrites
  /\ foreign' = foreign + 1
  /\ library' \in Revisions \ {library}
  /\ UNCHANGED <<main, wave, attempts, snapshot, todo, loopVars,
                 checkpoint, settled, report, crashes>>
-----------------------------------------------------------------------------
(* One wave: _run_wave and the worker loops                                *)

CurrentWave == Waves[wave + 1]

ActiveCount == IF WorkerCount <= Len(CurrentWave) THEN WorkerCount ELSE Len(CurrentWave)

StartWave ==
  /\ main = "next"
  /\ wave < Len(Waves)
  /\ main' = "join"
  /\ queue' = [i \in 1 .. Len(CurrentWave) |-> [task |-> CurrentWave[i], attempt |-> 1]]
  /\ unfinished' = Len(CurrentWave)
  /\ pc' = [w \in Workers |-> IF w <= ActiveCount THEN "get" ELSE "off"]
  /\ UNCHANGED <<wave, attempts, snapshot, held, results, todo, durableVars, boundVars>>

(* queue.get() hands the oldest item to one waiting worker.                *)
Take(w) ==
  /\ pc[w] = "get"
  /\ queue # <<>>
  /\ Head(queue) # Sentinel
  /\ held' = [held EXCEPT ![w] = Head(queue)]
  /\ queue' = Tail(queue)
  /\ pc' = [pc EXCEPT ![w] = "run"]
  /\ UNCHANGED <<main, wave, attempts, snapshot, unfinished, results, todo,
                 durableVars, boundVars>>

(* The attempt is over: its outcome is kept, and either the request is     *)
(* done or the worker prepares a retry.                                    *)
Finish(w, ending) ==
  LET outcome == [task |-> held[w].task, attempt |-> held[w].attempt,
                  status |-> ending, skills |-> snapshot]
      again   == ShouldRetry(held[w].attempt, ending)
  IN  /\ pc[w] = "run"
      /\ results' = results \cup {outcome}
      /\ pc' = [pc EXCEPT ![w] = IF ~again THEN "get"
                                 ELSE IF RecoveryRequired(ending) THEN "recover"
                                 ELSE "backoff"]
      /\ unfinished' = IF again THEN unfinished ELSE unfinished - 1
      /\ UNCHANGED <<main, wave, attempts, snapshot, queue, held, todo,
                     durableVars, boundVars>>

Recover(w) ==
  /\ pc[w] = "recover"
  /\ pc' = [pc EXCEPT ![w] = "backoff"]
  /\ UNCHANGED <<main, wave, attempts, snapshot, queue, unfinished, held, results,
                 todo, durableVars, boundVars>>

(* Mutant: the continue of the code skips task_done. *)
RecoveryFailsHolding(w) ==
  /\ pc[w] = "recover"
  /\ pc' = [pc EXCEPT ![w] = "get"]
  /\ UNCHANGED <<main, wave, attempts, snapshot, queue, unfinished, held, results,
                 todo, durableVars, boundVars>>

(* The retry is given up, the worker goes on with the next request.        *)
RecoveryFails(w) ==
  /\ pc[w] = "recover"
  /\ pc' = [pc EXCEPT ![w] = "get"]
  /\ unfinished' = unfinished - 1
  /\ UNCHANGED <<main, wave, attempts, snapshot, queue, held, results, todo,
                 durableVars, boundVars>>

(* After the delay the retry is put first, then task_done is called.       *)
Requeue(w) ==
  /\ pc[w] = "backoff"
  /\ queue' = Append(queue, [held[w] EXCEPT !.attempt = @ + 1])
  /\ unfinished' = (unfinished + 1) - 1
  /\ pc' = [pc EXCEPT ![w] = "get"]
  /\ UNCHANGED <<main, wave, attempts, snapshot, held, results, todo,
                 durableVars, boundVars>>

(* Recording an event raises out of the attempt, of its recovery or of the *)
(* audit of its retry: the worker task ends, its task_done still runs.     *)
WorkerDies(w) ==
  /\ RecorderMayFail
  /\ crashes < MaxCrashes
  /\ pc[w] \in {"run", "recover", "backoff"}
  /\ pc' = [pc EXCEPT ![w] = "dead"]
  /\ unfinished' = unfinished - 1
  /\ UNCHANGED <<main, wave, attempts, snapshot, queue, held, results, todo,
                 durableVars, boundVars>>

(* Mutant: the sentinels are not counted as unfinished. *)
JoinReturnsUncounted ==
  /\ main = "join"
  /\ unfinished = 0
  /\ main' = "gather"
  /\ queue' = queue \o [i \in 1 .. ActiveCount |-> Sentinel]
  /\ UNCHANGED <<wave, attempts, snapshot, unfinished, pc, held, results, todo,
                 durableVars, boundVars>>

(* queue.join() returns; one sentinel per active worker.                   *)
JoinReturns ==
  /\ main = "join"
  /\ unfinished = 0
  /\ main' = "gather"
  /\ queue' = queue \o [i \in 1 .. ActiveCount |-> Sentinel]
  /\ unfinished' = ActiveCount
  /\ UNCHANGED <<wave, attempts, snapshot, pc, held, results, todo, durableVars, boundVars>>

Leave(w) ==
  /\ pc[w] = "get"
  /\ queue # <<>>
  /\ Head(queue) = Sentinel
  /\ queue' = Tail(queue)
  /\ unfinished' = unfinished - 1
  /\ pc' = [pc EXCEPT ![w] = "left"]
  /\ UNCHANGED <<main, wave, attempts, snapshot, held, results, todo,
                 durableVars, boundVars>>

(* Mutant: the checkpoint keeps the outcomes of the last wave only. *)
WaveEndsForgetful ==
  /\ main = "gather"
  /\ \A w \in Workers : pc[w] \in {"left", "off"}
  /\ main' = "next"
  /\ wave' = wave + 1
  /\ attempts' = results
  /\ checkpoint' = [stage |-> "executing", waves |-> wave + 1,
                    outcomes |-> results, revision |-> snapshot]
  /\ IdleLoops
  /\ UNCHANGED <<snapshot, todo, library, settled, report, boundVars>>

(* gather returns every list; the wave is written to the checkpoint before *)
(* anything else can run.                                                  *)
WaveEnds ==
  /\ main = "gather"
  /\ \A w \in Workers : pc[w] \in {"left", "off"}
  /\ main' = "next"
  /\ wave' = wave + 1
  /\ attempts' = attempts \cup results
  /\ checkpoint' = [stage |-> "executing", waves |-> wave + 1,
                    outcomes |-> attempts \cup results, revision |-> snapshot]
  /\ IdleLoops
  /\ UNCHANGED <<snapshot, todo, library, settled, report, boundVars>>

(* gather raises the exception of a dead worker, which ends the process.   *)
WaveFails ==
  /\ main = "gather"
  /\ \E w \in Workers : pc[w] = "dead"
  /\ LoseProcess
-----------------------------------------------------------------------------
(* After the last wave: skill updates, report, closing the checkpoint      *)

StartSettling ==
  /\ main = "next"
  /\ wave = Len(Waves)
  /\ main' = "settle"
  /\ todo' = attempts
  /\ UNCHANGED <<wave, attempts, snapshot, loopVars, durableVars, boundVars>>

(* The order in which run sorts the outcomes. *)
Before(o, p) == \/ TaskOrder[o.task] < TaskOrder[p.task]
                \/ o.task = p.task /\ o.attempt < p.attempt

(* The updates of one attempt; SkillSettlement has the passes in detail.   *)
Settle(outcome) ==
  /\ main = "settle"
  /\ outcome \in todo
  /\ \A p \in todo : ~Before(p, outcome)
  /\ todo' = todo \ {outcome}
  /\ settled' = settled \cup {outcome}
  /\ library' \in Revisions
  /\ UNCHANGED <<main, wave, attempts, snapshot, loopVars, checkpoint, report, boundVars>>

WriteReport ==
  /\ main = "settle"
  /\ todo = {}
  /\ report' = FinalOutcomes(attempts)
  /\ main' = "saved"
  /\ UNCHANGED <<wave, attempts, snapshot, todo, loopVars, checkpoint, library,
                 settled, boundVars>>

(* The closing record names the snapshot of the process that writes it.    *)
CloseCheckpoint ==
  /\ main = "saved"
  /\ checkpoint' = [stage |-> "complete", waves |-> Len(Waves),
                    outcomes |-> attempts, revision |-> snapshot]
  /\ main' = "reported"
  /\ UNCHANGED <<wave, attempts, snapshot, todo, loopVars, library, settled, report,
                 boundVars>>

(* The process has exited for good.                                        *)
Terminated == main = "reported" /\ UNCHANGED vars

WorkerStep(w) ==
  \/ Take(w)
  \/ \E ending \in Endings : Finish(w, ending)
  \/ Recover(w)
  \/ RecoveryFails(w)
  \/ Requeue(w)
  \/ Leave(w)

MainStep ==
  \/ Launch
  \/ StartWave
  \/ JoinReturns
  \/ WaveEnds
  \/ WaveFails
  \/ StartSettling
  \/ \E outcome \in todo : Settle(outcome)
  \/ WriteReport
  \/ CloseCheckpoint

Next ==
  \/ MainStep
  \/ \E w \in Workers : WorkerStep(w) \/ WorkerDies(w)
  \/ Crash
  \/ ForeignWrite
  \/ Terminated

Spec == Init /\ [][Next]_vars

(* The event loop keeps running what can run, every attempt, recovery and  *)
(* delay is bounded by a timeout, and the operator resumes a lost job.     *)
Fairness == WF_vars(MainStep) /\ \A w \in Workers : WF_vars(WorkerStep(w))

FairSpec == Spec /\ Fairness
-----------------------------------------------------------------------------
(* Type correctness: every variable of run, _run_wave and the worker loops *)
(* has the shape the code gives it.                                        *)
TypeOK ==
  /\ main \in {"down", "next", "join", "gather", "settle", "saved", "reported"}
  /\ wave \in 0 .. Len(Waves)
  /\ attempts \subseteq Outcome
  /\ snapshot \in Revisions \cup {NoRevision}
  /\ queue \in Seq(Request \cup {Sentinel})
  /\ unfinished \in Nat
  /\ pc \in [Workers -> {"off", "get", "run", "recover", "backoff", "left", "dead"}]
  /\ held \in [Workers -> Request \cup {Sentinel}]
  /\ results \subseteq Outcome
  /\ todo \subseteq Outcome
  /\ checkpoint \in Checkpoint
  /\ library \in Revisions
  /\ settled \subseteq Outcome
  /\ report # NoReport => DOMAIN report \subseteq AllTasks
  /\ crashes \in 0 .. MaxCrashes
  /\ foreign \in 0 .. MaxForeignWrites

Holding == {w \in Workers : pc[w] \in {"run", "recover", "backoff"}}

(* What the steps take for granted: workers are busy only inside a wave,   *)
(* with a request in hand and with the snapshot taken.                     *)
WaveShape ==
  /\ main \in {"join", "gather"} => wave < Len(Waves)
  /\ main # "down" => snapshot \in Revisions
  /\ \A w \in Workers : pc[w] # "off" => main \in {"join", "gather"}
  /\ \A w \in Holding : held[w] \in Request

(* queue.join() may return exactly when nothing is queued and no worker    *)
(* still holds a request it could put back: the counter asyncio keeps is   *)
(* the number of queued items plus the number of held requests.            *)
QueueAccounting == unfinished = Len(queue) + Cardinality(Holding)

(* A task has at most one request in the system, queued or held: a retry   *)
(* never runs beside the attempt it repeats, nor twice, although any       *)
(* worker may pick it up.                                                  *)
OneRequestPerTask ==
  /\ \A i, j \in DOMAIN queue :
       queue[i] # Sentinel /\ queue[i].task = queue[j].task => i = j
  /\ \A w \in Holding : \A i \in DOMAIN queue : queue[i].task # held[w].task
  /\ \A v, w \in Holding : held[v].task = held[w].task => v = w

(* The attempts kept for a task are numbered without gap or repetition,    *)
(* whichever workers ran them, none follows a success or an error that is  *)
(* not retryable, and there are at most as many as the largest limit lets  *)
(* through, although the limits take turns from attempt to attempt.        *)
AttemptHistory ==
  \A outcomes \in {attempts \cup results, checkpoint.outcomes} :
    /\ \A o, p \in outcomes : o.task = p.task /\ o.attempt = p.attempt => o = p
    /\ \A o \in outcomes : o.attempt > 1 =>
         /\ \E p \in outcomes : /\ p.task = o.task
                                /\ p.attempt + 1 = o.attempt
                                /\ p.status \notin {"succeeded", "not_retryable"}
         /\ \E limit \in {MaxTaskRetries, ModelTimeoutRequeues, WorkerFailureRequeues} :
              o.attempt <= limit + 1

(* While a wave runs and no worker task has died, no task of the wave is   *)
(* forgotten: it has a request in the system, or an outcome that the retry *)
(* policy does not repeat or whose worker could not be recovered.          *)
NoTaskForgotten ==
  main \in {"join", "gather"} /\ (\A w \in Workers : pc[w] # "dead") =>
    \A t \in ToSet(CurrentWave) :
      \/ \E i \in DOMAIN queue : queue[i].task = t
      \/ \E w \in Holding : held[w].task = t
      \/ \E o \in results : /\ o.task = t
                            /\ \/ ~ShouldRetry(o.attempt, o.status)
                               \/ RecoveryRequired(o.status)

(* The checkpoint names whole waves: outcomes of every task of the waves   *)
(* it counts and of no other, whatever was running when the process died.  *)
CheckpointIsWholeWaves ==
  {o.task : o \in checkpoint.outcomes} = TasksOf(checkpoint.waves)

(* All attempts that count saw the same frozen skills, across processes,   *)
(* even when the tables are written by others in between.                  *)
SnapshotPinned ==
  /\ checkpoint.stage = "executing" =>
       \A o \in checkpoint.outcomes : o.skills = checkpoint.revision
  /\ main \in {"next", "join", "gather"} /\ wave < Len(Waves) =>
       \A o \in attempts \cup results : o.skills = snapshot

(* Skill and learning updates wait for the barrier: none is written before *)
(* the last wave is durable, and none for an attempt of an abandoned wave. *)
SkillBarrier ==
  settled # {} => checkpoint.waves = Len(Waves) /\ settled \subseteq checkpoint.outcomes

(* A report names every task, calls it succeeded exactly when one of its   *)
(* recorded attempts succeeded, and follows the settling of all attempts.  *)
ReportComplete ==
  report # NoReport =>
    /\ DOMAIN report = AllTasks
    /\ \A t \in AllTasks : /\ report[t] \in checkpoint.outcomes
                           /\ report[t].task = t
                           /\ (report[t].status = "succeeded"
                                <=> \E o \in checkpoint.outcomes :
                                      o.task = t /\ o.status = "succeeded")
    /\ settled = checkpoint.outcomes

(* No step takes back what is durable: recorded waves and outcomes stay,   *)
(* settled attempts stay, and a report written again after a crash is the  *)
(* same report.                                                            *)
DurableIsFinal ==
  [][/\ checkpoint.waves <= checkpoint'.waves
     /\ checkpoint.outcomes \subseteq checkpoint'.outcomes
     /\ settled \subseteq settled'
     /\ report # NoReport => report' = report]_vars

(* The barrier between the waves and the settling of skills: join returns  *)
(* with no request left, all attempts that count saw one snapshot, and     *)
(* nothing learned from them is written before the last wave is durable.   *)
BarrierHolds == QueueAccounting /\ SnapshotPinned /\ SkillBarrier

(* Attempts, retries, waves and report tell one history of each task,      *)
(* across lost processes.                                                  *)
AttemptsAreSound ==
  OneRequestPerTask /\ AttemptHistory /\ NoTaskForgotten /\ CheckpointIsWholeWaves /\ ReportComplete

(* Every resume that follows a lost process reaches the report in the end. *)
JobReports == <>(main = "reported")
-----------------------------------------------------------------------------
(* The durable state implements TrainingJob.                               *)
TaskVerdict(t) ==
  IF t \in TasksOf(checkpoint.waves)
    THEN \E o \in checkpoint.outcomes : o.task = t /\ o.status = "succeeded"
    ELSE NoVerdict

PublishedVerdicts ==
  IF report = NoReport THEN NoReport
  ELSE [t \in DOMAIN report |-> report[t].status = "succeeded"]

Job == INSTANCE TrainingJob WITH
         recorded <- checkpoint.waves,
         verdict <- [t \in AllTasks |-> TaskVerdict(t)],
         settling <- settled # {},
         published <- PublishedVerdicts

(* Seen through its files and tables the runner does what TrainingJob says.*)
ImplementsJob == Job!JobSpec
=============================================================================
