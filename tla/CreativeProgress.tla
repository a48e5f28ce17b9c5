--------------------------- MODULE CreativeProgress ---------------------------
(***************************************************************************)
(* The advisory monitor of a creative task: a sampler fills a ring of      *)
(* frames, important actions queue checkpoints, and a scorer waits for a   *)
(* window of frames that shows what the action did. Sampler, scorer and    *)
(* the runtime's calls run on one event loop; a step goes from one await   *)
(* to the next.                                                            *)
(*                                                                         *)
(* The ghost "deeds" counts the actions of the task that were executed; a  *)
(* frame shows the deeds of the moment its capture begins.                 *)
(***************************************************************************)
EXTENDS Integers, SequencesExt

CONSTANTS
  Clip, Ring, Post, MaxPending,  \* the policy: clip_length, ring_buffer_frames,
                                 \* post_action_frames, max_pending_jobs
  Scores,                        \* target probabilities
  Meaningful,                    \* meaningful_delta
  MaxTasks, MaxDeeds, MaxFrames  \* bounds: tasks, actions of a task, captures

VARIABLES
  task,      \* ghost: tasks that were reset
  deeds,     \* ghost: actions executed in the task
  acting,    \* the runtime waits for the answer to an action
  active,    \* _active
  sequence,  \* _frame_sequence
  ring,      \* _frames
  sampler,   \* what the sampler does: "off", "idle", "capture", "read", and the frame's deeds
  actions,   \* _action_sequence
  queue,     \* _queue
  job,       \* the checkpoint the scorer holds, and its frames once it has a window
  scorer,    \* "off", "get", "wait", "score", "dead"
  latest,    \* _latest_feedback
  baseline, previous,  \* _baseline_score, _previous_score
  done       \* ghost: checkpoints answered in this task, with their scores

monitor == <<active, sequence, ring, sampler, actions, queue, job, scorer, latest, baseline,
             previous>>
vars == <<task, deeds, acting, active, sequence, ring, sampler, actions, queue, job, scorer, latest,
          baseline, previous, done>>

None == "none"
NoScore == -1
NoFeedback == [status |-> None, task |-> 0, action |-> 0, score |-> NoScore, trend |-> None,
               first |-> 0, last |-> 0]
NoJob == [task |-> 0, action |-> -1, after |-> 0, first |-> FALSE, deeds |-> 0, frames |-> <<>>]

Init ==
  /\ task = 0 /\ deeds = 0 /\ acting = FALSE /\ active = FALSE /\ sequence = -1 /\ ring = <<>>
  /\ sampler = [pc |-> "off", deeds |-> 0] /\ actions = 0 /\ queue = <<>> /\ job = NoJob
  /\ scorer = "off" /\ latest = NoFeedback /\ baseline = NoScore /\ previous = NoScore
  /\ done = <<>>

Baseline == [task |-> task + 1, action |-> 0, after |-> -1, first |-> TRUE, deeds |-> 0,
             frames |-> <<>>]
Checkpoint == [task |-> task, action |-> actions, after |-> sequence, first |-> FALSE,
               deeds |-> deeds, frames |-> <<>>]

(* ------------------------------------------------------------------------*)
(* The runtime: reset, act, close.                                         *)
(* ------------------------------------------------------------------------*)
(* A creative task: everything begins anew, with a baseline checkpoint.    *)
Start ==
  /\ active' = TRUE /\ sequence' = -1 /\ ring' = <<>> /\ sampler' = [pc |-> "idle", deeds |-> 0]
  /\ actions' = 1 /\ queue' = <<Baseline>> /\ job' = NoJob /\ scorer' = "get"
  /\ latest' = NoFeedback /\ baseline' = NoScore /\ previous' = NoScore

(* Both background tasks are cancelled; a job in progress is given up.     *)
Stop ==
  /\ active' = FALSE /\ sampler' = [pc |-> "off", deeds |-> 0] /\ scorer' = "off" /\ job' = NoJob
  /\ UNCHANGED <<sequence, ring, actions, queue, latest, baseline, previous>>

(* The world is reset first, then the monitor; a task of another kind, or  *)
(* one without a usable verifier, leaves it stopped.                       *)
Reset ==
  /\ task < MaxTasks /\ ~acting /\ task' = task + 1 /\ deeds' = 0 /\ done' = <<>>
  /\ UNCHANGED acting
  /\ Start \/ Stop

(* Mutant: the queue takes one checkpoint more than max_pending_jobs.      *)
QueueFullLate == Len(queue) > MaxPending

QueueFull == Len(queue) >= MaxPending

(* The worker executes an action, and its answer is on the way.            *)
Act ==
  /\ task > 0 /\ ~acting /\ deeds < MaxDeeds /\ deeds' = deeds + 1 /\ acting' = TRUE
  /\ UNCHANGED <<task, monitor, done>>

(* An action that is important and was successful queues a checkpoint,     *)
(* unless the last one is too recent or the queue is full.                 *)
Return ==
  /\ acting /\ acting' = FALSE
  /\ \/ UNCHANGED <<actions, queue>>
     \/ active /\ ~QueueFull /\ queue' = Append(queue, Checkpoint) /\ actions' = actions + 1
  /\ UNCHANGED <<task, deeds, active, sequence, ring, sampler, job, scorer, latest, baseline,
                 previous, done>>

(* Also when an action did not return in time.                             *)
Close == active /\ Stop /\ acting' = FALSE /\ UNCHANGED <<task, deeds, done>>

(* ------------------------------------------------------------------------*)
(* The sampler.                                                            *)
(* ------------------------------------------------------------------------*)
BeginCapture ==
  /\ sampler.pc = "idle" /\ sequence < MaxFrames
  /\ sampler' = [pc |-> "capture", deeds |-> deeds]
  /\ UNCHANGED <<task, deeds, acting, active, sequence, ring, actions, queue, job, scorer, latest,
                 baseline, previous, done>>

(* The sequence number is taken before the file is read.                   *)
Captured ==
  /\ sampler.pc = "capture" /\ sequence' = sequence + 1
  /\ sampler' = [sampler EXCEPT !.pc = "read"]
  /\ UNCHANGED <<task, deeds, acting, active, ring, actions, queue, job, scorer, latest, baseline,
                 previous, done>>

Keep(frame) == LET longer == Append(ring, frame)
               IN IF Len(longer) > Ring THEN Tail(longer) ELSE longer
FrameRead ==
  /\ sampler.pc = "read" /\ ring' = Keep([sequence |-> sequence, deeds |-> sampler.deeds])
  /\ sampler' = [pc |-> "idle", deeds |-> 0]
  /\ UNCHANGED <<task, deeds, acting, active, sequence, actions, queue, job, scorer, latest,
                 baseline, previous, done>>

(* A failed capture is noted; a failed read leaves a gap in the numbers.   *)
CaptureFails ==
  /\ sampler.pc \in {"capture", "read"} /\ sampler' = [pc |-> "idle", deeds |-> 0]
  /\ UNCHANGED <<task, deeds, acting, active, sequence, ring, actions, queue, job, scorer, latest,
                 baseline, previous, done>>

(* ------------------------------------------------------------------------*)
(* The scorer.                                                             *)
(* ------------------------------------------------------------------------*)
TakeJob ==
  /\ scorer = "get" /\ queue # <<>>
  /\ job' = Head(queue) /\ queue' = Tail(queue) /\ scorer' = "wait"
  /\ UNCHANGED <<task, deeds, acting, active, sequence, ring, sampler, actions, latest, baseline,
                 previous, done>>

(* Mutant: the window may end with the frame that was there already.       *)
MinimumEndNow == job.after

MinimumEnd == job.after + Post
WindowReady == Len(ring) >= Clip /\ Last(ring).sequence >= MinimumEnd
TakeWindow ==
  /\ scorer = "wait" /\ WindowReady
  /\ job' = [job EXCEPT !.frames = SubSeq(ring, Len(ring) - Clip + 1, Len(ring))]
  /\ scorer' = "score"
  /\ UNCHANGED <<task, deeds, acting, active, sequence, ring, sampler, actions, queue, latest,
                 baseline, previous, done>>

Trend(score) ==
  IF previous = NoScore THEN "baseline"
  ELSE IF score - previous >= Meaningful THEN "improving"
  ELSE IF score - previous <= -Meaningful THEN "regressing" ELSE "stable"

Answers(score) == done' = Append(done, [action |-> job.action, score |-> score])
Score ==
  /\ scorer = "score" /\ scorer' = "get" /\ job' = NoJob
  /\ \E p \in Scores :
       /\ latest' = [status |-> "completed", task |-> job.task, action |-> job.action, score |-> p,
                     trend |-> Trend(p), first |-> job.frames[1].sequence,
                     last |-> Last(job.frames).sequence]
       /\ baseline' = (IF job.first THEN p ELSE baseline) /\ previous' = p /\ Answers(p)
  /\ UNCHANGED <<task, deeds, acting, active, sequence, ring, sampler, actions, queue>>

(* No window in time, or the scorer service fails.                         *)
JobFails ==
  /\ scorer \in {"wait", "score"} /\ scorer' = "get" /\ job' = NoJob
  /\ latest' = [NoFeedback EXCEPT !.status = "failed", !.task = job.task, !.action = job.action]
  /\ Answers(NoScore)
  /\ UNCHANGED <<task, deeds, acting, active, sequence, ring, sampler, actions, queue, baseline,
                 previous>>

(* An exception that is not expected ends the scorer, and nobody notices.  *)
ScorerDies ==
  /\ scorer \in {"wait", "score"} /\ scorer' = "dead" /\ job' = NoJob /\ Answers(NoScore)
  /\ UNCHANGED <<task, deeds, acting, active, sequence, ring, sampler, actions, queue, latest,
                 baseline, previous>>

Next ==
  \/ Reset \/ Act \/ Return \/ Close
  \/ BeginCapture \/ Captured \/ FrameRead \/ CaptureFails
  \/ TakeJob \/ TakeWindow \/ Score \/ JobFails \/ ScorerDies

Spec == Init /\ [][Next]_vars

(* ------------------------------------------------------------------------*)
(* What the agent is shown, and the properties.                            *)
(* ------------------------------------------------------------------------*)
Pending == Len(queue) + (IF job = NoJob THEN 0 ELSE 1)

TypeOK ==
  /\ active \in BOOLEAN /\ acting \in BOOLEAN /\ sequence \in -1 .. MaxFrames /\ Len(ring) <= Ring
  /\ sampler.pc \in {"off", "idle", "capture", "read"} /\ Len(queue) <= MaxPending
  /\ scorer \in {"off", "get", "wait", "score", "dead"}
  /\ previous \in Scores \cup {NoScore} /\ baseline \in Scores \cup {NoScore}

(* A window that is scored ends with a frame whose capture began after     *)
(* the action: whatever the sampler was doing when the action was          *)
(* executed, the score is about what it left behind.                       *)
WindowShowsTheAction == scorer = "score" => Last(job.frames).deeds >= job.deeds

(* The checkpoint i is scored, and it is the last such of the first n.     *)
IsScored(i) == done[i].score # NoScore
IsLastScored(i, n) == i \in 1 .. n /\ IsScored(i) /\ \A j \in i + 1 .. n : ~IsScored(j)

(* The feedback on show has the score of checkpoint n, and its trend       *)
(* compares it with the scored checkpoint before it.                       *)
Compares(n) ==
  /\ latest.score = done[n].score
  /\ (latest.trend = "baseline") <=> (\A i \in 1 .. n - 1 : ~IsScored(i))
  /\ \A m \in 1 .. n - 1 : IsLastScored(m, n - 1) =>
       /\ latest.trend = "improving" => done[n].score - done[m].score >= Meaningful
       /\ latest.trend = "regressing" => done[n].score - done[m].score <= -Meaningful

(* The feedback on show is about an action of the task at hand, it is of   *)
(* the last checkpoint that was scored, and every checkpoint is answered in*)
(* its turn or still pending.                                              *)
FeedbackIsOfTheTask ==
  active =>
    /\ latest.status # None => latest.task = task
    /\ \A i \in DOMAIN done : done[i].action = i - 1
    /\ scorer # "dead" => Pending = actions - Len(done)
    /\ latest.status = "completed" =>
         \E n \in DOMAIN done : IsLastScored(n, Len(done)) /\ Compares(n)

(* Both: the feedback that the progress monitor puts into the next prompt  *)
(* is of the action and the task it names.                                 *)
FeedbackIsSound == WindowShowsTheAction /\ FeedbackIsOfTheTask
=============================================================================
