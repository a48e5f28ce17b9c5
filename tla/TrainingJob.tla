---------------------------- MODULE TrainingJob ----------------------------
(***************************************************************************)
(* What one live training job promises to whoever started it, whatever     *)
(* happens to its processes: the durable verdicts move forward one whole   *)
(* wave at a time, a verdict once recorded is never changed, skills are    *)
(* settled only when every wave is recorded, and the report that closes    *)
(* the job is the recorded verdict of every task.                          *)
(* Workers, retries, queues, crashes and resumes are not visible here.     *)
(***************************************************************************)
EXTENDS Naturals, Sequences, SequencesExt

CONSTANTS Waves,       \* the tasks of the job: a sequence of sequences of tasks
          NoVerdict,   \* a task whose wave is not recorded yet
          NoReport     \* the job has not reported

TasksOf(n) == UNION {ToSet(Waves[i]) : i \in 1 .. n}

AllTasks == TasksOf(Len(Waves))

VARIABLES recorded,    \* number of waves recorded durably
          verdict,     \* verdict[t]: did some attempt of t succeed?
          settling,    \* a skill update of this job may have been written
          published    \* the verdicts the report names

jobVars == <<recorded, verdict, settling, published>>

JobInit == /\ recorded = 0
           /\ verdict = [t \in AllTasks |-> NoVerdict]
           /\ settling = FALSE
           /\ published = NoReport

(* The next wave is recorded: exactly its tasks get their verdicts. *)
RecordWave ==
  /\ recorded < Len(Waves)
  /\ recorded' = recorded + 1
  /\ \E v \in [ToSet(Waves[recorded + 1]) -> BOOLEAN] :
       verdict' = [t \in AllTasks |-> IF t \in DOMAIN v THEN v[t] ELSE verdict[t]]
  /\ UNCHANGED <<settling, published>>

(* The first skill update of the job is written. *)
StartSettling ==
  /\ recorded = Len(Waves)
  /\ ~settling
  /\ settling' = TRUE
  /\ UNCHANGED <<recorded, verdict, published>>

(* The report names the recorded verdicts. *)
Publish ==
  /\ recorded = Len(Waves)
  /\ published = NoReport
  /\ published' = verdict
  /\ UNCHANGED <<recorded, verdict, settling>>

JobNext == RecordWave \/ StartSettling \/ Publish

JobSpec == JobInit /\ [][JobNext]_jobVars
=============================================================================
