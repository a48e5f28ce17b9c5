------------------------- MODULE LiveTrainingProofs -------------------------
(* Theorems about LiveTraining for every wave plan, pool size, retry       *)
(* configuration and bound.                                                *)
EXTENDS LiveTraining, FiniteSetTheorems, WellFoundedInduction, TLAPS

(* The part of the inductive invariant that types the steps of a wave.     *)
TypedWave == TypeOK /\ WaveShape /\ QueueAccounting

(* The current wave is a non-empty sequence of tasks of the job.           *)
LEMMA CurrentWaveType ==
  ASSUME wave \in 0 .. Len(Waves), wave < Len(Waves)
  PROVE  /\ CurrentWave \in Seq(AllTasks)
         /\ Len(CurrentWave) \in Nat \ {0}
         /\ ActiveCount \in Nat
<1>1. wave + 1 \in DOMAIN Waves
  BY WavesAssumption
<1>2. CurrentWave \in Seq(AllTasks) /\ CurrentWave # <<>>
  BY <1>1, WavesAssumption DEF CurrentWave
<1>3. QED
  BY <1>2, ConfigAssumption DEF ActiveCount

LEMMA InitTypeOK == Init => TypeOK
  BY WavesAssumption, ConfigAssumption
     DEF Init, TypeOK, Checkpoint, NoCheckpoint, Workers, Request, Outcome

LEMMA IdleType ==
  ASSUME IdleLoops
  PROVE  /\ queue' \in Seq(Request \cup {Sentinel})
         /\ unfinished' \in Nat
         /\ pc' \in [Workers -> {"off", "get", "run", "recover", "backoff", "left", "dead"}]
         /\ held' \in [Workers -> Request \cup {Sentinel}]
         /\ results' \subseteq Outcome
  BY DEF IdleLoops

LEMMA LoseProcessTypeOK == TypeOK /\ LoseProcess => TypeOK'
<1> SUFFICES ASSUME TypeOK, LoseProcess PROVE TypeOK'
  OBVIOUS
<1>1. IdleLoops
  BY DEF LoseProcess
<1>2. QED
  BY <1>1, IdleType, WavesAssumption, ConfigAssumption
     DEF LoseProcess, TypeOK, durableVars

(* Every step of main keeps the type invariant. *)
LEMMA MainTypeOK == TypedWave /\ MainStep => TypeOK'
<1> SUFFICES ASSUME TypeOK, WaveShape, QueueAccounting, MainStep PROVE TypeOK'
  BY DEF TypedWave
<1> USE WavesAssumption, ConfigAssumption
        DEF loopVars, durableVars, boundVars
<1>1. CASE Launch
  BY <1>1 DEF Launch, TypeOK, Checkpoint
<1>2. CASE StartWave
  <2>1. wave < Len(Waves) /\ wave \in 0 .. Len(Waves)
    BY <1>2 DEF StartWave, TypeOK
  <2>2. \A i \in 1 .. Len(CurrentWave) :
          [task |-> CurrentWave[i], attempt |-> 1] \in Request
    BY <2>1, CurrentWaveType DEF Request
  <2>3. queue' \in Seq(Request \cup {Sentinel}) /\ unfinished' \in Nat
    BY <1>2, <2>1, <2>2, CurrentWaveType DEF StartWave
  <2>4. QED
    BY <1>2, <2>3 DEF StartWave, TypeOK
<1>3. CASE JoinReturns
  <2>1. ActiveCount \in Nat
    BY <1>3, CurrentWaveType DEF JoinReturns, TypeOK, WaveShape
  <2>2. [i \in 1 .. ActiveCount |-> Sentinel] \in Seq(Request \cup {Sentinel})
    BY <2>1
  <2>3. queue' \in Seq(Request \cup {Sentinel})
    BY <1>3, <2>2 DEF JoinReturns, TypeOK
  <2>4. QED
    BY <1>3, <2>1, <2>3 DEF JoinReturns, TypeOK
<1>4. CASE WaveEnds
  <2>1. IdleLoops
    BY <1>4 DEF WaveEnds
  <2>2. wave' \in 0 .. Len(Waves)
    BY <1>4 DEF WaveEnds, TypeOK, WaveShape
  <2>3. checkpoint' \in Checkpoint
    BY <1>4, <2>2 DEF WaveEnds, TypeOK, Checkpoint
  <2>4. QED
    BY <1>4, <2>1, <2>2, <2>3, IdleType DEF WaveEnds, TypeOK
<1>5. CASE WaveFails
  BY <1>5, LoseProcessTypeOK DEF WaveFails
<1>6. CASE StartSettling
  BY <1>6 DEF StartSettling, TypeOK
<1>7. ASSUME NEW outcome \in todo, Settle(outcome) PROVE TypeOK'
  BY <1>7 DEF Settle, TypeOK
<1>8. CASE WriteReport
  <2>1. {o.task : o \in attempts} \subseteq AllTasks
    BY DEF TypeOK, Outcome
  <2>2. QED
    BY <1>8, <2>1 DEF WriteReport, FinalOutcomes, TypeOK
<1>9. CASE CloseCheckpoint
  BY <1>9 DEF CloseCheckpoint, TypeOK, Checkpoint
<1>10. QED
  BY <1>1, <1>2, <1>3, <1>4, <1>5, <1>6, <1>7, <1>8, <1>9 DEF MainStep

(* Finitely many workers hold a request; a worker that holds one and stops *)
(* holding it takes one off the count, one that starts adds one.           *)
LEMMA HoldingCount ==
  /\ IsFiniteSet(Holding) /\ IsFiniteSet(Holding')
  /\ Cardinality(Holding) \in Nat
  /\ \A w : Holding' = Holding \ {w} /\ w \in Holding =>
       Cardinality(Holding') = Cardinality(Holding) - 1
  /\ \A w : Holding' = Holding \cup {w} /\ w \notin Holding =>
       Cardinality(Holding') = Cardinality(Holding) + 1
  /\ Holding = {} <=> Cardinality(Holding) = 0
  /\ Holding' = {} <=> Cardinality(Holding') = 0
<1>1. IsFiniteSet(Workers)
  BY FS_Interval, ConfigAssumption DEF Workers
<1>2. IsFiniteSet(Holding) /\ IsFiniteSet(Holding')
  BY <1>1, FS_Subset DEF Holding
<1>3. QED
  BY <1>2, FS_CardinalityType, FS_RemoveElement, FS_AddElement, FS_EmptySet

(* How each worker step changes the set of holders. *)
LEMMA WorkerHolding ==
  ASSUME NEW w \in Workers, TypeOK
  PROVE  /\ Take(w) => w \notin Holding /\ Holding' = Holding \cup {w}
         /\ \A ending \in Endings : Finish(w, ending) =>
              /\ w \in Holding
              /\ \/ unfinished' = unfinished /\ Holding' = Holding
                 \/ unfinished' = unfinished - 1 /\ Holding' = Holding \ {w}
         /\ Recover(w) => w \in Holding /\ Holding' = Holding
         /\ RecoveryFails(w) \/ Requeue(w) \/ WorkerDies(w) =>
              w \in Holding /\ Holding' = Holding \ {w}
         /\ Leave(w) => w \notin Holding /\ Holding' = Holding
<1> USE DEF Holding, TypeOK
<1>1. Take(w) => w \notin Holding /\ Holding' = Holding \cup {w}
  BY DEF Take
<1>2. ASSUME NEW ending \in Endings, Finish(w, ending)
      PROVE  /\ w \in Holding
             /\ \/ unfinished' = unfinished /\ Holding' = Holding
                \/ unfinished' = unfinished - 1 /\ Holding' = Holding \ {w}
  BY <1>2 DEF Finish
<1>3. Recover(w) => w \in Holding /\ Holding' = Holding
  BY DEF Recover
<1>4. RecoveryFails(w) \/ Requeue(w) \/ WorkerDies(w) =>
        w \in Holding /\ Holding' = Holding \ {w}
  BY DEF RecoveryFails, Requeue, WorkerDies
<1>5. Leave(w) => w \notin Holding /\ Holding' = Holding
  BY DEF Leave
<1>6. QED
  BY <1>1, <1>2, <1>3, <1>4, <1>5

LEMMA WorkerTypeOK ==
  ASSUME NEW w \in Workers, TypedWave, WorkerStep(w) \/ WorkerDies(w)
  PROVE  TypeOK'
<1> USE DEF TypedWave, loopVars, durableVars, boundVars
<1>1. w \in Holding => unfinished - 1 \in Nat
  BY HoldingCount DEF TypeOK, QueueAccounting
<1>2. queue # <<>> => unfinished - 1 \in Nat
  BY HoldingCount DEF TypeOK, QueueAccounting
<1>3. CASE Take(w)
  <2>1. Head(queue) \in Request \cup {Sentinel} /\ Tail(queue) \in Seq(Request \cup {Sentinel})
    BY <1>3 DEF Take, TypeOK
  <2>2. QED
    BY <1>3, <2>1 DEF Take, TypeOK
<1>4. ASSUME NEW ending \in Endings, Finish(w, ending) PROVE TypeOK'
  <2>1. w \in Holding /\ snapshot \in Revisions /\ held[w] \in Request
    BY <1>4, WorkerHolding DEF WaveShape, Finish
  <2>2. [task |-> held[w].task, attempt |-> held[w].attempt,
         status |-> ending, skills |-> snapshot] \in Outcome
    BY <2>1, ConfigAssumption DEF Request, Outcome
  <2>3. results' \subseteq Outcome
    BY <1>4, <2>2 DEF Finish, TypeOK
  <2>4. unfinished' \in Nat
    BY <1>4, <1>1, <2>1 DEF Finish, TypeOK
  <2>5. QED
    BY <1>4, <2>3, <2>4 DEF Finish, TypeOK
<1>5. CASE Recover(w)
  BY <1>5 DEF Recover, TypeOK
<1>6. CASE RecoveryFails(w)
  BY <1>6, <1>1, WorkerHolding DEF RecoveryFails, TypeOK
<1>7. CASE Requeue(w)
  <2>1. held[w] \in Request
    BY <1>7, WorkerHolding DEF WaveShape
  <2>2. [held[w] EXCEPT !.attempt = @ + 1] \in Request
    BY <2>1 DEF Request
  <2>3. QED
    BY <1>7, <2>2 DEF Requeue, TypeOK
<1>8. CASE Leave(w)
  BY <1>8, <1>2 DEF Leave, TypeOK
<1>9. CASE WorkerDies(w)
  BY <1>9, <1>1, WorkerHolding DEF WorkerDies, TypeOK
<1>10. QED
  BY <1>3, <1>4, <1>5, <1>6, <1>7, <1>8, <1>9 DEF WorkerStep

(* The counter of the queue stays exact.                                   *)
LEMMA WorkerAccounting ==
  ASSUME NEW w \in Workers, TypedWave, WorkerStep(w) \/ WorkerDies(w)
  PROVE  QueueAccounting'
<1> USE DEF TypedWave, QueueAccounting
<1>0. Len(queue) \in Nat /\ unfinished \in Nat
  BY DEF TypeOK
<1>1. CASE Take(w)
  <2>1. Len(queue') = Len(queue) - 1
    BY <1>1 DEF Take, TypeOK
  <2>2. Cardinality(Holding') = Cardinality(Holding) + 1
    BY <1>1, WorkerHolding, HoldingCount
  <2>3. QED
    BY <1>0, <1>1, <2>1, <2>2, HoldingCount DEF Take
<1>2. ASSUME NEW ending \in Endings, Finish(w, ending) PROVE QueueAccounting'
  <2>1. queue' = queue
    BY <1>2 DEF Finish
  <2>2. \/ unfinished' = unfinished /\ Holding' = Holding
        \/ unfinished' = unfinished - 1 /\ w \in Holding /\ Holding' = Holding \ {w}
    BY <1>2, WorkerHolding
  <2>3. QED
    BY <1>0, <2>1, <2>2, HoldingCount
<1>3. CASE Recover(w)
  BY <1>3, WorkerHolding DEF Recover
<1>4. CASE RecoveryFails(w) \/ WorkerDies(w)
  <2>1. queue' = queue /\ unfinished' = unfinished - 1
    BY <1>4 DEF RecoveryFails, WorkerDies
  <2>2. QED
    BY <1>0, <1>4, <2>1, WorkerHolding, HoldingCount
<1>5. CASE Requeue(w)
  <2>1. Len(queue') = Len(queue) + 1 /\ unfinished' = unfinished
    BY <1>0, <1>5 DEF Requeue, TypeOK
  <2>2. Cardinality(Holding') = Cardinality(Holding) - 1
    BY <1>5, WorkerHolding, HoldingCount
  <2>3. QED
    BY <1>0, <2>1, <2>2, HoldingCount
<1>6. CASE Leave(w)
  <2>1. Len(queue') = Len(queue) - 1 /\ unfinished' = unfinished - 1
    BY <1>6 DEF Leave, TypeOK
  <2>2. QED
    BY <1>0, <1>6, <2>1, WorkerHolding, HoldingCount
<1>7. QED
  BY <1>1, <1>2, <1>3, <1>4, <1>5, <1>6 DEF WorkerStep

LEMMA WorkerShape ==
  ASSUME NEW w \in Workers, TypedWave, WorkerStep(w) \/ WorkerDies(w)
  PROVE  WaveShape'
<1> SUFFICES ASSUME TypeOK, WaveShape PROVE WaveShape'
  BY DEF TypedWave
<1>1. main' = main /\ wave' = wave /\ snapshot' = snapshot
  BY DEF WorkerStep, WorkerDies, Take, Finish, Recover, RecoveryFails, Requeue, Leave
<1>2. main \in {"join", "gather"}
  BY WorkerHolding
     DEF WorkerStep, WorkerDies, Take, Finish, Recover, RecoveryFails, Requeue, Leave,
         WaveShape
<1>3. CASE Take(w)
  <2>1. Head(queue) \in Request
    BY <1>3 DEF Take, TypeOK
  <2>2. \A v \in Holding' : held'[v] \in Request
    BY <1>3, <2>1 DEF Take, WaveShape, Holding, TypeOK
  <2>3. QED
    BY <1>1, <1>2, <2>2 DEF WaveShape
<1>4. CASE ~Take(w)
  <2>1. held' = held /\ Holding' \subseteq Holding
    BY <1>4, WorkerHolding
       DEF WorkerStep, WorkerDies, Finish, Recover, RecoveryFails, Requeue, Leave
  <2>2. QED
    BY <1>1, <1>2, <2>1 DEF WaveShape
<1>5. QED
  BY <1>3, <1>4

(* The same two facts for the steps of main and of the environment.        *)
LEMMA MainAccounting == TypedWave /\ MainStep => QueueAccounting' /\ WaveShape'
<1> SUFFICES ASSUME TypeOK, WaveShape, QueueAccounting, MainStep
             PROVE  QueueAccounting' /\ WaveShape'
  BY DEF TypedWave
<1> USE ConfigAssumption DEF loopVars, durableVars, boundVars
<1>1. ASSUME IdleLoops PROVE QueueAccounting' /\ Holding' = {} /\ \A w \in Workers : pc'[w] = "off"
  <2>1. Holding' = {} /\ Len(queue') = 0 /\ unfinished' = 0
    BY <1>1 DEF IdleLoops, Holding
  <2>2. QED
    BY <1>1, <2>1, HoldingCount DEF QueueAccounting, IdleLoops
<1>2. ASSUME UNCHANGED loopVars PROVE QueueAccounting' /\ Holding' = Holding
  BY <1>2 DEF QueueAccounting, Holding
<1>3. CASE Launch
  BY <1>2, <1>3 DEF Launch, WaveShape, TypeOK
<1>4. CASE StartWave
  <2>1. Holding' = {}
    BY <1>4 DEF StartWave, Holding
  <2>2. Len(queue') = unfinished' /\ unfinished' \in Nat
    BY <1>4, CurrentWaveType DEF StartWave, TypeOK
  <2>3. QED
    BY <1>4, <2>1, <2>2, HoldingCount DEF StartWave, QueueAccounting, WaveShape
<1>5. CASE JoinReturns
  <2>1. Holding' = Holding
    BY <1>5 DEF JoinReturns, Holding
  <2>2. Len(queue) = 0 /\ Cardinality(Holding) = 0
    BY <1>5, HoldingCount DEF JoinReturns, TypeOK, QueueAccounting
  <2>3. ActiveCount \in Nat
    BY <1>5, CurrentWaveType DEF JoinReturns, TypeOK, WaveShape
  <2>4. Len(queue') = unfinished'
    BY <1>5, <2>2, <2>3 DEF JoinReturns, TypeOK
  <2>5. QED
    BY <1>5, <2>1, <2>2, <2>3, <2>4 DEF JoinReturns, QueueAccounting, WaveShape
<1>6. CASE WaveEnds
  BY <1>1, <1>6 DEF WaveEnds, WaveShape
<1>7. CASE WaveFails
  BY <1>1, <1>7 DEF WaveFails, LoseProcess, WaveShape
<1>8. CASE StartSettling
  BY <1>2, <1>8 DEF StartSettling, WaveShape
<1>9. ASSUME NEW outcome \in todo, Settle(outcome) PROVE QueueAccounting' /\ WaveShape'
  BY <1>2, <1>9 DEF Settle, WaveShape
<1>10. CASE WriteReport
  BY <1>2, <1>10 DEF WriteReport, WaveShape
<1>11. CASE CloseCheckpoint
  BY <1>2, <1>11 DEF CloseCheckpoint, WaveShape
<1>12. QED
  BY <1>3, <1>4, <1>5, <1>6, <1>7, <1>8, <1>9, <1>10, <1>11 DEF MainStep

LEMMA InitTypedWave == Init => TypedWave
<1> SUFFICES ASSUME Init PROVE QueueAccounting /\ WaveShape
  BY InitTypeOK DEF TypedWave
<1>1. Holding = {} /\ Len(queue) = 0 /\ unfinished = 0
  BY DEF Init, Holding
<1>2. QED
  BY <1>1, HoldingCount DEF Init, QueueAccounting, WaveShape

LEMMA NextTypedWave == TypedWave /\ [Next]_vars => TypedWave'
<1> SUFFICES ASSUME TypedWave, [Next]_vars PROVE TypedWave'
  OBVIOUS
<1>1. CASE MainStep
  BY <1>1, MainTypeOK, MainAccounting DEF TypedWave
<1>2. ASSUME NEW w \in Workers, WorkerStep(w) \/ WorkerDies(w) PROVE TypedWave'
  BY <1>2, WorkerTypeOK, WorkerAccounting, WorkerShape DEF TypedWave
<1>3. CASE Crash
  <2>1. TypeOK'
    BY <1>3, LoseProcessTypeOK DEF Crash, TypedWave
  <2>2. Holding' = {} /\ Len(queue') = 0 /\ unfinished' = 0
    BY <1>3 DEF Crash, LoseProcess, IdleLoops, Holding
  <2>3. QED
    BY <1>3, <2>1, <2>2, HoldingCount
       DEF Crash, LoseProcess, IdleLoops, TypedWave, QueueAccounting, WaveShape
<1>4. CASE ForeignWrite
  <2>1. Holding' = Holding
    BY <1>4 DEF ForeignWrite, loopVars, Holding
  <2>2. QED
    BY <1>4, <2>1, ConfigAssumption
       DEF ForeignWrite, loopVars, TypedWave, TypeOK, QueueAccounting, WaveShape
<1>5. CASE UNCHANGED vars
  <2>1. Holding' = Holding
    BY <1>5 DEF vars, loopVars, Holding
  <2>2. QED
    BY <1>5, <2>1
       DEF vars, loopVars, durableVars, boundVars, TypedWave, TypeOK, QueueAccounting,
           WaveShape
<1>6. QED
  BY <1>1, <1>2, <1>3, <1>4, <1>5 DEF Next, Terminated

(* Every reachable state is well typed, whatever the sizes and bounds.     *)
THEOREM TypeCorrect == Spec => []TypeOK
<1>1. TypedWave => TypeOK
  BY DEF TypedWave
<1>2. QED
  BY <1>1, InitTypedWave, NextTypedWave, PTL DEF Spec

(* The unfinished counter that queue.join() waits on is always the number  *)
(* of queued items plus the number of requests workers hold.               *)
THEOREM QueueIsAccounted == Spec => []QueueAccounting
<1>1. TypedWave => QueueAccounting
  BY DEF TypedWave
<1>2. QED
  BY <1>1, InitTypedWave, NextTypedWave, PTL DEF Spec
-----------------------------------------------------------------------------
(* What the files and tables say about each other and about the process    *)
(* that is running, if one is.                                             *)
FilesAgree ==
  /\ checkpoint.stage = "none" => checkpoint.waves = 0 /\ checkpoint.outcomes = {}
  /\ checkpoint.stage = "complete" => checkpoint.waves = Len(Waves)
  /\ checkpoint.stage # "complete" =>
       \A o \in checkpoint.outcomes : o.skills = checkpoint.revision
  /\ settled # {} => checkpoint.waves = Len(Waves) /\ settled \subseteq checkpoint.outcomes
  /\ report # NoReport =>
       checkpoint.waves = Len(Waves) /\ report = FinalOutcomes(checkpoint.outcomes)
  /\ main # "down" => wave = checkpoint.waves /\ attempts = checkpoint.outcomes
  /\ main # "down" /\ wave < Len(Waves) /\ checkpoint.stage # "none" =>
       checkpoint.revision = snapshot
  /\ \A o \in results : o.skills = snapshot
  /\ main = "down" => results = {} /\ todo = {}
  /\ todo \subseteq attempts
  /\ main \in {"settle", "saved", "reported"} => wave = Len(Waves)

LEMMA InitFilesAgree == Init => FilesAgree
  BY DEF Init, FilesAgree, NoCheckpoint

LEMMA WorkerFilesAgree ==
  ASSUME NEW w \in Workers, TypedWave, FilesAgree, WorkerStep(w) \/ WorkerDies(w)
  PROVE  FilesAgree'
<1>1. \A o \in results' : o.skills = snapshot'
  BY DEF FilesAgree, WorkerStep, WorkerDies, Take, Finish, Recover, RecoveryFails,
         Requeue, Leave
<1>2. UNCHANGED <<main, wave, attempts, snapshot, todo, durableVars>>
  BY DEF WorkerStep, WorkerDies, Take, Finish, Recover, RecoveryFails, Requeue, Leave
<1>3. main # "down"
  BY DEF TypedWave, WaveShape, WorkerStep, WorkerDies, Take, Finish, Recover,
         RecoveryFails, Requeue, Leave
<1>4. QED
  BY <1>1, <1>2, <1>3 DEF FilesAgree, durableVars

LEMMA LoseProcessFilesAgree == FilesAgree /\ LoseProcess => FilesAgree'
  BY DEF FilesAgree, LoseProcess, IdleLoops, durableVars

LEMMA MainFilesAgree == TypedWave /\ FilesAgree /\ MainStep => FilesAgree'
<1> SUFFICES ASSUME TypeOK, WaveShape, FilesAgree, MainStep PROVE FilesAgree'
  BY DEF TypedWave
<1> USE DEF durableVars, loopVars
<1>1. CASE Launch
  <2>1. checkpoint.stage # "none" /\ checkpoint.waves < Len(Waves) =>
          checkpoint.revision = library
    BY <1>1 DEF Launch, ResumeValid, TypeOK
  <2>2. results' = results /\ todo' = todo
    BY <1>1 DEF Launch
  <2>3. results = {} /\ todo = {}
    BY <1>1 DEF Launch, FilesAgree
  <2>4. QED
    BY <1>1, <2>1, <2>2, <2>3 DEF Launch, FilesAgree
<1>2. CASE StartWave
  BY <1>2 DEF StartWave, FilesAgree
<1>3. CASE JoinReturns
  BY <1>3 DEF JoinReturns, FilesAgree
<1>4. CASE WaveEnds
  <2>1. wave < Len(Waves) /\ main # "down" /\ wave \in Nat
    BY <1>4 DEF WaveEnds, WaveShape, TypeOK
  <2>2. settled = {} /\ report = NoReport
    BY <2>1 DEF FilesAgree
  <2>3. \A o \in attempts : o.skills = snapshot
    BY <2>1 DEF FilesAgree
  <2>4. checkpoint' = [stage |-> "executing", waves |-> wave + 1,
                       outcomes |-> attempts \cup results, revision |-> snapshot]
    BY <1>4 DEF WaveEnds
  <2>5. UNCHANGED <<settled, report, snapshot, todo>> /\ main' = "next" /\ results' = {}
        /\ wave' = wave + 1 /\ attempts' = attempts \cup results
    BY <1>4 DEF WaveEnds, IdleLoops
  <2>6. QED
    BY <2>2, <2>3, <2>4, <2>5 DEF FilesAgree
<1>5. CASE WaveFails
  BY <1>5, LoseProcessFilesAgree DEF WaveFails
<1>6. CASE StartSettling
  BY <1>6 DEF StartSettling, FilesAgree
<1>7. ASSUME NEW outcome \in todo, Settle(outcome) PROVE FilesAgree'
  BY <1>7 DEF Settle, FilesAgree
<1>8. CASE WriteReport
  BY <1>8 DEF WriteReport, FilesAgree
<1>9. CASE CloseCheckpoint
  <2>1. checkpoint'.waves = Len(Waves) /\ checkpoint'.outcomes = attempts
        /\ checkpoint'.stage = "complete"
    BY <1>9 DEF CloseCheckpoint
  <2>2. QED
    BY <1>9, <2>1 DEF CloseCheckpoint, FilesAgree
<1>10. QED
  BY <1>1, <1>2, <1>3, <1>4, <1>5, <1>6, <1>7, <1>8, <1>9 DEF MainStep

LEMMA NextFilesAgree == TypedWave /\ FilesAgree /\ [Next]_vars => FilesAgree'
<1> SUFFICES ASSUME TypedWave, FilesAgree, [Next]_vars PROVE FilesAgree'
  OBVIOUS
<1>1. CASE MainStep
  BY <1>1, MainFilesAgree
<1>2. ASSUME NEW w \in Workers, WorkerStep(w) \/ WorkerDies(w) PROVE FilesAgree'
  BY <1>2, WorkerFilesAgree
<1>3. CASE Crash
  BY <1>3, LoseProcessFilesAgree DEF Crash
<1>4. CASE ForeignWrite
  BY <1>4 DEF ForeignWrite, FilesAgree, loopVars
<1>5. CASE UNCHANGED vars
  BY <1>5 DEF vars, loopVars, durableVars, FilesAgree
<1>6. QED
  BY <1>1, <1>2, <1>3, <1>4, <1>5 DEF Next, Terminated

(* All recorded attempts of a job saw one frozen snapshot, across crashes, *)
(* resumes and writes by others: _validate_resume_state refuses the rest.  *)
THEOREM SnapshotIsPinned == Spec => []SnapshotPinned
<1>1. TypedWave /\ FilesAgree => SnapshotPinned
  BY DEF TypedWave, TypeOK, FilesAgree, SnapshotPinned
<1>2. QED
  BY <1>1, InitTypedWave, NextTypedWave, InitFilesAgree, NextFilesAgree, PTL DEF Spec

(* No skill or learning update precedes the end of the batch, and none is  *)
(* for an attempt that the checkpoint does not name.                       *)
THEOREM SkillsWaitForBarrier == Spec => []SkillBarrier
<1>1. FilesAgree => SkillBarrier
  BY DEF FilesAgree, SkillBarrier
<1>2. QED
  BY <1>1, InitTypedWave, NextTypedWave, InitFilesAgree, NextFilesAgree, PTL DEF Spec

(* What is durable is never taken back, and a rewritten report is the same.*)
THEOREM DurableStateIsFinal == Spec => DurableIsFinal
<1> DEFINE Keeps == /\ checkpoint.waves <= checkpoint'.waves
                    /\ checkpoint.outcomes \subseteq checkpoint'.outcomes
                    /\ settled \subseteq settled'
                    /\ report # NoReport => report' = report
<1>1. TypedWave /\ FilesAgree /\ [Next]_vars => [Keeps]_vars
  <2> SUFFICES ASSUME TypeOK, WaveShape, FilesAgree, Next PROVE Keeps
    BY DEF TypedWave
  <2> USE DEF loopVars, durableVars
  <2>0. checkpoint.waves \in Nat
    BY DEF TypeOK, Checkpoint
  <2>1. CASE UNCHANGED durableVars
    BY <2>0, <2>1
  <2>2. CASE WaveEnds
    <3>1. wave < Len(Waves) /\ main # "down" /\ wave \in Nat
      BY <2>2 DEF WaveEnds, WaveShape, TypeOK
    <3>2. report = NoReport /\ attempts = checkpoint.outcomes /\ wave = checkpoint.waves
      BY <3>1 DEF FilesAgree
    <3>3. QED
      BY <2>2, <3>1, <3>2 DEF WaveEnds
  <2>3. ASSUME NEW outcome \in todo, Settle(outcome) PROVE Keeps
    BY <2>0, <2>3 DEF Settle
  <2>4. CASE WriteReport
    BY <2>0, <2>4 DEF WriteReport, FilesAgree
  <2>5. CASE CloseCheckpoint
    <3>1. checkpoint'.waves = checkpoint.waves /\ checkpoint'.outcomes = checkpoint.outcomes
      BY <2>5 DEF CloseCheckpoint, FilesAgree
    <3>2. QED
      BY <2>0, <2>5, <3>1 DEF CloseCheckpoint
  <2>6. CASE ForeignWrite
    BY <2>0, <2>6 DEF ForeignWrite
  <2>7. CASE UNCHANGED vars
    BY <2>0, <2>7 DEF vars
  <2>8. QED
    BY <2>1, <2>2, <2>3, <2>4, <2>5, <2>6, <2>7
       DEF Next, MainStep, WorkerStep, WorkerDies, Terminated, Crash, WaveFails,
           LoseProcess, Launch, StartWave, JoinReturns, StartSettling, Take, Finish,
           Recover, RecoveryFails, Requeue, Leave
<1>2. QED
  BY <1>1, InitTypedWave, NextTypedWave, InitFilesAgree, NextFilesAgree, PTL
     DEF Spec, DurableIsFinal

(* The barrier holds for any plan of waves, pool, limits, losses and       *)
(* foreign writes.                                                         *)
THEOREM BarrierStands == Spec => []BarrierHolds
  BY QueueIsAccounted, SnapshotIsPinned, SkillsWaitForBarrier, PTL DEF BarrierHolds
-----------------------------------------------------------------------------
(* The history of the attempts: requests, retries, waves and report.       *)

(* Everything the wave has in flight belongs to the wave; outside a wave   *)
(* nothing is in flight, and after join() only sentinels are.              *)
WaveWork ==
  /\ main \notin {"join", "gather"} => results = {} /\ queue = <<>>
  /\ main = "gather" => Holding = {} /\ \A i \in DOMAIN queue : queue[i] = Sentinel
  /\ \A i \in DOMAIN queue : queue[i] = Sentinel \/ queue[i].task \in ToSet(CurrentWave)
  /\ \A w \in Holding : held[w].task \in ToSet(CurrentWave)
  /\ \A o \in results : o.task \in ToSet(CurrentWave)

(* An attempt that may start repeats none that ended, and it is the first  *)
(* or follows an outcome of this wave that the policy repeats.             *)
MayStart(r) ==
  /\ \A o \in results : o.task = r.task => o.attempt < r.attempt
  /\ r.attempt > 1 => \E p \in results : /\ p.task = r.task
                                         /\ p.attempt + 1 = r.attempt
                                         /\ ShouldRetry(p.attempt, p.status)

(* The last outcome of a request that waits for its recovery or its delay. *)
MayRepeat(r, recovering) ==
  /\ \A o \in results : o.task = r.task => o.attempt <= r.attempt
  /\ \E o \in results : /\ o.task = r.task
                        /\ o.attempt = r.attempt
                        /\ ShouldRetry(o.attempt, o.status)
                        /\ recovering => RecoveryRequired(o.status)

RequestsFollow ==
  /\ \A i \in DOMAIN queue : queue[i] # Sentinel => MayStart(queue[i])
  /\ \A w \in Workers : /\ pc[w] = "run" => MayStart(held[w])
                        /\ pc[w] \in {"recover", "backoff"} =>
                             MayRepeat(held[w], pc[w] = "recover")

(* AttemptHistory of one set of outcomes, with the retry rule that let each *)
(* repetition through.                                                     *)
History(outcomes) ==
  /\ \A o, p \in outcomes : o.task = p.task /\ o.attempt = p.attempt => o = p
  /\ \A o \in outcomes : o.attempt > 1 =>
       \E p \in outcomes : /\ p.task = o.task
                           /\ p.attempt + 1 = o.attempt
                           /\ ShouldRetry(p.attempt, p.status)

(* What is in flight while the process lives.                              *)
InFlight == WaveWork /\ RequestsFollow /\ OneRequestPerTask /\ History(results) /\ NoTaskForgotten

(* What the files say of the attempts, and what settling has still to do.  *)
RecordsAgree ==
  /\ History(checkpoint.outcomes)
  /\ CheckpointIsWholeWaves
  /\ main = "down" => attempts = {}
  /\ main = "settle" => attempts \subseteq settled \cup todo
  /\ main \in {"saved", "reported"} \/ report # NoReport => settled = checkpoint.outcomes

(* The inductive invariant of AttemptsAreSound.                            *)
AttemptsInv == TypedWave /\ FilesAgree /\ InFlight /\ RecordsAgree

(* The head and the tail of the queue, item by item.                       *)
LEMMA QueueItems ==
  ASSUME TypeOK
  PROVE  /\ \A i \in DOMAIN queue : queue[i] # Sentinel =>
              queue[i] \in Request /\ queue[i].task \in AllTasks /\ queue[i].task # NoTask
         /\ queue # <<>> => /\ 1 \in DOMAIN queue
                            /\ Head(queue) = queue[1]
                            /\ \A i \in DOMAIN Tail(queue) :
                                 i + 1 \in DOMAIN queue /\ Tail(queue)[i] = queue[i + 1]
                            /\ \A i \in DOMAIN queue : i # 1 =>
                                 i - 1 \in DOMAIN Tail(queue) /\ Tail(queue)[i - 1] = queue[i]
         /\ DOMAIN queue = 1 .. Len(queue) /\ Len(queue) \in Nat
<1>1. \A i \in DOMAIN queue : queue[i] \in Request \cup {Sentinel}
  BY DEF TypeOK
<1>2. \A r \in Request : r.task \in AllTasks /\ r.task # NoTask
  BY WavesAssumption DEF Request
<1>3. QED
  BY <1>1, <1>2 DEF TypeOK

LEMMA WorkerFrame ==
  ASSUME NEW w \in Workers, TypedWave, WorkerStep(w) \/ WorkerDies(w)
  PROVE  /\ UNCHANGED <<main, wave, attempts, snapshot, todo, durableVars>>
         /\ main \in {"join", "gather"}
         /\ wave < Len(Waves)
<1>1. UNCHANGED <<main, wave, attempts, snapshot, todo, durableVars>>
  BY DEF WorkerStep, WorkerDies, Take, Finish, Recover, RecoveryFails, Requeue, Leave
<1>2. pc[w] # "off"
  BY DEF WorkerStep, WorkerDies, Take, Finish, Recover, RecoveryFails, Requeue, Leave
<1>3. QED
  BY <1>1, <1>2 DEF TypedWave, WaveShape

LEMMA TakeInFlight ==
  ASSUME NEW w \in Workers, TypedWave, InFlight, Take(w)
  PROVE  InFlight'
<1> USE DEF TypedWave
<1>1. /\ queue # <<>> /\ queue[1] # Sentinel /\ 1 \in DOMAIN queue
      /\ queue[1] \in Request
      /\ held' = [held EXCEPT ![w] = queue[1]]
      /\ queue' = Tail(queue)
      /\ pc' = [pc EXCEPT ![w] = "run"]
      /\ results' = results /\ main' = main /\ wave' = wave
      /\ pc[w] = "get"
  BY QueueItems DEF Take
<1>2. /\ \A i \in DOMAIN queue' : i + 1 \in DOMAIN queue /\ queue'[i] = queue[i + 1] /\ i \in Nat \ {0}
      /\ \A i \in DOMAIN queue : i # 1 => i - 1 \in DOMAIN queue' /\ queue'[i - 1] = queue[i]
  BY <1>1, QueueItems DEF TypeOK
<1>3. /\ Holding' = Holding \cup {w} /\ w \notin Holding
      /\ held'[w] = queue[1]
      /\ \A v \in Workers : v # w => held'[v] = held[v] /\ pc'[v] = pc[v]
      /\ pc'[w] = "run"
  BY <1>1, WorkerHolding DEF TypeOK
<1>4. WaveWork'
  BY <1>1, <1>2, <1>3 DEF InFlight, WaveWork, CurrentWave, Holding
<1>5. RequestsFollow'
  BY <1>1, <1>2, <1>3 DEF InFlight, RequestsFollow, MayStart, MayRepeat
<1>6. OneRequestPerTask'
  <2>1. \A i, j \in DOMAIN queue' :
          queue'[i] # Sentinel /\ queue'[i].task = queue'[j].task => i = j
    BY <1>2 DEF InFlight, OneRequestPerTask
  <2>2. \A i \in DOMAIN queue' : queue'[i].task # queue[1].task
    BY <1>1, <1>2 DEF InFlight, OneRequestPerTask
  <2>3. \A v \in Holding' : \A i \in DOMAIN queue' : queue'[i].task # held'[v].task
    BY <1>2, <1>3, <2>2 DEF InFlight, OneRequestPerTask, Holding
  <2>4. \A v \in Holding : held[v].task # queue[1].task
    BY <1>1 DEF InFlight, OneRequestPerTask
  <2>5. \A u, v \in Holding' : held'[u].task = held'[v].task => u = v
    BY <1>3, <2>4 DEF InFlight, OneRequestPerTask, Holding
  <2>6. QED
    BY <2>1, <2>3, <2>5 DEF OneRequestPerTask
<1>7. NoTaskForgotten'
  <2> SUFFICES ASSUME main \in {"join", "gather"}, \A v \in Workers : pc'[v] # "dead",
                      NEW t \in ToSet(CurrentWave)
               PROVE  \/ \E i \in DOMAIN queue' : queue'[i].task = t
                      \/ \E v \in Holding' : held'[v].task = t
                      \/ \E o \in results : /\ o.task = t
                                            /\ \/ ~ShouldRetry(o.attempt, o.status)
                                               \/ RecoveryRequired(o.status)
    BY <1>1 DEF NoTaskForgotten, CurrentWave
  <2>1. \A v \in Workers : pc[v] # "dead"
    BY <1>1, <1>3
  <2>2. CASE \E i \in DOMAIN queue : queue[i].task = t
    BY <1>2, <1>3, <2>2
  <2>3. CASE \E v \in Holding : held[v].task = t
    BY <1>3, <2>3 DEF Holding
  <2>4. QED
    BY <2>1, <2>2, <2>3 DEF InFlight, NoTaskForgotten
<1>8. QED
  BY <1>1, <1>4, <1>5, <1>6, <1>7 DEF InFlight, History

(* An attempt that ends adds one outcome, of a task nobody else works on.  *)
LEMMA FinishInFlight ==
  ASSUME NEW w \in Workers, NEW ending \in Endings, TypedWave, InFlight, Finish(w, ending)
  PROVE  InFlight'
<1> USE DEF TypedWave
<1> DEFINE r == held[w]
           o1 == [task |-> r.task, attempt |-> r.attempt, status |-> ending, skills |-> snapshot]
           again == ShouldRetry(r.attempt, ending)
<1>1. /\ pc[w] = "run" /\ w \in Holding
      /\ r \in Request
      /\ r.task \in ToSet(CurrentWave)
      /\ MayStart(r)
  BY WorkerHolding DEF Finish, WaveShape, InFlight, WaveWork, RequestsFollow
<1>2. /\ results' = results \cup {o1}
      /\ queue' = queue /\ held' = held /\ main' = main /\ wave' = wave
      /\ pc' = [pc EXCEPT ![w] = IF ~again THEN "get"
                                 ELSE IF RecoveryRequired(ending) THEN "recover"
                                 ELSE "backoff"]
  BY DEF Finish
<1>3. /\ o1.task = r.task /\ o1.attempt = r.attempt /\ o1.status = ending
      /\ r.attempt \in Nat
  BY <1>1 DEF Request
<1> HIDE DEF o1, r, again
<1>4. Holding' \subseteq Holding /\ \A v \in Workers : v # w => pc'[v] = pc[v]
  BY <1>2, WorkerHolding, Zenon DEF TypeOK
<1>5. Holding \ {w} \subseteq Holding'
  BY <1>4 DEF Holding
<1>6. main \in {"join", "gather"} /\ main # "gather"
  BY <1>1, WorkerFrame DEF WorkerStep, InFlight, WaveWork
<1>7. WaveWork'
  BY <1>1, <1>2, <1>3, <1>4, <1>6 DEF InFlight, WaveWork, CurrentWave
<1>8. \A p \in results : p.attempt \in Nat
  BY DEF TypeOK, Outcome
<1>9. RequestsFollow'
  <2>1. ASSUME NEW i \in DOMAIN queue, queue[i] # Sentinel PROVE MayStart(queue[i])'
    <3>1. queue[i].task # o1.task
      BY <1>1, <1>3, <2>1 DEF InFlight, OneRequestPerTask, r
    <3>2. MayStart(queue[i])
      BY <2>1 DEF InFlight, RequestsFollow
    <3>3. QED
      BY <1>2, <3>1, <3>2 DEF MayStart
  <2>2. ASSUME NEW v \in Workers, v # w, pc'[v] \in {"run", "recover", "backoff"}
        PROVE  held'[v] = held[v] /\ held[v].task # o1.task /\ pc[v] = pc'[v]
    <3>1. pc[v] = pc'[v] /\ v \in Holding
      BY <1>4, <2>2 DEF Holding
    <3>2. QED
      BY <1>1, <1>2, <1>3, <2>2, <3>1 DEF InFlight, OneRequestPerTask, r
  <2>3. ASSUME NEW v \in Workers, v # w
        PROVE  /\ pc'[v] = "run" => MayStart(held[v])'
               /\ pc'[v] \in {"recover", "backoff"} => MayRepeat(held[v], pc[v] = "recover")'
    BY <1>2, <2>2, <2>3 DEF InFlight, RequestsFollow, MayStart, MayRepeat
  <2>4. pc'[w] # "run"
    BY <1>2 DEF TypeOK
  <2>5. pc'[w] \in {"recover", "backoff"} => again /\ (pc'[w] = "recover" => RecoveryRequired(ending))
    BY <1>2 DEF TypeOK
  <2>6. \A p \in results' : p.task = r.task => p.attempt <= r.attempt
    BY <1>1, <1>2, <1>3, <1>8 DEF MayStart
  <2>7. pc'[w] \in {"recover", "backoff"} => MayRepeat(held[w], pc[w] = "recover")'
    BY <1>2, <1>3, <2>5, <2>6 DEF MayRepeat, again, r
  <2>8. QED
    BY <1>2, <2>1, <2>3, <2>4, <2>7 DEF RequestsFollow
<1>10. OneRequestPerTask'
  BY <1>2, <1>4 DEF InFlight, OneRequestPerTask
<1>11. History(results')
  <2>1. \A p \in results : p.task = r.task => p.attempt < r.attempt
    BY <1>1 DEF MayStart
  <2>2. \A p, q \in results' : p.task = q.task /\ p.attempt = q.attempt => p = q
    BY <1>2, <1>3, <1>8, <2>1 DEF InFlight, History
  <2>3. o1.attempt > 1 => \E p \in results : /\ p.task = o1.task
                                             /\ p.attempt + 1 = o1.attempt
                                             /\ ShouldRetry(p.attempt, p.status)
    BY <1>1, <1>3 DEF MayStart
  <2>4. QED
    BY <1>2, <2>2, <2>3 DEF InFlight, History
<1>12. NoTaskForgotten'
  <2> SUFFICES ASSUME main \in {"join", "gather"}, \A v \in Workers : pc'[v] # "dead",
                      NEW t \in ToSet(CurrentWave)
               PROVE  \/ \E i \in DOMAIN queue : queue[i].task = t
                      \/ \E v \in Holding' : held[v].task = t
                      \/ \E o \in results' : /\ o.task = t
                                             /\ \/ ~ShouldRetry(o.attempt, o.status)
                                                \/ RecoveryRequired(o.status)
    BY <1>2 DEF NoTaskForgotten, CurrentWave
  <2>1. \A v \in Workers : pc[v] # "dead"
    BY <1>1, <1>4
  <2>2. CASE \E v \in Holding : held[v].task = t
    <3>1. PICK v \in Holding : held[v].task = t
      BY <2>2
    <3>2. CASE v # w
      BY <1>5, <3>1, <3>2
    <3>3. CASE v = w /\ again
      <4>1. w \in Holding'
        BY <1>1, <1>2, <3>3 DEF Holding, TypeOK
      <4>2. QED
        BY <3>1, <3>3, <4>1
    <3>4. CASE v = w /\ ~again
      BY <1>2, <1>3, <3>1, <3>4 DEF again, r
    <3>5. QED
      BY <3>2, <3>3, <3>4
  <2>3. CASE ~\E v \in Holding : held[v].task = t
    BY <1>2, <2>1, <2>3 DEF InFlight, NoTaskForgotten
  <2>4. QED
    BY <2>2, <2>3
<1>13. QED
  BY <1>7, <1>9, <1>10, <1>11, <1>12 DEF InFlight, History

(* Recovery done, recovery failed, a worker lost: no outcome is added, and  *)
(* the request either stays in hand or has its outcome.                    *)
LEMMA RecoveryInFlight ==
  ASSUME NEW w \in Workers, TypedWave, InFlight,
         Recover(w) \/ RecoveryFails(w) \/ WorkerDies(w)
  PROVE  InFlight'
<1> USE DEF TypedWave
<1>1. /\ results' = results /\ queue' = queue /\ held' = held /\ main' = main /\ wave' = wave
      /\ pc[w] \in {"run", "recover", "backoff"} /\ w \in Holding
      /\ \A v \in Workers : v # w => pc'[v] = pc[v]
      /\ Holding' \subseteq Holding /\ Holding \ {w} \subseteq Holding'
  BY DEF Recover, RecoveryFails, WorkerDies, Holding, TypeOK
<1>2. pc'[w] \in {"backoff", "get", "dead"} /\ (pc'[w] = "backoff" => pc[w] = "recover")
  BY DEF Recover, RecoveryFails, WorkerDies, TypeOK
<1>3. main \in {"join", "gather"} /\ main # "gather"
  BY <1>1, WorkerFrame DEF WorkerStep, InFlight, WaveWork
<1>4. WaveWork'
  BY <1>1, <1>3 DEF InFlight, WaveWork, CurrentWave
<1>5. RequestsFollow'
  <2>1. \A i \in DOMAIN queue : queue[i] # Sentinel => MayStart(queue[i])'
    BY <1>1 DEF InFlight, RequestsFollow, MayStart
  <2>2. ASSUME NEW v \in Workers
        PROVE  /\ pc'[v] = "run" => MayStart(held[v])'
               /\ pc'[v] \in {"recover", "backoff"} => MayRepeat(held[v], pc[v] = "recover")'
    BY <1>1, <1>2 DEF InFlight, RequestsFollow, MayStart, MayRepeat
  <2>3. QED
    BY <1>1, <2>1, <2>2 DEF RequestsFollow
<1>6. OneRequestPerTask'
  BY <1>1 DEF InFlight, OneRequestPerTask
<1>7. NoTaskForgotten'
  <2> SUFFICES ASSUME main \in {"join", "gather"}, \A v \in Workers : pc'[v] # "dead",
                      NEW t \in ToSet(CurrentWave)
               PROVE  \/ \E i \in DOMAIN queue : queue[i].task = t
                      \/ \E v \in Holding' : held[v].task = t
                      \/ \E o \in results : /\ o.task = t
                                            /\ \/ ~ShouldRetry(o.attempt, o.status)
                                               \/ RecoveryRequired(o.status)
    BY <1>1 DEF NoTaskForgotten, CurrentWave
  <2>1. \A v \in Workers : pc[v] # "dead"
    BY <1>1, <1>2
  <2>2. pc'[w] = "backoff" \/ pc[w] = "recover"
    BY DEF Recover, RecoveryFails, WorkerDies, TypeOK
  <2>3. CASE \E v \in Holding : held[v].task = t
    <3>1. PICK v \in Holding : held[v].task = t
      BY <2>3
    <3>2. CASE v # w
      BY <1>1, <3>1, <3>2
    <3>3. CASE v = w
      <4>1. pc[w] = "recover"
        BY <1>2, <2>2
      <4>2. MayRepeat(held[w], TRUE)
        BY <4>1 DEF InFlight, RequestsFollow
      <4>3. QED
        BY <3>1, <3>3, <4>2 DEF MayRepeat
    <3>4. QED
      BY <3>2, <3>3
  <2>4. CASE ~\E v \in Holding : held[v].task = t
    BY <2>1, <2>4 DEF InFlight, NoTaskForgotten
  <2>5. QED
    BY <2>3, <2>4
<1>8. QED
  BY <1>1, <1>4, <1>5, <1>6, <1>7 DEF InFlight, History

(* A retry goes to the end of the queue before its task_done is called.    *)
LEMMA RequeueInFlight ==
  ASSUME NEW w \in Workers, TypedWave, InFlight, Requeue(w)
  PROVE  InFlight'
<1> USE DEF TypedWave
<1> DEFINE r  == held[w]
           r1 == [r EXCEPT !.attempt = @ + 1]
<1>1. /\ pc[w] = "backoff" /\ w \in Holding
      /\ r \in Request /\ r.task \in ToSet(CurrentWave)
      /\ MayRepeat(r, FALSE)
  BY WorkerHolding DEF Requeue, WaveShape, InFlight, WaveWork, RequestsFollow
<1>2. /\ results' = results /\ held' = held /\ main' = main /\ wave' = wave
      /\ queue' = Append(queue, r1)
      /\ Holding' = Holding \ {w}
      /\ \A v \in Workers : v # w => pc'[v] = pc[v]
      /\ pc'[w] = "get"
  BY WorkerHolding DEF Requeue, TypeOK
<1>3. /\ r1 \in Request /\ r1.task = r.task /\ r1.attempt = r.attempt + 1 /\ r.attempt \in Nat
      /\ r1 # Sentinel
  BY <1>1, WavesAssumption DEF Request, Sentinel
<1> HIDE DEF r1, r
<1>4. /\ Len(queue) \in Nat
      /\ DOMAIN queue = 1 .. Len(queue)
      /\ DOMAIN queue' = DOMAIN queue \cup {Len(queue) + 1}
      /\ Len(queue) + 1 \notin DOMAIN queue
      /\ queue'[Len(queue) + 1] = r1
      /\ \A i \in DOMAIN queue : queue'[i] = queue[i]
  BY <1>2 DEF TypeOK
<1>5. main \in {"join", "gather"} /\ main # "gather"
  BY <1>1, WorkerFrame DEF WorkerStep, InFlight, WaveWork
<1>6. WaveWork'
  BY <1>1, <1>2, <1>3, <1>4, <1>5 DEF InFlight, WaveWork, CurrentWave
<1>7. RequestsFollow'
  <2>1. \A o \in results : o.attempt \in Nat
    BY DEF TypeOK, Outcome
  <2>2. MayStart(r1)
    BY <1>1, <1>3, <2>1 DEF MayStart, MayRepeat
  <2>3. \A i \in DOMAIN queue' : queue'[i] # Sentinel => MayStart(queue'[i])
    BY <1>4, <2>2 DEF InFlight, RequestsFollow
  <2>4. QED
    BY <1>2, <2>3 DEF InFlight, RequestsFollow, MayStart, MayRepeat
<1>8. OneRequestPerTask'
  <2>1. \A i \in DOMAIN queue : queue[i].task # r1.task
    BY <1>1, <1>3 DEF InFlight, OneRequestPerTask, r
  <2>2. \A v \in Holding' : held[v].task # r1.task
    BY <1>1, <1>2, <1>3 DEF InFlight, OneRequestPerTask, r
  <2>3. QED
    BY <1>2, <1>4, <2>1, <2>2 DEF InFlight, OneRequestPerTask
<1>9. NoTaskForgotten'
  <2> SUFFICES ASSUME main \in {"join", "gather"}, \A v \in Workers : pc'[v] # "dead",
                      NEW t \in ToSet(CurrentWave)
               PROVE  \/ \E i \in DOMAIN queue' : queue'[i].task = t
                      \/ \E v \in Holding' : held[v].task = t
                      \/ \E o \in results : /\ o.task = t
                                            /\ \/ ~ShouldRetry(o.attempt, o.status)
                                               \/ RecoveryRequired(o.status)
    BY <1>2 DEF NoTaskForgotten, CurrentWave
  <2>1. \A v \in Workers : pc[v] # "dead"
    BY <1>1, <1>2
  <2>2. CASE r.task = t
    BY <1>3, <1>4, <2>2
  <2>3. CASE r.task # t
    BY <1>2, <1>4, <2>1, <2>3 DEF InFlight, NoTaskForgotten, r
  <2>4. QED
    BY <2>2, <2>3
<1>10. QED
  BY <1>2, <1>6, <1>7, <1>8, <1>9 DEF InFlight, History

LEMMA LeaveInFlight ==
  ASSUME NEW w \in Workers, TypedWave, InFlight, Leave(w)
  PROVE  InFlight'
<1> USE DEF TypedWave
<1>1. /\ queue # <<>> /\ queue[1] = Sentinel /\ 1 \in DOMAIN queue
      /\ queue' = Tail(queue)
      /\ results' = results /\ held' = held /\ main' = main /\ wave' = wave
      /\ Holding' = Holding
      /\ \A v \in Workers : v # w => pc'[v] = pc[v]
      /\ pc[w] = "get" /\ pc'[w] = "left"
  BY QueueItems, WorkerHolding DEF Leave, TypeOK
<1>2. /\ \A i \in DOMAIN queue' : i + 1 \in DOMAIN queue /\ queue'[i] = queue[i + 1] /\ i \in Nat
      /\ \A i \in DOMAIN queue : i # 1 => i - 1 \in DOMAIN queue' /\ queue'[i - 1] = queue[i]
  BY <1>1, QueueItems DEF TypeOK
<1>3. main \in {"join", "gather"}
  BY WorkerFrame DEF WorkerStep
<1>4. WaveWork'
  BY <1>1, <1>2, <1>3 DEF InFlight, WaveWork, CurrentWave
<1>5. RequestsFollow'
  BY <1>1, <1>2 DEF InFlight, RequestsFollow, MayStart, MayRepeat
<1>6. OneRequestPerTask'
  <2>1. \A i, j \in DOMAIN queue' :
          queue'[i] # Sentinel /\ queue'[i].task = queue'[j].task => i = j
    BY <1>2 DEF InFlight, OneRequestPerTask
  <2>2. \A v \in Holding : \A i \in DOMAIN queue' : queue'[i].task # held[v].task
    BY <1>2 DEF InFlight, OneRequestPerTask
  <2>3. QED
    BY <1>1, <2>1, <2>2 DEF InFlight, OneRequestPerTask
<1>7. NoTaskForgotten'
  <2> SUFFICES ASSUME main \in {"join", "gather"}, \A v \in Workers : pc'[v] # "dead",
                      NEW t \in ToSet(CurrentWave)
               PROVE  \/ \E i \in DOMAIN queue' : queue'[i].task = t
                      \/ \E v \in Holding : held[v].task = t
                      \/ \E o \in results : /\ o.task = t
                                            /\ \/ ~ShouldRetry(o.attempt, o.status)
                                               \/ RecoveryRequired(o.status)
    BY <1>1 DEF NoTaskForgotten, CurrentWave
  <2>1. \A v \in Workers : pc[v] # "dead"
    BY <1>1
  <2>2. t # NoTask
    <3>1. CurrentWave \in Seq(AllTasks)
      BY WorkerFrame, CurrentWaveType DEF TypeOK, WorkerStep
    <3>2. QED
      BY <3>1, WavesAssumption DEF ToSet
  <2>3. queue[1].task = NoTask
    BY <1>1 DEF Sentinel
  <2>4. QED
    BY <1>2, <2>1, <2>2, <2>3 DEF InFlight, NoTaskForgotten
<1>8. QED
  BY <1>1, <1>4, <1>5, <1>6, <1>7 DEF InFlight, History

LEMMA WorkerInFlight ==
  ASSUME NEW w \in Workers, TypedWave, InFlight, WorkerStep(w) \/ WorkerDies(w)
  PROVE  InFlight'
  BY TakeInFlight, FinishInFlight, RecoveryInFlight, RequeueInFlight, LeaveInFlight
     DEF WorkerStep
-----------------------------------------------------------------------------
(* The tasks of the waves: a wave shares none with the waves before it.    *)
LEMMA WaveTasks ==
  ASSUME wave \in 0 .. Len(Waves), wave < Len(Waves)
  PROVE  /\ TasksOf(wave + 1) = TasksOf(wave) \cup ToSet(CurrentWave)
         /\ TasksOf(wave) \cap ToSet(CurrentWave) = {}
         /\ ToSet(CurrentWave) \subseteq AllTasks
<1>1. DOMAIN Waves = 1 .. Len(Waves) /\ Len(Waves) \in Nat
  BY WavesAssumption
<1>2. 1 .. (wave + 1) = (1 .. wave) \cup {wave + 1}
  OBVIOUS
<1>3. ASSUME NEW i \in 1 .. wave, NEW t \in ToSet(Waves[i]), t \in ToSet(CurrentWave)
      PROVE  FALSE
  <2>1. i \in DOMAIN Waves /\ wave + 1 \in DOMAIN Waves /\ i # wave + 1
    BY <1>1
  <2>2. PICK a \in DOMAIN Waves[i] : Waves[i][a] = t
    BY <1>3 DEF ToSet
  <2>3. PICK b \in DOMAIN Waves[wave + 1] : Waves[wave + 1][b] = t
    BY <1>3 DEF ToSet, CurrentWave
  <2>4. QED
    BY <2>1, <2>2, <2>3, WavesAssumption
<1>4. QED
  BY <1>1, <1>2, <1>3 DEF TasksOf, CurrentWave, AllTasks

(* The history of two sets of outcomes that share no task.                 *)
LEMMA HistoryUnion ==
  ASSUME NEW S, NEW T, History(S), History(T), \A o \in S, p \in T : o.task # p.task
  PROVE  History(S \cup T)
  BY DEF History

LEMMA InitInFlight == Init => InFlight /\ RecordsAgree
<1> SUFFICES ASSUME Init PROVE InFlight /\ RecordsAgree
  OBVIOUS
<1>1. Holding = {} /\ DOMAIN queue = {} /\ results = {} /\ attempts = {}
      /\ checkpoint.outcomes = {} /\ checkpoint.waves = 0
  BY DEF Init, Holding, NoCheckpoint
<1>2. TasksOf(0) = {}
  BY DEF TasksOf
<1>3. History({})
  BY DEF History
<1>4. WaveWork
  BY <1>1 DEF Init, WaveWork
<1>5. RequestsFollow /\ OneRequestPerTask
  BY <1>1 DEF Init, RequestsFollow, OneRequestPerTask
<1>6. QED
  BY <1>1, <1>2, <1>3, <1>4, <1>5
     DEF Init, InFlight, RecordsAgree, NoTaskForgotten, CheckpointIsWholeWaves

(* No wave is running any more. *)
LEMMA IdleInFlight ==
  ASSUME TypedWave', main' \notin {"join", "gather"}, queue' = <<>>, results' = {}
  PROVE  InFlight'
<1>1. Holding' = {} /\ DOMAIN queue' = {} /\ \A w \in Workers : pc'[w] = "off"
  BY DEF TypedWave, WaveShape, Holding
<1>2. WaveWork' /\ OneRequestPerTask' /\ NoTaskForgotten'
  BY <1>1 DEF WaveWork, OneRequestPerTask, NoTaskForgotten
<1>3. RequestsFollow'
  BY <1>1 DEF RequestsFollow
<1>4. History(results)'
  BY DEF History
<1>5. QED
  BY <1>2, <1>3, <1>4 DEF InFlight

LEMMA StartWaveInFlight == TypedWave /\ InFlight /\ StartWave => InFlight'
<1> SUFFICES ASSUME TypedWave, InFlight, StartWave PROVE InFlight'
  OBVIOUS
<1> USE DEF TypedWave
<1>1. /\ main' = "join" /\ wave' = wave /\ results' = {}
      /\ queue' = [i \in 1 .. Len(CurrentWave) |-> [task |-> CurrentWave[i], attempt |-> 1]]
      /\ Holding' = {}
      /\ \A w \in Workers : pc'[w] \in {"get", "off"}
  BY DEF StartWave, InFlight, WaveWork, Holding
<1>2. CurrentWave \in Seq(AllTasks) /\ wave + 1 \in DOMAIN Waves
  BY CurrentWaveType, WavesAssumption DEF StartWave, TypeOK
<1>3. DOMAIN queue' = DOMAIN CurrentWave
      /\ \A i \in DOMAIN queue' : queue'[i].task = CurrentWave[i] /\ queue'[i].attempt = 1
  BY <1>1, <1>2
<1>4. \A t \in ToSet(CurrentWave) : \E i \in DOMAIN queue' : queue'[i].task = t
  BY <1>3 DEF ToSet
<1>5. WaveWork'
  BY <1>1, <1>3 DEF WaveWork, CurrentWave, ToSet
<1>6. \A i, j \in DOMAIN queue' : queue'[i].task = queue'[j].task => i = j
  BY <1>2, <1>3, WavesAssumption DEF CurrentWave
<1>7. OneRequestPerTask'
  BY <1>1, <1>6 DEF OneRequestPerTask
<1>8. RequestsFollow'
  BY <1>1, <1>3 DEF RequestsFollow, MayStart
<1>9. NoTaskForgotten'
  BY <1>1, <1>4 DEF NoTaskForgotten, CurrentWave
<1>10. History(results)'
  BY <1>1 DEF History
<1>11. QED
  BY <1>5, <1>7, <1>8, <1>9, <1>10 DEF InFlight

(* join() returns with nothing queued and nothing held.                    *)
LEMMA JoinInFlight == TypedWave /\ InFlight /\ JoinReturns => InFlight'
<1> SUFFICES ASSUME TypedWave, InFlight, JoinReturns PROVE InFlight'
  OBVIOUS
<1> USE DEF TypedWave
<1>1. Len(queue) = 0 /\ Holding = {}
  BY HoldingCount DEF JoinReturns, TypeOK, QueueAccounting
<1>2. /\ main = "join" /\ main' = "gather" /\ wave' = wave /\ results' = results
      /\ held' = held /\ pc' = pc /\ Holding' = Holding
  BY DEF JoinReturns, Holding
<1>3. ActiveCount \in Nat
  BY CurrentWaveType DEF JoinReturns, TypeOK, WaveShape
<1>4. \A i \in DOMAIN queue' : queue'[i] = Sentinel
  BY <1>1, <1>3 DEF JoinReturns, TypeOK
<1>5. DOMAIN queue = {}
  BY <1>1 DEF TypeOK
<1>6. WaveWork'
  BY <1>1, <1>2, <1>4 DEF InFlight, WaveWork, CurrentWave
<1>7. OneRequestPerTask'
  BY <1>1, <1>2, <1>4 DEF OneRequestPerTask
<1>8. RequestsFollow'
  BY <1>2, <1>4 DEF InFlight, RequestsFollow, MayStart, MayRepeat
<1>9. NoTaskForgotten'
  BY <1>1, <1>2, <1>5 DEF InFlight, NoTaskForgotten, CurrentWave
<1>10. QED
  BY <1>2, <1>6, <1>7, <1>8, <1>9 DEF InFlight, History

(* When every active worker has left, each task of the wave has an outcome *)
(* and the wave's outcomes extend the history of the waves before it.      *)
LEMMA WaveEndsRecords ==
  ASSUME AttemptsInv, WaveEnds
  PROVE  InFlight' /\ RecordsAgree'
<1> USE DEF AttemptsInv, TypedWave
<1>1. /\ main = "gather" /\ wave < Len(Waves) /\ wave \in 0 .. Len(Waves)
      /\ wave = checkpoint.waves /\ attempts = checkpoint.outcomes
  BY DEF WaveEnds, WaveShape, TypeOK, FilesAgree
<1>2. /\ main' = "next" /\ queue' = <<>> /\ results' = {}
      /\ checkpoint'.waves = wave + 1 /\ checkpoint'.outcomes = attempts \cup results
      /\ UNCHANGED <<settled, report>>
  BY DEF WaveEnds, IdleLoops
<1>3. TypedWave'
  BY MainTypeOK, MainAccounting DEF MainStep
<1>4. InFlight'
  BY <1>2, <1>3, IdleInFlight
<1>5. {o.task : o \in attempts} = TasksOf(wave)
  BY <1>1 DEF RecordsAgree, CheckpointIsWholeWaves
<1>6. \A t \in ToSet(CurrentWave) : \E o \in results : o.task = t
  <2>1. \A w \in Workers : pc[w] # "dead"
    BY DEF WaveEnds
  <2>2. Holding = {} /\ \A i \in DOMAIN queue : queue[i].task = NoTask
    BY <1>1 DEF InFlight, WaveWork, Sentinel
  <2>3. NoTask \notin ToSet(CurrentWave)
    BY <1>1, WaveTasks, WavesAssumption
  <2>4. QED
    BY <1>1, <2>1, <2>2, <2>3 DEF InFlight, NoTaskForgotten
<1>7. \A o \in results : o.task \in ToSet(CurrentWave)
  BY DEF InFlight, WaveWork
<1>8. {o.task : o \in attempts \cup results} = TasksOf(wave + 1)
  BY <1>1, <1>5, <1>6, <1>7, WaveTasks
<1>9. History(attempts \cup results)
  <2>1. \A o \in attempts, p \in results : o.task # p.task
    BY <1>1, <1>5, <1>7, WaveTasks
  <2>2. QED
    BY <1>1, <2>1, HistoryUnion DEF InFlight, RecordsAgree
<1>10. report = NoReport
  BY <1>1 DEF FilesAgree
<1>11. RecordsAgree'
  <2>1. CheckpointIsWholeWaves'
    BY <1>2, <1>8 DEF CheckpointIsWholeWaves
  <2>2. QED
    BY <1>2, <1>9, <1>10, <2>1 DEF RecordsAgree
<1>12. QED
  BY <1>4, <1>11

LEMMA LoseProcessRecords ==
  ASSUME AttemptsInv, LoseProcess
  PROVE  InFlight' /\ RecordsAgree'
<1>1. main' = "down" /\ queue' = <<>> /\ results' = {} /\ attempts' = {}
      /\ UNCHANGED <<checkpoint, settled, report>> /\ IdleLoops
  BY DEF LoseProcess, IdleLoops, durableVars
<1>2. TypedWave'
  <2>1. TypeOK'
    BY LoseProcessTypeOK DEF AttemptsInv, TypedWave
  <2>2. Holding' = {} /\ Len(queue') = 0 /\ unfinished' = 0
    BY <1>1 DEF IdleLoops, Holding
  <2>3. QED
    BY <1>1, <2>1, <2>2, HoldingCount
       DEF IdleLoops, TypedWave, QueueAccounting, WaveShape
<1>3. QED
  BY <1>1, <1>2, IdleInFlight DEF AttemptsInv, RecordsAgree, CheckpointIsWholeWaves

LEMMA MainRecords == AttemptsInv /\ MainStep => InFlight' /\ RecordsAgree'
<1> SUFFICES ASSUME AttemptsInv, MainStep PROVE InFlight' /\ RecordsAgree'
  OBVIOUS
<1> USE DEF AttemptsInv
<1>0. TypedWave' /\ FilesAgree'
  BY MainTypeOK, MainAccounting, MainFilesAgree DEF TypedWave
<1>1. ASSUME UNCHANGED loopVars, main \notin {"join", "gather"}, main' \notin {"join", "gather"}
      PROVE  InFlight'
  BY <1>0, <1>1, IdleInFlight DEF InFlight, WaveWork, loopVars
<1>2. CASE Launch
  <2>1. main = "down" /\ main' = "next" /\ UNCHANGED loopVars /\ UNCHANGED durableVars
    BY <1>2 DEF Launch
  <2>2. QED
    BY <1>1, <2>1 DEF RecordsAgree, CheckpointIsWholeWaves, durableVars
<1>3. CASE StartWave
  <2>1. main' = "join" /\ UNCHANGED durableVars /\ UNCHANGED attempts
    BY <1>3 DEF StartWave
  <2>2. QED
    BY <1>3, <2>1, StartWaveInFlight DEF RecordsAgree, CheckpointIsWholeWaves, durableVars
<1>4. CASE JoinReturns
  <2>1. main' = "gather" /\ UNCHANGED durableVars /\ UNCHANGED attempts
    BY <1>4 DEF JoinReturns
  <2>2. QED
    BY <1>4, <2>1, JoinInFlight DEF RecordsAgree, CheckpointIsWholeWaves, durableVars
<1>5. CASE WaveEnds
  BY <1>5, WaveEndsRecords
<1>6. CASE WaveFails
  BY <1>6, LoseProcessRecords DEF WaveFails
<1>7. CASE StartSettling
  <2>1. /\ main = "next" /\ main' = "settle" /\ UNCHANGED loopVars /\ UNCHANGED durableVars
        /\ todo' = attempts /\ attempts' = attempts
    BY <1>7 DEF StartSettling
  <2>2. QED
    BY <1>1, <2>1 DEF RecordsAgree, CheckpointIsWholeWaves, durableVars
<1>8. ASSUME NEW outcome \in todo, Settle(outcome) PROVE InFlight' /\ RecordsAgree'
  <2>1. /\ main = "settle" /\ main' = "settle" /\ UNCHANGED loopVars
        /\ UNCHANGED <<checkpoint, report, attempts>>
        /\ todo' = todo \ {outcome} /\ settled' = settled \cup {outcome}
    BY <1>8 DEF Settle
  <2>2. outcome \in checkpoint.outcomes
    BY <2>1 DEF FilesAgree
  <2>3. QED
    BY <1>1, <2>1, <2>2 DEF RecordsAgree, CheckpointIsWholeWaves
<1>9. CASE WriteReport
  <2>1. /\ main = "settle" /\ main' = "saved" /\ todo = {} /\ UNCHANGED loopVars
        /\ UNCHANGED <<checkpoint, settled, attempts>>
    BY <1>9 DEF WriteReport
  <2>2. settled = checkpoint.outcomes
    BY <2>1 DEF FilesAgree, RecordsAgree
  <2>3. QED
    BY <1>1, <2>1, <2>2 DEF RecordsAgree, CheckpointIsWholeWaves
<1>10. CASE CloseCheckpoint
  <2>1. /\ main = "saved" /\ main' = "reported" /\ UNCHANGED loopVars
        /\ UNCHANGED <<settled, report, attempts>>
        /\ checkpoint'.outcomes = checkpoint.outcomes
        /\ checkpoint'.waves = checkpoint.waves
    BY <1>10 DEF CloseCheckpoint, FilesAgree
  <2>2. QED
    BY <1>1, <2>1 DEF RecordsAgree, CheckpointIsWholeWaves
<1>11. QED
  BY <1>2, <1>3, <1>4, <1>5, <1>6, <1>7, <1>8, <1>9, <1>10 DEF MainStep

LEMMA InitAttemptsInv == Init => AttemptsInv
  BY InitTypedWave, InitFilesAgree, InitInFlight DEF AttemptsInv

LEMMA NextAttemptsInv == AttemptsInv /\ [Next]_vars => AttemptsInv'
<1> SUFFICES ASSUME AttemptsInv, [Next]_vars PROVE InFlight' /\ RecordsAgree'
  BY NextTypedWave, NextFilesAgree DEF AttemptsInv
<1> USE DEF AttemptsInv
<1>1. CASE MainStep
  BY <1>1, MainRecords
<1>2. ASSUME NEW w \in Workers, WorkerStep(w) \/ WorkerDies(w)
      PROVE  InFlight' /\ RecordsAgree'
  <2>1. UNCHANGED <<main, attempts, durableVars>> /\ main \in {"join", "gather"}
    BY <1>2, WorkerFrame
  <2>2. todo' = todo
    BY <1>2, WorkerFrame
  <2>3. QED
    BY <1>2, <2>1, <2>2, WorkerInFlight DEF RecordsAgree, CheckpointIsWholeWaves, durableVars
<1>3. CASE Crash
  BY <1>3, LoseProcessRecords DEF Crash
<1>4. ASSUME UNCHANGED <<main, wave, attempts, todo, loopVars, checkpoint, settled, report>>
      PROVE  InFlight' /\ RecordsAgree'
  <2>1. Holding' = Holding
    BY <1>4 DEF loopVars, Holding
  <2>2. WaveWork' /\ OneRequestPerTask'
    BY <1>4, <2>1 DEF loopVars, InFlight, WaveWork, OneRequestPerTask, CurrentWave
  <2>3. RequestsFollow'
    BY <1>4 DEF loopVars, InFlight, RequestsFollow, MayStart, MayRepeat
  <2>4. NoTaskForgotten'
    BY <1>4, <2>1 DEF loopVars, InFlight, NoTaskForgotten, CurrentWave
  <2>5. QED
    BY <1>4, <2>2, <2>3, <2>4 DEF loopVars, InFlight, History, RecordsAgree, CheckpointIsWholeWaves
<1>5. CASE ForeignWrite
  BY <1>4, <1>5 DEF ForeignWrite
<1>6. CASE UNCHANGED vars
  BY <1>4, <1>6 DEF vars, durableVars
<1>7. QED
  BY <1>1, <1>2, <1>3, <1>5, <1>6 DEF Next, Terminated
-----------------------------------------------------------------------------
(* The largest limit bounds the attempts of a history.                     *)
AttemptBound == MaxTaskRetries + ModelTimeoutRequeues + WorkerFailureRequeues + 1

LEMMA HistoryBounded ==
  ASSUME NEW S, S \subseteq Outcome, History(S), NEW o \in S
  PROVE  /\ o.attempt > 1 =>
              \E limit \in {MaxTaskRetries, ModelTimeoutRequeues, WorkerFailureRequeues} :
                o.attempt <= limit + 1
         /\ o.attempt \in Nat
         /\ o.attempt <= AttemptBound
<1>1. \A p \in S : p.attempt \in Nat \ {0}
  BY DEF Outcome
<1>2. o.attempt > 1 =>
        \E limit \in {MaxTaskRetries, ModelTimeoutRequeues, WorkerFailureRequeues} :
          o.attempt <= limit + 1
  <2> SUFFICES ASSUME o.attempt > 1
               PROVE  \/ o.attempt <= MaxTaskRetries + 1
                      \/ o.attempt <= ModelTimeoutRequeues + 1
                      \/ o.attempt <= WorkerFailureRequeues + 1
    OBVIOUS
  <2>1. PICK p \in S : p.attempt + 1 = o.attempt /\ ShouldRetry(p.attempt, p.status)
    BY DEF History
  <2>2. QED
    BY <1>1, <2>1, ConfigAssumption DEF ShouldRetry
<1>3. QED
  BY <1>1, <1>2, ConfigAssumption DEF AttemptBound

(* A non-empty set of naturals that is bounded has a greatest member. *)
LEMMA GreatestExists ==
  ASSUME NEW S \in SUBSET Nat, S # {}, NEW m \in Nat, \A v \in S : v <= m
  PROVE  \E v \in S : \A u \in S : u <= v
<1> DEFINE T == {n \in Nat : \A v \in S : v <= n}
           Less == {ss \in Nat \X Nat : ss[1] < ss[2]}
<1>1. T \subseteq Nat /\ T # {}
  OBVIOUS
<1>2. PICK n \in T : \A y \in T : ~ (<<y, n>> \in Less)
  <2>1. IsWellFoundedOn(Less, Nat)
    BY NatLessThanWellFounded DEF OpToRel
  <2> HIDE DEF T, Less
  <2>2. QED
    BY <1>1, <2>1, WFMin
<1>3. \A y \in T : ~ (y < n)
  BY <1>1, <1>2
<1>4. CASE n \in S
  BY <1>4
<1>5. CASE n \notin S
  <2>1. \A v \in S : v < n
    BY <1>5
  <2>2. n - 1 \in Nat
    <3>1. PICK v \in S : v < n /\ v \in Nat /\ n \in Nat
      BY <2>1
    <3>2. QED
      BY <3>1
  <2>3. n - 1 \in T
    BY <2>1, <2>2
  <2>4. QED
    BY <2>3, <1>3
<1>6. QED
  BY <1>4, <1>5

(* _final_task_outcomes picks, for a task with an outcome, one of its       *)
(* outcomes, a success when there is one.                                  *)
LEMMA FinalOutcomeIsOne ==
  ASSUME NEW S, S \subseteq Outcome, History(S), NEW t, \E o \in S : o.task = t
  PROVE  /\ FinalOutcome(t, S) \in S
         /\ FinalOutcome(t, S).task = t
         /\ FinalOutcome(t, S).status = "succeeded"
              <=> \E o \in S : o.task = t /\ o.status = "succeeded"
<1> DEFINE mine == {o \in S : o.task = t}
           won  == {o \in mine : o.status = "succeeded"}
           pool == IF won # {} THEN won ELSE mine
           numbers == {o.attempt : o \in pool}
<1>1. pool \subseteq S /\ pool # {} /\ \A o \in pool : o.task = t
  OBVIOUS
<1>2. \A o \in pool : o.attempt \in Nat /\ o.attempt <= AttemptBound
  BY <1>1, HistoryBounded
<1>3. AttemptBound \in Nat
  BY ConfigAssumption DEF AttemptBound
<1> HIDE DEF pool
<1>4. \E n \in numbers : \A k \in numbers : k <= n
  <2>1. numbers \in SUBSET Nat /\ numbers # {} /\ \A k \in numbers : k <= AttemptBound
    BY <1>1, <1>2
  <2> HIDE DEF numbers
  <2>2. QED
    BY <1>3, <2>1, GreatestExists
<1>5. \E o \in pool : \A p \in pool : p.attempt <= o.attempt
  BY <1>4
<1>6. FinalOutcome(t, S) = CHOOSE o \in pool : \A p \in pool : p.attempt <= o.attempt
  BY DEF FinalOutcome, pool
<1>7. FinalOutcome(t, S) \in pool
  BY <1>5, <1>6
<1>8. won # {} => pool = won
  BY DEF pool
<1>9. won = {} => pool = mine
  BY DEF pool
<1>10. QED
  BY <1>1, <1>7, <1>8, <1>9

LEMMA HistoryIsSound == AttemptsInv => AttemptHistory
<1> SUFFICES ASSUME AttemptsInv PROVE AttemptHistory
  OBVIOUS
<1> USE DEF AttemptsInv, TypedWave
<1>1. checkpoint.outcomes \subseteq Outcome /\ History(checkpoint.outcomes)
  BY DEF TypeOK, Checkpoint, RecordsAgree
<1>2. attempts \cup results \subseteq Outcome
  BY DEF TypeOK
<1>3. History(attempts \cup results)
  <2>1. CASE results = {}
    <3>1. attempts = {} \/ attempts = checkpoint.outcomes
      BY DEF FilesAgree, RecordsAgree
    <3>2. History({})
      BY DEF History
    <3>3. QED
      BY <1>1, <2>1, <3>1, <3>2
  <2>2. CASE results # {}
    <3>1. main \in {"join", "gather"}
      BY <2>2 DEF InFlight, WaveWork
    <3>2. wave \in 0 .. Len(Waves) /\ wave < Len(Waves)
          /\ attempts = checkpoint.outcomes /\ wave = checkpoint.waves
      BY <3>1 DEF TypeOK, WaveShape, FilesAgree
    <3>3. \A o \in attempts : o.task \in TasksOf(wave)
      BY <3>2 DEF RecordsAgree, CheckpointIsWholeWaves
    <3>4. \A o \in results : o.task \in ToSet(CurrentWave)
      BY DEF InFlight, WaveWork
    <3>5. \A o \in attempts, p \in results : o.task # p.task
      BY <3>2, <3>3, <3>4, WaveTasks
    <3>6. QED
      BY <1>1, <3>2, <3>5, HistoryUnion DEF InFlight
  <2>3. QED
    BY <2>1, <2>2
<1>4. ASSUME NEW S, S \subseteq Outcome, History(S)
      PROVE  /\ \A o, p \in S : o.task = p.task /\ o.attempt = p.attempt => o = p
             /\ \A o \in S : o.attempt > 1 =>
                  /\ \E p \in S : /\ p.task = o.task
                                  /\ p.attempt + 1 = o.attempt
                                  /\ p.status \notin {"succeeded", "not_retryable"}
                  /\ \E limit \in {MaxTaskRetries, ModelTimeoutRequeues, WorkerFailureRequeues} :
                       o.attempt <= limit + 1
  <2>1. \A o \in S : o.attempt > 1 =>
          \E p \in S : /\ p.task = o.task
                       /\ p.attempt + 1 = o.attempt
                       /\ p.status \notin {"succeeded", "not_retryable"}
    BY <1>4 DEF History, ShouldRetry, Retryable
  <2>2. \A o \in S : o.attempt > 1 =>
          \E limit \in {MaxTaskRetries, ModelTimeoutRequeues, WorkerFailureRequeues} :
            o.attempt <= limit + 1
    BY <1>4, HistoryBounded
  <2>3. \A o, p \in S : o.task = p.task /\ o.attempt = p.attempt => o = p
    BY <1>4 DEF History
  <2>4. QED
    BY <2>1, <2>2, <2>3
<1>5. QED
  BY <1>1, <1>2, <1>3, <1>4 DEF AttemptHistory

LEMMA ReportIsComplete == AttemptsInv => ReportComplete
<1> SUFFICES ASSUME AttemptsInv, report # NoReport PROVE ReportComplete
  BY DEF ReportComplete
<1> USE DEF AttemptsInv, TypedWave
<1> DEFINE S == checkpoint.outcomes
<1>1. S \subseteq Outcome /\ History(S) /\ settled = S
  BY DEF TypeOK, Checkpoint, RecordsAgree
<1>2. {o.task : o \in S} = AllTasks
  BY DEF FilesAgree, RecordsAgree, CheckpointIsWholeWaves, AllTasks
<1>3. report = [task \in {o.task : o \in S} |-> FinalOutcome(task, S)]
  BY DEF FilesAgree, FinalOutcomes
<1>4. DOMAIN report = AllTasks /\ \A t \in AllTasks : report[t] = FinalOutcome(t, S)
  BY <1>2, <1>3
<1>5. \A t \in AllTasks : \E o \in S : o.task = t
  BY <1>2
<1> HIDE DEF S
<1>6. ASSUME NEW t \in AllTasks
      PROVE  /\ report[t] \in S
             /\ report[t].task = t
             /\ (report[t].status = "succeeded"
                  <=> \E o \in S : o.task = t /\ o.status = "succeeded")
  BY <1>1, <1>4, <1>5, FinalOutcomeIsOne
<1>7. QED
  BY <1>1, <1>4, <1>6 DEF ReportComplete, S

(* Requests, retries, waves and the report tell one history of each task,  *)
(* for every plan of waves, pool size and setting of the retry limits,     *)
(* across any number of lost processes and of writes by other jobs.        *)
THEOREM AttemptsStaySound == Spec => []AttemptsAreSound
<1>1. AttemptsInv => AttemptsAreSound
  BY HistoryIsSound, ReportIsComplete DEF AttemptsInv, InFlight, RecordsAgree, AttemptsAreSound
<1>2. QED
  BY <1>1, InitAttemptsInv, NextAttemptsInv, PTL DEF Spec
-----------------------------------------------------------------------------
(* The durable state of the runner implements TrainingJob: the end of a    *)
(* wave is RecordWave, the first settled attempt is StartSettling, the     *)
(* first report is Publish, and every other step is invisible.             *)

(* The tasks of the abstract job are those of the runner.                  *)
LEMMA SameTasks == Job!AllTasks = AllTasks /\ \A s : Job!ToSet(s) = ToSet(s)
  BY DEF Job!AllTasks, Job!TasksOf, Job!ToSet, AllTasks, TasksOf, ToSet

LEMMA JobInitHolds == Init => Job!JobInit
<1> SUFFICES ASSUME Init PROVE Job!JobInit
  OBVIOUS
<1>1. checkpoint.waves = 0 /\ settled = {} /\ report = NoReport
  BY DEF Init, NoCheckpoint
<1>2. TasksOf(0) = {}
  BY DEF TasksOf
<1>3. \A t \in AllTasks : TaskVerdict(t) = NoVerdict
  BY <1>1, <1>2 DEF TaskVerdict
<1>4. PublishedVerdicts = NoReport
  BY <1>1 DEF PublishedVerdicts
<1>5. QED
  BY <1>1, <1>3, <1>4, SameTasks DEF Job!JobInit

(* A step that leaves checkpoint, settled and report leaves the job alone. *)
LEMMA DurableStutter ==
  ASSUME checkpoint'.waves = checkpoint.waves, checkpoint'.outcomes = checkpoint.outcomes,
         (settled' = {}) = (settled = {}), report' = report
  PROVE  UNCHANGED Job!jobVars
<1>1. \A t : TaskVerdict(t)' = TaskVerdict(t)
  BY DEF TaskVerdict
<1>2. PublishedVerdicts' = PublishedVerdicts
  BY DEF PublishedVerdicts
<1>3. QED
  BY <1>1, <1>2 DEF Job!jobVars

LEMMA WaveEndsRecordsWave == AttemptsInv /\ WaveEnds => Job!RecordWave
<1> SUFFICES ASSUME AttemptsInv, WaveEnds PROVE Job!RecordWave
  OBVIOUS
<1> USE DEF AttemptsInv, TypedWave
<1>1. /\ wave < Len(Waves) /\ wave \in 0 .. Len(Waves)
      /\ wave = checkpoint.waves /\ attempts = checkpoint.outcomes
      /\ settled = {} /\ report = NoReport
  BY DEF WaveEnds, WaveShape, TypeOK, FilesAgree
<1>2. /\ checkpoint'.waves = wave + 1 /\ checkpoint'.outcomes = attempts \cup results
      /\ settled' = settled /\ report' = report
  BY DEF WaveEnds
<1>3. \A o \in attempts : o.task \in TasksOf(wave)
  BY <1>1 DEF RecordsAgree, CheckpointIsWholeWaves
<1>4. \A o \in results : o.task \in ToSet(CurrentWave)
  BY DEF InFlight, WaveWork
<1> DEFINE now(t) == \E o \in attempts \cup results : o.task = t /\ o.status = "succeeded"
           v == [t \in ToSet(CurrentWave) |-> now(t)]
<1>5. v \in [ToSet(CurrentWave) -> BOOLEAN]
  OBVIOUS
<1>6. ASSUME NEW t \in AllTasks
      PROVE  TaskVerdict(t)' = IF t \in ToSet(CurrentWave) THEN now(t) ELSE TaskVerdict(t)
  <2>1. TaskVerdict(t)' = IF t \in TasksOf(wave + 1) THEN now(t) ELSE NoVerdict
    BY <1>2 DEF TaskVerdict
  <2>2. CASE t \in ToSet(CurrentWave)
    BY <1>1, <2>1, <2>2, WaveTasks
  <2>3. CASE t \notin ToSet(CurrentWave)
    <3>1. t \in TasksOf(wave + 1) <=> t \in TasksOf(wave)
      BY <1>1, <2>3, WaveTasks
    <3>2. now(t) <=> \E o \in attempts : o.task = t /\ o.status = "succeeded"
      BY <1>4, <2>3
    <3>3. QED
      BY <1>1, <2>1, <2>3, <3>1, <3>2 DEF TaskVerdict
  <2>4. QED
    BY <2>2, <2>3
<1>7. Job!ToSet(Waves[checkpoint.waves + 1]) = ToSet(CurrentWave)
  BY <1>1, SameTasks DEF CurrentWave
<1>8. [t \in AllTasks |-> TaskVerdict(t)]' =
        [t \in AllTasks |-> IF t \in DOMAIN v THEN v[t] ELSE [u \in AllTasks |-> TaskVerdict(u)][t]]
  BY <1>6
<1>9. PublishedVerdicts' = PublishedVerdicts
  BY <1>2 DEF PublishedVerdicts
<1>10. QED
  BY <1>1, <1>2, <1>5, <1>7, <1>8, <1>9, SameTasks DEF Job!RecordWave

LEMMA FirstReportPublishes ==
  ASSUME AttemptsInv, WriteReport
  PROVE  Job!Publish \/ UNCHANGED Job!jobVars
<1> USE DEF AttemptsInv, TypedWave
<1>1. /\ main = "settle" /\ report' = FinalOutcomes(attempts)
      /\ UNCHANGED <<checkpoint, settled>>
  BY DEF WriteReport
<1>2. /\ attempts = checkpoint.outcomes /\ checkpoint.waves = Len(Waves)
      /\ History(attempts) /\ attempts \subseteq Outcome
      /\ {o.task : o \in attempts} = AllTasks
  BY <1>1 DEF FilesAgree, RecordsAgree, CheckpointIsWholeWaves, AllTasks, TypeOK
<1>3. CASE report # NoReport \/ report' = NoReport
  <2>1. report' = report
    BY <1>1, <1>2, <1>3 DEF FilesAgree
  <2>2. QED
    BY <1>1, <2>1, DurableStutter
<1>4. CASE report = NoReport /\ report' # NoReport
  <2>1. DOMAIN report' = AllTasks /\ \A t \in AllTasks : report'[t] = FinalOutcome(t, attempts)
    BY <1>1, <1>2 DEF FinalOutcomes
  <2>2. ASSUME NEW t \in AllTasks
        PROVE  (report'[t].status = "succeeded") = TaskVerdict(t)
    <3>1. \E o \in attempts : o.task = t
      BY <1>2
    <3>2. FinalOutcome(t, attempts).status = "succeeded"
            <=> \E o \in attempts : o.task = t /\ o.status = "succeeded"
      BY <1>2, <3>1, FinalOutcomeIsOne
    <3>3. t \in TasksOf(checkpoint.waves)
      BY <1>2 DEF AllTasks
    <3>4. QED
      BY <1>2, <2>1, <3>2, <3>3 DEF TaskVerdict
  <2>3. PublishedVerdicts' = [t \in AllTasks |-> TaskVerdict(t)]
    BY <1>4, <2>1, <2>2 DEF PublishedVerdicts
  <2>4. PublishedVerdicts = NoReport
    BY <1>4 DEF PublishedVerdicts
  <2>5. \A t : TaskVerdict(t)' = TaskVerdict(t)
    BY <1>1 DEF TaskVerdict
  <2>6. QED
    BY <1>1, <1>2, <2>3, <2>4, <2>5 DEF Job!Publish
<1>5. QED
  BY <1>3, <1>4

LEMMA SettlingStarts ==
  ASSUME AttemptsInv, NEW outcome \in todo, Settle(outcome)
  PROVE  Job!StartSettling \/ UNCHANGED Job!jobVars
<1>1. /\ main = "settle" /\ settled' = settled \cup {outcome}
      /\ UNCHANGED <<checkpoint, report>>
  BY DEF Settle
<1>2. CASE settled # {}
  BY <1>1, <1>2, DurableStutter
<1>3. CASE settled = {}
  <2>1. checkpoint.waves = Len(Waves)
    BY <1>1 DEF AttemptsInv, FilesAgree
  <2>2. \A t : TaskVerdict(t)' = TaskVerdict(t)
    BY <1>1 DEF TaskVerdict
  <2>3. PublishedVerdicts' = PublishedVerdicts
    BY <1>1 DEF PublishedVerdicts
  <2>4. QED
    BY <1>1, <1>3, <2>1, <2>2, <2>3 DEF Job!StartSettling
<1>4. QED
  BY <1>2, <1>3

LEMMA JobNextHolds == AttemptsInv /\ [Next]_vars => [Job!JobNext]_(Job!jobVars)
<1> SUFFICES ASSUME AttemptsInv, [Next]_vars PROVE Job!JobNext \/ UNCHANGED Job!jobVars
  OBVIOUS
<1>1. CASE UNCHANGED <<checkpoint, settled, report>>
  BY <1>1, DurableStutter
<1>2. CASE WaveEnds
  BY <1>2, WaveEndsRecordsWave DEF Job!JobNext
<1>3. ASSUME NEW outcome \in todo, Settle(outcome) PROVE Job!JobNext \/ UNCHANGED Job!jobVars
  BY <1>3, SettlingStarts DEF Job!JobNext
<1>4. CASE WriteReport
  BY <1>4, FirstReportPublishes DEF Job!JobNext
<1>5. CASE CloseCheckpoint
  <2>1. /\ checkpoint'.waves = checkpoint.waves
        /\ checkpoint'.outcomes = checkpoint.outcomes
        /\ UNCHANGED <<settled, report>>
    BY <1>5 DEF CloseCheckpoint, AttemptsInv, FilesAgree
  <2>2. QED
    BY <2>1, DurableStutter
<1>6. ASSUME NEW w \in Workers, WorkerStep(w) \/ WorkerDies(w)
      PROVE  UNCHANGED <<checkpoint, settled, report>>
  BY <1>6, WorkerFrame DEF AttemptsInv, durableVars
<1>7. QED
  BY <1>1, <1>2, <1>3, <1>4, <1>5, <1>6
     DEF Next, MainStep, Terminated, Crash, WaveFails, LoseProcess, Launch, StartWave,
         JoinReturns, StartSettling, ForeignWrite, vars, durableVars

(* Whatever happens to its processes, a live training job records its      *)
(* verdicts one whole wave at a time, settles skills only after the last,  *)
(* never changes a verdict, and reports exactly what is recorded.          *)
THEOREM RunnerImplementsJob == Spec => ImplementsJob
  BY InitAttemptsInv, NextAttemptsInv, JobInitHolds, JobNextHolds, PTL
     DEF Spec, ImplementsJob, Job!JobSpec
=============================================================================
