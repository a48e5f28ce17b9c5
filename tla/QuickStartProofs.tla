-------------------------- MODULE QuickStartProofs --------------------------
(* Theorems about QuickStart for any number of jobs, restarts and errors:  *)
(* reservation, cancellation and verdicts of the jobs nothing disturbs.    *)
EXTENDS QuickStart, TLAPS

LEMMA InitTyped == Init => TypeOK
<1> SUFFICES ASSUME Init PROVE TypeOK
  OBVIOUS
<1>1. server \in {"down", "booting", "up", "stopping"} /\ restarts \in 0 .. MaxRestarts
  BY LaunchAssumption DEF Init
<1>2. killer \subseteq Jobs /\ disturbed \subseteq Jobs
  BY DEF Init
<1>3. pid \in BOOLEAN /\ signalled \in [Jobs -> BOOLEAN] /\ process \in [Jobs -> BOOLEAN]
  BY DEF Init
<1>4. cancelled \in [Jobs -> BOOLEAN] /\ started \in [Jobs -> BOOLEAN]
  BY DEF Init
<1>5. QED
  BY <1>1, <1>2, <1>3, <1>4 DEF Init, TypeOK

(* What a step of job j leaves of the others. *)
LEMMA OnlyOwn ==
  ASSUME TypeOK, NEW j \in Jobs, JobStep(j), NEW i \in Jobs, i # j
  PROVE  /\ status'[i] = status[i] /\ cancelled'[i] = cancelled[i]
         /\ started'[i] = started[i] /\ process'[i] = process[i]
         /\ thread'[i] = thread[i] /\ child'[i] = child[i] /\ signalled'[i] = signalled[i]
         /\ i \in killer' <=> i \in killer
         /\ i \in disturbed' <=> i \in disturbed
<1> USE DEF TypeOK, environment, bookkeeping, Goto, SetStatus, Signal, Disturb
<1>1. CASE Reserve(j) \/ EnsureServer(j) \/ LaunchServer(j) \/ Record(j)
  BY <1>1 DEF Reserve, EnsureServer, LaunchServer, Record
<1>2. CASE Ready(j) \/ Announce(j) \/ Abandon(j) \/ Popen(j) \/ Publish(j)
  BY <1>2 DEF Ready, Announce, Abandon, Popen, Publish
<1>3. CASE Kill(j) \/ Attach(j) \/ Reap(j) \/ CleanupServer(j)
  BY <1>3 DEF Kill, Attach, Reap, CleanupServer
<1>4. CASE Finish(j) \/ Conclude(j) \/ Cancel(j) \/ KillGroup(j) \/ ChildExits(j)
  BY <1>4 DEF Finish, Conclude, Cancel, KillGroup, ChildExits
<1>5. CASE Fault(j)
  BY <1>5 DEF Fault, ReserveFails, LaunchFails, LosesChild, CleanupFails, CancelFails
<1>6. QED
  BY <1>1, <1>2, <1>3, <1>4, <1>5 DEF JobStep, ThreadStep

LEMMA StepTyped == ASSUME TypeOK, NEW j \in Jobs, JobStep(j) PROVE TypeOK'
<1> USE DEF TypeOK, environment, bookkeeping, Goto, SetStatus, Signal, Disturb,
            Active, Terminal, Preparing, WithProcess, Ending
<1>1. CASE Reserve(j)
  BY <1>1 DEF Reserve
<1>2. CASE EnsureServer(j)
  BY <1>2 DEF EnsureServer
<1>3. CASE LaunchServer(j)
  BY <1>3 DEF LaunchServer
<1>4. CASE Record(j)
  BY <1>4 DEF Record
<1>5. CASE Ready(j) \/ Announce(j) \/ Abandon(j)
  BY <1>5 DEF Ready, Announce, Abandon
<1>6. CASE Popen(j) \/ Publish(j)
  BY <1>6 DEF Popen, Publish
<1>7. CASE Kill(j)
  BY <1>7 DEF Kill
<1>8. CASE Attach(j) \/ Reap(j) \/ CleanupServer(j)
  BY <1>8 DEF Attach, Reap, CleanupServer
<1>9. CASE Finish(j)
  BY <1>9 DEF Finish
<1>10. CASE Conclude(j)
  BY <1>10 DEF Conclude
<1>11. CASE Cancel(j)
  BY <1>11 DEF Cancel
<1>12. CASE KillGroup(j)
  BY <1>12 DEF KillGroup
<1>13. CASE ChildExits(j)
  BY <1>13 DEF ChildExits
<1>14. CASE ReserveFails(j) \/ LaunchFails(j)
  BY <1>14 DEF ReserveFails, LaunchFails
<1>15. CASE LosesChild(j)
  BY <1>15 DEF LosesChild
<1>16. CASE CleanupFails(j) \/ CancelFails(j)
  BY <1>16 DEF CleanupFails, CancelFails
<1>17. QED
  BY <1>1, <1>2, <1>3, <1>4, <1>5, <1>6, <1>7, <1>8, <1>9, <1>10, <1>11, <1>12, <1>13,
     <1>14, <1>15, <1>16 DEF JobStep, ThreadStep, Fault

LEMMA ServerTyped == ASSUME TypeOK, ServerMoves PROVE TypeOK'
  BY DEF TypeOK, ServerMoves, bookkeeping

LEMMA RestartTyped == ASSUME TypeOK, Restart PROVE TypeOK'
  BY LaunchAssumption DEF TypeOK, Restart, environment, Active, Terminal

LEMMA TypeInvariant == Spec => []TypeOK
<1>1. ASSUME TypeOK, [Next]_vars PROVE TypeOK'
  <2>1. CASE UNCHANGED vars
    BY <1>1, <2>1 DEF vars, TypeOK
  <2>2. QED
    BY <1>1, <2>1, StepTyped, ServerTyped, RestartTyped DEF Next
<1>2. QED
  BY <1>1, InitTyped, PTL DEF Spec

(* The state of the service keeps its shape. *)
THEOREM TypeCorrect == Spec => []TypeOK
  BY TypeInvariant

-----------------------------------------------------------------------------
(* What holds of every job: only an active one has a thread, and one that  *)
(* is not reserved yet has nothing.                                        *)
Steady(j) ==
  /\ status[j] \notin Active => thread[j] = "none"
  /\ status[j] = "cancelling" => cancelled[j]
  /\ status[j] = "new" => /\ child[j] = "none" /\ ~cancelled[j] /\ ~process[j]
                          /\ j \notin killer /\ j \notin disturbed

(* What an undisturbed job adds: an active one has a thread, and thread,   *)
(* process, cancel event and verdict belong together.                      *)
Coupled(j) ==
  /\ status[j] # "lost"
  /\ thread[j] = "none" => status[j] \notin Active
  /\ thread[j] \in Preparing => child[j] = "none"
  /\ child[j] = "alive" => thread[j] \in WithProcess
  /\ process[j] <=> thread[j] \in {"attach", "wait", "stop", "conclude"}
  /\ thread[j] \in {"kill", "reap"} => cancelled[j]
  /\ cancelled[j] /\ child[j] = "alive" /\ thread[j] \in {"reap", "attach", "wait"}
       => signalled[j] \/ j \in killer
  /\ status[j] \in Terminal => /\ status[j] = "cancelled" <=> cancelled[j]
                               /\ status[j] = "succeeded" => child[j] = "ok"

Reserved == \A i, j \in Jobs : status[i] \in Active /\ status[j] \in Active => i = j

Launcher ==
  /\ TypeOK
  /\ \A j \in Jobs : Steady(j)
  /\ \A j \in Undisturbed : Coupled(j)
  /\ Reserved

LEMMA InitLauncher == Init => Launcher
<1> SUFFICES ASSUME Init PROVE Launcher
  OBVIOUS
<1>1. ASSUME NEW j \in Jobs PROVE Steady(j) /\ Coupled(j) /\ status[j] \notin Active
  <2>1. /\ status[j] = "new" /\ thread[j] = "none" /\ child[j] = "none"
        /\ cancelled[j] = FALSE /\ process[j] = FALSE /\ j \notin killer /\ j \notin disturbed
    BY DEF Init
  <2>2. QED
    BY <2>1 DEF Steady, Coupled, Active, Terminal, Preparing
<1>2. QED
  BY <1>1, InitTyped DEF Launcher, Reserved, Undisturbed

LEMMA StepSteady == ASSUME Launcher, NEW j \in Jobs, JobStep(j) PROVE Steady(j)'
<1> USE DEF Launcher, TypeOK, Steady, environment, bookkeeping, Goto, SetStatus, Signal, Disturb,
            Active
<1>1. CASE Reserve(j)
  BY <1>1 DEF Reserve
<1>2. CASE EnsureServer(j) \/ LaunchServer(j) \/ Record(j)
  BY <1>2 DEF EnsureServer, LaunchServer, Record
<1>3. CASE Ready(j) \/ Announce(j) \/ Abandon(j)
  BY <1>3 DEF Ready, Announce, Abandon
<1>4. CASE Popen(j) \/ Publish(j)
  BY <1>4 DEF Popen, Publish
<1>5. CASE Kill(j) \/ Attach(j) \/ Reap(j) \/ CleanupServer(j)
  BY <1>5 DEF Kill, Attach, Reap, CleanupServer
<1>6. CASE Finish(j) \/ Conclude(j)
  BY <1>6 DEF Finish, Conclude
<1>7. CASE Cancel(j) \/ CancelFails(j)
  BY <1>7 DEF Cancel, CancelFails
<1>8. CASE KillGroup(j) \/ ChildExits(j)
  BY <1>8 DEF KillGroup, ChildExits
<1>9. CASE ReserveFails(j)
  BY <1>9 DEF ReserveFails
<1>10. CASE LaunchFails(j) \/ LosesChild(j) \/ CleanupFails(j)
  BY <1>10 DEF LaunchFails, LosesChild, CleanupFails
<1>11. QED
  BY <1>1, <1>2, <1>3, <1>4, <1>5, <1>6, <1>7, <1>8, <1>9, <1>10 DEF JobStep, ThreadStep, Fault

(* A step that disturbs the job makes the second part void. *)
LEMMA StepCoupled ==
  ASSUME Launcher, NEW j \in Jobs, JobStep(j), j \notin disturbed'
  PROVE  Coupled(j)'
<1>1. j \in Undisturbed /\ Steady(j) /\ ~Fault(j)
  <2>1. ~Fault(j)
    BY DEF Fault, ReserveFails, LaunchFails, LosesChild, CleanupFails, CancelFails, Disturb
  <2>2. j \notin disturbed
    BY <2>1 DEF JobStep, ThreadStep, bookkeeping, Reserve, EnsureServer, LaunchServer, Record,
                Ready, Announce, Abandon, Popen, Publish, Kill, Attach, Reap, CleanupServer,
                Finish, Conclude, Cancel, KillGroup, ChildExits
  <2>3. QED
    BY <2>1, <2>2 DEF Undisturbed, Launcher
<1>2. Coupled(j)
  BY <1>1 DEF Launcher
<1> USE <1>1, <1>2
        DEF Launcher, TypeOK, Steady, Coupled, environment, bookkeeping, Goto, SetStatus, Signal,
            Active, Terminal, Preparing, WithProcess
<1>3. CASE Reserve(j)
  BY <1>3 DEF Reserve
<1>4. CASE EnsureServer(j)
  BY <1>4 DEF EnsureServer
<1>5. CASE LaunchServer(j) \/ Record(j)
  BY <1>5 DEF LaunchServer, Record
<1>6. CASE Ready(j) \/ Announce(j) \/ Abandon(j)
  BY <1>6 DEF Ready, Announce, Abandon
<1>7. CASE Popen(j)
  BY <1>7 DEF Popen
<1>8. CASE Publish(j)
  BY <1>8 DEF Publish
<1>9. CASE Kill(j)
  BY <1>9 DEF Kill
<1>10. CASE Attach(j) \/ Reap(j)
  BY <1>10 DEF Attach, Reap
<1>11. CASE CleanupServer(j)
  BY <1>11 DEF CleanupServer
<1>12. CASE Finish(j)
  BY <1>12 DEF Finish
<1>13. CASE Conclude(j)
  BY <1>13 DEF Conclude
<1>14. CASE Cancel(j)
  BY <1>14 DEF Cancel
<1>15. CASE KillGroup(j) \/ ChildExits(j)
  BY <1>15 DEF KillGroup, ChildExits
<1>16. QED
  BY <1>3, <1>4, <1>5, <1>6, <1>7, <1>8, <1>9, <1>10, <1>11, <1>12, <1>13, <1>14, <1>15
     DEF JobStep, ThreadStep

(* Only a reservation makes a job active. *)
LEMMA StepActive ==
  ASSUME Launcher, NEW j \in Jobs, JobStep(j), status'[j] \in Active
  PROVE  status[j] \in Active \/ NoActiveJob
<1> SUFFICES ASSUME status[j] \notin Active, ~NoActiveJob PROVE FALSE
  OBVIOUS
<1>1. thread[j] = "none" /\ status \in [Jobs -> {"new", "lost"} \cup Active \cup Terminal]
  BY DEF Launcher, Steady, TypeOK
<1>2. status' = status \/ status'[j] = status[j]
  BY <1>1 DEF JobStep, ThreadStep, Fault, Reserve, EnsureServer, LaunchServer, Record, Ready,
              Announce, Abandon, Popen, Publish, Kill, Attach, Reap, CleanupServer, Finish,
              Conclude, Cancel, KillGroup, ChildExits, ReserveFails, LaunchFails, LosesChild,
              CleanupFails, CancelFails, environment, bookkeeping
<1>3. QED
  BY <1>2

LEMMA StepReserved == ASSUME Launcher, NEW j \in Jobs, JobStep(j) PROVE Reserved'
<1> SUFFICES ASSUME NEW i \in Jobs, NEW k \in Jobs, status'[i] \in Active, status'[k] \in Active,
                    i # k
             PROVE  FALSE
  BY DEF Reserved
<1>1. ASSUME NEW o \in Jobs, o # j PROVE status'[o] = status[o]
  BY <1>1, OnlyOwn DEF Launcher
<1>2. \A o \in Jobs : status'[o] \in Active => status[o] \in Active \/ NoActiveJob
  BY <1>1, StepActive
<1>3. CASE NoActiveJob
  BY <1>1, <1>3 DEF NoActiveJob, Active
<1>4. CASE ~NoActiveJob
  BY <1>2, <1>4 DEF Launcher, Reserved
<1>5. QED
  BY <1>3, <1>4

(* The other jobs keep what they have. *)
LEMMA OthersKeep ==
  ASSUME Launcher, NEW j \in Jobs, JobStep(j), NEW i \in Jobs, i # j
  PROVE  Steady(i)' /\ (i \in Undisturbed' => Coupled(i)')
<1>1. /\ status'[i] = status[i] /\ thread'[i] = thread[i] /\ child'[i] = child[i]
      /\ i \in killer' <=> i \in killer
      /\ i \in disturbed' <=> i \in disturbed
  BY OnlyOwn DEF Launcher
<1>2. cancelled'[i] = cancelled[i] /\ process'[i] = process[i] /\ signalled'[i] = signalled[i]
  BY OnlyOwn DEF Launcher
<1>3. Steady(i) /\ (i \in Undisturbed => Coupled(i))
  BY DEF Launcher
<1>4. i \in Undisturbed' => i \in Undisturbed
  BY <1>1 DEF Undisturbed
<1>5. QED
  BY <1>1, <1>2, <1>3, <1>4 DEF Steady, Coupled

LEMMA StepLauncher == ASSUME Launcher, NEW j \in Jobs, JobStep(j) PROVE Launcher'
<1>1. TypeOK'
  BY StepTyped DEF Launcher
<1>2. Reserved'
  BY StepReserved
<1>3. ASSUME NEW i \in Jobs PROVE Steady(i)' /\ (i \in Undisturbed' => Coupled(i)')
  <2>1. CASE i = j
    BY <2>1, StepSteady, StepCoupled DEF Undisturbed
  <2>2. CASE i # j
    BY <2>2, OthersKeep
  <2>3. QED
    BY <2>1, <2>2
<1>4. Undisturbed' \subseteq Jobs
  BY DEF Undisturbed
<1>5. QED
  BY <1>1, <1>2, <1>3, <1>4 DEF Launcher

LEMMA RestartLauncher == ASSUME Launcher, Restart PROVE Launcher'
<1>1. TypeOK'
  BY RestartTyped DEF Launcher
<1>2. ASSUME NEW i \in Jobs PROVE status'[i] \notin Active /\ Steady(i)'
  BY DEF Launcher, TypeOK, Steady, Restart, environment, Active
<1>3. ASSUME NEW i \in Undisturbed' PROVE Coupled(i)'
  <2>1. i \in Jobs /\ i \in Undisturbed /\ status[i] = "new"
    BY DEF Undisturbed, Restart
  <2>2. status'[i] = "new" /\ thread'[i] = "none" /\ ~process'[i] /\ child'[i] = "none"
    BY <2>1 DEF Launcher, Steady, Restart, environment
  <2>3. QED
    BY <2>2 DEF Coupled, Active, Terminal, Preparing
<1>4. QED
  BY <1>1, <1>2, <1>3 DEF Launcher, Reserved

LEMMA ServerLauncher == ASSUME Launcher, ServerMoves PROVE Launcher'
<1>1. TypeOK'
  BY ServerTyped DEF Launcher
<1>2. UNCHANGED <<status, cancelled, process, thread, killer, child, signalled, disturbed>>
  BY DEF ServerMoves, bookkeeping
<1>3. QED
  BY <1>1, <1>2 DEF Launcher, Steady, Coupled, Reserved, Undisturbed

LEMMA LauncherInvariant == Spec => []Launcher
<1>1. ASSUME Launcher, [Next]_vars PROVE Launcher'
  <2>1. CASE UNCHANGED vars
    BY <1>1, <2>1 DEF vars, Launcher, TypeOK, Steady, Coupled, Reserved, Undisturbed
  <2>2. QED
    BY <1>1, <2>1, StepLauncher, RestartLauncher, ServerLauncher DEF Next
<1>2. QED
  BY <1>1, InitLauncher, PTL DEF Spec

(* No two undisturbed jobs have a task process that is alive. *)
THEOREM OneProcess == Spec => []OneTaskProcess
<1>1. Launcher => OneTaskProcess
  BY DEF Launcher, Reserved, Steady, Coupled, OneTaskProcess, Undisturbed, WithProcess
<1>2. QED
  BY <1>1, LauncherInvariant, PTL

(* The process of a cancelled job has been signalled or will be. *)
THEOREM CancelArrives == Spec => []CancelReachesChild
<1>1. Launcher => CancelReachesChild
  BY DEF Launcher, Coupled, CancelReachesChild, WithProcess
<1>2. QED
  BY <1>1, LauncherInvariant, PTL

(* The verdict agrees with the cancel event and the return code, and a job *)
(* with a verdict has no process left.                                     *)
THEOREM TrueVerdict == Spec => []VerdictIsTrue
<1>1. Launcher => VerdictIsTrue
  BY DEF Launcher, Steady, Coupled, VerdictIsTrue, WithProcess, Undisturbed, Active, Terminal
<1>2. QED
  BY <1>1, LauncherInvariant, PTL

-----------------------------------------------------------------------------
(* A job without a thread that nobody reserves keeps its status. *)
LEMMA IdleKeeps ==
  ASSUME Launcher, NEW j \in Jobs, JobStep(j), status[j] \in Terminal
  PROVE  status'[j] = status[j]
<1>1. /\ thread[j] = "none" /\ status[j] # "new" /\ status[j] \notin Active
      /\ status \in [Jobs -> {"new", "lost"} \cup Active \cup Terminal]
  BY DEF Launcher, Steady, TypeOK, Active, Terminal
<1>2. QED
  BY <1>1 DEF JobStep, ThreadStep, Fault, Reserve, EnsureServer, LaunchServer, Record, Ready,
              Announce, Abandon, Popen, Publish, Kill, Attach, Reap, CleanupServer, Finish,
              Conclude, Cancel, KillGroup, ChildExits, ReserveFails, LaunchFails, LosesChild,
              CleanupFails, CancelFails

(* A verdict is final. *)
THEOREM VerdictIsFinal == Spec => [][DoneStep]_vars
<1>1. ASSUME Launcher, [Next]_vars, NEW i \in Jobs, status[i] \in Terminal
      PROVE  status'[i] \in {status[i], "lost"}
  <2>1. ASSUME NEW j \in Jobs, JobStep(j) PROVE status'[i] = status[i]
    BY <1>1, <2>1, IdleKeeps, OnlyOwn DEF Launcher
  <2>2. CASE Restart
    BY <1>1, <2>2 DEF Restart, Terminal
  <2>3. CASE ServerMoves \/ UNCHANGED vars
    BY <2>3 DEF ServerMoves, vars
  <2>4. QED
    BY <1>1, <2>1, <2>2, <2>3 DEF Next
<1>2. Launcher /\ [Next]_vars
        => [DoneStep]_vars
  BY <1>1 DEF DoneStep
<1>3. QED
  BY <1>2, LauncherInvariant, PTL DEF Spec

(* A step that stops the server is the cleanup of the reserved job. *)
LEMMA StopIsCleanup ==
  ASSUME NEW j \in Jobs, JobStep(j), server # "stopping", server' = "stopping"
  PROVE  thread[j] \in {"clean", "stop"}
  BY DEF JobStep, ThreadStep, Fault, Reserve, EnsureServer, LaunchServer, Record, Ready,
         Announce, Abandon, Popen, Publish, Kill, Attach, Reap, CleanupServer, Finish,
         Conclude, Cancel, KillGroup, ChildExits, ReserveFails, LaunchFails, LosesChild,
         CleanupFails, CancelFails, environment

(* No undisturbed task process is alive when the server is stopped. *)
THEOREM ServerStays == Spec => [][ServerStep]_vars
<1>1. ASSUME Launcher, [Next]_vars, server # "stopping", server' = "stopping",
             NEW i \in Undisturbed, child[i] = "alive"
      PROVE  FALSE
  <2>1. i \in Jobs /\ thread[i] \in WithProcess /\ status[i] \in Active
    BY <1>1 DEF Launcher, Coupled, Steady, WithProcess, Undisturbed
  <2>2. ASSUME NEW j \in Jobs, JobStep(j) PROVE FALSE
    <3>1. thread[j] \in {"clean", "stop"}
      BY <1>1, <2>2, StopIsCleanup
    <3>2. status[j] \in Active
      BY <1>1, <3>1 DEF Launcher, Steady
    <3>3. i = j
      BY <1>1, <2>1, <3>2 DEF Launcher, Reserved
    <3>4. QED
      BY <2>1, <3>1, <3>3 DEF WithProcess
  <2>3. QED
    BY <1>1, <2>2 DEF Next, Restart, ServerMoves, environment, vars
<1>2. Launcher /\ [Next]_vars
        => [ServerStep]_vars
  BY <1>1 DEF ServerStep
<1>3. QED
  BY <1>2, LauncherInvariant, PTL DEF Spec

(* Terminal statuses stay, and no server is stopped under a running task.  *)
THEOREM NothingUndone == Spec => NothingIsUndone
<1>1. [DoneStep]_vars /\ [ServerStep]_vars => [DoneStep /\ ServerStep]_vars
  OBVIOUS
<1>2. QED
  BY <1>1, VerdictIsFinal, ServerStays, PTL DEF NothingIsUndone

-----------------------------------------------------------------------------
(* The job that has to stop a server is under way and knows it. *)
Owns(j) ==
  \/ thread[j] = "record"
  \/ started[j] /\ thread[j] \in (Preparing \ {"ensure", "launch", "record"}) \cup WithProcess
                               \cup {"clean", "stop"}

Owned == StopsServer /\ disturbed = {} /\ pid => \E j \in Jobs : Owns(j)

LEMMA StepOwns ==
  ASSUME Launcher, NEW j \in Jobs, JobStep(j), StopsServer, disturbed' = {}, pid', ~pid \/ Owns(j)
  PROVE  Owns(j)'
<1>1. ~Fault(j)
  BY DEF Fault, ReserveFails, LaunchFails, LosesChild, CleanupFails, CancelFails, Disturb
<1>2. /\ thread \in [Jobs -> {"none"} \cup Preparing \cup WithProcess \cup Ending]
      /\ started \in [Jobs -> BOOLEAN]
  BY DEF Launcher, TypeOK
<1>3. Owns(j) => status[j] # "new"
  BY DEF Launcher, Steady, Owns, Active, Preparing, WithProcess
<1> USE <1>2 DEF Owns, Preparing, WithProcess, environment, bookkeeping, Goto
<1>4. CASE Reserve(j)
  BY <1>3, <1>4 DEF Reserve
<1>5. CASE LaunchServer(j)
  BY <1>5 DEF LaunchServer
<1>6. CASE EnsureServer(j) \/ Ready(j) \/ Announce(j) \/ Abandon(j)
  BY <1>6 DEF EnsureServer, Ready, Announce, Abandon
<1>7. CASE Record(j)
  BY <1>7 DEF Record
<1>8. CASE Popen(j) \/ Publish(j) \/ Kill(j) \/ Attach(j) \/ Reap(j)
  BY <1>8 DEF Popen, Publish, Kill, Attach, Reap
<1>9. CASE CleanupServer(j)
  BY <1>9 DEF CleanupServer, StopsOwn
<1>10. CASE Finish(j) \/ Conclude(j)
  BY <1>10 DEF Finish, Conclude
<1>11. CASE Cancel(j) \/ KillGroup(j) \/ ChildExits(j)
  BY <1>11 DEF Cancel, KillGroup, ChildExits
<1>12. QED
  BY <1>1, <1>4, <1>5, <1>6, <1>7, <1>8, <1>9, <1>10, <1>11 DEF JobStep, ThreadStep

LEMMA NextOwned == ASSUME Launcher, Owned, [Next]_vars PROVE Owned'
<1> SUFFICES ASSUME StopsServer, disturbed' = {}, pid' PROVE \E i \in Jobs : Owns(i)'
  BY DEF Owned
<1>1. ASSUME NEW j \in Jobs, JobStep(j) PROVE \E i \in Jobs : Owns(i)'
  <2>1. disturbed = {}
    <3>1. ~Fault(j)
      BY DEF Fault, ReserveFails, LaunchFails, LosesChild, CleanupFails, CancelFails, Disturb
    <3>2. QED
      BY <1>1, <3>1 DEF JobStep, ThreadStep, bookkeeping, Reserve, EnsureServer, LaunchServer,
         Record, Ready, Announce, Abandon, Popen, Publish, Kill, Attach, Reap, CleanupServer,
         Finish, Conclude, Cancel, KillGroup, ChildExits
  <2>2. CASE ~pid \/ Owns(j)
    BY <1>1, <2>2, StepOwns
  <2>3. CASE pid /\ ~Owns(j)
    <3>1. PICK i \in Jobs : Owns(i)
      BY <2>1, <2>3 DEF Owned
    <3>2. thread'[i] = thread[i] /\ started'[i] = started[i]
      BY <1>1, <2>3, <3>1, OnlyOwn DEF Launcher
    <3>3. QED
      BY <3>1, <3>2 DEF Owns
  <2>4. QED
    BY <2>2, <2>3
<1>2. CASE ServerMoves \/ UNCHANGED vars
  <2>1. pid /\ UNCHANGED <<thread, started, disturbed>>
    BY <1>2 DEF ServerMoves, vars, bookkeeping
  <2>2. QED
    BY <2>1 DEF Owned, Owns
<1>3. CASE Restart
  <2>1. pid /\ disturbed = {} /\ \A i \in Jobs : status[i] = "new"
    BY <1>3 DEF Restart, environment
  <2>2. PICK i \in Jobs : Owns(i)
    BY <2>1 DEF Owned
  <2>3. QED
    BY <2>1, <2>2 DEF Launcher, Steady, Owns, Active, Preparing, WithProcess
<1>4. QED
  BY <1>1, <1>2, <1>3 DEF Next

(* Without errors and restarts no server that was started is left running. *)
THEOREM NothingLeft == Spec => []NoServerLeft
<1>1. Init => Owned
  BY DEF Init, Owned
<1>2. Launcher /\ Owned => NoServerLeft
  BY DEF Launcher, Steady, Owned, Owns, NoServerLeft, NoActiveJob, Preparing, WithProcess
<1>3. QED
  BY <1>1, <1>2, NextOwned, LauncherInvariant, PTL DEF Spec

(* All that a job promises, for any number of jobs, errors and restarts.   *)
THEOREM SoundJobs == Spec => []JobsAreSound
  BY OneProcess, CancelArrives, TrueVerdict, NothingLeft, PTL DEF JobsAreSound
=============================================================================
