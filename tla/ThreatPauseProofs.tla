------------------------- MODULE ThreatPauseProofs -------------------------
(* Theorems about ThreatPause for any pool of workers with a server each:  *)
(* the wrapper's belief is the state of the world, so that the toggle does *)
(* what it is sent for, actions run in a ticking world and attempts leave  *)
(* one behind.                                                             *)
EXTENDS ThreatPause, TLAPS

(* The places of an attempt inside a step of its loop.                     *)
InStep == {"observe", "observing", "decide", "polling", "before_action", "mutate"}

(* A command is in flight exactly where the attempt awaits one, and a step *)
(* is only begun within the budget.                                        *)
Shape ==
  /\ TypeOK
  /\ \A w \in Workers : (wire[w] # "none" <=> pc[w] \in Commanding)
                        /\ (pc[w] \in InStep => steps[w] < MaxSteps)

LEMMA InitShape == Init => Shape
  BY PauseAssumption
     DEF Init, Shape, TypeOK, PcValues, Calling, Commanding, Freezing, Unfreezing, InStep

(* What a step of worker w leaves of the others. *)
LEMMA OnlyOwn ==
  ASSUME TypeOK, NEW w \in Workers, WorkerStep(w)
  PROVE  /\ \A v \in Workers \ {w} :
              /\ pc'[v] = pc[v] /\ paused'[v] = paused[v] /\ wire'[v] = wire[v]
              /\ late'[v] = late[v] /\ steps'[v] = steps[v] /\ attempt'[v] = attempt[v]
              /\ faults'[v] = faults[v] /\ known'[v] = known[v]
         /\ \A s \in Servers \ {ServerOf[w]} : frozen'[s] = frozen[s]
<1> USE DEF TypeOK
<1>1. CASE StartAttempt(w)
  BY <1>1 DEF StartAttempt
<1>2. ASSUME NEW at, NEW during, NEW then, NEW threat, Observes(w, at, during, then, threat)
      PROVE  /\ \A v \in Workers \ {w} : pc'[v] = pc[v] /\ wire'[v] = wire[v]
             /\ UNCHANGED <<paused, late, steps, attempt, frozen, faults, known>>
  BY <1>2 DEF Observes, Send
<1>3. CASE Observe(w) \/ Poll(w) \/ Verify(w)
  BY <1>2, <1>3 DEF Observe, Poll, Verify
<1>4. CASE Inspect(w) \/ ActionDone(w)
  BY <1>4 DEF Inspect, ActionDone, NextStep
<1>5. CASE Mutate(w) \/ Close(w)
  BY <1>5 DEF Mutate, Close, Send
<1>6. CASE RunEnds(w)
  BY <1>6 DEF RunEnds
<1>7. CASE Toggle(w) \/ LateToggle(w)
  BY <1>7 DEF Toggle, LateToggle
<1>8. CASE Answered(w)
  BY <1>8 DEF Answered
<1>9. CASE CommandFails(w) \/ Cancelled(w)
  BY <1>9 DEF CommandFails, Cancelled, GiveUp
<1>10. QED
  BY <1>1, <1>3, <1>4, <1>5, <1>6, <1>7, <1>8, <1>9 DEF WorkerStep, Undisturbed

(* What a step of w makes of its own part of the state. *)
LEMMA StepShape == ASSUME Shape, NEW w \in Workers, WorkerStep(w) PROVE Shape'
<1> DEFINE Own == /\ wire'[w] # "none" <=> pc'[w] \in Commanding
                  /\ pc'[w] \in InStep => steps'[w] < MaxSteps
<1> SUFFICES TypeOK' /\ Own
  BY OnlyOwn DEF Shape
<1> USE PauseAssumption
        DEF Shape, TypeOK, PcValues, Calling, Commanding, Freezing, Unfreezing, InStep
<1>1. CASE StartAttempt(w)
  BY <1>1 DEF StartAttempt
<1>2. CASE Observe(w)
  BY <1>2 DEF Observe, Observes, Send
<1>3. CASE Poll(w)
  BY <1>3 DEF Poll, Observes, Send
<1>4. CASE Verify(w)
  BY <1>4 DEF Verify, Observes, Send
<1>5. CASE Inspect(w) \/ ActionDone(w)
  <2>1. pc[w] \in {"decide", "mutate"} /\ NextStep(w) /\ wire[w] \in {"none"}
    BY <1>5 DEF Inspect, ActionDone
  <2>2. steps[w] \in Nat /\ steps[w] < MaxSteps /\ steps'[w] = steps[w] + 1
    BY <2>1 DEF NextStep
  <2>3. pc'[w] = IF steps[w] + 1 < MaxSteps THEN "observe" ELSE "verify"
    BY <2>1 DEF NextStep
  <2>4. steps' \in [Workers -> 0 .. MaxSteps] /\ pc' \in [Workers -> PcValues]
    BY <2>1, <2>2 DEF NextStep
  <2>5. UNCHANGED <<paused, wire, late, attempt, frozen, faults, known>>
    BY <1>5 DEF Inspect, ActionDone
  <2>6. QED
    BY <2>1, <2>2, <2>3, <2>4, <2>5
<1>6. CASE Mutate(w)
  BY <1>6 DEF Mutate, Send
<1>7. CASE RunEnds(w)
  BY <1>7 DEF RunEnds
<1>8. CASE Close(w)
  BY <1>8 DEF Close, Send
<1>9. CASE Toggle(w)
  BY <1>9 DEF Toggle
<1>10. CASE Answered(w)
  <2>1. pc[w] \in Commanding /\ After(pc[w]) \in {"decide", "close", "mutate", "idle"}
        /\ (After(pc[w]) \in InStep => pc[w] \in InStep)
    BY <1>10 DEF Answered, After
  <2>2. PauseState(wire[w], paused[w]) \in BOOLEAN
    BY <1>10 DEF Answered, PauseState
  <2>3. QED
    BY <1>10, <2>1, <2>2 DEF Answered
<1>11. CASE CommandFails(w)
  <2>1. pc[w] \in Commanding /\ After(pc[w]) \in {"decide", "close", "mutate", "idle"}
        /\ (After(pc[w]) \in InStep => pc[w] \in InStep)
    BY <1>11 DEF CommandFails, GiveUp, After
  <2>2. PauseState("lost", paused[w]) \in BOOLEAN
    BY DEF PauseState
  <2>3. QED
    BY <1>11, <2>1, <2>2 DEF CommandFails, GiveUp
<1>12. CASE Cancelled(w)
  BY <1>12 DEF Cancelled, GiveUp
<1>13. CASE LateToggle(w)
  BY <1>13 DEF LateToggle
<1>14. QED
  BY <1>1, <1>2, <1>3, <1>4, <1>5, <1>6, <1>7, <1>8, <1>9, <1>10, <1>11, <1>12, <1>13
     DEF WorkerStep, Undisturbed

LEMMA KilledShape == ASSUME Shape, Killed PROVE Shape'
  BY PauseAssumption
     DEF Killed, Shape, TypeOK, PcValues, Calling, Commanding, Freezing, Unfreezing, InStep

LEMMA ShapeInvariant == Spec => []Shape
<1>1. ASSUME Shape, [Next]_vars PROVE Shape'
  <2>1. CASE UNCHANGED vars
    BY <1>1, <2>1 DEF vars, Shape, TypeOK
  <2>2. QED
    BY <1>1, <2>1, StepShape, KilledShape DEF Next
<1>2. QED
  BY <1>1, InitShape, PTL DEF Spec

(* The variables keep their shape: in particular no attempt takes more     *)
(* steps than its budget has.                                              *)
THEOREM TypeCorrect == Spec => []TypeOK
  BY ShapeInvariant, PTL DEF Shape

-----------------------------------------------------------------------------
(* What holds of worker w and the world of its server.  Each part needs the*)
(* others: a command ends well because it was sent from a right belief, and*)
(* the belief is right because the command before it ended well.           *)
Sound(w) ==
  LET f == frozen[ServerOf[w]]
  IN /\ Calm(w) => known[w] /\ late[w] = 0
     /\ known[w] /\ wire[w] = "none" => (paused[w] <=> f)
     /\ known[w] /\ wire[w] = "frozen" => f
     /\ known[w] /\ wire[w] = "normal" => ~f
     /\ Calm(w) /\ wire[w] = "sent" => (f <=> pc[w] \in Unfreezing)
     /\ Calm(w) /\ wire[w] = "frozen" => pc[w] \in Freezing
     /\ Calm(w) /\ wire[w] = "normal" => pc[w] \in Unfreezing
     /\ Calm(w) /\ pc[w] \in {"mutate", "idle"} => ~f

PoolSound == Shape /\ \A w \in Workers : Sound(w)

LEMMA InitSound == Init => PoolSound
<1> SUFFICES ASSUME Init, NEW w \in Workers PROVE Sound(w)
  BY InitShape DEF PoolSound
<1>1. pc[w] = "idle" /\ wire[w] = "none" /\ late[w] = 0
  BY DEF Init
<1>2. paused[w] = FALSE /\ known[w] = TRUE /\ frozen[ServerOf[w]] = FALSE
  BY PauseAssumption DEF Init
<1>3. QED
  BY <1>1, <1>2 DEF Sound

(* With servers of their own the others do not notice a step of w. *)
LEMMA OthersSound ==
  ASSUME Isolated, PoolSound, NEW w \in Workers, WorkerStep(w), NEW v \in Workers \ {w}
  PROVE  Sound(v)'
<1>1. ServerOf[v] \in Servers \ {ServerOf[w]}
  BY PauseAssumption DEF Isolated
<1>2. /\ pc'[v] = pc[v] /\ paused'[v] = paused[v] /\ wire'[v] = wire[v]
      /\ late'[v] = late[v] /\ faults'[v] = faults[v] /\ known'[v] = known[v]
      /\ frozen'[ServerOf[v]] = frozen[ServerOf[v]]
  BY <1>1, OnlyOwn DEF PoolSound, Shape
<1>3. QED
  BY <1>2 DEF PoolSound, Sound, Calm

LEMMA StepSound ==
  ASSUME PoolSound, NEW w \in Workers, WorkerStep(w)
  PROVE  Sound(w)'
<1> USE PauseAssumption
        DEF PoolSound, Sound, Calm, Shape, TypeOK, Commanding, Freezing, Unfreezing
<1>1. CASE StartAttempt(w)
  <2>1. wire[w] = "none" /\ (known'[w] <=> known[w] /\ ~paused[w]) /\ paused'[w] = FALSE
    BY <1>1 DEF StartAttempt
  <2>2. pc[w] = "idle" /\ pc'[w] = "observe"
    BY <1>1 DEF StartAttempt
  <2>3. UNCHANGED <<wire, late, frozen, faults>>
    BY <1>1 DEF StartAttempt
  <2>4. QED
    BY <2>1, <2>2, <2>3, Zenon
<1>2. ASSUME NEW at \in {"observe", "decide", "verify"}, NEW during \in Freezing,
             NEW then \in {"decide", "close"}, NEW threat,
             Observes(w, at, during, then, threat)
      PROVE  Sound(w)'
  BY <1>2 DEF Observes, Send
<1>3. CASE Observe(w) \/ Poll(w) \/ Verify(w)
  BY <1>2, <1>3 DEF Observe, Poll, Verify
<1>4. CASE Inspect(w) \/ ActionDone(w)
  BY <1>4 DEF Inspect, ActionDone, NextStep
<1>5. CASE Mutate(w)
  BY <1>5 DEF Mutate, Send, MustUnfreeze
<1>6. CASE RunEnds(w)
  BY <1>6 DEF RunEnds, Calling
<1>7. CASE Close(w)
  BY <1>7 DEF Close, Send, CloseUnfreezes
<1>8. CASE Toggle(w)
  BY <1>8 DEF Toggle
<1>9. CASE Answered(w)
  <2>1. paused'[w] = PauseState(wire[w], paused[w]) /\ pc'[w] = After(pc[w])
    BY <1>9 DEF Answered
  <2>2. paused'[w] <=> wire[w] = "frozen"
    BY <1>9, <2>1 DEF Answered, PauseState
  <2>3. wire'[w] = "none" /\ wire[w] \in {"frozen", "normal"}
    BY <1>9 DEF Answered
  <2>4. UNCHANGED <<late, frozen, faults, known>>
    BY <1>9 DEF Answered
  <2>5. /\ pc[w] \in Freezing => pc'[w] \in {"decide", "close"}
        /\ pc[w] \in Unfreezing => pc'[w] \in {"mutate", "idle"}
        /\ pc[w] \in Commanding
    BY <2>1, <2>3 DEF After
  <2>6. QED
    BY <2>2, <2>3, <2>4, <2>5
<1>10. CASE CommandFails(w) \/ Cancelled(w)
  <2>1. faults'[w] # 0 /\ known'[w] = FALSE
    BY <1>10 DEF CommandFails, Cancelled, GiveUp
  <2>2. QED
    BY <2>1, Zenon
<1>11. CASE LateToggle(w)
  <2>1. known'[w] = FALSE /\ faults[w] # 0 /\ faults'[w] = faults[w]
    BY <1>11 DEF LateToggle
  <2>2. QED
    BY <2>1, Zenon
<1>12. QED
  BY <1>1, <1>3, <1>4, <1>5, <1>6, <1>7, <1>8, <1>9, <1>10, <1>11 DEF WorkerStep, Undisturbed

LEMMA KilledSound == ASSUME PoolSound, Killed, NEW w \in Workers PROVE Sound(w)'
<1>1. faults'[w] # 0 /\ known'[w] = FALSE
  BY DEF PoolSound, Shape, TypeOK, Killed
<1>2. QED
  BY <1>1, Zenon DEF Sound, Calm

LEMMA SoundInvariant == ASSUME Isolated PROVE Spec => []PoolSound
<1>1. ASSUME PoolSound, [Next]_vars PROVE PoolSound'
  <2>1. CASE UNCHANGED vars
    BY <1>1, <2>1 DEF vars, PoolSound, Shape, TypeOK, Sound, Calm
  <2>2. ASSUME NEW w \in Workers, WorkerStep(w) PROVE PoolSound'
    <3>1. Shape'
      BY <1>1, <2>2, StepShape DEF PoolSound
    <3>2. \A v \in Workers : Sound(v)'
      BY <1>1, <2>2, OthersSound, StepSound
    <3>3. QED
      BY <3>1, <3>2 DEF PoolSound
  <2>3. CASE Killed
    BY <1>1, <2>3, KilledShape, KilledSound DEF PoolSound
  <2>4. QED
    BY <1>1, <2>1, <2>2, <2>3 DEF Next
<1>2. QED
  BY <1>1, InitSound, PTL DEF Spec

(* A worker with a server of its own believes of it what is the case, as   *)
(* soon as the last toggle was answered, whatever was lost before.         *)
THEOREM BeliefIsRight == ASSUME Isolated PROVE Spec => []BeliefIsWorld
<1>1. PoolSound => BeliefIsWorld
  BY DEF PoolSound, Sound, BeliefIsWorld
<1>2. QED
  BY <1>1, SoundInvariant, PTL

(* Freezing freezes and unfreezing unfreezes, although both are the same   *)
(* command.                                                                *)
THEOREM TogglesMatch == ASSUME Isolated PROVE Spec => []ToggleDoesWhatItSays
<1>1. PoolSound => ToggleDoesWhatItSays
  BY DEF PoolSound, Sound, ToggleDoesWhatItSays
<1>2. QED
  BY <1>1, SoundInvariant, PTL

(* World-changing actions run in a ticking world and undisturbed attempts  *)
(* leave one behind.                                                       *)
THEOREM WorldRuns == ASSUME Isolated PROVE Spec => []WorldTicks
<1>1. PoolSound => WorldTicks
  BY DEF PoolSound, Sound, WorldTicks, MutatesRunningWorld, IdleWorldRuns
<1>2. QED
  BY <1>1, SoundInvariant, PTL

(* Belief and toggles agree with the world.                                *)
THEOREM BeliefStands == ASSUME Isolated PROVE Spec => []BeliefHolds
  BY BeliefIsRight, TogglesMatch, PTL DEF BeliefHolds
=============================================================================
