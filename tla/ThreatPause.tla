---------------------------- MODULE ThreatPause ----------------------------
(***************************************************************************)
(* The wrapper of runtime/threat_pause.py that freezes a worker's          *)
(* Minecraft server while the model deliberates near hostile entities, as  *)
(* the attempts of a training job drive it.  Freezing and unfreezing are   *)
(* one command, the toggle "tick freeze", sent over RCON: the wrapper only *)
(* believes to know the state of the world.                                *)
(*                                                                         *)
(* A step is what happens between two awaits.  An attempt is its sequence  *)
(* of runtime calls: observations, actions, the observation of a retried   *)
(* verification, and close.                                                *)
(***************************************************************************)
EXTENDS Naturals

CONSTANTS
  Workers,
  Servers,
  ServerOf,     \* ServerOf[w]: the server whose RCON port worker w was given
  MaxSteps,     \* budget.max_steps of an attempt
  MaxAttempts,  \* bound: attempts a worker makes
  MaxFaults     \* bound: disturbed commands of a worker

ASSUME PauseAssumption ==
  /\ ServerOf \in [Workers -> Servers]
  /\ MaxSteps \in Nat \ {0}
  /\ MaxAttempts \in Nat
  /\ MaxFaults \in Nat

(* What _validate_parallel_placement demands unless the development-only   *)
(* flag is given: no two workers on one server.                            *)
Isolated == \A v, w \in Workers : ServerOf[v] = ServerOf[w] => v = w

VARIABLES
  pc,      \* pc[w]: where the attempt of w is
  paused,  \* paused[w]: _paused of its wrapper
  wire,    \* wire[w]: the command of w in flight, or its answer
  late,    \* late[w]: toggles of w given up by the client, not yet executed
  steps,   \* steps[w]: step_index of the execution loop
  attempt, \* attempt[w]: attempts started
  frozen,  \* frozen[s]: server s does not tick
  faults,  \* faults[w]: commands of w that were disturbed
  known    \* known[w], not in the code: the wrapper of w has received, or is
           \* about to, the answer of the last toggle its server executed
vars == <<pc, paused, wire, late, steps, attempt, frozen, faults, known>>

(* While a command is in flight pc says what it was sent for.              *)
Freezing == {"observing", "polling", "verifying"}
Unfreezing == {"before_action", "closing"}
Commanding == Freezing \cup Unfreezing
Calling == {"observe", "decide", "mutate", "verify"}
PcValues == {"idle", "close"} \cup Calling \cup Commanding

TypeOK ==
  /\ pc \in [Workers -> PcValues]
  /\ paused \in [Workers -> BOOLEAN]
  /\ wire \in [Workers -> {"none", "sent", "frozen", "normal"}]
  /\ late \in [Workers -> Nat]
  /\ steps \in [Workers -> 0 .. MaxSteps]
  /\ attempt \in [Workers -> 0 .. MaxAttempts]
  /\ frozen \in [Servers -> BOOLEAN]
  /\ faults \in [Workers -> 0 .. MaxFaults]
  /\ known \in [Workers -> BOOLEAN]

Init ==
  /\ pc = [w \in Workers |-> "idle"]
  /\ paused = [w \in Workers |-> FALSE]
  /\ wire = [w \in Workers |-> "none"]
  /\ late = [w \in Workers |-> 0]
  /\ steps = [w \in Workers |-> 0]
  /\ attempt = [w \in Workers |-> 0]
  /\ frozen = [s \in Servers |-> FALSE]
  /\ faults = [w \in Workers |-> 0]
  /\ known = [w \in Workers |-> TRUE]

(* Mutant: the belief becomes what the command was meant to do.            *)
PauseStateIntended(answer, fallback) == IF answer = "lost" THEN fallback ELSE ~fallback

(* _pause_state_from_results: an answered command tells the state of the   *)
(* world, whatever the command was meant to do; a failed one tells nothing *)
(* and the belief stays.                                                   *)
PauseState(answer, fallback) ==
  CASE answer = "frozen" -> TRUE
    [] answer = "normal" -> FALSE
    [] OTHER -> fallback

(* Mutant: actions are executed as they come.                              *)
MustUnfreezeNever(w) == FALSE

(* A world-changing action must not meet a world believed frozen; the      *)
(* actions of FROZEN_SAFE_ACTIONS may.                                     *)
MustUnfreeze(w) == paused[w]

(* close(): the wrapper unfreezes first if it believes the world frozen.   *)
CloseUnfreezes(w) == paused[w]

Send(w, why) ==
  /\ pc' = [pc EXCEPT ![w] = why]
  /\ wire' = [wire EXCEPT ![w] = "sent"]

(* Mutant: one step beyond the budget.                                     *)
NextStepInclusive(w) ==
  /\ steps' = [steps EXCEPT ![w] = @ + 1]
  /\ pc' = [pc EXCEPT ![w] = IF steps[w] + 1 <= MaxSteps THEN "observe" ELSE "verify"]

(* The step after the action: the next observation, or the end of the loop.*)
NextStep(w) ==
  /\ steps' = [steps EXCEPT ![w] = @ + 1]
  /\ pc' = [pc EXCEPT ![w] = IF steps[w] + 1 < MaxSteps THEN "observe" ELSE "verify"]

(* An attempt builds a wrapper that believes the world runs and resets the *)
(* worker; reset() has nothing to unfreeze on a new wrapper.  What the     *)
(* last wrapper was told is forgotten.                                     *)
StartAttempt(w) ==
  /\ pc[w] = "idle"
  /\ attempt[w] < MaxAttempts
  /\ attempt' = [attempt EXCEPT ![w] = @ + 1]
  /\ paused' = [paused EXCEPT ![w] = FALSE]
  /\ steps' = [steps EXCEPT ![w] = 0]
  /\ pc' = [pc EXCEPT ![w] = "observe"]
  /\ known' = [known EXCEPT ![w] = @ /\ ~paused[w]]
  /\ UNCHANGED <<wire, late, frozen, faults>>

(* What observe() in each place is followed by, and the name of the place  *)
(* while its freeze command is in flight.                                  *)
Observes(w, at, during, then, threat) ==
  /\ pc[w] = at
  /\ IF threat /\ ~paused[w]
       THEN Send(w, during)
       ELSE pc' = [pc EXCEPT ![w] = then] /\ UNCHANGED wire
  /\ UNCHANGED <<paused, late, steps, attempt, frozen, faults, known>>

(* The observation a step starts with.                                     *)
Observe(w) == \E threat \in BOOLEAN : Observes(w, "observe", "observing", "decide", threat)

(* The execution loop polls observe() before it hands an active follow     *)
(* over to the next action; polls that freeze nothing change nothing.      *)
Poll(w) == Observes(w, "decide", "polling", "decide", TRUE) /\ ~paused[w]

(* The observation between a timed-out verification and its retry.         *)
Verify(w) == \E threat \in BOOLEAN : Observes(w, "verify", "verifying", "close", threat)

(* act() with an action of FROZEN_SAFE_ACTIONS.                            *)
Inspect(w) ==
  /\ pc[w] = "decide"
  /\ NextStep(w)
  /\ UNCHANGED <<paused, wire, late, attempt, frozen, faults, known>>

(* act() with any other action, up to the call of the wrapped runtime.     *)
Mutate(w) ==
  /\ pc[w] = "decide"
  /\ IF MustUnfreeze(w)
       THEN Send(w, "before_action")
       ELSE pc' = [pc EXCEPT ![w] = "mutate"] /\ UNCHANGED wire
  /\ UNCHANGED <<paused, late, steps, attempt, frozen, faults, known>>

ActionDone(w) ==
  /\ pc[w] = "mutate"
  /\ NextStep(w)
  /\ UNCHANGED <<paused, wire, late, attempt, frozen, faults, known>>

(* The loop stops before the budget and the run is verified; or a call of  *)
(* the wrapped runtime raises, the time limit of the loop cancels it, or   *)
(* the verification needs no retry: the finally block is next.             *)
RunEnds(w) ==
  /\ pc[w] \in Calling
  /\ \E then \in {"verify", "close"} \ {pc[w]} : pc' = [pc EXCEPT ![w] = then]
  /\ UNCHANGED <<paused, wire, late, steps, attempt, frozen, faults, known>>

Close(w) ==
  /\ pc[w] = "close"
  /\ IF CloseUnfreezes(w)
       THEN Send(w, "closing")
       ELSE pc' = [pc EXCEPT ![w] = "idle"] /\ UNCHANGED wire
  /\ UNCHANGED <<paused, late, steps, attempt, frozen, faults, known>>

(* Mutant: the observation of a retried verification ends the attempt.     *)
AfterWithoutClose(at) ==
  CASE at \in {"observing", "polling"} -> "decide"
    [] at = "before_action" -> "mutate"
    [] at \in {"verifying", "closing"} -> "idle"

(* Where the wrapper continues when the command sent at pc is over; a      *)
(* failed command is no reason to stop.                                    *)
After(at) ==
  CASE at \in {"observing", "polling"} -> "decide"
    [] at = "verifying" -> "close"
    [] at = "before_action" -> "mutate"
    [] at = "closing" -> "idle"

(* The server executes the toggle and answers with the new state.          *)
Toggle(w) ==
  LET s == ServerOf[w]
  IN /\ wire[w] = "sent"
     /\ frozen' = [frozen EXCEPT ![s] = ~ @]
     /\ wire' = [wire EXCEPT ![w] = IF frozen[s] THEN "normal" ELSE "frozen"]
     /\ known' = [known EXCEPT ![w] = TRUE]
     /\ UNCHANGED <<pc, paused, late, steps, attempt, faults>>

(* The answer arrives in time.                                             *)
Answered(w) ==
  /\ wire[w] \in {"frozen", "normal"}
  /\ paused' = [paused EXCEPT ![w] = PauseState(wire[w], paused[w])]
  /\ pc' = [pc EXCEPT ![w] = After(pc[w])]
  /\ wire' = [wire EXCEPT ![w] = "none"]
  /\ UNCHANGED <<late, steps, attempt, frozen, faults, known>>

(* The client gives a command up: what was sent may never have left, may   *)
(* be executed later, or was executed and only its answer is lost.         *)
GiveUp(w) ==
  /\ wire[w] # "none"
  /\ faults[w] < MaxFaults
  /\ faults' = [faults EXCEPT ![w] = @ + 1]
  /\ wire' = [wire EXCEPT ![w] = "none"]
  /\ late' = [late EXCEPT ![w] = IF wire[w] = "sent" THEN @ + 1 ELSE @]
  /\ known' = [known EXCEPT ![w] = FALSE]
  /\ UNCHANGED <<steps, attempt, frozen>>

(* The RCON client times out or loses the connection: execute_many returns *)
(* a result that is not ok.                                                *)
CommandFails(w) ==
  /\ GiveUp(w)
  /\ paused' = [paused EXCEPT ![w] = PauseState("lost", paused[w])]
  /\ pc' = [pc EXCEPT ![w] = After(pc[w])]

(* The time limit of the loop cancels it while it awaits the command; the  *)
(* verification and close() run outside the limit.                         *)
Cancelled(w) ==
  /\ pc[w] \in {"observing", "polling", "before_action"}
  /\ GiveUp(w)
  /\ pc' = [pc EXCEPT ![w] = "close"]
  /\ UNCHANGED paused

(* The process of the job dies; nothing is closed.                         *)
Killed ==
  /\ \A w \in Workers : faults[w] < MaxFaults
  /\ \E w \in Workers : pc[w] # "idle"
  /\ faults' = [w \in Workers |-> faults[w] + 1]
  /\ late' = [w \in Workers |-> IF wire[w] = "sent" THEN late[w] + 1 ELSE late[w]]
  /\ pc' = [w \in Workers |-> "idle"]
  /\ wire' = [w \in Workers |-> "none"]
  /\ known' = [w \in Workers |-> FALSE]
  /\ UNCHANGED <<paused, steps, attempt, frozen>>

LateToggle(w) ==
  /\ late[w] > 0
  /\ late' = [late EXCEPT ![w] = @ - 1]
  /\ frozen' = [frozen EXCEPT ![ServerOf[w]] = ~ @]
  /\ known' = [known EXCEPT ![w] = FALSE]
  /\ UNCHANGED <<pc, paused, wire, steps, attempt, faults>>

(* What the job and its server do without being disturbed.                 *)
Undisturbed(w) ==
  \/ Observe(w) \/ Inspect(w) \/ Mutate(w) \/ ActionDone(w)
  \/ Verify(w) \/ RunEnds(w) \/ Close(w)
  \/ Toggle(w) \/ Answered(w)

WorkerStep(w) ==
  \/ StartAttempt(w) \/ Undisturbed(w) \/ Poll(w)
  \/ CommandFails(w) \/ Cancelled(w) \/ LateToggle(w)

Next == (\E w \in Workers : WorkerStep(w)) \/ Killed

(* A started attempt goes on: the loop, the runtime calls and the RCON     *)
(* exchange all have time limits.  Nobody need start a further attempt.    *)
Spec == Init /\ [][Next]_vars /\ \A w \in Workers : WF_vars(Undisturbed(w))

-----------------------------------------------------------------------------
(* No command of w was disturbed so far.                                   *)
Calm(w) == faults[w] = 0

(* When no command is in flight the wrapper's belief is the state of the   *)
(* world: the only thing that keeps a toggle from doing the opposite of    *)
(* what it is sent for.  A belief that went wrong with a disturbed command *)
(* is repaired by the next answered one.                                   *)
BeliefIsWorld ==
  \A w \in Workers :
    known[w] /\ wire[w] = "none" => (paused[w] <=> frozen[ServerOf[w]])

(* A command still on its way finds the world in the state it is meant to  *)
(* end, so that freezing freezes and unfreezing unfreezes; disturbances of *)
(* other workers do not matter.                                            *)
ToggleDoesWhatItSays ==
  \A w \in Workers :
    Calm(w) /\ wire[w] = "sent" => (frozen[ServerOf[w]] <=> pc[w] \in Unfreezing)

(* A world-changing action runs in a world that ticks.                     *)
MutatesRunningWorld ==
  \A w \in Workers : Calm(w) /\ pc[w] = "mutate" => ~frozen[ServerOf[w]]

(* Between two attempts the world ticks: the next attempt's reset and its  *)
(* new wrapper, which believes so, rely on it.                             *)
IdleWorldRuns ==
  \A w \in Workers : Calm(w) /\ pc[w] = "idle" => ~frozen[ServerOf[w]]

(* What the wrapper believes, its toggles do.                              *)
BeliefHolds == BeliefIsWorld /\ ToggleDoesWhatItSays

(* The world ticks whenever somebody counts on it.                         *)
WorldTicks == MutatesRunningWorld /\ IdleWorldRuns

(* A freeze ends: no model call, verification or ending of an attempt      *)
(* leaves the world standing.                                              *)
FreezeEnds ==
  \A w \in Workers : frozen[ServerOf[w]] ~> (~frozen[ServerOf[w]] \/ ~Calm(w))

(* The docstring of close(), of disturbed attempts too: an attempt that    *)
(* closes without a last command leaves a ticking world.                   *)
ClosedWorldRuns ==
  [][\A w \in Workers :
       pc[w] = "close" /\ pc'[w] = "idle" /\ faults'[w] = faults[w]
         => ~frozen[ServerOf[w]]]_vars
=============================================================================
