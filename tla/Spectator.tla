------------------------------- MODULE Spectator -------------------------------
(***************************************************************************)
(* The recording of a training job: a camera client follows the agent of   *)
(* the first worker through RCON commands, the screen recorder starts when *)
(* the camera is attached, and both are put away when the runner ends.     *)
(*                                                                         *)
(* The agent has a new body after every reset, death or change of          *)
(* dimension; a camera stays with the body it was attached to. "body"      *)
(* stands for the entity id, spawn sequence and dimension of an            *)
(* observation, zero for none.                                             *)
(***************************************************************************)
EXTENDS Integers, Sequences

CONSTANTS
  RetryLimit,        \* recording_spectate_retries
  MaxRuns, MaxBodies \* bounds: attempts of the worker, bodies of its agent

VARIABLES
  follow, record,    \* the arguments: a spectator player, a screen recording
  runner,            \* "idle", "running", "ended"
  runs, body,        \* attempts started; the agent's present body
  seen,              \* the body in the latest committed observation of the run
  starts,            \* run_started events not yet taken
  loop,              \* where _spectate_agent is
  current,           \* current_run
  attached, failures, last,  \* attached, consecutive_failures, last_synced_state
  sync,              \* the attempt under way: its phase and current_state
  camera, mode,      \* what the camera client follows, and its game mode
  stop, ready,       \* spectate_stop_event, camera_ready_event
  visual,            \* visual_readiness_event
  recorder,          \* "none", "off", "on", "stopped"
  session,           \* where the recording session is
  before             \* ghost: the state of the last sync was read before it

camera_loop == <<loop, current, attached, failures, last, sync, before>>
vars == <<follow, record, runner, runs, body, seen, starts, loop, current, attached, failures, last,
          sync, camera, mode, stop, ready, visual, recorder, session, before>>

NoSync == [phase |-> "none", state |-> 0, early |-> TRUE]

Init ==
  /\ follow \in BOOLEAN /\ record \in BOOLEAN /\ runner = "idle" /\ runs = 0 /\ body = 0 /\ seen = 0
  /\ starts = <<>> /\ loop = "off" /\ current = 0 /\ attached = FALSE /\ failures = 0 /\ last = 0
  /\ sync = NoSync /\ camera = 0 /\ mode = "creative" /\ stop = FALSE /\ ready = FALSE
  /\ visual = ~follow /\ recorder = "none" /\ session = "start" /\ before = TRUE

(* ------------------------------------------------------------------------*)
(* The runner and its agent.                                               *)
(* ------------------------------------------------------------------------*)
(* A run is started and committed after the reset: the agent is new.       *)
RunStarts ==
  /\ runner = "running" /\ runs < MaxRuns /\ body < MaxBodies
  /\ runs' = runs + 1 /\ body' = body + 1 /\ seen' = 0
  /\ starts' = (IF follow THEN Append(starts, runs') ELSE starts)
  /\ UNCHANGED <<follow, record, runner, camera_loop, camera, mode, stop, ready, visual, recorder,
                 session>>

Observed ==
  /\ runner = "running" /\ runs > 0 /\ seen' = body
  /\ UNCHANGED <<follow, record, runner, runs, body, starts, camera_loop, camera, mode, stop, ready,
                 visual, recorder, session>>

NewBody ==
  /\ runner = "running" /\ runs > 0 /\ body < MaxBodies /\ body' = body + 1
  /\ UNCHANGED <<follow, record, runner, runs, seen, starts, camera_loop, camera, mode, stop, ready,
                 visual, recorder, session>>

RunnerEnds ==
  /\ runner = "running" /\ runner' = "ended"
  /\ UNCHANGED <<follow, record, runs, body, seen, starts, camera_loop, camera, mode, stop, ready,
                 visual, recorder, session>>

(* ------------------------------------------------------------------------*)
(* The camera: _spectate_agent.                                            *)
(* ------------------------------------------------------------------------*)
World == <<follow, record, runner, runs, body, seen, stop, visual, recorder, session>>
Begin(phase, state) ==
  sync' = [phase |-> phase, state |-> state, early |-> state # 0] /\ loop' = "prepare"

NextRun ==
  /\ loop = "wait" /\ ~stop /\ starts # <<>> /\ starts' = Tail(starts)
  /\ current' = Head(starts) /\ attached' = FALSE /\ failures' = 0 /\ last' = 0
  /\ Begin("post_reset_sync", IF current' = runs THEN seen ELSE 0)
  /\ UNCHANGED <<World, camera, mode, ready, before>>

Latest == IF current = runs THEN seen ELSE 0
Known(state) == IF state = 0 THEN last ELSE state

(* The wait times out: sooner after a failure, until too many of them.     *)
Retry ==
  /\ loop = "wait" /\ ~stop /\ starts = <<>> /\ current > 0 /\ ~attached
  /\ Begin("post_reset_retry", 0)
  /\ UNCHANGED <<World, starts, current, attached, failures, last, camera, mode, ready, before>>

(* The agent is another one than the camera was attached to.               *)
Changed == last # 0 /\ Latest # 0 /\ last # Latest
Resync ==
  /\ loop = "wait" /\ ~stop /\ starts = <<>> /\ current > 0 /\ attached /\ Changed
  /\ Begin("target_state_resync", Latest)
  /\ UNCHANGED <<World, starts, current, attached, failures, last, camera, mode, ready, before>>

(* Nothing is known to have changed: the distance is asked for, and a      *)
(* camera too far away, or not synchronised for long, is attached again.   *)
Probe ==
  /\ loop = "wait" /\ ~stop /\ starts = <<>> /\ current > 0 /\ attached /\ ~Changed
  /\ sync' = [phase |-> "probe", state |-> Latest, early |-> Latest # 0] /\ loop' = "probe"
  /\ UNCHANGED <<World, starts, current, attached, failures, last, camera, mode, ready, before>>

Probed ==
  /\ loop = "probe"
  /\ \/ stop /\ loop' = "done" /\ UNCHANGED <<sync, last>>
     \/ ~stop /\ Begin("distance_resync", sync.state) /\ UNCHANGED last
     \/ ~stop /\ loop' = "wait" /\ sync' = NoSync /\ last' = Known(sync.state)
  /\ UNCHANGED <<World, starts, current, attached, failures, camera, mode, ready, before>>

LoopStops ==
  /\ loop = "wait" /\ stop /\ loop' = "done"
  /\ UNCHANGED <<World, starts, current, attached, failures, last, sync, camera, mode, ready, before>>

Resets == sync.phase \in {"post_reset_sync", "post_reset_retry"}
(* The client is sent to the agent, in spectator mode; or a command fails. *)
Prepare ==
  /\ loop = "prepare" /\ camera' = 0
  /\ \/ mode' = (IF Resets THEN "spectator" ELSE mode) /\ loop' = "delay"
     \/ mode' \in (IF Resets THEN {mode, "creative", "spectator"} ELSE {mode}) /\ loop' = "failed"
  /\ UNCHANGED <<World, starts, current, attached, failures, last, sync, ready, before>>

(* Time for the chunks to load; a stop in that time aborts the attempt.    *)
Follow ==
  /\ loop = "delay"
  /\ \/ stop /\ loop' = "failed" /\ UNCHANGED camera
     \/ loop' = "failed" /\ UNCHANGED camera
     \/ ~stop /\ mode = "spectator" /\ camera' = body /\ loop' = "followed"
  /\ UNCHANGED <<World, starts, current, attached, failures, last, sync, mode, ready, before>>

StateOfSync == IF sync.state = 0 THEN Latest ELSE sync.state
(* The attempt is audited; after a success the camera counts as attached.  *)
Succeeded ==
  /\ loop = "followed" /\ loop' = "wait" /\ attached' = TRUE /\ failures' = 0 /\ sync' = NoSync
  /\ last' = Known(StateOfSync) /\ before' = sync.early
  /\ ready' = (ready \/ Resets)
  /\ UNCHANGED <<World, starts, current, camera, mode>>

Failed ==
  /\ loop = "failed" /\ loop' = "wait" /\ attached' = FALSE /\ sync' = NoSync
  /\ failures' = (IF failures < RetryLimit THEN failures + 1 ELSE failures)
  /\ UNCHANGED <<World, starts, current, last, camera, mode, ready, before>>

(* ------------------------------------------------------------------------*)
(* The session: _run_training_with_optional_recording.                     *)
(* ------------------------------------------------------------------------*)
(* Starting the recorder may fail, which the session notes.                *)
StartRecorder == recorder' \in (IF record THEN {"on", "off"} ELSE {"none"})

Start ==
  /\ session = "start" /\ runner' = "running" /\ session' = "camera"
  /\ IF follow THEN loop' = "wait" /\ UNCHANGED recorder ELSE StartRecorder /\ UNCHANGED loop
  /\ UNCHANGED <<follow, record, runs, body, seen, starts, current, attached, failures, last, sync,
                 camera, mode, stop, ready, visual, before>>

(* Mutant: the recorder starts when the wait for the camera is over.       *)
CameraReadyOrNot == TRUE

CameraReady == ready
(* Until the camera is ready, the runner has ended, or 30 s are over.      *)
AwaitCamera ==
  /\ session = "camera" /\ session' = "runner" /\ visual' = TRUE
  /\ IF ~follow THEN UNCHANGED recorder
     ELSE IF CameraReady THEN StartRecorder ELSE recorder' = (IF record THEN "off" ELSE "none")
  /\ UNCHANGED <<follow, record, runner, runs, body, seen, starts, camera_loop, camera, mode, stop,
                 ready>>

AwaitRunner ==
  /\ session = "runner" /\ runner = "ended" /\ session' = "finish" /\ stop' = follow
  /\ UNCHANGED <<follow, record, runner, runs, body, seen, starts, camera_loop, camera, mode, ready,
                 visual, recorder>>

EndLoop == loop' = IF loop = "off" THEN "off" ELSE "done"
FinishLoop ==
  /\ session = "finish" /\ session' = "restore" /\ EndLoop
  /\ UNCHANGED <<follow, record, runner, runs, body, seen, starts, current, attached, failures, last,
                 sync, camera, mode, stop, ready, visual, recorder, before>>

(* The client is a normal player again, unless the command fails; the      *)
(* recorder ends its file.                                                 *)
Restore ==
  /\ session = "restore"
  /\ \/ ~follow /\ session' = "ended" /\ UNCHANGED <<mode, camera>>
     \/ follow /\ session' = "ended" /\ mode' = "creative" /\ camera' = 0
     \/ follow /\ session' = "not restored" /\ UNCHANGED <<mode, camera>>
  /\ recorder' = (IF recorder = "on" THEN "stopped" ELSE recorder)
  /\ UNCHANGED <<follow, record, runner, runs, body, seen, starts, camera_loop, stop, ready, visual>>

Next ==
  \/ RunStarts \/ Observed \/ NewBody \/ RunnerEnds
  \/ NextRun \/ Retry \/ Resync \/ Probe \/ Probed \/ LoopStops \/ Prepare \/ Follow
  \/ Succeeded \/ Failed
  \/ Start \/ AwaitCamera \/ AwaitRunner \/ FinishLoop \/ Restore

Spec == Init /\ [][Next]_vars

(* ------------------------------------------------------------------------*)
(* Properties.                                                             *)
(* ------------------------------------------------------------------------*)
TypeOK ==
  /\ loop \in {"off", "wait", "probe", "prepare", "delay", "failed", "followed", "done"}
  /\ current \in 0 .. runs /\ failures \in 0 .. RetryLimit /\ camera \in 0 .. body
  /\ last \in 0 .. body /\ mode \in {"creative", "spectator"}
  /\ attached => current > 0
  /\ session = "runner" => visual

(* A camera that counts as attached, to the agent that was observed last,  *)
(* follows that agent, unless nothing was observed before it was attached: *)
(* a death during an attempt is noticed as soon as it is observed.         *)
CameraIsWhereItIsBelieved ==
  attached /\ before /\ loop = "wait" /\ starts = <<>> /\ last = body => camera = body

(* A recording that follows the agent starts with a camera that had been   *)
(* attached to it after a reset.                                           *)
RecordingStartsAttached == recorder = "on" /\ follow => ready /\ current > 0

(* The session leaves the client as a player, with nobody to move it.      *)
ClientIsGivenBack ==
  session = "ended" => mode = "creative" /\ camera = 0 /\ loop \in {"off", "done"}

(* All of the above: the camera loop, the recorder and the end of a        *)
(* recorded session.                                                       *)
SpectatorIsSound ==
  CameraIsWhereItIsBelieved /\ RecordingStartsAttached /\ ClientIsGivenBack
=============================================================================
