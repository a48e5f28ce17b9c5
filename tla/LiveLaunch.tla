------------------------------- MODULE LiveLaunch -------------------------------
(***************************************************************************)
(* From an empty machine to a live training job: the pool script starts    *)
(* one Minecraft server per directory and writes the state of the pool,    *)
(* the week 10 script checks its arguments against the pool, starts a      *)
(* worker process per worker, restarts workers for the runner, and stops   *)
(* them at the end. The job itself is LiveTraining's.                      *)
(*                                                                         *)
(* A worker process is npm, the leader of a process group, with a Node     *)
(* child that listens on the worker's port.                                *)
(***************************************************************************)
EXTENDS Integers, Sequences, FiniteSetsExt, Functions

CONSTANTS
  Servers,     \* 1 .. n, the directories of the pool; also the game ports
  Files,       \* pool states written by hand: sequences of entries
  Arguments,   \* argument records of the week 10 script
  MaxStarts,   \* bound: runs of the pool script
  MaxDeaths,   \* bound: servers and workers that die
  MaxRestarts, \* bound: restarts that the runner asks for
  AloneDeaths  \* bound: npm processes killed without their children

VARIABLES
  server,    \* server processes of a directory: "down", "booting", "up", "stopping"
  running,   \* ghost: how many server processes a directory has
  pid,       \* server.pid: "none", "live", "stale"
  file,      \* server_pool_state.json, <<>> for none
  script,    \* the pool script: phase, next server, servers it has started
  phase,     \* the week 10 script
  args, pool,    \* its arguments; the servers it selected
  leader, node,  \* worker processes: npm, and what listens on the port
  known,     \* worker_supervisors
  restarting,    \* the worker that is being restarted, or 0
  starts, deaths, alone, restarts  \* counters for the bounds

poolVars == <<server, running, pid, file, script, starts>>
launchVars == <<phase, args, pool, leader, node, known, restarting, restarts>>
vars == <<server, running, pid, file, script, phase, args, pool, leader, node, known, restarting,
          starts, deaths, alone, restarts>>

NoArguments == [workers |-> 0]
NoScript == [pc |-> "off", next |-> 1, mine |-> {}]

Init ==
  /\ server = [s \in Servers |-> "down"] /\ running = [s \in Servers |-> 0]
  /\ pid = [s \in Servers |-> "none"] /\ file \in {<<>>} \cup Files /\ script = NoScript
  /\ phase = "idle" /\ args = NoArguments /\ pool = <<>> /\ leader = {} /\ node = {} /\ known = {}
  /\ restarting = 0 /\ starts = 0 /\ deaths = 0 /\ alone = 0 /\ restarts = 0

(* ------------------------------------------------------------------------*)
(* start_minecraft_server_pool.py                                          *)
(* ------------------------------------------------------------------------*)
BeginPool ==
  /\ script.pc \in {"off", "written", "failed"} /\ phase = "idle" /\ starts < MaxStarts
  /\ starts' = starts + 1 /\ script' = [NoScript EXCEPT !.pc = "start"]
  /\ UNCHANGED <<server, running, pid, file, launchVars, deaths, alone>>

(* Mutant: the pid file counts only as long as the server answers.         *)
IsRunningAndUp(s) == pid[s] = "live" /\ server[s] = "up"

(* The pid of a server that has gone may belong to another process.        *)
IsRunning(s) == pid[s] \in {"live", "stale"}

StartServer ==
  /\ script.pc = "start" /\ script.next \in Servers
  /\ LET s == script.next
     IN \/ /\ IsRunning(s) /\ script' = [script EXCEPT !.next = s + 1]
           /\ UNCHANGED <<server, running, pid>>
        \/ /\ pid[s] = "stale" \/ ~IsRunning(s)
           /\ server' = [server EXCEPT ![s] = "booting"]
           /\ running' = [running EXCEPT ![s] = @ + 1] /\ pid' = [pid EXCEPT ![s] = "live"]
           /\ script' = [script EXCEPT !.next = s + 1, !.mine = @ \cup {s}]
  /\ UNCHANGED <<file, starts, launchVars, deaths, alone>>

AwaitServers ==
  /\ script.pc = "start" /\ script.next \notin Servers
  /\ script' = [script EXCEPT !.pc = "wait", !.next = 1]
  /\ UNCHANGED <<server, running, pid, file, starts, launchVars, deaths, alone>>

ServerReady ==
  /\ script.pc = "wait" /\ script.next \in Servers /\ server[script.next] = "up"
  /\ script' = [script EXCEPT !.next = @ + 1]
  /\ UNCHANGED <<server, running, pid, file, starts, launchVars, deaths, alone>>

Entry(s) == [id |-> s, game |-> s, rcon |-> s, max |-> 1]
WriteFile ==
  /\ script.pc = "wait" /\ script.next \notin Servers
  /\ file' = [i \in 1 .. Cardinality(Servers) |-> Entry(i)]
  /\ script' = [script EXCEPT !.pc = "written"]
  /\ UNCHANGED <<server, running, pid, starts, launchVars, deaths, alone>>

StartedServers == script.mine
Terminated ==
  [s \in Servers |-> IF s \in StartedServers /\ server[s] # "down" THEN "stopping" ELSE server[s]]

PoolTimesOut ==
  /\ script.pc = "wait" /\ script.next \in Servers /\ server[script.next] # "up"
  /\ server' = Terminated /\ script' = [script EXCEPT !.pc = "failed"]
  /\ UNCHANGED <<running, pid, file, starts, launchVars, deaths, alone>>

ServerUp ==
  /\ \E s \in Servers : server[s] = "booting" /\ server' = [server EXCEPT ![s] = "up"]
  /\ UNCHANGED <<running, pid, file, script, starts, launchVars, deaths, alone>>

Gone(s) ==
  /\ server' = [server EXCEPT ![s] = "down"] /\ running' = [running EXCEPT ![s] = @ - 1]
  /\ pid' = [pid EXCEPT ![s] = "stale"]
ServerDies ==
  /\ \E s \in Servers :
       /\ Gone(s)
       /\ \/ server[s] = "stopping" /\ UNCHANGED deaths
          \/ server[s] \in {"booting", "up"} /\ deaths < MaxDeaths /\ deaths' = deaths + 1
  /\ UNCHANGED <<file, script, starts, launchVars, alone>>

(* ------------------------------------------------------------------------*)
(* run_week10_live_training.py: what it checks, in this order.             *)
(* ------------------------------------------------------------------------*)
Launch ==
  /\ phase = "idle" /\ script.pc \notin {"start", "wait"}
  /\ args' \in Arguments /\ phase' = "limits"
  /\ UNCHANGED <<poolVars, pool, leader, node, known, restarting, restarts, deaths, alone>>

To(next) == phase' = next /\ UNCHANGED <<poolVars, args, leader, node, known, restarting, restarts,
                                         deaths, alone>>

(* Vision and progress feedback need the title of a window.                *)
Limits ==
  /\ phase = "limits" /\ UNCHANGED pool
  /\ To(IF args.vision /\ ~args.titled THEN "refused" ELSE "capture")

(* The window is looked for now, and may not be there.                     *)
Capture ==
  /\ phase = "capture" /\ UNCHANGED pool
  /\ \/ args.vision /\ args.workers = 1 /\ To("refused")
     \/ To(IF args.vision /\ args.workers # 1 THEN "refused" ELSE "database")

UsesSqlite ==
  \/ args.database = "path"
  \/ args.database = "none" /\ (args.workers = 1 \/ args.scripted \/ args.sqlite)
Database ==
  /\ phase = "database" /\ UNCHANGED pool
  /\ To(IF \/ args.database = "both"
           \/ args.workers > 1 /\ ~args.scripted /\ UsesSqlite /\ ~args.sqlite
        THEN "refused" ELSE "servers")

Distinct(values) == IsInjective(values)
Loads ==
  /\ file # <<>>
  /\ Distinct([i \in DOMAIN file |-> file[i].id]) /\ Distinct([i \in DOMAIN file |-> file[i].game])
  /\ LET rcons == SelectSeq([i \in DOMAIN file |-> file[i].rcon], LAMBDA r : r # 0)
     IN Distinct(rcons)
Fits ==
  Loads /\ args.workers <= Len(file) /\ \A i \in 1 .. args.workers : file[i].max = 1
Development ==
  <<[id |-> 1, game |-> 1, rcon |-> IF args.rcon THEN 1 ELSE 0, max |-> args.workers]>>

ResolvePool ==
  /\ phase = "servers"
  /\ \/ args.pool /\ Fits /\ pool' = SubSeq(file, 1, args.workers) /\ To("placement")
     \/ args.pool /\ ~Fits /\ To("refused") /\ UNCHANGED pool
     \/ ~args.pool /\ pool' = Development /\ To("placement")

Enough == args.workers <= 1 \/ Len(pool) >= args.workers \/ args.shared
Placement == phase = "placement" /\ To(IF Enough THEN "reach" ELSE "refused") /\ UNCHANGED pool

Reach ==
  /\ phase = "reach" /\ UNCHANGED pool
  /\ IF /\ \A i \in DOMAIN pool : server[pool[i].game] = "up"
        /\ args.rcon => \A i \in DOMAIN pool : pool[i].rcon # 0
     THEN To("workers") ELSE To("refused")

(* ------------------------------------------------------------------------*)
(* Worker processes.                                                       *)
(* ------------------------------------------------------------------------*)
ServerOf(w) == IF Len(pool) > 1 THEN pool[w] ELSE pool[1]

(* A worker is started on a free port, and waited for.                     *)
StartWorker ==
  /\ phase = "workers" /\ Cardinality(known) < args.workers
  /\ LET w == Cardinality(known) + 1
     IN /\ known' = known \cup {w} /\ leader' = leader \cup {w} /\ node' = node \cup {w}
        /\ \/ phase' = phase
           \/ phase' = "finally"
  /\ UNCHANGED <<poolVars, args, pool, restarting, restarts, deaths, alone>>

(* A password is asked for when the executors are built.                   *)
BuildRunner ==
  /\ phase = "workers" /\ Cardinality(known) = args.workers /\ UNCHANGED pool
  /\ To(IF args.rcon /\ ~args.password THEN "finally" ELSE "running")

(* Node ends, and npm with it.                                             *)
WorkerDies ==
  /\ phase = "running" /\ deaths < MaxDeaths /\ deaths' = deaths + 1
  /\ \E w \in leader \cap node : leader' = leader \ {w} /\ node' = node \ {w}
  /\ UNCHANGED <<poolVars, phase, args, pool, known, restarting, restarts, alone>>

(* npm alone is killed.                                                    *)
LeaderDies ==
  /\ phase = "running" /\ alone < AloneDeaths /\ alone' = alone + 1
  /\ \E w \in leader \cap node : leader' = leader \ {w}
  /\ UNCHANGED <<poolVars, phase, args, pool, node, known, restarting, restarts, deaths>>

(* The whole group, unless npm has ended already.                          *)
NodesAfter(w) == IF w \in leader THEN node \ {w} ELSE node

(* A restart, in a thread of its own: terminate, then start on the port.   *)
Restart ==
  /\ phase = "running" /\ restarting = 0 /\ restarts < MaxRestarts
  /\ \E w \in known : restarting' = w /\ node' = NodesAfter(w) /\ leader' = leader \ {w}
  /\ restarts' = restarts + 1
  /\ UNCHANGED <<poolVars, phase, args, pool, known, deaths, alone>>

(* A Node child that still holds the port answers for the new process,     *)
(* which cannot listen and ends.                                           *)
Restarted ==
  /\ restarting # 0 /\ restarting' = 0 /\ node' = node \cup {restarting}
  /\ leader' = (IF restarting \in node THEN leader ELSE leader \cup {restarting})
  /\ UNCHANGED <<poolVars, phase, args, pool, known, restarts, deaths, alone>>

(* The runner returns, raises or is interrupted.                           *)
RunnerEnds == phase = "running" /\ To("closing") /\ UNCHANGED pool

(* The event loop is closed when its threads are done.                     *)
LoopCloses == phase = "closing" /\ restarting = 0 /\ To("finally") /\ UNCHANGED pool

StopWorkers ==
  /\ phase = "finally" /\ phase' = "ended"
  /\ IF args.keep THEN UNCHANGED <<leader, node>>
     ELSE node' = node \ {w \in known : w \notin NodesAfter(w)} /\ leader' = leader \ known
  /\ UNCHANGED <<poolVars, args, pool, known, restarting, restarts, deaths, alone>>

Next ==
  \/ BeginPool \/ StartServer \/ AwaitServers \/ ServerReady \/ WriteFile \/ PoolTimesOut
  \/ ServerUp \/ ServerDies
  \/ Launch \/ Limits \/ Capture \/ Database \/ ResolvePool \/ Placement \/ Reach
  \/ StartWorker \/ BuildRunner \/ WorkerDies \/ LeaderDies \/ Restart \/ Restarted
  \/ RunnerEnds \/ LoopCloses \/ StopWorkers

Spec == Init /\ [][Next]_vars

(* ------------------------------------------------------------------------*)
(* Properties.                                                             *)
(* ------------------------------------------------------------------------*)
TypeOK ==
  /\ server \in [Servers -> {"down", "booting", "up", "stopping"}]
  /\ pid \in [Servers -> {"none", "live", "stale"}]
  /\ script.pc \in {"off", "start", "wait", "written", "failed"}
  /\ known \subseteq 1 .. args.workers /\ leader \subseteq known /\ node \subseteq known
  /\ restarting \in {0} \cup known

(* No directory, hence no world, ever has two servers; and a start of the  *)
(* pool that gave up leaves none of the servers it had started.            *)
PoolIsClean ==
  /\ \A s \in Servers : running[s] = IF server[s] = "down" THEN 0 ELSE 1
  /\ script.pc = "failed" => \A s \in script.mine : server[s] \in {"stopping", "down"}

(* Workers that run in parallel have a server each and a database that     *)
(* stands it, unless the options for development were given; one window is *)
(* never shared by two agents; and commands can be sent if they are needed.*)
ParallelRunsAreSound ==
  phase = "running" =>
    /\ args.workers > 1 /\ ~args.shared =>
         \A v, w \in known : v # w => ServerOf(v).game # ServerOf(w).game
    /\ args.workers > 1 /\ ~args.scripted /\ ~args.sqlite => ~UsesSqlite
    /\ args.vision => args.workers = 1 /\ args.titled
    /\ args.rcon => args.password /\ \A w \in known : ServerOf(w).rcon # 0

(* When the script has ended, none of its worker processes is left, unless *)
(* they are to be kept or npm alone was killed: the early return of        *)
(* _terminate_process leaves its Node child to itself.                     *)
WorkersAreStopped ==
  phase = "ended" /\ ~args.keep => leader = {} /\ (alone = 0 => node = {})

(* All of the above: what the pool script and main() of the week 10 script *)
(* start, check and stop.                                                  *)
LaunchIsSound == PoolIsClean /\ ParallelRunsAreSound /\ WorkersAreStopped
=============================================================================
