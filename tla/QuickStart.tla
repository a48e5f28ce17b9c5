----------------------------- MODULE QuickStart -----------------------------
(***************************************************************************)
(* The launcher of launcher/service.py: the dashboard reserves one job at  *)
(* a time, a preparation thread brings up the Minecraft server, waits for  *)
(* the visible client and starts the task process, a watcher thread waits  *)
(* for that process, and cancel requests come in at any time.  The service *)
(* lives in the backend process, which may be restarted; task processes    *)
(* and server have sessions of their own and survive it.                   *)
(*                                                                         *)
(* A step is what happens between two points where another thread may      *)
(* interfere: taking the service's lock, testing the cancel event, or a    *)
(* call that takes time.                                                   *)
(***************************************************************************)
EXTENDS Naturals, FiniteSets

CONSTANTS
  Jobs,         \* job identifiers
  StopsServer,  \* settings.mc_agent_stop_server_after_run
  MaxFaults,    \* bound: jobs disturbed by an I/O or thread-start error
  MaxRestarts   \* bound: restarts of the backend process

ASSUME LaunchAssumption ==
  /\ StopsServer \in BOOLEAN
  /\ MaxFaults \in Nat
  /\ MaxRestarts \in Nat

VARIABLES
  status,    \* job.status; "new" before start_job, "lost" after a restart
  cancelled, \* job.cancel_event
  started,   \* job.server_started_by_job
  process,   \* job.process is set
  thread,    \* where the thread of the job is, preparation or watcher
  killer,    \* jobs with a cancel request about to signal their process
  child,     \* the task process
  signalled, \* it was sent SIGTERM
  server,    \* the Minecraft server at the configured address
  pid,       \* server.pid names a live process
  restarts,
  disturbed  \* jobs with an error or restart; not in the code
vars == <<status, cancelled, started, process, thread, killer, child, signalled,
          server, pid, restarts, disturbed>>

Active == {"starting_server", "waiting_for_client", "starting", "running", "cancelling"}
Terminal == {"succeeded", "failed", "cancelled"}

(* Preparation up to the start of the task process, the life with it, and  *)
(* the two ways to an end: clean and finish without, stop and conclude     *)
(* with a process that was watched.                                        *)
Preparing == {"ensure", "launch", "record", "endpoints", "announce_client", "client",
              "announce_start", "popen"}
WithProcess == {"publish", "kill", "reap", "attach", "wait"}
Ending == {"clean", "finish", "stop", "conclude"}

TypeOK ==
  /\ status \in [Jobs -> {"new", "lost"} \cup Active \cup Terminal]
  /\ cancelled \in [Jobs -> BOOLEAN]
  /\ started \in [Jobs -> BOOLEAN]
  /\ process \in [Jobs -> BOOLEAN]
  /\ thread \in [Jobs -> {"none"} \cup Preparing \cup WithProcess \cup Ending]
  /\ killer \subseteq Jobs
  /\ child \in [Jobs -> {"none", "alive", "ok", "failed"}]
  /\ signalled \in [Jobs -> BOOLEAN]
  /\ server \in {"down", "booting", "up", "stopping"}
  /\ pid \in BOOLEAN
  /\ restarts \in 0 .. MaxRestarts
  /\ disturbed \subseteq Jobs

(* The server may be up already, started by somebody else.                 *)
Init ==
  /\ status = [j \in Jobs |-> "new"]
  /\ cancelled = [j \in Jobs |-> FALSE]
  /\ started = [j \in Jobs |-> FALSE]
  /\ process = [j \in Jobs |-> FALSE]
  /\ thread = [j \in Jobs |-> "none"]
  /\ killer = {}
  /\ child = [j \in Jobs |-> "none"]
  /\ signalled = [j \in Jobs |-> FALSE]
  /\ server \in {"down", "up"}
  /\ pid = FALSE
  /\ restarts = 0
  /\ disturbed = {}

Goto(j, at) == thread' = [thread EXCEPT ![j] = at]
SetStatus(j, s) == status' = [status EXCEPT ![j] = s]
environment == <<child, signalled, server, pid>>
bookkeeping == <<restarts, disturbed>>

-----------------------------------------------------------------------------
(* active_job.                                                             *)
NoActiveJob == \A j \in Jobs : status[j] \notin Active

(* start_job under the lock; the status depends on a preflight made before.*)
Reserve(j) ==
  /\ status[j] = "new"
  /\ NoActiveJob
  /\ \E s \in {"starting_server", "waiting_for_client", "starting"} : SetStatus(j, s)
  /\ Goto(j, "ensure")
  /\ UNCHANGED <<cancelled, started, process, killer, environment, bookkeeping>>

(* _ensure_server up to the start script.  A server that is shutting down  *)
(* may still accept connections.                                           *)
EnsureServer(j) ==
  /\ thread[j] = "ensure"
  /\ \/ server \in {"up", "stopping"} /\ Goto(j, "endpoints") /\ UNCHANGED status
     \/ /\ server # "up"
        /\ SetStatus(j, "starting_server")
        /\ Goto(j, IF pid THEN "endpoints" ELSE "launch")
  /\ UNCHANGED <<cancelled, started, process, killer, environment, bookkeeping>>

(* The start script; beside a server that still holds the ports the new    *)
(* process does not live long enough, or just so, to be found alive.       *)
LaunchServer(j) ==
  /\ thread[j] = "launch"
  /\ ~cancelled[j]
  /\ IF server = "down"
       THEN server' = "booting" /\ pid' = TRUE /\ Goto(j, "record")
       ELSE /\ UNCHANGED <<server, pid>>
            /\ \E at \in {"record", "clean"} : Goto(j, at)
  /\ UNCHANGED <<status, cancelled, started, process, killer, child, signalled, bookkeeping>>

Record(j) ==
  /\ thread[j] = "record"
  /\ started' = [started EXCEPT ![j] = TRUE]
  /\ Goto(j, "endpoints")
  /\ UNCHANGED <<status, cancelled, process, killer, environment, bookkeeping>>

(* _wait_for_server_endpoints and _wait_for_client, each followed by a     *)
(* test of the cancel event; the status is published after the test.       *)
Ready(j) ==
  /\ ~cancelled[j]
  /\ server \in {"up", "stopping"}
  /\ \/ thread[j] = "endpoints" /\ Goto(j, "announce_client")
     \/ thread[j] = "client" /\ Goto(j, "announce_start")
  /\ UNCHANGED <<status, cancelled, started, process, killer, environment, bookkeeping>>

(* _set_job_status, whatever the status has become in the meantime.        *)
Announce(j) ==
  /\ \/ /\ thread[j] = "announce_client"
        /\ SetStatus(j, "waiting_for_client") /\ Goto(j, "client")
     \/ /\ thread[j] = "announce_start"
        /\ SetStatus(j, "starting") /\ Goto(j, "popen")
  /\ UNCHANGED <<cancelled, started, process, killer, environment, bookkeeping>>

(* _raise_if_cancelled raises; a missing prerequisite, a timeout or a      *)
(* failed start raises without a cancel request too.                       *)
Abandon(j) ==
  /\ thread[j] \in {"ensure", "launch", "endpoints", "client", "popen"}
  /\ Goto(j, "clean")
  /\ UNCHANGED <<status, cancelled, started, process, killer, environment, bookkeeping>>

Popen(j) ==
  /\ thread[j] = "popen"
  /\ ~cancelled[j]
  /\ child' = [child EXCEPT ![j] = "alive"]
  /\ Goto(j, "publish")
  /\ UNCHANGED <<status, cancelled, started, process, killer, signalled, server, pid,
                 bookkeeping>>

(* Mutant: the cancel event is not tested again.                           *)
PublishUnchecked(j) ==
  /\ thread[j] = "publish"
  /\ process' = [process EXCEPT ![j] = TRUE]
  /\ SetStatus(j, "running")
  /\ Goto(j, "attach")
  /\ UNCHANGED <<cancelled, started, killer, environment, bookkeeping>>

(* The new process is made known under the lock, unless a cancel request   *)
(* came first and found nothing to signal.                                 *)
Publish(j) ==
  /\ thread[j] = "publish"
  /\ IF cancelled[j]
       THEN Goto(j, "kill") /\ UNCHANGED <<status, process>>
       ELSE /\ process' = [process EXCEPT ![j] = TRUE]
            /\ SetStatus(j, "running")
            /\ Goto(j, "attach")
  /\ UNCHANGED <<cancelled, started, killer, environment, bookkeeping>>

Signal(j) == signalled' = [signalled EXCEPT ![j] = @ \/ child[j] = "alive"]

Kill(j) ==
  /\ thread[j] = "kill"
  /\ Signal(j)
  /\ Goto(j, "reap")
  /\ UNCHANGED <<status, cancelled, started, process, killer, child, server, pid, bookkeeping>>

(* The watcher is started, or a wait for the end of the process returns.   *)
Attach(j) ==
  /\ thread[j] = "attach"
  /\ Goto(j, "wait")
  /\ UNCHANGED <<status, cancelled, started, process, killer, environment, bookkeeping>>

Reap(j) ==
  /\ child[j] # "alive"
  /\ \/ thread[j] = "reap" /\ Goto(j, "clean")
     \/ thread[j] = "wait" /\ Goto(j, "stop")
  /\ UNCHANGED <<status, cancelled, started, process, killer, environment, bookkeeping>>

(* _cleanup_managed_server: only a server this job has started.            *)
StopsOwn(j) == started[j] /\ StopsServer

(* The stop script sends SIGTERM to the process server.pid names, removes  *)
(* the file and does not wait.                                             *)
CleanupServer(j) ==
  /\ \/ thread[j] = "clean" /\ Goto(j, "finish")
     \/ thread[j] = "stop" /\ Goto(j, "conclude")
  /\ IF StopsOwn(j) /\ pid
       THEN server' = "stopping" /\ pid' = FALSE
       ELSE UNCHANGED <<server, pid>>
  /\ UNCHANGED <<status, cancelled, started, process, killer, child, signalled, bookkeeping>>

(* Mutant: a status JobStatus does not know.                               *)
FinishInterrupted(j) ==
  /\ thread[j] = "finish"
  /\ SetStatus(j, IF cancelled[j] THEN "interrupted" ELSE "failed")
  /\ process' = [process EXCEPT ![j] = FALSE]
  /\ Goto(j, "none")
  /\ UNCHANGED <<cancelled, started, killer, environment, bookkeeping>>

(* _finish_preparation.                                                    *)
Finish(j) ==
  /\ thread[j] = "finish"
  /\ SetStatus(j, IF cancelled[j] THEN "cancelled" ELSE "failed")
  /\ process' = [process EXCEPT ![j] = FALSE]
  /\ Goto(j, "none")
  /\ UNCHANGED <<cancelled, started, killer, environment, bookkeeping>>

(* Mutant: cancel_job is trusted to have set the status.                   *)
ConcludeUncancelled(j) ==
  /\ thread[j] = "conclude"
  /\ SetStatus(j, IF cancelled[j] THEN status[j]
                  ELSE IF child[j] = "ok" THEN "succeeded" ELSE "failed")
  /\ process' = [process EXCEPT ![j] = FALSE]
  /\ Goto(j, "none")
  /\ UNCHANGED <<cancelled, started, killer, environment, bookkeeping>>

(* The end of _watch_job.                                                  *)
Conclude(j) ==
  /\ thread[j] = "conclude"
  /\ SetStatus(j, IF cancelled[j] \/ status[j] = "cancelling" THEN "cancelled"
                  ELSE IF child[j] = "ok" THEN "succeeded" ELSE "failed")
  /\ process' = [process EXCEPT ![j] = FALSE]
  /\ Goto(j, "none")
  /\ UNCHANGED <<cancelled, started, killer, environment, bookkeeping>>

(* Mutant: a finished job can be cancelled.                                *)
CancelAnything(j) ==
  /\ status[j] \notin {"new", "lost"}
  /\ cancelled' = [cancelled EXCEPT ![j] = TRUE]
  /\ SetStatus(j, "cancelling")
  /\ killer' = IF process[j] THEN killer \cup {j} ELSE killer
  /\ UNCHANGED <<started, process, thread, environment, bookkeeping>>

(* cancel_job under the lock: it remembers whether there is a process.     *)
Cancel(j) ==
  /\ status[j] \in Active
  /\ cancelled' = [cancelled EXCEPT ![j] = TRUE]
  /\ SetStatus(j, "cancelling")
  /\ killer' = IF process[j] THEN killer \cup {j} ELSE killer
  /\ UNCHANGED <<started, process, thread, environment, bookkeeping>>

(* The rest of cancel_job, after the lock.                                 *)
KillGroup(j) ==
  /\ j \in killer
  /\ killer' = killer \ {j}
  /\ Signal(j)
  /\ UNCHANGED <<status, cancelled, started, process, thread, child, server, pid, bookkeeping>>

-----------------------------------------------------------------------------
(* Task processes end by themselves or on a signal, a booting server comes *)
(* up or dies, a stopping one goes.                                        *)
ChildExits(j) ==
  /\ child[j] = "alive"
  /\ \E code \in {"ok", "failed"} : child' = [child EXCEPT ![j] = code]
  /\ UNCHANGED <<status, cancelled, started, process, thread, killer, signalled, server, pid,
                 bookkeeping>>

ServerMoves ==
  /\ \/ server = "booting" /\ server' = "up" /\ UNCHANGED pid
     \/ server = "booting" /\ server' = "down" /\ pid' = FALSE
     \/ server = "stopping" /\ server' = "down" /\ UNCHANGED pid
  /\ UNCHANGED <<status, cancelled, started, process, thread, killer, child, signalled,
                 bookkeeping>>

-----------------------------------------------------------------------------
(* Errors that are no ordinary outcome of a step: the status document or   *)
(* the log cannot be written, or a thread cannot be started.               *)
Disturb(j) ==
  /\ Cardinality(disturbed) < MaxFaults
  /\ disturbed' = disturbed \cup {j}
  /\ UNCHANGED restarts

(* start_job: the job is known and nothing is written or started.  Only    *)
(* the failure to start the thread is recorded.                            *)
ReserveFails(j) ==
  /\ status[j] = "new"
  /\ NoActiveJob
  /\ \E s \in {"starting_server", "failed"} : SetStatus(j, s)
  /\ Disturb(j)
  /\ UNCHANGED <<cancelled, started, process, thread, killer, environment>>

(* The start script fails after it has started the server.                 *)
LaunchFails(j) ==
  /\ thread[j] = "launch"
  /\ ~cancelled[j] /\ server = "down"
  /\ server' = "booting" /\ pid' = TRUE
  /\ Goto(j, "clean")
  /\ Disturb(j)
  /\ UNCHANGED <<status, cancelled, started, process, killer, child, signalled>>

(* The exception comes when the process is running and known.              *)
LosesChild(j) ==
  /\ \/ /\ thread[j] = "publish" /\ ~cancelled[j]
        /\ process' = [process EXCEPT ![j] = TRUE]
        /\ SetStatus(j, "running")
     \/ thread[j] = "attach" /\ UNCHANGED <<status, process>>
  /\ Goto(j, "clean")
  /\ Disturb(j)
  /\ UNCHANGED <<cancelled, started, killer, environment>>

(* The first log line of the cleanup raises and ends the thread, or the    *)
(* stop script fails, which is passed over.                                *)
CleanupFails(j) ==
  /\ thread[j] \in {"clean", "stop"}
  /\ StopsOwn(j)
  /\ \/ Goto(j, "none")
     \/ Goto(j, IF thread[j] = "clean" THEN "finish" ELSE "conclude")
  /\ Disturb(j)
  /\ UNCHANGED <<status, cancelled, started, process, killer, environment>>

(* cancel_job raises before it signals.                                    *)
CancelFails(j) ==
  /\ status[j] \in Active
  /\ cancelled' = [cancelled EXCEPT ![j] = TRUE]
  /\ SetStatus(j, "cancelling")
  /\ Disturb(j)
  /\ UNCHANGED <<started, process, thread, killer, environment>>

(* The backend process ends and is started again: the threads, which are   *)
(* daemons, and _jobs are gone.                                            *)
Restart ==
  /\ restarts < MaxRestarts
  /\ restarts' = restarts + 1
  /\ disturbed' = disturbed \cup {j \in Jobs : status[j] # "new"}
  /\ status' = [j \in Jobs |-> IF status[j] = "new" THEN "new" ELSE "lost"]
  /\ thread' = [j \in Jobs |-> "none"]
  /\ process' = [j \in Jobs |-> FALSE]
  /\ killer' = {}
  /\ UNCHANGED <<cancelled, started, environment>>

-----------------------------------------------------------------------------
ThreadStep(j) ==
  \/ EnsureServer(j) \/ LaunchServer(j) \/ Record(j) \/ Ready(j) \/ Announce(j)
  \/ Abandon(j) \/ Popen(j) \/ Publish(j) \/ Kill(j) \/ Attach(j) \/ Reap(j)
  \/ CleanupServer(j) \/ Finish(j) \/ Conclude(j)

Fault(j) ==
  \/ ReserveFails(j) \/ LaunchFails(j) \/ LosesChild(j) \/ CleanupFails(j) \/ CancelFails(j)

JobStep(j) ==
  \/ Reserve(j) \/ ThreadStep(j) \/ Cancel(j) \/ KillGroup(j) \/ ChildExits(j) \/ Fault(j)

Next == (\E j \in Jobs : JobStep(j)) \/ ServerMoves \/ Restart

(* Threads run, every wait in them has a timeout, and a task process has a *)
(* time limit of its own.                                                  *)
Spec ==
  /\ Init /\ [][Next]_vars
  /\ \A j \in Jobs : WF_vars(ThreadStep(j)) /\ WF_vars(KillGroup(j)) /\ WF_vars(ChildExits(j))

-----------------------------------------------------------------------------
(* The statements are about the jobs no error or restart has disturbed.    *)
Undisturbed == Jobs \ disturbed

(* One task process at a time: none is alive before the job that started   *)
(* it is active and after it is done, and reservations exclude each other. *)
OneTaskProcess ==
  \A i, j \in Undisturbed : child[i] = "alive" /\ child[j] = "alive" => i = j

(* A cancel request never misses the process: it has been signalled, or    *)
(* the request that saw it or the thread that is about to publish it will  *)
(* do so.                                                                  *)
CancelReachesChild ==
  \A j \in Undisturbed :
    cancelled[j] /\ child[j] = "alive"
      => signalled[j] \/ j \in killer \/ thread[j] \in {"publish", "kill"}

(* The verdict of a job is true: cancelled exactly on request, although    *)
(* the status is overwritten by preparation steps after the request, and   *)
(* succeeded only with its process; no process is left running.            *)
VerdictIsTrue ==
  \A j \in Undisturbed : status[j] \in Terminal =>
    /\ status[j] = "cancelled" <=> cancelled[j]
    /\ status[j] = "succeeded" => child[j] = "ok"
    /\ child[j] # "alive"

(* Nothing that happens late, a signal, an announcement or a second cancel *)
(* request, changes the status of a job that is done.                      *)
DoneStep ==
  \A j \in Jobs : status[j] \in Terminal => status'[j] \in {status[j], "lost"}

(* The server is never stopped under a running task.                       *)
ServerStep ==
  server # "stopping" /\ server' = "stopping" => \A j \in Undisturbed : child[j] # "alive"

(* Neither the end of a job nor the task of another job is undone later.   *)
NothingIsUndone == [][DoneStep /\ ServerStep]_vars

(* A server started for a job does not outlive the job.                    *)
NoServerLeft == StopsServer /\ disturbed = {} /\ NoActiveJob => ~pid

(* Every job ends, and with it the reservation.                            *)
JobEnds ==
  \A j \in Jobs : status[j] \in Active ~> (status[j] \in Terminal \/ j \in disturbed)

(* Between errors and restarts of the backend a job is sound: one task     *)
(* process at a time, reached by every cancel request, reported as it      *)
(* ended, with no server left behind.                                      *)
JobsAreSound == OneTaskProcess /\ CancelReachesChild /\ VerdictIsTrue /\ NoServerLeft
=============================================================================
