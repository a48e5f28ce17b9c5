# Verification of the Minecraft agent harness

TLA+ models of the harness in `src/` (a Python backend under
`backend/src/mc_agent_harness`, a TypeScript Mineflayer worker, and the scripts
that run batches), checked with TLC on small instances and, for the properties
that matter most, proved with TLAPS for every value of the constants.
`PROJECT.json` lists components, runs, mutants, findings, hazards and theorems
and maps each definition to the lines it models; this file explains them.

Paths below are relative to `src/`; `backend:` stands for
`backend/src/mc_agent_harness/`, `worker:` for `workers/mineflayer-worker/src/`.

## 1. The system

An LLM agent plays Minecraft tasks. A *run* is one attempt at one task: the
`ExecutionLoop` observes the bot, builds a prompt, asks a model for an action,
lets `action_repair` turn the answer into a valid action, sends it to a worker
over a websocket, checks the result and decides whether to go on. A *job* is a
batch of tasks, executed by several workers in parallel, that afterwards turns
what was learned into lessons and skills. People start single tasks from the
quick-start page and review skills on the dashboard.

| part | where | state it keeps | operations | shares state with |
|---|---|---|---|---|
| Task selection | `scripts/run_week10_live_training.py`, `backend:tasks/similarity.py` | none | quotas per category, batches, waves | the scheduler |
| Launch of servers and workers | `scripts/start_minecraft_server_pool.py`, `scripts/run_week10_live_training.py` | pid files, a pool state file, worker processes | start a pool, check the placement, start / restart / stop workers | servers, workers, scheduler |
| Live training scheduler | `backend:training/live_runner.py` | per wave: an `asyncio.Queue`, one loop per worker, lists of outcomes; per job: attempts, snapshots of skills and lessons | run, run a wave, take / finish / retry a request, recover a worker | checkpoint callback, skill settlement, recorder, workers |
| Wave checkpoint | `scripts/run_week10_live_training.py` | a JSON checkpoint, a JSON report | load and validate, write after a wave, close | the scheduler |
| Spectator and recording | `scripts/run_week10_live_training.py` | what the camera is believed to follow, a recording session | follow, synchronise, record, restore | observations, RCON, the screen recorder |
| Skill settlement | `backend:training/live_runner.py` `_finalize_skill_updates`, `_update_skill` | what `record_success` returned per run | failure pass, success pass, create / deduplicate / promote / mark | the two stores below |
| Lessons (learning candidates) | `backend:skills/learning.py`, `backend:skills/creation.py` | a table row per failure signature: status, evidence | classify, record_failure, record_success, mark_promoted | settlement of any job |
| Skill library and review | `backend:skills/`, `backend:api/routes/dashboard.py` | versioned skill rows, tombstones, bundles | seed, create_candidate, find_duplicates, promote, deprecate, delete, edit, export, import | settlement, reviewers |
| Execution loop, action repair | `backend:harness/` | step counter, retry counters, plan revisions, checkpoint | run, resume, stop checks, repair | model router, worker client, recorder |
| Context of a run | `backend:harness/context_*.py`, `backend:knowledge/` | trajectory, knowledge ledger, skill ledger, memory facts, a cache, a part of the checkpoint | build a prompt, compress, look up, resume | loop, knowledge corpus |
| Evidence told to the model | `backend:harness/state_summary.py` and around it | first, previous and present observation | summarise, goal progress, action evidence | loop, worker |
| Model router | `backend:models/` | retry counters | generate | execution loop |
| Run recorder | `backend:harness/persistent_recorder.py` | a row per run with a status, steps, rounds, reviews, events | record(event) | execution loop, scheduler, evaluators, review queue |
| Threat pause | `backend:runtime/threat_pause.py` | a belief whether the server is frozen | reset, observe, act, close around the toggle command `tick freeze` | the game server, other wrappers |
| Mineflayer client | `backend:runtime/mineflayer_client.py` | a connection, a map of pending futures, a receive task | call, act with timeout and probe, close | the worker |
| Mineflayer worker | `worker:` | one bot, a combat tracker, a persistent follow session | reset, observe, act, health | the client, the game |
| RCON executor, task reset | `backend:runtime/server_commands.py` | one TCP connection per batch, a biome cache | execute_many, locate, teleport, set up | threat pause, task setup |
| Quick-start launcher | `backend:launcher/service.py` | a map of jobs, a preparation thread, a child process, a watcher thread | start, cancel, status | the operating system |
| Week 9 runner | `backend:training/runner.py` | an in-memory or Redis queue, request states | run, worker | recorder |
| Prompt configuration | `backend:configuration/service.py` | override rows with a version, seeded chunks | put, reset, seed, pin | editors, runs |
| Progress monitor, evaluation | `backend:evaluation/` | a ring of frames, a bounded queue, a scorer process | sample, queue, score, cut windows, verify | execution loop, recorder |
| Scripted benchmark | `backend:evaluation/benchmark.py`, `backend:evaluation/verifiers.py` | a simulated world | act, verify | none |
| History import | `backend:db/history_import.py` | a transaction over the shared database | select, derive rounds, add | audit databases |
| Dashboard queries, frontend, packaging | `backend:api/routes/`, `frontend/`, `scripts/handoff` | none of their own | reads, presentation | the database |

### What is hard about it

* **Concurrency inside a wave.** Retries are put back on the queue that other
  workers are draining and that the main task is joining. The join counts
  `task_done` calls and looks at nothing else.
* **Lost processes.** A batch takes hours. The checkpoint knows whole waves, the
  database knows every transaction, memory knows nothing after a restart. A
  resumed batch settles every run again; a resumed run repeats steps.
* **Several writers of the same tables.** Batches run side by side against one
  database, and reviewers promote, deprecate and delete while they do. Checks
  and the writes that rely on them are separate transactions.
* **One status, many writers.** The loop, the runner, the evaluator and the
  reviewer all set the status of a run.
* **Limits that overlap.** Three retry limits apply to different ways an attempt
  may end, three more inside a step.
* **Toggles and beliefs.** One command both freezes and unfreezes the server;
  the response can be lost.
* **Threads and child processes.** The launcher's status is written by three
  threads; a worker process is a group of two.
* **Late answers, late bodies.** An action or a server command that timed out
  may still take effect, or still answer; the body of an action goes on after
  the worker's own time limit has answered for it.
* **Things that are told.** Progress, evidence and confirmed kills are derived
  from observations of different moments.

### What makes each part correct

| part | properties |
|---|---|
| selection, launch | quotas are proportional and full; waves keep similar tasks apart; parallel workers share no server, port or name; what was started is stopped |
| scheduler | the join returns exactly when no request can come back; a task never has two requests at once; a retry follows only an ending that policy repeats; no task of a wave is forgotten; the job reports |
| checkpoint | it names whole waves, never moves back, and all attempts it names saw the same skills |
| spectator | the camera is where it is believed to be; the client is given back |
| settlement | nothing is settled before the barrier; settling again changes no count, makes no second candidate; a lost job loses no candidate and no mark |
| lessons | support and recoveries are counts of distinct runs; a lesson is validated and promoted only on evidence; it never loses a status it earned |
| library | at most one live candidate per run; jobs never promote two similar skills; the reviewer has the last word, also over seeding and imports |
| loop, recorder | the rows agree with the outcome; rounds are closed and complete; retries are bounded; a late decision stands; the attempt ends |
| context | evidence reaches the model once and is of the present run; the cache is current |
| evidence | what is told is true of the observations it speaks of; a kill is of something the bot fought |
| threat pause | belief and world agree, or the wrapper knows that they may not; nothing but safe actions while frozen; the server is not left frozen |
| client and worker | an answer reaches the call it belongs to; one action at a time per bot; a follow is real; kills and hits are told and meant |
| RCON, reset | a result is of its own command; a task that is ready was set up |
| week 9 queue | every worker gets its stop item; the report is complete |
| launcher | at most one task process; a cancelled job ends cancelled; every job ends |
| prompt configuration | an editor never overwrites what it has not seen; a pinned run keeps its prompt |
| monitor, evaluation | feedback is of the task and shows the action; only sound videos are scored; success is earned |
| history import | finished runs arrive whole; a round tells the worst that happened in it |

## 2. Modules and runs

Parameters are CONSTANTS with named assumptions and one action stands for one
operation. The modules with proofs use no RECURSIVE operator.

| module | models | checked by | proofs |
|---|---|---|---|
| `TrainingJob` | abstract: what a job promises | `ImplementsJob` of `live_crash` | |
| `LiveTraining` | scheduler, checkpoint, report | `live_crash`, `live_report`, `live_hang` | `LiveTrainingProofs` |
| `SkillSettlement` | the step `Settle` of `LiveTraining` as transactions | `settle_pair` | `SkillSettlementProofs` |
| `ThreatPause` | wrappers, their servers, the commands on the wire | `pause_pool`, `pause_closed` | `ThreatPauseProofs` |
| `QuickStart` | jobs, threads, task processes, server | `quick_jobs` | `QuickStartProofs` |
| `AgentRun`, `RunRecords` | one attempt, and the rows its events write | `agent_steps`, `agent_review` | `AgentRunProofs` |
| `PromptConfiguration`, `ServerCommands`, `MineflayerRpc`, `TrainingQueue`, `ScriptedBenchmark`, `HistoryImport`, `ContextMemory`, `BotActions` | see section 8 | `services` | `MineflayerRpcProofs`, `Services` |
| `CreativeProgress`, `CreativeEvaluation`, `Spectator`, `TaskSelection`, `LiveLaunch`, `SkillAuthoring`, `SkillCatalogue`, `TaskEvidence` | see section 9 | `studio`, `catalogue_import` | `Studio` |
| `Subsequences` | the part of a sequence that a condition leaves, sorting and sums, said without recursion; used by `SkillAuthoring`, `SkillCatalogue` and `TaskSelection` | with them | with them |

How they fit together: `TaskSelection` yields the waves that are the constant
`Waves` of `LiveTraining`, `LiveLaunch` the workers; an attempt, one step
`Finish(w, ending)` there, is a whole `AgentRun`; each action of `AgentRun` is a
request of `MineflayerRpc`, and what the worker does with it is `BotActions`;
the freeze around an action is `ThreatPause`, the reset before it
`ServerCommands`. `ContextMemory` and `TaskEvidence` are what the model is shown
in a turn of `AgentRun`. The gates that `SkillSettlement` takes as constants are
computed in `SkillAuthoring`, and `SkillCatalogue` follows the rows it writes.

What would come next are proofs of the parts of `services` and `studio` that
section 10 names as only model-checked.

## 3. `LiveTraining` and `TrainingJob`

### State and code

| variable | code |
|---|---|
| `main` | where `LiveTrainingRunner.run` is: `next` (loop head of the waves), `join` (`await queue.join()`), `gather` (`await asyncio.gather(*workers)`), `settle`, `saved`, `reported`; `down` when there is no process |
| `wave`, `attempts` | number of completed waves, `attempt_outcomes` |
| `snapshot` | revision of the skill and learning snapshots captured at the start of the process |
| `queue`, `unfinished` | the wave's `asyncio.Queue` and its unfinished-task counter |
| `pc[w]`, `held[w]` | where `_worker_loop` of worker `w` is suspended, and the request it took last |
| `results` | the outcomes in the lists of the worker loops |
| `todo`, `settled` | attempts `_finalize_skill_updates` has still to visit, and attempts whose updates are committed |
| `checkpoint`, `report` | the two files of the script |
| `library` | contents of the skill and learning tables, seen as a revision |
| `crashes`, `foreign` | counters of the bounds `MaxCrashes`, `MaxForeignWrites` |

A step is what runs between two suspension points of the event loop, so `Take`
is a `queue.get()` that hands over an item, `Requeue` is `put` followed by
`task_done` without a suspension in between, and `WaveEnds` is the return of
`gather` together with the checkpoint callback, which is synchronous.

`Finish(w, ending)` is a whole attempt; its inside is `AgentRun`. The endings are the
statuses `_outcome` can produce, with `runtime_error` split by the two tests the
retry policy makes: does the failure class ask for recovery, does the message
hold a non-retryable marker.

`WorkerDies` is an exception raised by `recorder.record` inside the handler that
is meant to catch the failures of the attempt, or in the audit of a recovery or a
requeue: the task ends, the `finally` still calls `task_done`.

`LoseProcess` is a kill, a cancellation or an exception that leaves `run`. The
operator resumes with the checkpoint: `Launch` is both a first start and a
resume, and refuses a checkpoint taken with another snapshot unless only
settling is left. A start without `--resume` ignores an existing checkpoint and
is a batch of its own; it is not modelled. `ForeignWrite` is any other user of
the tables.

Simplifications: seeding of initial skills is part of the initial `library`;
two table contents are told apart only by their revision; the start of the
workers and their MC server are assumed to succeed.

`TrainingJob` is the promise to whoever starts a batch: verdicts are recorded
one whole wave at a time and never changed, skills are touched only after the
last, and the published report is the recorded verdicts. `ImplementsJob` checks
it under the mapping at the end of `LiveTraining`, from files and tables alone.

### Runs

* `live_crash` — two waves (`t1 t2`, then `t3`), two workers, one retry of each
  kind, three endings (success, plain failure, worker unresponsive), one lost
  process, one foreign write between two revisions, dying workers. Two tasks on
  two workers are enough for a retry to be taken by the other worker, for a
  worker to die while the other holds a request, and for the sentinels to be
  taken by either; the second wave is there for checkpoints, resumes and the
  barrier. Task order is reversed against wave order so that sorting matters.
  Four properties and a refinement: `BarrierHolds` (the join's counter is the
  queue plus the holders; one process works with one snapshot; skills are
  untouched before the last wave), `AttemptsAreSound` (one request per task, each
  retry after an ending that policy repeats and within its limit, no task of a
  wave forgotten, whole waves in the checkpoint, a complete report),
  `DurableIsFinal` (what a file says stays said) and `ImplementsJob`. 427,676
  states.
* `live_report` — `JobReports` under `FairSpec` when recording never raises, with
  model timeouts and unresponsive workers retried and everything else not.
* `live_hang` — the same property when recording may raise. Both worker tasks
  die while a third request is queued; `queue.join()` then waits for a
  `task_done` nobody will call. The exceptions would be noticed by `gather`,
  which is not reached.

Seen in the runs, without a property: a process resumed with all waves complete
takes a new snapshot, which already holds skills the batch itself promoted, and
writes its revision into the closed checkpoint and the report.

### Fairness

`WF_vars(MainStep)` and `WF_vars(WorkerStep(w))`: the event loop runs every
ready task, attempts are bounded by the task timeout, recoveries and delays by
timeouts of their own. No fairness on `WorkerDies`, `Crash`, `ForeignWrite`. The
fairness of `Launch`, a disjunct of `MainStep`, stands for the operator who
resumes a lost batch; the code does not do that by itself, so `JobReports` says
"provided that lost batches are resumed". Weak fairness on the disjunction of
main is enough because at most one of its disjuncts is enabled in any state that
can last.

### Proofs (`LiveTrainingProofs`)

Assumptions: `WavesAssumption` (what `_normalized_task_waves` leaves: no empty
wave, no task twice) and `ConfigAssumption` (naturals, and a fresh
`NoRevision`).

* `TypeCorrect`, `QueueIsAccounted`. The inductive invariant is
  `TypedWave == TypeOK /\ WaveShape /\ QueueAccounting`. `TypeOK` alone is not
  inductive: `unfinished - 1` is a natural only because the counter is the queue
  plus the holders, and `CurrentWave` is defined only because `main` is in
  `join` or `gather` before the last wave.
* `SnapshotIsPinned`, `SkillsWaitForBarrier`, `DurableStateIsFinal` rest on
  `FilesAgree`, which relates memory and files: what a process knows is what the
  checkpoint says, plus the wave that is running; nothing is settled before the
  last wave; a report is the final outcomes of the checkpoint. From it each step
  that rewrites a file writes a superset of what was there, and a rewritten
  report is equal.

* `BarrierStands` puts the three invariants of `BarrierHolds` together.
* `AttemptsStaySound` proves `AttemptsAreSound`. Its inductive invariant is
  `AttemptsInv == TypedWave /\ FilesAgree /\ InFlight /\ RecordsAgree`.
  `InFlight` is about memory: everything queued, held or recorded belongs to the
  running wave; after `join` only sentinels are left; a request that may start
  repeats no attempt that ended and follows an outcome that policy repeats
  (`MayStart`), one that waits for its recovery or delay has such an outcome
  itself (`MayRepeat`). The second is what `Requeue` turns into the first.
  `RecordsAgree` is about the files: the checkpoint has the same history of
  retries and is whole waves, and what settling has done and has still to do are
  all attempts. That no task is forgotten needs both: a task of the wave is
  queued, held, or has an outcome that is final, and `join` returns only when
  nothing is queued or held but sentinels.
* `RunnerImplementsJob` proves `ImplementsJob`, the refinement of `TrainingJob`,
  from the same invariant, step by step: `WaveEnds` is `RecordWave`, the first
  attempt settled is `StartSettling`, the first report is `Publish`, and every
  other step, crashes and foreign writes included, leaves what the job promises
  as it was (`DurableStutter`).

Only `JobReports`, which is liveness, rests on TLC alone.

## 4. `SkillSettlement`

### State and code

| variable | code |
|---|---|
| `lessons` | table of learning candidates by signature: status, `support_count`, source runs, recovery count, recovery runs, runs whose knowledge references were merged |
| `skills` | skill rows: source run, version, status (`deleted` is the tombstone), and who promoted it |
| `pc[j]`, `rest[j]` | the transaction job `j` commits next, and the runs its current pass has still to visit |
| `learned[j]` | what `record_success` returned for each run, kept in memory for `_update_skill` |
| `version[j]` | version of the candidate in hand |

`_finalize_skill_updates` makes three passes over the outcomes: `RecordFailure`
for those that did not succeed, `RecordSuccess` for those that did, and
`_update_skill` for those that did (`ReadForCreate`, `Insert`, `Dedup`,
`Promote`, `MarkPromoted`). `PassOver` is the `continue` at the head of each
loop, `NextPass` the end of a loop. A step is one database transaction, except
that `create_candidate` is two: `_next_version` reads without a lock, so that the
insert may meet a version taken meanwhile; the unique constraint then fails the
update of this run (`Insert`, first branch). `UpdateFails` is any other exception
inside `_update_skill`, which is recorded and skipped. `Crash` loses the memory;
`Start` begins again with all runs of the checkpoint, as the code does.

`Review` is a request on the dashboard: it locks the row, reads it again and
promotes, deprecates or deletes it.

Data abstracted away: what a trajectory contains is given by constants
(`Failure[r]`, `Recovers[r]`, `Informed`, `Progress`, `Worthy`, `Name[r]`). Two
skills are similar when they have the same name, which the scorer gives at least
0.9; the default threshold is lower, so similarity of differently named skills
only makes more candidates remain drafts. Editing a skill's specification,
ranking and export are not modelled. Row locks live inside one transaction and
are not visible; lock order between transactions is listed as a hazard.

Run ids carry a random suffix, so a wave that is run again after a crash has new
runs; `Batch[j]` is the list of the checkpoint and does not change between
starts.

### Runs

* `settle_pair` — two jobs, each with one failed and one successful run; both
  successes recover from the same failure and derive the same skill name, one is
  accepted by policy and the other only because it recovered; two crashes, one
  failing update, two reviewer actions, at any point. That is what two jobs need
  to race for a version, to check for duplicates before either promotes, and for
  a reviewer to act between check and promotion. 385,527 states.
  `EvidenceIsEarned` (evidence counted once, lessons earned),
  `CandidatesAreSound` (one candidate per run, no twins promoted),
  `VerdictsStand` (the reviewer's verdict stands, no lesson loses its status),
  and `SettlingIsComplete`: a job that was not interrupted leaves every recovery
  with its candidate and marks every lesson that a promoted skill stands for.

`SettlingIsComplete` excepts interrupted jobs, since for those it is false. After
a crash between the updates of two runs that recovered the same lesson, the first
has promoted it; the resumed `record_success` selects only lessons that are not
promoted, returns nothing for the second run, and the creation policy skips the
candidate which the uninterrupted job creates. And after a crash between
`promote` and `mark_promoted` the resumed `_update_skill` returns early for a
promoted skill, so the lesson stays validated. Deadlock checking is off because
the jobs end.

What the run also showed, without a property: two jobs that add similar drafts
at the same time see each other in the duplicate check and neither is promoted.
That is safe, and a reviewer can still promote one.

### Proofs (`SkillSettlementProofs`)

For any number of jobs, batches, lessons, names and bounds. The assumption is
`RunsAssumption`: batches are sequences of runs, no run is in two batches or
twice in one, and the constants have their types. Every property of
`settle_pair` is a theorem; `EvidenceHolds`,
`CandidatesHold` and `VerdictsHold` put together what the others prove:

| theorem | property | rests on |
|---|---|---|
| `TypeCorrect` | `TypeOK` | `TypedTables`: versions in the table are bounded, so that the `CHOOSE` of `NextVersion` has a greatest element (proved from well-foundedness of the naturals), and a version about to be inserted is positive |
| `EvidenceIsCountedOnce` | `EvidenceCountedOnce` | `AllCounted`: the sets of runs are finite and counted by the counters |
| `OneCandidate` | `OneCandidatePerRun` | `RowsInv` |
| `NoTwins` | `NoTwinsPromoted` | `RowsInv`, `OneCleared` |
| `ReviewHolds` | `ReviewStep`, of every step | how a step may change a row (`SkillsSteps`) |
| `LessonsKeepStatus` | `LessonStep`, of every step | how a step may change the lessons (`LessonsSteps`) |
| `LessonsStayEarned` | `LessonsAreEarned` | `EarnedInv`, `RowsInv` |
| `SettlingCompletes` | `SettlingIsComplete` | `CompleteInv`, `EarnedInv`, `RowsInv` |

`RowsInv`: name and version identify a row (`KeysUnique`); a job between insert
and mark has a row of its run in hand (`RowInHand`); what it has still to visit
are runs of its own batch (`OwnRuns`), which no other job visits; hence between
its read and its insert nobody adds a row for its run (`NotYetWritten`).

`OneCleared`: of all rows of one name at most one is *cleared*, that is promoted
by a job or, still live, about to be promoted by a job whose duplicate check
came out empty. A check clears a row only when it is the only live row of its
name, and a new draft is not cleared; so although check and promotion are
separate transactions, of two jobs the later check sees the draft of the other.
This is why the order "insert, then look for duplicates" matters; the mutant that
compares with promoted skills only breaks it.

`EarnedInv`: what `record_success` returned is in the lesson's recoveries, and a
job marks lessons only after the skill of its run was promoted.

`CompleteInv` speaks of states before any crash or failed update. What is in a
lesson's recoveries, the job of that run still remembers (`Remembered`), because
it learned it in its one pass over the successes, which visits each run once. In
the last pass a run that taught something and has been visited has its skill
(`TaughtHasSkill`): if the insert met a version that was taken, then by a job of
another batch, whose skill of the same name counts (`TakenByOthers`). A job that
has promoted a skill has marked its lessons or is about to (`MarkFollows`).

## 5. `ThreatPause`

### State and code

| variable | code |
|---|---|
| `frozen[s]` | whether the world of server `s` stands still (Carpet's `tick freeze`) |
| `paused[w]` | `_paused` of the wrapper in the attempt of worker `w` |
| `pc[w]`, `steps[w]`, `attempt[w]` | where the attempt of `w` is, `step_index`, attempts started |
| `wire[w]` | the command of `w` in flight, or its answer |
| `late[w]` | commands the client has given up and the server will still execute |
| `faults[w]` | counter of the bound `MaxFaults` |
| `known[w]` | the wrapper has, or is about to have, the answer of the last toggle; bookkeeping |

The code never asks the server for its state. It sends the one toggle command on
the strength of `_paused` and takes the new belief from the text of the answer, or
from its intention when the text says nothing. `Send` is the part of
`_maybe_pause` and `_unfreeze` up to `execute_many`, `Toggle` its execution by
the server, `Answered` the assignment after it. Whether an observation shows a
threat is a free choice, so is which action the model asks for; actions are told
apart only by membership in `FROZEN_SAFE_ACTIONS`. `Poll` is the observation
inside the wait for a follow to arrive, `Verify` the one that verification makes
after the loop.

Disturbances: the connection gives up and the command is executed late, not at
all, or without an answer (`GiveUp`, `LateToggle`); the wrapper sees a failed
command (`CommandFails`), or its attempt is cancelled by the time limit while the
command is in flight (`Cancelled`). `Killed` is the end of the process.

### Runs

* `pause_pool` — two workers, each with its own server, two attempts of two steps,
  one disturbance. Two attempts are needed for what the first leaves behind to
  meet the second. `BeliefHolds` is two invariants: belief and world agree for
  wrappers whose last toggle was answered, disturbed earlier or not, and a toggle
  does what it is sent for, for workers no command of which was disturbed (`Calm`),
  next to a worker that is. `WorldTicks` (an undisturbed world runs between attempts and
  while unsafe actions are executed) and `FreezeEnds` are of calm workers too.
  320,170 states.
* `pause_closed` — after a cancelled freeze an attempt leaves a frozen world:
  `_paused` is assigned after the command, `close` looks at `_paused`.

The same belief gone wrong has a second effect, not stated as a property: after a
lost answer the command sent to unfreeze freezes; the wrapper reads so in the
answer, and `act` executes the action all the same.

Fairness is weak, on the steps of every worker: RCON calls have timeouts, the
loop has a step budget. No fairness on disturbances. Deadlock checking is off
because attempts run out.

### Proofs (`ThreatPauseProofs`)

`TypeCorrect` for every pool. `BeliefIsRight`, `TogglesMatch` (together
`BeliefStands`) and `WorldRuns` assume `Isolated`, one server per worker, which `_validate_parallel_placement`
enforces unless `--allow-shared-server-workers` is given. The inductive invariant
relates, for every worker whose server is known, the belief, the world and the
stage of the command in flight: before execution belief and world agree, after it
they differ until the answer is read. `FreezeEnds` is liveness and stays with TLC.

## 6. `QuickStart`

### State and code

| variable | code |
|---|---|
| `status[j]`, `cancelled[j]`, `started[j]`, `process[j]` | `status`, `cancel_event`, `server_started_by_job` and whether `process` is set, of a `LaunchJob`; `new` is a job nobody has asked for, `lost` one the restarted backend does not know |
| `thread[j]` | where the preparation thread or the watcher of the job is |
| `killer` | jobs with a `cancel_job` that has left the lock and will call `killpg` |
| `child[j]`, `signalled[j]` | the task process, its return code, whether it was sent SIGTERM |
| `server`, `pid` | the Minecraft server at the configured address, and whether `server.pid` names a live process |
| `disturbed`, `restarts` | jobs hit by an error or a restart, number of restarts; bookkeeping |

A step lies between two points at which another thread may interfere: a lock, a
test of the cancel event, a call that takes time. `Announce` writes the status
whatever it has become in the meantime, as `_set_job_status` does; `Publish` tests
the event again under the lock; `Cancel` reads the process under the lock and
`KillGroup` signals it after. `Kill` and `Reap` are the path of a process created
after the request; its SIGKILL after ten seconds is the same `signalled`.

`Fault` collects errors that are no ordinary outcome of a step: the status
document or the log cannot be written, a thread cannot be started, the start
script fails after it has started the server. An error of that kind in any other
preparation step goes to the cleanup, as `Abandon` does. `Restart` ends the
backend: threads are daemons and die, `_jobs` is in memory, task processes and
server have sessions of their own and go on.

Not modelled: preflight (its answers may be stale when the job is reserved, so
`Reserve` picks any initial status), a server that crashes by itself once up, and
what the task process does.

`docs/dashboard-portal-and-quick-start.zh.md:22` says that Quick Start does not
start the server; the code does, when it is local and not running.

### Runs

* `quick_jobs` — two jobs, `StopsServer`, one error, one restart, cancel requests
  at every point. Two jobs are enough for the race of reservations and for a job
  that meets the server and the late signals of an earlier one. `JobsAreSound`
  (one task process, a cancel request reaches it, the verdict is true, no server
  is left behind) and `NothingIsUndone` (a final verdict is final, the server
  outlives its task) speak of jobs no error or restart has disturbed, and so
  does `JobEnds`. 139,376 states.

For disturbed jobs they are false, and the model gets there: after a restart the
old task process is alive when the next one is started, although the class
promises one at a time; after an error behind `Popen` the job is failed, its
process runs, `job.process` is None and nothing can signal it any more.

Without any error a job may say "managed resources were cleaned up" while its
server is still going down: the stop script sends SIGTERM, removes `server.pid`
and returns. The next job may take the dying server for somebody else's and then
runs into its deadlines; `EnsureServer` and `Ready` include that.

Fairness is weak, on the threads, on `KillGroup` and on `ChildExits`: every wait
of the preparation has a deadline, and a task process has a limit of its own
(`--max-runtime-sec`). None on cancel requests, errors or restarts. Deadlock
checking is off because both jobs end.

### Proofs (`QuickStartProofs`)

For any number of jobs, errors and restarts; `LaunchAssumption` only types the
constants. The inductive invariant `Launcher` has four parts: `TypeOK`; `Steady`,
which holds of every job (a job that is not active has no thread, a cancelling one
has its event set); `Coupled`, which holds of undisturbed jobs and ties thread,
process, event, signal and verdict together; and `Reserved`, at most one job is
active. `OnlyOwn` says that a step of one job leaves the others alone, so that
each action is looked at for its own job only.

| theorem | property | argument |
|---|---|---|
| `OneProcess` | `OneTaskProcess` | a live process belongs to an active job (`Coupled`, `Steady`), of which there is one (`Reserved`) |
| `CancelArrives` | `CancelReachesChild` | a part of `Coupled`; it needs that a thread on the way to kill was cancelled |
| `TrueVerdict` | `VerdictIsTrue` | parts of `Coupled` and `Steady` |
| `VerdictIsFinal` | `DoneStep`, of every step | a job that is done has no thread, and cancel requests look at the status under the lock (`IdleKeeps`) |
| `ServerStays` | `ServerStep`, of every step | only cleanup stops the server, its job is the active one, and its own process is gone |
| `NothingLeft` | `NoServerLeft` | `Owned`: while `server.pid` names a process, some job has started it and has its cleanup before it |
| `SoundJobs` | `JobsAreSound` | `OneProcess`, `CancelArrives`, `TrueVerdict`, `NothingLeft` |
| `NothingUndone` | `NothingIsUndone` | `VerdictIsFinal`, `ServerStays` |

`JobEnds` is liveness and stays with TLC.

## 7. `AgentRun` and `RunRecords`

### State and code

`AgentRun` is one attempt: `LiveTrainingRunner._run_one` with the
`ExecutionLoop` inside. `pc` says at which await it is, `step` and `retry` are
the step and the three nested counters (repair of a decision, timeouts of the
model, transient errors of the provider), `stop`, `raised` and `outcome` how loop
and runner ended, `checkpoint` the step stored for a resume. `rows` is what the
audit tables hold for the run. `RunRecords` is `PersistentEvaluationRecorder.record` as a
function from rows and an event to rows: which event sets which status, opens or
closes a round (`spans`), adds a step or a review. Every action of `AgentRun`
applies it to the events that code records at that point, in their order.

The inputs are what a model call, the worker, the verifier and the evaluator can
answer, told apart by what loop and runner do with them. `TimeLimit` and `Cancel`
raise at any await; `Lose` is the loss of the process, after which the guard of
the script closes the run (`Guard`) or a new process takes it up at its
checkpoint (`Resume`). `Evaluate` and `Advise` are the creative evaluation of
week 11 on a finished run, `Review` the decision of a person on the dashboard.

### Runs

* `agent_steps` — three kinds of task (checked at every step, judged by an
  external evaluation, neither; with and without a planner and a
  fallback model), three rounds, a checkpoint every second step, one
  repair, one repeated timeout, two transient errors, one revision of the plan,
  one loss. Three rounds are needed for a step that is executed again although it
  has rows, a step before it that must not be, and one after it. 229,916 states.
  `RecordsTellTheRun`: the status tells the outcome unless a reviewer decided
  first; no round of an ended attempt is shown as active; the rows of the steps
  have no gap and no step behind the checkpoint is executed twice; nested retries
  stay within their product. `LateDecisionStands`: what a reviewer decides after
  the attempt stays. `AttemptEnds`: the attempt ends or is lost.
* `agent_review` — `HumanDecisionStands` fails: the review row exists as soon as
  the finish request is accepted, and `run_finished` and the verifier's result
  overwrite the status that a decision taken in between has set.

Fairness is `WF_vars(Attempt)`: each of its steps is bounded by a deadline of its
own or is computation. None on the time limit, cancellation, loss, guard, resume,
evaluation or review; so `AttemptEnds` does not rest on the task's time limit.
Deadlock checking is off because attempts end.

### Proofs (`AgentRunProofs`)

For every set of tasks, budget of steps, checkpoint interval, limit of retries and
revisions, and number of losses. Assumptions: `StepsAssumption` (the budget is
positive) and `BoundsAssumption` (the limits are naturals).

| theorem | property | argument |
|---|---|---|
| `AttemptStaysTyped` | `TypeOK` | `RunInv` |
| `RecordsTell` | `RecordsTellTheRun` | `RunInv`, of which each conjunct of the property is a consequence |
| `DecisionStands` | `LateDecisionStands`, of every step | after the attempt only `Evaluate`, `Advise` and `Review` record anything, and the first two keep a decided status |

The inductive invariant `RunInv` is `TypeOK` and five parts. `Placed`: a step that
is begun is within the budget, an evaluation comes after the end and on a row.
`RowsBegun`: rows without a status are empty, and only runs that ask for an
evaluation have a review. `HistoryKept`: the rows of the steps have no gap, all
steps before the present one and before the checkpoint have rows, and a step that
has no result yet is not behind the checkpoint. `RetriesCounted`: the calls of a
step are bounded by the present values of the three counters, of which a repair
resets two and a timeout one; `RetriesBounded` follows from the limits.
`EndTells`: from the last event of the loop on, rounds are closed and the status
is one the outcome allows, unless a reviewer decided.

Status and rounds need the extra parts because the ending is several events: between
`run_finished` and the verifier's result the status is not yet what the outcome
says, only no operational end any more.

`RecordAll` folds over the events of an action. Induction over data is out of the
prover's reach, but no action records more than two events, so `FoldOfTwo` unrolls
the fold once and for all. The proof then goes from one event (`Recorded`) over
one action (`RowsMove`: rows stay as they are, a step is added, a round is opened,
or a status is decided) to the parts of `RunInv`.

## 8. The run `services`

Eight modules that never interact in one state are checked in one run: the
initial state of `Services` chooses a part, the variables of the other parts
stay 0, and each property is that of one part, conjoined with its type invariant.
The parts share names of variables and nothing else. `Services` has the
parameters of all eight as constants, with a prefix where two names
meet, `MCServices` extends it with small values for them, and `Services_parts.cfg`
assigns these. 1,310,983 states. Deadlock
checking is off because every part is bounded by counters.

| part | module, and code it models | bounds | properties |
|---|---|---|---|
| `prompts` | `PromptConfiguration`: versioned put, insert, reset, seeding by editors; the snapshot a run pins | two editors, the system prompt, `hot_reload` and one chunk, two edits, two turns, one lost process | an accepted save replaces the text its editor has seen; a pinned run keeps its prompt |
| `server` | `ServerCommands`: the RCON connection with read timeouts and leftover answers, batches, the task reset built from them | two tasks with different plans, two resets, one fault | a command reported as done was executed; a task that is ready finds the world its plan asks for |
| `worker` | `MineflayerRpc`: requests and answers on the socket, the receive loop, the action timeout with its probe, handlers that overlap in the worker, reset and close | two attempts, four requests, two faults | an answer is taken for its own request; no two actions on one bot; an attempt keeps its bot |
| `queue` | `TrainingQueue`: selection, in-memory and Redis queue with stop items, worker tasks, mirror of states, report | two tasks, two workers, two runs on one list, one fault | a stop item for every worker; a complete report |
| `benchmark` | `ScriptedBenchmark`: the simulated world and the programmatic verifiers | two worlds, 15 deeds, six steps | matter is neither made nor lost; what is verified was done |
| `history` | `HistoryImport`: choice of the best copy of a run, second reading, derived rounds, one transaction | two databases, two runs, five contents, two changes by running jobs, two imports | finished runs arrive whole; a round tells the worst of its rows |
| `context` | `ContextMemory`: trajectory, knowledge ledger, skill ledger, memory facts, compression, cache, checkpoint and resume | four steps, checkpoint every second, two segments, one edit of the corpus, one loss | executed steps reach the model; nothing is shown twice; no answer older than the corpus; facts are of the history that counts |
| `bot` | `BotActions`: the action handlers of the worker, the engagement round by round, follow, combat tracker | two mobs of one species, 12 requests, two actions | a registered follow is real; an idle bot stands still; kills are told; hits are meant |

Two of something is where these behaviours begin: two editors of one row, a
command given up before the next, an attempt that meets requests of the one
before, a run that meets the list of the one before, two copies of a run, an
action that meets the body of the one before. The budgets of `context` are chosen
so that every kind of compression and every eviction happens.

Some properties hold with exceptions only, which are part of them as ghost
variables or named cases, because the code really leads there:

* `PromptConfiguration`: deleting an override takes its version back to 0, and
  seeding writes without one, so an editor that loaded before may overwrite what
  it has not seen (`epoch`).
* `ServerCommands`: an abandoned command may be executed while the next reset
  runs (`late`).
* `MineflayerRpc`: a request of an attempt that is gone may be begun during the
  next one and act on its bot (`overtaken`).
* `TrainingQueue`: in Redis the list outlives a lost run (`clean`); the report is
  complete only if the list was empty at the start, stop items suffice always.
* `ContextMemory`: aggressive compression drops the second newest recent step,
  which is neither shown nor merged (`Lost`).
* `BotActions`: the body of an action goes on after the handler's time limit has
  answered. The end of a late engagement with a bow (the model chooses how long it
  is drawn) takes away the goal of a follow that stays registered as active, and a
  late `place_block` or `equip_item` changes the hand in the next engagement
  (`haunted`, `alone`). Also seen: the tracker counts kills by the name of the
  species, so an engagement asked for by entity id never reports
  `target_killed`; a follow that fails leaves the one before active.

`BotActions` receives a request only after the one before was answered, which
`MineflayerRpc` shows. Path finding, digging and windows are Mineflayer's, an
input here.

### Proofs (`MineflayerRpcProofs`, `Services`)

`WorkerStaysOwn` proves `WorkerIsOwn` for any numbers of attempts, requests and
faults, without an assumption on the constants. The inductive invariant `RpcInv`
says that the awaited request is the last one sent (`RequestIsLast`), that what is
on the wire carries no newer number (`NumbersTell`), that a waiting client has its
request in exactly one place, in the socket, in a handler or as an answer
(`WaitsAlone`), that one action at most is under way (`OneAction`), and that
handlers left behind by earlier attempts hold older bots (`OwnBot`). An answer that
comes late, after a timeout and its probe, is told from the awaited one by its
number alone, which is why the numbers are in the invariant.

`PromptsStaySound` proves `PromptsAreSound` for any editors, rows and turns. For
saves, `EditingInv` says what an editor knows of its row (`LoadedRow`): in the same
epoch a row's version only grows, and the version it has loaded still has the text
it has loaded; a save that finds this version therefore overwrites what was seen.
For runs, `PinningInv` says that the turns a process has pinned show the snapshot
that it still holds. `WorkerStaysTyped` and `PromptsStayTyped` are the type
invariants, for bounds that are naturals.

`QueueServes` proves `QueueIsServed` for any finite manifest, number of workers, of
runs and of faults. `QueueAssumption` asks for at least one worker, which the
configuration checks, and that no task id is taken for a stop item. The inductive
invariant `QueueInv` has two halves. For every run, also one that finds a list of
an earlier run in Redis, `QueueFilled` and `QueueWorked` count: there are at least
as many stop items in the list as workers that have not returned, since as many
are appended as workers will start, and a worker that takes one returns. For a run
that began with an empty list, `QueueOrdered` says that the list is the end of what
was sent and how many workers have returned, `QueueApart` that each request taken
from it is with one worker or in one outcome and in no second place, `QueueKept`
that the status in an outcome is what the queue shows for the task and, as soon as
the outcome is added, what Redis shows. When all workers have returned no stop item
is left, so the list is empty, so every request was taken, so each is in an outcome.

`ResetServes` proves `ResetIsSound` for any reset plans, any configuration of resets
and any number of faults; `ResetAssumption` only says which fields they have and of
which type. The invariant `ResetInv` has two parts beside the types. `ResetLinked`:
an answer that is not a refusal tells of a command that was executed, and while every
answer of a batch was good the server has at most the one command that is waited for,
or has answered it, so that the server is never ahead of the batch by more than one.
`ResetStaged`: unless a command given up earlier was executed (`late`), the world is
at the stage of the plan that the executed commands have reached. What a stage is,
`Staged(t, n, w)`, is said by position and not by folding over the commands, which
would need induction over data: what the first `n` commands have put right, how many
items, blocks and mobs are there, and where. The lemmas before it say what stands at
every position of a plan (`SetUpIs`, `PlanIs`, `TaskPlanIs`), and `StageGoesOn` that
the next command leads from one stage to the next. It needs the order of the plan: a
spread must not follow the teleport to the start position, the inventory is cleared
before the items are given, owned mobs are killed before the new ones are summoned,
and blocks and mobs come after the bot has been moved, since they are put where it
stands. The last stage is the world of `ReadyMeansPlanned` (`StageReached`).

`ActionsServe` proves `ActionsAreSound` for any mobs, species, items, requests and
numbers of actions; `BotAssumption` says which fields and types of action a request
has. The invariant `BotInv` says which stage belongs to which handler (`StageFits`),
that an engagement which has hit keeps its target (`HitsFit`), and that whoever set
the goal, digs or has a furnace open is still there, at a stage whose end takes it
back (`GoalIsHeld`, `DigIsHeld`, `WindowsAreHeld`): that is why the bot stands still
when nothing runs. `LateAreKnown` names the late bodies among those that haunt the
present action, and `HandIsHeld` follows from it: an engagement that nothing haunts
holds what it has equipped.

`BenchmarkServes` proves `BenchmarkIsSound` of every world and script. The
invariant keeps a ledger per item: what is held and what went are what was there and
what came (`StockIsExplained`), and every block was there or has left the inventory
(`BlocksAreExplained`), so that a verifier which finds a block placed or a mob gone has
found what was done (`ResultIsTrue`). Matter is a count of places, of a list of blocks
and of one of entities (`PiecesAreCounted`); a deed moves pieces from one term of the
sum to another. `BenchmarkAssumption` has one hypothesis about scripts: none fights the
entity "item". The simulator would kill a dropped item and drop nothing, and
then matter is lost; none of the scripts in the repository does it.

`HistoryServes` proves `ImportIsFaithful` for any finite set of numbered databases.
Between choice and reading the sources go on: a run may get rows, only a finished one
keeps what it had (`SourcesAreKept`). So what was chosen is the best of what was seen
(`Chosen`) and only of finished runs it is also what is fetched (`Fetched`); a round
of whatever was read tells the worst of its rows (`Tells`). The status of a round is a
running maximum over rows, in the code a loop and in the model a recursive function
over positions (`Touched`, `Aggregate`).

`ContextServes` proves `ContextIsSound` for a run of any length. The context is what
the steps so far have left: which steps the trajectory has (`Traced`), from which a
source (`Sourced`) and a fact (`Noted`) come, and how old an answer may be (`Learnt`);
the same holds of the context in the checkpoint and the steps it was taken at
(`CheckpointHolds`), which is all that a resumed run knows. That what was just done
reaches the model is a matter of the budget: the newest entry is kept whatever it
costs. `ContextAssumption` takes `recent_step_count` as positive: its default is 2,
nothing sets another, and with 0 the slice `[-0:]` would be all entries.

`Services` declares parameters and state of a part just before its proofs, which
stay small because they do not see the other parts, and composes all parts at its
end. Its part never changes, and while it is the present one its steps are those of
its module (`PromptsAlone`, `WorkerAlone`, `QueueAlone` and so on), so `PromptsHold`,
`ResetHolds`, `WorkerHolds`, `QueueHolds`, `ActionsHold`, `BenchmarkHolds`,
`HistoryHolds` and `ContextHolds` state the eight properties of the run `services`
themselves.

## 9. The run `studio`

Built like `services`; 2,011,042 states, and one `TypeOK` for all parts.

| part | module, and code it models | bounds | properties |
|---|---|---|---|
| `progress` | `CreativeProgress`: sampler, ring of frames, bounded queue, scorer of the progress monitor | clip of 2, ring of 3, one pending checkpoint, two tasks, two deeds, three frames | a scored window ends after the action; feedback is of the task, its trend of the checkpoint before |
| `evaluation` | `CreativeEvaluation`: validation of a recording, windows, scores, threshold, the managed scorer | six policies, 1, 5, 6 or 7 frames, six responses, one thing wrong | only sound videos are scored; windows cover the recording; a success is earned; the scorer is stopped |
| `spectator` | `Spectator`: the camera loop of the week 10 script and its recording session | two runs, four bodies, one retry | the camera is where it is believed to be; a recording starts attached; the client is given back |
| `tasks` | `TaskSelection`: similarity, quotas, batch, waves | up to four tasks of four kinds in two categories, requests with a repetition | quotas are proportional; the batch is as asked; waves keep similar tasks apart |
| `launch` | `LiveLaunch`: pool script, checks of the arguments, worker processes, restart and stop | two servers, two starts of the pool, one death, one restart | no second server in a directory, none left by a failed start; parallel runs have what they need; workers are stopped |
| `authoring` | `SkillAuthoring`: classification of failures, lessons, relevance, the creation policy, promotion and retrieval | two tasks, seven kinds of steps, up to four steps, two runs | self-defence stays out of skills; single-step skills are earned; stalls are repeated; a recovery follows its failure; one promoted skill per name, found again by its task |
| `catalogue` | `SkillCatalogue`: seeding, drafts, edits, deletion, export, import | four rows, four writes, one import | seeding keeps what operators did; edits build on what was seen; keys are unique and exports never refused |
| `evidence` | `TaskEvidence`: the state told to the model, goal progress, action evidence, verifier and confirmed kills | four tasks, two items, one mob, two steps, two events | told progress and evidence are true; kills are of mobs that were fought; what is accepted is there |

Exceptions, again because the code leads there:

* `Spectator`: an agent that dies between its observation and the command may
  leave the camera on the old body until the next observation (`before`); with
  `--recording-no-restore-spectator` the client counts as not restored.
* `LiveLaunch`: when npm alone has died, `_terminate_process` returns early and
  its Node child goes on (`alone`).
* `SkillCatalogue`: seeding is kept from an operator's row by a mark that an
  export drops. `CatalogueIsKept` speaks of libraries without imports; the run
  `catalogue_import` checks `SeedingNeverReversesEdits`, which a unit test states
  without that condition, and finds a deprecation reversed.

### Proofs (`Studio`)

`Studio` is laid out like `Services`: part by part its state, the assumption on its
constants, the inductive invariant, one lemma per action, a theorem about the module
(`EvidenceServes`, `LaunchServes`, ...), and at the end the composition, whose
theorems (`EvidenceHolds`, `LaunchHolds`, ...) state the properties of the run. Its
first lemmas are about finite sets of integers: one of naturals has a least and a
greatest element, and the places of one, in order, are numbered without a gap
(`PlacesInOrder`), which is what `Subsequences` is made of. They replace induction by
a smallest counterexample. The parts with the longest proofs come first: what the
prover has in view grows with each part.

| theorem | property | inductive invariant, and why the property alone is none |
|---|---|---|
| `EvidenceHolds` | `EvidenceIsTrue` | `EvidenceInv`: confirmed kills are no more than fought mobs that are dead (`KillsCounted`); what is told was computed from the present observation (`DecisionSeen`); results that quote an inventory quote the one at the end of the action (`ResultKnown`) |
| `LaunchHolds` | `LaunchIsSound` | `LaunchInv`: a live pid file and a server go together (`PoolKnown`), which is what the start script relies on; what `main()` has checked by each phase (`Checked`); a Node child has its npm unless npm alone was killed (`WorkersKnown`) |
| `SpectatorHolds` | `SpectatorIsSound` | `SpectatorInv`: a camera that is being attached was sent to a body at least as new as the observation that started it (`CameraKnows`); what the session knows of its own loop (`SessionKnows`) |
| `FeedbackHolds` | `FeedbackIsSound` | `FeedbackInv`: frames with a number two above that of the checkpoint were captured after its action, those in the sampler's hands included (`FramesFollow`); checkpoints are numbered as queued (`CheckpointsNumbered`); the score kept is that of the last scored one (`ScoresCompared`) |
| `EvaluationHolds` | `EvaluationIsSound` | `EvaluationInv`: windows are those of the recording (`WindowsSampled`), nothing has a result before its end (`ResultEarned`), a scorer of its own was started (`ScorerOwned`). `WindowsCover` is about the rounding of Python: indexes more than one apart never meet |
| `AuthoringHolds` | `AuthoringIsSound` | `AuthoringInv`: what a lesson and a skill say of themselves, their words included (`LessonEarned`, `SkillSound`); lessons proven in a run are of its task (`ProvenOfTask`) |
| `SelectionHolds` | `SelectionIsSound` | `SelectionInv`: a job goes through the stages its arguments ask for (`StagesFollow`); the quotas are those of the tasks (`QuotasKnown`); batches still to be made are of different tasks, large enough, and of one category each (`GroupsRemain`); what has been picked and what remains are the tasks of the batch, each once (`BatchGrows`); no task that is left, or in a later wave, fitted a wave that closed early (`WavesGrow`) |
| `TypesHold` | `TypeOK` | the eight invariants, which begin with the types |
| `CatalogueHolds` | `CatalogueIsKept`, of every step | `CatalogueInv`: without imports an operator's row is marked and a row that descends from a shipped skill has it as its origin (`RowsSound`); what the operator sees is the row or the row has a later stamp (`TabCurrent`); keys are unique in the table and in a bundle |

Quotas are the part that looks like induction over data: they are a sum over the
categories, and one that has to come to the size asked for. `TaskSelection` counts a
sum by its units (`Total`), so that it is the cardinality of a finite set, and what is
true of the sums over some categories and stays true with one more is true of them all,
since a largest set it is true of has nothing left out (`FiniteSetGrows`). So floors
are at most the exact shares, fewer places are left over than there are categories
with a remainder, and one round of the `while` loop fills them.

The assumptions on the constants say that bounds are naturals, that sets of tasks,
steps, servers and items are finite, and what records have which fields; the code
checks or builds all of that. Three theorems have a hypothesis of their own, because
without it they are false, and `MCStudio` assumes it of the instance that is checked
(`TheoremsApply`):

* `FeedbackHolds`: `Post >= 2`. The frame in the sampler's hands when an action ends
  may have been captured before it. `backend:evaluation/progress.py:41` accepts 0 and
  1 too; the default is 2.
* `CatalogueHolds`: no learned or given name is that of a shipped skill
  (`NamesAreTheirOwn`). A learned draft that an operator renames to one and a run then
  promotes loses its mark, and the next seeding writes over it.
* `AuthoringHolds`: names of entities are words of nothing else
  (`NamesAreOfOneSort`). The words of a skill are a set: the name of a mob that was
  fought off, say a "chicken", may be among them as the item another step has used.
  Only `SelfDefenceStaysOut` needs it; `AuthoringServes` proves the rest without.

Left out: `TaskEvidence` has verifier trees of depth one and no native
statistics, which the Mineflayer worker does not send; `CreativeEvaluation` takes
the answers of the neural scorer as inputs, `Spectator` those of the Windows
scripts behind camera and recorder.

## 10. Proved, and only model-checked

Proved for every value of the constants that the named assumptions allow: every
property of `live_crash`, `settle_pair`, `pause_pool`, `quick_jobs`, `agent_steps`,
`services` and `studio` that is no liveness property, the refinement `ImplementsJob`
among them.

Only model-checked: `JobReports`, `FreezeEnds`, `JobEnds` and `AttemptEnds`, since
liveness under fairness and ENABLED are out of the prover's reach.

The modules that theorems are about declare no RECURSIVE operator. Loops over lists
are said by what they return (`Subsequences`, `Place` in `CreativeEvaluation`, the
sums of `TaskSelection`), or as functions that recur over positions (`Used` in
`ContextMemory`, `Touched` in `HistoryImport`). What such a function returns is
proved without an induction rule, by the least position at which it would return
something else (`NaturalsHaveMinimum`, `NaturalsGrow`); where a fold remains, in
`RecordAll` of `AgentRun`, its lists have at most two members.

Proving changed the models in seven respects. A few `CASE` expressions had guards
that overlap, which TLC resolves by taking the first and TLA+ does not resolve at
all; their guards now exclude each other, as the `if ... elif` of the code does.
And the report of `TrainingQueue` keeps the lists that the workers return, instead
of joining them; the code joins and sorts them by the selection, which changes
where an outcome stands and not which outcomes there are. `ReadyMeansPlanned` of
`ServerCommands` was stated for the configuration of its run alone; it now says what
each switch of the configuration promises. `TypeOK` of `Spectator` had an implication
that swallowed the conjuncts after it, which the proof needed. `CreativeEvaluation`
sampled windows for a clip length that the scorer does not have, where the code
answers with an inconclusive result before it samples. And `TaskSelection` says of
sorting, sums and the round of the quotas what they return, not how they are folded.
`ContextMemory`, `HistoryImport` and `ScriptedBenchmark` likewise say what the choice of
entries and skills, the making of rounds, digging and picking up return; their
reachable states are the same as before.

## 11. Not modelled, and why

* Preflight of the quick start, its configuration, log reading and command line:
  reads whose answer is an input of `QuickStart`.
* Read-only queries of the dashboard, the frontend, showcases, packaging and
  hand-off scripts: presentation and one-shot transformations of files.
* Loading of catalogues and the texts of knowledge and prompts: data.
* Mineflayer and its path finder, the Minecraft server, Carpet, the neural scorer,
  the screen recorder: external; the models take their answers as inputs.
* Row locks and the order in which `record_success` takes them: a transaction is
  one step, so a deadlock in the database is not visible.
* Rendering of reports, prompts and pages, except for which pieces a prompt holds
  (`ContextMemory`) and which counts it quotes (`TaskEvidence`).

## 12. Running the checks

    tlc -config LiveTraining_crash.cfg MCLiveTraining.tla
    tlc -config Services_parts.cfg MCServices.tla
    tlapm SkillSettlementProofs.tla
    tlapm Studio.tla

Each run of `PROJECT.json` names its module and configuration. A run that is
expected to find a violation shows a disagreement between the code and a document
or comment; `findings` quotes both sides. Each property has a mutant: a
definition next to the original, marked `Mutant:`, that changes it as a plausible
bug would, and under which TLC finds the property violated.
