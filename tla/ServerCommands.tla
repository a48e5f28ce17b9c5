--------------------------- MODULE ServerCommands ---------------------------
(***************************************************************************)
(* The reset of a worker's Minecraft world over RCON: the command plan of  *)
(* a task, batches of commands on a connection of their own, answers that  *)
(* come late or never, and a server that executes what it was sent even    *)
(* when nobody waits for the answer any more.                              *)
(*                                                                         *)
(* A command is an operation with an argument; a position is a name.       *)
(***************************************************************************)
EXTENDS Integers, SequencesExt

CONSTANTS
  Tasks,        \* reset plans, a subset of Plans
  Config,       \* ServerCommandResetConfig, of Configs
  MaxResets,    \* bound: resets
  MaxFaults     \* bound: timeouts, refusals and broken connections

Plans == [clear : BOOLEAN, items : Seq(STRING), drops : BOOLEAN, time : STRING, mode : STRING,
          spread : BOOLEAN, start : STRING, biome : STRING, give : Seq(STRING), blocks : Nat,
          mobs : Nat]
Configs == [clear : BOOLEAN, drops : BOOLEAN, restore : BOOLEAN, apply : BOOLEAN,
            biome : BOOLEAN, time : STRING]

None == "none"

VARIABLES
  phase,     \* "idle", "locate", "teleport", "plan", "ready", "failed"
  task,      \* task of the reset under way
  batch,     \* commands of this batch, those already answered, the results
  aligned,   \* the bot has been put into the biome, or need not be
  open,      \* "closed", "open" or "broken"
  waiting,   \* a command has been sent and its answer is awaited
  link,      \* number of the connection, one for every batch
  inbox,     \* per connection: commands sent and not executed
  outbox,    \* answers of this connection that nobody has read
  located,   \* biome_location_cache
  world,     \* what the server holds for this worker
  executed,  \* ghost: commands executed, by connection and request
  late,      \* ghost: an abandoned command was executed after this reset began
  resets, faults

vars == <<phase, task, batch, aligned, open, waiting, link, inbox, outbox, located, world, executed,
          late, resets, faults>>

NoBatch == [commands |-> <<>>, results |-> <<>>]
World0 == [items |-> <<>>, drops |-> FALSE, hurt |-> FALSE, mode |-> "survival", place |-> "spawn",
           time |-> None, blocks |-> <<>>, mobs |-> <<>>]

Init ==
  /\ phase = "idle" /\ task \in Tasks /\ batch = NoBatch /\ aligned = TRUE
  /\ open = "closed" /\ waiting = FALSE
  /\ link = 0 /\ inbox = <<>> /\ outbox = <<>> /\ located = {} /\ world = World0
  /\ executed = {} /\ late = FALSE /\ resets = 0 /\ faults = 0

(* ------------------------------------------------------------------------*)
(* The command plan of a task.                                             *)
(* ------------------------------------------------------------------------*)
Command(op, arg) == [op |-> op, arg |-> arg]
When(condition, commands) == IF condition THEN commands ELSE <<>>
Each(op, args) == [i \in DOMAIN args |-> Command(op, args[i])]
Times(n, command) == [i \in 1 .. n |-> command]

ClearCommands(t) ==
  CASE ~Config.clear -> <<>>
    [] Config.clear /\ t.clear -> <<Command("clear", None)>>
    [] OTHER -> Each("clear", t.items)
RestoreCommands == <<Command("heal", None), Command("feed", None)>>
InventoryCommands(t) == Each("give", t.give)
BlockCommands(t) == Times(t.blocks, Command("setblock", None))
MobCommands(t) == Times(t.mobs, Command("summon", None))
TaskCommands(t) ==
  When(t.mode # None, <<Command("gamemode", t.mode)>>)
  \o When(t.spread, <<Command("spread", "far")>>)
  \o When(t.start # None, <<Command("tp", t.start)>>)
  \o InventoryCommands(t) \o BlockCommands(t) \o MobCommands(t)

(* What a previous task has left goes first; the time of the configuration *)
(* goes before that of the task.                                           *)
TimeOf(t) == IF Config.time # None THEN Config.time ELSE IF Config.apply THEN t.time ELSE None
PlanCommands(t) ==
  ClearCommands(t)
  \o When(Config.drops /\ t.drops, <<Command("kill", "items")>>)
  \o When(Config.apply, <<Command("kill", "owned")>>)
  \o When(TimeOf(t) # None, <<Command("time", TimeOf(t))>>)
  \o When(Config.restore, RestoreCommands)
  \o When(Config.apply, TaskCommands(t))

(* ------------------------------------------------------------------------*)
(* What a command does to the world.                                       *)
(* ------------------------------------------------------------------------*)
Apply(w, c) ==
  CASE c.op = "clear" /\ c.arg = None -> [w EXCEPT !.items = <<>>]
    [] c.op = "clear" /\ c.arg # None -> [w EXCEPT !.items = SelectSeq(@, LAMBDA x : x # c.arg)]
    [] c.op = "kill" /\ c.arg = "items" -> [w EXCEPT !.drops = FALSE]
    [] c.op = "kill" /\ c.arg = "owned" -> [w EXCEPT !.mobs = <<>>]
    [] c.op = "time" -> [w EXCEPT !.time = c.arg]
    [] c.op = "heal" -> [w EXCEPT !.hurt = FALSE]
    [] c.op = "gamemode" -> [w EXCEPT !.mode = c.arg]
    [] c.op \in {"spread", "tp"} -> [w EXCEPT !.place = c.arg]
    [] c.op = "give" -> [w EXCEPT !.items = Append(@, c.arg)]
    [] c.op = "setblock" -> [w EXCEPT !.blocks = Append(@, w.place)]
    [] c.op = "summon" -> [w EXCEPT !.mobs = Append(@, w.place)]
    [] OTHER -> w

(* ------------------------------------------------------------------------*)
(* A reset: the biome, from the cache or located, then the plan.           *)
(* ------------------------------------------------------------------------*)
Align(t) == Config.biome /\ t.biome # None /\ ~t.spread /\ t.start = None
Batch(commands) == batch' = [commands |-> commands, results |-> <<>>]

Enter(t, next) ==
  /\ phase' = next
  /\ Batch(CASE next = "locate" -> <<Command("locate", t.biome)>>
             [] next = "teleport" -> <<Command("spread", t.biome)>>
             [] next = "plan" -> PlanCommands(t)
             [] OTHER -> <<>>)

FirstPhase(t) ==
  IF ~Align(t) THEN "plan" ELSE IF t.biome \in located THEN "teleport" ELSE "locate"

Reset ==
  /\ phase \in {"idle", "ready", "failed"} /\ resets < MaxResets /\ resets' = resets + 1
  /\ \E t \in Tasks : task' = t /\ Enter(t, FirstPhase(t))
  /\ late' = FALSE /\ aligned' = TRUE
  /\ UNCHANGED <<open, waiting, link, inbox, outbox, located, world, executed, faults>>

Busy == phase \in {"locate", "teleport", "plan"}
Fault == faults < MaxFaults /\ faults' = faults + 1
Left == Len(batch.commands) - Len(batch.results)

(* A connection of its own for the batch; an empty batch needs none.       *)
Connect ==
  /\ Busy /\ open = "closed" /\ batch.commands # <<>> /\ Left > 0
  /\ open' = "open" /\ link' = link + 1 /\ inbox' = Append(inbox, <<>>) /\ outbox' = <<>>
  /\ UNCHANGED <<aligned, phase, task, batch, waiting, located, world, executed, late, resets, faults>>

AllFail == [i \in DOMAIN batch.commands |-> FALSE]
ConnectFails ==
  /\ Busy /\ open = "closed" /\ Left > 0 /\ Fault
  /\ batch' = [batch EXCEPT !.results = AllFail]
  /\ UNCHANGED <<aligned, phase, task, open, waiting, link, inbox, outbox, located, world, executed, late,
                 resets>>

Request == Len(batch.results) + 1
Send ==
  /\ open = "open" /\ ~waiting /\ Left > 0 /\ waiting' = TRUE
  /\ inbox' = [inbox EXCEPT ![link] =
                 Append(@, [request |-> Request, command |-> batch.commands[Request]])]
  /\ UNCHANGED <<aligned, phase, task, batch, open, link, outbox, located, world, executed, late, resets,
                 faults>>

NothingFound == "no entity was found"

(* The server takes the next command of some connection; it may refuse it. *)
(* The answer goes to whoever still has that connection open.              *)
ServerExecutes ==
  \E l \in DOMAIN inbox : \E answer \in {"done", "refused"} \cup {NothingFound} :
    /\ inbox[l] # <<>> /\ inbox' = [inbox EXCEPT ![l] = Tail(@)]
    /\ LET next == Head(inbox[l])
           done == Apply(world, next.command)
       IN /\ answer = NothingFound => next.command.op = "kill" /\ done = world
          /\ IF answer = "refused" THEN Fault /\ UNCHANGED <<world, executed>>
             ELSE world' = done /\ executed' = executed \cup {<<l, next.request>>}
                  /\ UNCHANGED faults
          /\ outbox' = IF l = link /\ open = "open"
                       THEN Append(outbox, [request |-> next.request, answer |-> answer])
                       ELSE outbox
    /\ late' = (late \/ l < link \/ open = "closed")
    /\ UNCHANGED <<aligned, phase, task, batch, open, waiting, link, located, resets>>

Answered(ok) == batch' = [batch EXCEPT !.results = Append(@, ok)] /\ waiting' = FALSE
(* A cleanup that finds nothing to remove has done its work.               *)
ResponseOk(command, answer) ==
  answer = "done" \/ (answer = NothingFound /\ command.op = "kill")

(* Mutant: any packet is the answer to the request that waits.             *)
AnyAnswer(packet) == ResponseOk(batch.commands[Request], packet.answer)

(* The next packet of the connection is taken for the answer if its number *)
(* is that of the request; any other number fails the command.             *)
IsAnswer(packet) ==
  packet.request = Request /\ ResponseOk(batch.commands[Request], packet.answer)
Read ==
  /\ waiting /\ outbox # <<>> /\ outbox' = Tail(outbox) /\ Answered(IsAnswer(Head(outbox)))
  /\ UNCHANGED <<aligned, phase, task, open, link, inbox, located, world, executed, late, resets, faults>>

TimesOut ==
  /\ waiting /\ open = "open" /\ Fault /\ Answered(FALSE)
  /\ UNCHANGED <<aligned, phase, task, open, link, inbox, outbox, located, world, executed, late, resets>>

(* The connection breaks: this command and all that follow fail; what the  *)
(* server has read it executes.                                            *)
Breaks ==
  /\ open = "open" /\ Left > 0 /\ Fault /\ open' = "broken" /\ waiting' = FALSE
  /\ batch' = [batch EXCEPT !.results = @ \o Times(Left, FALSE)]
  /\ outbox' = <<>>
  /\ UNCHANGED <<aligned, phase, task, link, inbox, located, world, executed, late, resets>>

(* Leaving the connection may fail in wait_closed: then every command of   *)
(* the batch is reported as failed.                                        *)
Leave ==
  /\ open \in {"open", "broken"} /\ Left = 0 /\ open' = "closed" /\ outbox' = <<>>
  /\ \/ UNCHANGED <<batch, faults>>
     \/ open = "broken" /\ Fault /\ batch' = [batch EXCEPT !.results = AllFail]
  /\ UNCHANGED <<aligned, phase, task, waiting, link, inbox, located, world, executed, late, resets>>

AllOk == FALSE \notin ToSet(batch.results)
NextPhase == CASE phase = "locate" /\ AllOk -> "teleport"
               [] phase = "plan" /\ AllOk /\ aligned -> "ready"
               [] phase = "plan" /\ ~(AllOk /\ aligned) -> "failed"
               [] OTHER -> "plan"

(* A located biome is kept. After an alignment that failed the plan is     *)
(* still executed, and the reset fails as a whole.                         *)
Conclude ==
  /\ Busy /\ open = "closed" /\ Left = 0 /\ Enter(task, NextPhase)
  /\ aligned' = (aligned /\ (phase = "plan" \/ AllOk))
  /\ located' = IF phase = "locate" /\ AllOk THEN located \cup {task.biome} ELSE located
  /\ UNCHANGED <<task, open, waiting, link, inbox, outbox, world, executed, late, resets, faults>>

(* The agent plays: anything of its own may have changed.                  *)
Play ==
  /\ phase = "ready" /\ phase' = "idle"
  /\ world' = [world EXCEPT !.items = <<"loot">>, !.drops = TRUE, !.hurt = TRUE, !.place = "away"]
  /\ UNCHANGED <<aligned, task, batch, open, waiting, link, inbox, outbox, located, executed, late, resets,
                 faults>>

Next == \/ Reset \/ Connect \/ ConnectFails \/ Send \/ ServerExecutes \/ Read
        \/ TimesOut \/ Breaks \/ Leave \/ Conclude \/ Play
Spec == Init /\ [][Next]_vars

(* ------------------------------------------------------------------------*)
(* Properties.                                                             *)
(* ------------------------------------------------------------------------*)
TypeOK ==
  /\ phase \in {"idle", "locate", "teleport", "plan", "ready", "failed"} /\ task \in Tasks
  /\ Len(batch.results) <= Len(batch.commands) /\ open \in {"closed", "open", "broken"}
  /\ Len(inbox) = link /\ resets \in 0 .. MaxResets /\ faults \in 0 .. MaxFaults

(* A command that is reported as done was executed, and on this connection,*)
(* also when answers to earlier commands arrive after those timed out.     *)
DoneMeansExecuted ==
  open = "open" => \A i \in DOMAIN batch.results : batch.results[i] => <<link, i>> \in executed

Place(t) == IF t.start # None THEN t.start ELSE IF t.spread THEN "far"
            ELSE IF Align(t) THEN t.biome ELSE world.place

(* What the task itself asks for.                                          *)
IsAsPlanned ==
  /\ task.clear /\ Config.clear => world.items = task.give
  /\ task.mode # None => world.mode = task.mode
  /\ world.place = Place(task)
  /\ world.mobs = [i \in 1 .. task.mobs |-> Place(task)]
  /\ \A i \in Len(world.blocks) - task.blocks + 1 .. Len(world.blocks) :
       world.blocks[i] = Place(task)

(* A reset that succeeds leaves the world its task asks for, whatever      *)
(* earlier tasks and failed resets have left, unless a command that an     *)
(* earlier batch had given up was executed during this one: nothing of the *)
(* old inventory and mobs, the new ones at the place the bot was put.      *)
ReadyMeansPlanned ==
  phase = "ready" /\ ~late =>
    /\ Config.restore => ~world.hurt
    /\ Config.drops /\ task.drops => ~world.drops
    /\ TimeOf(task) # None => world.time = TimeOf(task)
    /\ Config.apply => IsAsPlanned

(* Both: RCON batches and the task reset that is built from them.          *)
ResetIsSound == DoneMeansExecuted /\ ReadyMeansPlanned
=============================================================================
