-------------------------------- MODULE MCServices --------------------------------
(***************************************************************************)
(* Model checking of the services that stand beside an attempt: plans,     *)
(* scripts, histories, budgets and requests that make their parts succeed  *)
(* and fail.                                                               *)
(***************************************************************************)
EXTENDS Services

Plan == [clear |-> TRUE, items |-> <<>>, drops |-> TRUE, time |-> "none", mode |-> "none",
         spread |-> FALSE, start |-> "none", biome |-> "none", give |-> <<>>, blocks |-> 0,
         mobs |-> 0]
SmallResets ==
  { [Plan EXCEPT !.biome = "plains", !.mobs = 1, !.give = <<"axe">>, !.mode = "survival"],
    [Plan EXCEPT !.start = "pit", !.blocks = 1, !.spread = TRUE, !.clear = FALSE,
                 !.items = <<"loot">>, !.time = "night"] }
FullReset == [clear |-> TRUE, drops |-> TRUE, restore |-> TRUE, apply |-> TRUE, biome |-> TRUE,
              time |-> "none"]

(* Two worlds, and actions that can each succeed and fail in one of them.  *)
Deed(type, subject) ==
  [type |-> type, subject |-> subject, place |-> 0, count |-> 1, weapon |-> "none"]
ScriptedActions ==
  { Deed("craft_item", "oak_planks"), Deed("craft_item", "crafting_table"),
    [Deed("craft_item", "stick") EXCEPT !.count = 3], Deed("craft_item", "wooden_pickaxe"),
    Deed("place_block", "crafting_table"), Deed("dig_block_at", "none"),
    [Deed("dig_block_at", "stone") EXCEPT !.place = 1], Deed("wait_ticks", "none"),
    [Deed("move_to", "none") EXCEPT !.place = 1], Deed("consume_item", "stick"),
    Deed("equip_item", "wooden_pickaxe"),
    [Deed("engage_combat", "phantom") EXCEPT !.weapon = "wooden_pickaxe"],
    Deed("fight_entity", "zombie"), Deed("follow", "zombie"), Deed("query_inventory", "none") }
Zombie == [name |-> "zombie", item |-> "none", place |-> 1, air |-> FALSE]
Phantom == [name |-> "phantom", item |-> "none", place |-> 2, air |-> TRUE]
InitialWorlds ==
  { [inventory |-> [oak_log |-> 3], blocks |-> <<[name |-> "stone", place |-> 1]>>,
     entities |-> <<Zombie, Phantom>>],
    [inventory |-> [oak_planks |-> 4, stick |-> 2],
     blocks |-> <<[name |-> "crafting_table", place |-> 0], [name |-> "oak_log", place |-> 0]>>,
     entities |-> <<Phantom>>] }

(* Copies of a run that differ in their rows, their status and their age.  *)
Entry(kind, n, status) == [kind |-> kind, step |-> n, status |-> status]
HistoryRows == {Entry("steps", 0, "ok"), Entry("errors", -1, "error")}
Copy(r, status, entries, age, others) ==
  [readable |-> TRUE, auxiliary |-> others,
   runs |-> [q \in {r} |-> [status |-> status, rows |-> entries, updated |-> age]]]
Histories ==
  { Copy("r1", "failed", <<Entry("spans", 0, "active"), Entry("steps", 0, "error"),
                           Entry("steps", 0, "ok")>>, -1, {[key |-> 1, refs |-> {"r1"}]}),
    Copy("r1", "succeeded", <<Entry("steps", 1, "ok"), Entry("steps", 2, "ok"),
                              Entry("events", 1, "none"), Entry("events", 0, "none")>>, -3, {}),
    Copy("r1", "running", <<Entry("calls", 0, "none"), Entry("steps", 0, "ok"),
                            Entry("errors", 0, "error")>>, -2, {[key |-> 1, refs |-> {}]}),
    Copy("r2", "running", <<>>, -2, {[key |-> 2, refs |-> {"r1"}]}),
    [readable |-> TRUE, auxiliary |-> {}, runs |-> [q \in {} |-> 0]] }

(* Sizes and budgets small enough for every kind of compression, for       *)
(* eviction from each ledger, and for a second injection of a skill.       *)
EntrySizes == [entry |-> 3, segment |-> 3, slim |-> 2, episode |-> 1,
               fact |-> 2, hint |-> 1, skill |-> 2, brief |-> 2, note |-> 1]
ContextBudget == [total |-> 9, floor |-> 4, knowledge |-> 3, skills |-> 2, memory |-> 1]
SkillRankings == {<<1, 2>>, <<2, 2, 1>>}

(* One request for every handler, and engagements of every kind.           *)
Ask(type) == [type |-> type, asked |-> "zombie", item |-> "any", station |-> "none",
              mode |-> "melee", ammo |-> "any", stop |-> TRUE]
BotRequests ==
  { Ask("look"), Ask("wait"), Ask("move"), Ask("dig"), Ask("follow"), Ask("use"),
    [Ask("equip") EXCEPT !.item = "bow"], [Ask("place") EXCEPT !.item = "dirt"],
    [Ask("process") EXCEPT !.item = "dirt", !.station = "furnace"],
    [Ask("process") EXCEPT !.item = "stick"], [Ask("fight") EXCEPT !.item = "sword"],
    [Ask("engage") EXCEPT !.asked = "m1", !.mode = "ranged", !.ammo = "arrow", !.stop = FALSE] }
Names == [m \in {"m1", "m2"} |-> "zombie"]
=============================================================================
