-------------------------- MODULE ScriptedBenchmark --------------------------
(***************************************************************************)
(* The deterministic benchmark: the scripted runtime with its inventory,   *)
(* blocks, drops and entities, the actions of a script, and the verifiers  *)
(* that read the run from the first observation and the last result.       *)
(*                                                                         *)
(* Places lie on a line, more than a pick-up radius and less than an arm's *)
(* length apart.                                                           *)
(***************************************************************************)
EXTENDS Integers, Sequences, FiniteSets, FiniteSetsExt, Subsequences

CONSTANTS
  Initial,   \* initial states: inventory, blocks, entities
  Script,    \* actions that a script may hold
  Places,    \* a range of integers
  MaxSteps   \* max_steps

VARIABLES
  inventory,  \* count per item that is there
  hand,       \* the item in the main hand
  blocks, entities, position, follow,
  steps,      \* actions done
  initial,    \* observation before the first action
  last,       \* the last action result
  gained,     \* ghost: items put into the inventory, per item
  lost,       \* ghost: items taken out of it, per item
  consumed,   \* ghost: items consumed, per item
  kills       \* ghost: entities killed in this run, by name

vars == <<inventory, hand, blocks, entities, position, follow, steps, initial, last, gained, lost,
          consumed, kills>>

None == "none"
Items == {"oak_log", "oak_planks", "stick", "crafting_table", "wooden_pickaxe", "stone",
          "cobblestone"}
Recipe == [oak_planks |-> [output |-> 4, inputs |-> [oak_log |-> 1], station |-> FALSE],
           crafting_table |-> [output |-> 1, inputs |-> [oak_planks |-> 4], station |-> FALSE],
           stick |-> [output |-> 4, inputs |-> [oak_planks |-> 2], station |-> FALSE],
           wooden_pickaxe |-> [output |-> 1, inputs |-> [oak_planks |-> 3, stick |-> 2],
                               station |-> TRUE]]
DropOf(block) == IF block = "stone" THEN "cobblestone" ELSE block

Held(inv, item) == IF item \in DOMAIN inv THEN inv[item] ELSE 0
(* Items with no count left are deleted.                                   *)
Changed(inv, delta) ==
  LET count(i) == Held(inv, i) + Held(delta, i)
  IN [i \in {i \in DOMAIN inv \cup DOMAIN delta : count(i) > 0} |-> count(i)]
Nothing == [i \in {} |-> 0]
Only(item, n) == [i \in {item} |-> n]
NoResult == [type |-> None, ok |-> FALSE, subject |-> None, place |-> 0]
Observation == [inventory |-> inventory, blocks |-> blocks, entities |-> entities]

Init ==
  /\ \E i \in Initial : /\ inventory = i.inventory /\ blocks = i.blocks /\ entities = i.entities
                        /\ initial = [inventory |-> i.inventory, blocks |-> i.blocks,
                                      entities |-> i.entities]
  /\ hand = None /\ position = 0 /\ follow = None /\ steps = 0 /\ last = NoResult
  /\ gained = Nothing /\ lost = Nothing /\ consumed = Nothing /\ kills = {}

(* ------------------------------------------------------------------------*)
(* Actions of the scripted runtime.                                        *)
(* ------------------------------------------------------------------------*)
(* Every action other than a follow ends the follow there is.              *)
Ends(a, ok, following) ==
  /\ last' = [type |-> a.type, ok |-> ok, subject |-> a.subject, place |-> a.place]
  /\ follow' = following

Moves(delta) ==
  /\ inventory' = Changed(inventory, delta)
  /\ gained' = Changed(gained, [i \in {j \in DOMAIN delta : delta[j] > 0} |-> delta[i]])
  /\ lost' = Changed(lost, [i \in {j \in DOMAIN delta : delta[j] < 0} |-> -delta[i]])
Keeps == UNCHANGED <<inventory, gained, lost, consumed>>

Fails(a) == /\ Ends(a, FALSE, IF a.type = "follow" THEN follow ELSE None) /\ Keeps
            /\ UNCHANGED <<hand, blocks, entities, position, kills>>

(* Scans and queries change nothing.                                       *)
Query(a) == /\ a.type \in {"query_inventory", "scan_blocks", "scan_entities", "scan_dropped_items"}
            /\ Ends(a, TRUE, None) /\ Keeps
            /\ UNCHANGED <<hand, blocks, entities, position, kills>>

MoveTo(a) == /\ a.type = "move_to" /\ position' = a.place /\ Ends(a, TRUE, None) /\ Keeps
             /\ UNCHANGED <<hand, blocks, entities, kills>>

Named(name) == {k \in DOMAIN entities : entities[k].name = name}
Follow(a) ==
  /\ a.type = "follow"
  /\ IF Named(a.subject) = {} THEN Fails(a)
     ELSE Ends(a, TRUE, a.subject) /\ Keeps /\ UNCHANGED <<hand, blocks, entities, position, kills>>

Without(s, k) == Picked(s, DOMAIN s \ {k})

(* The first block at the place is dug, and lies there as a drop.          *)
Dig(a) ==
  /\ a.type = "dig_block_at"
  /\ LET there == {k \in DOMAIN blocks : blocks[k].place = a.place}
     IN IF there = {} \/ (a.subject # None /\ blocks[Min(there)].name # a.subject) THEN Fails(a)
        ELSE /\ blocks' = Without(blocks, Min(there))
             /\ entities' = Append(entities, [name |-> "item", item |-> DropOf(blocks[Min(there)].name),
                                              place |-> a.place, air |-> FALSE])
             /\ Ends(a, TRUE, None) /\ Keeps /\ UNCHANGED <<hand, position, kills>>

InReach == {k \in DOMAIN entities : entities[k].name = "item" /\ entities[k].place = position}
WaitTicks(a) ==
  /\ a.type = "wait_ticks"
  /\ Moves([i \in {entities[k].item : k \in InReach} |->
              Cardinality({k \in InReach : entities[k].item = i})])
  /\ entities' = Picked(entities, DOMAIN entities \ InReach)
  /\ Ends(a, TRUE, None) /\ UNCHANGED <<hand, blocks, position, consumed, kills>>

(* The recipe is applied until the wanted count is reached.                *)
CraftCount(a) == (a.count + Recipe[a.subject].output - 1) \div Recipe[a.subject].output
Needed(a) == [i \in DOMAIN Recipe[a.subject].inputs |-> Recipe[a.subject].inputs[i] * CraftCount(a)]
CanCraft(a) ==
  /\ a.subject \in DOMAIN Recipe
  /\ Recipe[a.subject].station => \E k \in DOMAIN blocks : blocks[k].name = "crafting_table"
  /\ \A i \in DOMAIN Needed(a) : Held(inventory, i) >= Needed(a)[i]
(* Mutant: the wanted count is produced of what a whole recipe was paid for. *)
ProducedWanted(a) == a.count

Produced(a) == CraftCount(a) * Recipe[a.subject].output
Craft(a) ==
  /\ a.type = "craft_item"
  /\ IF ~CanCraft(a) THEN Fails(a)
     ELSE /\ Moves([i \in DOMAIN Needed(a) \cup {a.subject} |->
                      IF i = a.subject THEN Produced(a) ELSE -Needed(a)[i]])
          /\ Ends(a, TRUE, None) /\ UNCHANGED <<hand, blocks, entities, position, consumed, kills>>

(* A block may be placed where one is already.                             *)
PlaceBlock(a) ==
  /\ a.type = "place_block"
  /\ IF Held(inventory, a.subject) = 0 THEN Fails(a)
     ELSE /\ Moves(Only(a.subject, -1))
          /\ blocks' = Append(blocks, [name |-> a.subject, place |-> a.place])
          /\ Ends(a, TRUE, None) /\ UNCHANGED <<hand, entities, position, consumed, kills>>

(* An item that is equipped may be consumed or crafted away.               *)
Consume(a) ==
  /\ a.type = "consume_item"
  /\ IF Held(inventory, a.subject) = 0 THEN Fails(a)
     ELSE /\ Moves(Only(a.subject, -1)) /\ consumed' = Changed(consumed, Only(a.subject, 1))
          /\ Ends(a, TRUE, None) /\ UNCHANGED <<hand, blocks, entities, position, kills>>

Equip(a) ==
  /\ a.type = "equip_item"
  /\ IF Held(inventory, a.subject) = 0 THEN Fails(a)
     ELSE /\ hand' = a.subject /\ Ends(a, TRUE, None) /\ Keeps
          /\ UNCHANGED <<blocks, entities, position, kills>>

(* Engaging checks the weapon and whether an airborne target is in reach.  *)
Unreachable(e) == e.air /\ (e.place - position) \notin -1 .. 1
Engage(a) ==
  /\ a.type = "engage_combat"
  /\ LET k == Min(Named(a.subject))
     IN IF Named(a.subject) = {} \/ (a.weapon # None /\ hand # a.weapon) \/ Unreachable(entities[k])
        THEN Fails(a)
        ELSE /\ entities' = Without(entities, k) /\ kills' = kills \cup {a.subject}
             /\ Ends(a, TRUE, None) /\ Keeps /\ UNCHANGED <<hand, blocks, position>>

(* A fight with an entity that is not there succeeds.                      *)
Fight(a) ==
  /\ a.type = "fight_entity"
  /\ IF Named(a.subject) = {} THEN UNCHANGED <<entities, kills>>
     ELSE /\ entities' = Without(entities, Min(Named(a.subject)))
          /\ kills' = kills \cup {a.subject}
  /\ Ends(a, TRUE, None) /\ Keeps /\ UNCHANGED <<hand, blocks, position>>

Act ==
  \E a \in Script :
    /\ steps < MaxSteps /\ steps' = steps + 1 /\ UNCHANGED initial
    /\ \/ Query(a) \/ MoveTo(a) \/ Follow(a) \/ Dig(a) \/ WaitTicks(a) \/ Craft(a) \/ PlaceBlock(a)
       \/ Equip(a) \/ Consume(a) \/ Engage(a) \/ Fight(a)

(* ------------------------------------------------------------------------*)
(* Verifiers.                                                              *)
(* ------------------------------------------------------------------------*)
(* A run without steps has no observation, nothing is there in it.         *)
Latest == IF steps = 0 THEN [inventory |-> Nothing, blocks |-> <<>>, entities |-> <<>>]
          ELSE Observation
First == IF steps = 0 THEN Latest ELSE initial

InventoryContains(item, n) == Held(Latest.inventory, item) >= n
InventoryDelta(item, n) == Held(Latest.inventory, item) - Held(First.inventory, item) >= n
BlockPlaced(block, place) ==
  \/ last = [type |-> "place_block", ok |-> TRUE, subject |-> block, place |-> place]
  \/ \E k \in DOMAIN Latest.blocks : Latest.blocks[k] = [name |-> block, place |-> place]
EntityDefeated(name) ==
  \/ last.type \in {"fight_entity", "engage_combat"} /\ last.ok /\ last.subject = name
  \/ \A k \in DOMAIN Latest.entities : Latest.entities[k].name # name

Next == Act
Spec == Init /\ [][Next]_vars

(* ------------------------------------------------------------------------*)
(* Properties.                                                             *)
(* ------------------------------------------------------------------------*)
TypeOK ==
  /\ DOMAIN inventory \subseteq Items /\ \A i \in DOMAIN inventory : inventory[i] \in Nat \ {0}
  /\ hand \in Items \cup {None} /\ position \in Places /\ steps \in 0 .. MaxSteps

(* All there is of an item: held, consumed, placed, and dropped.           *)
Placed(item, bs) == Cardinality({k \in DOMAIN bs : bs[k].name = item})
Dropped(item, es) == Cardinality({k \in DOMAIN es : es[k].name = "item" /\ es[k].item = item})
Pieces(item, inv, eaten, bs, es) ==
  Held(inv, item) + Held(eaten, item) + Placed(item, bs) + Dropped(item, es)

(* Twice the planks that an item is worth; stone and cobblestone are one.  *)
Wood(inv, eaten, bs, es) ==
  LET of(item) == Pieces(item, inv, eaten, bs, es)
  IN 8 * of("oak_log") + 2 * of("oak_planks") + of("stick") + 8 * of("crafting_table")
     + 8 * of("wooden_pickaxe")
Stone(inv, eaten, bs, es) ==
  Pieces("stone", inv, eaten, bs, es) + Pieces("cobblestone", inv, eaten, bs, es)

(* No sequence of crafting, placing, digging and collecting makes wood or  *)
(* stone out of nothing or loses it; what is consumed is accounted for.    *)
MatterIsKept ==
  /\ Wood(inventory, consumed, blocks, entities)
       = Wood(initial.inventory, Nothing, initial.blocks, initial.entities)
  /\ Stone(inventory, consumed, blocks, entities)
       = Stone(initial.inventory, Nothing, initial.blocks, initial.entities)

(* What a verifier accepts after at least one step was done in this run:   *)
(* the items came into the inventory, the entity was killed or is not      *)
(* there, the block was brought from the inventory or was there.           *)
VerifiedMeansDone ==
  steps > 0 =>
    /\ \A item \in Items, n \in 1 .. 4 :
         InventoryContains(item, n) => Held(gained, item) + Held(initial.inventory, item) >= n
    /\ \A item \in Items, n \in 1 .. 4 :
         InventoryDelta(item, n) => Held(gained, item) - Held(lost, item) >= n
    /\ \A e \in {"zombie", "phantom"} :
         EntityDefeated(e) => e \in kills \/ Named(e) = {}
    /\ \A b \in Items, p \in Places :
         BlockPlaced(b, p) => \/ Held(lost, b) > 0
                              \/ \E k \in DOMAIN initial.blocks :
                                   initial.blocks[k] = [name |-> b, place |-> p]

(* Both: the simulated world of the scripted benchmark keeps its matter,   *)
(* and ProgrammaticVerifier accepts only what was done in it.              *)
BenchmarkIsSound == MatterIsKept /\ VerifiedMeansDone
=============================================================================
