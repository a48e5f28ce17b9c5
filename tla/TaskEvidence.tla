---------------------------- MODULE TaskEvidence ----------------------------
(***************************************************************************)
(* What the model is told before each decision and what the verifier sees  *)
(* after each action: the compact state, the progress of the goal, the     *)
(* evidence of the last action, and the kills that the worker confirms.    *)
(*                                                                         *)
(* Words, positions and distances are left out: an evidence is what it     *)
(* says of the action, the hints it gives and the blockers it names.       *)
(***************************************************************************)
EXTENDS Integers, Sequences, FiniteSetsExt

CONSTANTS
  Items,
  Mobs,        \* entities of the kind that the tasks name
  Initial,     \* inventories that a task starts with
  Tasks,       \* [verifier, criteria: trees of checks, require: BOOLEAN]
  Rows,        \* 12: rows of the inventory that are shown
  MaxSteps,    \* max_steps
  MaxCount,    \* bound: items of a kind
  MaxEvents    \* bound: what happens between an observation and an action

VARIABLES
  task, step,
  deciding,    \* observed, and not yet acted
  events,
  inventory, alive,
  attacked,    \* pendingAttacks: entities attacked and not seen dead or gone
  late,        \* those whose attack is older than the window
  dead,        \* processedDeadEntityIds
  killCount,   \* killCounts
  fought,      \* ghost: entities that the bot ever attacked
  ended,       \* ghost: the inventory when the last action ended
  first,       \* the first observation
  observation, \* the last one
  result,      \* the last action result
  told,        \* the state context of this decision
  verdict      \* the verifier accepts the run after the last action

vars == <<task, step, deciding, events, inventory, alive, attacked, late, dead, killCount, fought,
          ended, first, observation, result, told, verdict>>

None == "none"
Nothing == <<>>   \* where a function or a record would be
Counts == [Items -> 0 .. MaxCount]
Observed == [inventory |-> inventory, kills |-> killCount]
NoObservation == [inventory |-> [i \in Items |-> 0], kills |-> 0]
NoEvidence == [of |-> Nothing, blockers |-> {}]
NoTold == [status |-> None, rows |-> {}, evidence |-> NoEvidence]

(* ------------------------------------------------------------------------*)
(* The evidence of an action, by its kind: what it says, the hints it      *)
(* gives, the counts it quotes and the change of the inventory it tells.   *)
(* ------------------------------------------------------------------------*)
Says(what) == [says |-> what, hints |-> {}, counts |-> Nothing, delta |-> Nothing]
Plain(r) == Says(IF r.ok THEN "done" ELSE "failed")
WithDelta(r) == [Plain(r) EXCEPT !.delta = r.delta]

(* A search says what is nearest, or that nothing was found; a target that *)
(* is out of reach asks for scaffolding, entities for another place.       *)
ScanEvidence(r) ==
  [Says(IF ~r.ok THEN "failed" ELSE IF r.found = None THEN "nothing" ELSE "done") EXCEPT !.hints =
     (IF r.found = "unreachable" /\ r.type # "scan_dropped_items" THEN {"scaffold"} ELSE {})
       \cup (IF r.type = "scan_entities" THEN {"relocate"} ELSE {})]
(* A move that failed names the nearest place it can reach; scaffolding    *)
(* that was used is in its change.                                         *)
MoveEvidence(r) ==
  [WithDelta(r) EXCEPT !.hints = IF ~r.ok /\ r.found # None THEN {"nearest"} ELSE {}]
FollowEvidence(r) == Plain(r)
DigEvidence(r) == WithDelta(r)
(* A recipe that is not known counts as a failure.                         *)
LookupEvidence(r) ==
  Says(IF r.ok /\ (r.type = "get_recipe" => r.found # None) THEN "done" ELSE "failed")
(* Crafting tells what it expects, not what it changed.                    *)
ProcessEvidence(r) == IF r.type = "craft_item" THEN Plain(r) ELSE WithDelta(r)
PlaceEvidence(r) ==
  [Plain(r) EXCEPT !.hints = IF ~r.ok /\ r.code = "no_support_block" THEN {"support"} ELSE {}]
EquipEvidence(r) == Plain(r)
UseEvidence(r) == WithDelta(r)
FightEvidence(r) == Plain(r)
EngageEvidence(r) == Plain(r)
(* A snapshot is what its image is, whatever the action says.              *)
SnapshotEvidence(r) == Says(IF r.image THEN "done" ELSE "failed")
SkillEvidence(r) == WithDelta(r)
SubmitEvidence(r) == Says(IF r.accepted THEN "done" ELSE "failed")
GenericEvidence(r) == WithDelta(r)

(* Waiting and querying quote the inventory at the end of the action, or   *)
(* the one of now if the result holds none.                                *)
WaitEvidence(r, now) ==
  [WithDelta(r) EXCEPT !.counts = IF r.observation = Nothing THEN now.inventory
                                  ELSE r.observation.inventory]
QueryEvidence(r, now) ==
  [Plain(r) EXCEPT !.counts = IF r.inventory = Nothing THEN now.inventory ELSE r.inventory]

Searches == {"scan_blocks", "scan_entities", "scan_dropped_items"}
Compressed(r, now) ==
  CASE r.type \in Searches -> ScanEvidence(r)
    [] r.type = "move_to" -> MoveEvidence(r)
    [] r.type = "follow" -> FollowEvidence(r)
    [] r.type = "dig_block_at" -> DigEvidence(r)
    [] r.type = "wait_ticks" -> WaitEvidence(r, now)
    [] r.type = "query_inventory" -> QueryEvidence(r, now)
    [] r.type \in {"get_recipe", "retrieve_docs"} -> LookupEvidence(r)
    [] r.type \in {"craft_item", "smelt_item"} -> ProcessEvidence(r)
    [] r.type = "place_block" -> PlaceEvidence(r)
    [] r.type = "equip_item" -> EquipEvidence(r)
    [] r.type \in {"use_item", "consume_item"} -> UseEvidence(r)
    [] r.type = "fight_entity" -> FightEvidence(r)
    [] r.type = "engage_combat" -> EngageEvidence(r)
    [] r.type = "request_visual_snapshot" -> SnapshotEvidence(r)
    [] r.type = "execute_skill" -> SkillEvidence(r)
    [] r.type = "submit_for_evaluation" -> SubmitEvidence(r)
    [] OTHER -> GenericEvidence(r)
(* The error code is a blocker; so is a submission that was not accepted.  *)
Blockers(r) ==
  (IF r.code # None THEN {r.code} ELSE {})
  \cup (IF r.type = "submit_for_evaluation" /\ ~r.accepted /\ r.code = None
        THEN {"submission_rejected"} ELSE {})
Evidence(r, now) == IF r.type = None THEN NoEvidence
                    ELSE [of |-> Compressed(r, now), blockers |-> Blockers(r)]

(* ------------------------------------------------------------------------*)
(* The progress of the goal, as the model is told.                         *)
(* ------------------------------------------------------------------------*)
(* Checks are collected from the verifier and from the success criteria,   *)
(* through all and any alike.                                              *)
Collected(t) == t.verifier.checks \cup t.criteria.checks
ItemChecks(t) == {c \in Collected(t) : c.type = "inventory_contains"}
TargetItems(t) == {c.subject : c \in ItemChecks(t)}
Wanted(t, item) == Max({c.count : c \in {d \in ItemChecks(t) : d.subject = item}})
(* One check that counts only new items makes all of them do.              *)
RequiresDelta(t) == t.require \/ \E c \in Collected(t) : c.delta
Gained(t, item, inv) ==
  inv[item] - (IF RequiresDelta(t) THEN first.inventory[item] ELSE 0)
(* What is not an item is named and not judged.                            *)
Status(t, inv) ==
  CASE ItemChecks(t) = {} -> "not_inferable"
    [] ItemChecks(t) # {} /\ \A i \in TargetItems(t) : Gained(t, i, inv) >= Wanted(t, i)
         -> "satisfied"
    [] OTHER -> "not_yet"

Some(S, n) == {T \in SUBSET S : Cardinality(T) = IF n < Cardinality(S) THEN n ELSE Cardinality(S)}
(* The rows that are shown: targets alone, when any of them is held.       *)
Shown(t, inv) ==
  LET held == {i \in Items : inv[i] > 0}
  IN Some(IF held \cap TargetItems(t) # {} THEN held \cap TargetItems(t) ELSE held, Rows)

(* ------------------------------------------------------------------------*)
(* The verdict, after an action.                                           *)
(* ------------------------------------------------------------------------*)
(* The result's own observation, or the one made before the action.        *)
Latest(r) == IF r.observation # Nothing THEN r.observation ELSE observation
(* A result that lists the inventory is believed before its observation.   *)
LatestInventory(r) == IF r.inventory # Nothing THEN r.inventory ELSE Latest(r).inventory
HasItems(t, c, inv) ==
  inv[c.subject] - (IF t.require \/ c.delta THEN first.inventory[c.subject] ELSE 0) >= c.count
KillDelta(c, seen) == seen.kills - first.kills >= c.count
Holds(t, c, inv, seen) ==
  CASE c.type = "inventory_contains" -> HasItems(t, c, inv)
    [] c.type = "entity_kill_delta" -> KillDelta(c, seen)
    [] OTHER -> FALSE
Verifier(t) == IF t.verifier.checks # {} THEN t.verifier ELSE t.criteria
Accepts(t, inv, seen) ==
  /\ Verifier(t).checks # {}
  /\ IF Verifier(t).op = "all" THEN \A c \in Verifier(t).checks : Holds(t, c, inv, seen)
     ELSE \E c \in Verifier(t).checks : Holds(t, c, inv, seen)

(* ------------------------------------------------------------------------*)
(* Steps.                                                                  *)
(* ------------------------------------------------------------------------*)
NoResult == [type |-> None, ok |-> TRUE, code |-> None, found |-> None, image |-> FALSE,
             accepted |-> FALSE, delta |-> Nothing, inventory |-> Nothing, observation |-> Nothing]

Init ==
  /\ task \in Tasks /\ step = 0 /\ deciding = FALSE /\ events = 0
  /\ inventory \in Initial /\ alive = Mobs
  /\ attacked = {} /\ late = {} /\ dead = {} /\ killCount = 0 /\ fought = {}
  /\ ended = NoObservation.inventory
  /\ first = NoObservation /\ observation = NoObservation /\ result = NoResult /\ told = NoTold
  /\ verdict = FALSE

World == <<task, events, inventory, alive, attacked, late, dead, killCount, fought>>
Observe ==
  /\ ~deciding /\ step < MaxSteps /\ deciding' = TRUE
  /\ observation' = Observed /\ first' = IF step = 0 THEN Observed ELSE first
  /\ UNCHANGED World /\ UNCHANGED <<step, ended, result, told, verdict>>

(* The context of the decision, from the observation and the last result.  *)
Tell ==
  /\ deciding /\ told = NoTold
  /\ \E rows \in Shown(task, observation.inventory) :
       told' = [status |-> Status(task, observation.inventory), rows |-> rows,
                evidence |-> Evidence(result, observation)]
  /\ UNCHANGED World /\ UNCHANGED <<step, deciding, ended, first, observation, result, verdict>>

(* An action ends the decision; its result has the observation at its end. *)
Result(type, ok) == [NoResult EXCEPT !.type = type, !.ok = ok,
                                     !.code = IF ok THEN None ELSE "error"]
Seen(r) == [r EXCEPT !.observation = [inventory |-> inventory', kills |-> killCount]]
Returns(r) ==
  /\ deciding /\ told # NoTold
  /\ result' = r /\ verdict' = Accepts(task, LatestInventory(r), Latest(r))
  /\ ended' = inventory' /\ step' = step + 1 /\ deciding' = FALSE /\ told' = NoTold
  /\ UNCHANGED <<task, events, alive, late, dead, killCount, first, observation>>
ChangesNothing == UNCHANGED <<inventory, attacked, fought>>

Search == \E type \in Searches, found \in {"reachable", "unreachable", None} :
            ChangesNothing /\ Returns(Seen([Result(type, TRUE) EXCEPT !.found = found]))
Query == /\ ChangesNothing
         /\ Returns(Seen([Result("query_inventory", TRUE) EXCEPT !.inventory = inventory]))
(* A knowledge tool and a submission return no observation.                *)
Consult == \E type \in {"get_recipe", "retrieve_docs"}, found \in {"known", None} :
             ChangesNothing /\ Returns([Result(type, TRUE) EXCEPT !.found = found])
Submit == \E accepted \in BOOLEAN :
            /\ ChangesNothing
            /\ Returns([Result("submit_for_evaluation", TRUE) EXCEPT !.accepted = accepted])
(* A frame may be missing from a snapshot that succeeded.                  *)
Snapshot == \E image \in BOOLEAN :
              /\ ChangesNothing
              /\ Returns(Seen([Result("request_visual_snapshot", TRUE) EXCEPT !.image = image]))
Fail == \E type \in {"place_block", "execute_skill", "move_to"} :
          /\ ChangesNothing
          /\ \E code \in {"error", "no_support_block"} :
               Returns(Seen([Result(type, FALSE) EXCEPT !.code = code]))
Delta(item, n) == [i \in Items |-> IF i = item THEN n ELSE 0]
Change == \E item \in Items, n \in {-1, 1} :
            /\ inventory[item] + n \in 0 .. MaxCount
            /\ inventory' = [inventory EXCEPT ![item] = @ + n]
            /\ \E type \in IF n = 1 THEN {"dig_block_at", "craft_item", "wait_ticks"}
                            ELSE {"consume_item", "move_to"} :
                 Returns(Seen([Result(type, TRUE) EXCEPT !.delta = Delta(item, n)]))
            /\ UNCHANGED <<attacked, fought>>
(* A combat attacks what is in view, a corpse that lies there as well; an  *)
(* attack that is renewed is a recent one again.                           *)
Attack == \E m \in Mobs \ late :
            /\ attacked' = attacked \cup {m} /\ fought' = fought \cup {m}
            /\ UNCHANGED inventory /\ Returns(Seen(Result("engage_combat", TRUE)))

(* What happens by itself: drops are picked up, attacks age, entities die  *)
(* and their death is reported, once or again, or they leave the view.     *)
Happens == /\ events < MaxEvents /\ events' = events + 1
           /\ UNCHANGED <<task, step, deciding, fought, ended, first, observation, result, told,
                          verdict>>
PickUp == \E item \in Items :
            /\ Happens /\ inventory[item] < MaxCount
            /\ inventory' = [inventory EXCEPT ![item] = @ + 1]
            /\ UNCHANGED <<alive, attacked, late, dead, killCount>>
Age == \E m \in attacked \ late :
         /\ Happens /\ late' = late \cup {m}
         /\ UNCHANGED <<inventory, alive, attacked, dead, killCount>>
(* Mutant: a death is confirmed by the pending attack alone.               *)
ConfirmsAgain(m) == m \in attacked /\ m \notin late

Confirms(m) == m \notin dead /\ m \in attacked /\ m \notin late
EntityDead == \E m \in Mobs :
  /\ Happens /\ alive' = alive \ {m}
  /\ IF Confirms(m) THEN dead' = dead \cup {m} /\ killCount' = killCount + 1
     ELSE UNCHANGED <<dead, killCount>>
  /\ attacked' = (IF m \in dead THEN attacked ELSE attacked \ {m})
  /\ late' = (IF m \in dead THEN late ELSE late \ {m})
  /\ UNCHANGED inventory
EntityGone == \E m \in attacked :
  /\ Happens /\ attacked' = attacked \ {m} /\ late' = late \ {m}
  /\ UNCHANGED <<inventory, alive, dead, killCount>>

Next == \/ Observe \/ Tell \/ Search \/ Query \/ Consult \/ Submit \/ Snapshot \/ Fail \/ Change
        \/ Attack \/ PickUp \/ Age \/ EntityDead \/ EntityGone
Spec == Init /\ [][Next]_vars

(* ------------------------------------------------------------------------*)
(* Properties.                                                             *)
(* ------------------------------------------------------------------------*)
TypeOK ==
  /\ task \in Tasks /\ step \in 0 .. MaxSteps /\ events \in 0 .. MaxEvents
  /\ inventory \in Counts /\ alive \subseteq Mobs /\ attacked \subseteq Mobs
  /\ late \subseteq attacked /\ dead \subseteq Mobs /\ killCount \in 0 .. MaxEvents

(* A goal of items that the model is told is satisfied is one the verifier *)
(* accepts of that inventory, and no target that is held is left out of a  *)
(* list with room for it.                                                  *)
ToldProgressIsTrue ==
  told # NoTold =>
    /\ (told.status = "satisfied" /\ \A c \in Collected(task) : c.type = "inventory_contains")
         => Accepts(task, observation.inventory, observation)
    /\ LET held == {i \in Items : observation.inventory[i] > 0} \cap TargetItems(task)
       IN Cardinality(held) <= Rows => held \subseteq told.rows

(* What is said to be done has happened: the picture was taken, the        *)
(* submission accepted. Counts that are quoted are those of the end of the *)
(* action, whatever was picked up since.                                   *)
ToldEvidenceIsTrue ==
  (told # NoTold /\ told.evidence # NoEvidence) =>
    /\ told.evidence.of.says = "done" =>
         CASE result.type = "request_visual_snapshot" -> result.image
           [] result.type = "submit_for_evaluation" -> result.accepted
           [] OTHER -> result.ok
    /\ told.evidence.of.counts # Nothing => told.evidence.of.counts = ended

(* The verifier never counts a death twice, nor one of an entity that the  *)
(* bot never attacked.                                                     *)
KillsAreReal ==
  \A n \in 1 .. Cardinality(Mobs) + 1 :
    KillDelta([count |-> n], Observed) => Cardinality(fought \ alive) >= n

(* What is accepted is there when the action ends, whichever of the        *)
(* inventories the verdict was read from.                                  *)
AcceptedIsThere ==
  (verdict /\ ~deciding) => Accepts(task, ended, [kills |-> killCount])

(* All of the above: what build_state_context tells the model, and what    *)
(* the verifier and the combat tracker base a verdict on.                  *)
EvidenceIsTrue == ToldProgressIsTrue /\ ToldEvidenceIsTrue /\ KillsAreReal /\ AcceptedIsThere
=============================================================================
