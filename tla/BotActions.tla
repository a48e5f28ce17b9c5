------------------------------- MODULE BotActions -------------------------------
(***************************************************************************)
(* The action handlers of the Mineflayer worker on one bot. A handler runs *)
(* up to its next await without interruption; in between the game moves    *)
(* the mobs, kills them, and the time limit of the handler may answer the  *)
(* request while its body goes on. A follow has no body: it stays with the *)
(* path finder until the next request arrives.                             *)
(***************************************************************************)
EXTENDS Integers, FiniteSets

CONSTANTS
  Mobs,        \* entities around the bot
  SpeciesOf,   \* the name of each
  Items,       \* what the inventory holds at first
  Bows,        \* items that a ranged engagement accepts in the hand
  Requests,    \* actions that the harness sends
  MaxActions   \* bound: requests to this bot

NoMob == "no mob"
Empty == "nothing"
Whatever == "any"
NoGoal == [of |-> 0, on |-> "nothing"]

VARIABLES
  where,     \* of each mob: in melee reach, within the asked distance, beyond it, or gone
  attacked,  \* pending attacks of the combat tracker
  killed,    \* mobs whose death it has confirmed
  hand, items,
  goal,      \* goal of the path finder, and the action that set it
  follow,    \* the action whose follow is registered as active
  digging,   \* the action whose dig is in progress
  windows,   \* actions with an open furnace
  body,      \* the action of the last request
  late,      \* bodies that go on after their request was answered
  turn,      \* requests that have arrived
  haunted    \* ghost: kinds of late bodies when this action, or the follow, began

vars == <<where, attacked, killed, hand, items, goal, follow, digging, windows, body, late, turn,
          haunted>>

game == <<where, attacked, killed>>
gear == <<hand, items>>
busy == <<digging, windows>>
frame == <<follow, turn, haunted>>

Quiet == [n |-> 0, of |-> [type |-> "none"], stage |-> "over", result |-> "none",
          target |-> NoMob, before |-> {}, after |-> {}, hits |-> {}]

Init ==
  /\ where \in [Mobs -> {"reach", "near"}] /\ attacked = {} /\ killed = {}
  /\ hand \in {Empty} \cup Items /\ items = Items /\ goal = NoGoal
  /\ follow = 0 /\ digging = 0 /\ windows = {}
  /\ body = Quiet /\ late = {} /\ turn = 0 /\ haunted = {}

(* ------------------------------------------------------------------------*)
(* Bodies.                                                                 *)
(* ------------------------------------------------------------------------*)
Running == {b \in {body} \cup late : b.stage # "over"}

(* Body b becomes c; nobody listens to the result of a late one.           *)
Becomes(b, c) ==
  IF b \in late
  THEN late' = (late \ {b}) \cup {d \in {c} : d.stage # "over"} /\ UNCHANGED body
  ELSE body' = c /\ UNCHANGED late

Ended(b, status) == [b EXCEPT !.stage = "over", !.result = status, !.after = killed]
Ends(b, status) == Becomes(b, Ended(b, status))
Enters(b, stage) == Becomes(b, [b EXCEPT !.stage = stage])

(* The deaths since the engagement began that count for what was asked:    *)
(* the tracker counts by the name of the species.                          *)
Counted(b, deaths) == {m \in deaths \ b.before : SpeciesOf[m] = b.of.asked}
Kills(b) == Counted(b, killed)

(* ------------------------------------------------------------------------*)
(* Entities.                                                               *)
(* ------------------------------------------------------------------------*)
Fits(asked) == {m \in Mobs : asked \in {SpeciesOf[m], m}}
Within == {m \in Mobs : where[m] \in {"reach", "near"}}

(* findNearestEntity: any of the nearest ones, or none.                    *)
Nearest(asked) ==
  LET here == Fits(asked) \cap Within
      close == {m \in here : where[m] = "reach"}
  IN IF here = {} THEN {NoMob} ELSE IF close = {} THEN here ELSE close

(* ------------------------------------------------------------------------*)
(* A request arrives. The harness sends it when the last one is answered.  *)
(* ------------------------------------------------------------------------*)

StopsFollow(r) == r.type # "follow"

(* What fight_entity and process_item make of their arguments.             *)
Fight(r) == [type |-> "engage", asked |-> r.asked, item |-> r.item, mode |-> "melee",
             ammo |-> Whatever, stop |-> TRUE]
Process(r) == [r EXCEPT !.type = IF r.station = "furnace" THEN "smelt" ELSE "craft"]
Handled(r) == CASE r.type = "fight" -> Fight(r) [] r.type = "process" -> Process(r) [] OTHER -> r

(* The failure with which the equipment is refused, or none.               *)
EquipmentFault(r) ==
  IF (r.item # Whatever /\ hand # r.item) \/ (r.mode = "ranged" /\ hand \notin Bows)
  THEN "weapon_not_equipped"
  ELSE IF r.mode = "ranged" /\ r.ammo # Whatever /\ r.ammo \notin items THEN "no_ammo"
  ELSE "none"

(* Failures that a handler finds before its first await.                   *)
DigRefusals == {"none", "target_not_found", "unexpected_block", "not_diggable"}
CraftRefusals == {"none", "missing_station", "recipe_not_available"}
SmeltRefusals(r) ==
  {"missing_station", "missing_fuel", IF r.item \in items THEN "none" ELSE "missing_input"}
UseRefusals(r) ==
  CASE r.item = Whatever -> {"none", "success", "target_not_found"}
    [] r.item \in items -> {"none"} [] OTHER -> {"missing_item"}
Refusals(r) ==
  CASE r.type \in {"equip", "place", "consume"} /\ r.item \notin items -> {"missing_item"}
    [] r.type = "use" -> UseRefusals(r)
    [] r.type = "consume" /\ r.item \in items -> {"none", "not_consumable"}
    [] r.type = "engage" -> {EquipmentFault(r)}
    [] r.type = "smelt" -> SmeltRefusals(r)
    [] r.type = "craft" -> CraftRefusals
    [] r.type = "dig" -> DigRefusals
    [] r.type = "move" -> {"none", "no_path"}
    [] r.type = "look" -> {"success"}
    [] OTHER -> {"none"}

(* Where a handler waits first.                                            *)
FirstStage(r) ==
  CASE r.type = "wait" -> "waiting" [] r.type = "move" -> "going" [] r.type = "dig" -> "digging"
    [] r.type = "craft" -> "acting" [] r.type = "smelt" -> "opening" [] r.type = "engage" -> "head"
    [] r.type = "use" /\ r.item = Whatever -> "acting"
    [] OTHER -> "equipping"

(* A follow replaces the one there is, if its target is found.             *)
Registered(n) == goal' = [of |-> n, on |-> "follow"] /\ follow' = n
StartFollow(b) ==
  \E m \in Nearest(b.of.asked) :
    IF m = NoMob
    THEN body' = Ended(b, "target_not_found") /\ UNCHANGED <<goal, follow>>
    ELSE Registered(b.n) /\ body' = Ended(b, "success")

(* Every other action stops the follow, and takes its goal away, before it *)
(* begins.                                                                 *)
GoalLeft(r) == IF StopsFollow(r) /\ follow # 0 THEN NoGoal ELSE goal
Dispatch(b) ==
  \E refusal \in Refusals(b.of) :
    /\ body' = IF refusal = "none" THEN [b EXCEPT !.stage = FirstStage(b.of)]
               ELSE Ended(b, refusal)
    /\ follow' = IF StopsFollow(b.of) THEN 0 ELSE follow
    /\ goal' = CASE b.of.type = "move" /\ refusal = "none" -> [of |-> b.n, on |-> "place"]
                 [] b.of.type = "move" -> NoGoal
                 [] OTHER -> GoalLeft(b.of)
    /\ digging' = IF b.of.type = "dig" /\ refusal = "none" THEN b.n ELSE digging

Receive ==
  /\ turn < MaxActions /\ body.stage = "over" /\ turn' = turn + 1
  /\ \E r \in Requests :
       LET b == [Quiet EXCEPT !.n = turn + 1, !.of = Handled(r), !.before = killed]
       IN /\ haunted' = {l.of.type : l \in late} \cup (IF b.of.type = "follow" THEN haunted ELSE {})
          /\ IF b.of.type = "follow" THEN StartFollow(b) /\ UNCHANGED digging ELSE Dispatch(b)
  /\ UNCHANGED <<game, gear, windows, late>>

(* ------------------------------------------------------------------------*)
(* Handlers that wait for the game.                                        *)
(* ------------------------------------------------------------------------*)
Waited ==
  \E b \in Running : /\ b.stage = "waiting" /\ Ends(b, "success")
                     /\ UNCHANGED <<game, gear, goal, busy, frame>>

(* goto fails when the goal is taken away; whatever happens, the movement  *)
(* ends without a goal.                                                    *)
MoveEnds ==
  \E b \in Running :
    /\ b.stage = "going" /\ goal' = NoGoal
    /\ \/ goal.of = b.n /\ Ends(b, "success")
       \/ \E error \in {"path_timeout", "timeout", "path_stopped", "navigation_error"} :
            Ends(b, error)
    /\ UNCHANGED <<game, gear, busy, frame>>

Dug ==
  \E b \in Running :
    /\ b.stage = "digging" /\ digging' = 0 /\ Enters(b, "settling")
    /\ UNCHANGED <<game, gear, goal, windows, frame>>
DropsObserved ==
  \E b \in Running : /\ b.stage = "settling" /\ Ends(b, "success")
                     /\ UNCHANGED <<game, gear, goal, busy, frame>>

(* The item is in the hand: equip_item is done, the others go on with it.  *)
(* An item that is not there any more cannot be equipped.                  *)
Equipped ==
  \E b \in Running :
    /\ b.stage = "equipping" /\ b.of.item \in items /\ hand' = b.of.item
    /\ \/ b.of.type = "equip" /\ Ends(b, "success")
       \/ b.of.type = "place" /\ Ends(b, "no_support_block")
       \/ b.of.type = "use" /\ Ends(b, "target_not_found")
       \/ b.of.type # "equip" /\ Enters(b, "acting")
    /\ UNCHANGED <<game, items, goal, busy, frame>>

(* The last one of an item is used up.                                     *)
UsedUp(item) == items' = items \ {item} /\ hand' = IF hand = item THEN Empty ELSE hand

(* What is placed or consumed may have been the last one; a craft adds to  *)
(* the inventory.                                                          *)
Acted ==
  \E b \in Running :
    /\ b.stage = "acting" /\ Ends(b, "success")
    /\ \/ b.of.type \in {"place", "consume"} /\ hand # Empty /\ UsedUp(hand)
       \/ b.of.type = "craft" /\ items' = items \cup {b.of.item} /\ UNCHANGED hand
       \/ b.of.type # "craft" /\ UNCHANGED gear
    /\ UNCHANGED <<game, goal, busy, frame>>

(* The furnace is opened, filled, and emptied or given up; it is closed.   *)
FurnaceOpened ==
  \E b \in Running :
    /\ b.stage = "opening" /\ windows' = windows \cup {b.n} /\ Enters(b, "filling")
    /\ UNCHANGED <<game, gear, goal, digging, frame>>
FurnaceFilled ==
  \E b \in Running : /\ b.stage = "filling" /\ Enters(b, "taking")
                     /\ UNCHANGED gear \/ UsedUp(b.of.item)
                     /\ UNCHANGED <<game, goal, busy, frame>>
FurnaceEmptied ==
  \E b \in Running :
    /\ b.stage = "taking" /\ windows' = windows \ {b.n}
    /\ \E status \in {"success", "smelting_timeout"} : Ends(b, status)
    /\ UNCHANGED <<game, gear, goal, digging, frame>>

(* An await of these handlers throws.                                      *)
Throws ==
  \E b \in Running :
    /\ b.stage \in {"digging", "equipping", "acting", "opening", "filling", "taking"}
    /\ digging' = (IF digging = b.n THEN 0 ELSE digging) /\ windows' = windows \ {b.n}
    /\ Ends(b, "runtime_error") /\ UNCHANGED <<game, gear, goal, frame>>

(* ------------------------------------------------------------------------*)
(* An engagement.                                                          *)
(* ------------------------------------------------------------------------*)

(* Every way out of the loop ends the movement.                            *)
Leaves(b, status) == goal' = NoGoal /\ Ends(b, status)

StopsAtKill(b) == b.of.stop /\ Kills(b) # {}

(* The target for this round: once found it is looked for by its id, and   *)
(* between two looks it is kept.                                           *)
Refreshed(b) ==
  IF b.target = NoMob THEN Nearest(b.of.asked)
  ELSE {b.target} \cup {m \in {NoMob} : b.target \notin Within}

(* An entity that is gone stays where it was last seen.                    *)
Reachable(t) == CASE where[t] = "gone" -> BOOLEAN [] OTHER -> {where[t] = "reach"}

(* In reach the bot stops and aims, at most once in an interval; otherwise *)
(* it follows, and gives up when several looks have shown no progress.     *)
MeleeRound(b, t) ==
  \E close \in Reachable(t) :
    \/ /\ ~close /\ goal' \in {goal, [of |-> b.n, on |-> "target"]}
       /\ Becomes(b, [b EXCEPT !.target = t])
    \/ ~close /\ b.target # NoMob /\ Leaves([b EXCEPT !.target = t], "target_unreachable")
    \/ close /\ UNCHANGED goal /\ Becomes(b, [b EXCEPT !.target = t])
    \/ close /\ goal' = NoGoal /\ Becomes(b, [b EXCEPT !.target = t, !.stage = "aiming"])

RangedRound(b, t) ==
  IF b.of.ammo # Whatever /\ b.of.ammo \notin items THEN Leaves(b, "no_ammo")
  ELSE \/ Leaves(b, "no_line_of_sight")
       \/ /\ where[t] = "far" /\ goal' \in {goal, [of |-> b.n, on |-> "place"]}
          /\ Becomes(b, [b EXCEPT !.target = t])
       \/ where[t] # "far" /\ UNCHANGED goal /\ Becomes(b, [b EXCEPT !.target = t])
       \/ /\ where[t] # "far" /\ goal' = NoGoal
          /\ Becomes(b, [b EXCEPT !.target = t, !.stage = "aiming"])

(* After the loop a kill still counts. The status of the engagement itself *)
(* is "timeout", too; the name keeps it apart from the time limit.         *)
TimeIsUp(b) ==
  \/ Kills(b) # {} /\ Leaves(b, "target_killed")
  \/ Kills(b) = {} /\ b.of.mode = "melee" /\ b.target # NoMob /\ FALSE \in Reachable(b.target)
     /\ Leaves(b, "target_unreachable")
  \/ Kills(b) = {} /\ (b.of.mode = "melee" /\ b.target # NoMob => TRUE \in Reachable(b.target))
     /\ Leaves(b, "out_of_time")

(* One round of the loop, from its head to the next await. Whether the     *)
(* duration is over and how healthy the bot is are inputs; for a late body *)
(* it is over.                                                             *)
Round ==
  \E b \in Running :
    /\ b.stage = "head"
    /\ \/ TimeIsUp(b)
       \/ b \notin late /\ StopsAtKill(b) /\ Leaves(b, "target_killed")
       \/ b \notin late /\ ~StopsAtKill(b) /\ Leaves(b, "low_health")
       \/ /\ b \notin late /\ ~StopsAtKill(b)
          /\ \E t \in Refreshed(b) :
               CASE t = NoMob -> Becomes(b, [b EXCEPT !.target = NoMob, !.stage = "losing"])
                                 /\ UNCHANGED goal
                 [] t # NoMob /\ b.of.mode = "melee" -> MeleeRound(b, t)
                 [] OTHER -> RangedRound(b, t)
    /\ UNCHANGED <<game, gear, busy, frame>>

(* Mutant of LostStatus: a death that comes a little late is not seen.     *)
LostAtOnce(b) == "target_lost"

(* The tracker hears of a death after the entity is gone: the engagement   *)
(* waits a moment before it calls the target lost.                         *)
LostStatus(b) == IF StopsAtKill(b) THEN "target_killed" ELSE "target_lost"
Lost ==
  \E b \in Running : /\ b.stage = "losing" /\ Leaves(b, LostStatus(b))
                     /\ UNCHANGED <<game, gear, busy, frame>>

(* Kinds of actions that change what the hand holds.                       *)
Handling == {"equip", "place", "use", "consume", "smelt"}
Hit(b) == [mob |-> b.target, item |-> hand, alone |-> haunted \cap Handling = {} /\ b \notin late]

(* The attack is registered before it is made; a bow is drawn.             *)
Strike ==
  \E b \in Running :
    /\ b.stage = "aiming" /\ attacked' = attacked \cup {b.target}
    /\ Becomes(b, IF b.of.mode = "melee" THEN [b EXCEPT !.stage = "head", !.hits = @ \cup {Hit(b)}]
                  ELSE [b EXCEPT !.stage = "drawing"])
    /\ UNCHANGED <<where, killed, gear, goal, busy, frame>>
Loose ==
  \E b \in Running :
    /\ b.stage = "drawing" /\ Becomes(b, [b EXCEPT !.stage = "head", !.hits = @ \cup {Hit(b)}])
    /\ items' \in {items, items \ {b.of.ammo}}
    /\ UNCHANGED <<game, hand, goal, busy, frame>>

(* ------------------------------------------------------------------------*)
(* The time limit answers the request. Only a dig is stopped by it, and an *)
(* engagement ends by itself before, unless it is drawing a bow for as     *)
(* long as the agent has asked for.                                        *)
(* ------------------------------------------------------------------------*)
Outlives ==
  {"waiting", "settling", "equipping", "acting", "opening", "filling", "taking", "drawing"}
TimeLimit ==
  /\ body \in Running /\ body.stage \in Outlives \cup {"digging"}
  /\ body' = Ended(body, "timeout")
  /\ late' = late \cup {b \in {[body EXCEPT !.result = "timeout"]} : b.stage \in Outlives}
  /\ digging' = (IF digging = body.n THEN 0 ELSE digging)
  /\ UNCHANGED <<game, gear, goal, windows, frame>>

(* ------------------------------------------------------------------------*)
(* The game.                                                               *)
(* ------------------------------------------------------------------------*)
Wander ==
  /\ \E m \in Mobs, place \in {"reach", "near", "far"} :
       where[m] # "gone" /\ where[m] # place /\ where' = [where EXCEPT ![m] = place]
  /\ UNCHANGED <<attacked, killed, gear, goal, busy, body, late, frame>>

(* entityDead confirms a kill if an attack is pending and recent; an       *)
(* entity is confirmed once. It is seen until entityGone.                  *)
Dies ==
  /\ \E m \in attacked \ killed :
       /\ where[m] # "gone" /\ attacked' = attacked \ {m} /\ killed' \in {killed, killed \cup {m}}
  /\ UNCHANGED <<where, gear, goal, busy, body, late, frame>>

(* entityGone forgets the attacks.                                         *)
Vanishes ==
  /\ \E m \in Mobs : /\ where[m] # "gone" /\ where' = [where EXCEPT ![m] = "gone"]
                     /\ attacked' = attacked \ {m}
  /\ UNCHANGED <<killed, gear, goal, busy, body, late, frame>>

Next == \/ Receive \/ Waited \/ MoveEnds \/ Dug \/ DropsObserved \/ Equipped \/ Acted
        \/ FurnaceOpened \/ FurnaceFilled \/ FurnaceEmptied \/ Throws \/ Round \/ Lost \/ Strike
        \/ Loose \/ TimeLimit \/ Wander \/ Dies \/ Vanishes
Spec == Init /\ [][Next]_vars

(* ------------------------------------------------------------------------*)
(* Properties.                                                             *)
(* ------------------------------------------------------------------------*)
TypeOK ==
  /\ where \in [Mobs -> {"reach", "near", "far", "gone"}]
  /\ attacked \subseteq Mobs /\ killed \subseteq Mobs
  /\ turn \in 0 .. MaxActions /\ body.n = turn /\ follow \in 0 .. turn /\ digging \in 0 .. turn
  /\ \A b \in late : b.n \in 1 .. turn /\ b.stage \in Outlives \cup {"head"}

(* A follow is registered only until another action arrives, and as long   *)
(* as it is, the bot does follow; unless an engagement has outlived its    *)
(* time limit, whose end takes the goal away from the follow.              *)
FollowIsReal ==
  follow # 0 => /\ body.of.type = "follow"
                /\ "engage" \notin haunted => goal = [of |-> follow, on |-> "follow"]

(* When no action runs and none is followed, nothing goes on in the game:  *)
(* no movement, no digging, no open furnace.                               *)
BotStandsStill ==
  Running = {} /\ follow = 0 => goal = NoGoal /\ digging = 0 /\ windows = {}

(* An engagement that is to stop at a kill, and was not answered by its    *)
(* time limit, reports a kill exactly when one of its species was          *)
(* confirmed while it lasted.                                              *)
KillsAreTold ==
  body.of.type = "engage" /\ body.stage = "over" /\ body.of.stop /\ body.result # "timeout" =>
    (body.result = "target_killed" <=> Counted(body, body.after) # {})

(* An engagement hits one mob only, and with the weapon it was asked to    *)
(* use, unless a late body changes what the hand holds.                    *)
HitsAreMeant ==
  \A b \in {body} \cup late : \A h, i \in b.hits :
    /\ h.mob = i.mob
    /\ h.alone /\ i.alone => h.item = i.item
    /\ h.alone /\ b.of.item # Whatever => h.item = b.of.item
    /\ h.alone /\ b.of.mode = "ranged" => h.item \in Bows

(* All of the above.                                                       *)
ActionsAreSound == FollowIsReal /\ BotStandsStill /\ KillsAreTold /\ HitsAreMeant
=============================================================================
