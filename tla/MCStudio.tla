--------------------------------- MODULE MCStudio ---------------------------------
(***************************************************************************)
(* Model checking of what surrounds a live run: values for the constants   *)
(* of its parts, chosen so that each of them can succeed and fail.         *)
(***************************************************************************)
EXTENDS Studio

Policy(stride, most, best) ==
  [clip |-> 2, stride |-> stride, windows |-> most, keys |-> best]
ClipPolicies == {Policy(1, 9, 2), Policy(2, 9, 1), Policy(3, 2, 1), Policy(1, 3, 1),
                 Policy(2, 1, 1), [Policy(1, 9, 1) EXCEPT !.clip = 3]}
Response(target, logits, probabilities) ==
  [target |-> target, logits |-> logits, probabilities |-> probabilities]
ScorerResponses ==
  {Response(6, 2, <<6, 4>>), Response(2, 2, <<2, 8>>), Response(4, 2, <<6, 4>>),
   Response(6, 2, <<6, 5>>), Response(11, 2, <<11, -1>>), Response(6, 1, <<6, 4>>)}

Kind(category, family, goal, tags, types, targets) ==
  [category |-> category, family |-> family, goal |-> goal, tags |-> tags, actions |-> types,
   targets |-> targets]
TaskKinds == { Kind(1, 1, {"dig", "ore"}, {"standard"}, {"dig"}, {"ore"}),
               Kind(1, 1, {"dig", "log"}, {}, {"dig"}, {"log"}),
               Kind(2, 2, {"hunt", "pig"}, {"standard"}, {"hit"}, {"pig"}),
               Kind(2, 0, {"hunt", "ore"}, {}, {"hit", "dig"}, {}) }
TaskRequests == {<<>>, <<3, 1, 3, 2>>}

(* Pools of one and of two servers, and arguments that differ in what they *)
(* leave out, not all of them at once.                                     *)
Server(id, game, rcon, max) == [id |-> id, game |-> game, rcon |-> rcon, max |-> max]
PoolFiles == { <<Server(1, 1, 1, 1), Server(2, 1, 2, 1)>>, <<Server(1, 1, 1, 2)>>,
               <<Server(1, 2, 0, 1), Server(2, 1, 2, 1)>> }
LaunchArguments ==
  { a \in [workers : {1, 2}, pool : BOOLEAN, shared : BOOLEAN, database : {"none", "path", "both"},
           sqlite : BOOLEAN, scripted : BOOLEAN, vision : BOOLEAN, titled : BOOLEAN,
           rcon : BOOLEAN, password : BOOLEAN, keep : BOOLEAN] :
      /\ a.vision => ~a.rcon /\ ~a.scripted
      /\ a.titled \/ a.vision
      /\ a.password \/ a.rcon
      /\ a.keep => ~a.rcon /\ ~a.vision /\ a.scripted
      /\ a.shared => ~a.rcon }

Taken(type, ok, ending, entity, item, place, stalled) ==
  [type |-> type, ok |-> ok, status |-> ending, entity |-> entity, item |-> item,
   held |-> {"axe"}, place |-> place, stalled |-> stalled]
TakenSteps == { Taken("fight_entity", TRUE, "", "cow", "", 0, FALSE),
                Taken("fight_entity", FALSE, "target_lost", "bat", "", 0, FALSE),
                Taken("move_to", FALSE, "timeout_no_progress", "", "", 1, TRUE),
                Taken("fight_entity", TRUE, "", "bat", "", 0, FALSE),
                Taken("move_to", FALSE, "no_path", "", "", 1, FALSE),
                Taken("move_to", TRUE, "", "", "", 3, FALSE),
                Taken("craft_item", TRUE, "", "", "torch", 0, FALSE) }
TaughtTasks == { [id |-> "hunt", category |-> "combat", entity |-> "cow", item |-> ""],
                 [id |-> "light", category |-> "techtree", entity |-> "", item |-> "torch"] }

Check(type, subject, count, new) ==
  [type |-> type, subject |-> subject, count |-> count, delta |-> new]
Asked(op, checks, criteria, require) ==
  [verifier |-> [op |-> op, checks |-> checks],
   criteria |-> [op |-> "all", checks |-> criteria], require |-> require]
CheckedTasks ==
  LET logs(n) == Check("inventory_contains", "log", n, FALSE)
      axe(new) == Check("inventory_contains", "axe", 1, new)
  IN { Asked("all", {logs(1), logs(2)}, {}, TRUE), Asked("any", {logs(1), axe(TRUE)}, {}, FALSE),
       Asked("all", {Check("entity_kill_delta", "zombie", 1, FALSE)}, {}, TRUE),
       Asked("all", {}, {axe(FALSE)}, TRUE) }
FirstInventories == {[i \in {"axe", "log"} |-> 0], [i \in {"axe", "log"} |-> IF i = "axe" THEN 1 ELSE 0]}

(* The instance is one that the theorems with a hypothesis of their own    *)
(* are about.                                                              *)
ASSUME TheoremsApply == Post >= 2 /\ NamesAreTheirOwn /\ NamesAreOfOneSort
=============================================================================
