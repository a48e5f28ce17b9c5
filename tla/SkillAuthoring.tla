---------------------------- MODULE SkillAuthoring ----------------------------
(***************************************************************************)
(* What is learned from the steps of a run: the lesson a failure leaves,   *)
(* the recovery that validates it, and the skill a success yields, with    *)
(* the gates in between. SkillSettlement takes the answers of these gates  *)
(* as constants and models the transactions around them.                   *)
(*                                                                         *)
(* A name is one word, and slugs and tokens of words are the words. Places *)
(* are points of a line; two are near if they are at most one apart.       *)
(***************************************************************************)
EXTENDS Integers, Sequences, FiniteSetsExt, Subsequences

CONSTANTS
  Tasks,     \* [id, category, entity, item]: the verifier names entity or item, "" for none
  Kinds,     \* steps: [type, ok, status, entity, item, held, place, stalled]
  MinRelevance,  \* policy.min_skill_relevance, in parts of a hundred
  MaxSteps,  \* bound: steps of all runs
  MaxRuns    \* bound: runs

VARIABLES
  task,
  steps,    \* the steps of the run
  status,   \* of the run row
  cited,    \* whether the events of the runs hold knowledge references
  lessons,  \* learning candidates
  proven,   \* lessons that record_success returned for the run
  skills,   \* skill rows, in order
  runs, taken

vars == <<task, steps, status, cited, lessons, proven, skills, runs, taken>>

Init ==
  /\ task \in Tasks /\ steps = <<>> /\ status = "running" /\ cited \in BOOLEAN
  /\ lessons = {} /\ proven = {} /\ skills = <<>> /\ runs = 1 /\ taken = 0

(* ------------------------------------------------------------------------*)
(* The run. SkillSettlement and AgentRun model how it comes about.         *)
(* ------------------------------------------------------------------------*)
Act ==
  /\ status = "running" /\ taken < MaxSteps /\ taken' = taken + 1
  /\ \E k \in Kinds : steps' = Append(steps, k)
  /\ UNCHANGED <<task, status, cited, lessons, proven, skills, runs>>

Finish ==
  /\ status = "running" /\ steps # <<>>
  /\ status' \in {"succeeded", "failed", "task_timeout"}
  /\ UNCHANGED <<task, steps, cited, lessons, proven, skills, runs, taken>>

NextRun ==
  /\ \/ runs < MaxRuns /\ runs' = runs + 1 /\ status' = "running" /\ task' \in Tasks
     \/ runs = MaxRuns /\ status' = "done" /\ UNCHANGED <<runs, task>>
  /\ steps' = <<>> /\ proven' = {} /\ UNCHANGED <<cited, taken>>

(* ------------------------------------------------------------------------*)
(* Lessons.                                                                *)
(* ------------------------------------------------------------------------*)
Engagement == {"move_to_and_engage_combat", "engage_combat"}
Durable == {"no_path", "target_lost", "missing_station", "timeout_no_progress"}
Excluded == {"task_timeout"}

Scope(t) == <<t.category, IF t.entity # "" THEN t.entity ELSE t.item>>
Near(a, b) == a - b \in -1 .. 1

Stalled(s) == s.type = "move_to" /\ s.status = "timeout_no_progress" /\ s.stalled
Stalls(s) == {i \in DOMAIN steps : Stalled(steps[i]) /\ Near(s.place, steps[i].place)}

Sufficient(i) == Stalled(steps[i]) /\ Cardinality(Stalls(steps[i])) >= 2

DurableFailures ==
  {i \in DOMAIN steps : /\ steps[i].status \in Durable
                        /\ steps[i].status = "timeout_no_progress" => Sufficient(i)}
LatestFailure == IF DurableFailures = {} THEN 0 ELSE Max(DurableFailures)

Kind(type, failure) ==
  CASE type = "move_to" \/ failure = "no_path" -> "navigation_recovery"
    [] failure # "no_path" /\ type \in {"equip_item", "scan_entities"} \cup Engagement ->
         "combat_adaptation"
    [] failure # "no_path" /\ type \in {"process_item", "craft_item", "place_block"} ->
         "processing_recovery"
    [] OTHER -> IF failure = "missing_station" THEN "resource_strategy" ELSE "tactical_recovery"

Lesson(i) ==
  [scope |-> Scope(task), type |-> steps[i].type, failure |-> steps[i].status,
   kind |-> Kind(steps[i].type, steps[i].status),
   status |-> IF cited THEN "hypothesized" ELSE "observed",
   support |-> 1, recovery |-> {}, from |-> status, steps |-> steps]

SameLesson(l, m) == l.scope = m.scope /\ l.type = m.type /\ l.failure = m.failure

(* Repeated evidence of another run is merged.                             *)
Merged(l) ==
  [l EXCEPT !.support = @ + 1,
            !.status = IF @ \in {"validated", "promoted"} THEN @ ELSE "corroborated"]
WithFailure(i) ==
  IF \E l \in lessons : SameLesson(l, Lesson(i))
  THEN {IF SameLesson(l, Lesson(i)) THEN Merged(l) ELSE l : l \in lessons}
  ELSE lessons \cup {Lesson(i)}

Classified ==
  /\ LatestFailure # 0
  /\ status \in Excluded => steps[LatestFailure].status = "timeout_no_progress"

RecordFailure ==
  /\ status \in {"failed", "task_timeout"}
  /\ lessons' = IF Classified THEN WithFailure(LatestFailure) ELSE lessons
  /\ NextRun /\ UNCHANGED skills

(* The actions that can adapt the strategy of a failed one.                *)
Family(type) ==
  CASE type = "move_to" -> {"scan_blocks", "dig_block_at", "place_block", "move_to"}
    [] type \in Engagement ->
         {"scan_entities", "equip_item", "consume_item", "use_item"} \cup Engagement
    [] type = "equip_item" -> {"query_inventory", "equip_item"} \cup Engagement
    [] type \in {"process_item", "craft_item"} ->
         {"query_inventory", "scan_blocks", "move_to", "place_block", type}
    [] type = "place_block" -> {"scan_blocks", "move_to", "dig_block_at", "place_block"}
    [] OTHER -> {type}

Recovery(type, after) ==
  {i \in DOMAIN steps : i > after /\ steps[i].ok /\ steps[i].type \in Family(type)}

(* Mutant: the actions before the failure count as its recovery.           *)
AfterAnything(l) == 0

(* For the lesson that the run itself has just taught, only what followed. *)
After(l) ==
  IF LatestFailure # 0 /\ SameLesson(l, Lesson(LatestFailure)) THEN LatestFailure ELSE 0

RecordSuccess ==
  /\ status = "succeeded"
  /\ LET known == IF LatestFailure = 0 THEN lessons ELSE WithFailure(LatestFailure)
         ValidatedNow(l) == /\ l.scope = Scope(task) /\ l.status # "promoted"
                            /\ Recovery(l.type, After(l)) # {}
         Proof(l) == [l EXCEPT !.status = "validated", !.recovery = @ \cup
                        {[by |-> Recovery(l.type, After(l)), steps |-> steps]}]
     IN /\ lessons' = {IF ValidatedNow(l) THEN Proof(l) ELSE l : l \in known}
        /\ proven' = {Proof(l) : l \in {m \in known : ValidatedNow(m)}}
  /\ status' = "settling"
  /\ UNCHANGED <<task, steps, cited, skills, runs, taken>>

(* ------------------------------------------------------------------------*)
(* The evidence of a skill.                                                *)
(* ------------------------------------------------------------------------*)
EntityActions == {"scan_entities", "follow", "fight_entity"} \cup Engagement
Reusable ==
  {"scan_blocks", "scan_dropped_items", "move_to", "dig_block_at", "wait_ticks", "process_item",
   "place_block", "smelt_item", "equip_item", "consume_item", "use_item"} \cup EntityActions
Promotable == Reusable \cup {"craft_item"}

(* The places of the steps that may contribute to the verifier's entity.   *)
Kept ==
  {i \in DOMAIN steps : ~ /\ task.entity # "" /\ steps[i].type \in EntityActions
                          /\ steps[i].entity \notin {"", task.entity}}

Successful == {i \in Kept : steps[i].ok /\ steps[i].type \in Promotable}
Progress == Picked(steps, Successful)
TypesOf(plan) == {plan[k].type : k \in DOMAIN plan}
NamesOf(plan) == (UNION {{plan[k].entity, plan[k].item} : k \in DOMAIN plan}) \ {""}

FailedBefore == \E i \in Kept : ~steps[i].ok

SimpleRecipe == Len(Progress) = 1 /\ Progress[1].type = "craft_item"

Decision ==
  CASE Progress = <<>> -> "no_promotable_progress_action"
    [] SimpleRecipe -> "covered_by_recipe_knowledge"
    [] ~SimpleRecipe /\ Len(Progress) = 1 /\ ~FailedBefore -> "single_step_without_recovery"
    [] TypesOf(Progress) \cap Reusable # {} /\ (Len(Progress) > 1 \/ FailedBefore) ->
         IF FailedBefore THEN "recovered_failure_workflow" ELSE "reusable_workflow"
    [] OTHER -> "low_reuse_signal"

Accepts == Decision \in {"recovered_failure_workflow", "reusable_workflow"}

(* ------------------------------------------------------------------------*)
(* The skill.                                                              *)
(* ------------------------------------------------------------------------*)
Targets == ({task.entity, task.item} \ {""}) \cup NamesOf(Progress)
Primary ==
  CASE task.item # "" -> task.item
    [] task.item = "" /\ task.entity # "" -> task.entity
    [] OTHER -> IF Targets = {} THEN task.id ELSE CHOOSE n \in Targets : TRUE

Prefix(category) ==
  CASE category = "combat" -> "defeat" [] category = "" -> "skill" [] OTHER -> category

Combat == Engagement \cup {"fight_entity"}

Noted(notes, types) == {n \in DOMAIN notes : notes[n] \cap types # {}}

RecoveryNotes(types) ==
  Noted([reroute |-> {"move_to"}, keep_close |-> {"follow"}, other_block |-> {"dig_block_at"},
         scan_drops |-> {"scan_dropped_items", "wait_ticks"}, look_first |-> {"fight_entity"},
         go_ranged |-> {"scan_entities"} \cup Engagement,
         equip_first |-> {"equip_item"} \cup Engagement,
         eat_when_low |-> {"consume_item"} \cup Engagement, refuel |-> {"smelt_item"}], types)

(* The last ones from the inventory when the first of the steps began.     *)
Preconditions(types, held) ==
  Noted([target_block |-> {"scan_blocks", "dig_block_at"},
         pickup_range |-> {"scan_dropped_items", "wait_ticks"},
         recipe_inputs |-> {"craft_item", "process_item"}, furnace |-> {"smelt_item"},
         target_entity |-> {"scan_entities", "follow"} \cup Combat, combat_mode |-> Combat,
         consumable |-> {"consume_item"}], types) \cup (held \ {Primary})

Strategy(types) ==
  Noted([choose_target |-> {"scan_blocks", "move_to", "dig_block_at"},
         scan_drops |-> {"scan_dropped_items", "wait_ticks"}, check_station |-> {"craft_item"},
         find_furnace |-> {"smelt_item"}, confirm_target |-> {"fight_entity"},
         inspect_target |-> {"scan_entities"}, same_entity |-> {"follow"},
         bounded_fight |-> Engagement, eat_before |-> {"consume_item"}], types)

(* What the plan shows of a step: a selection rule in place of coordinates.*)
PlanStep(k) ==
  [type |-> k.type,
   target |-> CASE k.type \in {"scan_blocks", "dig_block_at", "craft_item"} ->
                     IF k.item # "" THEN k.item ELSE Primary
                [] k.type \in {"scan_entities"} \cup Engagement ->
                     IF k.entity # "" THEN k.entity ELSE Primary
                [] k.type = "move_to" -> "selected"
                [] OTHER -> IF k.entity # "" THEN k.entity ELSE k.item]
ParameterizedPlan == [i \in DOMAIN Progress |-> PlanStep(Progress[i])]

ScopeTags == {task.id, task.category} \cup Targets \cup TypesOf(Progress)

Dependencies == Targets \cup TypesOf(Progress)

Triggers ==
  {Primary, task.id, task.category} \cup Targets \cup TypesOf(Progress)
  \cup UNION {{l.failure, l.scope[2]} : l \in proven}

Version(name) == Cardinality({k \in DOMAIN skills : skills[k].name = name}) + 1

Candidate ==
  LET name == <<Prefix(task.category), Primary>>
  IN [name |-> name, version |-> Version(name), task |-> task, status |-> "draft",
      reason |-> IF Accepts THEN Decision ELSE "validated_failure_recovery",
      evidence |-> Successful, plan |-> Progress, source |-> steps,
      shown |-> ParameterizedPlan, needs |-> Preconditions(TypesOf(Progress), Progress[1].held),
      notes |-> RecoveryNotes(TypesOf(Progress)) \cup {l.failure : l \in proven},
      strategy |-> Strategy(TypesOf(Progress)),
      lessons |-> {l.failure : l \in proven},
      triggers |-> Triggers, scope |-> ScopeTags,
      dependencies |-> Dependencies]

(* ------------------------------------------------------------------------*)
(* Duplicates. Similarity is counted in parts of 100 * Unit.               *)
(* ------------------------------------------------------------------------*)
Unit == 60
Jaccard(a, b) ==
  IF a \cup b = {} THEN 0 ELSE (Unit * Cardinality(a \cap b)) \div Cardinality(a \cup b)

PlanTargets(s) == NamesOf(s.plan)

Weighted(a, b) ==
  25 * Jaccard(TypesOf(a.plan), TypesOf(b.plan)) + 25 * Jaccard(PlanTargets(a), PlanTargets(b))
  + 15 * Jaccard(a.triggers, b.triggers) + 15 * Jaccard(a.scope, b.scope)
  + 15 * Jaccard(a.dependencies, b.dependencies) + 5 * Jaccard(Range(a.name), Range(b.name))

Similarity(a, b) ==
  IF a.name = b.name THEN Max({Weighted(a, b), 90 * Unit}) ELSE Weighted(a, b)

Twins(c) == {k \in DOMAIN skills : Similarity(c, skills[k]) >= 82 * Unit}

(* create_candidate, find_duplicates and promote, one job at a time.       *)
Author ==
  /\ status = "settling"
  /\ Progress # <<>> /\ (Accepts \/ proven # {})
  /\ LET c == Candidate
     IN IF Twins(c) = {}
        THEN /\ skills' = Append(skills, [c EXCEPT !.status = "promoted"])
             /\ lessons' = {IF \E l \in proven : SameLesson(l, m)
                            THEN [m EXCEPT !.status = "promoted"] ELSE m : m \in lessons}
        ELSE skills' = Append(skills, c) /\ UNCHANGED lessons
  /\ NextRun

Skip ==
  /\ status = "settling"
  /\ Progress = <<>> \/ ~(Accepts \/ proven # {})
  /\ NextRun /\ UNCHANGED <<lessons, skills>>

(* ------------------------------------------------------------------------*)
(* What a later task is shown: relevance in parts of a hundred.            *)
(* ------------------------------------------------------------------------*)
SemanticTokens(s) ==
  Range(s.name) \cup s.triggers \cup s.scope \cup s.dependencies
  \cup UNION {{s.shown[i].type, s.shown[i].target} : i \in DOMAIN s.shown}
TaskTokens(t) == {t.id, t.category, t.entity, t.item} \ {""}

Coverage(s, t) ==
  (100 * Cardinality(TaskTokens(t) \cap SemanticTokens(s))) \div Cardinality(TaskTokens(t))
Relevance(s, t, blockers) ==
  LET own == IF t.id \in SemanticTokens(s) THEN 100 ELSE Coverage(s, t)
  IN IF blockers \cap SemanticTokens(s) # {} THEN Max({own, 75}) ELSE own

(* The limit on results is above the number of skills here.                *)
Eligible(t, blockers) ==
  {k \in DOMAIN skills : /\ skills[k].status = "promoted"
                         /\ Relevance(skills[k], t, blockers) >= MinRelevance}

Next == Act \/ Finish \/ RecordFailure \/ RecordSuccess \/ Author \/ Skip

Spec == Init /\ [][Next]_vars

(* ------------------------------------------------------------------------*)
(* Properties.                                                             *)
(* ------------------------------------------------------------------------*)
TypeOK ==
  /\ task \in Tasks /\ steps \in Seq(Kinds) /\ cited \in BOOLEAN /\ runs \in 1 .. MaxRuns /\ taken \in 0 .. MaxSteps
  /\ status \in {"running", "succeeded", "failed", "task_timeout", "settling", "done"}
  /\ \A l \in lessons \cup proven :
       /\ l.status \in {"observed", "hypothesized", "corroborated", "validated", "promoted"}
       /\ l.failure \in Durable
  /\ \A k \in DOMAIN skills : skills[k].status \in {"draft", "promoted"}

(* A skill for a task about one entity names no other: what a run does to  *)
(* a mob that merely came along is neither in its plan nor in any of the   *)
(* words it is found by (select_relevant_skill_steps, skills/creation.py). *)
Strangers(s) ==
  {k.entity : k \in {s.source[i] : i \in {j \in DOMAIN s.source : s.source[j].type \in EntityActions}}}
  \ {"", s.task.entity}
SelfDefenceStaysOut ==
  \A k \in DOMAIN skills :
    skills[k].task.entity # "" =>
      /\ \A i \in DOMAIN skills[k].plan : skills[k].plan[i].entity \notin Strangers(skills[k])
      /\ SemanticTokens(skills[k]) \cap Strangers(skills[k]) = {}

(* A skill of a single step comes from a run in which something the skill  *)
(* is about had failed, or which proved a lesson (SkillCreationPolicy).    *)
SingleStepsAreEarned ==
  \A k \in DOMAIN skills :
    LET s == skills[k]
    IN Len(s.plan) = 1 =>
         \/ s.lessons # {}
         \/ \E i \in DOMAIN s.source : /\ ~s.source[i].ok
                                      /\ \/ s.task.entity = ""
                                         \/ s.source[i].entity \in {"", s.task.entity}
                                         \/ s.source[i].type \notin EntityActions

(* A lesson from an attempt that ran out of time, and every lesson about a *)
(* walk without progress, rests on two full attempts at nearly the same    *)
(* place (FailureClassifier.classify, _sufficient_no_progress_evidence).   *)
StallsAreRepeated ==
  \A l \in lessons :
    l.from = "task_timeout" \/ l.failure = "timeout_no_progress" =>
      \E i, j \in DOMAIN l.steps :
        /\ i # j /\ Near(l.steps[i].place, l.steps[j].place)
        /\ \A h \in {i, j} : /\ l.steps[h].type = "move_to" /\ l.steps[h].stalled
                             /\ l.steps[h].status = "timeout_no_progress"

(* A success whose last failure is that of a lesson validates the lesson   *)
(* only by an action that succeeded after it (record_success).             *)
RecoveryFollowsFailure ==
  \A l \in lessons : \A r \in l.recovery : \A i \in DOMAIN r.steps :
    /\ r.steps[i].type = l.type /\ r.steps[i].status = l.failure
    /\ l.failure # "timeout_no_progress"
    /\ \A j \in DOMAIN r.steps : j > i => r.steps[j].status \notin Durable
    => \E j \in r.by : j > i

(* Of skills with one name at most one is promoted without a reviewer, and *)
(* the task that taught a promoted skill is shown it again.                *)
NamesArePromotedOnce ==
  \A j, k \in DOMAIN skills :
    /\ j # k /\ skills[j].status = "promoted" /\ skills[k].status = "promoted"
    => skills[j].name # skills[k].name
SkillsAreFoundAgain ==
  \A k \in DOMAIN skills : skills[k].status = "promoted" => k \in Eligible(skills[k].task, {})

(* Both statements about lessons, and all four about skills.               *)
LessonsAreEarned == StallsAreRepeated /\ RecoveryFollowsFailure
SkillsAreEarned ==
  /\ SelfDefenceStaysOut /\ SingleStepsAreEarned
  /\ NamesArePromotedOnce /\ SkillsAreFoundAgain

(* All of the above, of what record_failure, record_success and            *)
(* create_candidate write after each run.                                  *)
AuthoringIsSound == LessonsAreEarned /\ SkillsAreEarned
=============================================================================
