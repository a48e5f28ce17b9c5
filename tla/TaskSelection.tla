----------------------------- MODULE TaskSelection -----------------------------
(***************************************************************************)
(* How the week 10 script chooses the tasks of a job and puts them into    *)
(* waves: a batch of tasks that differ, with places for each category in   *)
(* proportion, and waves in which no two tasks are too similar.            *)
(*                                                                         *)
(* A task is its place in the order of task ids, a category its place in   *)
(* the alphabet. Similarity is counted in parts of 100 * Unit, exactly if  *)
(* two sets of features have no more than four members together.           *)
(***************************************************************************)
EXTENDS Integers, SequencesExt, FiniteSetsExt, Subsequences

CONSTANTS
  Kinds,      \* descriptors: [category, family, goal, tags, actions, targets]
  Requests,   \* --task-id, <<>> for none
  Sizes,      \* --diverse-batch-size, NoSize for none
  Workers,    \* --worker-concurrency
  Thresholds, \* --max-task-similarity
  MaxTasks    \* bound: tasks in the manifests

VARIABLES
  catalogue,  \* the task descriptors, in order of their ids
  args,
  phase,      \* "choose", "quotas", "batch", "plan", "wave", "done", "failed"
  quotas,     \* places of each category
  groups,     \* batches still to be selected: [tasks, size]
  remaining, batch, selected,  \* as in select_batch and _select_task_ids
  wave, waves

vars == <<catalogue, args, phase, quotas, groups, remaining, batch, selected, wave, waves>>

NoSize == 100
Unit == 12

Init ==
  /\ \E n \in 1 .. MaxTasks : catalogue \in [1 .. n -> Kinds]
  /\ args \in [requested : Requests, size : Sizes, stratified : BOOLEAN, workers : Workers,
               diverse : BOOLEAN, threshold : Thresholds, without : {0, 1}]
  /\ Range(args.requested) \subseteq DOMAIN catalogue
  /\ phase = "choose" /\ quotas = <<>> /\ groups = <<>> /\ remaining = <<>> /\ batch = <<>>
  /\ selected = <<>> /\ wave = <<>> /\ waves = <<>>

(* ------------------------------------------------------------------------*)
(* Similarity.                                                             *)
(* ------------------------------------------------------------------------*)
Jaccard(a, b) ==
  IF a \cup b = {} THEN 0 ELSE (Unit * Cardinality(a \cap b)) \div Cardinality(a \cup b)
Same(a, b) == IF a # 0 /\ a = b THEN Unit ELSE 0

Score(t, u) ==
  LET a == catalogue[t]
      b == catalogue[u]
  IN 15 * Same(a.category, b.category) + 5 * Same(a.family, b.family)
     + 30 * Jaccard(a.goal, b.goal) + 20 * Jaccard(a.tags, b.tags)
     + 15 * Jaccard(a.actions, b.actions) + 15 * Jaccard(a.targets, b.targets)

(* Mutant: a task is compared with the first of the chosen ones only.      *)
ClosestToFirst(t, chosen) == Score(t, chosen[1])

Closest(t, chosen) == Max({Score(t, chosen[i]) : i \in DOMAIN chosen})
Penalty(t, chosen) == IF Closest(t, chosen) > args.threshold THEN 1 ELSE 0

Less(s, t) == \E i \in DOMAIN s : s[i] < t[i] /\ \A j \in 1 .. i - 1 : s[j] = t[j]
(* The place of the key that sorts first.                                  *)
Least(keys) == CHOOSE i \in DOMAIN keys : \A j \in DOMAIN keys : ~Less(keys[j], keys[i])

(* ------------------------------------------------------------------------*)
(* _select_task_ids.                                                       *)
(* ------------------------------------------------------------------------*)
Candidates ==
  IF args.requested # <<>> THEN args.requested
  ELSE Ascending({t \in DOMAIN catalogue : catalogue[t].category # args.without})
Counted == Range(Candidates)

(* The places of a category in a list of tasks.                            *)
InCategory(tasks, c) == {i \in DOMAIN tasks : catalogue[tasks[i]].category = c}

Fail == phase' = "failed" /\ UNCHANGED <<catalogue, args, quotas, groups, remaining, batch, selected,
                                         wave, waves>>

Choose ==
  /\ phase = "choose"
  /\ IF args.size = NoSize \/ args.size = Len(Candidates)
     THEN selected' = Candidates /\ phase' = "plan" /\ UNCHANGED groups
     ELSE /\ phase' = (IF args.stratified THEN "quotas" ELSE "batch") /\ UNCHANGED selected
          /\ groups' = (IF args.stratified THEN <<>>
                        ELSE <<[tasks |-> Candidates, size |-> args.size]>>)
  /\ UNCHANGED <<catalogue, args, quotas, remaining, batch, wave, waves>>

(* ------------------------------------------------------------------------*)
(* Largest remainders: _proportional_category_quotas.                      *)
(* ------------------------------------------------------------------------*)
Categories == {catalogue[t].category : t \in Counted}
Count(c) == Cardinality({t \in Counted : catalogue[t].category = c})
Floor(c) == (args.size * Count(c)) \div Cardinality(Counted)
Remainder(c) == (args.size * Count(c)) % Cardinality(Counted)

Left == args.size - Total([c \in Categories |-> Floor(c)])
Unfilled == {c \in Categories : Floor(c) < Count(c)}

(* The places that are left go round the categories, the largest remainder *)
(* first. There are fewer of them than categories, and a category with a   *)
(* remainder has a task to spare, so that one round is enough.             *)
Quota(c) ==
  LET before == {d \in Unfilled : Less(<<-Remainder(d), d>>, <<-Remainder(c), c>>)}
  IN IF c \in Unfilled /\ Cardinality(before) < Left THEN Floor(c) + 1 ELSE Floor(c)

Wanted == {c \in Categories : Quota(c) > 0}
Group(c) == [tasks |-> Picked(Candidates, InCategory(Candidates, c)), size |-> Quota(c)]

Quotas ==
  /\ phase = "quotas"
  /\ IF args.size <= 0 \/ args.size > Cardinality(Counted) THEN Fail
     ELSE /\ quotas' = [c \in Categories |-> Quota(c)] /\ phase' = "batch"
          /\ groups' = [i \in 1 .. Cardinality(Wanted) |-> Group(Nth(Wanted, i))]
          /\ UNCHANGED <<catalogue, args, remaining, batch, selected, wave, waves>>

(* ------------------------------------------------------------------------*)
(* DiverseBatchPlanner.                                                    *)
(* ------------------------------------------------------------------------*)
BeginBatch ==
  /\ phase = "batch" /\ groups # <<>> /\ remaining = <<>> /\ batch = <<>>
  /\ IF Head(groups).size <= 0 THEN Fail
     ELSE /\ remaining' = Sorted(Head(groups).tasks)
          /\ IF remaining' = <<>> THEN groups' = Tail(groups) ELSE UNCHANGED groups
          /\ UNCHANGED <<catalogue, args, phase, quotas, batch, selected, wave, waves>>

FirstKey(t) == <<IF "standard" \in catalogue[t].tags THEN 0 ELSE 1, catalogue[t].category, t>>
Alike(t) == Cardinality(InCategory(batch, catalogue[t].category))
BatchKey(t) == <<Penalty(t, batch), Closest(t, batch), Alike(t), t>>

Without(tasks, i) == RemoveAt(tasks, i)

(* The threshold is no bar here: a task too similar comes last.            *)
Pick ==
  /\ phase = "batch" /\ remaining # <<>> /\ Len(batch) < Head(groups).size
  /\ LET i == Least([k \in DOMAIN remaining |->
                      IF batch = <<>> THEN FirstKey(remaining[k]) ELSE BatchKey(remaining[k])])
     IN batch' = Append(batch, remaining[i]) /\ remaining' = Without(remaining, i)
  /\ UNCHANGED <<catalogue, args, phase, quotas, groups, selected, wave, waves>>

EndBatch ==
  /\ phase = "batch" /\ batch # <<>> /\ (remaining = <<>> \/ Len(batch) >= Head(groups).size)
  /\ selected' = selected \o batch /\ groups' = Tail(groups) /\ remaining' = <<>> /\ batch' = <<>>
  /\ UNCHANGED <<catalogue, args, phase, quotas, wave, waves>>

BatchesDone ==
  /\ phase = "batch" /\ groups = <<>> /\ phase' = "plan"
  /\ UNCHANGED <<catalogue, args, quotas, groups, remaining, batch, selected, wave, waves>>

(* ------------------------------------------------------------------------*)
(* DiverseWavePlanner.                                                     *)
(* ------------------------------------------------------------------------*)
WaveSize == Min({args.workers, Len(selected)})

Plan ==
  /\ phase = "plan"
  /\ IF selected = <<>> THEN Fail
     ELSE /\ \/ /\ WaveSize <= 1 \/ ~args.diverse
                /\ waves' = <<selected>> /\ phase' = "done" /\ UNCHANGED remaining
             \/ /\ WaveSize > 1 /\ args.diverse /\ ~IsInjective(selected)
                /\ phase' = "failed" /\ UNCHANGED <<remaining, waves>>
             \/ /\ WaveSize > 1 /\ args.diverse /\ IsInjective(selected)
                /\ remaining' = selected /\ phase' = "wave" /\ UNCHANGED waves
          /\ UNCHANGED <<catalogue, args, quotas, groups, batch, selected, wave>>

Anchor ==
  /\ phase = "wave" /\ wave = <<>> /\ remaining # <<>>
  /\ wave' = <<Head(remaining)>> /\ remaining' = Tail(remaining)
  /\ UNCHANGED <<catalogue, args, phase, quotas, groups, batch, selected, waves>>

WaveKey(t) == <<Penalty(t, wave), Closest(t, wave), t>>
Nearest == Least([i \in DOMAIN remaining |-> WaveKey(remaining[i])])
Open == remaining # <<>> /\ Len(wave) < WaveSize /\ Penalty(remaining[Nearest], wave) = 0

Join ==
  /\ phase = "wave" /\ wave # <<>> /\ Open
  /\ wave' = Append(wave, remaining[Nearest]) /\ remaining' = RemoveAt(remaining, Nearest)
  /\ UNCHANGED <<catalogue, args, phase, quotas, groups, batch, selected, waves>>

(* The wave is full, or every task that is left is too similar.            *)
CloseWave ==
  /\ phase = "wave" /\ wave # <<>> /\ ~Open
  /\ waves' = Append(waves, wave) /\ wave' = <<>>
  /\ phase' = (IF remaining = <<>> THEN "done" ELSE "wave")
  /\ UNCHANGED <<catalogue, args, quotas, groups, remaining, batch, selected>>

Next ==
  \/ Choose \/ Quotas \/ BeginBatch \/ Pick \/ EndBatch \/ BatchesDone
  \/ Plan \/ Anchor \/ Join \/ CloseWave

Spec == Init /\ [][Next]_vars

(* ------------------------------------------------------------------------*)
(* Properties.                                                             *)
(* ------------------------------------------------------------------------*)
TypeOK ==
  /\ phase \in {"choose", "quotas", "batch", "plan", "wave", "done", "failed"}
  /\ Len(batch) <= Len(Candidates) /\ Len(wave) <= Len(selected)
  /\ Range(remaining) \cup Range(selected) \subseteq DOMAIN catalogue

(* The category quotas share out the whole batch, no category gets more    *)
(* than its tasks, and each is within one place of its exact share.        *)
QuotasAreProportional ==
  quotas # <<>> =>
    LET total == Cardinality(Counted)
    IN /\ Total(quotas) = args.size
       /\ \A c \in DOMAIN quotas :
            /\ quotas[c] <= Count(c)
            /\ quotas[c] * total - args.size * Count(c) \in 1 - total .. total - 1

(* The batch has as many tasks as asked for, or all there are; without     *)
(* repetitions unless the request repeats one; in each category its quota. *)
BatchIsAsAsked ==
  phase \in {"plan", "wave", "done"} =>
    /\ Range(selected) \subseteq Counted
    /\ Len(selected) = IF args.size = NoSize \/ args.size > Len(Candidates)
                       THEN Len(Candidates) ELSE args.size
    /\ IsInjective(Candidates) => IsInjective(selected)
    /\ \A c \in DOMAIN quotas :
         Cardinality(InCategory(selected, c)) = quotas[c]

(* Waves of several workers hold every selected task once, never more      *)
(* tasks than workers, and no two that are too similar; and a wave has a   *)
(* place left only if each task after it was too similar to one of its own.*)
WavesKeepApart ==
  phase = "done" /\ WaveSize > 1 /\ args.diverse =>
    /\ UNION {Range(waves[w]) : w \in DOMAIN waves} = Range(selected)
    /\ \A w \in DOMAIN waves :
         /\ Len(waves[w]) <= args.workers /\ IsInjective(waves[w])
         /\ \A t, u \in Range(waves[w]) : t # u => Score(t, u) <= args.threshold
         /\ \A v \in w + 1 .. Len(waves) : \A t \in Range(waves[v]) :
              /\ t \notin Range(waves[w])
              /\ Len(waves[w]) < WaveSize =>
                   \E u \in Range(waves[w]) : Score(t, u) > args.threshold

(* All of the above: the choice of a batch, its quotas and its waves.      *)
SelectionIsSound == QuotasAreProportional /\ BatchIsAsAsked /\ WavesKeepApart
=============================================================================
