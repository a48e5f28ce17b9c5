--------------------------- MODULE ContextMemory ---------------------------
(***************************************************************************)
(* What one run remembers for its next prompt: RunContextMemory with its   *)
(* trajectory, knowledge ledger, skill ledger and selected facts, the      *)
(* prompt ContextManager.build makes of it in every turn, the checkpoint   *)
(* that carries it into a resumed run, and the knowledge corpus that       *)
(* editors change while the run goes on.                                   *)
(*                                                                         *)
(* The JSON size of a part is a number from Sizes; what a result says is   *)
(* the number of the process that produced it.                             *)
(***************************************************************************)
EXTENDS Integers, FiniteSets, SequencesExt

CONSTANTS
  MaxSteps,     \* steps of the run
  Interval,     \* budget.checkpoint_interval_steps
  RecentCount,  \* recent_step_count
  MaxSegment,   \* max_segment_steps
  MaxSources,   \* _MAX_MEMORY_SOURCES
  Phases,       \* semantic phases of world actions
  Queries,      \* knowledge actions with their arguments
  Skills,       \* identities of skills, numbers because they are sorted by
  Rankings,     \* results of a skill search: sequences of skills, best first
  MaxSkills,    \* max_retrieved_skills
  Keys,         \* memory keys the model may choose, 0 for one derived from the source
  Sizes,        \* size of a typed entry, a segment, a slim segment, ...
  Budget,       \* max_chars of the whole and of its parts
  MaxLosses,    \* bound: losses of the process
  MaxEdits      \* bound: changes of the corpus

None == "none"
NoStep == -1

VARIABLES
  pc,          \* "build", "choose", "lookup", "lost"
  step,        \* step_index
  context,     \* RunContextMemory
  previous,    \* step of previous_step, the query if it was one
  prompt,      \* what the model is shown in this turn
  lookup,      \* a knowledge action under way
  checkpoint,  \* the stored checkpoint
  corpus,      \* the knowledge chunks in the database
  losses,
  history      \* every executed step of the run: the query or phase, the result

vars == <<pc, step, context, previous, prompt, lookup, checkpoint, corpus, losses, history>>

NoContext == [trajectory |-> <<>>, knowledge |-> {}, skills |-> [s \in {} |-> 0],
              memory |-> [k \in {} |-> 0], sources |-> [s \in {} |-> 0]]
NoPrevious == [step |-> NoStep, query |-> None, revision |-> <<>>]
Unserved == -1
NoLookup == [query |-> None, revision |-> <<>>, asked |-> 0, served |-> Unserved]
NoPrompt == [mode |-> None, previous |-> NoStep, recent |-> {}, merged |-> {}, visible |-> <<>>,
             knowledge |-> {}, skills |-> {}, injected |-> {}, ranked |-> <<>>]

Init ==
  /\ pc = "build" /\ step = 0 /\ context = NoContext /\ previous = NoPrevious
  /\ prompt = NoPrompt /\ lookup = NoLookup /\ losses = 0 /\ history = <<>>
  /\ checkpoint = [step |-> 0, context |-> NoContext, previous |-> NoPrevious]
  /\ corpus = [versions |-> 0, stamp |-> 0, content |-> 0]

(* ------------------------------------------------------------------------*)
(* Projections of the memory into the prompt.                              *)
(* ------------------------------------------------------------------------*)
StepsOf(entries) == {entries[i].step : i \in DOMAIN entries}
LastOf(entries, n) == SubSeq(entries, Len(entries) - n + 1, Len(entries))
(* The newest entry is left to compact_evidence if it is the previous step.*)
Visible(t) == IF t # <<>> /\ previous.step \in {NoStep, Last(t).step} THEN Front(t) ELSE t

(* Consecutive entries of one phase, at most MaxSegment of them.           *)
SegmentCount(entries) ==
  FoldLeft(LAMBDA acc, e : IF acc.phase = e.phase /\ acc.length < MaxSegment
                           THEN [acc EXCEPT !.length = @ + 1]
                           ELSE [count |-> acc.count + 1, phase |-> e.phase, length |-> 1],
           [count |-> 0, phase |-> None, length |-> 0], entries).count

Part(mode, shown, merged, size) ==
  [mode |-> mode, recent |-> StepsOf(shown), merged |-> StepsOf(merged),
   size |-> size + Sizes.entry * Len(shown)]
Recent(visible) == LastOf(visible, IF Len(visible) < RecentCount THEN Len(visible) ELSE RecentCount)
Older(visible) == SubSeq(visible, 1, Len(visible) - Len(Recent(visible)))
Latest(visible) == IF visible = <<>> THEN <<>> ELSE <<Last(visible)>>

(* Full evidence of the recent steps and segments of the older ones.       *)
Hierarchical(visible) ==
  Part("hierarchical", Recent(visible), Older(visible), Sizes.segment * SegmentCount(Older(visible)))
(* Slim segments and the last step.                                        *)
Aggressive(visible) ==
  Part("aggressive", Latest(visible), Older(visible), Sizes.slim * SegmentCount(Older(visible)))
(* One summary of all steps, and the last step.                            *)
Episode(visible) == Part("episode", Latest(visible), visible, Sizes.episode)

TrajectoryPayload(t, budget) ==
  LET visible == Visible(t)
  IN IF Hierarchical(visible).size <= budget THEN Hierarchical(visible)
     ELSE IF Aggressive(visible).size <= budget THEN Aggressive(visible) ELSE Episode(visible)

(* Entries newest first, each in full or in brief if that fits, else not.  *)
Newer(a, b) == a.last > b.last \/ (a.last = b.last /\ a.id > b.id)
Cost(full, brief, room) ==
  IF full <= room THEN full ELSE IF brief <= room THEN brief ELSE 0
(* The size used up by the first entries, for any number of them.          *)
Used(ordered, full, brief, budget) ==
  LET used[k \in 0 .. Len(ordered)] ==
        IF k = 0 THEN 0 ELSE used[k - 1] + Cost(full, brief, budget - used[k - 1])
  IN used
Fits(e, entries, full, brief, budget) ==
  LET ordered == SetToSortSeq(entries, Newer)
      used == Used(ordered, full, brief, budget)
  IN \E k \in DOMAIN ordered :
       ordered[k] = e /\ (used[k - 1] + full <= budget \/ used[k - 1] + brief <= budget)
Project(entries, full, brief, budget) ==
  [shown |-> {e.id : e \in {x \in entries : Fits(x, entries, full, brief, budget)}},
   size |-> Used(SetToSortSeq(entries, Newer), full, brief, budget)[Cardinality(entries)]]

SkillEntries == {[id |-> s, last |-> context.skills[s]] : s \in DOMAIN context.skills}
SkillPayload(budget) == Project(SkillEntries, Sizes.skill, Sizes.brief, budget)

(* The result the model has just been given is not repeated.               *)
KnowledgeEntries ==
  {[id |-> <<e.last, e.query, e.revision>>, last |-> e.last] : e \in
     {e \in context.knowledge : <<e.query, e.revision>> # <<previous.query, previous.revision>>}}
KnowledgePayload(details, budget) ==
  Project(KnowledgeEntries, IF details THEN Sizes.fact ELSE Sizes.hint, Sizes.hint, budget)
MemoryEntries ==
  {[id |-> k, last |-> context.memory[k].updated] : k \in DOMAIN context.memory}
MemoryPayload == Project(MemoryEntries, Sizes.note, Sizes.note, Budget.memory)

Larger(a, b) == IF a > b THEN a ELSE b

(* RunContextMemory.context_payload: knowledge gives way first, then skills.*)
ContextPayload ==
  LET trajectory == TrajectoryPayload(context.trajectory,
        Larger(Budget.floor, Budget.total - Budget.knowledge - Budget.skills - Budget.memory))
      details == trajectory.mode = "hierarchical" /\ Len(context.trajectory) <= 8
      facts == KnowledgePayload(details, IF details THEN Budget.knowledge
                                         ELSE Budget.knowledge \div 3)
      skills == SkillPayload(Budget.skills)
      fixed == trajectory.size + MemoryPayload.size
      excess == fixed + skills.size - Budget.total
  IN [trajectory |-> trajectory,
      knowledge |-> IF fixed + skills.size + facts.size <= Budget.total THEN facts.shown ELSE {},
      skills |-> IF excess <= 0 THEN skills.shown
                 ELSE SkillPayload(Larger(0, Budget.skills - excess)).shown]
(* Mutant: what the ledger holds counts as shown, also if it was evicted.  *)
SelectInjectionsOnce(ranked, visible) ==
  LET others(i) == {ranked[j] : j \in 1 .. i - 1} \ (DOMAIN context.skills)
  IN {ranked[i] : i \in {k \in DOMAIN ranked : ranked[k] \notin DOMAIN context.skills
                                               /\ Cardinality(others(k)) < MaxSkills}}

(* Of the skills a search returns, the first MaxSkills that this prompt    *)
(* does not show already.                                                  *)
SelectInjections(ranked, visible) ==
  LET others(i) == {ranked[j] : j \in 1 .. i - 1} \ visible
  IN {ranked[i] : i \in {k \in DOMAIN ranked : ranked[k] \notin visible
                                               /\ Cardinality(others(k)) < MaxSkills}}

(* RunSkillLedger.record: a skill shown again moves to the newest place.   *)
Injected(injected) ==
  [s \in DOMAIN context.skills \cup injected |-> IF s \in injected THEN step ELSE context.skills[s]]

(* ContextManager.build: the prompt of this turn; what it injects is       *)
(* remembered in the skill ledger.                                         *)
Build ==
  /\ pc = "build" /\ step < MaxSteps /\ pc' = "choose"
  /\ \E ranked \in Rankings :
       LET shown == ContextPayload
           injected == SelectInjections(ranked, shown.skills)
       IN /\ prompt' = [mode |-> shown.trajectory.mode, previous |-> previous.step,
                        recent |-> shown.trajectory.recent, merged |-> shown.trajectory.merged,
                        visible |-> Visible(context.trajectory), knowledge |-> shown.knowledge,
                        skills |-> shown.skills, injected |-> injected, ranked |-> ranked]
          /\ context' = [context EXCEPT !.skills = Injected(injected)]
  /\ UNCHANGED <<step, previous, lookup, checkpoint, corpus, losses, history>>

(* ------------------------------------------------------------------------*)
(* The end of a step: its result becomes a source, facts the model selected*)
(* are resolved against the sources, the trajectory grows.                 *)
(* ------------------------------------------------------------------------*)
Newest(n, steps) == {s \in steps : Cardinality({t \in steps : t > s}) < n}
Restrict2(f, S) == [x \in DOMAIN f \cap S |-> f[x]]
Put(f, k, v) == [x \in DOMAIN f \cup {k} |-> IF x = k THEN v ELSE f[x]]
(* The result of this step is kept; the oldest results go.                 *)
RecordSource(c, result) ==
  LET all == Put(c.sources, step, result)
  IN [c EXCEPT !.sources = Restrict2(all, Newest(MaxSources, DOMAIN all))]
(* A fact is the value under a path of a retained source, never the words  *)
(* of the model; a source that has gone is refused.                        *)
ApplyUpdate(c, key, source) ==
  IF source \notin DOMAIN c.sources THEN c
  ELSE LET created == IF key \in DOMAIN c.memory THEN c.memory[key].created ELSE step
           fact == [source |-> source, value |-> c.sources[source], created |-> created,
                    updated |-> step]
       IN [c EXCEPT !.memory = Put(@, key, fact)]

RecordStep(c, phase) ==
  IF phase = None THEN c
  ELSE [c EXCEPT !.trajectory = Append(@, [step |-> step, phase |-> phase])]

SaveCheckpoint(c, p) ==
  IF (step + 1) % Interval = 0
  THEN checkpoint' = [step |-> step + 1, context |-> c, previous |-> p]
  ELSE UNCHANGED checkpoint

(* The model may have asked for one fact to be kept.                       *)
KeyOf(key, source) == IF key = 0 THEN -source - 1 ELSE key
Conclude(c, phase, p) ==
  /\ \E wish \in {<<>>} \cup (Keys \X (0 .. step)) :
       LET kept == RecordSource(c, losses)
           noted == IF wish = <<>> THEN kept
                    ELSE ApplyUpdate(kept, KeyOf(wish[1], wish[2]), wish[2])
           whole == RecordStep(noted, phase)
       IN context' = whole /\ SaveCheckpoint(whole, p)
  /\ previous' = p
  /\ history' = Append(history, [phase |-> phase, value |-> losses])
  /\ step' = step + 1 /\ pc' = "build"

Act ==
  /\ pc = "choose"
  /\ \E phase \in Phases :
       Conclude(context, phase, [step |-> step, query |-> None, revision |-> <<>>])
  /\ UNCHANGED <<prompt, lookup, corpus, losses>>
(* ------------------------------------------------------------------------*)
(* Knowledge: the revision of the corpus is read before the ledger and     *)
(* before the corpus, and names what is found there.                       *)
(* ------------------------------------------------------------------------*)
Revision == <<corpus.versions, corpus.stamp>>

Ask ==
  /\ pc = "choose" /\ pc' = "lookup"
  /\ \E q \in Queries :
       lookup' = [query |-> q, revision |-> Revision, asked |-> corpus.content, served |-> Unserved]
  /\ UNCHANGED <<step, context, previous, prompt, checkpoint, corpus, losses, history>>

Cached(l) == {e \in context.knowledge : e.query = l.query /\ e.revision = l.revision}

(* Results for the same query under another revision are dropped.          *)
RecordKnowledge(c, l, content) ==
  LET others == {e \in c.knowledge : e.query # l.query}
  IN [c EXCEPT !.knowledge = others \cup
        {[query |-> l.query, revision |-> l.revision, content |-> content, last |-> step]}]

(* KnowledgeToolDispatcher.dispatch: what the corpus holds now.             *)
Dispatch(query) == corpus.content

Answer ==
  /\ pc = "lookup"
  /\ LET hits == Cached(lookup)
         content == IF hits = {} THEN Dispatch(lookup.query) ELSE (CHOOSE e \in hits : TRUE).content
     IN /\ lookup' = [lookup EXCEPT !.served = content]
        /\ Conclude(RecordKnowledge(context, lookup, content), None,
                    [step |-> step, query |-> lookup.query, revision |-> lookup.revision])
  /\ UNCHANGED <<prompt, corpus, losses>>

(* ------------------------------------------------------------------------*)
(* Editors and the seeding of static knowledge, which does not count up the*)
(* versions of the chunks it overwrites; loss and resume.                  *)
(* ------------------------------------------------------------------------*)
Edit ==
  /\ corpus.content < MaxEdits
  /\ \E counted \in {0, 1} :
       corpus' = [versions |-> corpus.versions + counted, stamp |-> corpus.stamp + 1,
                  content |-> corpus.content + 1]
  /\ UNCHANGED <<pc, step, context, previous, prompt, lookup, checkpoint, losses, history>>

Lose ==
  /\ pc # "lost" /\ losses < MaxLosses
  /\ pc' = "lost" /\ losses' = losses + 1
  /\ UNCHANGED <<step, context, previous, prompt, lookup, checkpoint, corpus, history>>

Restored(c) ==
  [c EXCEPT !.sources = Restrict2(@, Newest(MaxSources, DOMAIN @))]
Resume ==
  /\ pc = "lost" /\ pc' = "build"
  /\ step' = checkpoint.step /\ context' = Restored(checkpoint.context)
  /\ previous' = checkpoint.previous
  /\ prompt' = NoPrompt /\ lookup' = NoLookup
  /\ history' = SubSeq(history, 1, checkpoint.step)
  /\ UNCHANGED <<checkpoint, corpus, losses>>

Next == Build \/ Act \/ Ask \/ Answer \/ Edit \/ Lose \/ Resume
Spec == Init /\ [][Next]_vars

(* ------------------------------------------------------------------------*)
(* Properties.                                                             *)
(* ------------------------------------------------------------------------*)
TypeOK ==
  /\ pc \in {"build", "choose", "lookup", "lost"} /\ step \in 0 .. MaxSteps
  /\ losses \in 0 .. MaxLosses /\ corpus.content \in 0 .. MaxEdits
  /\ DOMAIN context.sources \subseteq 0 .. MaxSteps - 1
  /\ Cardinality(DOMAIN context.sources) <= MaxSources
  /\ DOMAIN context.skills \subseteq Skills
  /\ checkpoint.step <= step /\ Len(history) = step

WorldSteps == {s \in 0 .. step - 1 : history[s + 1].phase # None}
Shown == prompt.recent \cup prompt.merged \cup {prompt.previous}
Lost == IF prompt.mode = "aggressive" /\ RecentCount > 1 /\ Len(prompt.visible) > 1
        THEN StepsOf(Recent(prompt.visible)) ELSE {}

(* Whatever was executed before this turn is in front of the model, as the *)
(* previous step, as a recent step or merged with others, also when queries*)
(* and a resume lie in between; aggressive compression alone drops steps   *)
(* that are recent without being the last.                                 *)
EvidenceReachesModel == pc \in {"choose", "lookup"} => WorldSteps \subseteq Shown \cup Lost

(* Nothing is shown twice: no step, no skill, no knowledge result beside   *)
(* its older version or beside the previous step it came from; and a skill *)
(* that the search ranks among the first is shown one way or the other,    *)
(* also after the ledger had to evict it.                                  *)
ShownOnce ==
  pc \in {"choose", "lookup"} =>
    /\ prompt.recent \cap prompt.merged \subseteq
         (IF prompt.mode = "episode" THEN prompt.recent ELSE {})
    /\ prompt.previous \notin prompt.recent \cup prompt.merged
    /\ prompt.skills \cap prompt.injected = {}
    /\ \A a, b \in prompt.knowledge : a[2] = b[2] => a = b
    /\ \A i \in DOMAIN prompt.ranked : i <= MaxSkills =>
         prompt.ranked[i] \in prompt.skills \cup prompt.injected

(* A knowledge answer is never older than the corpus was when it was asked *)
(* for, wherever edits and seedings fall between the reads.                *)
CacheIsCurrent == lookup.served # Unserved => lookup.served >= lookup.asked

(* Every remembered fact is what the step it names really returned in the  *)
(* history that counts, not what a lost process has seen there.            *)
MemoryIsGrounded ==
  pc # "lost" => \A k \in DOMAIN context.memory :
    LET fact == context.memory[k]
    IN fact.source < step /\ fact.value = history[fact.source + 1].value

(* All of the above, of each prompt that ContextManager.build hands to the *)
(* model and of the ledgers it is built from.                              *)
ContextIsSound == EvidenceReachesModel /\ ShownOnce /\ CacheIsCurrent /\ MemoryIsGrounded
=============================================================================
