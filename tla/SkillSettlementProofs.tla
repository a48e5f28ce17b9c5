----------------------- MODULE SkillSettlementProofs -----------------------
(* Theorems about SkillSettlement for any jobs, batches, lessons, names    *)
(* and bounds: what the two tables keep while several jobs settle, are     *)
(* lost and settle again, and reviewers act in between.                    *)
EXTENDS SkillSettlement, FiniteSetTheorems, WellFoundedInduction, TLAPS

(* A non-empty set of naturals that is bounded has a greatest member. *)
LEMMA GreatestExists ==
  ASSUME NEW S \in SUBSET Nat, S # {}, NEW m \in Nat, \A v \in S : v <= m
  PROVE  \E v \in S : \A u \in S : u <= v
<1> DEFINE T == {n \in Nat : \A v \in S : v <= n}
           Less == {ss \in Nat \X Nat : ss[1] < ss[2]}
<1>1. T \subseteq Nat /\ T # {}
  OBVIOUS
<1>2. PICK n \in T : \A y \in T : ~ (<<y, n>> \in Less)
  <2>1. IsWellFoundedOn(Less, Nat)
    BY NatLessThanWellFounded DEF OpToRel
  <2> HIDE DEF T, Less
  <2>2. QED
    BY <1>1, <2>1, WFMin
<1>3. \A y \in T : ~ (y < n)
  BY <1>1, <1>2
<1>4. CASE n \in S
  BY <1>4
<1>5. CASE n \notin S
  <2>1. \A v \in S : v < n
    BY <1>5
  <2>2. n - 1 \in Nat
    <3>1. PICK v \in S : v < n /\ v \in Nat /\ n \in Nat
      BY <2>1
    <3>2. QED
      BY <3>1
  <2>3. n - 1 \in T
    BY <2>1, <2>2
  <2>4. QED
    BY <2>3, <1>3
<1>6. QED
  BY <1>4, <1>5

(* Some number bounds the versions in the table. *)
VersionsBounded == \E m \in Nat : \A k \in skills : k.version <= m

(* The version of a row that is about to be inserted is a real one. *)
InsertsVersion == \A j \in Jobs : pc[j] = "insert" => version[j] \in Nat \ {0}

TypedTables == TypeOK /\ VersionsBounded /\ InsertsVersion

LEMMA NextVersionType ==
  ASSUME TypeOK, VersionsBounded, NEW name
  PROVE  NextVersion(name) \in Nat \ {0}
<1>1. CASE Versions(name) = {}
  BY <1>1 DEF NextVersion
<1>2. CASE Versions(name) # {}
  <2>1. Versions(name) \in SUBSET Nat
    BY DEF TypeOK, Skill, Versions
  <2>2. PICK m \in Nat : \A v \in Versions(name) : v <= m
    BY DEF VersionsBounded, Versions
  <2>3. \E v \in Versions(name) : \A u \in Versions(name) : u <= v
    BY <1>2, <2>1, <2>2, GreatestExists
  <2>4. QED
    BY <1>2, <2>1, <2>3 DEF NextVersion
<1>3. QED
  BY <1>1, <1>2

LEMMA InitTyped == Init => TypedTables
<1> SUFFICES ASSUME Init PROVE TypedTables
  OBVIOUS
<1>1. Unwritten \in Lesson
  BY DEF Unwritten, Lesson, LessonStatuses
<1>2. TypeOK
  BY <1>1, RunsAssumption DEF Init, TypeOK
<1>3. VersionsBounded /\ InsertsVersion
  BY DEF Init, VersionsBounded, InsertsVersion
<1>4. QED
  BY <1>2, <1>3 DEF TypedTables

(* The lessons keep their shape when a run supports or proves them. *)
LEMMA UpsertType ==
  ASSUME NEW lesson \in Lesson, NEW r \in Runs
  PROVE  Upsert(lesson, r) \in Lesson
  BY DEF Upsert, Lesson, LessonStatuses, Open, Unwritten

LEMMA SupportedType ==
  ASSUME lessons \in [Signatures -> Lesson], NEW r \in Runs
  PROVE  Supported(r) \in [Signatures -> Lesson]
<1>1. Failure[r] # NoSignature => Failure[r] \in Signatures
  BY RunsAssumption
<1>2. QED
  BY <1>1, UpsertType DEF Supported

LEMMA ValidateType ==
  ASSUME NEW lesson \in Lesson, NEW r \in Runs
  PROVE  Validate(lesson, r) \in Lesson
  BY DEF Validate, Lesson, LessonStatuses, Open

LEMMA DoneWithType ==
  ASSUME TypeOK, NEW j \in Jobs, DoneWith(j), rest[j] # <<>>
  PROVE  /\ pc' \in [Jobs -> {"down", "failures", "successes", "create", "insert",
                              "dedup", "promote", "mark", "done"}]
         /\ rest' \in [Jobs -> Seq(Runs)]
         /\ pc'[j] = "create"
         /\ \A i \in Jobs \ {j} : pc'[i] = pc[i] /\ rest'[i] = rest[i]
  BY DEF DoneWith, TypeOK

(* Every step of a job keeps the shape of tables and memory. *)
LEMMA JobStepTyped ==
  ASSUME TypedTables, NEW j \in Jobs, JobStep(j)
  PROVE  TypeOK' /\ InsertsVersion'
<1> USE DEF TypedTables, InsertsVersion, tables, memory, bounds
<1>1. CASE Start(j)
  BY <1>1, RunsAssumption DEF Start, TypeOK
<1>2. CASE NextPass(j)
  BY <1>2, RunsAssumption DEF NextPass, TypeOK
<1>3. CASE PassOver(j)
  BY <1>3 DEF PassOver, TypeOK
<1>4. CASE RecordFailure(j)
  <2>1. Head(rest[j]) \in Runs
    BY <1>4 DEF RecordFailure, TypeOK
  <2>2. lessons' \in [Signatures -> Lesson]
    BY <1>4, <2>1, SupportedType DEF RecordFailure, TypeOK
  <2>3. QED
    BY <1>4, <2>2 DEF RecordFailure, TypeOK
<1>5. CASE RecordSuccess(j)
  <2> DEFINE r == Head(rest[j])
  <2>1. r \in Runs
    BY <1>5 DEF RecordSuccess, TypeOK
  <2>2. Supported(r) \in [Signatures -> Lesson]
    BY <2>1, SupportedType DEF TypeOK
  <2>3. \A s \in Signatures : Validate(Supported(r)[s], r) \in Lesson
    BY <2>1, <2>2, ValidateType
  <2>4. lessons' \in [Signatures -> Lesson]
    BY <1>5, <2>2, <2>3 DEF RecordSuccess
  <2>5. Proven(r) \in SUBSET Signatures
    BY <2>1, RunsAssumption DEF Proven
  <2>6. learned' \in [Jobs -> [Runs -> SUBSET Signatures]]
    BY <1>5, <2>1, <2>5 DEF RecordSuccess, TypeOK
  <2>7. QED
    BY <1>5, <2>4, <2>6 DEF RecordSuccess, TypeOK
<1>6. CASE ReadForCreate(j)
  <2> DEFINE r == Head(rest[j])
  <2>1. CASE DoneWith(j) /\ UNCHANGED version
    BY <1>6, <2>1, DoneWithType DEF ReadForCreate, TypeOK
  <2>2. ASSUME NEW k \in RowsOf(r), pc' = [pc EXCEPT ![j] = "dedup"],
               version' = [version EXCEPT ![j] = k.version], UNCHANGED rest
        PROVE  TypeOK' /\ InsertsVersion'
    <3>1. k.version \in Nat
      BY DEF RowsOf, TypeOK, Skill
    <3>2. QED
      BY <1>6, <2>2, <3>1 DEF ReadForCreate, TypeOK
  <2>3. CASE /\ pc' = [pc EXCEPT ![j] = "insert"]
             /\ version' = [version EXCEPT ![j] = NextVersion(Name[r])]
             /\ UNCHANGED rest
    BY <1>6, <2>3, NextVersionType DEF ReadForCreate, TypeOK
  <2>4. QED
    BY <1>6, <2>1, <2>2, <2>3 DEF ReadForCreate
<1>7. CASE Insert(j)
  <2>1. CASE version[j] \in Versions(Name[Head(rest[j])])
    BY <1>7, <2>1, DoneWithType DEF Insert, TypeOK
  <2>2. CASE version[j] \notin Versions(Name[Head(rest[j])])
    <3>1. [source |-> Head(rest[j]), version |-> version[j],
           status |-> "draft", by |-> "nobody"] \in Skill
      BY <1>7 DEF Insert, TypeOK, Skill
    <3>2. QED
      BY <1>7, <2>2, <3>1 DEF Insert, TypeOK
  <2>3. QED
    BY <2>1, <2>2
<1>8. CASE Dedup(j)
  BY <1>8, DoneWithType DEF Dedup, TypeOK
<1>9. CASE Promote(j)
  <2>1. PICK k \in skills :
          skills' = (skills \ {k}) \cup {[k EXCEPT !.status = "promoted", !.by = "job"]}
    BY <1>9 DEF Promote
  <2>2. [k EXCEPT !.status = "promoted", !.by = "job"] \in Skill
    BY DEF TypeOK, Skill
  <2>3. QED
    BY <1>9, <2>1, <2>2 DEF Promote, TypeOK
<1>10. CASE PromoteRefused(j)
  BY <1>10, DoneWithType DEF PromoteRefused, TypeOK
<1>11. CASE MarkPromoted(j)
  <2>1. \A s \in Signatures : [lessons[s] EXCEPT !.status = "promoted"] \in Lesson
    BY DEF TypeOK, Lesson, LessonStatuses
  <2>2. lessons' \in [Signatures -> Lesson]
    BY <1>11, <2>1 DEF MarkPromoted, TypeOK
  <2>3. QED
    BY <1>11, <2>2, DoneWithType DEF MarkPromoted, TypeOK
<1>12. QED
  BY <1>1, <1>2, <1>3, <1>4, <1>5, <1>6, <1>7, <1>8, <1>9, <1>10, <1>11 DEF JobStep

(* Crashes, faults and reviewers keep it too. *)
LEMMA OtherStepTyped ==
  ASSUME TypedTables,
         \/ \E j \in Jobs : Crash(j) \/ UpdateFails(j)
         \/ \E k \in skills, status \in {"promoted", "deprecated", "deleted"} : Review(k, status)
  PROVE  TypeOK' /\ InsertsVersion'
<1> USE DEF TypedTables, InsertsVersion, tables, memory, bounds
<1>1. ASSUME NEW j \in Jobs, Crash(j) PROVE TypeOK' /\ InsertsVersion'
  BY <1>1, RunsAssumption DEF Crash, TypeOK
<1>2. ASSUME NEW j \in Jobs, UpdateFails(j) PROVE TypeOK' /\ InsertsVersion'
  BY <1>2, DoneWithType, RunsAssumption DEF UpdateFails, TypeOK
<1>3. ASSUME NEW k \in skills, NEW status \in {"promoted", "deprecated", "deleted"},
             Review(k, status)
      PROVE  TypeOK' /\ InsertsVersion'
  <2> DEFINE q == [k EXCEPT !.status = status,
                            !.by = IF status = "promoted" THEN "reviewer" ELSE @]
  <2>1. q \in Skill
    BY DEF TypeOK, Skill
  <2>2. skills' = (skills \ {k}) \cup {q}
    BY <1>3 DEF Review
  <2>3. reviews' \in 0 .. MaxReviews
    <3>1. reviews < MaxReviews /\ reviews' = reviews + 1
      BY <1>3 DEF Review
    <3>2. QED
      BY <3>1, RunsAssumption DEF TypeOK
  <2>4. UNCHANGED <<lessons, pc, rest, learned, version, crashes, faults>>
    BY <1>3 DEF Review
  <2> HIDE DEF q
  <2>5. QED
    BY <2>1, <2>2, <2>3, <2>4 DEF TypeOK
<1>4. QED
  BY <1>1, <1>2, <1>3

(* The three ways a step treats the skill rows: it leaves them, adds the   *)
(* draft of one run, or gives one row another status.                      *)
Adds(j) == /\ pc[j] = "insert"
           /\ version[j] \notin Versions(Name[Head(rest[j])])
           /\ skills' = skills \cup {[source |-> Head(rest[j]), version |-> version[j],
                                      status |-> "draft", by |-> "nobody"]}

Restates(k, q) == /\ k \in skills
                  /\ q.source = k.source /\ q.version = k.version
                  /\ q.status # "draft"
                  /\ q.status = "promoted" => k.status \in {"draft", "promoted"}
                  /\ q.status # "deleted" => k.status # "deleted"
                  /\ k.by # "nobody" => q.by # "nobody"
                  /\ skills' = (skills \ {k}) \cup {q}

LEMMA PromoteRestates ==
  ASSUME TypeOK, NEW j \in Jobs, Promote(j)
  PROVE  \E k \in skills, q \in Skill : /\ Restates(k, q)
                                        /\ InHand(j, k)
                                        /\ q.status = "promoted" /\ q.by = "job"
<1>1. PICK k \in skills :
        /\ InHand(j, k)
        /\ k.status \in {"draft", "promoted"}
        /\ skills' = (skills \ {k}) \cup {[k EXCEPT !.status = "promoted", !.by = "job"]}
  BY DEF Promote
<1> DEFINE q == [k EXCEPT !.status = "promoted", !.by = "job"]
<1>2. /\ q \in Skill
      /\ q.source = k.source /\ q.version = k.version
      /\ q.status = "promoted" /\ q.by = "job"
  BY DEF TypeOK, Skill
<1> HIDE DEF q
<1>3. skills' = (skills \ {k}) \cup {q}
  BY <1>1 DEF q
<1>4. Restates(k, q)
  BY <1>1, <1>2, <1>3 DEF Restates
<1>5. QED
  BY <1>1, <1>2, <1>4

LEMMA ReviewRestates ==
  TypeOK => \A k, status : Review(k, status) =>
              \E q \in Skill : /\ Restates(k, q)
                               /\ q.status = status
                               /\ status = "promoted" => q.by = "reviewer"
<1> SUFFICES ASSUME TypeOK, NEW k, NEW status, Review(k, status)
             PROVE  \E q \in Skill : /\ Restates(k, q)
                                     /\ q.status = status
                                     /\ status = "promoted" => q.by = "reviewer"
  OBVIOUS
<1>0. k \in skills /\ status \in {"promoted", "deprecated", "deleted"}
  BY DEF Review
<1> DEFINE q == [k EXCEPT !.status = status,
                          !.by = IF status = "promoted" THEN "reviewer" ELSE @]
<1>1. /\ q \in Skill
      /\ q.source = k.source /\ q.version = k.version
      /\ q.status = status
      /\ q.by = IF status = "promoted" THEN "reviewer" ELSE k.by
  BY <1>0 DEF TypeOK, Skill
<1>2. skills' = (skills \ {k}) \cup {q}
  BY DEF Review
<1> HIDE DEF q
<1>3. Restates(k, q)
  BY <1>0, <1>1, <1>2 DEF Restates, Review
<1>4. QED
  BY <1>1, <1>3

LEMMA SkillsChange ==
  ASSUME [Next]_vars
  PROVE  \/ UNCHANGED skills
         \/ \E j \in Jobs : Insert(j) /\ Adds(j)
         \/ \E j \in Jobs : Promote(j)
         \/ \E k, status : Review(k, status)
<1> USE DEF tables, memory, bounds
<1>1. ASSUME NEW j \in Jobs, JobStep(j), ~Promote(j), ~Insert(j) PROVE UNCHANGED skills
  BY <1>1 DEF JobStep, Start, NextPass, PassOver, RecordFailure, RecordSuccess,
              ReadForCreate, Dedup, PromoteRefused, MarkPromoted
<1>2. ASSUME NEW j \in Jobs, Insert(j) PROVE UNCHANGED skills \/ Adds(j)
  BY <1>2 DEF Insert, Adds
<1>3. ASSUME NEW j \in Jobs, Crash(j) \/ UpdateFails(j) PROVE UNCHANGED skills
  BY <1>3 DEF Crash, UpdateFails
<1>4. CASE UNCHANGED vars
  BY <1>4 DEF vars
<1>5. CASE \E j \in Jobs : JobStep(j) \/ Crash(j) \/ UpdateFails(j)
  BY <1>1, <1>2, <1>3, <1>5
<1>6. QED
  BY <1>4, <1>5 DEF Next

LEMMA SkillsSteps ==
  ASSUME TypeOK, [Next]_vars
  PROVE  \/ UNCHANGED skills
         \/ \E j \in Jobs : Insert(j) /\ Adds(j)
         \/ \E k \in skills, q \in Skill : Restates(k, q)
<1>1. \A k, status : Review(k, status) => k \in skills
  BY DEF Review
<1>2. QED
  BY <1>1, SkillsChange, PromoteRestates, ReviewRestates

LEMMA VersionsStayBounded == TypedTables /\ [Next]_vars => VersionsBounded'
<1> SUFFICES ASSUME TypedTables, [Next]_vars PROVE VersionsBounded'
  OBVIOUS
<1>1. PICK m \in Nat : \A k \in skills : k.version <= m
  BY DEF TypedTables, VersionsBounded
<1>2. CASE UNCHANGED skills
  BY <1>1, <1>2 DEF VersionsBounded
<1>3. ASSUME NEW j \in Jobs, Adds(j) PROVE VersionsBounded'
  <2>1. version[j] \in Nat
    BY DEF TypedTables, TypeOK
  <2>2. \A k \in skills : k.version \in Nat
    BY DEF TypedTables, TypeOK, Skill
  <2>3. \A k \in skills' : k.version <= m + version[j]
    BY <1>1, <1>3, <2>1, <2>2 DEF Adds
  <2>4. m + version[j] \in Nat
    BY <2>1
  <2>5. QED
    BY <2>3, <2>4 DEF VersionsBounded
<1>4. ASSUME NEW k \in skills, NEW q \in Skill, Restates(k, q) PROVE VersionsBounded'
  <2>1. \A p \in skills' : p.version <= m
    BY <1>1, <1>4 DEF Restates
  <2>2. QED
    BY <2>1 DEF VersionsBounded
<1>5. QED
  BY <1>2, <1>3, <1>4, SkillsSteps DEF TypedTables

LEMMA StepTyped == TypedTables /\ [Next]_vars => TypedTables'
<1> SUFFICES ASSUME TypedTables, [Next]_vars PROVE TypedTables'
  OBVIOUS
<1>1. VersionsBounded'
  BY VersionsStayBounded
<1>2. CASE UNCHANGED vars
  BY <1>1, <1>2 DEF TypedTables, TypeOK, InsertsVersion, vars, tables, memory, bounds
<1>3. CASE Next
  BY <1>1, <1>3, JobStepTyped, OtherStepTyped DEF Next, TypedTables
<1>4. QED
  BY <1>2, <1>3

(* The tables and the memory of all jobs always have their shape.          *)
THEOREM TypeCorrect == Spec => []TypeOK
<1>1. Spec => []TypedTables
  BY InitTyped, StepTyped, PTL DEF Spec
<1>2. QED
  BY <1>1, PTL DEF TypedTables

THEOREM TablesTyped == Spec => []TypedTables
  BY InitTyped, StepTyped, PTL DEF Spec

-----------------------------------------------------------------------------
(* Evidence                                                                *)

(* A lesson whose two counts are the sizes of its two sets of runs. *)
Counted(lesson) == /\ IsFiniteSet(lesson.sources) /\ IsFiniteSet(lesson.recoveries)
                   /\ lesson.support = Cardinality(lesson.sources)
                   /\ lesson.recovery = Cardinality(lesson.recoveries)

AllCounted == \A s \in Signatures : Counted(lessons[s])

LEMMA UpsertCounted ==
  ASSUME NEW lesson \in Lesson, Counted(lesson), NEW r
  PROVE  Counted(Upsert(lesson, r))
<1>1. /\ Upsert(lesson, r).sources = lesson.sources \cup {r}
      /\ Upsert(lesson, r).support = lesson.support + (IF r \in lesson.sources THEN 0 ELSE 1)
      /\ Upsert(lesson, r).recovery = lesson.recovery
      /\ Upsert(lesson, r).recoveries = lesson.recoveries
  BY DEF Upsert
<1>2. /\ IsFiniteSet(lesson.sources \cup {r})
      /\ Cardinality(lesson.sources \cup {r}) =
           IF r \in lesson.sources THEN Cardinality(lesson.sources)
           ELSE Cardinality(lesson.sources) + 1
  BY FS_AddElement DEF Counted
<1>3. Cardinality(lesson.sources) \in Nat
  BY FS_CardinalityType DEF Counted
<1>4. QED
  BY <1>1, <1>2, <1>3 DEF Counted

LEMMA ValidateCounted ==
  ASSUME NEW lesson \in Lesson, Counted(lesson), NEW r
  PROVE  Counted(Validate(lesson, r))
<1>1. /\ Validate(lesson, r).recoveries = lesson.recoveries \cup {r}
      /\ Validate(lesson, r).recovery =
           lesson.recovery + (IF r \in lesson.recoveries THEN 0 ELSE 1)
      /\ Validate(lesson, r).support = lesson.support
      /\ Validate(lesson, r).sources = lesson.sources
  BY DEF Validate
<1>2. /\ IsFiniteSet(lesson.recoveries \cup {r})
      /\ Cardinality(lesson.recoveries \cup {r}) =
           IF r \in lesson.recoveries THEN Cardinality(lesson.recoveries)
           ELSE Cardinality(lesson.recoveries) + 1
  BY FS_AddElement DEF Counted
<1>3. Cardinality(lesson.recoveries) \in Nat
  BY FS_CardinalityType DEF Counted
<1>4. QED
  BY <1>1, <1>2, <1>3 DEF Counted

(* The ways a step treats the lessons. *)
LEMMA LessonsSteps ==
  ASSUME [Next]_vars
  PROVE  \/ UNCHANGED lessons
         \/ \E j \in Jobs : RecordFailure(j) \/ RecordSuccess(j) \/ MarkPromoted(j)
<1> USE DEF tables, memory, bounds
<1>1. ASSUME NEW j \in Jobs, JobStep(j),
             ~RecordFailure(j), ~RecordSuccess(j), ~MarkPromoted(j)
      PROVE  UNCHANGED lessons
  BY <1>1 DEF JobStep, Start, NextPass, PassOver, ReadForCreate, Insert, Dedup, Promote,
              PromoteRefused
<1>2. ASSUME NEW j \in Jobs, Crash(j) \/ UpdateFails(j) PROVE UNCHANGED lessons
  BY <1>2 DEF Crash, UpdateFails
<1>3. \A k, status : Review(k, status) => UNCHANGED lessons
  BY DEF Review
<1>4. CASE UNCHANGED vars
  BY <1>4 DEF vars
<1>5. CASE Next
  BY <1>1, <1>2, <1>3, <1>5 DEF Next
<1>6. QED
  BY <1>4, <1>5

LEMMA SupportedCounted ==
  ASSUME TypeOK, AllCounted, NEW r \in Runs
  PROVE  \A s \in Signatures : Counted(Supported(r)[s])
<1>1. CASE Failure[r] = NoSignature
  BY <1>1 DEF Supported, AllCounted
<1>2. CASE Failure[r] # NoSignature
  <2>1. Failure[r] \in Signatures
    BY <1>2, RunsAssumption
  <2>2. Counted(Upsert(lessons[Failure[r]], r))
    BY <2>1, UpsertCounted DEF TypeOK, AllCounted
  <2>3. \A s \in Signatures :
          Supported(r)[s] = IF s = Failure[r] THEN Upsert(lessons[s], r) ELSE lessons[s]
    BY <1>2, <2>1 DEF Supported, TypeOK
  <2>4. QED
    BY <2>2, <2>3 DEF AllCounted
<1>3. QED
  BY <1>1, <1>2

LEMMA CountsKept == TypedTables /\ AllCounted /\ [Next]_vars => AllCounted'
<1> SUFFICES ASSUME TypeOK, AllCounted, [Next]_vars PROVE AllCounted'
  BY DEF TypedTables
<1>1. CASE UNCHANGED lessons
  BY <1>1 DEF AllCounted
<1>2. ASSUME NEW j \in Jobs, RecordFailure(j) PROVE AllCounted'
  <2>1. Head(rest[j]) \in Runs
    BY <1>2 DEF RecordFailure, TypeOK
  <2>2. lessons' = Supported(Head(rest[j]))
    BY <1>2 DEF RecordFailure
  <2>3. QED
    BY <2>1, <2>2, SupportedCounted DEF AllCounted
<1>3. ASSUME NEW j \in Jobs, RecordSuccess(j) PROVE AllCounted'
  <2> DEFINE r == Head(rest[j])
  <2>1. r \in Runs
    BY <1>3 DEF RecordSuccess, TypeOK
  <2>2. \A s \in Signatures : Supported(r)[s] \in Lesson /\ Counted(Supported(r)[s])
    BY <2>1, SupportedType, SupportedCounted DEF TypeOK
  <2>3. \A s \in Signatures : Counted(Validate(Supported(r)[s], r))
    BY <2>2, ValidateCounted
  <2>4. \A s \in Signatures : lessons'[s] \in {Validate(Supported(r)[s], r), Supported(r)[s]}
    BY <1>3 DEF RecordSuccess
  <2>5. QED
    BY <2>2, <2>3, <2>4 DEF AllCounted
<1>4. ASSUME NEW j \in Jobs, MarkPromoted(j) PROVE AllCounted'
  <2>1. \A s \in Signatures : /\ lessons'[s].sources = lessons[s].sources
                              /\ lessons'[s].recoveries = lessons[s].recoveries
                              /\ lessons'[s].support = lessons[s].support
                              /\ lessons'[s].recovery = lessons[s].recovery
    BY <1>4 DEF MarkPromoted, TypeOK, Lesson
  <2>2. QED
    BY <2>1 DEF AllCounted, Counted
<1>5. QED
  BY <1>1, <1>2, <1>3, <1>4, LessonsSteps

(* However often jobs are lost and settle their runs again, a run counts   *)
(* once as support and once as recovery of a lesson.                       *)
THEOREM EvidenceIsCountedOnce == Spec => []EvidenceCountedOnce
<1>1. Init => AllCounted
  <2>1. Counted(Unwritten)
    BY FS_EmptySet DEF Unwritten, Counted
  <2>2. QED
    BY <2>1 DEF Init, AllCounted
<1>2. AllCounted => EvidenceCountedOnce
  BY DEF AllCounted, Counted, EvidenceCountedOnce
<1>3. QED
  BY <1>1, <1>2, CountsKept, TablesTyped, PTL DEF Spec

-----------------------------------------------------------------------------
(* The skill rows                                                          *)

SameKey(k, q) == Name[k.source] = Name[q.source] /\ k.version = q.version

(* The unique constraint on name and version. *)
KeysUnique == \A k, q \in skills : SameKey(k, q) => k = q

(* From its insert to its promotion a job has a row of its run in hand. *)
RowInHand ==
  \A j \in Jobs : pc[j] \in {"dedup", "promote", "mark"} =>
    \E k \in skills : InHand(j, k) /\ k.source = Head(rest[j])

(* What is left to visit are runs of the job's own batch. *)
OwnRuns ==
  \A j \in Jobs : \A i \in DOMAIN rest[j] :
    \E b \in DOMAIN Batch[j] : rest[j][i] = Batch[j][b]

(* Between the read and the insert nobody else adds a row for the run. *)
NotYetWritten == \A j \in Jobs : pc[j] = "insert" => RowsOf(Head(rest[j])) = {}

RowsInv == KeysUnique /\ RowInHand /\ OwnRuns /\ NotYetWritten /\ OneCandidatePerRun

LEMMA InitRows == Init => RowsInv
  BY DEF Init, RowsInv, KeysUnique, RowInHand, OwnRuns, NotYetWritten, OneCandidatePerRun

(* What DoneWith, or moving on in a pass, leaves to visit. *)
LEMMA TailOwn ==
  ASSUME TypeOK, OwnRuns, NEW j \in Jobs, rest[j] # <<>>,
         rest' = [rest EXCEPT ![j] = Tail(@)]
  PROVE  OwnRuns'
<1>1. /\ Tail(rest[j]) \in Seq(Runs)
      /\ \A i \in DOMAIN Tail(rest[j]) : /\ i + 1 \in DOMAIN rest[j]
                                         /\ Tail(rest[j])[i] = rest[j][i + 1]
  BY DEF TypeOK
<1>2. \A i \in DOMAIN Tail(rest[j]) : \E b \in DOMAIN Batch[j] : Tail(rest[j])[i] = Batch[j][b]
  BY <1>1 DEF OwnRuns
<1>3. rest'[j] = Tail(rest[j]) /\ \A i \in Jobs \ {j} : rest'[i] = rest[i]
  BY DEF TypeOK
<1>4. QED
  BY <1>2, <1>3 DEF OwnRuns

LEMMA WholeOwn ==
  ASSUME TypeOK, OwnRuns, NEW j \in Jobs,
         rest'[j] \in {<<>>, Batch[j]}, \A i \in Jobs \ {j} : rest'[i] = rest[i]
  PROVE  OwnRuns'
  BY DEF OwnRuns

LEMMA StepOwn == TypeOK /\ OwnRuns /\ [Next]_vars => OwnRuns'
<1> SUFFICES ASSUME TypeOK, OwnRuns, [Next]_vars PROVE OwnRuns'
  OBVIOUS
<1> USE DEF tables, memory, bounds
<1>1. CASE UNCHANGED rest
  BY <1>1 DEF OwnRuns
<1>2. ASSUME NEW j \in Jobs, rest[j] # <<>>, rest' = [rest EXCEPT ![j] = Tail(@)]
      PROVE  OwnRuns'
  BY <1>2, TailOwn
<1>3. ASSUME NEW j \in Jobs, Start(j) \/ Crash(j) \/ NextPass(j) PROVE OwnRuns'
  <2>1. rest'[j] \in {<<>>, Batch[j]} /\ \A i \in Jobs \ {j} : rest'[i] = rest[i]
    BY <1>3 DEF Start, Crash, NextPass, TypeOK
  <2>2. QED
    BY <2>1, WholeOwn
<1>4. ASSUME NEW j \in Jobs, JobStep(j), ~Start(j), ~NextPass(j) PROVE OwnRuns'
  BY <1>1, <1>2, <1>4 DEF JobStep, PassOver, RecordFailure, RecordSuccess, ReadForCreate,
         Insert, Dedup, Promote, PromoteRefused, MarkPromoted, DoneWith, TypeOK
<1>5. ASSUME NEW j \in Jobs, UpdateFails(j) PROVE OwnRuns'
  BY <1>2, <1>5 DEF UpdateFails, DoneWith, TypeOK
<1>6. \A k, status : Review(k, status) => UNCHANGED rest
  BY DEF Review
<1>7. CASE UNCHANGED vars
  BY <1>1, <1>7 DEF vars
<1>8. CASE Next
  BY <1>1, <1>3, <1>4, <1>5, <1>6, <1>8 DEF Next
<1>9. QED
  BY <1>7, <1>8

LEMMA StepKeys == TypedTables /\ KeysUnique /\ [Next]_vars => KeysUnique'
<1> SUFFICES ASSUME TypeOK, KeysUnique, [Next]_vars PROVE KeysUnique'
  BY DEF TypedTables
<1>1. CASE UNCHANGED skills
  BY <1>1 DEF KeysUnique
<1>2. ASSUME NEW j \in Jobs, Adds(j) PROVE KeysUnique'
  <2> DEFINE new == [source |-> Head(rest[j]), version |-> version[j],
                     status |-> "draft", by |-> "nobody"]
  <2>1. \A k \in skills : ~SameKey(k, new) /\ ~SameKey(new, k)
    BY <1>2 DEF Adds, Versions, SameKey
  <2>2. skills' = skills \cup {new}
    BY <1>2 DEF Adds
  <2> HIDE DEF new
  <2>3. QED
    BY <2>1, <2>2 DEF KeysUnique
<1>3. ASSUME NEW k \in skills, NEW q \in Skill, Restates(k, q) PROVE KeysUnique'
  BY <1>3 DEF Restates, KeysUnique, SameKey
<1>4. QED
  BY <1>1, <1>2, <1>3, SkillsSteps

(* No row ever disappears, not even a deleted one. *)
LEMMA RowsPersist ==
  ASSUME TypeOK, [Next]_vars
  PROVE  \A k \in skills : \E q \in skills' :
           q.source = k.source /\ q.version = k.version /\ (k.by # "nobody" => q.by # "nobody")
<1>1. CASE UNCHANGED skills
  BY <1>1
<1>2. ASSUME NEW j \in Jobs, Adds(j) PROVE skills \subseteq skills'
  BY <1>2 DEF Adds
<1>3. ASSUME NEW k \in skills, NEW q \in Skill, Restates(k, q)
      PROVE  /\ skills \ {k} \subseteq skills' /\ q \in skills'
             /\ q.source = k.source /\ q.version = k.version
             /\ k.by # "nobody" => q.by # "nobody"
  BY <1>3 DEF Restates
<1>4. QED
  BY <1>1, <1>2, <1>3, SkillsSteps

Mine(j) == <<pc[j], rest[j], version[j], learned[j]>>

(* A step belongs to one job or to none. *)
LEMMA OneActs ==
  ASSUME TypeOK, [Next]_vars
  PROVE  \/ \E j \in Jobs : /\ JobStep(j) \/ Crash(j) \/ UpdateFails(j)
                            /\ \A i \in Jobs \ {j} : Mine(i)' = Mine(i)
         \/ \A i \in Jobs : Mine(i)' = Mine(i)
<1> USE DEF tables, memory, bounds, Mine
<1>1. ASSUME NEW j \in Jobs, JobStep(j) PROVE \A i \in Jobs \ {j} : Mine(i)' = Mine(i)
  <2> USE DEF TypeOK, DoneWith
  <2>1. CASE Start(j) \/ NextPass(j) \/ PassOver(j) \/ RecordFailure(j) \/ RecordSuccess(j)
    BY <2>1 DEF Start, NextPass, PassOver, RecordFailure, RecordSuccess
  <2>2. CASE ReadForCreate(j)
    BY <2>2 DEF ReadForCreate
  <2>3. CASE Insert(j) \/ Dedup(j)
    BY <2>3 DEF Insert, Dedup
  <2>4. CASE Promote(j) \/ PromoteRefused(j) \/ MarkPromoted(j)
    BY <2>4 DEF Promote, PromoteRefused, MarkPromoted
  <2>5. QED
    BY <1>1, <2>1, <2>2, <2>3, <2>4 DEF JobStep
<1>2. ASSUME NEW j \in Jobs, Crash(j) \/ UpdateFails(j)
      PROVE  \A i \in Jobs \ {j} : Mine(i)' = Mine(i)
  BY <1>2 DEF Crash, UpdateFails, DoneWith, TypeOK
<1>3. \A k, status : Review(k, status) => \A i \in Jobs : Mine(i)' = Mine(i)
  BY DEF Review
<1>4. CASE UNCHANGED vars
  BY <1>4 DEF vars
<1>5. CASE Next
  BY <1>1, <1>2, <1>3, <1>5 DEF Next
<1>6. QED
  BY <1>4, <1>5

(* How a job comes to have a row in hand, and to be about to insert one. *)
LEMMA StageSteps ==
  ASSUME TypeOK, NEW j \in Jobs, JobStep(j) \/ Crash(j) \/ UpdateFails(j)
  PROVE  /\ pc'[j] = "insert" =>
              /\ UNCHANGED skills /\ rest'[j] = rest[j] /\ RowsOf(Head(rest[j])) = {}
         /\ pc'[j] = "dedup" =>
              /\ rest'[j] = rest[j]
              /\ \/ Insert(j) /\ Adds(j) /\ version'[j] = version[j]
                 \/ /\ UNCHANGED skills
                    /\ \E k \in RowsOf(Head(rest[j])) : version'[j] = k.version
         /\ pc'[j] = "promote" =>
              /\ Dedup(j) /\ pc[j] = "dedup" /\ UNCHANGED <<skills, rest, version>>
         /\ pc'[j] = "mark" => Promote(j) /\ pc[j] = "promote" /\ UNCHANGED <<rest, version>>
<1> USE DEF tables, memory, bounds, TypeOK, DoneWith
<1>1. CASE \/ Start(j) \/ NextPass(j) \/ PassOver(j) \/ RecordFailure(j) \/ RecordSuccess(j)
           \/ Crash(j) \/ UpdateFails(j)
  BY <1>1 DEF Start, NextPass, PassOver, RecordFailure, RecordSuccess, Crash, UpdateFails
<1>2. CASE ReadForCreate(j)
  BY <1>2 DEF ReadForCreate
<1>3. CASE Insert(j)
  BY <1>3 DEF Insert, Adds
<1>4. CASE Dedup(j)
  BY <1>4 DEF Dedup
<1>5. CASE Promote(j) \/ PromoteRefused(j) \/ MarkPromoted(j)
  BY <1>5 DEF Promote, PromoteRefused, MarkPromoted
<1>6. QED
  BY <1>1, <1>2, <1>3, <1>4, <1>5 DEF JobStep

LEMMA StepInHand ==
  TypeOK /\ RowInHand /\ [Next]_vars => RowInHand'
<1> SUFFICES ASSUME TypeOK, RowInHand, [Next]_vars,
                    NEW j \in Jobs, pc'[j] \in {"dedup", "promote", "mark"}
             PROVE  \E k \in skills' : /\ Name[k.source] = Name[Head(rest'[j])]
                                       /\ k.version = version'[j]
                                       /\ k.source = Head(rest'[j])
  BY DEF RowInHand, InHand
<1>1. ASSUME pc[j] \in {"dedup", "promote", "mark"}, rest'[j] = rest[j], version'[j] = version[j]
      PROVE  \E k \in skills' : k.version = version'[j] /\ k.source = Head(rest'[j])
  <2>1. PICK k \in skills : k.version = version[j] /\ k.source = Head(rest[j])
    BY <1>1 DEF RowInHand, InHand
  <2>2. QED
    BY <1>1, <2>1, RowsPersist
<1>2. CASE Mine(j)' = Mine(j)
  BY <1>1, <1>2 DEF Mine
<1>3. ASSUME JobStep(j) \/ Crash(j) \/ UpdateFails(j)
      PROVE  \E k \in skills' : k.version = version'[j] /\ k.source = Head(rest'[j])
  <2>1. CASE pc'[j] = "dedup"
    <3>1. CASE Adds(j) /\ version'[j] = version[j] /\ rest'[j] = rest[j]
      <4> DEFINE new == [source |-> Head(rest[j]), version |-> version[j],
                         status |-> "draft", by |-> "nobody"]
      <4>1. new \in skills'
        BY <3>1 DEF Adds
      <4>2. new.version = version'[j] /\ new.source = Head(rest'[j])
        BY <3>1
      <4>3. QED
        BY <4>1, <4>2
    <3>2. ASSUME UNCHANGED skills, rest'[j] = rest[j],
                 NEW k \in RowsOf(Head(rest[j])), version'[j] = k.version
          PROVE  k \in skills' /\ k.version = version'[j] /\ k.source = Head(rest'[j])
      BY <3>2 DEF RowsOf
    <3>3. QED
      BY <1>3, <2>1, <3>1, <3>2, StageSteps
  <2>2. CASE pc'[j] = "promote"
    BY <1>1, <1>3, <2>2, StageSteps
  <2>3. CASE pc'[j] = "mark"
    BY <1>1, <1>3, <2>3, StageSteps
  <2>4. QED
    BY <2>1, <2>2, <2>3
<1>4. \E k \in skills' : k.version = version'[j] /\ k.source = Head(rest'[j])
  BY <1>1, <1>2, <1>3, OneActs DEF Mine
<1>5. QED
  BY <1>4

(* Two jobs never have the same run before them. *)
LEMMA HeadsDiffer ==
  ASSUME TypeOK, OwnRuns, NEW i \in Jobs, NEW j \in Jobs, i # j,
         rest[i] # <<>>, rest[j] # <<>>
  PROVE  Head(rest[i]) # Head(rest[j])
<1>1. 1 \in DOMAIN rest[i] /\ 1 \in DOMAIN rest[j]
  BY DEF TypeOK
<1>2. Head(rest[i]) = rest[i][1] /\ Head(rest[j]) = rest[j][1]
  BY DEF TypeOK
<1>3. PICK a \in DOMAIN Batch[i], b \in DOMAIN Batch[j] :
        Head(rest[i]) = Batch[i][a] /\ Head(rest[j]) = Batch[j][b]
  BY <1>1, <1>2 DEF OwnRuns
<1>4. QED
  BY <1>3, RunsAssumption

LEMMA StepNotYet ==
  TypeOK /\ OwnRuns /\ NotYetWritten /\ [Next]_vars => NotYetWritten'
<1> SUFFICES ASSUME TypeOK, OwnRuns, NotYetWritten, [Next]_vars,
                    NEW j \in Jobs, pc'[j] = "insert"
             PROVE  \A k \in skills' : k.source = Head(rest'[j]) => k.status = "deleted"
  BY DEF NotYetWritten, RowsOf
<1>1. ASSUME JobStep(j) \/ Crash(j) \/ UpdateFails(j)
      PROVE  \A k \in skills' : k.source = Head(rest'[j]) => k.status = "deleted"
  BY <1>1, StageSteps DEF RowsOf
<1>2. CASE Mine(j)' = Mine(j)
  <2>1. \A k \in skills : k.source = Head(rest[j]) => k.status = "deleted"
    BY <1>2 DEF Mine, NotYetWritten, RowsOf
  <2>2. rest'[j] = rest[j] /\ pc[j] = "insert" /\ rest[j] # <<>>
    BY <1>2 DEF Mine, TypeOK
  <2>3. CASE UNCHANGED skills
    BY <2>1, <2>2, <2>3
  <2>4. ASSUME NEW i \in Jobs, Insert(i), Adds(i)
        PROVE  \A k \in skills' : k.source = Head(rest[j]) => k.status = "deleted"
    <3>1. i # j
      BY <2>4, <1>2 DEF Insert, Adds, DoneWith, Mine, TypeOK
    <3>2. Head(rest[i]) # Head(rest[j])
      BY <2>2, <2>4, <3>1, HeadsDiffer DEF Adds, TypeOK
    <3>3. QED
      BY <2>1, <2>4, <3>2 DEF Adds
  <2>5. ASSUME NEW k \in skills, NEW q \in Skill, Restates(k, q)
        PROVE  \A p \in skills' : p.source = Head(rest[j]) => p.status = "deleted"
    BY <2>1, <2>5 DEF Restates
  <2>6. QED
    BY <2>2, <2>3, <2>4, <2>5, SkillsSteps
<1>3. QED
  BY <1>1, <1>2, OneActs

LEMMA StepOneCandidate ==
  TypeOK /\ NotYetWritten /\ OneCandidatePerRun /\ [Next]_vars => OneCandidatePerRun'
<1> SUFFICES ASSUME TypeOK, NotYetWritten, OneCandidatePerRun, [Next]_vars
             PROVE  OneCandidatePerRun'
  OBVIOUS
<1>1. CASE UNCHANGED skills
  BY <1>1 DEF OneCandidatePerRun
<1>2. ASSUME NEW j \in Jobs, Adds(j) PROVE OneCandidatePerRun'
  <2>1. \A k \in skills : k.source = Head(rest[j]) => k.status = "deleted"
    BY <1>2 DEF Adds, NotYetWritten, RowsOf
  <2>2. QED
    BY <1>2, <2>1 DEF Adds, OneCandidatePerRun
<1>3. ASSUME NEW k \in skills, NEW q \in Skill, Restates(k, q) PROVE OneCandidatePerRun'
  BY <1>3 DEF Restates, OneCandidatePerRun
<1>4. QED
  BY <1>1, <1>2, <1>3, SkillsSteps

LEMMA StepRows == TypedTables /\ RowsInv /\ [Next]_vars => RowsInv'
  BY StepKeys, StepInHand, StepOwn, StepNotYet, StepOneCandidate DEF RowsInv, TypedTables

THEOREM RowsHold == Spec => []RowsInv
  BY InitRows, StepRows, TablesTyped, PTL DEF Spec

(* A run has at most one candidate that is not deleted, however often its  *)
(* job is lost and settles it again.                                       *)
THEOREM OneCandidate == Spec => []OneCandidatePerRun
<1>1. RowsInv => OneCandidatePerRun
  BY DEF RowsInv
<1>2. QED
  BY <1>1, RowsHold, PTL

-----------------------------------------------------------------------------
(* Two similar skills                                                      *)

Live(k) == k.status \in {"draft", "promoted"}

(* Promoted by a job, or checked by one that is about to promote it. *)
Cleared(k) == \/ k.status = "promoted" /\ k.by = "job"
              \/ Live(k) /\ \E j \in Jobs : pc[j] = "promote" /\ InHand(j, k)

(* Each candidate is in the table before its own check, so of two that are *)
(* similar the later check sees the other one.                             *)
OneCleared ==
  \A k, q \in skills : Cleared(k) /\ Cleared(q) /\ Name[k.source] = Name[q.source] => k = q

(* No duplicate check succeeds in this step. *)
NoCheck == \A j \in Jobs : pc'[j] = "promote" =>
             pc[j] = "promote" /\ rest'[j] = rest[j] /\ version'[j] = version[j]

LEMMA NoCheckCleared ==
  ASSUME NoCheck, NEW k, Cleared(k)'
  PROVE  Cleared(k)
  BY DEF NoCheck, Cleared, Live, InHand

LEMMA CheckOrNot ==
  ASSUME TypeOK, [Next]_vars
  PROVE  \/ NoCheck
         \/ \E j \in Jobs : /\ Dedup(j) /\ pc'[j] = "promote" /\ UNCHANGED <<skills, rest, version>>
                            /\ \A i \in Jobs \ {j} : pc'[i] = pc[i]
<1>1. CASE \A i \in Jobs : Mine(i)' = Mine(i)
  BY <1>1 DEF NoCheck, Mine
<1>2. ASSUME NEW j \in Jobs, JobStep(j) \/ Crash(j) \/ UpdateFails(j),
             \A i \in Jobs \ {j} : Mine(i)' = Mine(i)
      PROVE  \/ NoCheck
             \/ /\ Dedup(j) /\ pc'[j] = "promote" /\ UNCHANGED <<skills, rest, version>>
                /\ \A i \in Jobs \ {j} : pc'[i] = pc[i]
  <2>1. CASE pc'[j] = "promote"
    BY <1>2, <2>1, StageSteps DEF Mine
  <2>2. CASE pc'[j] # "promote"
    BY <1>2, <2>2 DEF NoCheck, Mine
  <2>3. QED
    BY <2>1, <2>2
<1>3. QED
  BY <1>1, <1>2, OneActs

(* The check itself: no similar row is live, so none is cleared. *)
LEMMA CheckKeepsOneCleared ==
  ASSUME KeysUnique, OneCleared, NEW j \in Jobs, TypeOK,
         Dedup(j), pc'[j] = "promote", UNCHANGED <<skills, rest, version>>,
         \A i \in Jobs \ {j} : pc'[i] = pc[i]
  PROVE  OneCleared'
<1>1. Twins(Head(rest[j]), version[j]) = {}
  BY DEF Dedup, DoneWith, TypeOK
<1>2. \A k : Cleared(k)' => Cleared(k) \/ (Live(k) /\ InHand(j, k))
  BY DEF Cleared, Live, InHand
<1>3. \A k : Cleared(k)' => Live(k)
  BY DEF Cleared, Live
<1>4. ASSUME NEW k \in skills, NEW q \in skills, Live(k), InHand(j, k), Live(q),
             Name[k.source] = Name[q.source]
      PROVE  k = q
  <2>1. q.version = version[j]
    BY <1>1, <1>4 DEF Twins, Live, InHand
  <2>2. QED
    BY <1>4, <2>1 DEF KeysUnique, SameKey, InHand
<1>5. QED
  BY <1>2, <1>3, <1>4 DEF OneCleared

LEMMA AddKeepsOneCleared ==
  ASSUME TypeOK, RowInHand, OneCleared, NoCheck, NEW j \in Jobs, Adds(j)
  PROVE  OneCleared'
<1> DEFINE new == [source |-> Head(rest[j]), version |-> version[j],
                   status |-> "draft", by |-> "nobody"]
<1>1. skills' = skills \cup {new}
  BY DEF Adds
<1>2. \A i \in Jobs : pc[i] = "promote" => ~InHand(i, new)
  <2> SUFFICES ASSUME NEW i \in Jobs, pc[i] = "promote", InHand(i, new) PROVE FALSE
    OBVIOUS
  <2>1. PICK k \in skills : InHand(i, k)
    BY DEF RowInHand
  <2>2. Name[k.source] = Name[Head(rest[j])] /\ k.version = version[j]
    BY <2>1 DEF InHand
  <2>3. QED
    BY <2>2 DEF Adds, Versions
<1>3. ~Cleared(new)
  BY <1>2 DEF Cleared
<1> HIDE DEF new
<1>4. QED
  BY <1>1, <1>3, NoCheckCleared DEF OneCleared

LEMMA RestateKeepsOneCleared ==
  ASSUME OneCleared, NoCheck, NEW k \in skills, NEW q, Restates(k, q), Cleared(q)' => Cleared(k)
  PROVE  OneCleared'
<1>1. skills' = (skills \ {k}) \cup {q} /\ q.source = k.source
  BY DEF Restates
<1>2. \A p : Cleared(p)' => Cleared(p)
  BY NoCheckCleared
<1>3. QED
  BY <1>1, <1>2 DEF OneCleared

LEMMA StepCleared ==
  TypeOK /\ KeysUnique /\ RowInHand /\ OneCleared /\ [Next]_vars => OneCleared'
<1> SUFFICES ASSUME TypeOK, KeysUnique, RowInHand, OneCleared, [Next]_vars PROVE OneCleared'
  OBVIOUS
<1>1. CASE ~NoCheck
  BY <1>1, CheckOrNot, CheckKeepsOneCleared
<1>2. CASE NoCheck /\ UNCHANGED skills
  BY <1>2, NoCheckCleared DEF OneCleared
<1>3. ASSUME NoCheck, NEW j \in Jobs, Insert(j), Adds(j) PROVE OneCleared'
  BY <1>3, AddKeepsOneCleared
<1>4. ASSUME NoCheck, NEW j \in Jobs, Promote(j) PROVE OneCleared'
  <2>1. PICK k \in skills, q \in Skill : Restates(k, q) /\ InHand(j, k) /\ q.status = "promoted"
    BY <1>4, PromoteRestates
  <2>2. Cleared(k)
    BY <1>4, <2>1 DEF Promote, Restates, Cleared, Live
  <2>3. QED
    BY <1>4, <2>1, <2>2, RestateKeepsOneCleared
<1>5. ASSUME NoCheck, NEW k, NEW status, Review(k, status) PROVE OneCleared'
  <2>1. k \in skills
    BY <1>5 DEF Review
  <2>2. PICK q \in Skill : /\ Restates(k, q)
                           /\ q.status = status
                           /\ status = "promoted" => q.by = "reviewer"
    BY <1>5, ReviewRestates
  <2>3. status \in {"promoted", "deprecated", "deleted"}
    BY <1>5 DEF Review
  <2>4. Cleared(q)' => Cleared(k)
    BY <1>5, <2>2, <2>3 DEF Cleared, Live, Restates, NoCheck, InHand
  <2>5. QED
    BY <1>5, <2>1, <2>2, <2>4, RestateKeepsOneCleared
<1>6. QED
  BY <1>1, <1>2, <1>3, <1>4, <1>5, SkillsChange

(* Two skills of one name are never both promoted by jobs, whichever way   *)
(* their checks, inserts and promotions interleave.                        *)
THEOREM NoTwins == Spec => []NoTwinsPromoted
<1>1. Init => OneCleared
  BY DEF Init, OneCleared
<1>2. RowsInv /\ TypeOK /\ OneCleared /\ [Next]_vars => OneCleared'
  BY StepCleared DEF RowsInv
<1>3. OneCleared => NoTwinsPromoted
  BY DEF OneCleared, Cleared, NoTwinsPromoted
<1>4. QED
  BY <1>1, <1>2, <1>3, RowsHold, TypeCorrect, PTL DEF Spec

-----------------------------------------------------------------------------
(* Review and lessons                                                      *)

(* A job never promotes what a reviewer deprecated or deleted.             *)
THEOREM ReviewHolds == Spec => [][ReviewStep]_vars
<1>1. ASSUME TypeOK, [Next]_vars,
             NEW k \in skills, k.status \in {"deprecated", "deleted"}
      PROVE  \E q \in skills' : /\ q.source = k.source /\ q.version = k.version
                                /\ q.status \in {k.status, "deprecated", "deleted"}
  <2>1. CASE k \in skills'
    BY <1>1, <2>1
  <2>2. ASSUME NEW p \in skills, NEW q \in Skill, Restates(p, q), k \notin skills'
        PROVE  /\ q \in skills' /\ q.source = k.source /\ q.version = k.version
               /\ q.status \in {"deprecated", "deleted"}
    <3>1. p = k /\ q \in skills'
      BY <2>2 DEF Restates
    <3>2. q.status \in {"deprecated", "deleted"}
      BY <1>1, <2>2, <3>1 DEF Restates, Skill
    <3>3. QED
      BY <2>2, <3>1, <3>2 DEF Restates
  <2>3. QED
    BY <1>1, <2>1, <2>2, SkillsSteps DEF Adds
<1>2. TypeOK /\ [Next]_vars => [ReviewStep]_vars
  BY <1>1 DEF ReviewStep
<1>3. QED
  BY <1>2, TypeCorrect, PTL DEF Spec

(* What a step may do to the status of a lesson. *)
LEMMA LessonKept ==
  ASSUME TypeOK, [Next]_vars, NEW s \in Signatures
  PROVE  /\ lessons[s].status = "promoted" => lessons'[s].status = "promoted"
         /\ lessons[s].status = "validated" =>
              lessons'[s].status \in {"validated", "promoted"}
<1>1. \A r \in Runs : lessons[s].status \in {"validated", "promoted"} =>
                        Supported(r)[s].status = lessons[s].status
  BY DEF Supported, Upsert, TypeOK
<1>2. CASE UNCHANGED lessons
  BY <1>2
<1>3. ASSUME NEW j \in Jobs, RecordFailure(j)
      PROVE  \E r \in Runs : lessons' = Supported(r)
  BY <1>3 DEF RecordFailure, TypeOK
<1>4. ASSUME NEW j \in Jobs, RecordSuccess(j)
      PROVE  \E r \in Runs : \/ lessons'[s] = Supported(r)[s]
                             \/ s \in Proven(r) /\ lessons'[s].status = "validated"
  <2>1. Head(rest[j]) \in Runs
    BY <1>4 DEF RecordSuccess, TypeOK
  <2>2. QED
    BY <1>4, <2>1 DEF RecordSuccess, Validate
<1>5. \A r \in Runs : s \in Proven(r) => lessons[s].status # "promoted"
  BY DEF Proven, Open
<1>6. ASSUME NEW j \in Jobs, MarkPromoted(j)
      PROVE  lessons'[s].status \in {lessons[s].status, "promoted"}
  BY <1>6 DEF MarkPromoted, TypeOK, Lesson
<1>7. QED
  BY <1>1, <1>2, <1>3, <1>4, <1>5, <1>6, LessonsSteps

(* Further failures and late recoveries take nothing back from a lesson.   *)
THEOREM LessonsKeepStatus == Spec => [][LessonStep]_vars
<1>1. TypeOK /\ [Next]_vars => [LessonStep]_vars
  BY LessonKept DEF LessonStep
<1>2. QED
  BY <1>1, TypeCorrect, PTL DEF Spec

(* What was earned and what was reviewed stands, whatever comes later.     *)
THEOREM VerdictsHold == Spec => VerdictsStand
<1>1. [ReviewStep]_vars /\ [LessonStep]_vars => [ReviewStep /\ LessonStep]_vars
  OBVIOUS
<1>2. QED
  BY <1>1, ReviewHolds, LessonsKeepStatus, PTL DEF VerdictsStand

(* What record_success returned, a job still finds in the lessons.         *)
LearnedIsWritten ==
  \A j \in Jobs, r \in Runs : \A s \in learned[j][r] : r \in lessons[s].recoveries

(* A job marks lessons only for a run whose skill has been promoted.       *)
MarkedAfterPromotion ==
  \A j \in Jobs : pc[j] = "mark" => \E k \in skills : k.source = Head(rest[j]) /\ k.by # "nobody"

EarnedInv == LessonsAreEarned /\ LearnedIsWritten /\ MarkedAfterPromotion

(* What a step may do to one lesson: its recoveries only grow, and it      *)
(* becomes validated with a recovery, promoted by a mark.                  *)
LessonChange(s) ==
  /\ lessons[s].recoveries \subseteq lessons'[s].recoveries
  /\ lessons'[s].status = "validated" =>
       lessons[s].status = "validated" \/ lessons'[s].recoveries # {}
  /\ lessons'[s].status = "promoted" =>
       \/ lessons[s].status = "promoted"
       \/ \E j \in Jobs : pc[j] = "mark" /\ s \in learned[j][Head(rest[j])]

LEMMA LessonChanges ==
  ASSUME TypeOK, [Next]_vars
  PROVE  \A s \in Signatures : LessonChange(s)
<1>1. ASSUME NEW s \in Signatures, NEW r \in Runs
      PROVE  /\ lessons[s].recoveries = Supported(r)[s].recoveries
             /\ Supported(r)[s].status \in {"validated", "promoted"} =>
                  Supported(r)[s].status = lessons[s].status
  BY <1>1 DEF Supported, Upsert, TypeOK
<1>2. ASSUME NEW j \in Jobs, RecordFailure(j), NEW s \in Signatures PROVE LessonChange(s)
  <2>1. Head(rest[j]) \in Runs /\ lessons' = Supported(Head(rest[j]))
    BY <1>2 DEF RecordFailure, TypeOK
  <2>2. QED
    BY <1>1, <2>1 DEF LessonChange
<1>3. ASSUME NEW j \in Jobs, RecordSuccess(j), NEW s \in Signatures PROVE LessonChange(s)
  <2> DEFINE r == Head(rest[j])
  <2>1. r \in Runs
    BY <1>3 DEF RecordSuccess, TypeOK
  <2>2. lessons'[s] = IF s \in Proven(r) THEN Validate(Supported(r)[s], r)
                                         ELSE Supported(r)[s]
    BY <1>3 DEF RecordSuccess
  <2>3. CASE s \in Proven(r)
    BY <1>1, <2>1, <2>2, <2>3 DEF LessonChange, Validate
  <2>4. CASE s \notin Proven(r)
    BY <1>1, <2>1, <2>2, <2>4 DEF LessonChange
  <2>5. QED
    BY <2>3, <2>4
<1>4. ASSUME NEW j \in Jobs, MarkPromoted(j), NEW s \in Signatures PROVE LessonChange(s)
  <2>1. lessons[s] \in Lesson
    BY DEF TypeOK
  <2>2. CASE s \in learned[j][Head(rest[j])]
    <3>1. lessons'[s].recoveries = lessons[s].recoveries /\ lessons'[s].status = "promoted"
      BY <1>4, <2>1, <2>2 DEF MarkPromoted, Lesson
    <3>2. QED
      BY <1>4, <2>2, <3>1 DEF LessonChange, MarkPromoted
  <2>3. CASE s \notin learned[j][Head(rest[j])]
    BY <1>4, <2>3 DEF MarkPromoted, LessonChange
  <2>4. QED
    BY <2>2, <2>3
<1>5. CASE UNCHANGED lessons
  BY <1>5 DEF LessonChange
<1>6. QED
  BY <1>2, <1>3, <1>4, <1>5, LessonsSteps

LEMMA StepLearned ==
  TypeOK /\ LearnedIsWritten /\ [Next]_vars => LearnedIsWritten'
<1> SUFFICES ASSUME TypeOK, LearnedIsWritten, [Next]_vars,
                    NEW j \in Jobs, NEW r \in Runs, NEW s \in learned'[j][r]
             PROVE  r \in lessons'[s].recoveries
  BY DEF LearnedIsWritten
<1> USE DEF tables, memory, bounds
<1>1. ASSUME s \in learned[j][r] PROVE r \in lessons'[s].recoveries
  <2>1. s \in Signatures /\ r \in lessons[s].recoveries
    BY <1>1 DEF LearnedIsWritten, TypeOK
  <2>2. QED
    BY <2>1, LessonChanges DEF LessonChange
<1>2. CASE RecordSuccess(j)
  <2>1. CASE s \in learned[j][r]
    BY <1>1, <2>1
  <2>2. CASE s \notin learned[j][r]
    <3>1. r = Head(rest[j]) /\ s \in Proven(r)
      BY <1>2, <2>2 DEF RecordSuccess, TypeOK
    <3>2. s \in Signatures
      BY <3>1, RunsAssumption DEF Proven
    <3>3. lessons'[s] = Validate(Supported(r)[s], r)
      BY <1>2, <3>1, <3>2 DEF RecordSuccess
    <3>4. QED
      BY <3>3 DEF Validate
  <2>3. QED
    BY <2>1, <2>2
<1>3. CASE JobStep(j) /\ ~RecordSuccess(j)
  BY <1>1, <1>3 DEF JobStep, Start, NextPass, PassOver, RecordFailure, ReadForCreate, Insert,
                    Dedup, Promote, PromoteRefused, MarkPromoted
<1>4. CASE Crash(j) \/ UpdateFails(j)
  BY <1>1, <1>4 DEF Crash, UpdateFails, TypeOK
<1>5. CASE learned'[j] = learned[j]
  BY <1>1, <1>5
<1>6. QED
  BY <1>2, <1>3, <1>4, <1>5, OneActs DEF Mine

LEMMA StepMarked ==
  TypeOK /\ RowInHand /\ KeysUnique /\ MarkedAfterPromotion /\ [Next]_vars
    => MarkedAfterPromotion'
<1> SUFFICES ASSUME TypeOK, RowInHand, KeysUnique, MarkedAfterPromotion, [Next]_vars,
                    NEW j \in Jobs, pc'[j] = "mark"
             PROVE  \E k \in skills' : k.source = Head(rest'[j]) /\ k.by # "nobody"
  BY DEF MarkedAfterPromotion
<1>1. CASE Mine(j)' = Mine(j)
  <2>1. PICK k \in skills : k.source = Head(rest[j]) /\ k.by # "nobody"
    BY <1>1 DEF Mine, MarkedAfterPromotion
  <2>2. QED
    BY <1>1, <2>1, RowsPersist DEF Mine
<1>2. ASSUME Promote(j), rest'[j] = rest[j]
      PROVE  \E k \in skills' : k.source = Head(rest'[j]) /\ k.by # "nobody"
  <2>1. PICK k \in skills, q \in Skill : Restates(k, q) /\ InHand(j, k) /\ q.by = "job"
    BY <1>2, PromoteRestates
  <2>2. k.source = Head(rest[j])
    BY <1>2, <2>1 DEF Promote, RowInHand, KeysUnique, SameKey, InHand
  <2>3. q \in skills' /\ q.source = k.source
    BY <2>1 DEF Restates
  <2>4. QED
    BY <1>2, <2>1, <2>2, <2>3
<1>3. CASE JobStep(j) \/ Crash(j) \/ UpdateFails(j)
  BY <1>2, <1>3, StageSteps
<1>4. QED
  BY <1>1, <1>3, OneActs DEF Mine

LEMMA StepEarned ==
  TypeOK /\ EarnedInv /\ [Next]_vars => LessonsAreEarned'
<1> SUFFICES ASSUME TypeOK, EarnedInv, [Next]_vars, NEW s \in Signatures
             PROVE  /\ lessons'[s].status \in {"validated", "promoted"} =>
                         lessons'[s].recoveries # {}
                    /\ lessons'[s].status = "promoted" =>
                         \E k \in skills' : k.source \in lessons'[s].recoveries /\ k.by # "nobody"
  BY DEF LessonsAreEarned
<1>1. LessonChange(s)
  BY LessonChanges
<1>2. ASSUME lessons'[s].status = "promoted"
      PROVE  \E k \in skills : k.source \in lessons[s].recoveries /\ k.by # "nobody"
  <2>1. CASE lessons[s].status = "promoted"
    BY <2>1 DEF EarnedInv, LessonsAreEarned
  <2>2. ASSUME NEW j \in Jobs, pc[j] = "mark", s \in learned[j][Head(rest[j])]
        PROVE  \E k \in skills : k.source \in lessons[s].recoveries /\ k.by # "nobody"
    <3>1. Head(rest[j]) \in Runs
      BY <2>2 DEF TypeOK
    <3>2. QED
      BY <2>2, <3>1 DEF EarnedInv, LearnedIsWritten, MarkedAfterPromotion
  <2>3. QED
    BY <1>1, <1>2, <2>1, <2>2 DEF LessonChange
<1>3. ASSUME lessons'[s].status = "promoted"
      PROVE  \E k \in skills' : k.source \in lessons'[s].recoveries /\ k.by # "nobody"
  <2>1. PICK k \in skills : k.source \in lessons[s].recoveries /\ k.by # "nobody"
    BY <1>2, <1>3
  <2>2. QED
    BY <1>1, <2>1, RowsPersist DEF LessonChange
<1>4. ASSUME lessons'[s].status = "validated" PROVE lessons'[s].recoveries # {}
  BY <1>1, <1>4 DEF LessonChange, EarnedInv, LessonsAreEarned
<1>5. QED
  BY <1>3, <1>4

(* A lesson is validated only by a recovery, and promoted only with the    *)
(* skill of a run that recovered from it, across losses and settlings.     *)
THEOREM LessonsStayEarned == Spec => []LessonsAreEarned
<1>1. Init => EarnedInv
  BY DEF Init, Unwritten, EarnedInv, LessonsAreEarned, LearnedIsWritten, MarkedAfterPromotion
<1>2. TypeOK /\ RowsInv /\ EarnedInv /\ [Next]_vars => EarnedInv'
  BY StepLearned, StepMarked, StepEarned DEF EarnedInv, RowsInv
<1>3. EarnedInv => LessonsAreEarned
  BY DEF EarnedInv
<1>4. QED
  BY <1>1, <1>2, <1>3, RowsHold, TypeCorrect, PTL DEF Spec

(* Evidence is counted once and status is earned by it.                    *)
THEOREM EvidenceHolds == Spec => []EvidenceIsEarned
  BY EvidenceIsCountedOnce, LessonsStayEarned, PTL DEF EvidenceIsEarned

(* One candidate for a run, one skill that jobs promoted for a name.       *)
THEOREM CandidatesHold == Spec => []CandidatesAreSound
  BY OneCandidate, NoTwins, PTL DEF CandidatesAreSound
-----------------------------------------------------------------------------
(* Nothing is left undone                                                  *)

Undisturbed == crashes = 0 /\ faults = 0

Owns(j, r) == \E b \in DOMAIN Batch[j] : Batch[j][b] = r

Pending(j, r) == \E i \in DOMAIN rest[j] : rest[j][i] = r

Creating == {"create", "insert", "dedup", "promote", "mark", "done"}

(* The run has a candidate, or a job of another batch has one of its name. *)
HasSkill(r) ==
  \E k \in skills : k.source = r \/ (Name[k.source] = Name[r] /\ ~SameBatch(k.source, r))

(* No run is left to visit twice in a pass, and none after the last.       *)
EachVisitedOnce(j) ==
  /\ \A a, b \in DOMAIN rest[j] : rest[j][a] = rest[j][b] => a = b
  /\ pc[j] = "done" => rest[j] = <<>>

(* What a job has learned, it learned from successes of its own batch, in  *)
(* its second pass.                                                        *)
LearnedInPass(j) ==
  \A r \in Runs :
    /\ learned[j][r] # {} => Owns(j, r) /\ r \in Succeeded
    /\ pc[j] \in {"down", "failures"} \/ (pc[j] = "successes" /\ Pending(j, r)) =>
         learned[j][r] = {}

(* A job that promoted a skill has marked its lessons, or does it next.    *)
MarkFollows(j) ==
  \A k \in skills : k.by = "job" /\ Owns(j, k.source) =>
    \/ pc[j] = "mark" /\ Head(rest[j]) = k.source
    \/ \A s \in learned[j][k.source] : lessons[s].status = "promoted"

(* The version a job has read is taken only by a job of another batch.     *)
TakenByOthers(j) ==
  pc[j] = "insert" /\ version[j] \in Versions(Name[Head(rest[j])]) => HasSkill(Head(rest[j]))

(* Every run of the last pass that taught something has its skill.         *)
TaughtHasSkill(j) ==
  \A r \in Runs \cap Progress :
    learned[j][r] # {} /\ pc[j] \in Creating /\ ~Pending(j, r) => HasSkill(r)

(* A recovery in the table is one that its job still remembers.            *)
Remembered == \A s \in Signatures : \A r \in lessons[s].recoveries : \E j \in Jobs : s \in learned[j][r]

(* A skill is of a run whose job has come to its last pass.                *)
OwnerCreates == \A k \in skills : \E j \in Jobs : Owns(j, k.source) /\ pc[j] \in Creating

JobComplete(j) ==
  EachVisitedOnce(j) /\ LearnedInPass(j) /\ MarkFollows(j) /\ TakenByOthers(j) /\ TaughtHasSkill(j)

(* What holds as long as no process is lost and no update fails.           *)
CompleteInv == Undisturbed => Remembered /\ OwnerCreates /\ \A j \in Jobs : JobComplete(j)

LEMMA OneOwner ==
  ASSUME NEW i \in Jobs, NEW j \in Jobs, NEW r, Owns(i, r), Owns(j, r)
  PROVE  i = j
  BY RunsAssumption DEF Owns

LEMMA BatchesApart ==
  ASSUME NEW i \in Jobs, NEW j \in Jobs, i # j, NEW r, NEW q, Owns(i, r), Owns(j, q)
  PROVE  ~SameBatch(r, q)
<1> SUFFICES ASSUME NEW l \in Jobs, Owns(l, r), Owns(l, q) PROVE FALSE
  BY DEF SameBatch, Owns
<1>1. QED
  BY OneOwner

LEMMA HeadOwned ==
  ASSUME TypeOK, OwnRuns, NEW j \in Jobs, rest[j] # <<>>
  PROVE  /\ Head(rest[j]) \in Runs
         /\ Owns(j, Head(rest[j]))
         /\ Pending(j, Head(rest[j]))
<1>1. 1 \in DOMAIN rest[j] /\ Head(rest[j]) = rest[j][1] /\ rest[j][1] \in Runs
  BY DEF TypeOK
<1>2. QED
  BY <1>1 DEF OwnRuns, Owns, Pending

(* What moving on in a pass leaves to visit. *)
LEMMA TailPending ==
  ASSUME TypeOK, NEW j \in Jobs, rest[j] # <<>>, rest'[j] = Tail(rest[j]), EachVisitedOnce(j)
  PROVE  /\ \A r : Pending(j, r)' => Pending(j, r) /\ r # Head(rest[j])
         /\ \A r : Pending(j, r) /\ r # Head(rest[j]) => Pending(j, r)'
         /\ \A a, b \in DOMAIN rest'[j] : rest'[j][a] = rest'[j][b] => a = b
<1>1. /\ rest[j] \in Seq(Runs)
      /\ Head(rest[j]) = rest[j][1] /\ 1 \in DOMAIN rest[j]
      /\ \A i \in DOMAIN rest'[j] : i \in Nat \ {0} /\ i + 1 \in DOMAIN rest[j] /\ rest'[j][i] = rest[j][i + 1]
      /\ \A i \in DOMAIN rest[j] : i # 1 => i - 1 \in DOMAIN rest'[j] /\ rest'[j][i - 1] = rest[j][i]
  BY DEF TypeOK
<1>2. \A i \in DOMAIN rest'[j] : rest'[j][i] # Head(rest[j])
  BY <1>1 DEF EachVisitedOnce
<1>3. \A a, b \in DOMAIN rest'[j] : rest'[j][a] = rest'[j][b] => a = b
  BY <1>1 DEF EachVisitedOnce
<1>4. QED
  BY <1>1, <1>2, <1>3 DEF Pending

LEMMA RestSteps ==
  ASSUME TypeOK, NEW j \in Jobs, JobStep(j)
  PROVE  /\ \/ rest'[j] = rest[j]
            \/ rest[j] # <<>> /\ rest'[j] = Tail(rest[j])
            \/ rest'[j] \in {<<>>, Batch[j]}
         /\ pc'[j] = "done" => rest'[j] = <<>>
<1> USE DEF TypeOK, DoneWith, memory
<1>1. CASE Start(j) \/ NextPass(j) \/ PassOver(j) \/ RecordFailure(j) \/ RecordSuccess(j)
  BY <1>1 DEF Start, NextPass, PassOver, RecordFailure, RecordSuccess
<1>2. CASE ReadForCreate(j)
  BY <1>2 DEF ReadForCreate
<1>3. CASE Insert(j) \/ Dedup(j)
  BY <1>3 DEF Insert, Dedup
<1>4. CASE Promote(j) \/ PromoteRefused(j) \/ MarkPromoted(j)
  BY <1>4 DEF Promote, PromoteRefused, MarkPromoted
<1>5. QED
  BY <1>1, <1>2, <1>3, <1>4 DEF JobStep

LEMMA StepVisited ==
  ASSUME TypeOK, NEW j \in Jobs, JobStep(j), EachVisitedOnce(j)
  PROVE  EachVisitedOnce(j)'
<1>1. \A a, b \in DOMAIN Batch[j] : Batch[j][a] = Batch[j][b] => a = b
  BY RunsAssumption
<1>2. rest'[j] = Tail(rest[j]) /\ rest[j] # <<>> =>
        \A a, b \in DOMAIN rest'[j] : rest'[j][a] = rest'[j][b] => a = b
  BY TailPending
<1>3. \A a, b \in DOMAIN rest'[j] : rest'[j][a] = rest'[j][b] => a = b
  BY <1>1, <1>2, RestSteps DEF EachVisitedOnce
<1>4. QED
  BY <1>3, RestSteps DEF EachVisitedOnce

LEMMA HasSkillKept ==
  ASSUME TypeOK, [Next]_vars, NEW r, HasSkill(r)
  PROVE  HasSkill(r)'
<1>1. PICK k \in skills : k.source = r \/ (Name[k.source] = Name[r] /\ ~SameBatch(k.source, r))
  BY DEF HasSkill
<1>2. PICK q \in skills' : q.source = k.source
  BY RowsPersist
<1>3. QED
  BY <1>1, <1>2 DEF HasSkill

LEMMA NextVersionFree ==
  ASSUME TypeOK, VersionsBounded, NEW name
  PROVE  NextVersion(name) \notin Versions(name)
<1>1. CASE Versions(name) = {}
  BY <1>1 DEF NextVersion
<1>2. CASE Versions(name) # {}
  <2>1. Versions(name) \in SUBSET Nat
    BY DEF TypeOK, Skill, Versions
  <2>2. PICK m \in Nat : \A v \in Versions(name) : v <= m
    BY DEF VersionsBounded, Versions
  <2>3. \E v \in Versions(name) : \A u \in Versions(name) : u <= v
    BY <1>2, <2>1, <2>2, GreatestExists
  <2>4. PICK v \in Versions(name) : NextVersion(name) = 1 + v /\ \A u \in Versions(name) : u <= v
    BY <1>2, <2>3 DEF NextVersion
  <2>5. QED
    BY <2>1, <2>4
<1>3. QED
  BY <1>1, <1>2

(* What a job has learned changes in its second pass only.                 *)
LEMMA StepLearnedInPass ==
  ASSUME TypeOK, OwnRuns, NEW j \in Jobs, JobStep(j), EachVisitedOnce(j), LearnedInPass(j)
  PROVE  LearnedInPass(j)'
<1> USE DEF TypeOK, tables, memory, bounds
<1>1. CASE Start(j)
  BY <1>1 DEF Start, LearnedInPass
<1>2. CASE NextPass(j)
  BY <1>2 DEF NextPass, LearnedInPass
<1>3. CASE PassOver(j) \/ RecordFailure(j)
  <2>1. rest[j] # <<>> /\ rest'[j] = Tail(rest[j]) /\ pc' = pc /\ learned' = learned
    BY <1>3 DEF PassOver, RecordFailure
  <2>2. \A r : Pending(j, r)' => Pending(j, r)
    BY <2>1, TailPending
  <2>3. QED
    BY <2>1, <2>2 DEF LearnedInPass
<1>4. CASE RecordSuccess(j)
  <2> DEFINE h == Head(rest[j])
  <2>1. /\ rest[j] # <<>> /\ rest'[j] = Tail(rest[j]) /\ pc' = pc /\ pc[j] = "successes"
        /\ h \in Succeeded
        /\ learned' = [learned EXCEPT ![j][h] = Proven(h)]
    BY <1>4 DEF RecordSuccess
  <2>2. h \in Runs /\ Owns(j, h)
    BY <2>1, HeadOwned
  <2>3. \A r \in Runs : r # h => learned'[j][r] = learned[j][r]
    BY <2>1, <2>2
  <2>4. \A r : Pending(j, r)' => Pending(j, r) /\ r # h
    BY <2>1, TailPending
  <2> HIDE DEF h
  <2>5. QED
    BY <2>1, <2>2, <2>3, <2>4 DEF LearnedInPass
<1>5. CASE ReadForCreate(j) \/ Insert(j) \/ Dedup(j) \/ Promote(j) \/ PromoteRefused(j) \/ MarkPromoted(j)
  <2>1. learned' = learned /\ pc'[j] \in Creating
    BY <1>5 DEF ReadForCreate, Insert, Dedup, Promote, PromoteRefused, MarkPromoted, DoneWith, Creating
  <2>2. QED
    BY <2>1 DEF LearnedInPass, Creating
<1>6. QED
  BY <1>1, <1>2, <1>3, <1>4, <1>5 DEF JobStep

(* How a job acts before its last pass, and in it. *)
LEMMA EarlySteps ==
  ASSUME TypeOK, NEW j \in Jobs, JobStep(j), pc[j] \notin Creating
  PROVE  /\ UNCHANGED skills
         /\ pc'[j] \in {"failures", "successes", "create"}
         /\ pc'[j] = "create" => rest'[j] = Batch[j] /\ learned' = learned
  BY DEF JobStep, Start, NextPass, PassOver, RecordFailure, RecordSuccess, ReadForCreate, Insert,
         Dedup, Promote, PromoteRefused, MarkPromoted, Creating, TypeOK, tables, memory

LEMMA LateSteps ==
  ASSUME TypeOK, NEW j \in Jobs, JobStep(j), pc[j] \in Creating
  PROVE  /\ pc'[j] \in Creating
         /\ learned' = learned
         /\ MarkPromoted(j) \/ UNCHANGED lessons
         /\ Insert(j) \/ Promote(j) \/ UNCHANGED skills
  BY DEF JobStep, Start, NextPass, PassOver, RecordFailure, RecordSuccess, ReadForCreate, Insert,
         Dedup, Promote, PromoteRefused, MarkPromoted, Creating, TypeOK, tables, memory, DoneWith

LEMMA StepOwnerCreates ==
  ASSUME TypeOK, OwnRuns, OwnerCreates, NEW j \in Jobs, JobStep(j),
         \A i \in Jobs \ {j} : Mine(i)' = Mine(i)
  PROVE  OwnerCreates'
<1>1. \A i \in Jobs : pc[i] \in Creating => pc'[i] \in Creating
  BY LateSteps DEF Mine
<1>2. \A k \in skills : \E i \in Jobs : Owns(i, k.source) /\ pc'[i] \in Creating
  BY <1>1 DEF OwnerCreates
<1>3. CASE UNCHANGED skills
  BY <1>2, <1>3 DEF OwnerCreates
<1>4. CASE Insert(j) /\ ~UNCHANGED skills
  <2>1. /\ rest[j] # <<>> /\ pc[j] \in Creating
        /\ \A k \in skills' : k \in skills \/ k.source = Head(rest[j])
    BY <1>4 DEF Insert, TypeOK, Creating
  <2>2. Owns(j, Head(rest[j]))
    BY <2>1, HeadOwned
  <2>3. QED
    BY <1>1, <1>2, <2>1, <2>2 DEF OwnerCreates
<1>5. CASE Promote(j)
  <2>1. PICK k \in skills, q \in Skill : Restates(k, q)
    BY <1>5, PromoteRestates
  <2>2. \A p \in skills' : \E o \in skills : o.source = p.source
    BY <2>1 DEF Restates
  <2>3. QED
    BY <1>2, <2>2 DEF OwnerCreates
<1>6. QED
  BY <1>3, <1>4, <1>5, EarlySteps, LateSteps

(* A recovery is remembered by the job that wrote it.                      *)
LEMMA StepRemembered ==
  ASSUME TypeOK, OwnRuns, Remembered, [Next]_vars, NEW j \in Jobs, JobStep(j),
         LearnedInPass(j), \A i \in Jobs \ {j} : Mine(i)' = Mine(i)
  PROVE  Remembered'
<1> SUFFICES ASSUME NEW s \in Signatures, NEW r \in lessons'[s].recoveries
             PROVE  \E i \in Jobs : s \in learned'[i][r]
  BY DEF Remembered
<1>1. CASE RecordSuccess(j)
  <2> DEFINE h == Head(rest[j])
  <2>1. /\ rest[j] # <<>> /\ pc[j] = "successes"
        /\ lessons'[s] = IF s \in Proven(h) THEN Validate(Supported(h)[s], h) ELSE Supported(h)[s]
        /\ learned' = [learned EXCEPT ![j][h] = Proven(h)]
    BY <1>1 DEF RecordSuccess
  <2>2. h \in Runs /\ Pending(j, h)
    BY <2>1, HeadOwned
  <2>3. Supported(h)[s].recoveries = lessons[s].recoveries
    BY <2>2 DEF Supported, Upsert, TypeOK
  <2>4. learned'[j][h] = Proven(h) /\ \A q \in Runs : q # h => learned'[j][q] = learned[j][q]
    BY <2>1, <2>2 DEF TypeOK
  <2>5. r \in lessons[s].recoveries \/ (r = h /\ s \in Proven(h))
    BY <2>1, <2>3 DEF Validate
  <2>6. CASE r \in lessons[s].recoveries
    <3>1. PICK i \in Jobs : s \in learned[i][r]
      BY <2>6 DEF Remembered
    <3>2. r \in Runs
      BY <2>6 DEF TypeOK, Lesson
    <3>3. i = j => r # h
      BY <2>1, <2>2, <3>1 DEF LearnedInPass
    <3>4. QED
      BY <2>4, <3>1, <3>2, <3>3 DEF Mine
  <2>7. QED
    BY <2>4, <2>5, <2>6
<1>2. CASE ~RecordSuccess(j)
  <2>1. lessons'[s].recoveries = lessons[s].recoveries
    <3>1. CASE RecordFailure(j)
      <4>1. Head(rest[j]) \in Runs /\ lessons' = Supported(Head(rest[j]))
        BY <3>1 DEF RecordFailure, TypeOK
      <4>2. QED
        BY <4>1 DEF Supported, Upsert, TypeOK
    <3>2. CASE MarkPromoted(j)
      <4>1. lessons[s] \in Lesson
        BY DEF TypeOK
      <4>2. QED
        BY <3>2, <4>1 DEF MarkPromoted, Lesson
    <3>3. CASE ~RecordFailure(j) /\ ~MarkPromoted(j)
      BY <1>2, <3>3 DEF JobStep, Start, NextPass, PassOver, ReadForCreate, Insert,
                        Dedup, Promote, PromoteRefused, tables
    <3>4. QED
      BY <3>1, <3>2, <3>3
  <2>2. learned' = learned
    BY <1>2 DEF JobStep, Start, NextPass, PassOver, RecordFailure, ReadForCreate, Insert,
                Dedup, Promote, PromoteRefused, MarkPromoted, memory
  <2>3. QED
    BY <2>1, <2>2 DEF Remembered
<1>3. QED
  BY <1>1, <1>2

(* A step of the job itself: its promoted skills have their lessons marked *)
(* or are about to.                                                        *)
LEMMA OwnMarkFollows ==
  ASSUME TypeOK, RowInHand, KeysUnique, OwnRuns, OwnerCreates, [Next]_vars,
         NEW j \in Jobs, JobStep(j), MarkFollows(j)
  PROVE  MarkFollows(j)'
<1>1. CASE pc[j] \notin Creating
  <2>1. \A k \in skills : ~Owns(j, k.source)
    BY <1>1, OneOwner DEF OwnerCreates
  <2>2. QED
    BY <1>1, <2>1, EarlySteps DEF MarkFollows, Owns
<1>2. CASE pc[j] \in Creating
  <2>0. learned' = learned /\ \A s \in Signatures : lessons[s].status = "promoted" => lessons'[s].status = "promoted"
    BY <1>2, LateSteps, LessonKept
  <2>a. \A r \in Runs : learned[j][r] \subseteq Signatures
    BY DEF TypeOK
  <2>b. \A k \in skills : k.source \in Runs
    BY DEF TypeOK, Skill
  <2>1. CASE MarkPromoted(j)
    <3>1. /\ skills' = skills
          /\ \A s \in Signatures : s \in learned[j][Head(rest[j])] => lessons'[s].status = "promoted"
      BY <2>1 DEF MarkPromoted, TypeOK, Lesson
    <3>2. ASSUME NEW k \in skills, k.by = "job", Owns(j, k.source)
          PROVE  \A s \in learned[j][k.source] : lessons'[s].status = "promoted"
      BY <2>0, <2>a, <2>b, <3>1, <3>2 DEF MarkFollows
    <3>3. QED
      BY <2>0, <3>1, <3>2 DEF MarkFollows, Owns
  <2>2. ASSUME pc[j] # "mark", NEW k \in skills, k.by = "job", Owns(j, k.source)
        PROVE  \A s \in learned'[j][k.source] : lessons'[s].status = "promoted"
    BY <2>0, <2>a, <2>b, <2>2 DEF MarkFollows
  <2>3. ~MarkPromoted(j) => pc[j] # "mark"
    BY DEF JobStep, Start, NextPass, PassOver, RecordFailure, RecordSuccess, ReadForCreate, Insert,
           Dedup, Promote, PromoteRefused
  <2>4. CASE ~MarkPromoted(j) /\ UNCHANGED skills
    BY <2>2, <2>3, <2>4 DEF MarkFollows, Owns
  <2>5. CASE Insert(j)
    <3>1. \A k \in skills' : k \in skills \/ k.by = "nobody"
      BY <2>5 DEF Insert
    <3>2. pc[j] # "mark"
      BY <2>5 DEF Insert
    <3>3. QED
      BY <2>2, <3>1, <3>2 DEF MarkFollows, Owns
  <2>6. CASE Promote(j)
    <3>1. PICK k \in skills, q \in Skill : Restates(k, q) /\ InHand(j, k)
      BY <2>6, PromoteRestates
    <3>2. k.source = Head(rest[j])
      BY <2>6, <3>1 DEF Promote, RowInHand, KeysUnique, SameKey, InHand
    <3>3. pc'[j] = "mark" /\ rest' = rest /\ pc[j] # "mark"
      BY <2>6 DEF Promote, TypeOK, memory
    <3>4. \A p \in skills' : p \in skills \/ p.source = Head(rest'[j])
      BY <3>1, <3>2, <3>3 DEF Restates
    <3>5. QED
      BY <2>2, <3>3, <3>4 DEF MarkFollows, Owns
  <2>7. QED
    BY <1>2, <2>1, <2>4, <2>5, <2>6, LateSteps
<1>3. QED
  BY <1>1, <1>2

(* The rows a step restates or adds for another job say nothing of j's.    *)
LEMMA OthersMarkFollows ==
  ASSUME TypeOK, RowInHand, KeysUnique, OwnRuns, [Next]_vars,
         NEW j \in Jobs, Mine(j)' = Mine(j), MarkFollows(j)
  PROVE  MarkFollows(j)'
<1>1. /\ pc'[j] = pc[j] /\ rest'[j] = rest[j] /\ learned'[j] = learned[j]
  BY DEF Mine
<1>2. \A s \in Signatures : lessons[s].status = "promoted" => lessons'[s].status = "promoted"
  BY LessonKept
<1>3. \A r \in Runs : learned[j][r] \subseteq Signatures
  BY DEF TypeOK
<1>4. \A k \in skills : k.source \in Runs
  BY DEF TypeOK, Skill
<1>5. ASSUME NEW k \in skills', k.by = "job", Owns(j, k.source)
      PROVE  \E o \in skills : o.by = "job" /\ o.source = k.source
  <2>1. CASE k \in skills
    BY <1>5, <2>1
  <2>2. ASSUME NEW i \in Jobs, Adds(i) PROVE k \in skills
    BY <1>5, <2>2 DEF Adds
  <2>3. ASSUME NEW i \in Jobs, Promote(i) PROVE k \in skills
    <3>1. PICK o \in skills, q \in Skill : Restates(o, q) /\ InHand(i, o)
      BY <2>3, PromoteRestates
    <3>2. o.source = Head(rest[i]) /\ rest[i] # <<>>
      BY <2>3, <3>1 DEF Promote, RowInHand, KeysUnique, SameKey, InHand, TypeOK
    <3>3. k \in skills \/ k.source = Head(rest[i])
      BY <3>1, <3>2 DEF Restates
    <3>4. i # j
      BY <1>1, <2>3 DEF Promote, TypeOK
    <3>5. Owns(i, Head(rest[i]))
      BY <3>2, HeadOwned
    <3>6. QED
      BY <1>5, <3>3, <3>4, <3>5, OneOwner
  <2>4. ASSUME NEW p, NEW status, Review(p, status)
        PROVE  \E o \in skills : o.by = "job" /\ o.source = k.source
    <3> DEFINE q == [p EXCEPT !.status = status,
                              !.by = IF status = "promoted" THEN "reviewer" ELSE @]
    <3>1. p \in skills /\ p \in Skill /\ skills' = (skills \ {p}) \cup {q}
      BY <2>4 DEF Review, TypeOK
    <3>2. q.source = p.source /\ (q.by = "job" => p.by = "job")
      BY <3>1 DEF Skill
    <3> HIDE DEF q
    <3>3. QED
      BY <1>5, <3>1, <3>2
  <2>5. QED
    BY <2>1, <2>2, <2>3, <2>4, SkillsChange
<1>6. QED
  BY <1>1, <1>2, <1>3, <1>4, <1>5 DEF MarkFollows, Owns

(* A job reads a version that is free.                                     *)
LEMMA OwnTaken ==
  ASSUME TypeOK, VersionsBounded, NEW j \in Jobs, JobStep(j)
  PROVE  TakenByOthers(j)'
<1> SUFFICES ASSUME pc'[j] = "insert"
             PROVE  version'[j] \notin Versions(Name[Head(rest[j])])'
                    /\ rest'[j] = rest[j]
  BY DEF TakenByOthers, Versions
<1>1. ReadForCreate(j)
  BY DEF JobStep, Start, NextPass, PassOver, RecordFailure, RecordSuccess, Insert,
         Dedup, Promote, PromoteRefused, MarkPromoted, TypeOK, DoneWith
<1>2. version'[j] = NextVersion(Name[Head(rest[j])]) /\ rest' = rest /\ skills' = skills
  BY <1>1 DEF ReadForCreate, DoneWith, TypeOK, tables
<1>3. QED
  BY <1>2, NextVersionFree DEF Versions

(* Only the row of another job can take it before the insert.              *)
LEMMA OthersTaken ==
  ASSUME TypeOK, OwnRuns, [Next]_vars, NEW j \in Jobs, Mine(j)' = Mine(j), TakenByOthers(j)
  PROVE  TakenByOthers(j)'
<1>0. PICK h : h = Head(rest[j])
  OBVIOUS
<1> SUFFICES ASSUME pc[j] = "insert", version[j] \in Versions(Name[h])'
             PROVE  HasSkill(h)'
  BY <1>0 DEF TakenByOthers, Mine, Versions, HasSkill
<1>1. rest[j] # <<>> /\ h \in Runs /\ Owns(j, h)
  BY <1>0, HeadOwned DEF TypeOK
<1>2. CASE version[j] \in Versions(Name[h])
  <2>1. HasSkill(h)
    BY <1>0, <1>2 DEF TakenByOthers
  <2>2. QED
    BY <2>1, HasSkillKept
<1>3. CASE version[j] \notin Versions(Name[h])
  <2>1. PICK k \in skills' : k.version = version[j] /\ Name[k.source] = Name[h]
    BY DEF Versions
  <2>2. \A o \in skills : ~(o.version = version[j] /\ Name[o.source] = Name[h])
    BY <1>3 DEF Versions
  <2>3. ~\E o \in skills, q \in Skill : Restates(o, q)
    BY <2>1, <2>2 DEF Restates
  <2>4. PICK i \in Jobs : Insert(i) /\ Adds(i)
    BY <2>1, <2>2, <2>3, SkillsSteps
  <2>5. k.source = Head(rest[i]) /\ rest[i] # <<>>
    BY <2>1, <2>2, <2>4 DEF Adds, TypeOK
  <2>6. i # j
    BY <2>4 DEF Insert, Adds, DoneWith, Mine, TypeOK
  <2>7. ~SameBatch(k.source, h)
    BY <1>1, <2>5, <2>6, HeadOwned, BatchesApart
  <2>8. QED
    BY <2>1, <2>7 DEF HasSkill
<1>4. QED
  BY <1>2, <1>3

(* The run a job is done with has its skill, if it taught something.       *)
LEMMA LeavesSkill ==
  ASSUME TypeOK, RowInHand, NEW j \in Jobs, JobStep(j), pc[j] \in Creating \ {"done"},
         rest[j] # <<>>, rest'[j] # rest[j],
         LearnedInPass(j), TakenByOthers(j),
         NEW r \in Progress, r = Head(rest[j]), r \in Runs, learned[j][r] # {}
  PROVE  HasSkill(r) /\ rest'[j] = Tail(rest[j])
<1> USE DEF tables, memory, bounds
<1>1. r \in Succeeded
  BY DEF LearnedInPass
<1>2. CASE ReadForCreate(j)
  <2>1. DoneWith(j) /\ \E k \in RowsOf(r) : k.status = "promoted"
    BY <1>2 DEF ReadForCreate
  <2>2. QED
    BY <2>1 DEF DoneWith, RowsOf, HasSkill, TypeOK
<1>3. CASE Insert(j)
  <2>1. DoneWith(j) /\ version[j] \in Versions(Name[r]) /\ pc[j] = "insert"
    BY <1>3 DEF Insert
  <2>2. QED
    BY <2>1 DEF TakenByOthers, DoneWith, TypeOK
<1>4. CASE Dedup(j) \/ PromoteRefused(j) \/ MarkPromoted(j)
  <2>1. DoneWith(j) /\ pc[j] \in {"dedup", "promote", "mark"}
    BY <1>4 DEF Dedup, PromoteRefused, MarkPromoted
  <2>2. QED
    BY <2>1 DEF RowInHand, HasSkill, DoneWith, TypeOK
<1>5. ~Promote(j)
  BY DEF Promote
<1>6. ~PassOver(j)
  BY <1>1 DEF PassOver, Creating
<1>7. QED
  BY <1>2, <1>3, <1>4, <1>5, <1>6
     DEF JobStep, Start, NextPass, RecordFailure, RecordSuccess, Creating

LEMMA OwnTaught ==
  ASSUME TypeOK, RowInHand, OwnRuns, [Next]_vars, NEW j \in Jobs, JobStep(j),
         EachVisitedOnce(j), LearnedInPass(j), TakenByOthers(j), TaughtHasSkill(j)
  PROVE  TaughtHasSkill(j)'
<1> SUFFICES ASSUME NEW r \in Runs \cap Progress,
                    learned'[j][r] # {}, pc'[j] \in Creating, ~Pending(j, r)'
             PROVE  HasSkill(r)'
  BY DEF TaughtHasSkill
<1>1. CASE pc[j] \notin Creating
  <2>1. pc'[j] = "create" /\ rest'[j] = Batch[j] /\ learned' = learned
    BY <1>1, EarlySteps DEF Creating
  <2>2. Owns(j, r)
    BY <2>1 DEF LearnedInPass
  <2>3. Pending(j, r)'
    BY <2>1, <2>2 DEF Pending, Owns
  <2>4. QED
    BY <2>3
<1>2. CASE pc[j] \in Creating
  <2>1. learned' = learned
    BY <1>2, LateSteps
  <2>2. CASE ~Pending(j, r)
    <3>1. HasSkill(r)
      BY <1>2, <2>1, <2>2 DEF TaughtHasSkill
    <3>2. QED
      BY <3>1, HasSkillKept
  <2>3. CASE Pending(j, r)
    <3>1. rest[j] # <<>> /\ rest'[j] # rest[j]
      BY <2>3 DEF Pending
    <3>2. pc[j] # "done"
      BY <3>1 DEF EachVisitedOnce
    <3>3. rest'[j] = Tail(rest[j])
      BY <1>2, <3>1, <3>2
         DEF JobStep, Start, NextPass, PassOver, RecordFailure, RecordSuccess, ReadForCreate,
             Insert, Dedup, Promote, PromoteRefused, MarkPromoted, Creating, TypeOK, DoneWith,
             memory
    <3>4. r = Head(rest[j])
      BY <2>3, <3>1, <3>3, TailPending
    <3>5. HasSkill(r)
      BY <1>2, <2>1, <3>1, <3>2, <3>4, LeavesSkill
    <3>6. QED
      BY <3>5, HasSkillKept
  <2>4. QED
    BY <2>2, <2>3
<1>3. QED
  BY <1>1, <1>2

LEMMA OthersRest ==
  ASSUME TypeOK, [Next]_vars, NEW j \in Jobs, Mine(j)' = Mine(j),
         EachVisitedOnce(j), LearnedInPass(j), TaughtHasSkill(j)
  PROVE  EachVisitedOnce(j)' /\ LearnedInPass(j)' /\ TaughtHasSkill(j)'
<1>1. pc'[j] = pc[j] /\ rest'[j] = rest[j] /\ learned'[j] = learned[j]
  BY DEF Mine
<1>2. \A r : Pending(j, r)' <=> Pending(j, r)
  BY <1>1 DEF Pending
<1>3. TaughtHasSkill(j)'
  BY <1>1, <1>2, HasSkillKept DEF TaughtHasSkill
<1>4. QED
  BY <1>1, <1>2, <1>3 DEF EachVisitedOnce, LearnedInPass, Owns

LEMMA JobCompleteKept ==
  ASSUME TypedTables, RowsInv, OwnerCreates, [Next]_vars, NEW j \in Jobs, JobComplete(j),
         Mine(j)' = Mine(j) \/ JobStep(j)
  PROVE  JobComplete(j)'
  BY StepVisited, StepLearnedInPass, OwnMarkFollows, OwnTaken, OwnTaught,
     OthersRest, OthersMarkFollows, OthersTaken
     DEF JobComplete, TypedTables, RowsInv

(* Steps that belong to no job: a review, or nothing. *)
LEMMA IdleComplete ==
  ASSUME TypeOK, [Next]_vars, \A j \in Jobs : Mine(j)' = Mine(j), Remembered, OwnerCreates
  PROVE  Remembered' /\ OwnerCreates'
<1> USE DEF Mine
<1>1. UNCHANGED lessons
  <2>1. ASSUME NEW j \in Jobs, RecordFailure(j) \/ RecordSuccess(j) \/ MarkPromoted(j) PROVE FALSE
    <3>1. rest[j] # <<>> /\ rest'[j] = Tail(rest[j]) /\ rest[j] \in Seq(Runs)
      BY <2>1 DEF RecordFailure, RecordSuccess, MarkPromoted, DoneWith, TypeOK
    <3>2. Len(rest'[j]) # Len(rest[j])
      BY <3>1
    <3>3. QED
      BY <3>2
  <2>2. QED
    BY <2>1, LessonsSteps
<1>2. \A k \in skills' : \E o \in skills : o.source = k.source
  <2>1. ASSUME NEW j \in Jobs, Insert(j), Adds(j) PROVE FALSE
    BY <2>1 DEF Insert, Adds, DoneWith, TypeOK
  <2>2. ASSUME NEW o \in skills, NEW q \in Skill, Restates(o, q)
        PROVE  \A k \in skills' : \E p \in skills : p.source = k.source
    BY <2>2 DEF Restates
  <2>3. QED
    BY <2>1, <2>2, SkillsSteps
<1>3. QED
  BY <1>1, <1>2 DEF Remembered, OwnerCreates

LEMMA InitComplete == Init => CompleteInv
<1> SUFFICES ASSUME Init PROVE CompleteInv
  OBVIOUS
<1>1. Remembered /\ OwnerCreates
  BY DEF Init, Unwritten, Remembered, OwnerCreates
<1>2. \A j \in Jobs : JobComplete(j)
  BY DEF Init, JobComplete, EachVisitedOnce, LearnedInPass, MarkFollows, TakenByOthers,
         TaughtHasSkill, Creating
<1>3. QED
  BY <1>1, <1>2 DEF CompleteInv

LEMMA StepComplete ==
  TypedTables /\ RowsInv /\ CompleteInv /\ [Next]_vars => CompleteInv'
<1> SUFFICES ASSUME TypedTables, RowsInv, CompleteInv, [Next]_vars, Undisturbed'
             PROVE  Remembered' /\ OwnerCreates' /\ \A j \in Jobs : JobComplete(j)'
  BY DEF CompleteInv
<1> USE DEF TypedTables
<1>1. Undisturbed /\ \A j \in Jobs : ~Crash(j) /\ ~UpdateFails(j)
  <2>1. crashes \in Nat /\ faults \in Nat /\ crashes' = 0 /\ faults' = 0
    BY RunsAssumption DEF TypeOK, Undisturbed
  <2>2. \A j \in Jobs : ~Crash(j) /\ ~UpdateFails(j)
    BY <2>1 DEF Crash, UpdateFails
  <2>3. \A j \in Jobs : JobStep(j) => UNCHANGED <<crashes, faults>>
    BY DEF JobStep, Start, NextPass, PassOver, RecordFailure, RecordSuccess, ReadForCreate,
           Insert, Dedup, Promote, PromoteRefused, MarkPromoted, bounds
  <2>4. \A k, status : Review(k, status) => UNCHANGED <<crashes, faults>>
    BY DEF Review
  <2>5. UNCHANGED <<crashes, faults>>
    BY <2>2, <2>3, <2>4 DEF Next, vars, bounds
  <2>6. QED
    BY <2>1, <2>2, <2>5 DEF Undisturbed
<1>2. Remembered /\ OwnerCreates /\ \A j \in Jobs : JobComplete(j)
  BY <1>1 DEF CompleteInv
<1>3. ASSUME NEW j \in Jobs, JobStep(j), \A i \in Jobs \ {j} : Mine(i)' = Mine(i)
      PROVE  Remembered' /\ OwnerCreates' /\ \A i \in Jobs : JobComplete(i)'
  <2>1. \A i \in Jobs : JobComplete(i)'
    BY <1>2, <1>3, JobCompleteKept
  <2>2. Remembered'
    BY <1>2, <1>3, StepRemembered DEF JobComplete, RowsInv
  <2>3. OwnerCreates'
    BY <1>2, <1>3, StepOwnerCreates DEF RowsInv
  <2>4. QED
    BY <2>1, <2>2, <2>3
<1>4. CASE \A i \in Jobs : Mine(i)' = Mine(i)
  BY <1>2, <1>4, IdleComplete, JobCompleteKept
<1>5. QED
  BY <1>1, <1>3, <1>4, OneActs

(* Jobs that are neither lost nor disturbed leave nothing undone, however  *)
(* their transactions and the reviewers' requests interleave: each run     *)
(* that recovered has its skill, each promoted skill has marked its        *)
(* lessons.                                                                *)
THEOREM SettlingCompletes == Spec => []SettlingIsComplete
<1>1. TypeOK /\ CompleteInv => SettlingIsComplete
  <2> SUFFICES ASSUME TypeOK, CompleteInv, Done, crashes = 0, faults = 0,
                      NEW s \in Signatures, NEW r \in lessons[s].recoveries
               PROVE  /\ r \in Progress => HasSkill(r)
                      /\ (\E k \in skills : k.source = r /\ k.by = "job") =>
                           lessons[s].status = "promoted"
    BY DEF SettlingIsComplete, HasSkill
  <2>1. Remembered /\ \A j \in Jobs : JobComplete(j)
    BY DEF CompleteInv, Undisturbed
  <2>2. PICK j \in Jobs : s \in learned[j][r]
    BY <2>1 DEF Remembered
  <2>3. r \in Runs /\ pc[j] = "done" /\ rest[j] = <<>>
    BY <2>1 DEF TypeOK, Lesson, Done, JobComplete, EachVisitedOnce
  <2>4. Owns(j, r) /\ ~Pending(j, r)
    BY <2>1, <2>2, <2>3 DEF JobComplete, LearnedInPass, Pending
  <2>5. r \in Progress => HasSkill(r)
    BY <2>1, <2>2, <2>3, <2>4 DEF JobComplete, TaughtHasSkill, Creating
  <2>6. ASSUME NEW k \in skills, k.source = r, k.by = "job" PROVE lessons[s].status = "promoted"
    BY <2>1, <2>2, <2>3, <2>4, <2>6 DEF JobComplete, MarkFollows
  <2>7. QED
    BY <2>5, <2>6
<1>2. QED
  BY <1>1, InitComplete, StepComplete, RowsHold, TablesTyped, TypeCorrect, PTL DEF Spec
=============================================================================
