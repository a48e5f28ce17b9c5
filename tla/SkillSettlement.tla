-------------------------- MODULE SkillSettlement --------------------------
(***************************************************************************)
(* What happens after the barrier: _finalize_skill_updates and             *)
(* _update_skill of training/live_runner.py against the two tables they    *)
(* write, the learning candidates of skills/learning.py ("lessons" here)   *)
(* and the skills of skills/library.py.  Several jobs settle against the   *)
(* same database, a job may be lost and resumed from its checkpoint at any *)
(* point, an update may fail and be skipped, and a reviewer promotes,      *)
(* deprecates or deletes skills on the dashboard meanwhile.                *)
(*                                                                         *)
(* One step is one database transaction, except that the read and the      *)
(* insert of create_candidate are two: _next_version takes no lock.        *)
(* Skills are similar when they have the same name; the scorer gives those *)
(* at least 0.9, above the default threshold.                              *)
(***************************************************************************)
EXTENDS Naturals, Sequences, FiniteSets

CONSTANTS
  Jobs,
  Runs,
  Signatures,    \* lesson signatures: scope, action type and failure status
  Batch,         \* Batch[j]: the runs of job j's checkpoint, in report order
  Succeeded,     \* the runs whose outcome is a success
  Failure,       \* Failure[r]: signature of r's latest durable failed action
  Recovers,      \* Recovers[r]: lessons for which r's steps hold a recovery
  Informed,      \* runs whose events hold knowledge references
  Progress,      \* runs with a successful progress step
  Worthy,        \* runs that the creation policy accepts by themselves
  Name,          \* Name[r]: the name the summarizer derives for r's skill
  AutoPromote,   \* config.auto_promote
  MaxCrashes,    \* bound: process losses
  MaxFaults,     \* bound: exceptions inside _update_skill
  MaxReviews,    \* bound: reviewer actions
  NoSignature

ASSUME RunsAssumption ==
  /\ Batch \in [Jobs -> Seq(Runs)]
  /\ \A i, j \in Jobs : \A a \in DOMAIN Batch[i], b \in DOMAIN Batch[j] :
       Batch[i][a] = Batch[j][b] => i = j /\ a = b
  /\ Failure \in [Runs -> Signatures \cup {NoSignature}]
  /\ NoSignature \notin Signatures
  /\ Recovers \in [Runs -> SUBSET Signatures]
  /\ AutoPromote \in BOOLEAN
  /\ MaxCrashes \in Nat /\ MaxFaults \in Nat /\ MaxReviews \in Nat

VARIABLES
  lessons,  \* the learning candidates, by signature
  skills,   \* the skill rows; "deleted" is the tombstone
  pc,       \* pc[j]: the transaction job j commits next
  rest,     \* rest[j]: runs the current pass of j has still to visit
  learned,  \* learned[j][r]: what record_success returned for r (memory)
  version,  \* version[j]: version of the candidate in hand (memory)
  crashes, faults, reviews

tables == <<lessons, skills>>
memory == <<rest, learned, version>>
bounds == <<crashes, faults, reviews>>
vars == <<tables, pc, memory, bounds>>

Unwritten == [status |-> "none", support |-> 0, sources |-> {},
              recovery |-> 0, recoveries |-> {}, references |-> {}]

(* Statuses that record_success still selects.                             *)
Open == {"observed", "hypothesized", "corroborated", "validated"}

Init ==
  /\ lessons = [s \in Signatures |-> Unwritten]
  /\ skills = {}
  /\ pc = [j \in Jobs |-> "down"]
  /\ rest = [j \in Jobs |-> <<>>]
  /\ learned = [j \in Jobs |-> [r \in Runs |-> {}]]
  /\ version = [j \in Jobs |-> 0]
  /\ crashes = 0 /\ faults = 0 /\ reviews = 0
-----------------------------------------------------------------------------
(* Process: a start or resume visits every run of the checkpoint again.    *)

Start(j) ==
  /\ pc[j] = "down"
  /\ pc' = [pc EXCEPT ![j] = "failures"]
  /\ rest' = [rest EXCEPT ![j] = Batch[j]]
  /\ UNCHANGED <<tables, learned, version, bounds>>

Crash(j) ==
  /\ crashes < MaxCrashes
  /\ pc[j] # "down"
  /\ crashes' = crashes + 1
  /\ pc' = [pc EXCEPT ![j] = "down"]
  /\ rest' = [rest EXCEPT ![j] = <<>>]
  /\ learned' = [learned EXCEPT ![j] = [r \in Runs |-> {}]]
  /\ version' = [version EXCEPT ![j] = 0]
  /\ UNCHANGED <<tables, faults, reviews>>

(* The loop of a pass ends, the next one starts over the same list.        *)
NextPass(j) ==
  /\ rest[j] = <<>>
  /\ \/ pc[j] = "failures" /\ pc' = [pc EXCEPT ![j] = "successes"]
     \/ pc[j] = "successes" /\ pc' = [pc EXCEPT ![j] = "create"]
     \/ pc[j] = "create" /\ pc' = [pc EXCEPT ![j] = "done"]
  /\ rest' = [rest EXCEPT ![j] = IF pc[j] = "create" THEN <<>> ELSE Batch[j]]
  /\ UNCHANGED <<tables, learned, version, bounds>>

(* The continue at the head of each loop.                                  *)
PassOver(j) ==
  /\ rest[j] # <<>>
  /\ \/ pc[j] = "failures" /\ Head(rest[j]) \in Succeeded
     \/ pc[j] \in {"successes", "create"} /\ Head(rest[j]) \notin Succeeded
  /\ rest' = [rest EXCEPT ![j] = Tail(@)]
  /\ UNCHANGED <<tables, pc, learned, version, bounds>>
-----------------------------------------------------------------------------
(* Lessons                                                                 *)

(* Mutant: a run already among the sources supports the lesson again. *)
UpsertTwice(lesson, r) ==
  IF lesson.status = "none"
    THEN [Unwritten EXCEPT !.status = "observed", !.support = 1, !.sources = {r}]
    ELSE [lesson EXCEPT !.support = @ + 1, !.sources = @ \cup {r}]

(* _upsert_failure_candidate: one more supporting run, counted once; a new *)
(* lesson starts as observed, or as hypothesized with a reference.         *)
Upsert(lesson, r) ==
  LET support    == lesson.support + (IF r \in lesson.sources THEN 0 ELSE 1)
      references == lesson.references \cup ({r} \cap Informed)
  IN  [status |-> IF lesson.status \in {"validated", "promoted"} THEN lesson.status
                  ELSE IF support >= 2 THEN "corroborated"
                  ELSE IF references # {} THEN "hypothesized"
                  ELSE IF lesson.status = "none" THEN "observed" ELSE lesson.status,
       support |-> support,
       sources |-> lesson.sources \cup {r},
       recovery |-> lesson.recovery,
       recoveries |-> lesson.recoveries,
       references |-> references]

(* The lessons after the failure of r, if it is durable, is merged in.     *)
Supported(r) ==
  IF Failure[r] = NoSignature THEN lessons
  ELSE [lessons EXCEPT ![Failure[r]] = Upsert(@, r)]

RecordFailure(j) ==
  /\ pc[j] = "failures"
  /\ rest[j] # <<>>
  /\ Head(rest[j]) \notin Succeeded
  /\ lessons' = Supported(Head(rest[j]))
  /\ rest' = [rest EXCEPT ![j] = Tail(@)]
  /\ UNCHANGED <<skills, pc, learned, version, bounds>>

(* One more recovering run, counted once.                                  *)
Validate(lesson, r) ==
  [status |-> "validated",
   support |-> lesson.support,
   sources |-> lesson.sources,
   recovery |-> lesson.recovery + (IF r \in lesson.recoveries THEN 0 ELSE 1),
   recoveries |-> lesson.recoveries \cup {r},
   references |-> lesson.references \cup ({r} \cap Informed)]

(* The lessons that the successful run r proves: the open ones it selected *)
(* and that of its own earlier failure, unless it is promoted.             *)
Proven(r) ==
  {s \in Recovers[r] : \/ lessons[s].status \in Open
                       \/ s = Failure[r] /\ lessons[s].status # "promoted"}

RecordSuccess(j) ==
  LET r == Head(rest[j])
  IN  /\ pc[j] = "successes"
      /\ rest[j] # <<>>
      /\ r \in Succeeded
      /\ lessons' = [s \in Signatures |-> IF s \in Proven(r)
                                            THEN Validate(Supported(r)[s], r)
                                            ELSE Supported(r)[s]]
      /\ learned' = [learned EXCEPT ![j][r] = Proven(r)]
      /\ rest' = [rest EXCEPT ![j] = Tail(@)]
      /\ UNCHANGED <<skills, pc, version, bounds>>
-----------------------------------------------------------------------------
(* Skills                                                                  *)

Versions(name) == {k.version : k \in {q \in skills : Name[q.source] = name}}

(* Mutant: the first version is one too low. *)
NextVersionFromZero(name) ==
  IF Versions(name) = {} THEN 0
  ELSE 1 + CHOOSE v \in Versions(name) : \A u \in Versions(name) : u <= v

(* The tombstoned versions count too. *)
NextVersion(name) ==
  IF Versions(name) = {} THEN 1
  ELSE 1 + CHOOSE v \in Versions(name) : \A u \in Versions(name) : u <= v

RowsOf(r) == {k \in skills : k.source = r /\ k.status # "deleted"}

(* The run is dealt with, promoted, skipped or failed.                     *)
DoneWith(j) ==
  /\ pc' = [pc EXCEPT ![j] = "create"]
  /\ rest' = [rest EXCEPT ![j] = Tail(@)]

(* create_candidate up to the insert: the row of an earlier settling is    *)
(* taken as it is, else the policy decides and the next version is read.   *)
ReadForCreate(j) ==
  LET r == Head(rest[j])
  IN  /\ pc[j] = "create"
      /\ rest[j] # <<>>
      /\ r \in Succeeded
      /\ \/ /\ \E k \in RowsOf(r) : k.status = "promoted"
            /\ DoneWith(j)
            /\ UNCHANGED version
         \/ \E k \in RowsOf(r) :
              /\ k.status # "promoted"
              /\ pc' = [pc EXCEPT ![j] = "dedup"]
              /\ version' = [version EXCEPT ![j] = k.version]
              /\ UNCHANGED rest
         \/ /\ RowsOf(r) = {}
            /\ r \in Progress
            /\ r \in Worthy \/ learned[j][r] # {}
            /\ pc' = [pc EXCEPT ![j] = "insert"]
            /\ version' = [version EXCEPT ![j] = NextVersion(Name[r])]
            /\ UNCHANGED rest
         \/ /\ RowsOf(r) = {}
            /\ r \notin Progress \/ (r \notin Worthy /\ learned[j][r] = {})
            /\ DoneWith(j)
            /\ UNCHANGED version
      /\ UNCHANGED <<tables, learned, bounds>>

(* The row is added unless another job took the version: then the unique   *)
(* constraint fails the update of this run.                                *)
Insert(j) ==
  LET r == Head(rest[j])
  IN  /\ pc[j] = "insert"
      /\ IF version[j] \in Versions(Name[r])
           THEN DoneWith(j) /\ UNCHANGED skills
           ELSE /\ skills' = skills \cup {[source |-> r, version |-> version[j],
                                           status |-> "draft", by |-> "nobody"]}
                /\ pc' = [pc EXCEPT ![j] = "dedup"]
                /\ UNCHANGED rest
      /\ UNCHANGED <<lessons, learned, version, bounds>>

(* Mutant: only promoted skills are compared. *)
TwinsPromotedOnly(r, v) ==
  {k \in skills : Name[k.source] = Name[r] /\ k.version # v /\ k.status = "promoted"}

(* find_duplicates: drafts and promoted skills alike, itself excluded.     *)
Twins(r, v) ==
  {k \in skills : /\ Name[k.source] = Name[r]
                  /\ k.version # v
                  /\ k.status \in {"draft", "promoted"}}

Dedup(j) ==
  /\ pc[j] = "dedup"
  /\ IF Twins(Head(rest[j]), version[j]) = {} /\ AutoPromote
       THEN pc' = [pc EXCEPT ![j] = "promote"] /\ UNCHANGED rest
       ELSE DoneWith(j)
  /\ UNCHANGED <<tables, learned, version, bounds>>

(* The row that promote locks and reads again.                             *)
InHand(j, k) == Name[k.source] = Name[Head(rest[j])] /\ k.version = version[j]

(* Mutant: the status is not read again under the lock. *)
PromoteUnchecked(j) ==
  /\ pc[j] = "promote"
  /\ \E k \in skills :
       /\ InHand(j, k)
       /\ skills' = (skills \ {k}) \cup {[k EXCEPT !.status = "promoted", !.by = "job"]}
  /\ pc' = [pc EXCEPT ![j] = "mark"]
  /\ UNCHANGED <<lessons, memory, bounds>>

Promote(j) ==
  /\ pc[j] = "promote"
  /\ \E k \in skills :
       /\ InHand(j, k)
       /\ k.status \in {"draft", "promoted"}
       /\ skills' = (skills \ {k}) \cup {[k EXCEPT !.status = "promoted", !.by = "job"]}
  /\ pc' = [pc EXCEPT ![j] = "mark"]
  /\ UNCHANGED <<lessons, memory, bounds>>

(* A reviewer deprecated or deleted it meanwhile: promote raises.          *)
PromoteRefused(j) ==
  /\ pc[j] = "promote"
  /\ \E k \in skills : InHand(j, k) /\ k.status \in {"deprecated", "deleted"}
  /\ DoneWith(j)
  /\ UNCHANGED <<tables, learned, version, bounds>>

(* Mutant: nothing is marked. *)
MarkPromotedNone(j) ==
  /\ pc[j] = "mark"
  /\ DoneWith(j)
  /\ UNCHANGED <<tables, learned, version, bounds>>

MarkPromoted(j) ==
  /\ pc[j] = "mark"
  /\ lessons' = [s \in Signatures |-> IF s \in learned[j][Head(rest[j])]
                                        THEN [lessons[s] EXCEPT !.status = "promoted"]
                                        ELSE lessons[s]]
  /\ DoneWith(j)
  /\ UNCHANGED <<skills, learned, version, bounds>>

(* An exception inside _update_skill is recorded and the run skipped.      *)
UpdateFails(j) ==
  /\ faults < MaxFaults
  /\ pc[j] \in {"insert", "dedup", "promote", "mark"}
  /\ faults' = faults + 1
  /\ DoneWith(j)
  /\ UNCHANGED <<tables, learned, version, crashes, reviews>>
-----------------------------------------------------------------------------
(* The reviewer's dashboard: each request locks and reads the row again.   *)
Review(k, status) ==
  /\ reviews < MaxReviews
  /\ k \in skills
  /\ \/ status = "promoted" /\ k.status \in {"draft", "promoted"}
     \/ status \in {"deprecated", "deleted"} /\ k.status # "deleted"
  /\ reviews' = reviews + 1
  /\ skills' = (skills \ {k}) \cup
                 {[k EXCEPT !.status = status,
                            !.by = IF status = "promoted" THEN "reviewer" ELSE @]}
  /\ UNCHANGED <<lessons, pc, memory, crashes, faults>>

JobStep(j) ==
  \/ Start(j)
  \/ NextPass(j)
  \/ PassOver(j)
  \/ RecordFailure(j)
  \/ RecordSuccess(j)
  \/ ReadForCreate(j)
  \/ Insert(j)
  \/ Dedup(j)
  \/ Promote(j)
  \/ PromoteRefused(j)
  \/ MarkPromoted(j)

Next ==
  \/ \E j \in Jobs : JobStep(j) \/ Crash(j) \/ UpdateFails(j)
  \/ \E k \in skills, status \in {"promoted", "deprecated", "deleted"} : Review(k, status)

Spec == Init /\ [][Next]_vars
-----------------------------------------------------------------------------
LessonStatuses == {"none", "promoted"} \cup Open

(* references: the runs whose knowledge references the lesson has merged.  *)
Lesson == [status : LessonStatuses, support : Nat, sources : SUBSET Runs,
           recovery : Nat, recoveries : SUBSET Runs, references : SUBSET Runs]

Skill == [source : Runs, version : Nat \ {0},
          status : {"draft", "promoted", "deprecated", "deleted"},
          by : {"nobody", "job", "reviewer"}]

(* Type correctness of the two tables and of the jobs' memory.             *)
TypeOK ==
  /\ lessons \in [Signatures -> Lesson]
  /\ skills \subseteq Skill
  /\ pc \in [Jobs -> {"down", "failures", "successes", "create", "insert", "dedup",
                      "promote", "mark", "done"}]
  /\ rest \in [Jobs -> Seq(Runs)]
  /\ learned \in [Jobs -> [Runs -> SUBSET Signatures]]
  /\ version \in [Jobs -> Nat]
  /\ \A j \in Jobs : pc[j] \in {"insert", "dedup", "promote", "mark"} => rest[j] # <<>>
  /\ crashes \in 0 .. MaxCrashes
  /\ faults \in 0 .. MaxFaults
  /\ reviews \in 0 .. MaxReviews

(* Support and recovery are counts of distinct runs: however often a job   *)
(* is lost and settles its runs again, none is counted twice.              *)
EvidenceCountedOnce ==
  \A s \in Signatures : /\ lessons[s].support = Cardinality(lessons[s].sources)
                        /\ lessons[s].recovery = Cardinality(lessons[s].recoveries)

(* A lesson is validated only with a run that recovered from its failure,  *)
(* and promoted only with a skill that a job promoted from such a run.     *)
LessonsAreEarned ==
  \A s \in Signatures :
    /\ lessons[s].status \in {"validated", "promoted"} => lessons[s].recoveries # {}
    /\ lessons[s].status = "promoted" =>
         \E k \in skills : k.source \in lessons[s].recoveries /\ k.by # "nobody"

(* Settling a run again never makes a second candidate of it.              *)
OneCandidatePerRun ==
  \A k, q \in skills :
    k.source = q.source /\ k.status # "deleted" /\ q.status # "deleted" => k = q

(* Jobs never promote two similar skills by themselves, although check and *)
(* promotion are separate transactions: each adds its draft before it      *)
(* looks for others.                                                       *)
NoTwinsPromoted ==
  \A k, q \in skills :
    /\ k.status = "promoted" /\ k.by = "job"
    /\ q.status = "promoted" /\ q.by = "job"
    /\ Name[k.source] = Name[q.source]
    => k = q

(* The reviewer has the last word: a deprecated or deleted skill is never  *)
(* promoted by a job that checked it before.                               *)
ReviewStep ==
  \A k \in skills : k.status \in {"deprecated", "deleted"} =>
    \E q \in skills' : /\ q.source = k.source /\ q.version = k.version
                       /\ q.status \in {k.status, "deprecated", "deleted"}

(* What a lesson has earned it keeps: further failures and late recoveries *)
(* take no lesson back from promoted, nor from validated to a hypothesis.  *)
LessonStep ==
  \A s \in Signatures :
    /\ lessons[s].status = "promoted" => lessons'[s].status = "promoted"
    /\ lessons[s].status = "validated" =>
         lessons'[s].status \in {"validated", "promoted"}

Done == \A j \in Jobs : pc[j] = "done"

(* What was earned and what was reviewed stands.                           *)
VerdictsStand == [][ReviewStep /\ LessonStep]_vars

(* What counts for a lesson is distinct runs, and its status is earned by  *)
(* them.                                                                   *)
EvidenceIsEarned == EvidenceCountedOnce /\ LessonsAreEarned

(* However jobs are lost, resumed and interleaved, a run has one candidate *)
(* and a name at most one skill that jobs promoted.                        *)
CandidatesAreSound == OneCandidatePerRun /\ NoTwinsPromoted

SameBatch(r, q) == \E j \in Jobs : {r, q} \subseteq {Batch[j][i] : i \in DOMAIN Batch[j]}

(* Jobs that were neither lost nor disturbed leave nothing undone: a run   *)
(* that recovered from a known failure has its candidate, whatever the     *)
(* creation policy says, unless another job made a skill of that name; and *)
(* a lesson that a promoted skill stands for is marked promoted.           *)
SettlingIsComplete ==
  Done /\ crashes = 0 /\ faults = 0 =>
    \A s \in Signatures : \A r \in lessons[s].recoveries :
      /\ r \in Progress => \E k \in skills :
           k.source = r \/ (Name[k.source] = Name[r] /\ ~SameBatch(k.source, r))
      /\ (\E k \in skills : k.source = r /\ k.by = "job") => lessons[s].status = "promoted"
=============================================================================
