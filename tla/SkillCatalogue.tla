---------------------------- MODULE SkillCatalogue ----------------------------
(***************************************************************************)
(* The skills table over many runs: the shipped skills that every training *)
(* run seeds again, the drafts that runs add and promote, the operator who *)
(* edits, promotes, deprecates or deletes rows on the dashboard, and the   *)
(* bundles that carry skills from one library to another.                  *)
(*                                                                         *)
(* A row is its place in the table. "by" is who wrote the content and      *)
(* "seed" the shipped skill it descends from; both travel with the content *)
(* and are known to no program. A version is its last number.              *)
(***************************************************************************)
EXTENDS Integers, SequencesExt, FiniteSetsExt, Subsequences

CONSTANTS
  Shipped,     \* names of the shipped skills, version 1
  Learned,     \* names that runs derive for their skills
  Given,       \* names that the operator gives to skills
  Policies,    \* --on-conflict
  MaxRows,     \* bound: rows of the table
  MaxWrites,   \* bound: writes other than the first seeding
  MaxImports   \* bound: imports

VARIABLES
  rows,
  tab,      \* the skill open on the dashboard, with its updated_at
  bundle,   \* the exported file
  clock,    \* writes, the last one is the updated_at of what it wrote
  imports,
  did       \* the last step

vars == <<rows, tab, bundle, clock, imports, did>>

None == ""
Closed == [row |-> 0, stamp |-> 0, seen |-> {}]
NoFile == <<>>

Init ==
  /\ rows = <<>> /\ tab = Closed /\ bundle = NoFile
  /\ clock = 0 /\ imports = 0 /\ did = "start"

Stamp == clock + 1
Write(what) == clock < MaxWrites /\ clock' = Stamp /\ did' = what

Live(r) == r.status # "deleted"

(* ------------------------------------------------------------------------*)
(* Seeding.                                                                *)
(* ------------------------------------------------------------------------*)
ShippedRow(n) ==
  [name |-> n, version |-> 1, status |-> "promoted", spec |-> "promoted", text |-> 0,
   override |-> FALSE, origin |-> n, shipped |-> TRUE, learned |-> FALSE,
   by |-> "ship", seed |-> n, stamp |-> Stamp]

OfName(n) == {i \in DOMAIN rows : rows[i].name = n /\ rows[i].version = 1}
OfOrigin(n) == {i \in DOMAIN rows : rows[i].origin = n}

(* Mutant: a shipped skill is found by its name alone.                     *)
RowOfName(n) == IF OfName(n) # {} THEN Min(OfName(n)) ELSE 0

RowOf(n) ==
  CASE OfName(n) # {} -> Min(OfName(n))
    [] OfName(n) = {} /\ OfOrigin(n) # {} -> Min(OfOrigin(n))
    [] OTHER -> 0

Kept(r) == ~Live(r) \/ r.override

Missing == SetToSeq({n \in Shipped : RowOf(n) = 0})
Stale == {n \in Shipped : /\ RowOf(n) # 0 /\ ~Kept(rows[RowOf(n)])
                          /\ \/ rows[RowOf(n)].text # 0
                             \/ rows[RowOf(n)].status # "promoted"
                             \/ rows[RowOf(n)].origin = None}

(* A row that is found by its origin keeps its name, only its content and  *)
(* status are written.                                                     *)
Seed ==
  /\ did # "seed" /\ Write("seed")
  /\ rows' = [i \in DOMAIN rows |->
                IF \E n \in Stale : RowOf(n) = i
                THEN LET n == CHOOSE n \in Stale : RowOf(n) = i
                     IN [ShippedRow(n) EXCEPT !.name = rows[i].name]
                ELSE rows[i]] \o [k \in DOMAIN Missing |-> ShippedRow(Missing[k])]
  /\ UNCHANGED <<tab, bundle, imports>>

(* ------------------------------------------------------------------------*)
(* Runs.                                                                   *)
(* ------------------------------------------------------------------------*)
Versions(n) == {rows[i].version : i \in {j \in DOMAIN rows : rows[j].name = n}}

NextVersion(n) == 1 + Max({0} \cup Versions(n))

Draft(n) ==
  [name |-> n, version |-> NextVersion(n), status |-> "draft", spec |-> "draft", text |-> Stamp,
   override |-> FALSE, origin |-> None, shipped |-> FALSE, learned |-> TRUE,
   by |-> "run", seed |-> None, stamp |-> Stamp]

(* A run has seeded the table before.                                      *)
Learn ==
  /\ rows # <<>> /\ Len(rows) < MaxRows /\ Write("learn")
  /\ \E n \in Learned : rows' = Append(rows, Draft(n))
  /\ UNCHANGED <<tab, bundle, imports>>

(* SkillLibrary.promote writes the bare specification.                     *)
PromoteDraft ==
  /\ Write("promote")
  /\ \E i \in DOMAIN rows :
       /\ rows[i].learned /\ Live(rows[i]) /\ rows[i].status # "deprecated"
       /\ rows[i].status = "draft"
       /\ rows' = [rows EXCEPT ![i].status = "promoted", ![i].spec = "promoted",
                               ![i].override = FALSE, ![i].origin = None,
                               ![i].stamp = Stamp]
  /\ UNCHANGED <<tab, bundle, imports>>

(* ------------------------------------------------------------------------*)
(* The operator.                                                           *)
(* ------------------------------------------------------------------------*)
Open ==
  /\ tab = Closed
  /\ \E i \in DOMAIN rows :
       Live(rows[i]) /\ tab' = [row |-> i, stamp |-> rows[i].stamp, seen |-> {rows[i]}]
  /\ did' = "open" /\ UNCHANGED <<rows, bundle, clock, imports>>

IsCurrent == Live(rows[tab.row]) /\ rows[tab.row].stamp = tab.stamp

Refused ==
  /\ tab # Closed /\ ~IsCurrent
  /\ tab' = Closed /\ did' = "refused" /\ UNCHANGED <<rows, bundle, clock, imports>>

(* The identity of the shipped skill that an edited row keeps.             *)
OriginOf(r) ==
  CASE r.origin # None -> r.origin
    [] r.origin = None /\ r.shipped -> r.name
    [] OTHER -> None

Edited(r) ==
  [r EXCEPT !.override = TRUE, !.origin = OriginOf(r), !.by = "operator", !.stamp = Stamp]

Submit(what) ==
  /\ tab # Closed /\ IsCurrent /\ Write(what)
  /\ tab' = Closed /\ UNCHANGED <<bundle, imports>>
Put(r) == rows' = [rows EXCEPT ![tab.row] = r]

(* A name is given to the skill that no row of its version has.            *)
Save ==
  /\ Submit("save")
  /\ LET r == rows[tab.row]
     IN \E n \in Given :
          /\ \A i \in DOMAIN rows \ {tab.row} : rows[i].name # n \/ rows[i].version # r.version
          /\ Put([Edited(r) EXCEPT !.name = n, !.text = Stamp])

Delete == Submit("delete") /\ Put([Edited(rows[tab.row]) EXCEPT !.status = "deleted"])

Promote ==
  /\ Submit("decide") /\ rows[tab.row].status # "deprecated"
  /\ Put([Edited(rows[tab.row]) EXCEPT !.status = "promoted", !.spec = "promoted"])

Deprecate ==
  /\ Submit("decide")
  /\ Put([Edited(rows[tab.row]) EXCEPT !.status = "deprecated", !.spec = "deprecated"])

(* ------------------------------------------------------------------------*)
(* Bundles.                                                                *)
(* ------------------------------------------------------------------------*)
Portable(r) ==
  [name |-> r.name, version |-> r.version, spec |-> r.spec, text |-> r.text,
   shipped |-> r.shipped, learned |-> r.learned, by |-> r.by, seed |-> r.seed]

Export ==
  /\ bundle = NoFile
  /\ \E statuses \in {{"promoted"}, {"promoted", "draft", "deprecated"}}, learnedOnly \in BOOLEAN :
       LET chosen == {i \in DOMAIN rows : rows[i].status \in statuses}
           carried == Picked(rows, {i \in chosen : learnedOnly => rows[i].learned})
       IN /\ \A i \in chosen : rows[i].status = rows[i].spec
          /\ bundle' = [k \in DOMAIN carried |-> Portable(carried[k])]
  /\ did' = "export" /\ UNCHANGED <<rows, tab, clock, imports>>

Existing(p) == {i \in DOMAIN rows : rows[i].name = p.name /\ rows[i].version = p.version}

(* What an entry becomes: extension fields and override are not carried.   *)
Attached(p) ==
  [name |-> p.name, version |-> p.version, status |-> p.spec, spec |-> p.spec, text |-> p.text,
   override |-> FALSE, origin |-> None, shipped |-> p.shipped, learned |-> p.learned,
   by |-> p.by, seed |-> p.seed, stamp |-> Stamp]

Import ==
  /\ bundle # NoFile /\ imports < MaxImports /\ imports' = imports + 1 /\ Write("import")
  /\ \E policy \in Policies :
       LET new == Picked(bundle, {k \in DOMAIN bundle : Existing(bundle[k]) = {}})
           Replaces(i) == {k \in DOMAIN bundle : i \in Existing(bundle[k])}
       IN /\ policy = "error" => Len(new) = Len(bundle)
          /\ rows' = [i \in DOMAIN rows |->
                        IF policy = "replace" /\ Replaces(i) # {}
                        THEN Attached(bundle[Min(Replaces(i))]) ELSE rows[i]]
                     \o [k \in DOMAIN new |-> Attached(new[k])]
  /\ bundle' = NoFile /\ UNCHANGED tab

Next ==
  \/ Seed \/ Learn \/ PromoteDraft
  \/ Open \/ Refused \/ Save \/ Delete \/ Promote \/ Deprecate
  \/ Export \/ Import

Spec == Init /\ [][Next]_vars

(* ------------------------------------------------------------------------*)
(* Properties.                                                             *)
(* ------------------------------------------------------------------------*)
Statuses == {"draft", "promoted", "deprecated"}

TypeOK ==
  /\ \A i \in DOMAIN rows :
       /\ rows[i].status \in Statuses \cup {"deleted"} /\ rows[i].spec \in Statuses
       /\ rows[i].origin \in Shipped \cup Learned \cup Given \cup {None} /\ rows[i].stamp \in 1 .. clock
       /\ rows[i].override => rows[i].by = "operator"
  /\ tab.row \in 0 .. Len(rows) /\ tab.stamp \in 0 .. clock
  /\ clock \in 0 .. MaxWrites /\ imports \in 0 .. MaxImports

(* The test test_bootstrap_dashboard_overrides_and_tombstones_survive_     *)
(* reseeding: seeding never reverses what an operator wrote or deleted.    *)
Content(row) == <<row.name, row.status, row.text>>
SeedingReversesNothing ==
  \A i \in DOMAIN rows :
    rows[i].by = "operator" \/ ~Live(rows[i]) => Content(rows'[i]) = Content(rows[i])
SeedingNeverReversesEdits == [][did' = "seed" => SeedingReversesNothing]_vars

(* Nor does seeding bring a shipped skill back beside the row that became  *)
(* of it.                                                                  *)
SeedingKeeps ==
  /\ SeedingReversesNothing
  /\ \A i \in DOMAIN rows, k \in DOMAIN rows' \ DOMAIN rows : rows[i].seed # rows'[k].seed

(* Both hold for a library that never imported a bundle.                   *)
SeedingKeepsEditsStep == did' = "seed" /\ imports = 0 => SeedingKeeps

(* What the operator saves, deletes or decides replaces the row as it was  *)
(* shown (_require_current_skill_version).                                 *)
EditsBuildOnWhatWasSeenStep ==
  did' \in {"save", "delete", "decide"} => tab.seen = {rows[tab.row]}

(* No name and version is given to two rows, so the unique key of the      *)
(* table is never met, and the status of a row that can be exported is that*)
(* of its specification, so that an export never refuses the library.      *)
CatalogueIsSound ==
  /\ \A i, j \in DOMAIN rows :
       i # j => rows[i].name # rows[j].name \/ rows[i].version # rows[j].version
  /\ \A i \in DOMAIN rows : Live(rows[i]) => rows[i].status = rows[i].spec

(* The three together: of each step, and of the catalogue after it.        *)
CatalogueIsKeptStep ==
  SeedingKeepsEditsStep /\ EditsBuildOnWhatWasSeenStep /\ CatalogueIsSound'
CatalogueIsKept == [][CatalogueIsKeptStep]_vars
=============================================================================
