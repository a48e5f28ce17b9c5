---------------------------- MODULE HistoryImport ----------------------------
(***************************************************************************)
(* The import of audit databases that earlier runs left behind: the best   *)
(* copy of every run is selected, its rows are read again in a second pass *)
(* and its rounds derived from them, and one transaction adds the runs     *)
(* that the shared database does not have.                                 *)
(*                                                                         *)
(* Rows are of one size: the bytes of a copy rank as its number of rows.   *)
(* Databases are numbered in the order of their paths.                     *)
(***************************************************************************)
EXTENDS Integers, Sequences, FiniteSets, FiniteSetsExt

CONSTANTS
  Databases,    \* audit databases, numbered
  Runs,         \* run ids
  Contents,     \* what a database may hold at first
  Rows,         \* rows of evidence: kind, step index (-1 for none) and status
  MaxRows,      \* bound: rows of a run in one database
  MaxChanges,   \* bound: rows written, runs finished, copies, damage
  MaxImports    \* bound: imports

VARIABLES
  source,     \* the databases: readable, runs, auxiliary records
  target,     \* the shared database
  pc,         \* "idle", "reading"
  options,    \* dry_run, normalize_running
  selected,   \* run -> selected database and run row
  pending,    \* the rows of the transaction
  toRead,     \* databases whose rows are still to be read
  seen,       \* ghost: the databases when they were selected
  done,       \* ghost: the last import was committed
  changes, imports

vars == <<source, target, pc, options, selected, pending, toRead, seen, done, changes, imports>>

Terminal == {"succeeded", "failed"}
Never == [r \in {} |-> 0]
EmptyTarget == [runs |-> Never, auxiliary |-> {}]

Init ==
  /\ source \in [Databases -> Contents] /\ target = EmptyTarget /\ pc = "idle"
  /\ options = [dry |-> FALSE, normalize |-> TRUE] /\ selected = Never /\ pending = EmptyTarget
  /\ toRead = {} /\ seen = source /\ done = FALSE /\ changes = 0 /\ imports = 0

(* ------------------------------------------------------------------------*)
(* Databases that runs write to, that are copied and damaged.              *)
(* ------------------------------------------------------------------------*)
Changes(d, content) ==
  /\ changes < MaxChanges /\ changes' = changes + 1 /\ source' = [source EXCEPT ![d] = content]
  /\ UNCHANGED <<target, pc, options, selected, pending, toRead, seen, done, imports>>
WithRun(d, r, run) ==
  [source[d] EXCEPT !.runs = [q \in DOMAIN @ \cup {r} |-> IF q = r THEN run ELSE @[q]]]

RunWrites ==
  \E d \in Databases, r \in Runs :
    IF r \notin DOMAIN source[d].runs
    THEN Changes(d, WithRun(d, r, [status |-> "running", rows |-> <<>>, updated |-> changes]))
    ELSE LET run == source[d].runs[r]
         IN /\ run.status = "running"
            /\ \/ /\ Len(run.rows) < MaxRows
                  /\ \E row \in Rows :
                       Changes(d, WithRun(d, r, [run EXCEPT !.rows = Append(@, row),
                                                            !.updated = changes]))
               \/ \E s \in Terminal :
                    Changes(d, WithRun(d, r, [run EXCEPT !.status = s, !.updated = changes]))
               \/ Changes(d, [source[d] EXCEPT !.auxiliary = @ \cup {[key |-> d, refs |-> {r}]}])

(* Somebody copies a database while no import runs; a copy may be damaged. *)
Copied ==
  /\ pc = "idle"
  /\ \E from, to \in Databases : /\ from # to /\ source[from].runs # Never
                                 /\ source[to].runs = Never /\ Changes(to, source[from])
Damaged == \E d \in Databases : /\ source[d].readable /\ source[d].runs # Never
                                /\ Changes(d, [source[d] EXCEPT !.readable = FALSE])

(* ------------------------------------------------------------------------*)
(* Selection.                                                              *)
(* ------------------------------------------------------------------------*)
Kinds(run) == {run.rows[i].kind : i \in DOMAIN run.rows}
(* More tables, more rows, an end, the latest change.                      *)
Better(a, b) ==
  LET score(run) == <<Cardinality(Kinds(run)), Len(run.rows),
                      IF run.status \in Terminal THEN 1 ELSE 0, run.updated>>
      x == score(a)   y == score(b)
  IN \E i \in 1 .. 4 : x[i] > y[i] /\ \A j \in 1 .. i - 1 : x[j] = y[j]

Holding(r) == {d \in Databases : source[d].readable /\ r \in DOMAIN source[d].runs}
Best(r) ==
  Min({d \in Holding(r) : ~\E o \in Holding(r) : Better(source[o].runs[r], source[d].runs[r])})

(* Runs that the target has are left as they are.                          *)
Candidates == {r \in Runs : Holding(r) # {} /\ r \notin DOMAIN target.runs}

Select ==
  /\ pc = "idle" /\ imports < MaxImports /\ imports' = imports + 1 /\ pc' = "reading"
  /\ options' \in [dry : BOOLEAN, normalize : BOOLEAN]
  /\ selected' = [r \in Candidates |-> [database |-> Best(r), row |-> source[Best(r)].runs[r]]]
  /\ toRead' = {selected'[r].database : r \in Candidates}
  /\ pending' = EmptyTarget /\ seen' = source /\ done' = FALSE
  /\ UNCHANGED <<source, target, changes>>

(* ------------------------------------------------------------------------*)
(* Rows and rounds.                                                        *)
(* ------------------------------------------------------------------------*)
Rank(status) ==
  CASE status = "error" -> 3 [] status = "ok" -> 2
    [] status \in {"incomplete", "interrupted"} -> 1 [] OTHER -> 0

(* What a row says of its round, nothing in the end for most events.       *)
StatusOf(row) ==
  CASE row.kind = "errors" -> "error"
    [] row.kind \in {"calls"} -> "none"
    [] OTHER -> row.status
(* Mutant: the last row decides.                                           *)
TouchAnyway(status, row) == IF StatusOf(row) # "none" THEN StatusOf(row) ELSE status

Touch(status, row) ==
  IF StatusOf(row) # "none" /\ Rank(StatusOf(row)) >= Rank(status) THEN StatusOf(row) ELSE status

(* One table after the other: every row that is of the round touches it.   *)
Touched(status, kind, k, rows) ==
  LET told[i \in 0 .. Len(rows)] ==
        IF i = 0 THEN status
        ELSE IF rows[i].kind = kind /\ rows[i].step = k THEN Touch(told[i - 1], rows[i])
        ELSE told[i - 1]
  IN told[Len(rows)]
Aggregate(k, rows) ==
  LET spans == Touched("active", "spans", k, rows)
      steps == Touched(spans, "steps", k, rows)
      events == Touched(steps, "events", k, rows)
      calls == Touched(events, "calls", k, rows)
  IN Touched(calls, "errors", k, rows)

Rounds(rows, runStatus) ==
  [k \in {rows[i].step : i \in DOMAIN rows} \ {-1} |->
     IF Aggregate(k, rows) = "active" /\ runStatus # "running" THEN "incomplete"
     ELSE Aggregate(k, rows)]

RunRecord(row) ==
  IF options.normalize /\ row.status = "running" THEN "interrupted" ELSE row.status

(* The rows are those the database holds by now.                           *)
Children(d, r) ==
  LET rows == source[d].runs[r].rows
      status == RunRecord(selected[r].row)
  IN [status |-> status, database |-> d, rows |-> rows, rounds |-> Rounds(rows, status)]

(* Skills and lessons come with a run that they refer to.                  *)
Auxiliary(d, runs) ==
  {a \in source[d].auxiliary : (a.refs = {} \/ a.refs \cap runs # {})
                               /\ \A b \in pending.auxiliary \cup target.auxiliary : b.key # a.key}

ReadDatabase ==
  /\ pc = "reading" /\ toRead # {}
  /\ LET d == Min(toRead)
         runs == {r \in DOMAIN selected : selected[r].database = d}
     IN /\ source[d].readable
        /\ pending' = [runs |-> [r \in DOMAIN pending.runs \cup runs |->
                                   IF r \in runs THEN Children(d, r) ELSE pending.runs[r]],
                       auxiliary |-> pending.auxiliary \cup Auxiliary(d, runs)]
        /\ toRead' = toRead \ {d}
  /\ UNCHANGED <<source, target, pc, options, selected, seen, done, changes, imports>>

(* A database that can no longer be read ends the import, nothing is kept. *)
ImportFails ==
  /\ pc = "reading" /\ toRead # {} /\ ~source[Min(toRead)].readable
  /\ pc' = "idle" /\ pending' = EmptyTarget /\ selected' = Never /\ toRead' = {}
  /\ UNCHANGED <<source, target, options, seen, done, changes, imports>>

Commit ==
  /\ pc = "reading" /\ toRead = {} /\ pc' = "idle" /\ done' = ~options.dry
  /\ target' = IF options.dry THEN target
               ELSE [runs |-> [r \in DOMAIN target.runs \cup DOMAIN pending.runs |->
                                 IF r \in DOMAIN target.runs THEN target.runs[r]
                                 ELSE pending.runs[r]],
                     auxiliary |-> target.auxiliary \cup pending.auxiliary]
  /\ UNCHANGED <<source, options, selected, pending, toRead, seen, changes, imports>>

Next == RunWrites \/ Copied \/ Damaged \/ Select \/ ReadDatabase \/ ImportFails \/ Commit
Spec == Init /\ [][Next]_vars

(* ------------------------------------------------------------------------*)
(* Properties.                                                             *)
(* ------------------------------------------------------------------------*)
TypeOK ==
  /\ DOMAIN source = Databases /\ pc \in {"idle", "reading"} /\ DOMAIN selected \subseteq Runs
  /\ DOMAIN target.runs \subseteq Runs /\ toRead \subseteq Databases
  /\ changes \in 0 .. MaxChanges /\ imports \in 0 .. MaxImports

(* A round of an imported run shows the worst that any of its rows says,   *)
(* in whatever table and order the rows were.                              *)
RoundsTellTheWorst ==
  \A r \in DOMAIN target.runs :
    LET run == target.runs[r]
        said(k) == {StatusOf(run.rows[i]) : i \in {j \in DOMAIN run.rows : run.rows[j].step = k}}
    IN \A k \in DOMAIN run.rounds :
         /\ ("error" \in said(k)) = (run.rounds[k] = "error")
         /\ ("ok" \in said(k) /\ "error" \notin said(k)) = (run.rounds[k] = "ok")
         /\ run.rounds[k] = "active" => run.status = "running"

(* After an import every run that a readable database held is in the       *)
(* target; one that was new and at its end has the status and all rows of  *)
(* a copy than which there was no richer one; and what a skill refers to   *)
(* has come with it.                                                       *)
FinishedRunsArriveWhole ==
  done =>
    /\ \A d \in Databases : seen[d].readable => DOMAIN seen[d].runs \subseteq DOMAIN target.runs
    /\ \A r \in DOMAIN selected : selected[r].row.status \in Terminal =>
         /\ target.runs[r].status = selected[r].row.status
         /\ target.runs[r].rows = seen[target.runs[r].database].runs[r].rows
         /\ \A d \in Databases : seen[d].readable /\ r \in DOMAIN seen[d].runs
              => Cardinality(Kinds(seen[d].runs[r])) <= Cardinality(Kinds(target.runs[r]))
    /\ \A a \in target.auxiliary : a.refs # {} => a.refs \cap DOMAIN target.runs # {}

(* Both: what import_historical_audits leaves in the target database is    *)
(* what its sources said.                                                  *)
ImportIsFaithful == RoundsTellTheWorst /\ FinishedRunsArriveWhole
=============================================================================
