------------------------- MODULE PromptConfiguration -------------------------
(***************************************************************************)
(* Prompt overrides and knowledge chunks: editors that load a row with its *)
(* version and save or reset it later, the seeding of static knowledge,    *)
(* and a run that reads the effective prompt in every turn or pins it.     *)
(*                                                                         *)
(* Saving an existing row is one step, the row is locked; a new row is     *)
(* inserted in a step of its own, and the unique key decides.              *)
(***************************************************************************)
EXTENDS Integers, FiniteSets, Sequences

CONSTANTS
  Editors,      \* browser tabs
  Prompts,      \* the system prompt and the actions with a prompt override
  Chunks,       \* knowledge chunks
  HardHidden,   \* actions that are never shown to the model
  MaxEdits,     \* bound: accepted changes and seedings
  MaxTurns,     \* bound: turns of the run
  MaxLosses     \* bound: losses of the process that executes the run

Overrides == Prompts \cup {"hot_reload"}
Entries == Overrides \cup Chunks

VARIABLES
  rows,      \* version, text and flag of every entry, version 0 for no row
  epoch,     \* per entry: resets and seedings, which no version tells
  editor,    \* what every editor has loaded and what it is doing
  edits,
  saved,     \* the last save that was accepted
  pinned,    \* _pinned_prompt_snapshot of the context manager of the run
  turns,     \* the turns of the run, those of lost processes included
  losses

vars == <<rows, epoch, editor, edits, saved, pinned, turns, losses>>

(* The flag is enabled for the system prompt and the hot reload policy,    *)
(* prompt_visible for an action, enabled for a chunk.                      *)
DefaultRow(e) == [version |-> 0, text |-> 0, on |-> e \notin Chunks \cup HardHidden]
NoSnapshot == [e \in {} |-> 0]
Closed == [pc |-> "closed", entry |-> "system", row |-> DefaultRow("system"), epoch |-> 0]
NoSave == [seen |-> 0, found |-> 0, seenEpoch |-> 0, epoch |-> 0, by |-> 0]

Init ==
  /\ rows = [e \in Entries |-> DefaultRow(e)] /\ epoch = [e \in Entries |-> 0]
  /\ editor = [x \in Editors |-> Closed] /\ edits = 0 /\ saved = NoSave
  /\ pinned = NoSnapshot /\ turns = <<>> /\ losses = 0

(* ------------------------------------------------------------------------*)
(* Editors.                                                                *)
(* ------------------------------------------------------------------------*)
Load(x) ==
  /\ editor[x].pc = "closed"
  /\ \E e \in Entries :
       editor' = [editor EXCEPT ![x] =
                    [pc |-> "open", entry |-> e, row |-> rows[e], epoch |-> epoch[e]]]
  /\ UNCHANGED <<rows, epoch, edits, saved, pinned, turns, losses>>

Current(x) == rows[editor[x].entry].version = editor[x].row.version
Done(x) == editor' = [editor EXCEPT ![x] = Closed]

Conflict(x) ==
  /\ editor[x].pc = "open" /\ ~Current(x) /\ Done(x)
  /\ UNCHANGED <<rows, epoch, edits, saved, pinned, turns, losses>>

(* The row an accepted save leaves: the version counts from one.           *)
Written(x, on) ==
  [version |-> rows[editor[x].entry].version + 1, text |-> edits + 1, on |-> on]

Write(x, on) ==
  LET e == editor[x].entry
  IN /\ edits < MaxEdits /\ edits' = edits + 1
     /\ rows' = [rows EXCEPT ![e] = Written(x, on)]
     /\ saved' = [seen |-> editor[x].row.text, found |-> rows[e].text, by |-> edits + 1,
                  seenEpoch |-> editor[x].epoch, epoch |-> epoch[e]]
     /\ Done(x) /\ UNCHANGED <<epoch, pinned, turns, losses>>

(* PUT of an override that has a row, PATCH and archive of a chunk.        *)
Update(x) ==
  /\ editor[x].pc = "open" /\ Current(x) /\ rows[editor[x].entry].version > 0
  /\ \E on \in BOOLEAN : Write(x, on)

(* PUT of an override without a row, POST of a chunk: the row is looked    *)
(* for, then inserted.                                                     *)
Find(x) ==
  /\ editor[x].pc = "open" /\ Current(x) /\ rows[editor[x].entry].version = 0
  /\ editor' = [editor EXCEPT ![x].pc = "inserting"]
  /\ UNCHANGED <<rows, epoch, edits, saved, pinned, turns, losses>>
(* Mutant: the row somebody else has inserted meanwhile is overwritten.    *)
InsertRowAnyway(x) == editor[x].pc = "inserting"

InsertRow(x) == editor[x].pc = "inserting" /\ rows[editor[x].entry].version = 0
Insert(x) == InsertRow(x) /\ \E on \in BOOLEAN : Write(x, on)
InsertFails(x) ==
  /\ editor[x].pc = "inserting" /\ rows[editor[x].entry].version > 0 /\ Done(x)
  /\ UNCHANGED <<rows, epoch, edits, saved, pinned, turns, losses>>

(* DELETE of an override: back to the code default and to version 0.       *)
Reset(x) ==
  LET e == editor[x].entry
  IN /\ editor[x].pc = "open" /\ Current(x) /\ e \in Overrides
     /\ rows' = [rows EXCEPT ![e] = DefaultRow(e)]
     /\ epoch' = [epoch EXCEPT ![e] = IF rows[e].version > 0 THEN @ + 1 ELSE @]
     /\ edits < MaxEdits /\ edits' = edits + 1
     /\ Done(x) /\ UNCHANGED <<saved, pinned, turns, losses>>

(* upsert_chunks leaves the version and the flag of a chunk that exists.   *)
Seed(c) ==
  /\ edits < MaxEdits /\ edits' = edits + 1
  /\ rows' = [rows EXCEPT ![c] = IF @.version = 0
                                 THEN [version |-> 1, text |-> edits + 1, on |-> TRUE]
                                 ELSE [@ EXCEPT !.text = edits + 1]]
  /\ epoch' = [epoch EXCEPT ![c] = @ + 1]
  /\ UNCHANGED <<editor, saved, pinned, turns, losses>>

(* ------------------------------------------------------------------------*)
(* The run.                                                                *)
(* ------------------------------------------------------------------------*)
Snapshot == [e \in Overrides |-> rows[e]]
HotReload(s) == s["hot_reload"].on
SystemText(s) == IF s["system"].on THEN s["system"].text ELSE 0
Guides(s) == {a \in Prompts \ {"system"} : s[a].on /\ a \notin HardHidden}

(* snapshot.revision names versions and flags, never the text.             *)
RevisionOf(s) == [e \in Overrides |-> [version |-> s[e].version, on |-> s[e].on]]

TurnOf(mode, s) ==
  [mode |-> mode, process |-> losses, text |-> SystemText(s), guides |-> Guides(s),
   revision |-> RevisionOf(s), content |-> s]

Shows(turn) == turns' = Append(turns, turn)
(* What the context manager keeps of the snapshot it has just read.        *)
Pin(s) == IF HotReload(s) THEN NoSnapshot ELSE s

Turn ==
  /\ Len(turns) < MaxTurns
  /\ IF pinned # NoSnapshot
     THEN Shows(TurnOf("run_pinned", pinned)) /\ UNCHANGED pinned
     ELSE /\ Shows(TurnOf(IF HotReload(Snapshot) THEN "live" ELSE "run_pinned", Snapshot))
          /\ pinned' = Pin(Snapshot)
  /\ UNCHANGED <<rows, epoch, editor, edits, saved, losses>>

(* The tables cannot be read: the code defaults for this turn.             *)
Fallback ==
  /\ Len(turns) < MaxTurns /\ pinned = NoSnapshot
  /\ Shows(TurnOf("fallback", [e \in Overrides |-> DefaultRow(e)]))
  /\ UNCHANGED <<rows, epoch, editor, edits, saved, pinned, losses>>

(* The process is lost and the run is resumed with a new context manager.  *)
LoseAndResume ==
  /\ losses < MaxLosses /\ losses' = losses + 1 /\ pinned' = NoSnapshot
  /\ UNCHANGED <<rows, epoch, editor, edits, saved, turns>>

Next ==
  \/ \E x \in Editors : \/ Load(x) \/ Conflict(x) \/ Update(x) \/ Find(x)
                        \/ Insert(x) \/ InsertFails(x) \/ Reset(x)
  \/ \E c \in Chunks : Seed(c)
  \/ Turn \/ Fallback \/ LoseAndResume
Spec == Init /\ [][Next]_vars

(* ------------------------------------------------------------------------*)
(* Properties.                                                             *)
(* ------------------------------------------------------------------------*)
TypeOK ==
  /\ \A e \in Entries : rows[e].version \in 0 .. MaxEdits /\ rows[e].text \in 0 .. MaxEdits
  /\ edits \in 0 .. MaxEdits /\ losses \in 0 .. MaxLosses /\ Len(turns) <= MaxTurns
  /\ DOMAIN pinned \in {{}, Overrides}

(* An accepted save replaces the text its editor has seen, whoever saved,  *)
(* inserted or reset the row in between; only where the row went back to   *)
(* the default or was seeded does the version not tell.                    *)
SavesBuildOnWhatWasSeen == saved.seenEpoch = saved.epoch => saved.seen = saved.found

(* A process that has pinned a snapshot shows it in all its later turns,   *)
(* also when hot reload is enabled again and when the tables cannot be     *)
(* read; a turn is pinned by its own snapshot or by an earlier one.        *)
PinnedRunIsFixed ==
  \A i, j \in DOMAIN turns :
    i < j /\ turns[i].mode = "run_pinned" /\ turns[i].process = turns[j].process =>
      turns[j] = turns[i]

(* Both: editors do not lose each other's text and a pinned run does not   *)
(* change under way.                                                       *)
PromptsAreSound == SavesBuildOnWhatWasSeen /\ PinnedRunIsFixed
=============================================================================
