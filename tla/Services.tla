-------------------------------- MODULE Services --------------------------------
(***************************************************************************)
(* The services that stand beside an attempt, one at a time: the prompt *)
(* configuration with its editors, the channel for server commands, the *)
(* connection to a worker, the queue of the week 9 runner, the scripted *)
(* benchmark, the import of histories, the memory of a context, and the *)
(* action handlers of a worker. *)
(* *)
(* Part by part: its constants, its invariants and its theorem; then the *)
(* composition of all, and what it keeps. What is proved about the *)
(* connection to a worker is in MineflayerRpcProofs. *)
(***************************************************************************)
EXTENDS Integers, Sequences, FiniteSets, FiniteSetTheorems, SequenceTheorems,
  WellFoundedInduction, TLAPS

CONSTANTS
  \* PromptConfiguration
  Editors, Prompts, Chunks, HardHidden, PromptEdits, MaxTurns, PromptLosses,
  \* ServerCommands
  ResetTasks, ResetConfig, MaxResets, ResetFaults,
  \* TrainingQueue
  QueueTasks, Concurrency, Results, MaxRuns, QueueFaults

VARIABLES
  rows, epoch, editor, edits, saved, pinned, turns, losses, phase, task, batch, aligned, open,
  waiting, link, inbox, outbox, located, world, executed, late, resets, faults, backend,
  selected, list, sent, states, remote, worker, outcomes, active, highest, report, clean, runs

P == INSTANCE PromptConfiguration WITH
  MaxEdits <- PromptEdits, MaxLosses <- PromptLosses
S == INSTANCE ServerCommands WITH
  Tasks <- ResetTasks, Config <- ResetConfig, MaxFaults <- ResetFaults
Q == INSTANCE TrainingQueue WITH
  Tasks <- QueueTasks, MaxFaults <- QueueFaults

(* Budgets and bounds are naturals; reset plans and their configuration *)
(* have the fields and types of the code; a manifest is finite, the runner *)
(* is refused without a worker, and neither a stop item nor no task is a *)
(* task. *)
ASSUME PromptsAssumption == {PromptEdits, MaxTurns, PromptLosses} \subseteq Nat
ASSUME ResetAssumption ==
  /\ ResetTasks \subseteq S!Plans /\ ResetConfig \in S!Configs
  /\ {MaxResets, ResetFaults} \subseteq Nat
ASSUME QueueAssumption ==
  /\ IsFiniteSet(QueueTasks) /\ {"stop", "none"} \cap QueueTasks = {}
  /\ Concurrency \in Nat \ {0} /\ QueueFaults \in Nat
--------------------
(* The prompts: editors. The version and the epoch of a row together tell *)
(* an editor whether its row has moved on. *)

(* Rows and epochs are counted; a row that is not there has no text. *)
RowsCount ==
  /\ DOMAIN rows = P!Entries /\ DOMAIN epoch = P!Entries /\ DOMAIN editor = Editors
  /\ \A e \in P!Entries : /\ rows[e].version \in Nat /\ epoch[e] \in Nat
                          /\ rows[e].version = 0 => rows[e].text = 0
  /\ edits \in Nat

(* What an editor has loaded tells how far its row has moved on since: by *)
(* a reset or seeding, else by a version, else not at all. *)
LoadedRow(x) ==
  LET e == editor[x].entry
      row == editor[x].row
  IN  /\ e \in P!Entries
      /\ editor[x].epoch \in Nat /\ row.version \in Nat
      /\ editor[x].epoch <= epoch[e]
      /\ editor[x].epoch = epoch[e] => row.version <= rows[e].version
      /\ editor[x].epoch = epoch[e] /\ row.version = rows[e].version => row.text = rows[e].text

EditorsKnow ==
  \A x \in Editors : editor[x].pc # "closed" =>
    LoadedRow(x) /\ (editor[x].pc = "inserting" => editor[x].row.version = 0)

EditingInv == RowsCount /\ EditorsKnow /\ P!SavesBuildOnWhatWasSeen
--------------------
(* The prompts: the run. A process that has pinned a snapshot still holds *)
(* the one that its pinned turns have shown. *)

(* The turns that a process has pinned show the snapshot that it holds. *)
PinShown ==
  /\ losses \in Nat
  /\ \A i \in DOMAIN turns :
       /\ turns[i].process \in Nat /\ turns[i].process <= losses
       /\ turns[i].mode = "run_pinned" /\ turns[i].process = losses =>
            pinned # P!NoSnapshot /\ turns[i] = P!TurnOf("run_pinned", pinned)

TurnsTyped == \E T : turns \in Seq(T)

PinningInv == TurnsTyped /\ PinShown /\ P!PinnedRunIsFixed
--------------------
LEMMA InitEditing == P!Init => EditingInv
  BY DEF P!Init, EditingInv, RowsCount, EditorsKnow, P!SavesBuildOnWhatWasSeen, P!DefaultRow,
     P!Closed, P!NoSave

(* An editor that was opened on a row still knows how far it has moved on, *)
(* when rows only move on. *)
LEMMA StillKnown ==
  ASSUME EditingInv, NEW x \in Editors, editor[x].pc # "closed", editor'[x] = editor[x],
         \A e \in P!Entries :
           \/ epoch'[e] = epoch[e] + 1 /\ rows'[e].version \in Nat
           \/ epoch'[e] = epoch[e] /\ rows'[e].version = rows[e].version + 1
           \/ epoch'[e] = epoch[e] /\ rows'[e].version = rows[e].version
              /\ rows'[e].text = rows[e].text
  PROVE  LoadedRow(x)' /\ (editor'[x].pc = "inserting" => editor'[x].row.version = 0)
<1>1. LoadedRow(x) /\ (editor[x].pc = "inserting" => editor[x].row.version = 0)
  BY DEF EditingInv, EditorsKnow
<1>2. PICK e \in P!Entries : e = editor[x].entry
  BY <1>1 DEF LoadedRow
<1>3. epoch[e] \in Nat /\ rows[e].version \in Nat
  BY DEF EditingInv, RowsCount
<1>4. QED
  BY <1>1, <1>2, <1>3 DEF LoadedRow

(* How one step moves a row on. *)
Moves(e) ==
  \/ epoch'[e] = epoch[e] + 1 /\ rows'[e].version \in Nat
     /\ (rows'[e].version = 0 => rows'[e].text = 0)
  \/ epoch'[e] = epoch[e] /\ rows'[e].version = rows[e].version + 1
  \/ epoch'[e] = epoch[e] /\ rows'[e].version = rows[e].version /\ rows'[e].text = rows[e].text

LEMMA RowsMove ==
  ASSUME RowsCount, DOMAIN rows' = P!Entries, DOMAIN epoch' = P!Entries, DOMAIN editor' = Editors,
         edits' \in Nat, \A e \in P!Entries : Moves(e)
  PROVE  RowsCount'
<1>1. ASSUME NEW e \in P!Entries
      PROVE  /\ rows'[e].version \in Nat /\ epoch'[e] \in Nat
             /\ rows'[e].version = 0 => rows'[e].text = 0
  BY <1>1 DEF RowsCount, Moves
<1>2. QED
  BY <1>1 DEF RowsCount

(* A save that is accepted found the row as its editor has seen it. *)
LEMMA WriteEditing ==
  ASSUME EditingInv, NEW x \in Editors, NEW on \in BOOLEAN, P!Write(x, on),
         \/ editor[x].pc = "open" /\ P!Current(x)
         \/ editor[x].pc = "inserting" /\ rows[editor[x].entry].version = 0
  PROVE  EditingInv'
<1>1. LoadedRow(x) /\ (editor[x].pc = "inserting" => editor[x].row.version = 0)
  BY DEF EditingInv, EditorsKnow
<1>2. PICK e \in P!Entries : e = editor[x].entry
  BY <1>1 DEF LoadedRow
<1>3. rows[e].version = editor[x].row.version
  BY <1>1, <1>2 DEF P!Current
<1>4. P!SavesBuildOnWhatWasSeen'
  BY <1>1, <1>2, <1>3 DEF P!Write, LoadedRow, P!SavesBuildOnWhatWasSeen
<1>5. /\ rows' = [rows EXCEPT ![e] = P!Written(x, on)] /\ P!Written(x, on).version = rows[e].version + 1
      /\ epoch' = epoch /\ edits' = edits + 1 /\ editor' = [editor EXCEPT ![x] = P!Closed]
  BY <1>2 DEF P!Write, P!Written, P!Done
<1>6. \A f \in P!Entries : Moves(f)
  BY <1>5 DEF Moves, EditingInv, RowsCount
<1>7. RowsCount'
  BY <1>5, <1>6, RowsMove DEF EditingInv, RowsCount
<1>8. EditorsKnow'
  BY <1>5, <1>6, StillKnown DEF EditingInv, RowsCount, EditorsKnow, Moves, P!Closed
<1>9. QED
  BY <1>4, <1>7, <1>8 DEF EditingInv

LEMMA ResetEditing ==
  ASSUME EditingInv, NEW x \in Editors, P!Reset(x)
  PROVE  EditingInv'
<1>1. PICK e \in P!Entries : e = editor[x].entry
  BY DEF EditingInv, EditorsKnow, LoadedRow, P!Reset
<1>2. /\ rows' = [rows EXCEPT ![e] = P!DefaultRow(e)]
      /\ P!DefaultRow(e).version = 0 /\ P!DefaultRow(e).text = 0
      /\ epoch' = [epoch EXCEPT ![e] = IF rows[e].version > 0 THEN @ + 1 ELSE @]
      /\ edits' = edits + 1 /\ editor' = [editor EXCEPT ![x] = P!Closed] /\ saved' = saved
  BY <1>1 DEF P!Reset, P!DefaultRow, P!Done
<1>3. \A f \in P!Entries : Moves(f)
  <2>1. rows[e].version \in Nat /\ (rows[e].version = 0 => rows[e].text = 0)
    BY DEF EditingInv, RowsCount
  <2>2. Moves(e)
    BY <1>2, <2>1 DEF Moves, EditingInv, RowsCount
  <2>3. QED
    BY <1>2, <2>2 DEF Moves, EditingInv, RowsCount
<1>4. RowsCount'
  BY <1>2, <1>3, RowsMove DEF EditingInv, RowsCount
<1>5. EditorsKnow'
  BY <1>2, <1>3, StillKnown DEF EditingInv, RowsCount, EditorsKnow, Moves, P!Closed
<1>6. QED
  BY <1>2, <1>4, <1>5 DEF EditingInv, P!SavesBuildOnWhatWasSeen

LEMMA SeedEditing ==
  ASSUME EditingInv, NEW c \in Chunks, P!Seed(c)
  PROVE  EditingInv'
<1>1. /\ c \in P!Entries /\ DOMAIN rows' = P!Entries
      /\ rows'[c].version \in Nat \ {0}
      /\ \A f \in P!Entries \ {c} : rows'[f] = rows[f]
      /\ epoch' = [epoch EXCEPT ![c] = @ + 1]
      /\ edits' = edits + 1 /\ editor' = editor /\ saved' = saved
  <2>1. c \in P!Entries /\ DOMAIN rows = P!Entries /\ rows[c].version \in Nat
    BY DEF EditingInv, RowsCount, P!Entries
  <2>2. rows'[c].version = IF rows[c].version = 0 THEN 1 ELSE rows[c].version
    BY <2>1 DEF P!Seed
  <2>3. QED
    BY <2>1, <2>2 DEF P!Seed
<1>2. \A f \in P!Entries : Moves(f)
  BY <1>1 DEF Moves, EditingInv, RowsCount
<1>3. RowsCount'
  BY <1>1, <1>2, RowsMove DEF EditingInv, RowsCount
<1>4. EditorsKnow'
  BY <1>1, <1>2, StillKnown DEF EditingInv, EditorsKnow, Moves
<1>5. QED
  BY <1>1, <1>3, <1>4 DEF EditingInv, P!SavesBuildOnWhatWasSeen

(* An editor opens, looks for its row, or closes without a save. *)
LEMMA EditorEditing ==
  ASSUME EditingInv, NEW x \in Editors, P!Load(x) \/ P!Conflict(x) \/ P!Find(x) \/ P!InsertFails(x)
  PROVE  EditingInv'
<1>1. /\ UNCHANGED <<rows, epoch, edits, saved>>
      /\ DOMAIN editor' = Editors /\ \A y \in Editors \ {x} : editor'[y] = editor[y]
  BY DEF P!Load, P!Conflict, P!Find, P!InsertFails, P!Done, EditingInv, RowsCount
<1>2. RowsCount' /\ P!SavesBuildOnWhatWasSeen'
  BY <1>1 DEF EditingInv, RowsCount, P!SavesBuildOnWhatWasSeen
<1>3. editor'[x].pc # "closed" =>
        LoadedRow(x)' /\ (editor'[x].pc = "inserting" => editor'[x].row.version = 0)
  <2>1. CASE P!Load(x)
    <3>1. PICK e \in P!Entries :
            editor'[x] = [pc |-> "open", entry |-> e, row |-> rows[e], epoch |-> epoch[e]]
      BY <2>1 DEF P!Load, EditingInv, RowsCount
    <3>2. rows[e].version \in Nat /\ epoch[e] \in Nat
      BY DEF EditingInv, RowsCount
    <3>3. QED
      BY <1>1, <3>1, <3>2 DEF LoadedRow
  <2>2. CASE P!Conflict(x) \/ P!InsertFails(x)
    BY <2>2 DEF P!Conflict, P!InsertFails, P!Done, P!Closed, EditingInv, RowsCount
  <2>3. CASE P!Find(x)
    <3>1. LoadedRow(x) /\ editor[x].row.version = 0
      BY <2>3 DEF P!Find, P!Current, EditingInv, EditorsKnow
    <3>2. editor'[x].entry = editor[x].entry /\ editor'[x].row = editor[x].row
          /\ editor'[x].epoch = editor[x].epoch
      BY <2>3 DEF P!Find, EditingInv, RowsCount
    <3>3. QED
      BY <1>1, <3>1, <3>2 DEF LoadedRow
  <2>4. QED
    BY <2>1, <2>2, <2>3
<1>4. \A y \in Editors \ {x} : editor'[y].pc # "closed" =>
        LoadedRow(y)' /\ (editor'[y].pc = "inserting" => editor'[y].row.version = 0)
  BY <1>1 DEF EditingInv, EditorsKnow, LoadedRow
<1>5. EditorsKnow'
  BY <1>3, <1>4 DEF EditorsKnow
<1>6. QED
  BY <1>2, <1>5 DEF EditingInv

LEMMA StepEditing == EditingInv /\ [P!Next]_(P!vars) => EditingInv'
<1> SUFFICES ASSUME EditingInv, [P!Next]_(P!vars) PROVE EditingInv'
  OBVIOUS
<1>1. ASSUME NEW x \in Editors, P!Update(x) \/ P!Insert(x) PROVE EditingInv'
  BY <1>1, WriteEditing DEF P!Update, P!Insert, P!InsertRow
<1>2. ASSUME NEW x \in Editors, P!Reset(x) PROVE EditingInv'
  BY <1>2, ResetEditing
<1>3. ASSUME NEW x \in Editors, P!Load(x) \/ P!Conflict(x) \/ P!Find(x) \/ P!InsertFails(x)
      PROVE  EditingInv'
  BY <1>3, EditorEditing
<1>4. ASSUME NEW c \in Chunks, P!Seed(c) PROVE EditingInv'
  BY <1>4, SeedEditing
<1>5. CASE P!Turn \/ P!Fallback \/ P!LoseAndResume \/ UNCHANGED P!vars
  BY <1>5 DEF P!Turn, P!Fallback, P!LoseAndResume, P!vars, EditingInv, RowsCount, EditorsKnow,
     LoadedRow, P!SavesBuildOnWhatWasSeen
<1>6. QED
  BY <1>1, <1>2, <1>3, <1>4, <1>5 DEF P!Next
--------------------
LEMMA InitPinning == P!Init => PinningInv
<1> SUFFICES ASSUME P!Init PROVE PinningInv
  OBVIOUS
<1>1. turns = <<>> /\ losses = 0 /\ <<>> \in Seq({})
  BY DEF P!Init
<1>2. QED
  BY <1>1 DEF PinningInv, TurnsTyped, PinShown, P!PinnedRunIsFixed

(* A further turn of a run. *)
LEMMA AppendTurn ==
  ASSUME TurnsTyped, NEW t, turns' = Append(turns, t)
  PROVE  /\ TurnsTyped' /\ Len(turns) \in Nat /\ DOMAIN turns = 1 .. Len(turns)
         /\ DOMAIN turns' = 1 .. Len(turns) + 1
         /\ turns'[Len(turns) + 1] = t
         /\ \A i \in DOMAIN turns : turns'[i] = turns[i]
<1>1. PICK T : turns \in Seq(T)
  BY DEF TurnsTyped
<1>2. turns \in Seq(T \cup {t}) /\ t \in T \cup {t}
  BY <1>1
<1>3. QED
  BY <1>2 DEF TurnsTyped

(* A turn is shown: by a process that has pinned a snapshot, the same; by *)
(* one that has not, the turn is live or the first that is pinned. *)
LEMMA ShowsTurn ==
  ASSUME PinningInv, NEW t, turns' = Append(turns, t), losses' = losses, t.process = losses,
         \/ pinned # P!NoSnapshot /\ t = P!TurnOf("run_pinned", pinned) /\ pinned' = pinned
         \/ pinned = P!NoSnapshot /\ t.mode # "run_pinned"
         \/ pinned = P!NoSnapshot /\ pinned' # P!NoSnapshot /\ t = P!TurnOf("run_pinned", pinned')
  PROVE  PinningInv'
<1>1. /\ TurnsTyped' /\ Len(turns) \in Nat /\ DOMAIN turns = 1 .. Len(turns)
      /\ DOMAIN turns' = 1 .. Len(turns) + 1
      /\ turns'[Len(turns) + 1] = t
      /\ \A i \in DOMAIN turns : turns'[i] = turns[i]
  BY AppendTurn DEF PinningInv
<1>2. /\ losses \in Nat
      /\ \A i \in DOMAIN turns :
           /\ turns[i].process \in Nat /\ turns[i].process <= losses
           /\ turns[i].mode = "run_pinned" /\ turns[i].process = losses =>
                pinned # P!NoSnapshot /\ turns[i] = P!TurnOf("run_pinned", pinned)
  BY DEF PinningInv, PinShown
<1>3. \A s : P!TurnOf("run_pinned", s)' = P!TurnOf("run_pinned", s)
  BY DEF P!TurnOf
<1>4. PinShown'
  <2>1. ASSUME NEW i \in DOMAIN turns, turns[i].mode = "run_pinned", turns[i].process = losses
        PROVE  pinned' # P!NoSnapshot /\ turns[i] = P!TurnOf("run_pinned", pinned)
               /\ pinned' = pinned
    BY <1>2, <2>1
  <2>2. t.mode = "run_pinned" => pinned' # P!NoSnapshot /\ t = P!TurnOf("run_pinned", pinned')
    OBVIOUS
  <2>3. PICK p : p = pinned'
    OBVIOUS
  <2>4. \A i \in DOMAIN turns' :
          /\ turns'[i].process \in Nat /\ turns'[i].process <= losses
          /\ turns'[i].mode = "run_pinned" /\ turns'[i].process = losses =>
               p # P!NoSnapshot /\ turns'[i] = P!TurnOf("run_pinned", p)
    BY <1>1, <1>2, <2>1, <2>2, <2>3
  <2>5. QED
    BY <1>2, <1>3, <2>3, <2>4 DEF PinShown
<1>5. P!PinnedRunIsFixed'
  <2>1. \A i \in DOMAIN turns :
          turns[i].mode = "run_pinned" /\ turns[i].process = t.process => t = turns[i]
    BY <1>2
  <2>2. QED
    BY <1>1, <2>1 DEF PinningInv, P!PinnedRunIsFixed
<1>6. QED
  BY <1>1, <1>4, <1>5 DEF PinningInv

LEMMA StepPinning == PinningInv /\ [P!Next]_(P!vars) => PinningInv'
<1> SUFFICES ASSUME PinningInv, [P!Next]_(P!vars) PROVE PinningInv'
  OBVIOUS
<1>0. \A mode, s : P!TurnOf(mode, s).mode = mode /\ P!TurnOf(mode, s).process = losses
  BY DEF P!TurnOf
<1>1. CASE P!Turn /\ pinned # P!NoSnapshot
  BY <1>0, <1>1, ShowsTurn DEF P!Turn, P!Shows
<1>2. CASE P!Turn /\ pinned = P!NoSnapshot
  <2>1. CASE P!HotReload(P!Snapshot)
    <3>1. turns' = Append(turns, P!TurnOf("live", P!Snapshot)) /\ losses' = losses
      BY <1>2, <2>1 DEF P!Turn, P!Shows
    <3>2. QED
      BY <1>0, <1>2, <3>1, ShowsTurn
  <2>2. CASE ~P!HotReload(P!Snapshot)
    <3>1. /\ turns' = Append(turns, P!TurnOf("run_pinned", P!Snapshot)) /\ losses' = losses
          /\ pinned' = P!Snapshot
      BY <1>2, <2>2 DEF P!Turn, P!Shows, P!Pin
    <3>2. P!Snapshot # P!NoSnapshot
      <4>1. "hot_reload" \in DOMAIN P!Snapshot /\ DOMAIN P!NoSnapshot = {}
        BY DEF P!Snapshot, P!Overrides, P!NoSnapshot
      <4>2. QED
        BY <4>1
    <3>3. PICK s : s = P!Snapshot
      OBVIOUS
    <3>4. QED
      BY <1>0, <1>2, <3>1, <3>2, <3>3, ShowsTurn
  <2>3. QED
    BY <2>1, <2>2
<1>3. CASE P!Fallback
  <2>1. PICK t : t = P!TurnOf("fallback", [e \in P!Overrides |-> P!DefaultRow(e)])
    OBVIOUS
  <2>2. turns' = Append(turns, t) /\ losses' = losses /\ pinned = P!NoSnapshot
    BY <1>3, <2>1 DEF P!Fallback, P!Shows
  <2>3. t.mode = "fallback" /\ t.process = losses
    BY <1>0, <2>1
  <2>4. QED
    BY <2>2, <2>3, ShowsTurn
<1>4. CASE P!LoseAndResume
  BY <1>4 DEF P!LoseAndResume, PinningInv, TurnsTyped, PinShown, P!PinnedRunIsFixed
<1>5. CASE UNCHANGED <<pinned, turns, losses>>
  BY <1>5 DEF PinningInv, TurnsTyped, PinShown, P!PinnedRunIsFixed, P!TurnOf
<1>6. QED
  BY <1>1, <1>2, <1>3, <1>4, <1>5 DEF P!Next, P!Load, P!Conflict, P!Update, P!Find, P!Insert,
     P!Write, P!InsertFails, P!Reset, P!Seed, P!vars
--------------------
(* Whoever saves, inserts, resets or seeds in between, an accepted save *)
(* replaces what its editor has seen, and a run that is pinned shows the *)
(* same prompt in all later turns of its process: for any editors, prompts *)
(* and number of edits, turns and losses. *)
THEOREM PromptsStaySound == P!Spec => []P!PromptsAreSound
<1>1. EditingInv /\ PinningInv => P!PromptsAreSound
  BY DEF EditingInv, PinningInv, P!PromptsAreSound
<1>2. QED
  BY <1>1, InitEditing, StepEditing, InitPinning, StepPinning, PTL DEF P!Spec
--------------------
(* The types, with the bounds of the instance. *)

(* Versions and texts are counted by the edits. *)
EditsCount ==
  /\ DOMAIN rows = P!Entries /\ edits \in 0 .. PromptEdits
  /\ \A e \in P!Entries : rows[e].version \in 0 .. edits /\ rows[e].text \in 0 .. edits

RunCounted ==
  /\ TurnsTyped /\ Len(turns) <= MaxTurns /\ losses \in 0 .. PromptLosses
  /\ DOMAIN pinned \in {{}, P!Overrides}

(* Rows, turns and the snapshot keep their types, for any bounds. *)
THEOREM PromptsStayTyped ==
  ASSUME {PromptEdits, MaxTurns, PromptLosses} \subseteq Nat
  PROVE  P!Spec => []P!TypeOK
<1>1. P!Init => EditsCount /\ RunCounted
  BY DEF P!Init, EditsCount, RunCounted, TurnsTyped, P!DefaultRow, P!NoSnapshot
<1>2. EditsCount /\ [P!Next]_(P!vars) => EditsCount'
  <2> SUFFICES ASSUME EditsCount, [P!Next]_(P!vars) PROVE EditsCount'
    OBVIOUS
  <2>1. ASSUME NEW x \in Editors, NEW on \in BOOLEAN, P!Write(x, on) PROVE EditsCount'
    BY <2>1 DEF EditsCount, P!Write, P!Written
  <2>2. ASSUME NEW x \in Editors, P!Reset(x) PROVE EditsCount'
    BY <2>2 DEF EditsCount, P!Reset, P!DefaultRow
  <2>3. ASSUME NEW c \in Chunks, P!Seed(c) PROVE EditsCount'
    BY <2>3 DEF EditsCount, P!Seed, P!Entries
  <2>4. CASE UNCHANGED <<rows, edits>>
    BY <2>4 DEF EditsCount
  <2>5. QED
    BY <2>1, <2>2, <2>3, <2>4 DEF P!Next, P!Load, P!Conflict, P!Update, P!Find, P!Insert,
       P!InsertFails, P!Turn, P!Fallback, P!LoseAndResume, P!vars
<1>3. RunCounted /\ [P!Next]_(P!vars) => RunCounted'
  <2> SUFFICES ASSUME RunCounted, [P!Next]_(P!vars) PROVE RunCounted'
    OBVIOUS
  <2>1. ASSUME NEW u, P!Shows(u), Len(turns) < MaxTurns
        PROVE  TurnsTyped' /\ Len(turns') <= MaxTurns
    <3>1. PICK T : turns \in Seq(T)
      BY DEF RunCounted, TurnsTyped
    <3>2. turns \in Seq(T \cup {u}) /\ u \in T \cup {u}
      BY <3>1
    <3>3. turns' \in Seq(T \cup {u}) /\ Len(turns') = Len(turns) + 1
      BY <2>1, <3>2 DEF P!Shows
    <3>4. Len(turns) \in Nat /\ MaxTurns \in Nat
      BY <3>1
    <3>5. QED
      BY <2>1, <3>3, <3>4 DEF TurnsTyped
  <2>2. CASE P!Turn
    BY <2>1, <2>2 DEF P!Turn, RunCounted, P!Pin, P!Snapshot, P!NoSnapshot
  <2>3. CASE P!Fallback
    BY <2>1, <2>3 DEF P!Fallback, RunCounted
  <2>4. CASE P!LoseAndResume
    BY <2>4 DEF P!LoseAndResume, RunCounted, TurnsTyped, P!NoSnapshot
  <2>5. CASE UNCHANGED <<pinned, turns, losses>>
    BY <2>5 DEF RunCounted, TurnsTyped
  <2>6. QED
    BY <2>2, <2>3, <2>4, <2>5 DEF P!Next, P!Load, P!Conflict, P!Update, P!Find, P!Insert,
       P!Write, P!InsertFails, P!Reset, P!Seed, P!vars
<1>4. EditsCount /\ RunCounted => P!TypeOK
  BY DEF EditsCount, RunCounted, P!TypeOK
<1>5. QED
  BY <1>1, <1>2, <1>3, <1>4, PTL DEF P!Spec
--------------------
Ends(q) == {i \in DOMAIN q : q[i] = Q!Stop}
Held == [pc : {"get", "taken", "started", "running", "ran", "finished", "returned"},
         task : QueueTasks \cup {Q!None}, status : Results \cup {Q!None}]
Returns == Seq([task : QueueTasks, status : Results \cup {Q!None}])
Free == {"get", "returned"}
(* Who runs a task, who has not returned, and the items of a run in the *)
(* order in which they are sent, with how many of them are taken. *)
Busy == {w \in Q!Workers : worker[w].pc \in {"started", "running", "ran"}}
Waiting == {w \in Q!Workers : worker[w].pc # "returned"}
Item(i) == IF i <= Len(selected) THEN selected[i] ELSE Q!Stop
Taken == Len(selected) + Q!WorkerCount - Len(list)

(* Types and bounds; a task is selected once. *)
QueueTypes ==
  /\ phase \in {"idle", "enqueue", "work", "reported", "failed"}
  /\ selected \in Seq(QueueTasks) /\ Len(selected) <= Cardinality(QueueTasks)
  /\ \A i, j \in DOMAIN selected : selected[i] = selected[j] => i = j
  /\ list \in Seq(QueueTasks \cup {Q!Stop})
  /\ sent \in Nat /\ sent <= Len(selected) + Q!WorkerCount
  /\ DOMAIN states \subseteq QueueTasks
  /\ active \in 0 .. Concurrency /\ highest \in active .. Concurrency
  /\ faults \in 0 .. QueueFaults

(* While a run is enqueued its stop items are counted, and a list that was *)
(* empty holds what was sent. *)
QueueFilled == phase = "enqueue" =>
  /\ active = 0
  /\ sent - Len(selected) <= Cardinality(Ends(list))
  /\ clean => Len(list) = sent /\ \A i \in 1 .. sent : list[i] = Item(i)

(* A worker without a request has none, the busy ones are counted, and *)
(* there is a stop item for each that has not returned. *)
QueueWorked == phase = "work" =>
  /\ worker \in [Q!Workers -> Held]
  /\ outcomes \in [Q!Workers -> Returns]
  /\ \A w \in Q!Workers : worker[w].pc \in Free <=> worker[w].task = Q!None
  /\ active = Cardinality(Busy)
  /\ Cardinality(Waiting) <= Cardinality(Ends(list))

(* A list that was empty is served in order: what is left of it is the end *)
(* of what was sent, and so many have returned as stop items are taken. *)
QueueOrdered == phase = "work" /\ clean =>
  /\ Len(list) <= Len(selected) + Q!WorkerCount
  /\ \A i \in DOMAIN list : list[i] = Item(Taken + i)
  /\ Cardinality(Waiting) = IF Len(list) < Q!WorkerCount THEN Len(list) ELSE Q!WorkerCount

(* Every request that was taken is with one worker, or in one outcome. *)
QueueApart == phase = "work" /\ clean =>
  /\ \A w \in Q!Workers : worker[w].task # Q!None =>
       \E k \in DOMAIN selected : k <= Taken /\ selected[k] = worker[w].task
  /\ \A v, w \in Q!Workers : worker[v].task = worker[w].task /\ worker[v].task # Q!None => v = w
  /\ \A w \in Q!Workers : \A i \in DOMAIN outcomes[w] :
       \E k \in DOMAIN selected : k <= Taken /\ selected[k] = outcomes[w][i].task
  /\ \A v, w \in Q!Workers : \A i \in DOMAIN outcomes[v] : outcomes[v][i].task # worker[w].task
  /\ \A v, w \in Q!Workers : \A i \in DOMAIN outcomes[v], j \in DOMAIN outcomes[w] :
       outcomes[v][i].task = outcomes[w][j].task => v = w /\ i = j
  /\ \A k \in DOMAIN selected : k <= Taken =>
       \/ \E w \in Q!Workers : worker[w].task = selected[k]
       \/ \E w \in Q!Workers : \E i \in DOMAIN outcomes[w] : outcomes[w][i].task = selected[k]

(* A status is what the queue shows, in Redis once the outcome is added. *)
QueueKept == phase = "work" /\ clean =>
  /\ \A w \in Q!Workers : worker[w].pc = "finished" =>
       worker[w].task \in DOMAIN states /\ states[worker[w].task] = worker[w].status
  /\ \A w \in Q!Workers : \A i \in DOMAIN outcomes[w] :
       /\ outcomes[w][i].task \in DOMAIN states
       /\ states[outcomes[w][i].task] = outcomes[w][i].status
       /\ backend = "redis" => /\ outcomes[w][i].task \in DOMAIN remote
                               /\ remote[outcomes[w][i].task] = outcomes[w][i].status

(* What the report of a run that began with an empty list says. *)
QueueReported == phase = "reported" /\ clean =>
  /\ \A t \in Q!ToSet(selected) : \E p \in Q!Positions(report.outcomes) :
       /\ report.outcomes[p[1]][p[2]] = [task |-> t, status |-> states[t]]
       /\ backend = "redis" => remote[t] = states[t]
  /\ \A p, q \in Q!Positions(report.outcomes) :
       report.outcomes[p[1]][p[2]].task = report.outcomes[q[1]][q[2]].task => p = q
  /\ list = <<>> /\ active = 0

QueueInv == QueueTypes /\ QueueFilled /\ QueueWorked /\ QueueOrdered /\ QueueApart /\ QueueKept
            /\ QueueReported
--------------------
(* The module of the queue counts as this one does. *)
LEMMA SameCount == \A X : Q!Cardinality(X) = Cardinality(X)
  BY DEF Q!Cardinality, Cardinality

LEMMA QueueAssumed ==
  /\ IsFiniteSet(QueueTasks) /\ Concurrency \in Nat \ {0} /\ QueueFaults \in Nat
  /\ Q!Stop \notin QueueTasks /\ Q!None \notin QueueTasks
  BY QueueAssumption DEF Q!Stop, Q!None

LEMMA EndsOfAppend ==
  ASSUME NEW q \in Seq(QueueTasks \cup {Q!Stop}), NEW e \in QueueTasks \cup {Q!Stop}
  PROVE  /\ IsFiniteSet(Ends(q)) /\ Cardinality(Ends(q)) \in Nat
         /\ Cardinality(Ends(Append(q, e))) = Cardinality(Ends(q)) + (IF e = Q!Stop THEN 1 ELSE 0)
<1>1. IsFiniteSet(1 .. Len(q)) /\ Ends(q) \in SUBSET (1 .. Len(q))
  <2>1. Len(q) \in Int /\ DOMAIN q = 1 .. Len(q)
    OBVIOUS
  <2>2. QED
    BY <2>1, FS_Interval DEF Ends
<1>2. IsFiniteSet(Ends(q))
  BY <1>1, FS_Subset
<1>3. Cardinality(Ends(q)) \in Nat
  BY <1>2, FS_CardinalityType
<1>4. Ends(Append(q, e)) = IF e = Q!Stop THEN Ends(q) \cup {Len(q) + 1} ELSE Ends(q)
  BY DEF Ends
<1>5. Len(q) + 1 \notin Ends(q)
  BY DEF Ends
<1>6. Cardinality(Ends(q) \cup {Len(q) + 1}) = Cardinality(Ends(q)) + 1
  BY <1>2, <1>5, FS_AddElement
<1>7. QED
  BY <1>2, <1>3, <1>4, <1>6

LEMMA EndsOfTail ==
  ASSUME NEW q \in Seq(QueueTasks \cup {Q!Stop}), q # <<>>
  PROVE  Cardinality(Ends(Tail(q))) = Cardinality(Ends(q)) - (IF Head(q) = Q!Stop THEN 1 ELSE 0)
<1> DEFINE Rest == Ends(q) \ {1}
           f == [i \in Ends(Tail(q)) |-> i + 1]
<1>1. /\ Tail(q) \in Seq(QueueTasks \cup {Q!Stop}) /\ Len(Tail(q)) = Len(q) - 1
      /\ \A i \in 1 .. Len(Tail(q)) : Tail(q)[i] = q[i + 1]
      /\ Len(q) \in Nat \ {0} /\ DOMAIN q = 1 .. Len(q) /\ Head(q) = q[1]
      /\ DOMAIN Tail(q) = 1 .. (Len(q) - 1)
  BY HeadTailProperties
<1>2. f \in [Ends(Tail(q)) -> Rest]
  <2>1. ASSUME NEW i \in Ends(Tail(q))  PROVE i + 1 \in Rest
    BY <1>1, <2>1 DEF Ends
  <2>2. QED
    BY <2>1
<1>3. \A i, j \in Ends(Tail(q)) : f[i] = f[j] => i = j
  BY <1>1 DEF Ends
<1>4. \A k \in Rest : \E i \in Ends(Tail(q)) : f[i] = k
  <2>1. ASSUME NEW k \in Rest  PROVE k - 1 \in Ends(Tail(q)) /\ (k - 1) + 1 = k
    BY <1>1, <2>1 DEF Ends
  <2>2. QED
    BY <2>1
<1>5. ExistsBijection(Ends(Tail(q)), Rest)
  <2>1. f \in Bijection(Ends(Tail(q)), Rest)
    BY <1>2, <1>3, <1>4 DEF Bijection, Injection, Surjection, IsInjective
  <2>2. QED
    BY <2>1 DEF ExistsBijection
<1>6. IsFiniteSet(Ends(q)) /\ IsFiniteSet(Ends(Tail(q)))
  BY <1>1, EndsOfAppend, Q!Stop \in QueueTasks \cup {Q!Stop}
<1>7. Cardinality(Rest) = Cardinality(Ends(Tail(q)))
  BY <1>5, <1>6, FS_Bijection
<1>8. Cardinality(Rest) = IF 1 \in Ends(q) THEN Cardinality(Ends(q)) - 1 ELSE Cardinality(Ends(q))
  BY <1>6, FS_RemoveElement
<1>9. 1 \in Ends(q) <=> Head(q) = Q!Stop
  BY <1>1 DEF Ends
<1>10. Cardinality(Ends(q)) \in Nat
  BY <1>6, FS_CardinalityType
<1>11. QED
  BY <1>7, <1>8, <1>9, <1>10

LEMMA WorkersAre ==
  ASSUME selected \in Seq(QueueTasks)
  PROVE  /\ Q!WorkerCount \in Nat
         /\ Q!WorkerCount <= Concurrency
         /\ Q!WorkerCount <= Len(selected)
         /\ Q!WorkerCount = 0 => Len(selected) = 0
         /\ IsFiniteSet(Q!Workers) /\ Cardinality(Q!Workers) = Q!WorkerCount
<1>1. Len(selected) \in Nat /\ Concurrency \in Nat \ {0}
  BY QueueAssumed
<1>2. /\ Q!WorkerCount \in Nat /\ Q!WorkerCount <= Concurrency /\ Q!WorkerCount <= Len(selected)
      /\ Q!WorkerCount = 0 => Len(selected) = 0
  BY <1>1 DEF Q!WorkerCount
<1>3. QED
  BY <1>2, FS_Interval DEF Q!Workers

LEMMA SelectionIs ==
  ASSUME NEW chosen \in SUBSET QueueTasks
  PROVE  /\ Q!SetToSeq(chosen) \in Seq(QueueTasks)
         /\ Len(Q!SetToSeq(chosen)) <= Cardinality(QueueTasks)
         /\ \A i, j \in DOMAIN Q!SetToSeq(chosen) :
              Q!SetToSeq(chosen)[i] = Q!SetToSeq(chosen)[j] => i = j
<1> DEFINE n == Cardinality(chosen)
<1>1. IsFiniteSet(chosen) /\ n <= Cardinality(QueueTasks)
  BY FS_Subset, QueueAssumed
<1>2. n \in Nat /\ ExistsBijection(1 .. n, chosen)
  BY <1>1, FS_CardinalityType
<1>3. \E f \in [1 .. n -> chosen] : Q!IsInjective(f)
  BY <1>2 DEF ExistsBijection, Bijection, Injection, Surjection, IsInjective, Q!IsInjective
<1>4. Q!SetToSeq(chosen) \in [1 .. n -> chosen] /\ Q!IsInjective(Q!SetToSeq(chosen))
  BY <1>3, SameCount DEF Q!SetToSeq
<1>5. Q!SetToSeq(chosen) \in Seq(QueueTasks) /\ Len(Q!SetToSeq(chosen)) = n
  <2>1. Q!SetToSeq(chosen) \in [1 .. n -> QueueTasks]
    BY <1>4
  <2> HIDE DEF n
  <2>2. QED
    BY <1>2, <2>1
<1>6. QED
  BY <1>1, <1>4, <1>5 DEF Q!IsInjective

LEMMA CountsAre ==
  ASSUME QueueTypes
  PROVE  /\ IsFiniteSet(Waiting) /\ Cardinality(Waiting) \in Nat
         /\ Cardinality(Waiting) <= Q!WorkerCount
         /\ IsFiniteSet(Busy) /\ Cardinality(Busy) \in Nat
         /\ Cardinality(Busy) <= Q!WorkerCount
<1>1. IsFiniteSet(Q!Workers) /\ Cardinality(Q!Workers) = Q!WorkerCount
  BY WorkersAre DEF QueueTypes
<1>2. Waiting \in SUBSET Q!Workers /\ Busy \in SUBSET Q!Workers
  BY DEF Waiting, Busy
<1>3. QED
  BY <1>1, <1>2, FS_Subset, FS_CardinalityType

LEMMA BusyIs ==
  ASSUME QueueTypes, NEW w \in Q!Workers, w \notin Busy
  PROVE  Cardinality(Busy) + 1 <= Q!WorkerCount
<1>1. IsFiniteSet(Q!Workers) /\ Cardinality(Q!Workers) = Q!WorkerCount
  BY WorkersAre DEF QueueTypes
<1>2. Busy \cup {w} \in SUBSET Q!Workers
  BY DEF Busy
<1>3. Cardinality(Busy \cup {w}) <= Q!WorkerCount
  BY <1>1, <1>2, FS_Subset
<1>4. IsFiniteSet(Busy)
  BY CountsAre
<1>5. Cardinality(Busy \cup {w}) = Cardinality(Busy) + 1
  BY <1>4, FS_AddElement
<1>6. QED
  BY <1>3, <1>5

(* One worker goes to another place: the counts follow. *)
Counted(w, p) ==
  /\ Cardinality(Busy') = Cardinality(Busy \ {w})
                          + (IF p \in {"started", "running", "ran"} THEN 1 ELSE 0)
  /\ Cardinality(Busy) = Cardinality(Busy \ {w}) + (IF w \in Busy THEN 1 ELSE 0)
  /\ Cardinality(Busy \ {w}) \in Nat
  /\ Cardinality(Waiting') = Cardinality(Waiting \ {w}) + (IF p # "returned" THEN 1 ELSE 0)
  /\ Cardinality(Waiting) = Cardinality(Waiting \ {w}) + (IF w \in Waiting THEN 1 ELSE 0)
  /\ Cardinality(Waiting \ {w}) \in Nat

LEMMA WorkerGoes ==
  ASSUME QueueTypes, worker \in [Q!Workers -> Held], UNCHANGED selected,
         NEW w \in Q!Workers, NEW p, NEW t, NEW s,
         [pc |-> p, task |-> t, status |-> s] \in Held, Q!Goes(w, p, t, s)
  PROVE  /\ Q!WorkerCount' = Q!WorkerCount
         /\ Q!Workers' = Q!Workers
         /\ worker' \in [Q!Workers -> Held]
         /\ worker'[w] = [pc |-> p, task |-> t, status |-> s]
         /\ \A v \in Q!Workers : v # w => worker'[v] = worker[v]
         /\ Counted(w, p)
<1>1. Q!WorkerCount' = Q!WorkerCount /\ Q!Workers' = Q!Workers
  BY DEF Q!WorkerCount, Q!Workers
<1>2. /\ worker' \in [Q!Workers -> Held]
      /\ worker'[w] = [pc |-> p, task |-> t, status |-> s]
      /\ \A v \in Q!Workers : v # w => worker'[v] = worker[v]
  BY DEF Q!Goes
<1>3. Busy' = IF p \in {"started", "running", "ran"} THEN (Busy \ {w}) \cup {w} ELSE Busy \ {w}
  BY <1>1, <1>2 DEF Busy
<1>4. Waiting' = IF p # "returned" THEN (Waiting \ {w}) \cup {w} ELSE Waiting \ {w}
  BY <1>1, <1>2 DEF Waiting
<1>5. IsFiniteSet(Busy \ {w}) /\ IsFiniteSet(Waiting \ {w})
  BY CountsAre, FS_RemoveElement
<1>6. /\ Cardinality((Busy \ {w}) \cup {w}) = Cardinality(Busy \ {w}) + 1
      /\ Cardinality((Waiting \ {w}) \cup {w}) = Cardinality(Waiting \ {w}) + 1
      /\ Cardinality(Busy \ {w}) \in Nat /\ Cardinality(Waiting \ {w}) \in Nat
  BY <1>5, FS_AddElement, FS_CardinalityType
<1>7. /\ Cardinality(Busy \ {w}) = IF w \in Busy THEN Cardinality(Busy) - 1 ELSE Cardinality(Busy)
      /\ Cardinality(Waiting \ {w})
           = IF w \in Waiting THEN Cardinality(Waiting) - 1 ELSE Cardinality(Waiting)
      /\ Cardinality(Busy) \in Nat /\ Cardinality(Waiting) \in Nat
  BY CountsAre, FS_RemoveElement
<1>8. /\ Cardinality(Busy') = Cardinality(Busy \ {w})
                             + (IF p \in {"started", "running", "ran"} THEN 1 ELSE 0)
      /\ Cardinality(Waiting') = Cardinality(Waiting \ {w}) + (IF p # "returned" THEN 1 ELSE 0)
  BY <1>3, <1>4, <1>6
<1>9. /\ Cardinality(Busy) = Cardinality(Busy \ {w}) + (IF w \in Busy THEN 1 ELSE 0)
      /\ Cardinality(Waiting) = Cardinality(Waiting \ {w}) + (IF w \in Waiting THEN 1 ELSE 0)
  BY <1>7
<1>10. QED
  BY <1>1, <1>2, <1>6, <1>8, <1>9 DEF Counted
--------------------
LEMMA QueueBegins == Q!Init => QueueInv
<1> SUFFICES ASSUME Q!Init  PROVE QueueInv
  OBVIOUS
<1>1. /\ selected = <<>> /\ Len(selected) = 0 /\ Len(selected) <= Cardinality(QueueTasks)
      /\ Concurrency \in Nat \ {0} /\ Q!WorkerCount = 0
  BY QueueAssumed, FS_CardinalityType DEF Q!Init, Q!WorkerCount
<1>2. QueueTypes
  BY <1>1, QueueAssumed DEF Q!Init, QueueTypes, Q!NoStates
<1>3. QED
  BY <1>2 DEF Q!Init, QueueInv, QueueFilled, QueueWorked, QueueOrdered, QueueApart, QueueKept,
              QueueReported

WorkerStep(w) ==
  Q!Get(w) \/ Q!MarkStarted(w) \/ Q!RunOne(w) \/ Q!MarkFinished(w) \/ Q!Mirror(w) \/ Q!AddOutcome(w)

LEMMA QueueTypesStay ==
  ASSUME QueueInv, [Q!Next]_(Q!vars)
  PROVE  QueueTypes'
<1> USE QueueAssumed DEF QueueInv
<1>1. Len(selected) \in Nat /\ Q!WorkerCount \in Nat /\ Q!WorkerCount <= Concurrency
  BY WorkersAre DEF QueueTypes
<1>2. CASE Q!Run
  <2>1. PICK chosen \in SUBSET QueueTasks : selected' = Q!SetToSeq(chosen)
    BY <1>2 DEF Q!Run
  <2>2. /\ selected' \in Seq(QueueTasks) /\ Len(selected') <= Cardinality(QueueTasks)
        /\ \A i, j \in DOMAIN selected' : selected'[i] = selected'[j] => i = j
    BY <2>1, SelectionIs
  <2>3. Q!WorkerCount' \in Nat /\ Len(selected') \in Nat
    BY <2>2 DEF Q!WorkerCount
  <2>4. list' \in Seq(QueueTasks \cup {Q!Stop})
    BY <1>2 DEF Q!Run, QueueTypes
  <2>5. QED
    BY <1>2, <2>2, <2>3, <2>4 DEF Q!Run, QueueTypes, Q!NoStates
<1>3. CASE Q!Enqueue
  <2>1. selected[sent + 1] \in QueueTasks
    BY <1>3 DEF Q!Enqueue, QueueTypes
  <2>2. DOMAIN states' \subseteq QueueTasks /\ list' \in Seq(QueueTasks \cup {Q!Stop})
    BY <1>3, <2>1 DEF Q!Enqueue, QueueTypes, Q!Put
  <2>3. sent' <= Len(selected') + Q!WorkerCount' /\ sent' \in Nat
    BY <1>1, <1>3 DEF Q!Enqueue, QueueTypes, Q!WorkerCount
  <2>4. QED
    BY <1>3, <2>2, <2>3 DEF Q!Enqueue, QueueTypes
<1>4. CASE Q!CloseForWorkers
  <2>1. sent' <= Len(selected') + Q!WorkerCount' /\ sent' \in Nat
    BY <1>1, <1>4 DEF Q!CloseForWorkers, QueueTypes, Q!WorkerCount, Q!StopItems
  <2>2. QED
    BY <1>4, <2>1 DEF Q!CloseForWorkers, QueueTypes
<1>5. CASE Q!Gather \/ Q!Report \/ UNCHANGED Q!vars
  BY <1>5 DEF Q!Gather, Q!Report, QueueTypes, Q!WorkerCount, Q!vars
<1>6. CASE Q!Fails
  BY <1>6 DEF Q!Fails, QueueTypes, Q!WorkerCount
<1>7. ASSUME NEW w \in DOMAIN worker, WorkerStep(w)  PROVE QueueTypes'
  <2>1. /\ phase = "work"
        /\ w \in Q!Workers
        /\ worker \in [Q!Workers -> Held]
        /\ worker[w] \in Held
        /\ worker[w].pc \in Free <=> worker[w].task = Q!None
        /\ active = Cardinality(Busy)
    BY <1>7 DEF WorkerStep, Q!Get, Q!MarkStarted, Q!RunOne, Q!MarkFinished, Q!Mirror,
       Q!AddOutcome, Q!At, QueueWorked
  <2>2. CASE Q!Get(w)
    BY <2>2, HeadTailProperties DEF Q!Get, QueueTypes, Q!WorkerCount
  <2>3. CASE Q!MarkStarted(w)
    <3>1. w \notin Busy /\ worker[w].task \in QueueTasks
      BY <2>1, <2>3 DEF Q!MarkStarted, Q!At, Busy, Free, Held
    <3>2. active + 1 <= Concurrency
      BY <1>1, <2>1, <3>1, BusyIs, CountsAre
    <3>3. active' \in 0 .. Concurrency /\ highest' \in active' .. Concurrency
      BY <2>3, <3>2 DEF Q!MarkStarted, QueueTypes
    <3>4. DOMAIN states' \subseteq QueueTasks
      BY <2>3, <3>1 DEF Q!MarkStarted, QueueTypes, Q!Put
    <3>5. QED
      BY <2>3, <3>3, <3>4 DEF Q!MarkStarted, QueueTypes, Q!WorkerCount
  <2>4. CASE Q!MarkFinished(w)
    <3>1. worker[w].task \in QueueTasks
      BY <2>1, <2>4 DEF Q!MarkFinished, Q!At, Free, Held
    <3>2. active' \in 0 .. Concurrency /\ highest' \in active' .. Concurrency
      BY <2>4 DEF Q!MarkFinished, QueueTypes
    <3>3. DOMAIN states' \subseteq QueueTasks
      BY <2>4, <3>1 DEF Q!MarkFinished, QueueTypes, Q!Put
    <3>4. QED
      BY <2>4, <3>2, <3>3 DEF Q!MarkFinished, QueueTypes, Q!WorkerCount
  <2>5. CASE Q!RunOne(w) \/ Q!Mirror(w) \/ Q!AddOutcome(w)
    BY <2>5 DEF Q!RunOne, Q!Mirror, Q!AddOutcome, QueueTypes, Q!WorkerCount
  <2>6. QED
    BY <1>7, <2>2, <2>3, <2>4, <2>5 DEF WorkerStep
<1>8. QED
  BY <1>2, <1>3, <1>4, <1>5, <1>6, <1>7 DEF Q!Next, WorkerStep

LEMMA QueueFilledStays ==
  ASSUME QueueInv, [Q!Next]_(Q!vars)
  PROVE  QueueFilled'
<1> USE QueueAssumed DEF QueueInv
<1>1. Len(selected) \in Nat /\ Q!WorkerCount \in Nat
  BY WorkersAre DEF QueueTypes
<1>2. CASE Q!Run
  <2>1. list' \in Seq(QueueTasks \cup {Q!Stop}) /\ Len(selected') \in Nat
    BY <1>2, QueueTypesStay DEF QueueTypes
  <2>2. Cardinality(Ends(list')) \in Nat
    BY <2>1, EndsOfAppend, Q!Stop \in QueueTasks \cup {Q!Stop}
  <2>3. sent' = 0 /\ active' = 0 /\ (clean' => list' = <<>>)
    BY <1>2 DEF Q!Run
  <2>4. clean' => Len(list') = sent' /\ \A i \in 1 .. sent' : list'[i] = Item(i)'
    BY <2>3
  <2>5. sent' - Len(selected') <= Cardinality(Ends(list'))
    BY <2>1, <2>2, <2>3
  <2>6. QED
    BY <2>3, <2>4, <2>5 DEF QueueFilled
<1>3. CASE Q!Enqueue
  <2> DEFINE t == selected[sent + 1]
  <2>1. /\ t \in QueueTasks
        /\ t # Q!Stop
        /\ list \in Seq(QueueTasks \cup {Q!Stop})
        /\ list' = Append(list, t)
    BY <1>3 DEF Q!Enqueue, QueueTypes
  <2>2. Cardinality(Ends(list)) \in Nat /\ Cardinality(Ends(list')) = Cardinality(Ends(list))
    BY <2>1, EndsOfAppend
  <2>3. clean' => Len(list') = sent' /\ \A i \in 1 .. sent' : list'[i] = Item(i)'
    BY <1>3, <2>1 DEF Q!Enqueue, QueueFilled, QueueTypes, Item
  <2>4. QED
    BY <1>1, <1>3, <2>2, <2>3 DEF Q!Enqueue, QueueFilled, QueueTypes
<1>4. CASE Q!CloseForWorkers
  <2>1. list \in Seq(QueueTasks \cup {Q!Stop}) /\ list' = Append(list, Q!Stop)
    BY <1>4 DEF Q!CloseForWorkers, QueueTypes
  <2>2. Cardinality(Ends(list)) \in Nat /\ Cardinality(Ends(list')) = Cardinality(Ends(list)) + 1
    BY <2>1, EndsOfAppend, Q!Stop \in QueueTasks \cup {Q!Stop}
  <2>3. clean' => Len(list') = sent' /\ \A i \in 1 .. sent' : list'[i] = Item(i)'
    BY <1>4, <2>1 DEF Q!CloseForWorkers, QueueFilled, QueueTypes, Item
  <2>4. QED
    BY <1>1, <1>4, <2>2, <2>3 DEF Q!CloseForWorkers, QueueFilled, QueueTypes
<1>5. CASE UNCHANGED Q!vars
  BY <1>5 DEF Q!vars, QueueFilled, Item
<1>6. CASE phase' # "enqueue"
  BY <1>6 DEF QueueFilled
<1>7. QED
  BY <1>2, <1>3, <1>4, <1>5, <1>6
     DEF Q!Next, Q!Gather, Q!Report, Q!Fails, Q!Get, Q!MarkStarted, Q!RunOne, Q!MarkFinished,
        Q!Mirror, Q!AddOutcome, Q!At

(* Where a worker's step starts and goes. *)
LEMMA WorkerSteps ==
  ASSUME QueueInv, NEW w \in DOMAIN worker, WorkerStep(w)
  PROVE  /\ phase = "work" /\ phase' = "work" /\ w \in Q!Workers /\ worker[w] \in Held
         /\ worker \in [Q!Workers -> Held]
         /\ worker[w].pc \in Free <=> worker[w].task = Q!None
         /\ \E p, t, s : [pc |-> p, task |-> t, status |-> s] \in Held /\ Q!Goes(w, p, t, s)
         /\ worker' \in [Q!Workers -> Held]
         /\ \A v \in Q!Workers : v # w => worker'[v] = worker[v]
         /\ UNCHANGED <<backend, selected, clean, Q!WorkerCount, Q!Workers, report>>
<1>1. /\ phase = "work" /\ phase' = "work" /\ w \in Q!Workers /\ worker \in [Q!Workers -> Held]
      /\ UNCHANGED <<backend, selected, clean, report>>
  BY DEF WorkerStep, Q!Get, Q!MarkStarted, Q!RunOne, Q!MarkFinished, Q!Mirror, Q!AddOutcome,
     Q!At, QueueWorked, QueueInv
<1>2. /\ worker[w] \in Held
      /\ worker[w].pc \in Free <=> worker[w].task = Q!None
  BY <1>1 DEF QueueWorked, QueueInv
<1>3. \E p, t, s : [pc |-> p, task |-> t, status |-> s] \in Held /\ Q!Goes(w, p, t, s)
  <2>1. CASE Q!Get(w)
    <3>1. Head(list) \in QueueTasks \cup {Q!Stop}
      BY <2>1 DEF Q!Get, QueueInv, QueueTypes
    <3>2. CASE Head(list) = Q!Stop
      <4>1. Q!Goes(w, "returned", Q!None, Q!None)
        BY <2>1, <3>2 DEF Q!Get
      <4>2. QED
        BY <4>1 DEF Held
    <3>3. CASE Head(list) # Q!Stop
      <4>1. Q!Goes(w, "taken", Head(list), Q!None)
        BY <2>1, <3>3 DEF Q!Get
      <4>2. QED
        BY <3>1, <3>3, <4>1 DEF Held
    <3>4. QED
      BY <3>2, <3>3
  <2>2. CASE Q!MarkStarted(w)
    BY <1>2, <2>2 DEF Q!MarkStarted, Held
  <2>3. CASE Q!RunOne(w)
    <3>1. PICK s \in Results : Q!Goes(w, "ran", worker[w].task, s)
      BY <2>3 DEF Q!RunOne
    <3>2. QED
      BY <1>2, <3>1 DEF Held
  <2>4. CASE Q!MarkFinished(w)
    BY <1>2, <2>4 DEF Q!MarkFinished, Held
  <2>5. CASE Q!Mirror(w)
    BY <1>2, <2>5 DEF Q!Mirror, Held
  <2>6. CASE Q!AddOutcome(w)
    BY <1>2, <2>6 DEF Q!AddOutcome, Held
  <2>7. QED
    BY <2>1, <2>2, <2>3, <2>4, <2>5, <2>6 DEF WorkerStep
<1>4. PICK p, t, s : [pc |-> p, task |-> t, status |-> s] \in Held /\ Q!Goes(w, p, t, s)
  BY <1>3
<1>5. /\ Q!WorkerCount' = Q!WorkerCount
      /\ Q!Workers' = Q!Workers
      /\ worker' \in [Q!Workers -> Held]
      /\ \A v \in Q!Workers : v # w => worker'[v] = worker[v]
  BY <1>1, <1>4, WorkerGoes DEF QueueInv
<1>6. QED
  BY <1>1, <1>2, <1>3, <1>5

LEMMA QueueWorkedStays ==
  ASSUME QueueInv, [Q!Next]_(Q!vars)
  PROVE  QueueWorked'
<1> USE QueueAssumed
<1>1. Len(selected) \in Nat /\ Q!WorkerCount \in Nat
  BY WorkersAre DEF QueueTypes, QueueInv
<1>2. CASE Q!Gather
  <2>1. /\ phase = "enqueue" /\ sent = Len(selected) + Q!WorkerCount
        /\ Q!WorkerCount' = Q!WorkerCount /\ Q!Workers' = Q!Workers /\ list' = list /\ active' = 0
        /\ worker' = [w \in Q!Workers |-> [pc |-> "get", task |-> Q!None, status |-> Q!None]]
        /\ outcomes' = [w \in Q!Workers |-> <<>>]
    BY <1>2 DEF Q!Gather, Q!StopItems, QueueFilled, QueueInv, Q!WorkerCount, Q!Workers
  <2>2. Busy' = {} /\ Waiting' = Q!Workers
    BY <2>1 DEF Busy, Waiting
  <2>3. Cardinality(Busy') = 0 /\ Cardinality(Waiting') = Q!WorkerCount
    BY <2>2, FS_EmptySet, WorkersAre DEF QueueTypes, QueueInv
  <2>4. Cardinality(Waiting') <= Cardinality(Ends(list'))
    <3>1. sent - Len(selected) <= Cardinality(Ends(list))
      BY <2>1 DEF QueueFilled, QueueInv
    <3>2. QED
      BY <1>1, <2>1, <2>3, <3>1
  <2>5. worker' \in [Q!Workers -> Held]
    BY <2>1 DEF Held
  <2>6. QED
    <3>1. <<>> \in Returns
      BY DEF Returns
    <3>2. outcomes' \in [Q!Workers' -> Returns]
      BY <2>1, <3>1
    <3>3. QED
      BY <2>1, <2>3, <2>4, <2>5, <3>2 DEF QueueWorked, Free
<1>3. ASSUME NEW w \in DOMAIN worker, WorkerStep(w)  PROVE QueueWorked'
  <2>1. /\ phase = "work"
        /\ w \in Q!Workers
        /\ worker \in [Q!Workers -> Held]
        /\ worker[w] \in Held
        /\ worker[w].pc \in Free <=> worker[w].task = Q!None
        /\ worker' \in [Q!Workers -> Held] /\ \A v \in Q!Workers : v # w => worker'[v] = worker[v]
        /\ Q!Workers' = Q!Workers
    BY <1>3, WorkerSteps
  <2>2. /\ outcomes \in [Q!Workers -> Returns]
        /\ \A v \in Q!Workers : worker[v].pc \in Free <=> worker[v].task = Q!None
        /\ active = Cardinality(Busy) /\ Cardinality(Waiting) <= Cardinality(Ends(list))
        /\ active \in Nat
        /\ list \in Seq(QueueTasks \cup {Q!Stop})
        /\ Cardinality(Ends(list)) \in Nat
    <3>1. list \in Seq(QueueTasks \cup {Q!Stop}) /\ active \in Nat
      BY DEF QueueInv, QueueTypes
    <3>2. Cardinality(Ends(list)) \in Nat
      BY <3>1, EndsOfAppend, Q!Stop \in QueueTasks \cup {Q!Stop}
    <3>3. QED
      BY <2>1, <3>1, <3>2 DEF QueueWorked, QueueInv
  <2>3. ASSUME NEW p, NEW t, NEW s, [pc |-> p, task |-> t, status |-> s] \in Held,
               Q!Goes(w, p, t, s)
        PROVE  worker'[w] = [pc |-> p, task |-> t, status |-> s] /\ Counted(w, p)
    <3>1. UNCHANGED selected
      BY <1>3, WorkerSteps
    <3>2. QED
      BY <2>1, <2>3, <3>1, WorkerGoes DEF QueueInv
  <2>4. w \in Waiting <=> worker[w].pc # "returned"
    BY <2>1 DEF Waiting
  <2>5. w \in Busy <=> worker[w].pc \in {"started", "running", "ran"}
    BY <2>1 DEF Busy
  <2> DEFINE Same == /\ outcomes' \in [Q!Workers -> Returns]
                     /\ worker'[w].pc \in Free <=> worker'[w].task = Q!None
                     /\ active' = Cardinality(Busy')
                     /\ Cardinality(Waiting') <= Cardinality(Ends(list'))
  <2>6. ASSUME Q!Get(w)  PROVE Same
    <3>1. /\ list # <<>> /\ list' = Tail(list) /\ outcomes' = outcomes /\ active' = active
          /\ worker[w].pc = "get"
      BY <2>6 DEF Q!Get, Q!At
    <3>2. Cardinality(Ends(list')) = Cardinality(Ends(list)) - (IF Head(list) = Q!Stop THEN 1 ELSE 0)
      BY <2>2, <3>1, EndsOfTail
    <3>3. CASE Head(list) = Q!Stop
      <4>1. /\ Q!Goes(w, "returned", Q!None, Q!None)
            /\ [pc |-> "returned", task |-> Q!None, status |-> Q!None] \in Held
        BY <2>6, <3>3 DEF Q!Get, Held
      <4>2. /\ worker'[w] = [pc |-> "returned", task |-> Q!None, status |-> Q!None]
            /\ Cardinality(Busy') = Cardinality(Busy)
            /\ Cardinality(Waiting') = Cardinality(Waiting) - 1 /\ Cardinality(Waiting) \in Nat
        <5>1. w \in Waiting /\ w \notin Busy
          BY <2>4, <2>5, <3>1
        <5>2. QED
          BY <2>3, <4>1, <5>1 DEF Counted
      <4>3. QED
        BY <2>2, <3>1, <3>2, <3>3, <4>2 DEF Free
    <3>4. CASE Head(list) # Q!Stop
      <4>1. Head(list) \in QueueTasks
        BY <2>2, <3>1, <3>4
      <4>2. /\ Q!Goes(w, "taken", Head(list), Q!None)
            /\ [pc |-> "taken", task |-> Head(list), status |-> Q!None] \in Held
        BY <2>6, <3>4, <4>1 DEF Q!Get, Held
      <4>3. /\ worker'[w] = [pc |-> "taken", task |-> Head(list), status |-> Q!None]
            /\ Cardinality(Busy') = Cardinality(Busy)
            /\ Cardinality(Waiting') = Cardinality(Waiting) /\ Cardinality(Waiting) \in Nat
        <5>1. w \in Waiting /\ w \notin Busy
          BY <2>4, <2>5, <3>1
        <5>2. QED
          BY <2>3, <4>2, <5>1 DEF Counted
      <4>4. worker'[w].pc \notin Free /\ worker'[w].task # Q!None
        BY <4>1, <4>3, QueueAssumed DEF Free
      <4>5. Cardinality(Waiting') <= Cardinality(Ends(list'))
        BY <2>2, <3>2, <3>4, <4>3
      <4>6. QED
        BY <2>2, <3>1, <4>3, <4>4, <4>5
    <3>5. QED
      BY <3>3, <3>4
  <2>7. ASSUME Q!MarkStarted(w)  PROVE Same
    <3>1. /\ list' = list /\ outcomes' = outcomes /\ active' = active + 1
          /\ worker[w].pc = "taken"
      BY <2>7 DEF Q!MarkStarted, Q!At
    <3>2. PICK p \in {"started", "running"} : Q!Goes(w, p, worker[w].task, Q!None)
      BY <2>7 DEF Q!MarkStarted
    <3>3. [pc |-> p, task |-> worker[w].task, status |-> Q!None] \in Held
      BY <2>1 DEF Held
    <3>4. /\ worker'[w] = [pc |-> p, task |-> worker[w].task, status |-> Q!None]
          /\ Cardinality(Busy') = Cardinality(Busy) + 1
          /\ Cardinality(Waiting') = Cardinality(Waiting)
      BY <2>3, <2>4, <2>5, <3>1, <3>2, <3>3 DEF Counted
    <3>5. QED
      BY <2>1, <2>2, <3>1, <3>2, <3>4 DEF Free
  <2>8. ASSUME Q!RunOne(w)  PROVE Same
    <3>1. /\ list' = list /\ outcomes' = outcomes /\ active' = active
          /\ worker[w].pc = "running"
      BY <2>8 DEF Q!RunOne, Q!At
    <3>2. PICK s \in Results : Q!Goes(w, "ran", worker[w].task, s)
      BY <2>8 DEF Q!RunOne
    <3>3. [pc |-> "ran", task |-> worker[w].task, status |-> s] \in Held
      BY <2>1 DEF Held
    <3>4. /\ worker'[w] = [pc |-> "ran", task |-> worker[w].task, status |-> s]
          /\ Cardinality(Busy') = Cardinality(Busy)
          /\ Cardinality(Waiting') = Cardinality(Waiting)
      BY <2>3, <2>4, <2>5, <3>1, <3>2, <3>3 DEF Counted
    <3>5. QED
      BY <2>1, <2>2, <3>1, <3>2, <3>4 DEF Free
  <2>9. ASSUME Q!MarkFinished(w)  PROVE Same
    <3>1. /\ list' = list /\ outcomes' = outcomes
          /\ active' = (IF active > 0 THEN active - 1 ELSE 0)
          /\ worker[w].pc = "ran" /\ Q!Goes(w, "finished", worker[w].task, worker[w].status)
      BY <2>9 DEF Q!MarkFinished, Q!At
    <3>2. [pc |-> "finished", task |-> worker[w].task, status |-> worker[w].status] \in Held
      BY <2>1 DEF Held
    <3>3. /\ worker'[w] = [pc |-> "finished", task |-> worker[w].task, status |-> worker[w].status]
          /\ Cardinality(Busy') = Cardinality(Busy) - 1 /\ Cardinality(Busy') \in Nat
          /\ Cardinality(Waiting') = Cardinality(Waiting)
      BY <2>3, <2>4, <2>5, <3>1, <3>2 DEF Counted
    <3>4. QED
      BY <2>1, <2>2, <3>1, <3>3 DEF Free
  <2>10. ASSUME Q!Mirror(w)  PROVE Same
    <3>1. /\ list' = list /\ outcomes' = outcomes /\ active' = active
          /\ worker[w].pc = "started" /\ Q!Goes(w, "running", worker[w].task, Q!None)
      BY <2>10 DEF Q!Mirror, Q!At
    <3>2. [pc |-> "running", task |-> worker[w].task, status |-> Q!None] \in Held
      BY <2>1 DEF Held
    <3>3. /\ worker'[w] = [pc |-> "running", task |-> worker[w].task, status |-> Q!None]
          /\ Cardinality(Busy') = Cardinality(Busy)
          /\ Cardinality(Waiting') = Cardinality(Waiting)
      BY <2>3, <2>4, <2>5, <3>1, <3>2 DEF Counted
    <3>4. QED
      BY <2>1, <2>2, <3>1, <3>3 DEF Free
  <2>11. ASSUME Q!AddOutcome(w)  PROVE Same
    <3>1. /\ list' = list /\ active' = active /\ worker[w].pc = "finished"
          /\ outcomes' = [outcomes EXCEPT ![w] = Append(@, Q!Outcome(w))]
          /\ Q!Goes(w, "get", Q!None, Q!None)
      BY <2>11 DEF Q!AddOutcome, Q!At
    <3>2. [pc |-> "get", task |-> Q!None, status |-> Q!None] \in Held
      BY DEF Held
    <3>3. /\ worker'[w] = [pc |-> "get", task |-> Q!None, status |-> Q!None]
          /\ Cardinality(Busy') = Cardinality(Busy)
          /\ Cardinality(Waiting') = Cardinality(Waiting)
      BY <2>3, <2>4, <2>5, <3>1, <3>2 DEF Counted
    <3>4. Q!Outcome(w) \in [task : QueueTasks, status : Results \cup {Q!None}]
      BY <2>1, <3>1 DEF Q!Outcome, Held, Free
    <3>5. outcomes' \in [Q!Workers -> Returns]
      <4>1. Append(outcomes[w], Q!Outcome(w)) \in Returns
        <5>1. outcomes[w] \in Returns
          BY <2>1, <2>2
        <5>2. QED
          BY <3>4, <5>1, AppendProperties DEF Returns
      <4>2. QED
        BY <2>2, <3>1, <4>1
    <3>6. QED
      BY <2>1, <2>2, <3>1, <3>3, <3>5 DEF Free
  <2>12. Same
    BY <1>3, <2>6, <2>7, <2>8, <2>9, <2>10, <2>11 DEF WorkerStep
  <2>13. QED
    BY <2>1, <2>2, <2>12 DEF QueueWorked
<1>4. CASE UNCHANGED Q!vars
  BY <1>4 DEF Q!vars, QueueWorked, QueueInv, Busy, Waiting, Q!Workers, Q!WorkerCount
<1>5. CASE phase' # "work"
  BY <1>5 DEF QueueWorked
<1>6. QED
  BY <1>2, <1>3, <1>4, <1>5 DEF Q!Next, WorkerStep, Q!Run, Q!Enqueue, Q!CloseForWorkers,
     Q!Report, Q!Fails

(* What a worker does with the request that it has. *)
LEMMA OwnRequest ==
  ASSUME QueueInv, NEW w \in DOMAIN worker, WorkerStep(w), ~Q!Get(w)
  PROVE  /\ list' = list /\ Waiting' = Waiting /\ Taken' = Taken /\ worker[w].task \in QueueTasks
         /\ Q!AddOutcome(w) \/ (worker'[w].task = worker[w].task /\ outcomes' = outcomes)
<1>1. /\ w \in Q!Workers
      /\ worker[w] \in Held
      /\ worker \in [Q!Workers -> Held]
      /\ Q!Workers' = Q!Workers
      /\ worker[w].pc \in Free <=> worker[w].task = Q!None
      /\ worker' \in [Q!Workers -> Held] /\ \A v \in Q!Workers : v # w => worker'[v] = worker[v]
      /\ selected' = selected /\ Q!WorkerCount' = Q!WorkerCount
  BY WorkerSteps
<1>2. /\ list' = list /\ worker[w].pc \notin Free /\ worker'[w].pc # "returned"
      /\ Q!AddOutcome(w) \/ (worker'[w].task = worker[w].task /\ outcomes' = outcomes)
  BY <1>1 DEF WorkerStep, Q!MarkStarted, Q!RunOne, Q!MarkFinished, Q!Mirror, Q!AddOutcome, Q!At,
     Q!Goes, Free
<1>3. Waiting' = Waiting
  BY <1>1, <1>2 DEF Waiting, Free
<1>4. QED
  BY <1>1, <1>2, <1>3 DEF Taken, Held

LEMMA QueueOrderedStays ==
  ASSUME QueueInv, [Q!Next]_(Q!vars)
  PROVE  QueueOrdered'
<1> USE QueueAssumed
<1>1. /\ Len(selected) \in Nat /\ Q!WorkerCount \in Nat /\ list \in Seq(QueueTasks \cup {Q!Stop})
      /\ selected \in Seq(QueueTasks) /\ Cardinality(Waiting) \in Nat
  BY WorkersAre, CountsAre DEF QueueTypes, QueueInv
<1>2. CASE Q!Gather
  <2>1. /\ phase = "enqueue" /\ sent = Len(selected) + Q!WorkerCount
        /\ Q!WorkerCount' = Q!WorkerCount
        /\ Q!Workers' = Q!Workers
        /\ list' = list
        /\ selected' = selected
        /\ worker' = [w \in Q!Workers |-> [pc |-> "get", task |-> Q!None, status |-> Q!None]]
        /\ clean' = clean
    BY <1>2 DEF Q!Gather, Q!StopItems, Q!WorkerCount, Q!Workers
  <2>2. Waiting' = Q!Workers
    BY <2>1 DEF Waiting
  <2>3. Cardinality(Waiting') = Q!WorkerCount
    BY <2>2, WorkersAre DEF QueueTypes, QueueInv
  <2>4. clean => Len(list) = sent /\ \A i \in 1 .. sent : list[i] = Item(i)
    BY <2>1 DEF QueueFilled, QueueInv
  <2>5. ASSUME clean
        PROVE  /\ Taken' = 0 /\ Len(list') = Len(selected') + Q!WorkerCount'
               /\ \A i \in DOMAIN list' : list'[i] = Item(Taken + i)'
    BY <1>1, <2>1, <2>4, <2>5 DEF Taken, Item
  <2>6. QED
    BY <1>1, <2>1, <2>3, <2>5 DEF QueueOrdered
<1>3. ASSUME NEW w \in DOMAIN worker, WorkerStep(w), clean  PROVE QueueOrdered'
  <2>1. /\ phase = "work"
        /\ w \in Q!Workers
        /\ worker \in [Q!Workers -> Held]
        /\ worker[w] \in Held
        /\ selected' = selected /\ Q!WorkerCount' = Q!WorkerCount
    BY <1>3, WorkerSteps
  <2>2. /\ Len(list) <= Len(selected) + Q!WorkerCount
        /\ \A i \in DOMAIN list : list[i] = Item(Taken + i)
        /\ Cardinality(Waiting) = IF Len(list) < Q!WorkerCount THEN Len(list) ELSE Q!WorkerCount
    BY <1>3, <2>1 DEF QueueOrdered, QueueInv
  <2>3. ASSUME NEW p, NEW t, NEW s, [pc |-> p, task |-> t, status |-> s] \in Held,
               Q!Goes(w, p, t, s)
        PROVE  Counted(w, p)
    BY <2>1, <2>3, WorkerGoes DEF QueueInv
  <2>4. CASE Q!Get(w)
    <3>1. /\ list # <<>> /\ list' = Tail(list) /\ worker[w].pc = "get"
      BY <2>4 DEF Q!Get, Q!At
    <3>2. /\ Len(list') = Len(list) - 1 /\ Len(list) \in Nat \ {0} /\ DOMAIN list = 1 .. Len(list)
          /\ \A i \in DOMAIN list' : i \in Nat /\ i + 1 \in DOMAIN list /\ list'[i] = list[i + 1]
          /\ Head(list) = Item(Taken + 1) /\ Taken' = Taken + 1
      BY <1>1, <2>1, <2>2, <3>1, HeadTailProperties DEF Taken
    <3>3. \A i \in DOMAIN list' : list'[i] = Item(Taken + i)'
      <4>1. ASSUME NEW i \in DOMAIN list'  PROVE list'[i] = Item(Taken + i)'
        <5>1. list'[i] = Item(Taken + (i + 1))
          BY <2>2, <3>2
        <5>2. Taken + (i + 1) = Taken' + i
          BY <1>1, <3>2 DEF Taken
        <5>3. QED
          BY <2>1, <5>1, <5>2 DEF Item
      <4>2. QED
        BY <4>1
    <3>4. w \in Waiting
      BY <2>1, <3>1 DEF Waiting
    <3>5. CASE Head(list) = Q!Stop
      <4>1. /\ Q!Goes(w, "returned", Q!None, Q!None)
            /\ [pc |-> "returned", task |-> Q!None, status |-> Q!None] \in Held
        BY <2>4, <3>5 DEF Q!Get, Held
      <4>2. Cardinality(Waiting') = Cardinality(Waiting) - 1
        BY <2>3, <3>4, <4>1 DEF Counted
      <4>3. Len(list) <= Q!WorkerCount
        BY <1>1, <2>2, <3>2, <3>5 DEF Item, Taken
      <4>4. QED
        BY <1>1, <2>1, <2>2, <3>2, <3>3, <4>2, <4>3 DEF QueueOrdered
    <3>6. CASE Head(list) # Q!Stop
      <4>1. Head(list) \in QueueTasks
        BY <1>1, <3>1, <3>6
      <4>2. /\ Q!Goes(w, "taken", Head(list), Q!None)
            /\ [pc |-> "taken", task |-> Head(list), status |-> Q!None] \in Held
        BY <2>4, <3>6, <4>1 DEF Q!Get, Held
      <4>3. Cardinality(Waiting') = Cardinality(Waiting)
        BY <2>3, <3>4, <4>2 DEF Counted
      <4>4. Len(list) > Q!WorkerCount
        BY <1>1, <3>2, <3>6 DEF Item, Taken
      <4>5. QED
        BY <1>1, <2>1, <2>2, <3>2, <3>3, <4>3, <4>4 DEF QueueOrdered
    <3>7. QED
      BY <3>5, <3>6
  <2>5. CASE ~Q!Get(w)
    <3>1. list' = list /\ Waiting' = Waiting /\ Taken' = Taken
      BY <1>3, <2>5, OwnRequest
    <3>2. QED
      BY <2>1, <2>2, <3>1 DEF QueueOrdered, Item
  <2>6. QED
    BY <2>4, <2>5
<1>4. CASE UNCHANGED Q!vars
  BY <1>4 DEF Q!vars, QueueOrdered, QueueInv, Waiting, Q!Workers, Q!WorkerCount, Taken, Item
<1>5. CASE phase' # "work" \/ ~clean'
  BY <1>5 DEF QueueOrdered
<1>6. QED
  <2>1. ASSUME NEW w \in DOMAIN worker, WorkerStep(w)  PROVE clean' = clean
    BY <2>1, WorkerSteps
  <2>2. QED
    BY <1>2, <1>3, <1>4, <1>5, <2>1 DEF Q!Next, WorkerStep, Q!Run, Q!Enqueue, Q!CloseForWorkers,
       Q!Report, Q!Fails

(* A step that leaves requests, outcomes and list where they are. *)
LEMMA QueueApartSame ==
  ASSUME QueueApart, phase = "work", UNCHANGED <<clean, selected, outcomes, Taken, Q!Workers>>,
         \A v \in Q!Workers : worker'[v].task = worker[v].task
  PROVE  QueueApart'
BY DEF QueueApart

LEMMA QueueApartGet ==
  ASSUME QueueInv, clean, NEW w \in DOMAIN worker, WorkerStep(w), Q!Get(w)
  PROVE  QueueApart'
<1>1. /\ phase = "work" /\ w \in Q!Workers /\ Q!Workers' = Q!Workers /\ selected' = selected
      /\ Q!WorkerCount' = Q!WorkerCount /\ \A v \in Q!Workers : v # w => worker'[v] = worker[v]
      /\ worker[w].pc = "get" /\ worker[w].task = Q!None /\ list # <<>> /\ list' = Tail(list)
      /\ outcomes' = outcomes /\ worker \in [Q!Workers -> Held]
  BY WorkerSteps DEF Q!Get, Q!At, Free
<1>2. /\ Len(selected) \in Nat /\ Q!WorkerCount \in Nat /\ list \in Seq(QueueTasks \cup {Q!Stop})
      /\ DOMAIN selected = 1 .. Len(selected)
      /\ \A k \in DOMAIN selected : selected[k] \in QueueTasks
      /\ \A j, k \in DOMAIN selected : selected[j] = selected[k] => j = k
  BY WorkersAre DEF QueueInv, QueueTypes
<1>3. /\ Taken \in Nat /\ Taken' = Taken + 1 /\ Head(list) = Item(Taken + 1)
  <2>1. /\ Len(list) <= Len(selected) + Q!WorkerCount
        /\ \A i \in DOMAIN list : list[i] = Item(Taken + i)
    BY <1>1 DEF QueueOrdered, QueueInv
  <2>2. QED
    BY <1>1, <1>2, <2>1, HeadTailProperties DEF Taken
<1>4. QueueApart
  BY DEF QueueInv
<1>5. CASE Head(list) = Q!Stop
  <2>1. worker'[w].task = Q!None
    BY <1>1, <1>5 DEF Q!Get, Q!Goes
  <2>2. \A v \in Q!Workers : worker'[v].task = worker[v].task
    BY <1>1, <2>1
  <2>3. Taken >= Len(selected)
    BY <1>2, <1>3, <1>5, QueueAssumed DEF Item
  <2>4. \A k \in DOMAIN selected : k <= Taken /\ k <= Taken'
    BY <1>2, <1>3, <2>3
  <2>5. QED
    BY <1>1, <1>4, <2>2, <2>4 DEF QueueApart
<1>6. CASE Head(list) # Q!Stop
  <2> DEFINE n == Taken + 1
  <2>1. n \in DOMAIN selected /\ Head(list) = selected[n] /\ selected[n] # Q!None
    BY <1>2, <1>3, <1>6, QueueAssumed DEF Item
  <2>2. worker'[w].task = selected[n]
    BY <1>1, <1>6, <2>1 DEF Q!Get, Q!Goes
  <2>3. \A k \in DOMAIN selected : (k <= Taken' <=> k <= Taken \/ k = n) /\ (k <= Taken => k # n)
    BY <1>2, <1>3
  <2>4. /\ \A v \in Q!Workers : worker[v].task # Q!None => worker[v].task # selected[n]
        /\ \A v \in Q!Workers : \A i \in DOMAIN outcomes[v] : outcomes[v][i].task # selected[n]
    BY <1>1, <1>2, <1>4, <2>1, <2>3 DEF QueueApart
  <2> HIDE DEF n
  <2>5. \A v \in Q!Workers : worker'[v].task # Q!None =>
          \E k \in DOMAIN selected : k <= Taken' /\ selected[k] = worker'[v].task
    BY <1>1, <1>4, <2>1, <2>2, <2>3 DEF QueueApart
  <2>6. \A u, v \in Q!Workers : worker'[u].task = worker'[v].task /\ worker'[u].task # Q!None => u = v
    BY <1>1, <1>4, <2>1, <2>2, <2>4 DEF QueueApart
  <2>7. \A v \in Q!Workers : \A i \in DOMAIN outcomes[v] :
          \E k \in DOMAIN selected : k <= Taken' /\ selected[k] = outcomes[v][i].task
    BY <1>1, <1>4, <2>3 DEF QueueApart
  <2>8. \A u, v \in Q!Workers : \A i \in DOMAIN outcomes[u] : outcomes[u][i].task # worker'[v].task
    BY <1>1, <1>4, <2>2, <2>4 DEF QueueApart
  <2>9. \A k \in DOMAIN selected : k <= Taken' =>
          \/ \E v \in Q!Workers : worker'[v].task = selected[k]
          \/ \E v \in Q!Workers : \E i \in DOMAIN outcomes[v] : outcomes[v][i].task = selected[k]
    <3>1. ASSUME NEW k \in DOMAIN selected, k <= Taken, NEW v \in Q!Workers,
                 worker[v].task = selected[k]
          PROVE  worker'[v].task = selected[k]
      BY <1>1, <1>2, <3>1, QueueAssumed
    <3>2. QED
      BY <1>1, <1>4, <2>2, <2>3, <3>1 DEF QueueApart
  <2>10. QED
    BY <1>1, <1>4, <2>5, <2>6, <2>7, <2>8, <2>9 DEF QueueApart
<1>7. QED
  BY <1>5, <1>6

(* The outcomes after a worker has added its own. *)
LEMMA OutcomesGrow ==
  ASSUME QueueInv, NEW w \in DOMAIN worker, WorkerStep(w), Q!AddOutcome(w)
  PROVE  /\ \A v \in Q!Workers : v # w => outcomes'[v] = outcomes[v]
         /\ \A i \in DOMAIN outcomes[w] : i \in DOMAIN outcomes'[w] /\ outcomes'[w][i] = outcomes[w][i]
         /\ Len(outcomes[w]) + 1 \in DOMAIN outcomes'[w]
         /\ outcomes'[w][Len(outcomes[w]) + 1] = [task |-> worker[w].task, status |-> worker[w].status]
         /\ \A i \in DOMAIN outcomes'[w] : i \in DOMAIN outcomes[w] \/ i = Len(outcomes[w]) + 1
         /\ worker'[w].task = Q!None /\ worker'[w].pc = "get" /\ worker[w].task \in QueueTasks
         /\ worker[w].pc = "finished" /\ worker[w].status \in Results \cup {Q!None}
<1>1. /\ phase = "work" /\ w \in Q!Workers /\ worker \in [Q!Workers -> Held] /\ worker[w] \in Held
      /\ worker[w].pc \in Free <=> worker[w].task = Q!None
  BY WorkerSteps
<1>2. outcomes \in [Q!Workers -> Returns]
  BY <1>1 DEF QueueInv, QueueWorked
<1>3. /\ outcomes' = [outcomes EXCEPT ![w] = Append(@, Q!Outcome(w))] /\ worker[w].pc = "finished"
      /\ worker'[w] = [pc |-> "get", task |-> Q!None, status |-> Q!None]
  BY <1>1 DEF Q!AddOutcome, Q!At, Q!Goes
<1>4. /\ worker[w].task \in QueueTasks /\ worker[w].status \in Results \cup {Q!None}
      /\ Q!Outcome(w) \in [task : QueueTasks, status : Results \cup {Q!None}]
  BY <1>1, <1>3 DEF Held, Free, Q!Outcome
<1>5. outcomes[w] \in Seq([task : QueueTasks, status : Results \cup {Q!None}])
  BY <1>1, <1>2 DEF Returns
<1>6. /\ outcomes'[w] = Append(outcomes[w], Q!Outcome(w))
      /\ \A v \in Q!Workers : v # w => outcomes'[v] = outcomes[v]
  BY <1>1, <1>2, <1>3
<1> DEFINE q == outcomes[w]
           r == Append(q, Q!Outcome(w))
<1>7. /\ Len(q) \in Nat /\ DOMAIN q = 1 .. Len(q) /\ DOMAIN r = 1 .. (Len(q) + 1)
      /\ \A i \in 1 .. Len(q) : r[i] = q[i]
      /\ r[Len(q) + 1] = Q!Outcome(w)
  <2> HIDE DEF q
  <2>1. q \in Seq([task : QueueTasks, status : Results \cup {Q!None}])
    BY <1>5 DEF q
  <2>2. QED
    BY <1>4, <2>1, AppendProperties
<1>8. QED
  BY <1>3, <1>4, <1>6, <1>7 DEF Q!Outcome

LEMMA QueueApartAdd ==
  ASSUME QueueInv, clean, NEW w \in DOMAIN worker, WorkerStep(w), Q!AddOutcome(w)
  PROVE  QueueApart'
<1> DEFINE n == Len(outcomes[w]) + 1
<1>1. /\ phase = "work" /\ w \in Q!Workers /\ Q!Workers' = Q!Workers /\ selected' = selected
      /\ \A v \in Q!Workers : v # w => worker'[v] = worker[v]
      /\ Taken' = Taken
  BY WorkerSteps, OwnRequest DEF Q!Get, Q!AddOutcome, Q!At
<1>2. /\ \A v \in Q!Workers : v # w => outcomes'[v] = outcomes[v]
      /\ \A i \in DOMAIN outcomes[w] : i \in DOMAIN outcomes'[w] /\ outcomes'[w][i] = outcomes[w][i]
      /\ n \in DOMAIN outcomes'[w] /\ outcomes'[w][n].task = worker[w].task
      /\ \A i \in DOMAIN outcomes'[w] : i \in DOMAIN outcomes[w] \/ i = n
      /\ worker'[w].task = Q!None /\ worker[w].task # Q!None
  <2>1. outcomes'[w][n] = [task |-> worker[w].task, status |-> worker[w].status]
    BY OutcomesGrow
  <2>2. worker[w].task \in QueueTasks
    BY OutcomesGrow
  <2>3. worker[w].task # Q!None
    BY <2>2, QueueAssumed
  <2>4. outcomes'[w][n].task = worker[w].task
    BY <2>1
  <2>5. QED
    BY <2>3, <2>4, OutcomesGrow
<1>3. QueueApart
  BY DEF QueueInv
<1> HIDE DEF n
<1>4. /\ \A v \in Q!Workers : \A i \in DOMAIN outcomes'[v] :
           \/ v = w /\ i = n
           \/ i \in DOMAIN outcomes[v] /\ outcomes'[v][i] = outcomes[v][i]
      /\ \A v \in Q!Workers : \A i \in DOMAIN outcomes[v] :
           i \in DOMAIN outcomes'[v] /\ outcomes'[v][i] = outcomes[v][i]
      /\ \A v \in Q!Workers : v = w \/ worker'[v].task = worker[v].task
  <2>1. ASSUME NEW v \in Q!Workers, NEW i \in DOMAIN outcomes'[v]
        PROVE  \/ v = w /\ i = n
               \/ i \in DOMAIN outcomes[v] /\ outcomes'[v][i] = outcomes[v][i]
    <3>1. CASE v = w
      BY <1>2, <3>1
    <3>2. CASE v # w
      <4>1. outcomes'[v] = outcomes[v]
        BY <1>2, <3>2
      <4>2. QED
        BY <4>1
    <3>3. QED
      BY <3>1, <3>2
  <2>2. ASSUME NEW v \in Q!Workers, NEW i \in DOMAIN outcomes[v]
        PROVE  i \in DOMAIN outcomes'[v] /\ outcomes'[v][i] = outcomes[v][i]
    BY <1>2
  <2>3. QED
    BY <1>1, <2>1, <2>2
<1>5. \A v \in Q!Workers : worker'[v].task # Q!None =>
        \E k \in DOMAIN selected : k <= Taken /\ selected[k] = worker'[v].task
  BY <1>1, <1>2, <1>3, <1>4 DEF QueueApart
<1>6. \A u, v \in Q!Workers : worker'[u].task = worker'[v].task /\ worker'[u].task # Q!None => u = v
  BY <1>1, <1>2, <1>3, <1>4 DEF QueueApart
<1>7. \A v \in Q!Workers : \A i \in DOMAIN outcomes'[v] :
        \E k \in DOMAIN selected : k <= Taken /\ selected[k] = outcomes'[v][i].task
  BY <1>1, <1>2, <1>3, <1>4 DEF QueueApart
<1>8. \A u, v \in Q!Workers : \A i \in DOMAIN outcomes'[u] : outcomes'[u][i].task # worker'[v].task
  <2>1. ASSUME NEW u \in Q!Workers, NEW v \in Q!Workers, NEW i \in DOMAIN outcomes'[u]
        PROVE  outcomes'[u][i].task # worker'[v].task
    <3>1. PICK k \in DOMAIN selected : selected[k] = outcomes'[u][i].task /\ selected[k] \in QueueTasks
      BY <1>7 DEF QueueInv, QueueTypes
    <3>2. CASE v = w
      BY <1>2, <3>1, <3>2, QueueAssumed
    <3>3. CASE v # w
      BY <1>1, <1>2, <1>3, <1>4, <3>3 DEF QueueApart
    <3>4. QED
      BY <3>2, <3>3
  <2>2. QED
    BY <2>1
<1>9. \A u, v \in Q!Workers : \A i \in DOMAIN outcomes'[u], j \in DOMAIN outcomes'[v] :
        outcomes'[u][i].task = outcomes'[v][j].task => u = v /\ i = j
  BY <1>1, <1>2, <1>3, <1>4 DEF QueueApart
<1>10. \A k \in DOMAIN selected : k <= Taken =>
         \/ \E v \in Q!Workers : worker'[v].task = selected[k]
         \/ \E v \in Q!Workers : \E i \in DOMAIN outcomes'[v] : outcomes'[v][i].task = selected[k]
  <2>1. ASSUME NEW k \in DOMAIN selected, k <= Taken
        PROVE  \/ \E v \in Q!Workers : worker'[v].task = selected[k]
               \/ \E v \in Q!Workers : \E i \in DOMAIN outcomes'[v] : outcomes'[v][i].task = selected[k]
    <3>1. CASE \E v \in Q!Workers : worker[v].task = selected[k]
      BY <1>1, <1>2, <1>4, <3>1
    <3>2. CASE \E v \in Q!Workers : \E i \in DOMAIN outcomes[v] : outcomes[v][i].task = selected[k]
      BY <1>4, <3>2
    <3>3. QED
      BY <1>1, <1>3, <2>1, <3>1, <3>2 DEF QueueApart
  <2>2. QED
    BY <2>1
<1>11. QED
  BY <1>1, <1>5, <1>6, <1>7, <1>8, <1>9, <1>10 DEF QueueApart

LEMMA QueueApartStays ==
  ASSUME QueueInv, [Q!Next]_(Q!vars)
  PROVE  QueueApart'
<1>1. CASE Q!Gather
  <2>1. /\ phase = "enqueue" /\ sent = Len(selected) + Q!WorkerCount /\ Q!Workers' = Q!Workers
        /\ Q!WorkerCount' = Q!WorkerCount
        /\ list' = list
        /\ selected' = selected
        /\ clean' = clean
        /\ worker' = [w \in Q!Workers |-> [pc |-> "get", task |-> Q!None, status |-> Q!None]]
        /\ outcomes' = [w \in Q!Workers |-> <<>>]
    BY <1>1 DEF Q!Gather, Q!StopItems, Q!WorkerCount, Q!Workers
  <2>2. /\ \A w \in Q!Workers : worker'[w].task = Q!None /\ DOMAIN outcomes'[w] = {}
    BY <2>1
  <2>3. Len(selected) \in Nat /\ Q!WorkerCount \in Nat /\ DOMAIN selected = 1 .. Len(selected)
    BY WorkersAre DEF QueueInv, QueueTypes
  <2>4. clean => Taken' = 0
    BY <2>1, <2>3 DEF QueueFilled, QueueInv, Taken
  <2>5. clean => \A k \in DOMAIN selected : ~(k <= Taken')
    BY <2>3, <2>4
  <2>6. QED
    BY <2>1, <2>2, <2>5 DEF QueueApart
<1>2. ASSUME NEW w \in DOMAIN worker, WorkerStep(w), clean  PROVE QueueApart'
  <2>1. CASE Q!Get(w)
    BY <1>2, <2>1, QueueApartGet
  <2>2. CASE Q!AddOutcome(w)
    BY <1>2, <2>2, QueueApartAdd
  <2>3. CASE ~Q!Get(w) /\ ~Q!AddOutcome(w)
    <3>1. worker'[w].task = worker[w].task /\ outcomes' = outcomes /\ Taken' = Taken
      BY <1>2, <2>3, OwnRequest
    <3>2. /\ phase = "work" /\ Q!Workers' = Q!Workers /\ selected' = selected /\ clean' = clean
          /\ \A v \in Q!Workers : v # w => worker'[v] = worker[v]
      BY <1>2, WorkerSteps
    <3>3. \A v \in Q!Workers : worker'[v].task = worker[v].task
      BY <3>1, <3>2
    <3>4. QED
      BY <3>1, <3>2, <3>3, QueueApartSame DEF QueueInv
  <2>4. QED
    BY <2>1, <2>2, <2>3
<1>3. CASE UNCHANGED Q!vars
  BY <1>3 DEF Q!vars, QueueApart, QueueInv, Q!Workers, Q!WorkerCount, Taken
<1>4. CASE phase' # "work" \/ ~clean'
  BY <1>4 DEF QueueApart
<1>5. ASSUME NEW w \in DOMAIN worker, WorkerStep(w)  PROVE clean' = clean
  BY <1>5, WorkerSteps
<1>6. QED
  BY <1>1, <1>2, <1>3, <1>4, <1>5
     DEF Q!Next, WorkerStep, Q!Run, Q!Enqueue, Q!CloseForWorkers, Q!Report, Q!Fails

LEMMA QueueKeptStays ==
  ASSUME QueueInv, [Q!Next]_(Q!vars)
  PROVE  QueueKept'
<1>1. CASE Q!Gather
  BY <1>1 DEF Q!Gather, QueueKept, Q!Workers, Q!WorkerCount
<1>2. ASSUME NEW w \in DOMAIN worker, WorkerStep(w), clean  PROVE QueueKept'
  <2> DEFINE t == worker[w].task
             Finished(v) == worker[v].pc = "finished" =>
               worker[v].task \in DOMAIN states /\ states[worker[v].task] = worker[v].status
             Told(v, i) ==
               /\ outcomes[v][i].task \in DOMAIN states
               /\ states[outcomes[v][i].task] = outcomes[v][i].status
               /\ backend = "redis" => /\ outcomes[v][i].task \in DOMAIN remote
                                       /\ remote[outcomes[v][i].task] = outcomes[v][i].status
  <2>1. /\ phase = "work" /\ w \in Q!Workers /\ Q!Workers' = Q!Workers /\ backend' = backend
        /\ \A v \in Q!Workers : v # w => worker'[v] = worker[v]
        /\ worker \in [Q!Workers -> Held] /\ worker[w] \in Held
    BY <1>2, WorkerSteps
  <2>2. (\A v \in Q!Workers : Finished(v)) /\ \A v \in Q!Workers : \A i \in DOMAIN outcomes[v] : Told(v, i)
    BY <1>2, <2>1 DEF QueueKept, QueueInv
  <2>3. SUFFICES /\ \A v \in Q!Workers : Finished(v)'
                 /\ \A v \in Q!Workers : \A i \in DOMAIN outcomes'[v] : Told(v, i)'
    BY <2>1 DEF QueueKept
  <2>4. CASE Q!Get(w)
    <3>1. worker'[w].pc # "finished" /\ UNCHANGED <<states, remote, outcomes, backend>>
      BY <2>1, <2>4 DEF Q!Get, Q!Goes
    <3>2. QED
      BY <2>1, <2>2, <3>1
  <2>5. ASSUME ~Q!Get(w)
        PROVE  /\ t \in QueueTasks /\ t # Q!None
               /\ \A v \in Q!Workers : v # w => worker[v].task # t
               /\ \A v \in Q!Workers : \A i \in DOMAIN outcomes[v] : outcomes[v][i].task # t
    <3>1. t \in QueueTasks
      BY <1>2, <2>5, OwnRequest
    <3>2. t # Q!None
      BY <3>1, QueueAssumed
    <3>3. QED
      BY <1>2, <2>1, <3>1, <3>2 DEF QueueApart, QueueInv
  <2>6. ASSUME Q!MarkStarted(w) \/ Q!MarkFinished(w)
        PROVE  /\ UNCHANGED <<remote, outcomes, backend>>
               /\ DOMAIN states' = DOMAIN states \cup {t}
               /\ \A u \in DOMAIN states : u # t => states'[u] = states[u]
    BY <2>6 DEF Q!MarkStarted, Q!MarkFinished, Q!Put
  <2>7. CASE Q!MarkStarted(w)
    <3>1. worker'[w].pc # "finished"
      BY <2>1, <2>7 DEF Q!MarkStarted, Q!Goes
    <3>2. ~Q!Get(w)
      BY <2>7 DEF Q!MarkStarted, Q!Get, Q!At
    <3>3. QED
      BY <2>1, <2>2, <2>5, <2>6, <2>7, <3>1, <3>2
  <2>8. CASE Q!MarkFinished(w)
    <3>1. /\ worker'[w].task = t /\ worker'[w].status = worker[w].status
          /\ states' = Q!Put(states, t, worker[w].status)
      BY <2>1, <2>8 DEF Q!MarkFinished, Q!Goes
    <3>2. states'[t] = worker[w].status
      BY <3>1 DEF Q!Put
    <3>3. ~Q!Get(w)
      BY <2>8 DEF Q!MarkFinished, Q!Get, Q!At
    <3>4. QED
      BY <2>1, <2>2, <2>5, <2>6, <2>8, <3>1, <3>2, <3>3
  <2>9. CASE Q!RunOne(w)
    <3>1. worker'[w].pc # "finished" /\ UNCHANGED <<states, remote, outcomes, backend>>
      BY <2>1, <2>9 DEF Q!RunOne, Q!Goes
    <3>2. QED
      BY <2>1, <2>2, <3>1
  <2>10. ASSUME Q!Mirror(w) \/ Q!AddOutcome(w)
         PROVE  /\ backend = "redis" => /\ DOMAIN remote' = DOMAIN remote \cup {t}
                                        /\ remote'[t] = states[t]
                                        /\ \A u \in DOMAIN remote : u # t => remote'[u] = remote[u]
                /\ worker'[w].pc # "finished" /\ UNCHANGED <<states, backend>> /\ ~Q!Get(w)
    <3>1. /\ worker'[w].pc # "finished" /\ UNCHANGED <<states, backend>> /\ ~Q!Get(w)
          /\ backend = "redis" => remote' = Q!Put(remote, t, states[t])
      BY <2>1, <2>10 DEF Q!Mirror, Q!AddOutcome, Q!Goes, Q!Mirrored, Q!Get, Q!At
    <3>2. QED
      BY <3>1 DEF Q!Put
  <2>11. CASE Q!Mirror(w)
    <3>1. outcomes' = outcomes
      BY <2>11 DEF Q!Mirror
    <3>2. QED
      BY <2>1, <2>2, <2>5, <2>10, <2>11, <3>1
  <2>12. CASE Q!AddOutcome(w)
    <3>0. PICK n : n = Len(outcomes[w]) + 1
      OBVIOUS
    <3>1. /\ \A v \in Q!Workers : v # w => outcomes'[v] = outcomes[v]
          /\ \A i \in DOMAIN outcomes[w] : i \in DOMAIN outcomes'[w] /\ outcomes'[w][i] = outcomes[w][i]
          /\ outcomes'[w][n] = [task |-> t, status |-> worker[w].status]
          /\ \A i \in DOMAIN outcomes'[w] : i \in DOMAIN outcomes[w] \/ i = n
          /\ worker[w].pc = "finished"
      BY <1>2, <2>12, <3>0, OutcomesGrow
    <3>2. outcomes'[w][n].task = t /\ outcomes'[w][n].status = states[t] /\ t \in DOMAIN states
      BY <2>1, <2>2, <3>1
    <3>3. Told(w, n)'
      BY <2>10, <2>12, <3>2
    <3>4. ASSUME NEW v \in Q!Workers, NEW i \in DOMAIN outcomes[v],
                 outcomes'[v][i] = outcomes[v][i]
          PROVE  Told(v, i)'
      BY <2>2, <2>5, <2>10, <2>12, <3>4
    <3>5. \A v \in Q!Workers : \A i \in DOMAIN outcomes'[v] : Told(v, i)'
      <4>1. ASSUME NEW v \in Q!Workers, NEW i \in DOMAIN outcomes'[v]
            PROVE  \/ v = w /\ i = n
                   \/ i \in DOMAIN outcomes[v] /\ outcomes'[v][i] = outcomes[v][i]
        <5>1. CASE v = w
          BY <3>1, <5>1
        <5>2. CASE v # w
          <6>1. outcomes'[v] = outcomes[v]
            BY <3>1, <5>2
          <6>2. QED
            BY <6>1
        <5>3. QED
          BY <5>1, <5>2
      <4>2. ASSUME NEW v \in Q!Workers, NEW i \in DOMAIN outcomes'[v]  PROVE Told(v, i)'
        <5>1. CASE v = w /\ i = n
          BY <3>3, <5>1
        <5>2. CASE i \in DOMAIN outcomes[v] /\ outcomes'[v][i] = outcomes[v][i]
          BY <3>4, <5>2
        <5>3. QED
          BY <4>1, <4>2, <5>1, <5>2
      <4>3. QED
        BY <4>2
    <3>6. \A v \in Q!Workers : Finished(v)'
      BY <2>1, <2>2, <2>10, <2>12
    <3>7. QED
      BY <3>5, <3>6
  <2>13. QED
    BY <1>2, <2>4, <2>7, <2>8, <2>9, <2>11, <2>12 DEF WorkerStep
<1>3. CASE UNCHANGED Q!vars
  BY <1>3 DEF Q!vars, QueueKept, QueueInv, Q!Workers, Q!WorkerCount
<1>4. CASE phase' # "work" \/ ~clean'
  BY <1>4 DEF QueueKept
<1>5. ASSUME NEW w \in DOMAIN worker, WorkerStep(w)  PROVE clean' = clean
  BY <1>5, WorkerSteps
<1>6. QED
  BY <1>1, <1>2, <1>3, <1>4, <1>5
     DEF Q!Next, WorkerStep, Q!Run, Q!Enqueue, Q!CloseForWorkers, Q!Report, Q!Fails

LEMMA QueueReportedStays ==
  ASSUME QueueInv, [Q!Next]_(Q!vars)
  PROVE  QueueReported'
<1>1. CASE Q!Report /\ phase' = "reported" /\ clean
  <2>1. /\ phase = "work" /\ \A w \in Q!Workers : worker[w].pc = "returned"
        /\ report' = [status |-> Q!JobStatus, outcomes |-> outcomes]
        /\ UNCHANGED <<backend, selected, list, states, remote, active, clean>>
    BY <1>1 DEF Q!Report
  <2>2. /\ outcomes \in [Q!Workers -> Returns] /\ active = Cardinality(Busy)
        /\ \A w \in Q!Workers : worker[w].pc \in Free <=> worker[w].task = Q!None
        /\ Cardinality(Waiting) = IF Len(list) < Q!WorkerCount THEN Len(list) ELSE Q!WorkerCount
        /\ Len(list) <= Len(selected) + Q!WorkerCount
    BY <1>1, <2>1 DEF QueueWorked, QueueOrdered, QueueInv
  <2>3. Busy = {} /\ Waiting = {}
    BY <2>1 DEF Busy, Waiting
  <2>4. active = 0 /\ Cardinality(Waiting) = 0
    BY <2>2, <2>3, FS_EmptySet
  <2>5. /\ Len(selected) \in Nat
        /\ Q!WorkerCount \in Nat
        /\ (Q!WorkerCount = 0 => Len(selected) = 0)
        /\ list \in Seq(QueueTasks \cup {Q!Stop}) /\ Len(list) \in Nat
        /\ selected \in Seq(QueueTasks) /\ DOMAIN selected = 1 .. Len(selected)
    BY WorkersAre DEF QueueTypes, QueueInv
  <2>6. Len(list) = 0 /\ Taken = Len(selected) + Q!WorkerCount
    BY <2>2, <2>4, <2>5 DEF Taken
  <2>7. list = <<>> /\ \A k \in DOMAIN selected : k <= Taken /\ selected[k] \in QueueTasks
    BY <2>5, <2>6
  <2>8. \A w \in Q!Workers : worker[w].task = Q!None
    BY <2>1, <2>2 DEF Free
  <2>9. ASSUME NEW k \in DOMAIN selected
        PROVE  \E w \in Q!Workers : \E i \in DOMAIN outcomes[w] :
                 /\ outcomes[w][i] = [task |-> selected[k], status |-> states[selected[k]]]
                 /\ backend = "redis" => remote[selected[k]] = states[selected[k]]
    <3>1. PICK w \in Q!Workers : \E i \in DOMAIN outcomes[w] : outcomes[w][i].task = selected[k]
      BY <1>1, <2>1, <2>7, <2>8, QueueAssumed DEF QueueApart, QueueInv
    <3>2. PICK i \in DOMAIN outcomes[w] : outcomes[w][i].task = selected[k]
      BY <3>1
    <3>3. /\ states[selected[k]] = outcomes[w][i].status
          /\ backend = "redis" => remote[selected[k]] = outcomes[w][i].status
      BY <1>1, <2>1, <3>2 DEF QueueKept, QueueInv
    <3>4. outcomes[w] \in Seq([task : QueueTasks, status : Results \cup {Q!None}])
      BY <2>2 DEF Returns
    <3>5. outcomes[w][i] \in [task : QueueTasks, status : Results \cup {Q!None}]
      <4> DEFINE R == [task : QueueTasks, status : Results \cup {Q!None}]
      <4> HIDE DEF R
      <4>1. outcomes[w] \in Seq(R)
        BY <3>4 DEF R
      <4>2. outcomes[w][i] \in R
        BY <4>1
      <4>3. QED
        BY <4>2 DEF R
    <3>6. outcomes[w][i] = [task |-> selected[k], status |-> states[selected[k]]]
      BY <3>2, <3>3, <3>5
    <3>7. QED
      BY <3>3, <3>6
  <2>10. \A p : p \in Q!Positions(outcomes) <=>
                \E w \in Q!Workers : \E i \in DOMAIN outcomes[w] : p = <<w, i>>
    BY <2>2 DEF Q!Positions
  <2>11. ASSUME NEW p \in Q!Positions(outcomes), NEW q \in Q!Positions(outcomes),
                outcomes[p[1]][p[2]].task = outcomes[q[1]][q[2]].task
         PROVE  p = q
    <3>1. PICK v \in Q!Workers : \E i \in DOMAIN outcomes[v] : p = <<v, i>>
      BY <2>10
    <3>2. PICK i \in DOMAIN outcomes[v] : p = <<v, i>>
      BY <3>1
    <3>3. PICK w \in Q!Workers : \E j \in DOMAIN outcomes[w] : q = <<w, j>>
      BY <2>10
    <3>4. PICK j \in DOMAIN outcomes[w] : q = <<w, j>>
      BY <3>3
    <3>5. outcomes[v][i].task = outcomes[w][j].task
      BY <2>11, <3>2, <3>4
    <3>6. v = w /\ i = j
      BY <1>1, <2>1, <3>5 DEF QueueApart, QueueInv
    <3>7. QED
      BY <3>2, <3>4, <3>6
  <2>12. ASSUME NEW t \in Q!ToSet(selected)
         PROVE  \E p \in Q!Positions(outcomes) :
                  /\ outcomes[p[1]][p[2]] = [task |-> t, status |-> states[t]]
                  /\ backend = "redis" => remote[t] = states[t]
    <3>1. PICK k \in DOMAIN selected : t = selected[k]
      BY DEF Q!ToSet
    <3>2. PICK w \in Q!Workers : \E i \in DOMAIN outcomes[w] :
                 /\ outcomes[w][i] = [task |-> selected[k], status |-> states[selected[k]]]
                 /\ backend = "redis" => remote[selected[k]] = states[selected[k]]
      BY <2>9
    <3>3. PICK i \in DOMAIN outcomes[w] :
                 /\ outcomes[w][i] = [task |-> selected[k], status |-> states[selected[k]]]
                 /\ backend = "redis" => remote[selected[k]] = states[selected[k]]
      BY <3>2
    <3>4. <<w, i>> \in Q!Positions(outcomes) /\ <<w, i>>[1] = w /\ <<w, i>>[2] = i
      BY <2>10
    <3>5. QED
      BY <3>1, <3>3, <3>4
  <2>13. QED
    BY <2>1, <2>4, <2>7, <2>11, <2>12 DEF QueueReported
<1>2. CASE UNCHANGED Q!vars
  BY <1>2 DEF Q!vars, QueueReported, QueueInv
<1>3. CASE phase' # "reported" \/ ~clean'
  BY <1>3 DEF QueueReported
<1>4. ASSUME NEW w \in DOMAIN worker, WorkerStep(w)  PROVE phase' = "work"
  BY <1>4, WorkerSteps
<1>5. Q!Report => clean' = clean
  BY DEF Q!Report
<1>6. QED
  BY <1>1, <1>2, <1>3, <1>4, <1>5
     DEF Q!Next, WorkerStep, Q!Run, Q!Enqueue, Q!CloseForWorkers, Q!Gather, Q!Fails

LEMMA QueueStays == QueueInv /\ [Q!Next]_(Q!vars) => QueueInv'
BY QueueTypesStay, QueueFilledStays, QueueWorkedStays, QueueOrderedStays, QueueApartStays,
   QueueKeptStays, QueueReportedStays DEF QueueInv

LEMMA QueueTold == QueueInv => Q!TypeOK /\ Q!QueueIsServed
<1> SUFFICES ASSUME QueueInv  PROVE Q!TypeOK /\ Q!QueueIsServed
  OBVIOUS
<1>1. Q!TypeOK
  <2>1. /\ Len(selected) <= Cardinality(QueueTasks)
        /\ Cardinality(QueueTasks) \in Nat
        /\ Len(selected) \in Nat
        /\ sent \in Nat /\ sent <= Len(selected) + Q!WorkerCount /\ Q!WorkerCount <= Len(selected)
        /\ Q!WorkerCount \in Nat
    BY WorkersAre, FS_CardinalityType, QueueAssumed DEF QueueInv, QueueTypes
  <2>2. sent \in 0 .. 2 * Cardinality(QueueTasks)
    BY <2>1
  <2>3. Q!ToSet(selected) \subseteq QueueTasks /\ Q!ToSet(list) \subseteq QueueTasks \cup {Q!Stop}
    BY DEF QueueInv, QueueTypes, Q!ToSet
  <2>4. QED
    BY <2>2, <2>3, SameCount DEF QueueInv, QueueTypes, Q!TypeOK
<1>2. Q!StopForEveryWorker
  BY SameCount DEF QueueInv, QueueWorked, Q!StopForEveryWorker, Waiting, Ends
<1>3. Q!ReportIsComplete
  BY DEF QueueInv, QueueReported, QueueApart, Q!ReportIsComplete
<1>4. QED
  BY <1>1, <1>2, <1>3 DEF Q!QueueIsServed

THEOREM QueueServes == Q!Spec => [](Q!TypeOK /\ Q!QueueIsServed)
  BY QueueBegins, QueueStays, QueueTold, PTL DEF Q!Spec
--------------------
(* What a command of a reset plan does, and what to. *)
Deeds == {"clear", "kill", "time", "heal", "feed", "gamemode", "spread", "tp", "give", "setblock",
          "summon", "locate"}
Words == STRING \cup {"none", "items", "owned", "far", "spawn", "away"}
Orders == [op : Deeds, arg : Words]

(* How many commands of a plan come before its mobs, before its blocks and *)
(* before its items: what is there is put where the bot has been moved to. *)
BeforeMobs(t) == Len(S!PlanCommands(t)) - t.mobs
BeforeBlocks(t) == BeforeMobs(t) - t.blocks
BeforeItems(t) == BeforeBlocks(t) - Len(t.give)

(* What the assumption says of every field of a plan and of the *)
(* configuration. *)
LEMMA ResetAssumed ==
  /\ \A t \in ResetTasks :
       /\ t.clear \in BOOLEAN /\ t.drops \in BOOLEAN /\ t.spread \in BOOLEAN
       /\ t.items \in Seq(STRING) /\ t.give \in Seq(STRING)
       /\ t.time \in STRING /\ t.mode \in STRING /\ t.start \in STRING /\ t.biome \in STRING
       /\ t.blocks \in Nat /\ t.mobs \in Nat
  /\ ResetConfig.clear \in BOOLEAN /\ ResetConfig.drops \in BOOLEAN
  /\ ResetConfig.restore \in BOOLEAN /\ ResetConfig.apply \in BOOLEAN
  /\ ResetConfig.biome \in BOOLEAN /\ ResetConfig.time \in STRING
  /\ MaxResets \in Nat /\ ResetFaults \in Nat
BY ResetAssumption DEF S!Plans, S!Configs

(* The parts a plan is put together from, one after another, a single *)
(* command, and the same command repeated, with what stands at a position. *)
LEMMA ConcatIs ==
  ASSUME NEW s \in Seq(Orders), NEW r \in Seq(Orders)
  PROVE  /\ s \o r \in Seq(Orders)
         /\ Len(s \o r) = Len(s) + Len(r)
         /\ \A i \in 1 .. Len(s) : (s \o r)[i] = s[i]
         /\ \A i \in Len(s) + 1 .. Len(s) + Len(r) : (s \o r)[i] = r[i - Len(s)]
BY ConcatProperties

LEMMA OneIs ==
  ASSUME NEW op \in Deeds, NEW arg \in Words
  PROVE  /\ <<S!Command(op, arg)>> \in Seq(Orders)
         /\ Len(<<S!Command(op, arg)>>) = 1
         /\ \A i \in 1 .. 1 : <<S!Command(op, arg)>>[i] = S!Command(op, arg)
BY DEF S!Command, Orders

Says(c, op, arg) == c.op = op /\ c.arg = arg

LEMMA CommandSays ==
  ASSUME NEW op, NEW arg
  PROVE  Says(S!Command(op, arg), op, arg)
BY DEF S!Command, Says

LEMMA PerhapsIs ==
  ASSUME NEW c \in BOOLEAN, NEW op \in Deeds, NEW arg \in Words
  PROVE  LET X == S!When(c, <<S!Command(op, arg)>>) IN
         /\ X \in Seq(Orders)
         /\ Len(X) = IF c THEN 1 ELSE 0
         /\ \A i \in 1 .. Len(X) : c /\ Says(X[i], op, arg)
<1>1. CASE c
  <2>1. S!When(c, <<S!Command(op, arg)>>) = <<S!Command(op, arg)>>
    BY <1>1 DEF S!When
  <2>2. QED
    <3> DEFINE o == S!Command(op, arg)
    <3>1. o \in Orders /\ Says(o, op, arg)
      BY CommandSays DEF S!Command, Orders
    <3> HIDE DEF o
    <3>2. <<o>> \in Seq(Orders) /\ Len(<<o>>) = 1 /\ \A i \in 1 .. 1 : <<o>>[i] = o
      BY <3>1
    <3>3. S!When(c, <<S!Command(op, arg)>>) = <<o>>
      BY <2>1 DEF o
    <3>4. QED
      BY <1>1, <3>1, <3>2, <3>3
<1>2. CASE ~c
  <2>1. S!When(c, <<S!Command(op, arg)>>) = <<>>
    BY <1>2 DEF S!When
  <2>2. QED
    BY <1>2, <2>1
<1>3. QED
  BY <1>1, <1>2

LEMMA EachIs ==
  ASSUME NEW op \in Deeds, NEW args \in Seq(STRING)
  PROVE  /\ S!Each(op, args) \in Seq(Orders)
         /\ Len(S!Each(op, args)) = Len(args)
         /\ \A i \in 1 .. Len(args) : S!Each(op, args)[i] = S!Command(op, args[i])
<1>1. S!Each(op, args) = [i \in 1 .. Len(args) |-> S!Command(op, args[i])]
  BY DEF S!Each
<1>2. \A i \in 1 .. Len(args) : S!Command(op, args[i]) \in Orders
  BY ElementOfSeq DEF S!Command, Orders, Words
<1>3. Len(args) \in Nat
  OBVIOUS
<1>4. QED
  BY <1>1, <1>2, <1>3

LEMMA TimesIs ==
  ASSUME NEW n \in Nat, NEW op \in Deeds, NEW arg \in Words
  PROVE  /\ S!Times(n, S!Command(op, arg)) \in Seq(Orders)
         /\ Len(S!Times(n, S!Command(op, arg))) = n
         /\ \A i \in 1 .. n : S!Times(n, S!Command(op, arg))[i] = S!Command(op, arg)
<1>1. S!Command(op, arg) \in Orders
  BY DEF S!Command, Orders
<1>2. QED
  BY <1>1 DEF S!Times

(* What goes before the commands of the task: cleaning up, then the rest. *)
Cleaning(t) ==
  S!ClearCommands(t)
  \o S!When(ResetConfig.drops /\ t.drops, <<S!Command("kill", "items")>>)
  \o S!When(ResetConfig.apply, <<S!Command("kill", "owned")>>)
  \o S!When(S!TimeOf(t) # S!None, <<S!Command("time", S!TimeOf(t))>>)
  \o S!When(ResetConfig.restore, S!RestoreCommands)
Moving(t) ==
  S!When(t.mode # S!None, <<S!Command("gamemode", t.mode)>>)
  \o S!When(t.spread, <<S!Command("spread", "far")>>)
  \o S!When(t.start # S!None, <<S!Command("tp", t.start)>>)

(* What the first parts of a plan are, position by position. *)
LEMMA ClearingIs ==
  ASSUME NEW t \in ResetTasks
  PROVE  /\ S!ClearCommands(t) \in Seq(Orders)
         /\ \A i \in 1 .. Len(S!ClearCommands(t)) : S!ClearCommands(t)[i].op = "clear"
         /\ t.clear /\ ResetConfig.clear =>
              /\ Len(S!ClearCommands(t)) = 1
              /\ Says(S!ClearCommands(t)[1], "clear", S!None)
<1>1. CASE ~ResetConfig.clear
  <2>1. S!ClearCommands(t) = <<>>
    BY <1>1, ResetAssumed DEF S!ClearCommands
  <2>2. QED
    BY <2>1, <1>1
<1>2. CASE ResetConfig.clear /\ t.clear
  <2>1. S!ClearCommands(t) = <<S!Command("clear", S!None)>>
    BY <1>2, ResetAssumed DEF S!ClearCommands
  <2>2. "clear" \in Deeds /\ S!None \in Words
    BY DEF S!None, Deeds, Words
  <2>3. QED
    BY <2>1, <2>2, OneIs DEF S!Command, Says
<1>3. CASE ResetConfig.clear /\ ~t.clear
  <2>1. S!ClearCommands(t) = S!Each("clear", t.items)
    BY <1>3, ResetAssumed DEF S!ClearCommands
  <2>2. QED
    <3>1. "clear" \in Deeds /\ t.items \in Seq(STRING)
      BY ResetAssumed DEF Deeds
    <3>2. /\ S!Each("clear", t.items) \in Seq(Orders)
          /\ Len(S!Each("clear", t.items)) = Len(t.items)
          /\ \A i \in 1 .. Len(t.items) :
               S!Each("clear", t.items)[i] = S!Command("clear", t.items[i])
      BY <3>1, EachIs
    <3>3. \A i \in 1 .. Len(t.items) : S!Each("clear", t.items)[i].op = "clear"
      BY <3>2, CommandSays DEF Says
    <3>4. QED
      BY <2>1, <1>3, <3>2, <3>3
<1>4. QED
  BY <1>1, <1>2, <1>3, ResetAssumed

LEMMA CleaningIs ==
  ASSUME NEW t \in ResetTasks
  PROVE  LET R == Cleaning(t) IN
    /\ R \in Seq(Orders)
    /\ \A i \in 1 .. Len(R) :
         /\ R[i].op \in {"clear", "kill", "time", "heal", "feed"}
         /\ R[i].op = "time" => R[i].arg = S!TimeOf(t)
    /\ t.clear /\ ResetConfig.clear =>
         /\ Len(R) >= 1 /\ Says(R[1], "clear", S!None)
         /\ \A i \in 2 .. Len(R) : R[i].op # "clear"
    /\ ResetConfig.drops /\ t.drops => \E i \in 1 .. Len(R) : Says(R[i], "kill", "items")
    /\ ResetConfig.apply => \E i \in 1 .. Len(R) : Says(R[i], "kill", "owned")
    /\ S!TimeOf(t) # S!None => \E i \in 1 .. Len(R) : R[i].op = "time"
    /\ ResetConfig.restore => \E i \in 1 .. Len(R) : R[i].op = "heal"
<1> DEFINE A == S!ClearCommands(t)
           K == S!When(ResetConfig.drops /\ t.drops, <<S!Command("kill", "items")>>)
           L == S!When(ResetConfig.apply, <<S!Command("kill", "owned")>>)
           D == S!When(S!TimeOf(t) # S!None, <<S!Command("time", S!TimeOf(t))>>)
           E == S!When(ResetConfig.restore, S!RestoreCommands)
<1>1. /\ A \in Seq(Orders)
      /\ \A i \in 1 .. Len(A) : A[i].op = "clear"
      /\ t.clear /\ ResetConfig.clear => Len(A) = 1 /\ Says(A[1], "clear", S!None)
  BY ClearingIs
<1>2. /\ K \in Seq(Orders)
      /\ Len(K) = IF ResetConfig.drops /\ t.drops THEN 1 ELSE 0
      /\ \A i \in 1 .. Len(K) : Says(K[i], "kill", "items")
  <2>1. (ResetConfig.drops /\ t.drops) \in BOOLEAN /\ "kill" \in Deeds /\ "items" \in Words
    BY DEF Deeds, Words
  <2>2. QED
    BY <2>1, PerhapsIs
<1>3. /\ L \in Seq(Orders)
      /\ Len(L) = IF ResetConfig.apply THEN 1 ELSE 0
      /\ \A i \in 1 .. Len(L) : Says(L[i], "kill", "owned")
  <2>1. ResetConfig.apply \in BOOLEAN /\ "kill" \in Deeds /\ "owned" \in Words
    BY ResetAssumed DEF Deeds, Words
  <2>2. QED
    BY <2>1, PerhapsIs
<1>4. S!TimeOf(t) \in Words
  BY ResetAssumed DEF S!TimeOf, S!None, Words
<1>5. /\ D \in Seq(Orders)
      /\ Len(D) = IF S!TimeOf(t) # S!None THEN 1 ELSE 0
      /\ \A i \in 1 .. Len(D) : Says(D[i], "time", S!TimeOf(t))
  <2>1. (S!TimeOf(t) # S!None) \in BOOLEAN /\ "time" \in Deeds
    BY DEF Deeds
  <2>2. QED
    BY <2>1, <1>4, PerhapsIs
<1>6. /\ S!RestoreCommands \in Seq(Orders) /\ Len(S!RestoreCommands) = 2
      /\ S!RestoreCommands[1].op = "heal" /\ S!RestoreCommands[2].op = "feed"
  BY DEF S!RestoreCommands, S!Command, S!None, Orders, Deeds, Words
<1>7. /\ E \in Seq(Orders)
      /\ Len(E) = IF ResetConfig.restore THEN 2 ELSE 0
      /\ \A i \in 1 .. Len(E) : E[i].op \in {"heal", "feed"}
      /\ ResetConfig.restore => E[1].op = "heal"
  <2>1. CASE ResetConfig.restore
    <3>1. E = S!RestoreCommands
      BY <2>1 DEF S!When
    <3>2. \A i \in 1 .. 2 : i = 1 \/ i = 2
      OBVIOUS
    <3> HIDE DEF E
    <3>3. QED
      BY <2>1, <3>1, <3>2, <1>6
  <2>2. CASE ~ResetConfig.restore
    <3>1. E = <<>>
      BY <2>2 DEF S!When
    <3>2. QED
      BY <2>2, <3>1
  <2>3. QED
    BY <2>1, <2>2
<1>8. Cleaning(t) = A \o K \o L \o D \o E
  BY DEF Cleaning
<1> HIDE DEF A, K, L, D, E
<1>9. /\ A \o K \in Seq(Orders) /\ Len(A \o K) = Len(A) + Len(K)
      /\ \A i \in 1 .. Len(A) : (A \o K)[i] = A[i]
      /\ \A i \in Len(A) + 1 .. Len(A) + Len(K) : (A \o K)[i] = K[i - Len(A)]
  BY <1>1, <1>2, ConcatIs
<1>10. /\ A \o K \o L \in Seq(Orders) /\ Len(A \o K \o L) = Len(A \o K) + Len(L)
       /\ \A i \in 1 .. Len(A \o K) : (A \o K \o L)[i] = (A \o K)[i]
       /\ \A i \in Len(A \o K) + 1 .. Len(A \o K) + Len(L) :
            (A \o K \o L)[i] = L[i - Len(A \o K)]
  BY <1>9, <1>3, ConcatIs
<1>11. /\ A \o K \o L \o D \in Seq(Orders)
       /\ Len(A \o K \o L \o D) = Len(A \o K \o L) + Len(D)
       /\ \A i \in 1 .. Len(A \o K \o L) : (A \o K \o L \o D)[i] = (A \o K \o L)[i]
       /\ \A i \in Len(A \o K \o L) + 1 .. Len(A \o K \o L) + Len(D) :
            (A \o K \o L \o D)[i] = D[i - Len(A \o K \o L)]
  BY <1>10, <1>5, ConcatIs
<1>12. /\ Cleaning(t) \in Seq(Orders)
       /\ Len(Cleaning(t)) = Len(A \o K \o L \o D) + Len(E)
       /\ \A i \in 1 .. Len(A \o K \o L \o D) : Cleaning(t)[i] = (A \o K \o L \o D)[i]
       /\ \A i \in Len(A \o K \o L \o D) + 1 .. Len(A \o K \o L \o D) + Len(E) :
            Cleaning(t)[i] = E[i - Len(A \o K \o L \o D)]
  <2> DEFINE F == A \o K \o L \o D
  <2>1. F \in Seq(Orders) /\ E \in Seq(Orders) /\ Cleaning(t) = F \o E
    BY <1>11, <1>7, <1>8
  <2> HIDE DEF F
  <2>2. /\ Cleaning(t) \in Seq(Orders) /\ Len(Cleaning(t)) = Len(F) + Len(E)
        /\ \A i \in 1 .. Len(F) : Cleaning(t)[i] = F[i]
        /\ \A i \in Len(F) + 1 .. Len(F) + Len(E) : Cleaning(t)[i] = E[i - Len(F)]
    BY <2>1, ConcatIs
  <2>3. QED
    BY <2>2 DEF F
<1> DEFINE a == Len(A)  b == Len(A \o K)  c == Len(A \o K \o L)  d == Len(A \o K \o L \o D)
           R == Cleaning(t)
<1>13. /\ a \in Nat /\ b \in Nat /\ c \in Nat /\ d \in Nat /\ Len(R) \in Nat
       /\ b = a + Len(K) /\ c = b + Len(L) /\ d = c + Len(D) /\ Len(R) = d + Len(E)
       /\ Len(K) \in Nat /\ Len(L) \in Nat /\ Len(D) \in Nat /\ Len(E) \in Nat
  BY <1>1, <1>2, <1>3, <1>5, <1>7, <1>9, <1>10, <1>11, <1>12, LenProperties
<1>14. /\ \A i \in 1 .. a : R[i] = A[i]
       /\ \A i \in a + 1 .. b : R[i] = K[i - a]
       /\ \A i \in b + 1 .. c : R[i] = L[i - b]
       /\ \A i \in c + 1 .. d : R[i] = D[i - c]
       /\ \A i \in d + 1 .. Len(R) : R[i] = E[i - d]
  <2>1. \A i \in d + 1 .. Len(R) : R[i] = E[i - d]
    BY <1>13, <1>12
  <2>2. \A i \in 1 .. d : R[i] = (A \o K \o L \o D)[i]
    BY <1>12
  <2>3. \A i \in 1 .. c : R[i] = (A \o K \o L)[i]
    <3>1. \A i \in 1 .. c : i \in 1 .. d
      BY <1>13
    <3>2. QED
      BY <2>2, <3>1, <1>11
  <2>4. \A i \in 1 .. b : R[i] = (A \o K)[i]
    <3>1. \A i \in 1 .. b : i \in 1 .. c
      BY <1>13
    <3>2. QED
      BY <2>3, <3>1, <1>10
  <2>5. \A i \in 1 .. a : R[i] = A[i]
    <3>1. \A i \in 1 .. a : i \in 1 .. b
      BY <1>13
    <3>2. QED
      BY <2>4, <3>1, <1>9
  <2>6. \A i \in a + 1 .. b : R[i] = K[i - a]
    <3>1. \A i \in a + 1 .. b : i \in 1 .. b /\ i \in Len(A) + 1 .. Len(A) + Len(K)
      BY <1>13, <1>9
    <3>2. QED
      BY <2>4, <3>1, <1>9
  <2>7. \A i \in b + 1 .. c : R[i] = L[i - b]
    <3>1. \A i \in b + 1 .. c : i \in 1 .. c /\ i \in Len(A \o K) + 1 .. Len(A \o K) + Len(L)
      BY <1>13
    <3>2. QED
      BY <2>3, <3>1, <1>10
  <2>8. \A i \in c + 1 .. d : R[i] = D[i - c]
    <3>1. \A i \in c + 1 .. d :
            i \in 1 .. d /\ i \in Len(A \o K \o L) + 1 .. Len(A \o K \o L) + Len(D)
      BY <1>13
    <3>2. QED
      BY <2>2, <3>1, <1>11
  <2>9. QED
    BY <2>1, <2>5, <2>6, <2>7, <2>8
<1> HIDE DEF a, b, c, d, R
<1>15. /\ \A i \in 1 .. a : R[i].op = "clear"
       /\ \A i \in a + 1 .. b : Says(R[i], "kill", "items")
       /\ \A i \in b + 1 .. c : Says(R[i], "kill", "owned")
       /\ \A i \in c + 1 .. d : Says(R[i], "time", S!TimeOf(t))
       /\ \A i \in d + 1 .. Len(R) : R[i].op \in {"heal", "feed"}
  <2>1. \A i \in 1 .. a : R[i].op = "clear"
    BY <1>14, <1>1 DEF a
  <2>2. \A i \in a + 1 .. b : Says(R[i], "kill", "items")
    <3>1. \A i \in a + 1 .. b : i - a \in 1 .. Len(K)
      BY <1>13
    <3>2. \A i \in a + 1 .. b : R[i] = K[i - a]
      BY <1>14
    <3>3. QED
      BY <3>1, <3>2, <1>2
  <2>3. \A i \in b + 1 .. c : Says(R[i], "kill", "owned")
    <3>1. \A i \in b + 1 .. c : i - b \in 1 .. Len(L)
      BY <1>13
    <3>2. \A i \in b + 1 .. c : R[i] = L[i - b]
      BY <1>14
    <3>3. QED
      BY <3>1, <3>2, <1>3
  <2>4. \A i \in c + 1 .. d : Says(R[i], "time", S!TimeOf(t))
    <3>1. \A i \in c + 1 .. d : i - c \in 1 .. Len(D)
      BY <1>13
    <3>2. \A i \in c + 1 .. d : R[i] = D[i - c]
      BY <1>14
    <3>3. QED
      BY <3>1, <3>2, <1>5
  <2>5. \A i \in d + 1 .. Len(R) : R[i].op \in {"heal", "feed"}
    <3>1. \A i \in d + 1 .. Len(R) : i - d \in 1 .. Len(E)
      BY <1>13
    <3>2. \A i \in d + 1 .. Len(R) : R[i] = E[i - d]
      BY <1>14
    <3>3. QED
      BY <3>1, <3>2, <1>7
  <2>6. QED
    BY <2>1, <2>2, <2>3, <2>4, <2>5
<1>16. R \in Seq(Orders)
  BY <1>12 DEF R
<1>17. \A i \in 1 .. Len(R) :
         /\ R[i].op \in {"clear", "kill", "time", "heal", "feed"}
         /\ R[i].op = "time" => R[i].arg = S!TimeOf(t)
         /\ R[i].op = "clear" => i \in 1 .. a
  <2> TAKE i \in 1 .. Len(R)
  <2>1. \/ i \in 1 .. a \/ i \in a + 1 .. b \/ i \in b + 1 .. c \/ i \in c + 1 .. d
        \/ i \in d + 1 .. Len(R)
    BY <1>13
  <2>2. QED
    BY <2>1, <1>15 DEF Says
<1>18. t.clear /\ ResetConfig.clear =>
         /\ Len(R) >= 1 /\ Says(R[1], "clear", S!None)
         /\ \A i \in 2 .. Len(R) : R[i].op # "clear"
  <2> SUFFICES ASSUME t.clear, ResetConfig.clear
               PROVE  /\ Len(R) >= 1 /\ Says(R[1], "clear", S!None)
                      /\ \A i \in 2 .. Len(R) : R[i].op # "clear"
    OBVIOUS
  <2>1. a = 1 /\ R[1] = A[1] /\ Says(A[1], "clear", S!None)
    BY <1>1, <1>14 DEF a
  <2>2. QED
    BY <2>1, <1>13, <1>17
<1>19. ResetConfig.drops /\ t.drops => \E i \in 1 .. Len(R) : Says(R[i], "kill", "items")
  BY <1>2, <1>13, <1>15
<1>20. ResetConfig.apply => \E i \in 1 .. Len(R) : Says(R[i], "kill", "owned")
  BY <1>3, <1>13, <1>15
<1>21. S!TimeOf(t) # S!None => \E i \in 1 .. Len(R) : R[i].op = "time"
  BY <1>5, <1>13, <1>15 DEF Says
<1>22. ResetConfig.restore => \E i \in 1 .. Len(R) : R[i].op = "heal"
  <2> HAVE ResetConfig.restore
  <2>1. d + 1 \in 1 .. Len(R) /\ d + 1 \in d + 1 .. Len(R)
    BY <1>7, <1>13
  <2>2. R[d + 1] = E[d + 1 - d] /\ d + 1 - d = 1
    BY <2>1, <1>13, <1>14
  <2>3. QED
    BY <2>1, <2>2, <1>7
<1>23. QED
  BY <1>16, <1>17, <1>18, <1>19, <1>20, <1>21, <1>22 DEF R

LEMMA MovingIs ==
  ASSUME NEW t \in ResetTasks
  PROVE  LET R == Moving(t) IN
    /\ R \in Seq(Orders)
    /\ \A i \in 1 .. Len(R) :
         \/ Says(R[i], "gamemode", t.mode)
         \/ t.spread /\ Says(R[i], "spread", "far")
         \/ t.start # S!None /\ Says(R[i], "tp", t.start)
    /\ \A i, j \in 1 .. Len(R) : i < j /\ R[i].op = "tp" => R[j].op # "spread"
    /\ t.mode # S!None => \E i \in 1 .. Len(R) : R[i].op = "gamemode"
    /\ t.spread => \E i \in 1 .. Len(R) : R[i].op = "spread"
    /\ t.start # S!None => \E i \in 1 .. Len(R) : R[i].op = "tp"
<1> DEFINE A == S!When(t.mode # S!None, <<S!Command("gamemode", t.mode)>>)
           K == S!When(t.spread, <<S!Command("spread", "far")>>)
           L == S!When(t.start # S!None, <<S!Command("tp", t.start)>>)
<1>1. /\ A \in Seq(Orders) /\ Len(A) = IF t.mode # S!None THEN 1 ELSE 0
      /\ \A i \in 1 .. Len(A) : Says(A[i], "gamemode", t.mode)
  <2>1. (t.mode # S!None) \in BOOLEAN /\ "gamemode" \in Deeds /\ t.mode \in Words
    BY ResetAssumed DEF Deeds, Words
  <2>2. QED
    BY <2>1, PerhapsIs
<1>2. /\ K \in Seq(Orders) /\ Len(K) = IF t.spread THEN 1 ELSE 0
      /\ \A i \in 1 .. Len(K) : t.spread /\ Says(K[i], "spread", "far")
  <2>1. t.spread \in BOOLEAN /\ "spread" \in Deeds /\ "far" \in Words
    BY ResetAssumed DEF Deeds, Words
  <2>2. QED
    BY <2>1, PerhapsIs
<1>3. /\ L \in Seq(Orders) /\ Len(L) = IF t.start # S!None THEN 1 ELSE 0
      /\ \A i \in 1 .. Len(L) : t.start # S!None /\ Says(L[i], "tp", t.start)
  <2>1. (t.start # S!None) \in BOOLEAN /\ "tp" \in Deeds /\ t.start \in Words
    BY ResetAssumed DEF Deeds, Words
  <2>2. QED
    BY <2>1, PerhapsIs
<1>4. Moving(t) = A \o K \o L
  BY DEF Moving
<1> HIDE DEF A, K, L
<1>5. /\ A \o K \in Seq(Orders) /\ Len(A \o K) = Len(A) + Len(K)
      /\ \A i \in 1 .. Len(A) : (A \o K)[i] = A[i]
      /\ \A i \in Len(A) + 1 .. Len(A) + Len(K) : (A \o K)[i] = K[i - Len(A)]
  BY <1>1, <1>2, ConcatIs
<1> DEFINE a == Len(A)  b == Len(A \o K)  R == Moving(t)
<1>6. /\ R \in Seq(Orders) /\ Len(R) = b + Len(L)
      /\ \A i \in 1 .. b : R[i] = (A \o K)[i]
      /\ \A i \in b + 1 .. b + Len(L) : R[i] = L[i - b]
  <2> DEFINE F == A \o K
  <2>1. F \in Seq(Orders) /\ L \in Seq(Orders) /\ R = F \o L
    BY <1>3, <1>4, <1>5
  <2> HIDE DEF F
  <2>2. /\ F \o L \in Seq(Orders) /\ Len(F \o L) = Len(F) + Len(L)
        /\ \A i \in 1 .. Len(F) : (F \o L)[i] = F[i]
        /\ \A i \in Len(F) + 1 .. Len(F) + Len(L) : (F \o L)[i] = L[i - Len(F)]
    BY <2>1, ConcatIs
  <2>3. QED
    BY <2>1, <2>2 DEF F
<1>7. /\ a \in Nat /\ Len(K) \in Nat /\ Len(L) \in Nat /\ b = a + Len(K) /\ Len(R) = b + Len(L)
  BY <1>1, <1>2, <1>3, <1>5, <1>6, LenProperties
<1>8. \A i \in 1 .. a : Says(R[i], "gamemode", t.mode)
  <2>1. \A i \in 1 .. a : i \in 1 .. b
    BY <1>7
  <2>2. QED
    BY <2>1, <1>1, <1>5, <1>6
<1>9. \A i \in a + 1 .. b : t.spread /\ Says(R[i], "spread", "far")
  <2>1. \A i \in a + 1 .. b : i \in 1 .. b /\ i \in a + 1 .. a + Len(K) /\ i - a \in 1 .. Len(K)
    BY <1>7
  <2>2. QED
    BY <2>1, <1>2, <1>5, <1>6
<1>10. \A i \in b + 1 .. Len(R) : t.start # S!None /\ Says(R[i], "tp", t.start)
  <2>1. \A i \in b + 1 .. Len(R) : i \in b + 1 .. b + Len(L) /\ i - b \in 1 .. Len(L)
    BY <1>7
  <2>2. QED
    BY <2>1, <1>3, <1>6
<1> HIDE DEF a, b, R
<1>11. \A i \in 1 .. Len(R) : i \in 1 .. a \/ i \in a + 1 .. b \/ i \in b + 1 .. Len(R)
  BY <1>7
<1>12. \A i \in 1 .. Len(R) :
         \/ Says(R[i], "gamemode", t.mode)
         \/ t.spread /\ Says(R[i], "spread", "far")
         \/ t.start # S!None /\ Says(R[i], "tp", t.start)
  BY <1>8, <1>9, <1>10, <1>11
<1>13. ASSUME NEW i \in 1 .. Len(R), NEW j \in 1 .. Len(R), i < j, R[i].op = "tp"
       PROVE  R[j].op # "spread"
  <2>1. i \in b + 1 .. Len(R)
    BY <1>13, <1>8, <1>9, <1>11 DEF Says
  <2>2. j \in b + 1 .. Len(R)
    BY <2>1, <1>7, <1>13
  <2>3. QED
    BY <2>2, <1>10 DEF Says
<1>14. t.mode # S!None => \E i \in 1 .. Len(R) : R[i].op = "gamemode"
  <2> HAVE t.mode # S!None
  <2>1. 1 \in 1 .. a /\ 1 \in 1 .. Len(R)
    BY <1>1, <1>7 DEF a
  <2>2. QED
    BY <2>1, <1>8 DEF Says
<1>15. t.spread => \E i \in 1 .. Len(R) : R[i].op = "spread"
  <2> HAVE t.spread
  <2>1. a + 1 \in a + 1 .. b /\ a + 1 \in 1 .. Len(R)
    BY <1>2, <1>7
  <2>2. QED
    BY <2>1, <1>9 DEF Says
<1>16. t.start # S!None => \E i \in 1 .. Len(R) : R[i].op = "tp"
  <2> HAVE t.start # S!None
  <2>1. b + 1 \in b + 1 .. Len(R) /\ b + 1 \in 1 .. Len(R)
    BY <1>3, <1>7
  <2>2. QED
    BY <2>1, <1>10 DEF Says
<1>17. R \in Seq(Orders)
  BY <1>6 DEF R
<1>18. QED
  BY <1>12, <1>13, <1>14, <1>15, <1>16, <1>17 DEF R

(* A plan of a configuration that applies the settings of the task: what *)
(* is done before the items, the items, the blocks and the mobs. *)
Preparing == {"clear", "kill", "time", "heal", "feed", "gamemode", "spread", "tp"}

LEMMA SetUpIs ==
  ASSUME NEW t \in ResetTasks, ResetConfig.apply
  PROVE  LET R == S!PlanCommands(t) IN
    /\ R \in Seq(Orders) /\ BeforeItems(t) = Len(Cleaning(t)) + Len(Moving(t))
    /\ \A i \in 1 .. Len(Cleaning(t)) : R[i] = Cleaning(t)[i]
    /\ \A i \in 1 .. Len(Moving(t)) : R[Len(Cleaning(t)) + i] = Moving(t)[i]
    /\ \A i \in BeforeItems(t) + 1 .. BeforeBlocks(t) :
         Says(R[i], "give", t.give[i - BeforeItems(t)])
    /\ \A i \in BeforeBlocks(t) + 1 .. BeforeMobs(t) : R[i].op = "setblock"
    /\ \A i \in BeforeMobs(t) + 1 .. Len(R) : R[i].op = "summon"
<1> DEFINE L == Cleaning(t)  D == Moving(t)  I == S!InventoryCommands(t)  K == S!BlockCommands(t)
           M == S!MobCommands(t)
<1>1. L \in Seq(Orders) /\ D \in Seq(Orders)
  BY CleaningIs, MovingIs
<1>2. /\ I \in Seq(Orders) /\ Len(I) = Len(t.give)
      /\ \A i \in 1 .. Len(t.give) : Says(I[i], "give", t.give[i])
  <2>1. "give" \in Deeds /\ t.give \in Seq(STRING)
    BY ResetAssumed DEF Deeds
  <2>2. QED
    BY <2>1, EachIs, CommandSays DEF S!InventoryCommands
<1>3. /\ K \in Seq(Orders) /\ Len(K) = t.blocks
      /\ \A i \in 1 .. t.blocks : K[i].op = "setblock"
  <2>1. "setblock" \in Deeds /\ S!None \in Words /\ t.blocks \in Nat
    BY ResetAssumed DEF Deeds, S!None, Words
  <2>2. QED
    BY <2>1, TimesIs, CommandSays DEF S!BlockCommands, Says
<1>4. /\ M \in Seq(Orders) /\ Len(M) = t.mobs
      /\ \A i \in 1 .. t.mobs : M[i].op = "summon"
  <2>1. "summon" \in Deeds /\ S!None \in Words /\ t.mobs \in Nat
    BY ResetAssumed DEF Deeds, S!None, Words
  <2>2. QED
    BY <2>1, TimesIs, CommandSays DEF S!MobCommands, Says
<1>5. S!PlanCommands(t) = L \o (D \o I \o K \o M)
  <2>1. S!When(ResetConfig.apply, S!TaskCommands(t)) = S!TaskCommands(t)
    BY DEF S!When
  <2>2. QED
    BY <2>1 DEF S!PlanCommands, S!TaskCommands, Cleaning, Moving
<1> HIDE DEF L, D, I, K, M
<1> DEFINE F == D \o I  E == F \o K  G == E \o M
<1>6. /\ F \in Seq(Orders) /\ Len(F) = Len(D) + Len(I)
      /\ \A i \in 1 .. Len(D) : F[i] = D[i]
      /\ \A i \in Len(D) + 1 .. Len(D) + Len(I) : F[i] = I[i - Len(D)]
  BY <1>1, <1>2, ConcatIs
<1> HIDE DEF F
<1>7. /\ E \in Seq(Orders) /\ Len(E) = Len(F) + Len(K)
      /\ \A i \in 1 .. Len(F) : E[i] = F[i]
      /\ \A i \in Len(F) + 1 .. Len(F) + Len(K) : E[i] = K[i - Len(F)]
  BY <1>3, <1>6, ConcatIs
<1> HIDE DEF E
<1>9. /\ G \in Seq(Orders) /\ Len(G) = Len(E) + Len(M)
      /\ \A i \in 1 .. Len(E) : G[i] = E[i]
      /\ \A i \in Len(E) + 1 .. Len(E) + Len(M) : G[i] = M[i - Len(E)]
  BY <1>4, <1>7, ConcatIs
<1> HIDE DEF G
<1> DEFINE R == S!PlanCommands(t)  c == Len(L)  d == Len(D)
           g == Len(t.give)  b == t.blocks  m == t.mobs
<1>10. R = L \o G
  BY <1>5 DEF E, F, G
<1>11. /\ R \in Seq(Orders) /\ Len(R) = c + Len(G)
       /\ \A i \in 1 .. c : R[i] = L[i]
       /\ \A i \in c + 1 .. c + Len(G) : R[i] = G[i - c]
  <2>1. L \in Seq(Orders) /\ G \in Seq(Orders)
    BY <1>1, <1>9
  <2> HIDE DEF L
  <2>2. /\ L \o G \in Seq(Orders) /\ Len(L \o G) = Len(L) + Len(G)
        /\ \A i \in 1 .. Len(L) : (L \o G)[i] = L[i]
        /\ \A i \in Len(L) + 1 .. Len(L) + Len(G) : (L \o G)[i] = G[i - Len(L)]
    BY <2>1, ConcatIs
  <2>3. QED
    BY <2>2, <1>10
<1>12. /\ c \in Nat /\ d \in Nat /\ g \in Nat /\ b \in Nat /\ m \in Nat
       /\ Len(F) = d + g
       /\ Len(E) = d + g + b
       /\ Len(G) = d + g + b + m
       /\ Len(R) = c + d + g + b + m
  <2>1. /\ c \in Nat /\ d \in Nat /\ g \in Nat /\ b \in Nat /\ m \in Nat
    BY <1>1, ResetAssumed
  <2>2. Len(F) = d + g
    BY <1>2, <1>6
  <2>3. Len(E) = Len(F) + b
    BY <1>3, <1>7
  <2>4. Len(G) = Len(E) + m
    BY <1>4, <1>9
  <2>5. Len(R) = c + Len(G)
    BY <1>11
  <2> HIDE DEF c, d, g, b, m, R
  <2>6. QED
    BY <2>1, <2>2, <2>3, <2>4, <2>5
<1>13. /\ BeforeItems(t) = c + d
       /\ BeforeBlocks(t) = c + d + g
       /\ BeforeMobs(t) = c + d + g + b
  <2>1. /\ BeforeMobs(t) = Len(R) - m /\ BeforeBlocks(t) = BeforeMobs(t) - b
        /\ BeforeItems(t) = BeforeBlocks(t) - g
    BY DEF BeforeItems, BeforeBlocks, BeforeMobs
  <2> HIDE DEF c, d, g, b, m, R
  <2>2. QED
    BY <1>12, <2>1
<1>19. /\ Len(I) = g /\ Len(K) = b /\ Len(M) = m /\ d = Len(D)
       /\ \A i \in 1 .. g : Says(I[i], "give", t.give[i])
       /\ \A i \in 1 .. b : K[i].op = "setblock"
       /\ \A i \in 1 .. m : M[i].op = "summon"
  BY <1>2, <1>3, <1>4
<1> HIDE DEF R, c, d, g, b, m
<1>20. \A i \in c + 1 .. c + Len(G) : R[i] = G[i - c]
  BY <1>11
<1>21. \A i \in 1 .. Len(E) : G[i] = E[i]
  BY <1>9
<1>14. \A i \in 1 .. d : R[c + i] = D[i]
  <2> TAKE i \in 1 .. d
  <2>1. /\ c + i \in c + 1 .. c + Len(G) /\ c + i - c = i
        /\ i \in 1 .. Len(E) /\ i \in 1 .. Len(F)
    BY <1>12
  <2>2. F[i] = D[i]
    BY <1>6 DEF d
  <2>3. E[i] = F[i]
    BY <2>1, <1>7
  <2>4. G[i] = E[i]
    BY <2>1, <1>9
  <2>5. R[c + i] = G[c + i - c]
    BY <2>1, <1>11 DEF R, c
  <2>6. QED
    BY <2>1, <2>2, <2>3, <2>4, <2>5
<1>15. \A i \in c + d + 1 .. c + d + g : Says(R[i], "give", t.give[i - (c + d)])
  <2> TAKE i \in c + d + 1 .. c + d + g
  <2>1. /\ i \in c + 1 .. c + Len(G) /\ i - c \in 1 .. Len(E) /\ i - c \in 1 .. Len(F)
        /\ i - c \in d + 1 .. d + Len(I) /\ i - c - d = i - (c + d)
        /\ i - (c + d) \in 1 .. g
    BY <1>12, <1>19
  <2>2. R[i] = F[i - c]
    <3>1. R[i] = G[i - c]
      <4>1. i \in c + 1 .. c + Len(G)
        BY <2>1
      <4>2. QED
        BY <4>1, <1>20
    <3>2. G[i - c] = E[i - c]
      <4>1. i - c \in 1 .. Len(E)
        BY <2>1
      <4>2. QED
        BY <4>1, <1>21
    <3>3. E[i - c] = F[i - c]
      BY <2>1, <1>7
    <3>4. QED
      BY <3>1, <3>2, <3>3
  <2>3. R[i] = I[i - (c + d)]
    BY <2>1, <2>2, <1>6, <1>19
  <2>4. QED
    BY <2>1, <2>3, <1>19
<1>16. \A i \in c + d + g + 1 .. c + d + g + b : R[i].op = "setblock"
  <2> TAKE i \in c + d + g + 1 .. c + d + g + b
  <2>1. /\ i \in c + 1 .. c + Len(G) /\ i - c \in 1 .. Len(E)
        /\ i - c \in Len(F) + 1 .. Len(F) + Len(K)
        /\ i - c - Len(F) \in 1 .. b
    <3>1. i \in c + 1 .. c + Len(G)
      BY <1>12
    <3>2. i - c \in 1 .. Len(E)
      BY <1>12
    <3>3. i - c \in Len(F) + 1 .. Len(F) + b
      BY <1>12
    <3>4. i - c - Len(F) \in 1 .. b
      BY <1>12
    <3>5. QED
      BY <3>1, <3>2, <3>3, <3>4, <1>19
  <2>2. R[i] = K[i - c - Len(F)]
    <3>1. R[i] = G[i - c]
      <4>1. i \in c + 1 .. c + Len(G)
        BY <2>1
      <4>2. QED
        BY <4>1, <1>20
    <3>2. G[i - c] = E[i - c]
      <4>1. i - c \in 1 .. Len(E)
        BY <2>1
      <4>2. QED
        BY <4>1, <1>21
    <3>3. E[i - c] = K[i - c - Len(F)]
      BY <2>1, <1>7
    <3>4. QED
      BY <3>1, <3>2, <3>3
  <2>3. QED
    BY <2>1, <2>2, <1>19
<1>17. \A i \in c + d + g + b + 1 .. Len(R) : R[i].op = "summon"
  <2> TAKE i \in c + d + g + b + 1 .. Len(R)
  <2>1. /\ i \in c + 1 .. c + Len(G) /\ i - c \in Len(E) + 1 .. Len(E) + Len(M)
        /\ i - c - Len(E) \in 1 .. m
    BY <1>12, <1>19
  <2>2. R[i] = M[i - c - Len(E)]
    <3>1. R[i] = G[i - c]
      <4>1. i \in c + 1 .. c + Len(G)
        BY <2>1
      <4>2. QED
        BY <4>1, <1>20
    <3>2. G[i - c] = M[i - c - Len(E)]
      BY <2>1, <1>9
    <3>3. QED
      BY <3>1, <3>2
  <2>3. QED
    BY <2>1, <2>2, <1>19
<1>18. QED
  BY <1>11, <1>13, <1>14, <1>15, <1>16, <1>17 DEF R, L, D, c, d, g

LEMMA PlanIs ==
  ASSUME NEW t \in ResetTasks
  PROVE  LET R == S!PlanCommands(t)  N == Len(R) IN
    /\ R \in Seq(Orders)
    /\ \A i \in 1 .. N : R[i].op = "time" => R[i].arg = S!TimeOf(t)
    /\ S!TimeOf(t) # S!None => \E i \in 1 .. N : R[i].op = "time"
    /\ ResetConfig.drops /\ t.drops => \E i \in 1 .. N : Says(R[i], "kill", "items")
    /\ ResetConfig.restore => \E i \in 1 .. N : R[i].op = "heal"
<1> DEFINE R == S!PlanCommands(t)  N == Len(R)  L == Cleaning(t)  M == Moving(t)
<1>1. CASE ResetConfig.apply
  <2>1. R \in Seq(Orders)
    BY <1>1, SetUpIs
  <2>2. /\ N \in Nat /\ Len(L) \in Nat /\ Len(L) <= BeforeItems(t)
        /\ BeforeItems(t) <= BeforeBlocks(t) /\ BeforeBlocks(t) <= BeforeMobs(t)
        /\ BeforeMobs(t) <= N /\ BeforeItems(t) \in Nat /\ BeforeMobs(t) \in Nat
        /\ BeforeBlocks(t) \in Nat /\ BeforeItems(t) = Len(L) + Len(M) /\ Len(M) \in Nat
    <3> DEFINE g == Len(t.give)  b == t.blocks  m == t.mobs  c == Len(L)  d == Len(M)
    <3>1. g \in Nat /\ b \in Nat /\ m \in Nat /\ N \in Nat /\ c \in Nat /\ d \in Nat
      BY <2>1, ResetAssumed, CleaningIs, MovingIs
    <3>2. /\ BeforeItems(t) = BeforeBlocks(t) - g /\ BeforeBlocks(t) = BeforeMobs(t) - b
          /\ BeforeMobs(t) = N - m /\ BeforeItems(t) = c + d
      BY <1>1, SetUpIs DEF BeforeItems, BeforeBlocks, BeforeMobs
    <3> HIDE DEF g, b, m, N, c, d
    <3>3. /\ BeforeItems(t) \in Nat /\ BeforeBlocks(t) = BeforeItems(t) + g
          /\ BeforeMobs(t) = BeforeBlocks(t) + b /\ N = BeforeMobs(t) + m
      BY <3>1, <3>2
    <3>4. QED
      BY <3>1, <3>2, <3>3 DEF c, d
  <2>3. \A i \in 1 .. N :
          \/ i \in 1 .. Len(L) /\ R[i] = L[i]
          \/ R[i].op \in {"gamemode", "spread", "tp", "give", "setblock", "summon"}
    <3> TAKE i \in 1 .. N
    <3>1. CASE i \in 1 .. Len(L)
      BY <3>1, <1>1, SetUpIs
    <3>2. CASE i \in Len(L) + 1 .. BeforeItems(t)
      <4>1. /\ i - Len(L) \in 1 .. Len(M) /\ Len(L) + (i - Len(L)) = i
        BY <3>2, <2>2
      <4>2. R[Len(L) + (i - Len(L))] = M[i - Len(L)]
        BY <4>1, <1>1, SetUpIs
      <4>3. QED
        BY <4>1, <4>2, MovingIs DEF Says
    <3>3. CASE i \in BeforeItems(t) + 1 .. BeforeBlocks(t)
      BY <3>3, <1>1, SetUpIs DEF Says
    <3>4. CASE i \in BeforeBlocks(t) + 1 .. BeforeMobs(t)
      BY <3>4, <1>1, SetUpIs
    <3>5. CASE i \in BeforeMobs(t) + 1 .. N
      BY <3>5, <1>1, SetUpIs
    <3>6. \/ i \in 1 .. Len(L) \/ i \in Len(L) + 1 .. BeforeItems(t)
          \/ i \in BeforeItems(t) + 1 .. BeforeBlocks(t)
          \/ i \in BeforeBlocks(t) + 1 .. BeforeMobs(t) \/ i \in BeforeMobs(t) + 1 .. N
      <4> HIDE DEF N
      <4>1. QED
        BY <2>2
    <3>7. QED
      BY <3>1, <3>2, <3>3, <3>4, <3>5, <3>6
  <2>4. \A i \in 1 .. Len(L) : i \in 1 .. N /\ R[i] = L[i]
    <3>1. \A i \in 1 .. Len(L) : R[i] = L[i]
      BY <1>1, SetUpIs
    <3> HIDE DEF N, R
    <3>2. QED
      BY <3>1, <2>2
  <2> HIDE DEF R, N, L
  <2>5. \A i \in 1 .. N : R[i].op = "time" => R[i].arg = S!TimeOf(t)
    BY <2>3, CleaningIs DEF L
  <2>6. /\ S!TimeOf(t) # S!None => \E i \in 1 .. N : R[i].op = "time"
        /\ ResetConfig.drops /\ t.drops => \E i \in 1 .. N : Says(R[i], "kill", "items")
        /\ ResetConfig.restore => \E i \in 1 .. N : R[i].op = "heal"
    BY <2>4, CleaningIs DEF L
  <2>7. QED
    BY <2>1, <2>5, <2>6 DEF R, N
<1>2. CASE ~ResetConfig.apply
  <2>1. S!When(ResetConfig.apply, S!TaskCommands(t)) = <<>>
    BY <1>2 DEF S!When
  <2>2. R = L \o <<>>
    BY <2>1 DEF S!PlanCommands, Cleaning
  <2>3. R = L
    BY <2>2, CleaningIs, ConcatEmptySeq
  <2>4. QED
    BY <2>3, CleaningIs
<1>3. QED
  BY <1>1, <1>2

(* The plan of any configuration: the part of the task comes last. *)
LEMMA TaskPlanIs ==
  ASSUME NEW t \in ResetTasks, ResetConfig.apply
  PROVE  LET R == S!PlanCommands(t)  N == Len(R)  G == BeforeItems(t) IN
    /\ G \in Nat /\ BeforeBlocks(t) \in Nat /\ BeforeMobs(t) \in Nat /\ N \in Nat
    /\ G <= BeforeBlocks(t) /\ BeforeBlocks(t) <= BeforeMobs(t) /\ BeforeMobs(t) <= N
    /\ BeforeBlocks(t) - G = Len(t.give)
    /\ BeforeMobs(t) - BeforeBlocks(t) = t.blocks /\ N - BeforeMobs(t) = t.mobs
    /\ \A i \in 1 .. G : R[i].op \in Preparing
    /\ \A i \in G + 1 .. BeforeBlocks(t) : Says(R[i], "give", t.give[i - G])
    /\ \A i \in BeforeBlocks(t) + 1 .. BeforeMobs(t) : R[i].op = "setblock"
    /\ \A i \in BeforeMobs(t) + 1 .. N : R[i].op = "summon"
    /\ \A i \in 1 .. G : /\ R[i].op = "gamemode" => R[i].arg = t.mode
                         /\ R[i].op = "tp" => R[i].arg = t.start /\ t.start # S!None
                         /\ R[i].op = "spread" => R[i].arg = "far" /\ t.spread
    /\ \A i, j \in 1 .. G : i < j /\ R[i].op = "tp" => R[j].op # "spread"
    /\ t.mode # S!None => \E i \in 1 .. G : R[i].op = "gamemode"
    /\ t.spread => \E i \in 1 .. G : R[i].op = "spread"
    /\ t.start # S!None => \E i \in 1 .. G : R[i].op = "tp"
    /\ \E i \in 1 .. G : Says(R[i], "kill", "owned")
    /\ t.clear /\ ResetConfig.clear =>
         G >= 1 /\ Says(R[1], "clear", S!None) /\ \A i \in 2 .. G : R[i].op # "clear"
<1> DEFINE R == S!PlanCommands(t)  N == Len(R)  G == BeforeItems(t)  L == Cleaning(t)
           M == Moving(t)  c == Len(L)  d == Len(M)
<1>1. /\ R \in Seq(Orders) /\ G = c + d /\ c \in Nat /\ d \in Nat /\ N \in Nat
      /\ \A i \in 1 .. c : R[i] = L[i]
      /\ \A i \in 1 .. d : R[c + i] = M[i]
  BY SetUpIs, CleaningIs, MovingIs
<1>2. /\ G \in Nat /\ BeforeBlocks(t) \in Nat /\ BeforeMobs(t) \in Nat /\ N \in Nat
      /\ G <= BeforeBlocks(t) /\ BeforeBlocks(t) <= BeforeMobs(t) /\ BeforeMobs(t) <= N
      /\ BeforeBlocks(t) - G = Len(t.give)
      /\ BeforeMobs(t) - BeforeBlocks(t) = t.blocks /\ N - BeforeMobs(t) = t.mobs
  <2> DEFINE g == Len(t.give)  b == t.blocks  m == t.mobs
  <2>1. g \in Nat /\ b \in Nat /\ m \in Nat
    BY ResetAssumed
  <2>2. /\ G = BeforeBlocks(t) - g /\ BeforeBlocks(t) = BeforeMobs(t) - b
        /\ BeforeMobs(t) = N - m
    BY DEF BeforeItems, BeforeBlocks, BeforeMobs
  <2> HIDE DEF g, b, m, N, G, c, d
  <2>3. /\ G \in Nat /\ BeforeBlocks(t) = G + g
        /\ BeforeMobs(t) = BeforeBlocks(t) + b /\ N = BeforeMobs(t) + m
    BY <1>1, <2>1, <2>2
  <2>4. /\ G \in Nat /\ BeforeBlocks(t) \in Nat /\ BeforeMobs(t) \in Nat /\ N \in Nat
        /\ G <= BeforeBlocks(t) /\ BeforeBlocks(t) <= BeforeMobs(t) /\ BeforeMobs(t) <= N
        /\ BeforeBlocks(t) - G = g /\ BeforeMobs(t) - BeforeBlocks(t) = b /\ N - BeforeMobs(t) = m
    BY <1>1, <2>1, <2>3
  <2>5. QED
    BY <2>4 DEF g, b, m
<1>3. /\ \A i \in G + 1 .. BeforeBlocks(t) : Says(R[i], "give", t.give[i - G])
      /\ \A i \in BeforeBlocks(t) + 1 .. BeforeMobs(t) : R[i].op = "setblock"
      /\ \A i \in BeforeMobs(t) + 1 .. N : R[i].op = "summon"
  BY SetUpIs
<1> HIDE DEF R, N, G, L, M, c, d
<1>4. \A i \in 1 .. G :
        \/ i \in 1 .. c /\ R[i] = L[i]
        \/ i - c \in 1 .. d /\ i > c /\ R[i] = M[i - c]
  <2> TAKE i \in 1 .. G
  <2>1. CASE i <= c
    BY <2>1, <1>1
  <2>2. CASE i > c
    <3>1. i - c \in 1 .. d /\ c + (i - c) = i
      BY <2>2, <1>1
    <3>2. R[c + (i - c)] = M[i - c]
      BY <3>1, <1>1
    <3>3. QED
      BY <3>1, <3>2, <2>2
  <2>3. QED
    BY <2>1, <2>2, <1>1
<1>5. /\ \A i \in 1 .. c : i \in 1 .. G
      /\ \A i \in 1 .. d : c + i \in 1 .. G
  BY <1>1
<1>6. \A i \in 1 .. G :
        /\ R[i].op \in Preparing
        /\ R[i].op = "gamemode" => R[i].arg = t.mode
        /\ R[i].op = "tp" => R[i].arg = t.start /\ t.start # S!None
        /\ R[i].op = "spread" => R[i].arg = "far" /\ t.spread
  <2> TAKE i \in 1 .. G
  <2>1. CASE i \in 1 .. c /\ R[i] = L[i]
    BY <2>1, CleaningIs DEF L, c, Preparing
  <2>2. CASE i - c \in 1 .. d /\ R[i] = M[i - c]
    BY <2>2, MovingIs DEF M, d, Preparing, Says
  <2>3. QED
    BY <1>4, <2>1, <2>2
<1>7. ASSUME NEW i \in 1 .. G, NEW j \in 1 .. G, i < j, R[i].op = "tp"
      PROVE  R[j].op # "spread"
  <2>1. ~(i \in 1 .. c /\ R[i] = L[i])
    BY <1>7, CleaningIs DEF L, c
  <2>2. i - c \in 1 .. d /\ i > c /\ R[i] = M[i - c]
    BY <2>1, <1>4
  <2>3. j - c \in 1 .. d /\ R[j] = M[j - c] /\ i - c < j - c
    BY <2>2, <1>1, <1>4, <1>7
  <2>4. QED
    BY <2>2, <2>3, <1>7, MovingIs DEF M, d
<1>8. /\ t.mode # S!None => \E i \in 1 .. G : R[i].op = "gamemode"
      /\ t.spread => \E i \in 1 .. G : R[i].op = "spread"
      /\ t.start # S!None => \E i \in 1 .. G : R[i].op = "tp"
  <2>1. /\ t.mode # S!None => \E i \in 1 .. d : M[i].op = "gamemode"
        /\ t.spread => \E i \in 1 .. d : M[i].op = "spread"
        /\ t.start # S!None => \E i \in 1 .. d : M[i].op = "tp"
    BY MovingIs DEF M, d
  <2>2. QED
    BY <2>1, <1>1, <1>5
<1>9. \E i \in 1 .. G : Says(R[i], "kill", "owned")
  BY <1>1, <1>5, CleaningIs DEF L, c
<1>10. t.clear /\ ResetConfig.clear =>
         G >= 1 /\ Says(R[1], "clear", S!None) /\ \A i \in 2 .. G : R[i].op # "clear"
  <2> SUFFICES ASSUME t.clear, ResetConfig.clear
               PROVE  G >= 1 /\ Says(R[1], "clear", S!None) /\ \A i \in 2 .. G : R[i].op # "clear"
    OBVIOUS
  <2>1. c >= 1 /\ Says(L[1], "clear", S!None) /\ \A i \in 2 .. c : L[i].op # "clear"
    BY CleaningIs DEF L, c
  <2>2. G >= 1 /\ Says(R[1], "clear", S!None)
    <3>1. 1 \in 1 .. c /\ G >= 1
      BY <2>1, <1>1
    <3>2. R[1] = L[1]
      BY <3>1, <1>1
    <3>3. QED
      BY <3>1, <3>2, <2>1
  <2>3. ASSUME NEW i \in 2 .. G  PROVE R[i].op # "clear"
    <3>1. i \in 1 .. G
      OBVIOUS
    <3>2. CASE i \in 1 .. c /\ R[i] = L[i]
      BY <3>2, <2>1
    <3>3. CASE i - c \in 1 .. d /\ R[i] = M[i - c]
      BY <3>3, MovingIs DEF M, d, Says
    <3>4. QED
      BY <3>1, <3>2, <3>3, <1>4
  <2>4. QED
    BY <2>2, <2>3
<1>11. QED
  BY <1>2, <1>3, <1>6, <1>7, <1>8, <1>9, <1>10 DEF R, N, G
--------------------
IsWorld(w) ==
  /\ w = [items |-> w.items, drops |-> w.drops, hurt |-> w.hurt, mode |-> w.mode,
          place |-> w.place, time |-> w.time, blocks |-> w.blocks, mobs |-> w.mobs]
  /\ w.place \in Words /\ w.blocks \in Seq(Words)

(* What one command does to a world. *)
LEMMA ApplyIs ==
  ASSUME NEW w, IsWorld(w), NEW c \in Orders
  PROVE  LET v == S!Apply(w, c) IN
    /\ IsWorld(v)
    /\ v.hurt = IF c.op = "heal" THEN FALSE ELSE w.hurt
    /\ v.drops = IF Says(c, "kill", "items") THEN FALSE ELSE w.drops
    /\ v.time = IF c.op = "time" THEN c.arg ELSE w.time
    /\ v.mode = IF c.op = "gamemode" THEN c.arg ELSE w.mode
    /\ v.place = IF c.op \in {"spread", "tp"} THEN c.arg ELSE w.place
    /\ v.blocks = IF c.op = "setblock" THEN Append(w.blocks, w.place) ELSE w.blocks
    /\ v.mobs = IF c.op = "summon" THEN Append(w.mobs, w.place)
                ELSE IF Says(c, "kill", "owned") THEN <<>> ELSE w.mobs
    /\ c.op # "clear" => v.items = IF c.op = "give" THEN Append(w.items, c.arg) ELSE w.items
    /\ Says(c, "clear", S!None) => v.items = <<>>
<1> DEFINE v == S!Apply(w, c)
<1>1. c.op \in Deeds /\ c.arg \in Words
  BY DEF Orders
<1>2. CASE c.op = "clear" /\ c.arg = S!None
  <2>1. v = [w EXCEPT !.items = <<>>]
    BY <1>2 DEF S!Apply
  <2>2. QED
    BY <1>2, <2>1 DEF IsWorld, Says
<1>3. CASE c.op = "clear" /\ c.arg # S!None
  <2> DEFINE s == SelectSeq(w.items, LAMBDA x : x # c.arg)
  <2>1. v = [w EXCEPT !.items = s]
    BY <1>3 DEF S!Apply
  <2> HIDE DEF s
  <2>2. QED
    BY <1>3, <2>1 DEF IsWorld, Says
<1>4. CASE c.op = "kill" /\ c.arg = "items"
  <2>1. v = [w EXCEPT !.drops = FALSE]
    BY <1>4 DEF S!Apply
  <2>2. QED
    BY <1>4, <2>1 DEF IsWorld, Says, S!None
<1>5. CASE c.op = "kill" /\ c.arg = "owned"
  <2>1. v = [w EXCEPT !.mobs = <<>>]
    BY <1>5 DEF S!Apply
  <2>2. QED
    BY <1>5, <2>1 DEF IsWorld, Says, S!None
<1>6. CASE c.op = "time"
  <2>1. v = [w EXCEPT !.time = c.arg]
    BY <1>6 DEF S!Apply
  <2>2. QED
    BY <1>6, <2>1 DEF IsWorld, Says
<1>7. CASE c.op = "heal"
  <2>1. v = [w EXCEPT !.hurt = FALSE]
    BY <1>7 DEF S!Apply
  <2>2. QED
    BY <1>7, <2>1 DEF IsWorld, Says
<1>8. CASE c.op = "gamemode"
  <2>1. v = [w EXCEPT !.mode = c.arg]
    BY <1>8 DEF S!Apply
  <2>2. QED
    BY <1>8, <2>1 DEF IsWorld, Says
<1>9. CASE c.op \in {"spread", "tp"}
  <2>1. v = [w EXCEPT !.place = c.arg]
    BY <1>9 DEF S!Apply
  <2>2. QED
    BY <1>1, <1>9, <2>1 DEF IsWorld, Says
<1>10. CASE c.op = "give"
  <2>1. v = [w EXCEPT !.items = Append(w.items, c.arg)]
    BY <1>10 DEF S!Apply
  <2>2. QED
    BY <1>10, <2>1 DEF IsWorld, Says
<1>11. CASE c.op = "setblock"
  <2>1. v = [w EXCEPT !.blocks = Append(w.blocks, w.place)]
    BY <1>11 DEF S!Apply
  <2>2. Append(w.blocks, w.place) \in Seq(Words)
    BY DEF IsWorld
  <2>3. QED
    BY <1>11, <2>1, <2>2 DEF IsWorld, Says
<1>12. CASE c.op = "summon"
  <2>1. v = [w EXCEPT !.mobs = Append(w.mobs, w.place)]
    BY <1>12 DEF S!Apply
  <2>2. QED
    BY <1>12, <2>1 DEF IsWorld, Says
<1>13. CASE \/ c.op \in {"feed", "locate"}
            \/ c.op = "kill" /\ c.arg \notin {"items", "owned"}
  <2>1. v = w
    BY <1>13 DEF S!Apply
  <2>2. QED
    BY <1>13, <2>1 DEF IsWorld, Says
<1>14. QED
  BY <1>1, <1>2, <1>3, <1>4, <1>5, <1>6, <1>7, <1>8, <1>9, <1>10, <1>11, <1>12, <1>13 DEF Deeds

(* What the first n commands of a plan have done: whether one of them was *)
(* of a kind, and how many items, blocks and mobs they have put there. *)
Done(t, n, op) == \E i \in 1 .. n : S!PlanCommands(t)[i].op = op
Killed(t, n, what) == \E i \in 1 .. n : Says(S!PlanCommands(t)[i], "kill", what)
Of(n, from, to) == IF n <= from THEN 0 ELSE IF n <= to THEN n - from ELSE to - from
Given(t, n) == Of(n, BeforeItems(t), BeforeBlocks(t))
Placed(t, n) == Of(n, BeforeBlocks(t), BeforeMobs(t))
Summoned(t, n) == Of(n, BeforeMobs(t), Len(S!PlanCommands(t)))

(* What the world holds once the first n commands of the plan of a task *)
(* are executed, whatever it held before. *)
StagedTask(t, n, w) ==
  /\ Done(t, n, "gamemode") => w.mode = t.mode
  /\ Done(t, n, "tp") => w.place = t.start
  /\ Done(t, n, "spread") /\ ~Done(t, n, "tp") => w.place = "far"
  /\ S!Align(t) => w.place = t.biome
  /\ t.clear /\ ResetConfig.clear /\ n >= 1 =>
       /\ w.items \in Seq(Words) /\ Len(w.items) = Given(t, n)
       /\ \A i \in 1 .. Given(t, n) : w.items[i] = t.give[i]
  /\ Killed(t, n, "owned") =>
       /\ w.mobs \in Seq(Words) /\ Len(w.mobs) = Summoned(t, n)
       /\ \A i \in 1 .. Summoned(t, n) : w.mobs[i] = w.place
  /\ Len(w.blocks) >= Placed(t, n)
  /\ \A i \in 1 .. Len(w.blocks) : i > Len(w.blocks) - Placed(t, n) => w.blocks[i] = w.place
Staged(t, n, w) ==
  /\ Done(t, n, "heal") => ~w.hurt
  /\ Killed(t, n, "items") => ~w.drops
  /\ Done(t, n, "time") => w.time = S!TimeOf(t)
  /\ ResetConfig.apply => StagedTask(t, n, w)

(* With nothing executed there is nothing to say, but for the biome. *)
LEMMA StageBegins ==
  ASSUME NEW t \in ResetTasks, NEW w, IsWorld(w), S!Align(t) => w.place = t.biome
  PROVE  Staged(t, 0, w)
<1>1. \A op : ~Done(t, 0, op) /\ ~Killed(t, 0, op)
  BY DEF Done, Killed
<1>2. ResetConfig.apply => Placed(t, 0) = 0
  BY TaskPlanIs DEF Placed, Of
<1>3. Len(w.blocks) \in Nat
  BY DEF IsWorld
<1>4. QED
  BY <1>1, <1>2, <1>3 DEF Staged, StagedTask

(* One more command is one more of the part it stands in, and of no other. *)
LEMMA OneMore ==
  ASSUME NEW t, NEW n \in Nat
  PROVE  /\ \A op : Done(t, n + 1, op) <=> Done(t, n, op) \/ S!PlanCommands(t)[n + 1].op = op
         /\ \A what : Killed(t, n + 1, what) <=>
              Killed(t, n, what) \/ Says(S!PlanCommands(t)[n + 1], "kill", what)
<1>1. \A i : i \in 1 .. n + 1 <=> i \in 1 .. n \/ i = n + 1
  OBVIOUS
<1>2. QED
  BY <1>1 DEF Done, Killed

(* The next command of a plan, executed, takes the world from one stage to *)
(* the next: this is where the order of the parts of a plan matters. *)
LEMMA StageGoesOn ==
  ASSUME NEW t \in ResetTasks, NEW n \in Nat, n < Len(S!PlanCommands(t)), NEW w, IsWorld(w),
         Staged(t, n, w)
  PROVE  Staged(t, n + 1, S!Apply(w, S!PlanCommands(t)[n + 1]))
<1> DEFINE R == S!PlanCommands(t)  c == R[n + 1]  v == S!Apply(w, c)  N == Len(R)
           G == BeforeItems(t)  K == BeforeBlocks(t)  M == BeforeMobs(t)
<1>1. R \in Seq(Orders) /\ n + 1 \in 1 .. N /\ N \in Nat
  BY PlanIs
<1>2. c \in Orders
  BY <1>1, ElementOfSeq
<1>3. /\ IsWorld(v)
      /\ v.hurt = IF c.op = "heal" THEN FALSE ELSE w.hurt
      /\ v.drops = IF Says(c, "kill", "items") THEN FALSE ELSE w.drops
      /\ v.time = IF c.op = "time" THEN c.arg ELSE w.time
      /\ v.mode = IF c.op = "gamemode" THEN c.arg ELSE w.mode
      /\ v.place = IF c.op \in {"spread", "tp"} THEN c.arg ELSE w.place
      /\ v.blocks = IF c.op = "setblock" THEN Append(w.blocks, w.place) ELSE w.blocks
      /\ v.mobs = IF c.op = "summon" THEN Append(w.mobs, w.place)
                  ELSE IF Says(c, "kill", "owned") THEN <<>> ELSE w.mobs
      /\ c.op # "clear" => v.items = IF c.op = "give" THEN Append(w.items, c.arg) ELSE w.items
      /\ Says(c, "clear", S!None) => v.items = <<>>
  BY <1>2, ApplyIs
<1>4. c.op = "time" => c.arg = S!TimeOf(t)
  BY <1>1, PlanIs
<1> HIDE DEF v
<1>5. /\ Done(t, n + 1, "heal") => ~v.hurt
      /\ Killed(t, n + 1, "items") => ~v.drops
      /\ Done(t, n + 1, "time") => v.time = S!TimeOf(t)
  BY <1>3, <1>4, OneMore DEF Staged
<1>6. ASSUME ResetConfig.apply  PROVE StagedTask(t, n + 1, v)
  <2>1. StagedTask(t, n, w)
    BY <1>6 DEF Staged
  <2>2. /\ G \in Nat /\ K \in Nat /\ M \in Nat /\ N \in Nat /\ G <= K /\ K <= M /\ M <= N
        /\ K - G = Len(t.give)
    BY <1>6, TaskPlanIs
  <2>3. /\ n + 1 <= G => c.op \in Preparing
        /\ G < n + 1 /\ n + 1 <= K => Says(c, "give", t.give[n + 1 - G])
        /\ K < n + 1 /\ n + 1 <= M => c.op = "setblock"
        /\ M < n + 1 => c.op = "summon"
    <3>1. /\ n + 1 <= G => n + 1 \in 1 .. G
          /\ G < n + 1 /\ n + 1 <= K => n + 1 \in G + 1 .. K
          /\ K < n + 1 /\ n + 1 <= M => n + 1 \in K + 1 .. M
          /\ M < n + 1 => n + 1 \in M + 1 .. N
      <4> HIDE DEF G, K, M, N
      <4>1. QED
        BY <1>1, <2>2
    <3>2. /\ \A i \in 1 .. G : R[i].op \in Preparing
          /\ \A i \in G + 1 .. K : Says(R[i], "give", t.give[i - G])
          /\ \A i \in K + 1 .. M : R[i].op = "setblock"
          /\ \A i \in M + 1 .. N : R[i].op = "summon"
      BY <1>6, TaskPlanIs
    <3> HIDE DEF G, K, M, N, R, c
    <3>3. n + 1 <= G => c.op \in Preparing
      BY <3>1, <3>2 DEF c
    <3>4. G < n + 1 /\ n + 1 <= K => Says(c, "give", t.give[n + 1 - G])
      <4> SUFFICES ASSUME G < n + 1 /\ n + 1 <= K
                   PROVE  Says(R[n + 1], "give", t.give[n + 1 - G])
        BY DEF c
      <4>1. n + 1 \in G + 1 .. K
        BY <3>1
      <4>2. Says(R[n + 1], "give", t.give[(n + 1) - G])
        BY <4>1, <3>2
      <4>3. n + 1 - G = (n + 1) - G
        BY <2>2
      <4>4. QED
        BY <4>2, <4>3
    <3>5. K < n + 1 /\ n + 1 <= M => c.op = "setblock"
      BY <3>1, <3>2 DEF c
    <3>6. M < n + 1 => c.op = "summon"
      BY <3>1, <3>2 DEF c
    <3>7. QED
      BY <3>3, <3>4, <3>5, <3>6
  <2>4. n + 1 <= G =>
          /\ c.op = "gamemode" => c.arg = t.mode
          /\ c.op = "tp" => c.arg = t.start /\ t.start # S!None
          /\ c.op = "spread" => c.arg = "far" /\ t.spread
          /\ c.op = "spread" => ~Done(t, n, "tp")
    <3> HAVE n + 1 <= G
    <3>1. n + 1 \in 1 .. G /\ \A i \in 1 .. n : i \in 1 .. G /\ i < n + 1
      <4> HIDE DEF G
      <4>1. QED
        BY <2>2
    <3>2. \A i \in 1 .. G : /\ R[i].op = "gamemode" => R[i].arg = t.mode
                            /\ R[i].op = "tp" => R[i].arg = t.start /\ t.start # S!None
                            /\ R[i].op = "spread" => R[i].arg = "far" /\ t.spread
      BY <1>6, TaskPlanIs
    <3>3. \A i, j \in 1 .. G : i < j /\ R[i].op = "tp" => R[j].op # "spread"
      BY <1>6, TaskPlanIs
    <3> HIDE DEF G, R, c
    <3>4. c.op = "spread" => ~Done(t, n, "tp")
      BY <3>1, <3>3 DEF Done, R, c
    <3>5. QED
      BY <3>1, <3>2, <3>4 DEF c
  <2>5. n + 1 > G => c.op \in {"give", "setblock", "summon"}
    <3> HIDE DEF G, K, M, N, c
    <3>1. QED
      BY <1>1, <2>2, <2>3 DEF Says
  <2> HIDE DEF G, K, M, N, c
  <2>6. /\ Done(t, n + 1, "gamemode") => v.mode = t.mode
        /\ Done(t, n + 1, "tp") => v.place = t.start
        /\ Done(t, n + 1, "spread") /\ ~Done(t, n + 1, "tp") => v.place = "far"
        /\ S!Align(t) => v.place = t.biome
    <3>1. /\ \A op : Done(t, n + 1, op) <=> Done(t, n, op) \/ c.op = op
      BY OneMore DEF c, R
    <3>2. n + 1 <= G \/ n + 1 > G
      BY <2>2
    <3>3. n + 1 > G => v.place = w.place /\ v.mode = w.mode
      BY <1>3, <2>5
    <3>4. Done(t, n + 1, "gamemode") => v.mode = t.mode
      BY <1>3, <2>1, <2>4, <2>5, <3>1, <3>2 DEF StagedTask
    <3>5. Done(t, n + 1, "tp") => v.place = t.start
      BY <1>3, <2>1, <2>4, <2>5, <3>1, <3>2 DEF StagedTask
    <3>6. Done(t, n + 1, "spread") /\ ~Done(t, n + 1, "tp") => v.place = "far"
      BY <1>3, <2>1, <2>4, <2>5, <3>1, <3>2 DEF StagedTask
    <3>7. S!Align(t) => v.place = t.biome
      <4>1. S!Align(t) => ~t.spread /\ t.start = S!None
        BY DEF S!Align
      <4>2. QED
        BY <1>3, <2>1, <2>4, <2>5, <3>2, <4>1 DEF StagedTask
    <3>8. QED
      BY <3>4, <3>5, <3>6, <3>7
  <2>7. ASSUME t.clear, ResetConfig.clear
        PROVE  /\ v.items \in Seq(Words) /\ Len(v.items) = Given(t, n + 1)
               /\ \A i \in 1 .. Given(t, n + 1) : v.items[i] = t.give[i]
    <3>1. G >= 1 /\ (n = 0 => Says(c, "clear", S!None)) /\ (n > 0 /\ n + 1 <= G => c.op # "clear")
      <4>1. /\ G >= 1 /\ Says(R[1], "clear", S!None)
            /\ \A i \in 2 .. G : R[i].op # "clear"
        BY <1>6, <2>7, TaskPlanIs DEF G
      <4>2. n > 0 /\ n + 1 <= G => n + 1 \in 2 .. G
        BY <2>2
      <4> HIDE DEF R
      <4>3. n = 0 => c = R[1]
        BY DEF c
      <4>4. n + 1 \in 2 .. G => c.op # "clear"
        BY <4>1 DEF c
      <4>5. QED
        BY <4>1, <4>2, <4>3, <4>4
    <3>2. CASE n = 0
      <4>1. v.items = <<>> /\ Given(t, n + 1) = 0
        BY <1>3, <2>2, <3>1, <3>2 DEF Given, Of, G, K
      <4>2. QED
        BY <4>1
    <3>3. CASE n > 0
      <4>1. /\ w.items \in Seq(Words) /\ Len(w.items) = Given(t, n)
            /\ \A i \in 1 .. Given(t, n) : w.items[i] = t.give[i]
        BY <2>1, <2>7, <3>3 DEF StagedTask
      <4>2. CASE G < n + 1 /\ n + 1 <= K
        <5>1. c.op = "give" /\ c.arg = t.give[n + 1 - G]
          BY <2>3, <4>2 DEF Says
        <5>2. Given(t, n) = n - G /\ Given(t, n + 1) = n + 1 - G /\ n - G \in Nat
          BY <2>2, <4>2 DEF Given, Of, G, K
        <5>3. v.items = Append(w.items, t.give[n + 1 - G]) /\ c.arg \in Words
          BY <1>2, <1>3, <5>1 DEF Orders, c
        <5>4. /\ v.items \in Seq(Words) /\ Len(v.items) = Len(w.items) + 1
              /\ \A i \in 1 .. Len(w.items) : v.items[i] = w.items[i]
              /\ v.items[Len(w.items) + 1] = t.give[n + 1 - G]
          BY <4>1, <5>1, <5>3, AppendProperties
        <5>5. \A i \in 1 .. n + 1 - G : i \in 1 .. n - G \/ i = n - G + 1
          BY <2>2, <4>2
        <5>6. n - G + 1 = n + 1 - G
          BY <5>2, <2>2
        <5>7. QED
          BY <4>1, <5>2, <5>4, <5>5, <5>6
      <4>3. CASE ~(G < n + 1 /\ n + 1 <= K)
        <5>1. c.op # "give" /\ c.op # "clear"
          BY <1>1, <2>2, <2>3, <3>1, <3>3, <4>3 DEF Preparing
        <5>2. Given(t, n + 1) = Given(t, n)
          BY <2>2, <4>3 DEF Given, Of, G, K
        <5>3. QED
          BY <1>3, <4>1, <5>1, <5>2
      <4>4. QED
        BY <4>2, <4>3
    <3>4. QED
      BY <3>2, <3>3
  <2>8. ASSUME Killed(t, n + 1, "owned")
        PROVE  /\ v.mobs \in Seq(Words) /\ Len(v.mobs) = Summoned(t, n + 1)
               /\ \A i \in 1 .. Summoned(t, n + 1) : v.mobs[i] = v.place
    <3>1. Killed(t, n, "owned") \/ Says(c, "kill", "owned")
      BY <2>8, OneMore DEF c, R
    <3>2. CASE Says(c, "kill", "owned")
      <4>1. n + 1 <= M
        BY <1>1, <2>2, <2>3, <3>2 DEF Says
      <4>2. Summoned(t, n + 1) = 0
        BY <2>2, <4>1 DEF Summoned, Of, M, N, R
      <4>3. v.mobs = <<>>
        BY <1>3, <3>2 DEF Says
      <4>4. QED
        BY <4>2, <4>3
    <3>3. CASE Killed(t, n, "owned") /\ ~Says(c, "kill", "owned")
      <4>1. /\ w.mobs \in Seq(Words) /\ Len(w.mobs) = Summoned(t, n)
            /\ \A i \in 1 .. Summoned(t, n) : w.mobs[i] = w.place
        BY <2>1, <3>3 DEF StagedTask
      <4>2. CASE n + 1 > M
        <5>1. c.op = "summon" /\ v.place = w.place
          BY <1>3, <2>3, <4>2
        <5>2. Summoned(t, n) = n - M /\ Summoned(t, n + 1) = n + 1 - M /\ n - M \in Nat
          BY <1>1, <2>2, <4>2 DEF Summoned, Of, M, N, R
        <5>3. v.mobs = Append(w.mobs, w.place) /\ w.place \in Words
          BY <1>3, <5>1 DEF IsWorld
        <5>4. /\ v.mobs \in Seq(Words) /\ Len(v.mobs) = Len(w.mobs) + 1
              /\ \A i \in 1 .. Len(w.mobs) : v.mobs[i] = w.mobs[i]
              /\ v.mobs[Len(w.mobs) + 1] = w.place
          BY <4>1, <5>3, AppendProperties
        <5>5. \A i \in 1 .. n + 1 - M : i \in 1 .. n - M \/ i = n - M + 1
          BY <2>2, <4>2
        <5>6. n - M + 1 = n + 1 - M
          BY <5>2, <2>2
        <5>7. QED
          BY <4>1, <5>1, <5>2, <5>4, <5>5, <5>6
      <4>3. CASE n + 1 <= M
        <5>1. c.op # "summon"
          BY <2>2, <2>3, <4>3 DEF Preparing, Says
        <5>2. Summoned(t, n + 1) = 0 /\ Summoned(t, n) = 0
          BY <2>2, <4>3 DEF Summoned, Of, M, N, R
        <5>3. v.mobs = w.mobs
          BY <1>3, <3>3, <5>1
        <5>4. QED
          BY <4>1, <5>2, <5>3
      <4>4. QED
        BY <2>2, <4>2, <4>3
    <3>4. QED
      BY <3>1, <3>2, <3>3
  <2>9. /\ Len(v.blocks) >= Placed(t, n + 1)
        /\ \A i \in 1 .. Len(v.blocks) :
             i > Len(v.blocks) - Placed(t, n + 1) => v.blocks[i] = v.place
    <3>1. /\ w.blocks \in Seq(Words) /\ w.place \in Words /\ Len(w.blocks) \in Nat
          /\ Len(w.blocks) >= Placed(t, n)
          /\ \A i \in 1 .. Len(w.blocks) :
               i > Len(w.blocks) - Placed(t, n) => w.blocks[i] = w.place
      BY <2>1 DEF StagedTask, IsWorld
    <3>2. CASE n + 1 <= K
      <4>1. Placed(t, n + 1) = 0
        BY <2>2, <3>2 DEF Placed, Of, K, M
      <4>2. Len(v.blocks) \in Nat
        BY <1>3 DEF IsWorld
      <4>3. QED
        BY <4>1, <4>2
    <3>3. CASE K < n + 1 /\ n + 1 <= M
      <4>1. c.op = "setblock" /\ v.place = w.place /\ v.blocks = Append(w.blocks, w.place)
        BY <1>3, <2>3, <3>3
      <4>2. Placed(t, n + 1) = Placed(t, n) + 1 /\ Placed(t, n) \in Nat
        BY <2>2, <3>3 DEF Placed, Of, K, M
      <4>3. /\ Len(v.blocks) = Len(w.blocks) + 1
            /\ \A i \in 1 .. Len(w.blocks) : v.blocks[i] = w.blocks[i]
            /\ v.blocks[Len(w.blocks) + 1] = w.place
        BY <3>1, <4>1, AppendProperties
      <4> DEFINE k == Len(w.blocks)  p == Placed(t, n)
      <4>4. k \in Nat /\ p \in Nat /\ k >= p
        BY <3>1, <4>2
      <4> HIDE DEF k, p
      <4>5. ASSUME NEW i \in 1 .. k + 1, i > k + 1 - (p + 1)
            PROVE  v.blocks[i] = w.place
        <5>1. CASE i = k + 1
          BY <5>1, <4>3 DEF k
        <5>2. CASE i # k + 1
          <6>1. i \in 1 .. k /\ i > k - p
            BY <5>2, <4>4, <4>5
          <6>2. QED
            BY <6>1, <3>1, <4>3 DEF k, p
        <5>3. QED
          BY <5>1, <5>2
      <4>6. QED
        BY <3>1, <4>1, <4>2, <4>3, <4>5 DEF k, p
    <3>4. CASE n + 1 > M
      <4>1. c.op = "summon" /\ v.place = w.place /\ v.blocks = w.blocks
        BY <1>3, <2>3, <3>4
      <4>2. Placed(t, n + 1) = Placed(t, n)
        BY <2>2, <3>4 DEF Placed, Of, K, M
      <4>3. QED
        BY <3>1, <4>1, <4>2
    <3>5. QED
      BY <2>2, <3>2, <3>3, <3>4
  <2>10. QED
    BY <2>6, <2>7, <2>8, <2>9 DEF StagedTask
<1>7. QED
  BY <1>5, <1>6 DEF Staged, v, c, R
--------------------
(* The types of the channel and of the batch. *)
Replies == Seq(BOOLEAN)
ResetPhases == {"idle", "locate", "teleport", "plan", "ready", "failed"}
Answers == {"done", "refused", S!NothingFound}
Fine(r) == \A i \in 1 .. Len(r) : r[i]

ResetTypes ==
  /\ phase \in ResetPhases /\ task \in ResetTasks
  /\ batch \in [commands : Seq(Orders), results : Replies]
  /\ Len(batch.results) <= Len(batch.commands)
  /\ open \in {"closed", "open", "broken"} /\ waiting \in BOOLEAN /\ aligned \in BOOLEAN
  /\ waiting => open = "open" /\ Len(batch.results) < Len(batch.commands)
  /\ link \in Nat /\ Len(inbox) = link
  /\ open # "closed" => link \in 1 .. Len(inbox) /\ phase \in {"locate", "teleport", "plan"}
  /\ inbox \in Seq(Seq([request : Nat, command : Orders]))
  /\ outbox \in Seq([request : Nat, answer : Answers])
  /\ IsWorld(world)
  /\ resets \in 0 .. MaxResets /\ faults \in 0 .. ResetFaults

(* The batches that a reset begins, how one is entered and left, and what *)
(* an answer, a failure or a broken connection make of it. *)
LEMMA PlansAreTyped ==
  ASSUME NEW t \in ResetTasks, NEW to
  PROVE  (CASE to = "locate" -> <<S!Command("locate", t.biome)>>
            [] to = "teleport" -> <<S!Command("spread", t.biome)>>
            [] to = "plan" -> S!PlanCommands(t)
            [] OTHER -> <<>>) \in Seq(Orders)
<1>1. S!PlanCommands(t) \in Seq(Orders)
  BY PlanIs
<1>2. /\ <<S!Command("locate", t.biome)>> \in Seq(Orders)
      /\ <<S!Command("spread", t.biome)>> \in Seq(Orders)
  <2>1. "locate" \in Deeds /\ "spread" \in Deeds /\ t.biome \in Words
    BY ResetAssumed DEF Deeds, Words
  <2>2. QED
    BY <2>1, OneIs
<1>3. QED
  BY <1>1, <1>2

LEMMA EnterIs ==
  ASSUME NEW t \in ResetTasks, NEW to, S!Enter(t, to)
  PROVE  /\ phase' = to
         /\ batch' \in [commands : Seq(Orders), results : Replies]
         /\ batch'.results = <<>>
         /\ to = "teleport" => batch'.commands = <<S!Command("spread", t.biome)>>
         /\ to = "plan" => batch'.commands = S!PlanCommands(t)
<1> DEFINE L == CASE to = "locate" -> <<S!Command("locate", t.biome)>>
                  [] to = "teleport" -> <<S!Command("spread", t.biome)>>
                  [] to = "plan" -> S!PlanCommands(t)
                  [] OTHER -> <<>>
<1>1. phase' = to /\ batch' = [commands |-> L, results |-> <<>>]
  BY DEF S!Enter, S!Batch
<1>2. L \in Seq(Orders)
  BY PlansAreTyped
<1>3. to = "teleport" => L = <<S!Command("spread", t.biome)>>
  OBVIOUS
<1>4. to = "plan" => L = S!PlanCommands(t)
  OBVIOUS
<1> HIDE DEF L
<1>5. <<>> \in Replies
  BY DEF Replies
<1>6. QED
  BY <1>1, <1>2, <1>3, <1>4, <1>5

LEMMA LeftIs ==
  ASSUME ResetTypes
  PROVE  /\ Len(batch.results) \in Nat /\ Len(batch.commands) \in Nat
         /\ S!Left > 0 <=> Len(batch.results) < Len(batch.commands)
         /\ S!Left = 0 <=> Len(batch.results) = Len(batch.commands)
         /\ S!Request = Len(batch.results) + 1
<1> DEFINE r == Len(batch.results)  c == Len(batch.commands)
<1>1. r \in Nat /\ c \in Nat /\ S!Left = c - r /\ S!Request = r + 1
  BY DEF ResetTypes, Replies, S!Left, S!Request
<1> HIDE DEF r, c
<1>2. (S!Left > 0 <=> r < c) /\ (S!Left = 0 <=> r = c)
  BY <1>1
<1>3. QED
  BY <1>1, <1>2 DEF r, c

LEMMA FailsIs ==
  ASSUME ResetTypes
  PROVE  /\ S!AllFail \in Replies /\ Len(S!AllFail) = Len(batch.commands)
         /\ \A i \in 1 .. Len(batch.commands) : S!AllFail[i] = FALSE
<1>1. DOMAIN batch.commands = 1 .. Len(batch.commands) /\ Len(batch.commands) \in Nat
  BY DEF ResetTypes
<1>2. S!AllFail = [i \in 1 .. Len(batch.commands) |-> FALSE]
  BY <1>1 DEF S!AllFail
<1>3. QED
  BY <1>1, <1>2 DEF Replies

LEMMA AnsweredIs ==
  ASSUME ResetTypes, NEW ok \in BOOLEAN, Len(batch.results) < Len(batch.commands),
         S!Answered(ok)
  PROVE  /\ batch' \in [commands : Seq(Orders), results : Replies]
         /\ batch'.commands = batch.commands
         /\ Len(batch'.results) = Len(batch.results) + 1
         /\ Len(batch'.results) <= Len(batch.commands)
         /\ \A i \in 1 .. Len(batch.results) : batch'.results[i] = batch.results[i]
         /\ batch'.results[Len(batch.results) + 1] = ok
         /\ waiting' = FALSE
<1> DEFINE r == batch.results
<1>1. r \in Seq(BOOLEAN) /\ Len(r) \in Nat /\ Len(batch.commands) \in Nat
  BY DEF ResetTypes, Replies
<1>2. batch' = [batch EXCEPT !.results = Append(r, ok)] /\ waiting' = FALSE
  BY DEF S!Answered
<1>3. /\ Append(r, ok) \in Seq(BOOLEAN) /\ Len(Append(r, ok)) = Len(r) + 1
      /\ \A i \in 1 .. Len(r) : Append(r, ok)[i] = r[i]
      /\ Append(r, ok)[Len(r) + 1] = ok
  BY <1>1, AppendProperties
<1>4. Len(r) < Len(batch.commands)
  OBVIOUS
<1> DEFINE s == Append(r, ok)
<1> HIDE DEF s
<1>5. batch' = [batch EXCEPT !.results = s]
  BY <1>2 DEF s
<1>6. batch' \in [commands : Seq(Orders), results : Replies] /\ batch'.commands = batch.commands
      /\ batch'.results = s
  BY <1>3, <1>5 DEF ResetTypes, Replies, s
<1>7. QED
  BY <1>1, <1>2, <1>3, <1>4, <1>6 DEF s

LEMMA BrokenIs ==
  ASSUME ResetTypes, S!Left > 0, batch' = [batch EXCEPT !.results = @ \o S!Times(S!Left, FALSE)]
  PROVE  /\ batch' \in [commands : Seq(Orders), results : Replies]
         /\ batch'.commands = batch.commands
         /\ Len(batch'.results) = Len(batch.commands)
         /\ ~Fine(batch'.results)
<1> DEFINE r == batch.results  k == S!Left  f == S!Times(k, FALSE)  s == r \o f
<1>1. r \in Seq(BOOLEAN) /\ Len(r) \in Nat /\ Len(batch.commands) \in Nat
      /\ k = Len(batch.commands) - Len(r) /\ k \in Nat /\ k > 0
  BY DEF ResetTypes, Replies, S!Left
<1> HIDE DEF k
<1>2. f \in Seq(BOOLEAN) /\ Len(f) = k /\ f[1] = FALSE
  <2>1. f = [i \in 1 .. k |-> FALSE]
    BY DEF S!Times
  <2>2. 1 \in 1 .. k
    <3>1. k \in Nat /\ k > 0
      BY <1>1
    <3>2. QED
      BY <3>1
  <2> HIDE DEF f
  <2>3. f \in Seq(BOOLEAN) /\ Len(f) = k
    BY <1>1, <2>1
  <2>4. f[1] = FALSE
    BY <2>1, <2>2
  <2>5. QED
    BY <2>3, <2>4
<1> HIDE DEF f
<1>3. /\ s \in Seq(BOOLEAN) /\ Len(s) = Len(r) + Len(f)
      /\ \A i \in 1 .. Len(r) + Len(f) : s[i] = IF i <= Len(r) THEN r[i] ELSE f[i - Len(r)]
  BY <1>1, <1>2, ConcatProperties
<1>4. batch' = [batch EXCEPT !.results = s]
  BY DEF f, k
<1> HIDE DEF s
<1>5. batch' \in [commands : Seq(Orders), results : Replies] /\ batch'.commands = batch.commands
      /\ batch'.results = s
  BY <1>3, <1>4 DEF ResetTypes, Replies
<1>6. Len(s) = Len(batch.commands)
  BY <1>1, <1>2, <1>3
<1>7. Len(r) + 1 \in 1 .. Len(r) + Len(f) /\ ~(Len(r) + 1 <= Len(r)) /\ Len(r) + 1 - Len(r) = 1
  <2> DEFINE x == Len(r)
  <2>1. x \in Nat /\ k \in Nat /\ k > 0 /\ Len(f) = k
    BY <1>1, <1>2
  <2> HIDE DEF x
  <2>2. x + 1 \in 1 .. x + Len(f) /\ ~(x + 1 <= x) /\ x + 1 - x = 1
    BY <2>1
  <2>3. QED
    BY <2>2 DEF x
<1>8. s[Len(r) + 1] = FALSE /\ Len(r) + 1 \in 1 .. Len(s)
  BY <1>2, <1>3, <1>7
<1>9. QED
  BY <1>5, <1>6, <1>8 DEF Fine

(* The server takes a command of connection l and gives this answer. *)
Executes(l, answer) ==
  LET order == Head(inbox[l])  after == S!Apply(world, order.command)
  IN /\ inbox[l] # <<>> /\ inbox' = [inbox EXCEPT ![l] = Tail(@)]
     /\ answer = S!NothingFound => order.command.op = "kill" /\ after = world
     /\ IF answer = "refused" THEN S!Fault /\ world' = world /\ executed' = executed
        ELSE /\ world' = after /\ executed' = executed \cup {<<l, order.request>>}
             /\ faults' = faults
     /\ outbox' = IF l = link /\ open = "open"
                  THEN Append(outbox, [request |-> order.request, answer |-> answer])
                  ELSE outbox
     /\ late' = (late \/ l < link \/ open = "closed")

LEMMA OneTakes ==
  ASSUME ResetTypes, NEW l \in DOMAIN inbox, inbox[l] # <<>>
  PROVE  /\ l \in 1 .. link
         /\ Head(inbox[l]) \in [request : Nat, command : Orders]
         /\ [inbox EXCEPT ![l] = Tail(@)] \in Seq(Seq([request : Nat, command : Orders]))
         /\ Len([inbox EXCEPT ![l] = Tail(@)]) = link
         /\ IsWorld(S!Apply(world, Head(inbox[l]).command))
<1> DEFINE T == [request : Nat, command : Orders]
<1>1. l \in 1 .. link /\ inbox \in Seq(Seq(T)) /\ Len(inbox) = link /\ link \in Nat
  BY DEF ResetTypes
<1> HIDE DEF T
<1>2. inbox[l] \in Seq(T)
  BY <1>1, ElementOfSeq
<1>3. Head(inbox[l]) \in T /\ Tail(inbox[l]) \in Seq(T)
  BY <1>2, HeadTailProperties
<1>4. /\ [inbox EXCEPT ![l] = Tail(@)] \in Seq(Seq(T))
      /\ Len([inbox EXCEPT ![l] = Tail(@)]) = link
  BY <1>1, <1>3, ExceptSeq
<1>5. Head(inbox[l]).command \in Orders
  BY <1>3 DEF T
<1>6. QED
  BY <1>1, <1>3, <1>4, <1>5, ApplyIs DEF T, ResetTypes

LEMMA ResetTypesBegin == S!Init => ResetTypes
<1> SUFFICES ASSUME S!Init  PROVE ResetTypes
  OBVIOUS
<1>1. batch = [commands |-> <<>>, results |-> <<>>]
  BY DEF S!Init, S!NoBatch
<1>2. /\ batch \in [commands : Seq(Orders), results : Replies] /\ Len(batch.results) = 0
      /\ Len(batch.commands) = 0
  BY <1>1 DEF Replies
<1>3. IsWorld(world)
  BY DEF S!Init, S!World0, IsWorld, Words, S!None
<1>4. /\ outbox \in Seq([request : Nat, answer : Answers]) /\ Len(inbox) = 0
      /\ inbox \in Seq(Seq([request : Nat, command : Orders]))
  BY DEF S!Init
<1>5. QED
  <2>1. /\ phase = "idle" /\ task \in ResetTasks /\ open = "closed" /\ waiting = FALSE
        /\ aligned = TRUE /\ link = 0 /\ resets = 0 /\ faults = 0
    BY DEF S!Init
  <2>2. resets \in 0 .. MaxResets /\ faults \in 0 .. ResetFaults
    BY <2>1, ResetAssumed
  <2>3. QED
    <3>1. /\ phase \in ResetPhases
          /\ waiting \in BOOLEAN
          /\ aligned \in BOOLEAN
          /\ ~waiting
          /\ link \in Nat
      BY <2>1 DEF ResetPhases
    <3>2. Len(batch.results) <= Len(batch.commands) /\ Len(inbox) = link
      BY <1>2, <1>4, <2>1
    <3>3. QED
      BY <1>2, <1>3, <1>4, <2>1, <2>2, <3>1, <3>2 DEF ResetTypes

LEMMA ResetTypesStay == ResetTypes /\ [S!Next]_(S!vars) => ResetTypes'
<1> SUFFICES ASSUME ResetTypes, [S!Next]_(S!vars)  PROVE ResetTypes'
  OBVIOUS
<1> DEFINE T == [request : Nat, command : Orders]  U == [request : Nat, answer : Answers]
<1>1. CASE S!Reset
  <2>1. PICK t \in ResetTasks : task' = t /\ S!Enter(t, S!FirstPhase(t))
    BY <1>1 DEF S!Reset
  <2>2. S!FirstPhase(t) \in ResetPhases
    BY DEF S!FirstPhase, ResetPhases
  <2>3. resets' \in 0 .. MaxResets
    BY <1>1, ResetAssumed DEF S!Reset, ResetTypes
  <2>4. batch'.commands \in Seq(Orders) /\ batch'.results = <<>> /\ phase' = S!FirstPhase(t)
        /\ batch' \in [commands : Seq(Orders), results : Replies]
    BY <2>1, EnterIs
  <2>5. Len(batch'.results) <= Len(batch'.commands)
    BY <2>4
  <2>6. open = "closed" /\ ~waiting
    BY <1>1 DEF S!Reset, ResetTypes
  <2>7. QED
    BY <1>1, <2>1, <2>2, <2>3, <2>4, <2>5, <2>6 DEF S!Reset, ResetTypes
<1>2. CASE S!Connect
  <2>1. /\ Append(inbox, <<>>) \in Seq(Seq(T)) /\ Len(Append(inbox, <<>>)) = link + 1
    <3>1. inbox \in Seq(Seq(T)) /\ Len(inbox) = link /\ <<>> \in Seq(T)
      BY DEF ResetTypes
    <3> HIDE DEF T
    <3>2. QED
      BY <3>1, AppendProperties
  <2>2. <<>> \in Seq(U)
    OBVIOUS
  <2>3. link + 1 \in Nat /\ link + 1 \in 1 .. link + 1
    BY DEF ResetTypes
  <2>4. /\ inbox' = Append(inbox, <<>>) /\ link' = link + 1 /\ outbox' = <<>> /\ open' = "open"
        /\ phase' = phase /\ phase \in {"locate", "teleport", "plan"} /\ ~waiting'
    BY <1>2 DEF S!Connect, S!Busy, ResetTypes
  <2>5. link' \in 1 .. Len(inbox') /\ Len(inbox') = link'
    BY <2>1, <2>3, <2>4
  <2>6. QED
    BY <1>2, <2>1, <2>2, <2>3, <2>4, <2>5 DEF S!Connect, ResetTypes
<1>3. CASE S!ConnectFails
  <2>1. /\ batch' = [batch EXCEPT !.results = S!AllFail]
        /\ faults' = faults + 1
        /\ faults < ResetFaults
    BY <1>3 DEF S!ConnectFails, S!Fault
  <2>2. faults' \in 0 .. ResetFaults
    BY <2>1, ResetAssumed DEF ResetTypes
  <2>3. /\ batch' \in [commands : Seq(Orders), results : Replies]
        /\ batch'.commands = batch.commands /\ Len(batch'.results) = Len(batch.commands)
        /\ Len(batch.commands) \in Nat
    <3> DEFINE f == S!AllFail
    <3>1. f \in Replies /\ Len(f) = Len(batch.commands)
      BY FailsIs
    <3> HIDE DEF f
    <3>2. batch' = [batch EXCEPT !.results = f]
      BY <2>1 DEF f
    <3>3. QED
      BY <3>1, <3>2, LeftIs DEF ResetTypes
  <2>4. QED
    BY <1>3, <2>2, <2>3 DEF S!ConnectFails, ResetTypes
<1>4. CASE S!Send
  <2>1. /\ batch.commands \in Seq(Orders) /\ Len(batch.results) \in Nat
        /\ Len(batch.commands) \in Nat
    BY DEF ResetTypes, Replies
  <2>2. S!Request \in 1 .. Len(batch.commands)
    <3> DEFINE r == Len(batch.results)  c == Len(batch.commands)
    <3>1. r \in Nat /\ c \in Nat /\ r < c /\ S!Request = r + 1
      BY <1>4, LeftIs DEF S!Send
    <3> HIDE DEF r, c
    <3>2. S!Request \in 1 .. c
      BY <3>1
    <3>3. QED
      BY <3>2 DEF c
  <2> DEFINE p == [request |-> S!Request, command |-> batch.commands[S!Request]]
  <2>3. p \in T
    BY <2>1, <2>2, ElementOfSeq
  <2>4. /\ inbox \in Seq(Seq(T))
        /\ Len(inbox) = link
        /\ inbox' = [inbox EXCEPT ![link] = Append(@, p)]
    BY <1>4 DEF S!Send, ResetTypes
  <2> HIDE DEF p, T
  <2>5. inbox' \in Seq(Seq(T)) /\ Len(inbox') = link
    <3>1. link \in 1 .. Len(inbox)
      BY <1>4 DEF S!Send, ResetTypes
    <3>2. inbox[link] \in Seq(T)
      BY <2>4, <3>1, ElementOfSeq
    <3>3. Append(inbox[link], p) \in Seq(T)
      BY <3>2, <2>3, AppendProperties
    <3>4. QED
      BY <2>4, <3>1, <3>3, ExceptSeq
  <2>6. QED
    BY <1>4, <2>5, LeftIs DEF S!Send, ResetTypes, T
<1>5. CASE S!ServerExecutes
  <2>1. PICK l \in DOMAIN inbox : \E answer \in Answers : Executes(l, answer)
    BY <1>5 DEF S!ServerExecutes, Answers, Executes
  <2>2. PICK answer \in Answers : Executes(l, answer)
    BY <2>1
  <2>7. /\ inbox[l] # <<>> /\ inbox' = [inbox EXCEPT ![l] = Tail(@)]
        /\ world' = world \/ world' = S!Apply(world, Head(inbox[l]).command)
        /\ \/ outbox' = outbox
           \/ outbox' = Append(outbox, [request |-> Head(inbox[l]).request, answer |-> answer])
    BY <2>2 DEF Executes
  <2>8. faults' \in 0 .. ResetFaults
    <3>1. faults' = faults \/ (faults < ResetFaults /\ faults' = faults + 1)
      BY <2>2 DEF Executes, S!Fault
    <3>2. QED
      BY <3>1, ResetAssumed DEF ResetTypes
  <2>3. /\ Head(inbox[l]) \in T /\ inbox' \in Seq(Seq(T)) /\ Len(inbox') = link /\ IsWorld(world')
    BY <2>7, OneTakes DEF ResetTypes
  <2> DEFINE q == [request |-> Head(inbox[l]).request, answer |-> answer]
  <2>4. q \in U /\ outbox \in Seq(U)
    BY <2>3 DEF ResetTypes
  <2> HIDE DEF U
  <2>5. outbox' \in Seq(U)
    BY <2>7, <2>4, AppendProperties
  <2>6. QED
    BY <1>5, <2>8, <2>3, <2>5 DEF S!ServerExecutes, ResetTypes, U, T
<1>6. CASE S!Read
  <2>1. outbox \in Seq(U) /\ outbox # <<>> /\ outbox' = Tail(outbox)
    BY <1>6 DEF S!Read, ResetTypes
  <2> HIDE DEF U
  <2>2. outbox' \in Seq(U)
    BY <2>1, HeadTailProperties
  <2>3. S!IsAnswer(Head(outbox)) \in BOOLEAN
    BY DEF S!IsAnswer, S!ResponseOk
  <2>4. Len(batch.results) < Len(batch.commands)
    BY <1>6 DEF S!Read, ResetTypes
  <2>5. QED
    BY <1>6, <2>2, <2>3, <2>4, AnsweredIs DEF S!Read, ResetTypes, U
<1>7. CASE S!TimesOut
  <2>1. faults' \in 0 .. ResetFaults
    BY <1>7, ResetAssumed DEF S!TimesOut, S!Fault, ResetTypes
  <2>2. Len(batch.results) < Len(batch.commands)
    BY <1>7 DEF S!TimesOut, ResetTypes
  <2>3. QED
    BY <1>7, <2>1, <2>2, AnsweredIs DEF S!TimesOut, ResetTypes
<1>8. CASE S!Breaks
  <2>1. faults' \in 0 .. ResetFaults
    BY <1>8, ResetAssumed DEF S!Breaks, S!Fault, ResetTypes
  <2>2. <<>> \in Seq(U)
    OBVIOUS
  <2>3. /\ batch' \in [commands : Seq(Orders), results : Replies]
        /\ batch'.commands = batch.commands
        /\ Len(batch'.results) = Len(batch.commands)
    BY <1>8, BrokenIs DEF S!Breaks
  <2>4. QED
    <3>1. Len(batch'.results) <= Len(batch'.commands)
      BY <2>3, LeftIs
    <3>2. QED
      BY <1>8, <2>1, <2>2, <2>3, <3>1 DEF S!Breaks, ResetTypes
<1>9. CASE S!Leave
  <2>1. faults' \in 0 .. ResetFaults
    BY <1>9, ResetAssumed DEF S!Leave, S!Fault, ResetTypes
  <2>2. <<>> \in Seq(U)
    OBVIOUS
  <2>3. /\ batch' \in [commands : Seq(Orders), results : Replies]
        /\ Len(batch'.results) <= Len(batch'.commands)
    <3> DEFINE f == S!AllFail
    <3>1. f \in Replies /\ Len(f) = Len(batch.commands)
      BY FailsIs
    <3> HIDE DEF f
    <3>2. batch' = batch \/ batch' = [batch EXCEPT !.results = f]
      BY <1>9 DEF S!Leave, f
    <3>3. CASE batch' = batch
      BY <3>3 DEF ResetTypes
    <3>4. CASE batch' = [batch EXCEPT !.results = f]
      <4>1. /\ batch' \in [commands : Seq(Orders), results : Replies]
            /\ batch'.commands = batch.commands /\ batch'.results = f
        BY <3>1, <3>4 DEF ResetTypes
      <4>2. QED
        BY <4>1, <3>1, LeftIs
    <3>5. QED
      BY <3>2, <3>3, <3>4
  <2>4. ~waiting
    BY <1>9, LeftIs DEF S!Leave, ResetTypes
  <2>5. QED
    BY <1>9, <2>1, <2>2, <2>3, <2>4 DEF S!Leave, ResetTypes
<1>10. CASE S!Conclude
  <2>1. S!NextPhase \in ResetPhases
    BY <1>10 DEF S!Conclude, S!NextPhase, ResetPhases
  <2>2. batch' \in [commands : Seq(Orders), results : Replies] /\ batch'.results = <<>>
        /\ phase' = S!NextPhase
    BY <1>10, EnterIs DEF S!Conclude, ResetTypes
  <2>3. Len(batch'.results) <= Len(batch'.commands)
    BY <2>2
  <2>4. ~waiting /\ aligned' \in BOOLEAN
    BY <1>10 DEF S!Conclude, ResetTypes
  <2>5. QED
    BY <1>10, <2>1, <2>2, <2>3, <2>4 DEF S!Conclude, ResetTypes
<1>11. CASE S!Play
  <2>1. IsWorld(world')
    BY <1>11 DEF S!Play, ResetTypes, IsWorld, Words
  <2>2. QED
    BY <1>11, <2>1 DEF S!Play, ResetTypes, ResetPhases
<1>12. CASE UNCHANGED S!vars
  BY <1>12 DEF S!vars, ResetTypes
<1>13. QED
  BY <1>1, <1>2, <1>3, <1>4, <1>5, <1>6, <1>7, <1>8, <1>9, <1>10, <1>11, <1>12 DEF S!Next
--------------------
(* The packet of the command that is sent or waited for. *)
Sending ==
  [request |-> Len(batch.results) + 1, command |-> batch.commands[Len(batch.results) + 1]]

(* A packet that is not a refusal tells of a command that was executed; *)
(* while every answer of a batch was good, the server has at most the one *)
(* command that is waited for, or has answered it. *)
ResetLinked ==
  /\ open = "closed" =>
       outbox = <<>> /\ (batch.results = <<>> \/ Len(batch.results) = Len(batch.commands))
  /\ open = "broken" => ~Fine(batch.results)
  /\ \A i \in 1 .. Len(outbox) :
       outbox[i].answer # "refused" => <<link, outbox[i].request>> \in executed
  /\ open = "open" =>
       \A i \in 1 .. Len(batch.results) : batch.results[i] => <<link, i>> \in executed
  /\ open = "open" /\ Fine(batch.results) =>
       /\ ~waiting => inbox[link] = <<>> /\ outbox = <<>>
       /\ waiting => \/ outbox = <<>> /\ Len(inbox[link]) = 1 /\ Head(inbox[link]) = Sending
                     \/ inbox[link] = <<>> /\ Len(outbox) = 1

(* How many commands of the batch have been executed, if all went well. *)
Applied ==
  Len(batch.results) + (IF outbox # <<>> /\ Head(outbox).answer # "refused" THEN 1 ELSE 0)

(* As long as nothing that was given up is executed, the bot is where the *)
(* alignment has put it and the world is that of the commands executed. *)
ResetStaged ==
  /\ phase = "teleport" => batch.commands = <<S!Command("spread", task.biome)>>
  /\ phase = "plan" => batch.commands = S!PlanCommands(task)
  /\ ~late /\ Fine(batch.results) =>
       /\ phase = "teleport" /\ Applied >= 1 => world.place = task.biome
       /\ phase = "plan" /\ aligned => Staged(task, Applied, world)
  /\ ~late /\ phase = "ready" => Staged(task, Len(S!PlanCommands(task)), world)

(* What a failure leaves of the answers, and what the oldest packet and *)
(* the answer read from it are. *)
LEMMA AllOkIs ==
  ASSUME ResetTypes
  PROVE  S!AllOk <=> Fine(batch.results)
<1>1. batch.results \in Seq(BOOLEAN)
  BY DEF ResetTypes, Replies
<1> DEFINE r == batch.results
<1> HIDE DEF r
<1>2. r \in Seq(BOOLEAN)
  BY <1>1 DEF r
<1>3. DOMAIN r = 1 .. Len(r) /\ \A i \in 1 .. Len(r) : r[i] \in BOOLEAN
  BY <1>2
<1>4. FALSE \notin {r[i] : i \in DOMAIN r} <=> \A i \in 1 .. Len(r) : r[i]
  BY <1>3
<1>5. QED
  BY <1>4 DEF S!AllOk, S!ToSet, Fine, r

LEMMA FailsAll ==
  ASSUME ResetTypes, Len(batch.commands) > 0
  PROVE  ~Fine(S!AllFail)
<1> DEFINE f == S!AllFail
<1>1. Len(f) = Len(batch.commands) /\ \A i \in 1 .. Len(batch.commands) : f[i] = FALSE
  BY FailsIs
<1>2. 1 \in 1 .. Len(batch.commands)
  BY LeftIs
<1> HIDE DEF f
<1>3. ~Fine(f)
  BY <1>1, <1>2 DEF Fine
<1>4. QED
  BY <1>3 DEF f

LEMMA ReadIs ==
  ASSUME ResetTypes, ResetLinked, S!Read
  PROVE  /\ batch' \in [commands : Seq(Orders), results : Replies]
         /\ batch'.commands = batch.commands /\ Len(batch'.results) = Len(batch.results) + 1
         /\ \A i \in 1 .. Len(batch.results) : batch'.results[i] = batch.results[i]
         /\ batch'.results[Len(batch.results) + 1] =>
              /\ Head(outbox).answer # "refused"
              /\ Head(outbox).request = Len(batch.results) + 1
         /\ Fine(batch'.results) => Fine(batch.results)
<1> DEFINE ok == S!IsAnswer(Head(outbox))
<1>1. ok \in BOOLEAN
  BY DEF S!IsAnswer, S!ResponseOk
<1>2. Len(batch.results) < Len(batch.commands) /\ S!Answered(ok)
  BY DEF S!Read, ResetTypes
<1>3. ok => Head(outbox).answer # "refused" /\ Head(outbox).request = Len(batch.results) + 1
  BY LeftIs DEF S!IsAnswer, S!ResponseOk, S!NothingFound
<1> HIDE DEF ok
<1>4. /\ batch' \in [commands : Seq(Orders), results : Replies]
      /\ batch'.commands = batch.commands /\ Len(batch'.results) = Len(batch.results) + 1
      /\ \A i \in 1 .. Len(batch.results) : batch'.results[i] = batch.results[i]
      /\ batch'.results[Len(batch.results) + 1] = ok
  BY <1>1, <1>2, AnsweredIs
<1>5. \A i \in 1 .. Len(batch.results) : i \in 1 .. Len(batch.results) + 1
  BY LeftIs
<1>6. QED
  BY <1>3, <1>4, <1>5 DEF Fine

LEMMA ResetLinkedBegins == S!Init => ResetLinked
<1> SUFFICES ASSUME S!Init  PROVE ResetLinked
  OBVIOUS
<1>1. batch.results = <<>> /\ outbox = <<>> /\ open = "closed"
  BY DEF S!Init, S!NoBatch
<1>2. QED
  BY <1>1 DEF ResetLinked

LEMMA ResetLinkedStays ==
  ResetTypes /\ ResetTypes' /\ ResetLinked /\ [S!Next]_(S!vars) => ResetLinked'
<1> SUFFICES ASSUME ResetTypes, ResetTypes', ResetLinked, [S!Next]_(S!vars)  PROVE ResetLinked'
  OBVIOUS
<1>1. CASE S!Reset
  <2>1. PICK t \in ResetTasks : S!Enter(t, S!FirstPhase(t))
    BY <1>1 DEF S!Reset
  <2>2. batch'.results = <<>>
    BY <2>1, EnterIs
  <2>3. open = "closed" /\ open' = "closed" /\ outbox' = outbox
    BY <1>1 DEF S!Reset, ResetTypes
  <2>4. QED
    BY <2>2, <2>3 DEF ResetLinked
<1>2. CASE S!Connect
  <2>1. /\ open = "closed" /\ open' = "open" /\ outbox' = <<>> /\ batch' = batch
        /\ Len(batch.results) < Len(batch.commands) /\ ~waiting' /\ link' = link + 1
        /\ inbox' = Append(inbox, <<>>)
    BY <1>2, LeftIs DEF S!Connect, ResetTypes
  <2>2. batch'.results = <<>>
    BY <2>1, LeftIs DEF ResetLinked
  <2>3. inbox'[link'] = <<>>
    BY <2>1 DEF ResetTypes
  <2>4. Len(outbox') = 0 /\ Len(batch'.results) = 0
    BY <2>1, <2>2
  <2>5. \A i : i \notin 1 .. 0
    OBVIOUS
  <2>6. QED
    BY <2>1, <2>2, <2>3, <2>4, <2>5 DEF ResetLinked
<1>3. CASE S!ConnectFails
  <2>1. /\ open' = "closed" /\ outbox' = outbox /\ open = "closed"
        /\ batch' = [batch EXCEPT !.results = S!AllFail]
    BY <1>3 DEF S!ConnectFails
  <2>2. Len(batch'.results) = Len(batch'.commands)
    <3> DEFINE f == S!AllFail
    <3>1. Len(f) = Len(batch.commands)
      BY FailsIs
    <3>2. batch' = [batch EXCEPT !.results = f]
      BY <2>1
    <3> HIDE DEF f
    <3>3. batch'.results = f /\ batch'.commands = batch.commands
      BY <3>2 DEF ResetTypes
    <3>4. QED
      BY <3>1, <3>3
  <2>3. QED
    BY <2>1, <2>2 DEF ResetLinked
<1>4. CASE S!Send
  <2> DEFINE p == [request |-> S!Request, command |-> batch.commands[S!Request]]
  <2>1. /\ open = "open" /\ open' = "open" /\ ~waiting /\ waiting' = TRUE /\ batch' = batch
        /\ outbox' = outbox /\ executed' = executed /\ link' = link
        /\ inbox' = [inbox EXCEPT ![link] = Append(@, p)]
    BY <1>4 DEF S!Send
  <2>2. p = Sending'
    BY <2>1, LeftIs DEF Sending
  <2> HIDE DEF p
  <2>3. link \in DOMAIN inbox
    BY <2>1 DEF ResetTypes
  <2>4. ASSUME Fine(batch.results)
        PROVE  outbox' = <<>> /\ Len(inbox'[link']) = 1 /\ Head(inbox'[link']) = Sending'
    <3>1. inbox[link] = <<>> /\ outbox = <<>>
      BY <2>1, <2>4 DEF ResetLinked
    <3>2. inbox'[link'] = Append(<<>>, p)
      BY <2>1, <2>3, <3>1
    <3>3. inbox'[link'] = <<p>>
      BY <3>2
    <3>4. QED
      BY <2>1, <2>2, <3>1, <3>3
  <2>5. QED
    BY <2>1, <2>4 DEF ResetLinked
<1>5. CASE S!ServerExecutes
  <2>1. PICK l \in DOMAIN inbox : \E answer \in Answers : Executes(l, answer)
    BY <1>5 DEF S!ServerExecutes, Answers, Executes
  <2>2. PICK answer \in Answers : Executes(l, answer)
    BY <2>1
  <2> DEFINE q == [request |-> Head(inbox[l]).request, answer |-> answer]
  <2>3. /\ inbox[l] # <<>> /\ inbox' = [inbox EXCEPT ![l] = Tail(@)]
        /\ executed \subseteq executed' /\ (answer # "refused" => <<l, q.request>> \in executed')
        /\ outbox' = IF l = link /\ open = "open" THEN Append(outbox, q) ELSE outbox
        /\ batch' = batch /\ open' = open /\ waiting' = waiting /\ link' = link
    BY <1>5, <2>2 DEF Executes, S!ServerExecutes
  <2>4. open = "closed" =>
          outbox' = <<>> /\ (batch.results = <<>> \/ Len(batch.results) = Len(batch.commands))
    BY <2>3 DEF ResetLinked
  <2>5. \A i \in 1 .. Len(outbox') :
          outbox'[i].answer # "refused" => <<link, outbox'[i].request>> \in executed'
    <3>1. CASE ~(l = link /\ open = "open")
      BY <2>3, <3>1 DEF ResetLinked
    <3>2. CASE l = link /\ open = "open"
      <4>1. outbox \in Seq([request : Nat, answer : Answers])
        BY DEF ResetTypes
      <4>2. q \in [request : Nat, answer : Answers] /\ q.answer = answer
        BY <2>3, OneTakes
      <4> HIDE DEF q
      <4>3. /\ Len(outbox') = Len(outbox) + 1 /\ outbox'[Len(outbox) + 1] = q
            /\ \A i \in 1 .. Len(outbox) : outbox'[i] = outbox[i]
        BY <2>3, <3>2, <4>1, <4>2, AppendProperties
      <4>4. \A i \in 1 .. Len(outbox) + 1 : i \in 1 .. Len(outbox) \/ i = Len(outbox) + 1
        BY <4>1
      <4>5. QED
        BY <2>3, <3>2, <4>2, <4>3, <4>4 DEF ResetLinked
    <3>3. QED
      BY <3>1, <3>2
  <2>6. ASSUME open = "open", Fine(batch.results)
        PROVE  /\ ~waiting => inbox'[link] = <<>> /\ outbox' = <<>>
               /\ waiting => \/ /\ outbox' = <<>> /\ Len(inbox'[link]) = 1
                                /\ Head(inbox'[link]) = Sending
                             \/ inbox'[link] = <<>> /\ Len(outbox') = 1
    <3>1. CASE l # link
      BY <2>3, <2>6, <3>1 DEF ResetLinked
    <3>2. CASE l = link
      <4>1. waiting /\ outbox = <<>> /\ Len(inbox[link]) = 1
        BY <2>3, <2>6, <3>2 DEF ResetLinked
      <4>2. inbox[link] \in Seq([request : Nat, command : Orders])
        <5>1. inbox \in Seq(Seq([request : Nat, command : Orders])) /\ link \in 1 .. Len(inbox)
          BY <2>6 DEF ResetTypes
        <5>2. QED
          BY <5>1, ElementOfSeq
      <4>3. Tail(inbox[link]) = <<>>
        <5> DEFINE b == inbox[link]
        <5>1. b \in Seq([request : Nat, command : Orders]) /\ Len(b) = 1
          BY <4>1, <4>2
        <5> HIDE DEF b
        <5>2. Tail(b) \in Seq([request : Nat, command : Orders]) /\ Len(Tail(b)) = 0
          <6>1. b # <<>>
            BY <2>3, <3>2 DEF b
          <6>2. Tail(b) \in Seq([request : Nat, command : Orders]) /\ Len(Tail(b)) = Len(b) - 1
            BY <5>1, <6>1, HeadTailProperties
          <6>3. QED
            BY <5>1, <6>2
        <5>3. QED
          BY <5>2, EmptySeq DEF b
      <4>4. inbox'[link] = <<>>
        BY <2>3, <3>2, <4>3
      <4> HIDE DEF q
      <4>5. Len(outbox') = 1
        BY <2>3, <2>6, <3>2, <4>1
      <4>6. QED
        BY <4>1, <4>4, <4>5
    <3>3. QED
      BY <3>1, <3>2
  <2>7. Sending' = Sending
    BY <2>3 DEF Sending
  <2>8. QED
    BY <2>3, <2>4, <2>5, <2>6, <2>7 DEF ResetLinked
<1>6. CASE S!Read
  <2> DEFINE r == Len(batch.results)
  <2>1. /\ waiting /\ outbox # <<>> /\ outbox' = Tail(outbox) /\ open = "open" /\ open' = "open"
        /\ link' = link /\ executed' = executed /\ inbox' = inbox /\ ~waiting'
    BY <1>6 DEF S!Read, ResetTypes, S!Answered
  <2>2. /\ Len(batch'.results) = r + 1 /\ r \in Nat
        /\ \A i \in 1 .. r : batch'.results[i] = batch.results[i]
        /\ batch'.results[r + 1] =>
             Head(outbox).answer # "refused" /\ Head(outbox).request = r + 1
        /\ Fine(batch'.results) => Fine(batch.results)
    BY <1>6, ReadIs, LeftIs
  <2> HIDE DEF r
  <2>3. outbox \in Seq([request : Nat, answer : Answers])
    BY DEF ResetTypes
  <2>4. /\ Head(outbox) = outbox[1]
        /\ 1 \in 1 .. Len(outbox)
        /\ Len(Tail(outbox)) = Len(outbox) - 1
        /\ \A i \in 1 .. Len(outbox) - 1 : Tail(outbox)[i] = outbox[i + 1]
    BY <2>1, <2>3
  <2>5. \A i \in 1 .. Len(outbox') :
          outbox'[i].answer # "refused" => <<link, outbox'[i].request>> \in executed
    <3>1. \A i \in 1 .. Len(outbox) - 1 : i + 1 \in 1 .. Len(outbox)
      BY <2>3
    <3>2. QED
      BY <2>1, <2>4, <3>1 DEF ResetLinked
  <2>6. \A i \in 1 .. r + 1 : batch'.results[i] => <<link, i>> \in executed
    <3>1. \A i \in 1 .. r + 1 : i \in 1 .. r \/ i = r + 1
      BY <2>2
    <3>2. batch'.results[r + 1] => <<link, r + 1>> \in executed
      BY <2>2, <2>4 DEF ResetLinked
    <3>3. \A i \in 1 .. r : batch'.results[i] => <<link, i>> \in executed
      BY <2>1, <2>2 DEF ResetLinked, r
    <3>4. QED
      BY <3>1, <3>2, <3>3
  <2>7. Fine(batch.results) => inbox'[link] = <<>> /\ outbox' = <<>>
    <3> HAVE Fine(batch.results)
    <3>1. inbox[link] = <<>> /\ Len(outbox) = 1
      BY <2>1 DEF ResetLinked
    <3>2. QED
      BY <2>1, <2>3, <3>1
  <2>8. QED
    BY <2>1, <2>2, <2>5, <2>6, <2>7 DEF ResetLinked
<1>7. CASE S!TimesOut
  <2> DEFINE r == Len(batch.results)
  <2>1. /\ Len(batch'.results) = r + 1 /\ r \in Nat
        /\ \A i \in 1 .. r : batch'.results[i] = batch.results[i]
        /\ batch'.results[r + 1] = FALSE
    BY <1>7, AnsweredIs, LeftIs DEF S!TimesOut, ResetTypes
  <2>2. /\ open = "open" /\ open' = "open" /\ outbox' = outbox /\ link' = link
        /\ executed' = executed
    BY <1>7 DEF S!TimesOut
  <2> HIDE DEF r
  <2>3. \A i \in 1 .. r + 1 : i \in 1 .. r \/ i = r + 1
    BY <2>1
  <2>4. r + 1 \in 1 .. r + 1
    BY <2>1
  <2>5. ~Fine(batch'.results)
    BY <2>1, <2>4 DEF Fine
  <2>6. \A i \in 1 .. r + 1 : batch'.results[i] => <<link, i>> \in executed
    BY <2>1, <2>2, <2>3 DEF ResetLinked, r
  <2>7. QED
    BY <2>1, <2>2, <2>5, <2>6 DEF ResetLinked
<1>8. CASE S!Breaks
  <2>1. ~Fine(batch'.results)
    BY <1>8, BrokenIs DEF S!Breaks
  <2>2. open' = "broken" /\ outbox' = <<>>
    BY <1>8 DEF S!Breaks
  <2>3. QED
    BY <2>1, <2>2 DEF ResetLinked
<1>9. CASE S!Leave
  <2>1. open' = "closed" /\ outbox' = <<>>
    BY <1>9 DEF S!Leave
  <2>2. Len(batch'.results) = Len(batch'.commands)
    <3> DEFINE f == S!AllFail
    <3>1. Len(f) = Len(batch.commands)
      BY FailsIs
    <3>2. batch' = batch \/ batch' = [batch EXCEPT !.results = f]
      BY <1>9 DEF S!Leave
    <3> HIDE DEF f
    <3>3. CASE batch' = batch
      BY <1>9, <3>3, LeftIs DEF S!Leave
    <3>4. CASE batch' = [batch EXCEPT !.results = f]
      <4>1. batch'.results = f /\ batch'.commands = batch.commands
        BY <3>4 DEF ResetTypes
      <4>2. QED
        BY <3>1, <4>1
    <3>5. QED
      BY <3>2, <3>3, <3>4
  <2>3. QED
    BY <2>1, <2>2 DEF ResetLinked
<1>10. CASE S!Conclude
  <2>1. open' = "closed" /\ open = "closed" /\ outbox' = outbox
    BY <1>10 DEF S!Conclude
  <2>2. batch'.results = <<>>
    BY <1>10, EnterIs DEF S!Conclude, ResetTypes
  <2>3. QED
    BY <2>1, <2>2 DEF ResetLinked
<1>11. CASE S!Play
  <2>1. /\ open' = open /\ outbox' = outbox /\ batch' = batch /\ link' = link /\ inbox' = inbox
        /\ executed' = executed /\ waiting' = waiting
    BY <1>11 DEF S!Play
  <2>2. QED
    BY <2>1 DEF ResetLinked, Sending
<1>12. CASE UNCHANGED S!vars
  BY <1>12 DEF S!vars, ResetLinked, Sending
<1>13. QED
  BY <1>1, <1>2, <1>3, <1>4, <1>5, <1>6, <1>7, <1>8, <1>9, <1>10, <1>11, <1>12 DEF S!Next

(* The last stage is the world that the task asks for. *)
LEMMA StageReached ==
  ASSUME task \in ResetTasks, IsWorld(world), Staged(task, Len(S!PlanCommands(task)), world)
  PROVE  /\ ResetConfig.restore => ~world.hurt
         /\ ResetConfig.drops /\ task.drops => ~world.drops
         /\ S!TimeOf(task) # S!None => world.time = S!TimeOf(task)
         /\ ResetConfig.apply => S!IsAsPlanned
<1> DEFINE R == S!PlanCommands(task)  N == Len(R)
<1>1. /\ ResetConfig.restore => ~world.hurt
      /\ ResetConfig.drops /\ task.drops => ~world.drops
      /\ S!TimeOf(task) # S!None => world.time = S!TimeOf(task)
  BY PlanIs DEF Staged, Done, Killed
<1>2. ASSUME ResetConfig.apply  PROVE S!IsAsPlanned
  <2> DEFINE G == BeforeItems(task)  K == BeforeBlocks(task)  M == BeforeMobs(task)
             g == Len(task.give)  b == task.blocks  m == task.mobs
  <2>1. StagedTask(task, N, world)
    BY <1>2 DEF Staged
  <2>2. /\ G \in Nat /\ K \in Nat /\ M \in Nat /\ N \in Nat /\ G <= K /\ K <= M /\ M <= N
        /\ K - G = g /\ M - K = b /\ N - M = m /\ g \in Nat /\ b \in Nat /\ m \in Nat
    BY <1>2, TaskPlanIs, ResetAssumed
  <2>3. /\ task.mode # S!None => Done(task, N, "gamemode")
        /\ task.spread => Done(task, N, "spread")
        /\ task.start # S!None => Done(task, N, "tp")
        /\ Killed(task, N, "owned")
    <3>1. /\ task.mode # S!None => \E i \in 1 .. G : R[i].op = "gamemode"
          /\ task.spread => \E i \in 1 .. G : R[i].op = "spread"
          /\ task.start # S!None => \E i \in 1 .. G : R[i].op = "tp"
          /\ \E i \in 1 .. G : Says(R[i], "kill", "owned")
      BY <1>2, TaskPlanIs
    <3>2. \A i \in 1 .. G : i \in 1 .. N
      <4> HIDE DEF G, K, M, N
      <4>1. QED
        BY <2>2
    <3>3. QED
      BY <3>1, <3>2 DEF Done, Killed
  <2>4. task.start = S!None => ~Done(task, N, "tp")
    <3> HAVE task.start = S!None
    <3>1. \A i \in 1 .. G : R[i].op # "tp"
      BY <1>2, TaskPlanIs
    <3>2. /\ \A i \in G + 1 .. K : R[i].op = "give"
          /\ \A i \in K + 1 .. M : R[i].op = "setblock"
          /\ \A i \in M + 1 .. N : R[i].op = "summon"
      BY <1>2, TaskPlanIs DEF Says
    <3> HIDE DEF G, K, M, N, R
    <3>3. \A i \in 1 .. N :
            i \in 1 .. G \/ i \in G + 1 .. K \/ i \in K + 1 .. M \/ i \in M + 1 .. N
      BY <2>2
    <3>4. \A i \in 1 .. N : R[i].op # "tp"
      BY <3>1, <3>2, <3>3
    <3>5. QED
      BY <3>4 DEF Done, R, N
  <2>5. world.place = S!Place(task)
    BY <2>1, <2>3, <2>4 DEF StagedTask, S!Place
  <2>6. task.mode # S!None => world.mode = task.mode
    BY <2>1, <2>3 DEF StagedTask
  <2> HIDE DEF G, K, M, N, g, b, m
  <2>7. Given(task, N) = g /\ Placed(task, N) = b /\ Summoned(task, N) = m
    BY <2>2 DEF Given, Placed, Summoned, Of, G, K, M, N, R
  <2>8. ASSUME task.clear, ResetConfig.clear  PROVE world.items = task.give
    <3>1. G >= 1
      BY <1>2, <2>8, TaskPlanIs DEF G
    <3>2. N >= 1
      BY <2>2, <3>1
    <3>3. /\ world.items \in Seq(Words) /\ Len(world.items) = g
          /\ \A i \in 1 .. g : world.items[i] = task.give[i]
      BY <2>1, <2>7, <2>8, <3>2 DEF StagedTask
    <3>4. task.give \in Seq(STRING) /\ Len(task.give) = g
      BY ResetAssumed DEF g
    <3>5. task.give \in Seq(Words)
      <4>1. STRING \subseteq Words
        BY DEF Words
      <4>2. QED
        BY <3>4, <4>1, SeqMonotonic
    <3>6. QED
      BY <3>3, <3>4, <3>5, SeqEqual
  <2>9. world.mobs = [i \in 1 .. task.mobs |-> S!Place(task)]
    <3>1. /\ world.mobs \in Seq(Words) /\ Len(world.mobs) = m
          /\ \A i \in 1 .. m : world.mobs[i] = world.place
      BY <2>1, <2>3, <2>7 DEF StagedTask
    <3>2. DOMAIN world.mobs = 1 .. m /\ world.mobs = [i \in DOMAIN world.mobs |-> world.mobs[i]]
      BY <3>1
    <3>3. world.mobs = [i \in 1 .. m |-> world.place]
      BY <3>1, <3>2
    <3>4. QED
      BY <3>3, <2>5 DEF m
  <2>10. \A i \in Len(world.blocks) - task.blocks + 1 .. Len(world.blocks) :
           world.blocks[i] = S!Place(task)
    <3> DEFINE k == Len(world.blocks)
    <3>1. /\ k \in Nat /\ k >= b
          /\ \A i \in 1 .. k : i > k - b => world.blocks[i] = world.place
      BY <2>1, <2>7 DEF StagedTask, IsWorld
    <3> HIDE DEF k
    <3>2. \A i \in k - b + 1 .. k : i \in 1 .. k /\ i > k - b
      BY <2>2, <3>1
    <3>3. \A i \in k - b + 1 .. k : world.blocks[i] = S!Place(task)
      BY <2>5, <3>1, <3>2
    <3>4. QED
      BY <3>3 DEF k, b
  <2>11. QED
    BY <2>5, <2>6, <2>8, <2>9, <2>10 DEF S!IsAsPlanned
<1>3. QED
  BY <1>1, <1>2

LEMMA ResetStagedBegins == S!Init => ResetStaged
BY DEF S!Init, ResetStaged

(* A step that leaves the world and the plan alone, and does not count a *)
(* command as executed that was not. *)
LEMMA StageRests ==
  ASSUME ResetStaged, batch'.commands = batch.commands,
         UNCHANGED <<phase, task, aligned, world, late>>,
         Fine(batch'.results) => Fine(batch.results) /\ Applied' = Applied
  PROVE  ResetStaged'
BY DEF ResetStaged

LEMMA ResetStagedStays ==
  ResetTypes /\ ResetTypes' /\ ResetLinked /\ ResetLinked' /\ ResetStaged /\ [S!Next]_(S!vars)
    => ResetStaged'
<1> SUFFICES ASSUME ResetTypes, ResetTypes', ResetLinked, ResetLinked', ResetStaged,
                    [S!Next]_(S!vars)
             PROVE  ResetStaged'
  OBVIOUS
<1>1. CASE S!Reset
  <2>1. PICK t \in ResetTasks : task' = t /\ S!Enter(t, S!FirstPhase(t))
    BY <1>1 DEF S!Reset
  <2>2. /\ phase' = S!FirstPhase(t) /\ batch'.results = <<>>
        /\ phase' = "teleport" => batch'.commands = <<S!Command("spread", t.biome)>>
        /\ phase' = "plan" => batch'.commands = S!PlanCommands(t)
    BY <2>1, EnterIs
  <2>3. outbox' = <<>> /\ world' = world
    BY <1>1 DEF S!Reset, ResetTypes, ResetLinked
  <2>4. Applied' = 0
    BY <2>2, <2>3 DEF Applied
  <2>5. phase' = "plan" => ~S!Align(t)
    BY <2>2 DEF S!FirstPhase
  <2>6. phase' = "plan" => Staged(t, 0, world)
    BY <2>5, StageBegins DEF ResetTypes
  <2>7. phase' # "ready"
    BY <2>2 DEF S!FirstPhase
  <2>8. QED
    BY <2>1, <2>2, <2>3, <2>4, <2>6, <2>7 DEF ResetStaged
<1>2. CASE S!Connect
  <2>1. /\ batch' = batch /\ outbox = <<>> /\ outbox' = <<>>
        /\ UNCHANGED <<phase, task, aligned, world, late>>
    BY <1>2 DEF S!Connect, ResetLinked
  <2>2. QED
    BY <2>1, StageRests DEF Applied
<1>3. CASE S!ConnectFails
  <2>1. /\ batch' = [batch EXCEPT !.results = S!AllFail]
        /\ UNCHANGED <<phase, task, aligned, world, late>>
    BY <1>3 DEF S!ConnectFails
  <2>2. Len(batch.commands) > 0
    BY <1>3, LeftIs DEF S!ConnectFails
  <2>3. ~Fine(S!AllFail)
    BY <2>2, FailsAll
  <2>4. batch'.commands = batch.commands /\ batch'.results = S!AllFail
    BY <2>1 DEF ResetTypes
  <2>5. QED
    BY <2>1, <2>3, <2>4, StageRests
<1>4. CASE S!Send
  <2>1. batch' = batch /\ outbox' = outbox /\ UNCHANGED <<phase, task, aligned, world, late>>
    BY <1>4 DEF S!Send
  <2>2. QED
    BY <2>1, StageRests DEF Applied
<1>5. CASE S!ServerExecutes
  <2>1. PICK l \in DOMAIN inbox : \E answer \in Answers : Executes(l, answer)
    BY <1>5 DEF S!ServerExecutes, Answers, Executes
  <2>2. PICK answer \in Answers : Executes(l, answer)
    BY <2>1
  <2>3. batch' = batch /\ UNCHANGED <<phase, task, aligned, open, waiting, link>>
    BY <1>5 DEF S!ServerExecutes
  <2>4. /\ phase = "teleport" => batch.commands = <<S!Command("spread", task.biome)>>
        /\ phase = "plan" => batch.commands = S!PlanCommands(task)
    BY DEF ResetStaged
  <2>5. CASE late'
    BY <2>3, <2>4, <2>5 DEF ResetStaged
  <2>6. CASE ~late'
    <3>1. ~late /\ l = link /\ open # "closed" /\ phase \in {"locate", "teleport", "plan"}
      <4>1. ~late /\ ~(l < link) /\ open # "closed"
        BY <2>2, <2>6 DEF Executes
      <4>2. l \in 1 .. link /\ link \in Nat
        BY DEF ResetTypes
      <4>3. QED
        BY <4>1, <4>2 DEF ResetTypes
    <3>2. ASSUME Fine(batch.results)
          PROVE  /\ phase = "teleport" /\ Applied' >= 1 => world'.place = task.biome
                 /\ phase = "plan" /\ aligned => Staged(task, Applied', world')
      <4> DEFINE r == Len(batch.results)  c == batch.commands[r + 1]
                 q == [request |-> Head(inbox[l]).request, answer |-> answer]
      <4>1. open = "open"
        BY <3>1, <3>2 DEF ResetLinked, ResetTypes
      <4>2. waiting /\ outbox = <<>> /\ Head(inbox[l]) = Sending /\ inbox[l] # <<>>
        BY <2>2, <3>1, <3>2, <4>1 DEF ResetLinked, Executes
      <4>3. r \in Nat /\ r < Len(batch.commands) /\ Applied = r
        BY <4>2, LeftIs DEF ResetTypes, Applied
      <4>4. Head(inbox[l]).command = c
        BY <4>2 DEF Sending
      <4>5. outbox' = Append(outbox, q)
        BY <2>2, <3>1, <4>1 DEF Executes
      <4>6. q.answer = answer
        OBVIOUS
      <4> HIDE DEF q
      <4>7. outbox' = <<q>>
        BY <4>2, <4>5
      <4>8. outbox' # <<>> /\ Head(outbox') = q
        BY <4>7
      <4>9. Applied' = r + (IF answer # "refused" THEN 1 ELSE 0)
        BY <2>3, <4>6, <4>8 DEF Applied
      <4>10. CASE answer = "refused"
        <5>1. world' = world /\ Applied' = Applied
          BY <2>2, <4>3, <4>9, <4>10 DEF Executes
        <5>2. QED
          BY <3>1, <3>2, <5>1 DEF ResetStaged
      <4>11. CASE answer # "refused"
        <5>1. world' = S!Apply(world, c) /\ Applied' = r + 1
          BY <2>2, <4>4, <4>9, <4>11 DEF Executes
        <5>2. phase = "teleport" => world'.place = task.biome
          <6> HAVE phase = "teleport"
          <6>1. batch.commands = <<S!Command("spread", task.biome)>>
            BY <2>4
          <6>2. r = 0
            BY <4>3, <6>1
          <6>3. c = S!Command("spread", task.biome)
            BY <6>1, <6>2
          <6>4. c \in Orders /\ Says(c, "spread", task.biome)
            <7>1. "spread" \in Deeds /\ task.biome \in Words
              BY ResetAssumed DEF Deeds, Words, ResetTypes
            <7>2. QED
              BY <6>3, <7>1, CommandSays DEF Orders, S!Command
          <6> HIDE DEF c
          <6>5. QED
            BY <5>1, <6>4, ApplyIs DEF Says, ResetTypes
        <5>3. phase = "plan" /\ aligned => Staged(task, r + 1, world')
          <6> SUFFICES ASSUME phase = "plan", aligned  PROVE Staged(task, r + 1, world')
            OBVIOUS
          <6>1. Staged(task, r, world)
            BY <3>1, <3>2, <4>3 DEF ResetStaged
          <6>2. r < Len(S!PlanCommands(task)) /\ c = S!PlanCommands(task)[r + 1]
            BY <2>4, <4>3
          <6> HIDE DEF c, r
          <6>3. QED
            BY <4>3, <5>1, <6>1, <6>2, StageGoesOn DEF ResetTypes
        <5>4. QED
          BY <5>1, <5>2, <5>3
      <4>12. QED
        BY <4>10, <4>11
    <3>3. QED
      BY <2>3, <2>4, <3>1, <3>2 DEF ResetStaged
  <2>7. QED
    BY <2>5, <2>6
<1>6. CASE S!Read
  <2>1. /\ batch'.commands = batch.commands /\ Len(batch'.results) = Len(batch.results) + 1
        /\ batch'.results[Len(batch.results) + 1] => Head(outbox).answer # "refused"
        /\ Fine(batch'.results) => Fine(batch.results)
    BY <1>6, ReadIs
  <2>2. /\ waiting /\ outbox # <<>> /\ outbox' = Tail(outbox) /\ open = "open" /\ open' = "open"
        /\ ~waiting' /\ UNCHANGED <<phase, task, aligned, world, late>>
    BY <1>6 DEF S!Read, S!Answered, ResetTypes
  <2>3. ASSUME Fine(batch'.results)  PROVE Applied' = Applied
    <3>1. outbox' = <<>>
      BY <2>2, <2>3 DEF ResetLinked
    <3>2. Len(batch.results) + 1 \in 1 .. Len(batch'.results)
      BY <2>1, LeftIs
    <3>3. Head(outbox).answer # "refused"
      BY <2>1, <2>3, <3>2 DEF Fine
    <3>4. Applied' = Len(batch'.results) + 0
      BY <3>1 DEF Applied
    <3>5. Applied = Len(batch.results) + 1
      BY <2>2, <3>3 DEF Applied
    <3>6. QED
      BY <2>1, <3>4, <3>5, LeftIs
  <2>4. QED
    BY <2>1, <2>2, <2>3, StageRests
<1>7. CASE S!TimesOut
  <2> DEFINE r == Len(batch.results)
  <2>1. /\ Len(batch'.results) = r + 1 /\ r \in Nat /\ batch'.results[r + 1] = FALSE
        /\ batch'.commands = batch.commands
    BY <1>7, AnsweredIs, LeftIs DEF S!TimesOut, ResetTypes
  <2>2. UNCHANGED <<phase, task, aligned, world, late>>
    BY <1>7 DEF S!TimesOut
  <2> HIDE DEF r
  <2>3. r + 1 \in 1 .. r + 1
    BY <2>1
  <2>4. ~Fine(batch'.results)
    BY <2>1, <2>3 DEF Fine
  <2>5. QED
    BY <2>1, <2>2, <2>4, StageRests
<1>8. CASE S!Breaks
  <2>1. ~Fine(batch'.results) /\ batch'.commands = batch.commands
    BY <1>8, BrokenIs DEF S!Breaks
  <2>2. UNCHANGED <<phase, task, aligned, world, late>>
    BY <1>8 DEF S!Breaks
  <2>3. QED
    BY <2>1, <2>2, StageRests
<1>9. CASE S!Leave
  <2>1. UNCHANGED <<phase, task, aligned, world, late>> /\ outbox' = <<>>
    BY <1>9 DEF S!Leave
  <2>2. CASE batch' = batch /\ open = "open"
    <3>1. ~waiting
      BY <1>9, LeftIs DEF S!Leave, ResetTypes
    <3>2. Fine(batch.results) => outbox = <<>>
      BY <2>2, <3>1 DEF ResetLinked
    <3>3. QED
      BY <2>1, <2>2, <3>2, StageRests DEF Applied
  <2>3. CASE batch' = batch /\ open = "broken"
    BY <2>1, <2>3, StageRests DEF ResetLinked
  <2>4. CASE open = "broken" /\ batch' = [batch EXCEPT !.results = S!AllFail]
    <3>1. Len(batch.commands) > 0
      <4>1. ~Fine(batch.results)
        BY <2>4 DEF ResetLinked
      <4>2. Len(batch.results) # 0
        BY <4>1 DEF Fine
      <4>3. Len(batch.results) <= Len(batch.commands)
        BY DEF ResetTypes
      <4>4. QED
        BY <4>2, <4>3, LeftIs
    <3>2. ~Fine(S!AllFail)
      BY <3>1, FailsAll
    <3>3. batch'.commands = batch.commands /\ batch'.results = S!AllFail
      BY <2>4 DEF ResetTypes
    <3>4. QED
      BY <2>1, <3>2, <3>3, StageRests
  <2>5. QED
    BY <1>9, <2>2, <2>3, <2>4 DEF S!Leave
<1>10. CASE S!Conclude
  <2>1. /\ open = "closed" /\ outbox = <<>> /\ outbox' = <<>> /\ S!Left = 0 /\ task' = task
        /\ late' = late /\ world' = world /\ S!Busy /\ S!Enter(task, S!NextPhase)
        /\ aligned' = (aligned /\ (phase = "plan" \/ S!AllOk))
    BY <1>10 DEF S!Conclude, ResetLinked
  <2>2. /\ phase' = S!NextPhase /\ batch'.results = <<>>
        /\ phase' = "teleport" => batch'.commands = <<S!Command("spread", task.biome)>>
        /\ phase' = "plan" => batch'.commands = S!PlanCommands(task)
    BY <2>1, EnterIs DEF ResetTypes
  <2>3. Applied' = 0 /\ Applied = Len(batch.commands)
    <3>1. Applied' = 0
      BY <2>1, <2>2 DEF Applied
    <3>2. Applied = Len(batch.results) + 0
      BY <2>1 DEF Applied
    <3>3. QED
      BY <2>1, <3>1, <3>2, LeftIs
  <2>4. S!AllOk <=> Fine(batch.results)
    BY AllOkIs
  <2>5. ASSUME phase' = "plan", aligned', ~late  PROVE Staged(task, 0, world)
    <3>1. phase = "teleport" /\ Fine(batch.results)
      BY <2>1, <2>2, <2>4, <2>5 DEF S!NextPhase, S!Busy
    <3>2. Len(batch.commands) = 1
      BY <3>1 DEF ResetStaged
    <3>3. world.place = task.biome
      BY <2>3, <2>5, <3>1, <3>2 DEF ResetStaged
    <3>4. QED
      BY <3>3, StageBegins DEF ResetTypes
  <2>6. ASSUME phase' = "ready", ~late
        PROVE  Staged(task, Len(S!PlanCommands(task)), world)
    <3>1. phase = "plan" /\ Fine(batch.results) /\ aligned
      BY <2>1, <2>2, <2>4, <2>6 DEF S!NextPhase, S!Busy
    <3>2. QED
      BY <2>3, <2>6, <3>1 DEF ResetStaged
  <2>7. QED
    BY <2>1, <2>2, <2>3, <2>5, <2>6 DEF ResetStaged
<1>11. CASE S!Play
  BY <1>11 DEF S!Play, ResetStaged
<1>12. CASE UNCHANGED S!vars
  BY <1>12, StageRests DEF S!vars, Applied
<1>13. QED
  BY <1>1, <1>2, <1>3, <1>4, <1>5, <1>6, <1>7, <1>8, <1>9, <1>10, <1>11, <1>12 DEF S!Next

(* The invariant, and what it tells of a reset that was reported ready. *)
ResetInv == ResetTypes /\ ResetLinked /\ ResetStaged

LEMMA ResetTold == ResetInv => S!TypeOK /\ S!ResetIsSound
<1> SUFFICES ASSUME ResetInv  PROVE S!TypeOK /\ S!ResetIsSound
  OBVIOUS
<1>1. S!TypeOK
  BY DEF ResetInv, ResetTypes, S!TypeOK, ResetPhases
<1>2. S!DoneMeansExecuted
  <2>1. DOMAIN batch.results = 1 .. Len(batch.results)
    BY DEF ResetInv, ResetTypes, Replies
  <2>2. QED
    BY <2>1 DEF ResetInv, ResetLinked, S!DoneMeansExecuted
<1>3. S!ReadyMeansPlanned
  <2> SUFFICES ASSUME phase = "ready", ~late
               PROVE  /\ ResetConfig.restore => ~world.hurt
                      /\ ResetConfig.drops /\ task.drops => ~world.drops
                      /\ S!TimeOf(task) # S!None => world.time = S!TimeOf(task)
                      /\ ResetConfig.apply => S!IsAsPlanned
    BY DEF S!ReadyMeansPlanned
  <2>1. task \in ResetTasks /\ IsWorld(world)
    BY DEF ResetInv, ResetTypes
  <2>2. Staged(task, Len(S!PlanCommands(task)), world)
    BY DEF ResetInv, ResetStaged
  <2>3. QED
    BY <2>1, <2>2, StageReached
<1>4. QED
  BY <1>1, <1>2, <1>3 DEF S!ResetIsSound

(* A command that a batch counts as done was executed for this very *)
(* request, and a reset that is ready has left the world as its plan asks, *)
(* unless a command of a batch given up was executed during it. *)
THEOREM ResetServes == S!Spec => [](S!TypeOK /\ S!ResetIsSound)
<1>1. S!Init => ResetInv
  BY ResetTypesBegin, ResetLinkedBegins, ResetStagedBegins DEF ResetInv
<1>2. ResetInv /\ [S!Next]_(S!vars) => ResetInv'
  BY ResetTypesStay, ResetLinkedStays, ResetStagedStays DEF ResetInv
<1>3. QED
  BY <1>1, <1>2, ResetTold, PTL DEF S!Spec
--------------------
CONSTANTS
  \* BotActions
  Mobs, SpeciesOf, CarriedItems, Bows, Requests, MaxActions
VARIABLES
  where, attacked, killed, hand, items, goal, follow, digging, windows, body, turn, haunted

O == INSTANCE BotActions WITH
  Items <- CarriedItems


(* Requests have the fields and the types that the worker dispatches on. *)
ASSUME BotAssumption ==
  /\ MaxActions \in Nat
  /\ \A r \in Requests :
       /\ DOMAIN r = {"type", "asked", "item", "station", "mode", "ammo", "stop"}
       /\ r.type \in {"look", "wait", "move", "dig", "follow", "use", "equip", "place", "consume",
                      "process", "fight", "engage"}

(* The handlers of a worker's actions. Which handler waits where. *)
Engaging == {"head", "losing", "aiming", "drawing"}
Heating == {"filling", "taking"}
StageFits(stage, type) ==
  \/ stage = "over"
  \/ stage = "waiting" /\ type = "wait"
  \/ stage = "going" /\ type = "move"
  \/ stage \in {"digging", "settling"} /\ type = "dig"
  \/ stage = "equipping" /\ type \in {"equip", "place", "use", "consume"}
  \/ stage = "acting" /\ type \in {"place", "use", "consume", "craft"}
  \/ stage \in Heating \cup {"opening"} /\ type = "smelt"
  \/ stage \in Engaging /\ type = "engage"

(* An engagement that has hit keeps its target for as long as it hits. *)
HitsFit(b) ==
  /\ \A h, i \in b.hits : h.mob = i.mob /\ (h.alone /\ i.alone => h.item = i.item)
  /\ \A h \in b.hits :
       /\ b.of.type = "engage"
       /\ h.alone /\ b.of.item # O!Whatever => h.item = b.of.item
       /\ h.alone /\ b.of.mode = "ranged" => h.item \in Bows
       /\ b.stage \in {"head", "aiming", "drawing"} => h.mob = b.target /\ b.target # O!NoMob
KillsFit(b) ==
  b.of.type = "engage" /\ b.stage = "over" /\ b.of.stop /\ b.result # "timeout" =>
    (b.result = "target_killed" <=> O!Counted(b, b.after) # {})
BodyFields == {"n", "of", "stage", "result", "target", "before", "after", "hits"}
BodyFits(b) ==
  /\ DOMAIN b = BodyFields /\ StageFits(b.stage, b.of.type)
  /\ b.target \in Mobs \cup {O!NoMob} /\ (b.stage \in {"aiming", "drawing"} => b.target # O!NoMob)
  /\ HitsFit(b) /\ KillsFit(b)

(* A body is late when the time limit has answered its request. *)
BodiesFit ==
  /\ BodyFits(body) /\ body.n = turn /\ (body.stage # "over" => body.result = "none" /\ turn # 0)
  /\ \A b \in late : /\ BodyFits(b) /\ b.n \in 1 .. turn /\ b.result = "timeout"
                     /\ b.stage \in O!Outlives \cup {"head"}
GameTyped ==
  /\ where \in [Mobs -> {"reach", "near", "far", "gone"}]
  /\ attacked \subseteq Mobs /\ killed \subseteq Mobs
  /\ turn \in 0 .. MaxActions /\ follow \in 0 .. turn /\ digging \in 0 .. turn

(* Late bodies of earlier actions are among those that haunt this one, and *)
(* only they could change what an engagement holds. *)
LateAreKnown ==
  \A b \in late : b.of.type \in haunted \/ (body.stage = "over" /\ b.of = body.of)
HandIsHeld ==
  body.stage # "over" =>
    /\ \A h \in body.hits : h.alone => h.item = hand /\ haunted \cap O!Handling = {}
    /\ body.of.type = "engage" /\ haunted \cap O!Handling = {} =>
         /\ body.of.item # O!Whatever => hand = body.of.item
         /\ body.of.mode = "ranged" => hand \in Bows

(* Whoever set the goal, digs or has a furnace open is still there. *)
GoalIsHeld ==
  goal = O!NoGoal \/ follow # 0 \/ \E b \in O!Running : b.stage \in Engaging \cup {"going"}
DigIsHeld == digging # 0 => body.stage = "digging" /\ digging = body.n
WindowsAreHeld == \A w \in windows : \E b \in {body} \cup late : b.stage \in Heating /\ b.n = w

BotInv ==
  /\ GameTyped /\ BodiesFit /\ LateAreKnown /\ HandIsHeld
  /\ O!FollowIsReal /\ GoalIsHeld /\ DigIsHeld /\ WindowsAreHeld

(* What one step of the body b, which becomes c, may change. *)
GoesOn(b, c) ==
  /\ O!Becomes(b, c) /\ BodyFits(c) /\ c.n = b.n /\ c.of = b.of
  /\ c.stage = "over" \/ c.result = b.result
  /\ b \in late => c.stage \in O!Outlives \cup {"head", "over"}
  /\ c.hits \subseteq b.hits \cup {O!Hit(b)}
  /\ hand' = hand \/ (b.of.type \in O!Handling /\ c.hits = b.hits)
  /\ goal' = goal \/ b.of.type \in {"move", "engage"}
  /\ \/ goal' = O!NoGoal \/ c.stage \in Engaging \cup {"going"}
     \/ goal' = goal /\ b.stage \notin Engaging \cup {"going"}
  /\ digging' = 0 \/ (digging' = digging /\ b.stage # "digging")
  /\ \/ windows' \subseteq windows \cup {b.n} /\ c.stage \in Heating
     \/ windows' \subseteq windows \ {b.n}
     \/ windows' \subseteq windows /\ b.stage \notin Heating
  /\ where' = where /\ killed' = killed /\ attacked' \subseteq Mobs
  /\ follow' = follow /\ turn' = turn /\ haunted' = haunted

LEMMA RunningFits ==
  ASSUME BotInv, NEW b \in O!Running
  PROVE  /\ BodyFits(b) /\ b.stage # "over"
         /\ \/ b = body /\ b \notin late /\ b.result = "none"
            \/ b \in late /\ b.result = "timeout" /\ b.stage \in O!Outlives \cup {"head"}
  BY DEF BotInv, BodiesFit, O!Running

(* A step of a body keeps what holds of all of them. *)
LEMMA BodyGoesOn ==
  ASSUME BotInv, NEW b \in O!Running, NEW c, GoesOn(b, c)
  PROVE  BotInv'
<1>1. /\ BodyFits(b) /\ b.stage # "over"
      /\ \/ b = body /\ b \notin late /\ b.result = "none"
         \/ b \in late /\ b.result = "timeout" /\ b.stage \in O!Outlives \cup {"head"}
  BY RunningFits
<1>2. \/ b = body /\ b \notin late /\ body' = c /\ late' = late
      \/ b \in late /\ body' = body /\ late' = late \ {b} /\ c.stage = "over"
      \/ b \in late /\ body' = body /\ late' = (late \ {b}) \cup {c} /\ c.stage # "over"
  BY <1>1 DEF GoesOn, O!Becomes
<1>3. ASSUME NEW d \in {body} \cup late, d # b
      PROVE  d \in {body'} \cup late' /\ (d.stage # "over" => d \in O!Running')
  BY <1>1, <1>2, <1>3 DEF O!Running
<1>4. c.stage # "over" => c \in {body'} \cup late' /\ c \in O!Running'
  BY <1>2 DEF O!Running
<1>5. GameTyped'
  BY DEF BotInv, GameTyped, GoesOn
<1>6. BodiesFit'
  BY <1>1, <1>2 DEF BotInv, BodiesFit, GoesOn
<1>7. LateAreKnown'
  BY <1>1, <1>2 DEF BotInv, LateAreKnown, GoesOn
<1>8. HandIsHeld'
  <2>1. CASE b = body /\ b \notin late /\ body' = c /\ late' = late
    <3>1. SUFFICES ASSUME c.stage # "over" PROVE HandIsHeld'
      BY <2>1 DEF HandIsHeld
    <3>2. hand' = hand \/ (b.of.type # "engage" /\ c.hits = {})
      <4>1. b.of.type \in O!Handling => b.of.type # "engage"
        BY DEF O!Handling
      <4>2. b.of.type # "engage" => b.hits = {}
        BY <1>1 DEF BodyFits, HitsFit
      <4>3. QED
        BY <4>1, <4>2 DEF GoesOn
    <3>3. ASSUME NEW h \in c.hits, h.alone
          PROVE  h.item = hand /\ haunted \cap O!Handling = {}
      <4>1. CASE h \in b.hits
        BY <1>1, <2>1, <3>3, <4>1 DEF BotInv, HandIsHeld
      <4>2. CASE h = O!Hit(b)
        BY <3>3, <4>2 DEF O!Hit
      <4>3. QED
        BY <4>1, <4>2 DEF GoesOn
    <3>4. QED
      BY <1>1, <2>1, <3>2, <3>3 DEF BotInv, HandIsHeld, GoesOn
  <2>2. CASE b \in late /\ body' = body
    <3>1. SUFFICES ASSUME body.stage # "over" PROVE HandIsHeld'
      BY <2>2 DEF HandIsHeld
    <3>2. hand' = hand \/ haunted \cap O!Handling # {}
      BY <2>2, <3>1 DEF BotInv, LateAreKnown, GoesOn
    <3>3. QED
      BY <2>2, <3>1, <3>2 DEF BotInv, HandIsHeld, GoesOn
  <2>3. QED
    BY <1>2, <2>1, <2>2
<1>9. O!FollowIsReal'
  <2>1. SUFFICES ASSUME follow # 0 PROVE O!FollowIsReal'
    BY DEF O!FollowIsReal, GoesOn
  <2>2. body.of.type = "follow" /\ body.stage = "over"
    BY <2>1 DEF BotInv, O!FollowIsReal, BodiesFit, BodyFits, StageFits
  <2>3. b \in late /\ body' = body
    BY <1>1, <1>2, <2>2
  <2>4. goal' = goal \/ "engage" \in haunted
    BY <1>1, <2>2, <2>3 DEF BotInv, LateAreKnown, GoesOn, BodyFits, StageFits, O!Outlives
  <2>5. QED
    BY <2>1, <2>3, <2>4 DEF BotInv, O!FollowIsReal, GoesOn
<1>10. GoalIsHeld'
  <2>1. CASE goal' = O!NoGoal \/ c.stage \in Engaging \cup {"going"}
    BY <1>4, <2>1 DEF GoalIsHeld, Engaging
  <2>2. CASE goal' = goal /\ b.stage \notin Engaging \cup {"going"}
    <3>1. CASE goal = O!NoGoal \/ follow # 0
      BY <2>2, <3>1 DEF GoalIsHeld, GoesOn
    <3>2. CASE \E d \in O!Running : d.stage \in Engaging \cup {"going"}
      BY <1>3, <2>2, <3>2 DEF GoalIsHeld, O!Running
    <3>3. QED
      BY <3>1, <3>2 DEF BotInv, GoalIsHeld
  <2>3. QED
    BY <2>1, <2>2 DEF GoesOn
<1>11. DigIsHeld'
  <2>1. SUFFICES ASSUME digging' # 0 PROVE body.stage = "digging" /\ digging = body.n /\ body' = body /\ digging' = digging
    BY DEF DigIsHeld
  <2>2. digging' = digging /\ b.stage # "digging"
    BY <2>1 DEF GoesOn
  <2>3. QED
    BY <1>1, <1>2, <2>1, <2>2 DEF BotInv, DigIsHeld
<1>12. WindowsAreHeld'
  <2>1. SUFFICES ASSUME NEW w \in windows'
                 PROVE  \E d \in {body'} \cup late' : d.stage \in Heating /\ d.n = w
    BY DEF WindowsAreHeld
  <2>2. CASE w = b.n /\ c.stage \in Heating
    BY <1>4, <2>2 DEF GoesOn, Heating
  <2>3. CASE w \in windows /\ (w # b.n \/ b.stage \notin Heating)
    BY <1>3, <2>3 DEF BotInv, WindowsAreHeld
  <2>4. QED
    BY <2>1, <2>2, <2>3 DEF GoesOn
<1>13. QED
  BY <1>5, <1>6, <1>7, <1>8, <1>9, <1>10, <1>11, <1>12 DEF BotInv

(* A body that ends tells of the kills that it counts. *)
LEMMA EndFits ==
  ASSUME NEW b, BodyFits(b), b.stage # "over", NEW status,
         b.of.type = "engage" /\ b.of.stop /\ status # "timeout" =>
           (status = "target_killed" <=> O!Kills(b) # {})
  PROVE  LET c == O!Ended(b, status)
         IN  BodyFits(c) /\ c.n = b.n /\ c.of = b.of /\ c.hits = b.hits /\ c.stage = "over"
             /\ c.result = status
<1> DEFINE c == O!Ended(b, status)
<1>1. /\ DOMAIN c = BodyFields /\ c.n = b.n /\ c.of = b.of /\ c.hits = b.hits
      /\ c.stage = "over" /\ c.result = status /\ c.target = b.target /\ c.after = killed
      /\ c.before = b.before
  BY DEF BodyFits, BodyFields, O!Ended
<1> HIDE DEF c
<1>2. StageFits(c.stage, c.of.type)
  BY <1>1 DEF StageFits
<1>3. HitsFit(c)
  BY <1>1 DEF BodyFits, HitsFit
<1>4. KillsFit(c)
  <2>1. O!Counted(c, c.after) = O!Kills(b)
    BY <1>1 DEF O!Counted, O!Kills
  <2>2. QED
    BY <1>1, <2>1 DEF KillsFit
<1>5. BodyFits(c)
  BY <1>1, <1>2, <1>3, <1>4 DEF BodyFits
<1>6. QED
  BY <1>1, <1>5 DEF c

(* A body that goes on to another stage, with the target that it had or *)
(* with its first one. *)
LEMMA StageEntered ==
  ASSUME NEW b, BodyFits(b), NEW c, NEW stage, NEW t,
         DOMAIN c = BodyFields, c.of = b.of, c.hits = b.hits, c.stage = stage, c.target = t,
         stage # "over", StageFits(stage, b.of.type), t \in Mobs \cup {O!NoMob},
         stage \in {"aiming", "drawing"} => t # O!NoMob,
         stage \in {"head", "aiming", "drawing"} /\ b.hits # {} =>
           t = b.target /\ b.stage \in {"head", "aiming", "drawing"}
  PROVE  BodyFits(c)
<1>1. HitsFit(c)
  BY DEF BodyFits, HitsFit
<1>2. KillsFit(c)
  BY DEF KillsFit
<1>3. QED
  BY <1>1, <1>2 DEF BodyFits

LEMMA EnterFits ==
  ASSUME NEW b, BodyFits(b), NEW stage, stage \notin Engaging \cup {"over"},
         StageFits(stage, b.of.type)
  PROVE  LET c == [b EXCEPT !.stage = stage]
         IN  BodyFits(c) /\ c.n = b.n /\ c.of = b.of /\ c.hits = b.hits /\ c.stage = stage
             /\ c.result = b.result
<1> DEFINE c == [b EXCEPT !.stage = stage]
<1>1. /\ DOMAIN c = BodyFields /\ c.n = b.n /\ c.of = b.of /\ c.hits = b.hits
      /\ c.stage = stage /\ c.result = b.result /\ c.target = b.target
      /\ b.target \in Mobs \cup {O!NoMob}
  BY DEF BodyFits, BodyFields
<1> HIDE DEF c
<1>2. BodyFits(c)
  BY <1>1, StageEntered DEF Engaging
<1>3. QED
  BY <1>1, <1>2 DEF c
--------------------
LEMMA StepWaited == ASSUME BotInv, O!Waited PROVE BotInv'
<1>1. PICK b \in O!Running :
        /\ b.stage = "waiting" /\ O!Ends(b, "success") /\ UNCHANGED O!game /\ UNCHANGED O!gear
        /\ UNCHANGED goal /\ UNCHANGED O!busy /\ UNCHANGED O!frame
  BY DEF O!Waited
<1>2. BodyFits(b) /\ b.of.type = "wait"
  BY <1>1, RunningFits DEF BodyFits, StageFits, Engaging, Heating
<1>3. GoesOn(b, O!Ended(b, "success"))
  BY <1>1, <1>2, EndFits
     DEF GoesOn, O!Ends, O!game, O!gear, O!busy, O!frame, Engaging, Heating, BotInv, GameTyped
<1>4. QED
  BY <1>3, BodyGoesOn

LEMMA StepMoveEnds == ASSUME BotInv, O!MoveEnds PROVE BotInv'
<1>1. PICK b \in O!Running :
        /\ b.stage = "going" /\ goal' = O!NoGoal /\ \E status : O!Ends(b, status)
        /\ UNCHANGED O!game /\ UNCHANGED O!gear /\ UNCHANGED O!busy /\ UNCHANGED O!frame
  BY DEF O!MoveEnds
<1>2. PICK status : O!Ends(b, status)
  BY <1>1
<1>3. BodyFits(b) /\ b.of.type = "move"
  BY <1>1, RunningFits DEF BodyFits, StageFits, Engaging, Heating
<1>4. GoesOn(b, O!Ended(b, status))
  BY <1>1, <1>2, <1>3, EndFits
     DEF GoesOn, O!Ends, O!game, O!gear, O!busy, O!frame, Engaging, Heating, BotInv, GameTyped
<1>5. QED
  BY <1>4, BodyGoesOn

LEMMA StepDug == ASSUME BotInv, O!Dug PROVE BotInv'
<1>1. PICK b \in O!Running :
        /\ b.stage = "digging" /\ digging' = 0 /\ O!Enters(b, "settling") /\ UNCHANGED O!game
        /\ UNCHANGED O!gear /\ UNCHANGED goal /\ UNCHANGED windows /\ UNCHANGED O!frame
  BY DEF O!Dug
<1>2. BodyFits(b) /\ b.of.type = "dig" /\ StageFits("settling", "dig")
  BY <1>1, RunningFits DEF BodyFits, StageFits, Engaging, Heating
<1>3. GoesOn(b, [b EXCEPT !.stage = "settling"])
  BY <1>1, <1>2, EnterFits
     DEF GoesOn, O!Enters, O!game, O!gear, O!frame, Engaging, Heating, BotInv, GameTyped,
         O!Outlives
<1>4. QED
  BY <1>3, BodyGoesOn

LEMMA StepDropsObserved == ASSUME BotInv, O!DropsObserved PROVE BotInv'
<1>1. PICK b \in O!Running :
        /\ b.stage = "settling" /\ O!Ends(b, "success") /\ UNCHANGED O!game /\ UNCHANGED O!gear
        /\ UNCHANGED goal /\ UNCHANGED O!busy /\ UNCHANGED O!frame
  BY DEF O!DropsObserved
<1>2. BodyFits(b) /\ b.of.type = "dig"
  BY <1>1, RunningFits DEF BodyFits, StageFits, Engaging, Heating
<1>3. GoesOn(b, O!Ended(b, "success"))
  BY <1>1, <1>2, EndFits
     DEF GoesOn, O!Ends, O!game, O!gear, O!busy, O!frame, Engaging, Heating, BotInv, GameTyped
<1>4. QED
  BY <1>3, BodyGoesOn

LEMMA StepEquipped == ASSUME BotInv, O!Equipped PROVE BotInv'
<1>1. PICK b \in O!Running :
        /\ b.stage = "equipping"
        /\ (\E status : O!Ends(b, status)) \/ (b.of.type # "equip" /\ O!Enters(b, "acting"))
        /\ UNCHANGED O!game /\ UNCHANGED goal /\ UNCHANGED O!busy /\ UNCHANGED O!frame
  BY DEF O!Equipped
<1>2. BodyFits(b) /\ b.of.type \in {"equip", "place", "use", "consume"}
  BY <1>1, RunningFits DEF BodyFits, StageFits, Engaging, Heating
<1>3. CASE \E status : O!Ends(b, status)
  <2>1. PICK status : O!Ends(b, status)
    BY <1>3
  <2>2. GoesOn(b, O!Ended(b, status))
    BY <1>1, <1>2, <2>1, EndFits
       DEF GoesOn, O!Ends, O!game, O!busy, O!frame, O!Handling, Engaging, Heating, BotInv,
           GameTyped
  <2>3. QED
    BY <2>2, BodyGoesOn
<1>4. CASE b.of.type # "equip" /\ O!Enters(b, "acting")
  <2>1. StageFits("acting", b.of.type)
    BY <1>2, <1>4 DEF StageFits
  <2>2. GoesOn(b, [b EXCEPT !.stage = "acting"])
    BY <1>1, <1>2, <1>4, <2>1, EnterFits
       DEF GoesOn, O!Enters, O!game, O!busy, O!frame, O!Handling, Engaging, Heating, BotInv,
           GameTyped, O!Outlives
  <2>3. QED
    BY <2>2, BodyGoesOn
<1>5. QED
  BY <1>1, <1>3, <1>4

LEMMA StepActed == ASSUME BotInv, O!Acted PROVE BotInv'
<1>1. PICK b \in O!Running :
        /\ b.stage = "acting" /\ O!Ends(b, "success")
        /\ hand' = hand \/ b.of.type \in {"place", "consume"}
        /\ UNCHANGED O!game /\ UNCHANGED goal /\ UNCHANGED O!busy /\ UNCHANGED O!frame
  BY DEF O!Acted, O!gear
<1>2. BodyFits(b) /\ b.of.type \in {"craft", "place", "use", "consume"}
  BY <1>1, RunningFits DEF BodyFits, StageFits, Engaging, Heating
<1>3. GoesOn(b, O!Ended(b, "success"))
  BY <1>1, <1>2, EndFits
     DEF GoesOn, O!Ends, O!game, O!busy, O!frame, O!Handling, Engaging, Heating, BotInv, GameTyped
<1>4. QED
  BY <1>3, BodyGoesOn

LEMMA StepFurnaceOpened == ASSUME BotInv, O!FurnaceOpened PROVE BotInv'
<1>1. PICK b \in O!Running :
        /\ b.stage = "opening" /\ windows' = windows \cup {b.n} /\ O!Enters(b, "filling")
        /\ UNCHANGED O!game /\ UNCHANGED O!gear /\ UNCHANGED goal /\ UNCHANGED digging
        /\ UNCHANGED O!frame
  BY DEF O!FurnaceOpened
<1>2. BodyFits(b) /\ b.of.type = "smelt" /\ StageFits("filling", "smelt")
  BY <1>1, RunningFits DEF BodyFits, StageFits, Engaging, Heating
<1> DEFINE c == [b EXCEPT !.stage = "filling"]
<1>3. BodyFits(c) /\ c.n = b.n /\ c.of = b.of /\ c.hits = b.hits /\ c.stage = "filling"
      /\ c.result = b.result /\ O!Becomes(b, c)
  BY <1>1, <1>2, EnterFits DEF O!Enters, Engaging, Heating
<1> HIDE DEF c
<1>4. windows' \subseteq windows \cup {b.n} /\ c.stage \in Heating
  BY <1>1, <1>3 DEF O!busy, Heating
<1>5. GoesOn(b, c)
  BY <1>1, <1>2, <1>3, <1>4
     DEF GoesOn, O!game, O!gear, O!frame, Engaging, Heating, BotInv, GameTyped,
         O!Outlives
<1>6. QED
  BY <1>5, BodyGoesOn

LEMMA StepFurnaceFilled == ASSUME BotInv, O!FurnaceFilled PROVE BotInv'
<1>1. PICK b \in O!Running :
        /\ b.stage = "filling" /\ O!Enters(b, "taking")
        /\ UNCHANGED O!game /\ UNCHANGED goal /\ UNCHANGED O!busy /\ UNCHANGED O!frame
  BY DEF O!FurnaceFilled
<1>2. BodyFits(b) /\ b.of.type = "smelt" /\ StageFits("taking", "smelt")
  BY <1>1, RunningFits DEF BodyFits, StageFits, Engaging, Heating
<1> DEFINE c == [b EXCEPT !.stage = "taking"]
<1>3. BodyFits(c) /\ c.n = b.n /\ c.of = b.of /\ c.hits = b.hits /\ c.stage = "taking"
      /\ c.result = b.result /\ O!Becomes(b, c)
  BY <1>1, <1>2, EnterFits DEF O!Enters, Engaging, Heating
<1> HIDE DEF c
<1>4. windows' \subseteq windows \cup {b.n} /\ c.stage \in Heating
  BY <1>1, <1>3 DEF O!busy, Heating
<1>5. GoesOn(b, c)
  BY <1>1, <1>2, <1>3, <1>4
     DEF GoesOn, O!game, O!busy, O!frame, O!Handling, Engaging, Heating, BotInv,
         GameTyped, O!Outlives
<1>6. QED
  BY <1>5, BodyGoesOn

LEMMA StepFurnaceEmptied == ASSUME BotInv, O!FurnaceEmptied PROVE BotInv'
<1>1. PICK b \in O!Running :
        /\ b.stage = "taking" /\ windows' = windows \ {b.n} /\ \E status : O!Ends(b, status)
        /\ UNCHANGED O!game /\ UNCHANGED O!gear /\ UNCHANGED goal /\ UNCHANGED digging
        /\ UNCHANGED O!frame
  BY DEF O!FurnaceEmptied
<1>2. PICK status : O!Ends(b, status)
  BY <1>1
<1>3. BodyFits(b) /\ b.of.type = "smelt"
  BY <1>1, RunningFits DEF BodyFits, StageFits, Engaging, Heating
<1>4. GoesOn(b, O!Ended(b, status))
  BY <1>1, <1>2, <1>3, EndFits
     DEF GoesOn, O!Ends, O!game, O!gear, O!frame, Engaging, Heating, BotInv, GameTyped
<1>5. QED
  BY <1>4, BodyGoesOn

LEMMA StepThrows == ASSUME BotInv, O!Throws PROVE BotInv'
<1>1. PICK b \in O!Running :
        /\ b.stage \in {"digging", "equipping", "acting", "opening", "filling", "taking"}
        /\ digging' = (IF digging = b.n THEN 0 ELSE digging) /\ windows' = windows \ {b.n}
        /\ O!Ends(b, "runtime_error") /\ UNCHANGED O!game /\ UNCHANGED O!gear /\ UNCHANGED goal
        /\ UNCHANGED O!frame
  BY DEF O!Throws
<1>2. BodyFits(b) /\ b.of.type # "engage"
  BY <1>1, RunningFits DEF BodyFits, StageFits, Engaging, Heating
<1>3. digging' = 0 \/ (digging' = digging /\ b.stage # "digging")
  BY <1>1, RunningFits DEF BotInv, DigIsHeld, O!Outlives
<1>4. GoesOn(b, O!Ended(b, "runtime_error"))
  BY <1>1, <1>2, <1>3, EndFits
     DEF GoesOn, O!Ends, O!game, O!gear, O!frame, Engaging, Heating, BotInv, GameTyped
<1>5. QED
  BY <1>4, BodyGoesOn
--------------------
(* The rounds of an engagement. *)
LEMMA StepLeaves ==
  ASSUME BotInv, NEW b \in O!Running, b.stage \in Engaging, NEW status, O!Leaves(b, status),
         b.of.stop => (status = "target_killed" <=> O!Kills(b) # {}),
         UNCHANGED O!game, UNCHANGED O!gear, UNCHANGED O!busy, UNCHANGED O!frame
  PROVE  BotInv'
<1>1. BodyFits(b) /\ b.of.type = "engage"
  BY RunningFits DEF BodyFits, StageFits, Engaging, Heating
<1>2. GoesOn(b, O!Ended(b, status))
  BY <1>1, RunningFits, EndFits
     DEF GoesOn, O!Leaves, O!Ends, O!game, O!gear, O!busy, O!frame, Engaging, Heating, BotInv,
         GameTyped
<1>3. QED
  BY <1>2, BodyGoesOn

LEMMA RefreshedFits ==
  ASSUME BotInv, NEW b, BodyFits(b), b.stage = "head", NEW t \in O!Refreshed(b)
  PROVE  t \in Mobs \cup {O!NoMob} /\ (t # O!NoMob /\ b.hits # {} => t = b.target)
<1>1. b.hits # {} => b.target # O!NoMob
  BY DEF BodyFits, HitsFit
<1>2. O!Nearest(b.of.asked) \subseteq Mobs \cup {O!NoMob}
  BY DEF O!Nearest, O!Fits
<1>3. b.target \in Mobs \cup {O!NoMob}
  BY DEF BodyFits
<1>4. QED
  BY <1>1, <1>2, <1>3 DEF O!Refreshed

(* A round that takes or keeps a target, or finds it gone. *)
LEMMA StepTargets ==
  ASSUME BotInv, NEW b \in O!Running, b \notin late, b.stage = "head", NEW t \in O!Refreshed(b),
         NEW c, DOMAIN c = BodyFields, c.n = b.n, c.of = b.of, c.hits = b.hits,
         c.result = b.result, c.target = t,
         \/ t # O!NoMob /\ c.stage \in {"head", "aiming"}
         \/ t = O!NoMob /\ c.stage = "losing",
         O!Becomes(b, c), UNCHANGED O!game, UNCHANGED O!gear, UNCHANGED O!busy, UNCHANGED O!frame
  PROVE  BotInv'
<1>1. BodyFits(b) /\ b.of.type = "engage"
  BY RunningFits DEF BodyFits, StageFits, Engaging, Heating
<1>2. BodyFits(c)
  BY <1>1, RefreshedFits, StageEntered DEF StageFits, Engaging
<1>3. GoesOn(b, c)
  BY <1>1, <1>2
     DEF GoesOn, O!game, O!gear, O!busy, O!frame, Engaging, Heating, BotInv, GameTyped
<1>4. QED
  BY <1>3, BodyGoesOn

(* A round that gives a target up. *)
LEMMA StepGivesUp ==
  ASSUME BotInv, NEW b \in O!Running, b \notin late, b.stage = "head", NEW t \in O!Refreshed(b),
         t # O!NoMob, ~O!StopsAtKill(b),
         O!Leaves([b EXCEPT !.target = t], "target_unreachable"),
         UNCHANGED O!game, UNCHANGED O!gear, UNCHANGED O!busy, UNCHANGED O!frame
  PROVE  BotInv'
<1> DEFINE d == [b EXCEPT !.target = t]
<1>1. BodyFits(b) /\ b.of.type = "engage" /\ b.result = "none"
  BY RunningFits DEF BodyFits, StageFits, Engaging, Heating
<1>2. /\ DOMAIN d = BodyFields /\ d.n = b.n /\ d.of = b.of /\ d.hits = b.hits
      /\ d.result = b.result /\ d.target = t /\ d.stage = "head" /\ d.before = b.before
      /\ O!Leaves(d, "target_unreachable")
  BY <1>1 DEF BodyFits, BodyFields
<1> HIDE DEF d
<1>3. BodyFits(d)
  BY <1>1, <1>2, RefreshedFits, StageEntered DEF StageFits, Engaging
<1>4. d \notin late
  BY <1>1, <1>2 DEF BotInv, BodiesFit
<1>5. O!Becomes(b, O!Ended(d, "target_unreachable"))
  BY <1>2, <1>4 DEF O!Leaves, O!Ends, O!Becomes
<1>6. b.of.stop => O!Kills(d) = {}
  BY <1>2 DEF O!StopsAtKill, O!Kills, O!Counted
<1>7. GoesOn(b, O!Ended(d, "target_unreachable"))
  BY <1>1, <1>2, <1>3, <1>5, <1>6, EndFits
     DEF GoesOn, O!Leaves, O!game, O!gear, O!busy, O!frame, Engaging, Heating, BotInv, GameTyped
<1>8. QED
  BY <1>7, BodyGoesOn

LEMMA StepLost == ASSUME BotInv, O!Lost PROVE BotInv'
<1>1. PICK b \in O!Running :
        /\ b.stage = "losing" /\ O!Leaves(b, O!LostStatus(b)) /\ UNCHANGED O!game
        /\ UNCHANGED O!gear /\ UNCHANGED O!busy /\ UNCHANGED O!frame
  BY DEF O!Lost
<1>2. b.of.stop => (O!LostStatus(b) = "target_killed" <=> O!Kills(b) # {})
  BY DEF O!LostStatus, O!StopsAtKill
<1>3. QED
  BY <1>1, <1>2, StepLeaves DEF Engaging

LEMMA StepRound == ASSUME BotInv, O!Round PROVE BotInv'
<1>1. PICK b \in O!Running :
        /\ b.stage = "head"
        /\ \/ O!TimeIsUp(b)
           \/ b \notin late /\ O!StopsAtKill(b) /\ O!Leaves(b, "target_killed")
           \/ b \notin late /\ ~O!StopsAtKill(b) /\ O!Leaves(b, "low_health")
           \/ /\ b \notin late /\ ~O!StopsAtKill(b)
              /\ \E t \in O!Refreshed(b) :
                   CASE t = O!NoMob ->
                          O!Becomes(b, [b EXCEPT !.target = O!NoMob, !.stage = "losing"])
                          /\ UNCHANGED goal
                     [] t # O!NoMob /\ b.of.mode = "melee" -> O!MeleeRound(b, t)
                     [] OTHER -> O!RangedRound(b, t)
        /\ UNCHANGED O!game /\ UNCHANGED O!gear /\ UNCHANGED O!busy /\ UNCHANGED O!frame
  BY DEF O!Round
<1> DEFINE LeavesWith(status) ==
      O!Leaves(b, status) /\ (b.of.stop => (status = "target_killed" <=> O!Kills(b) # {}))
<1>2. ASSUME NEW status, LeavesWith(status) PROVE BotInv'
  BY <1>1, <1>2, StepLeaves DEF Engaging
<1>3. CASE O!TimeIsUp(b)
  <2>1. \E status : LeavesWith(status)
    <3>1. CASE O!Kills(b) # {} /\ O!Leaves(b, "target_killed")
      BY <3>1
    <3>2. CASE O!Kills(b) = {} /\ O!Leaves(b, "target_unreachable")
      BY <3>2
    <3>3. CASE O!Kills(b) = {} /\ O!Leaves(b, "out_of_time")
      BY <3>3
    <3>4. QED
      BY <1>3, <3>1, <3>2, <3>3 DEF O!TimeIsUp
  <2>2. QED
    BY <1>2, <2>1
<1>4. CASE O!StopsAtKill(b) /\ O!Leaves(b, "target_killed")
  BY <1>2, <1>4 DEF O!StopsAtKill
<1>5. ASSUME ~O!StopsAtKill(b), NEW status, status # "target_killed", O!Leaves(b, status)
      PROVE  BotInv'
  BY <1>2, <1>5 DEF O!StopsAtKill
<1>6. ASSUME b \notin late, ~O!StopsAtKill(b), NEW t \in O!Refreshed(b),
             CASE t = O!NoMob ->
                    O!Becomes(b, [b EXCEPT !.target = O!NoMob, !.stage = "losing"])
                    /\ UNCHANGED goal
               [] t # O!NoMob /\ b.of.mode = "melee" -> O!MeleeRound(b, t)
               [] OTHER -> O!RangedRound(b, t)
      PROVE  BotInv'
  <2>1. DOMAIN b = BodyFields /\ BodyFits(b)
    BY RunningFits DEF BodyFits
  <2>2. CASE t = O!NoMob
    <3> DEFINE c == [b EXCEPT !.target = O!NoMob, !.stage = "losing"]
    <3>1. O!Becomes(b, c)
      BY <1>6, <2>2
    <3>2. /\ DOMAIN c = BodyFields /\ c.n = b.n /\ c.of = b.of /\ c.hits = b.hits
          /\ c.result = b.result /\ c.target = t /\ c.stage = "losing"
      BY <2>1, <2>2 DEF BodyFields
    <3> HIDE DEF c
    <3>3. QED
      BY <1>1, <1>6, <2>2, <3>1, <3>2, StepTargets
  <2>3. ASSUME t # O!NoMob, O!Becomes(b, [b EXCEPT !.target = t]) PROVE BotInv'
    <3> DEFINE c == [b EXCEPT !.target = t]
    <3>1. /\ DOMAIN c = BodyFields /\ c.n = b.n /\ c.of = b.of /\ c.hits = b.hits
          /\ c.result = b.result /\ c.target = t /\ c.stage = "head" /\ O!Becomes(b, c)
      BY <1>1, <2>1, <2>3 DEF BodyFields
    <3> HIDE DEF c
    <3>2. QED
      BY <1>1, <1>6, <2>3, <3>1, StepTargets
  <2>4. ASSUME t # O!NoMob, O!Becomes(b, [b EXCEPT !.target = t, !.stage = "aiming"])
        PROVE  BotInv'
    <3> DEFINE c == [b EXCEPT !.target = t, !.stage = "aiming"]
    <3>1. /\ DOMAIN c = BodyFields /\ c.n = b.n /\ c.of = b.of /\ c.hits = b.hits
          /\ c.result = b.result /\ c.target = t /\ c.stage = "aiming" /\ O!Becomes(b, c)
      BY <2>1, <2>4 DEF BodyFields
    <3> HIDE DEF c
    <3>2. QED
      BY <1>1, <1>6, <2>4, <3>1, StepTargets
  <2>5. CASE t # O!NoMob /\ b.of.mode = "melee"
    <3>1. O!MeleeRound(b, t)
      BY <1>6, <2>5
    <3>2. \/ O!Becomes(b, [b EXCEPT !.target = t])
          \/ O!Leaves([b EXCEPT !.target = t], "target_unreachable")
          \/ O!Becomes(b, [b EXCEPT !.target = t, !.stage = "aiming"])
      BY <3>1 DEF O!MeleeRound
    <3>3. QED
      BY <1>1, <1>6, <2>3, <2>4, <2>5, <3>2, StepGivesUp
  <2>6. CASE t # O!NoMob /\ b.of.mode # "melee"
    <3>1. O!RangedRound(b, t)
      BY <1>6, <2>6
    <3>2. \/ O!Leaves(b, "no_ammo") \/ O!Leaves(b, "no_line_of_sight")
          \/ O!Becomes(b, [b EXCEPT !.target = t])
          \/ O!Becomes(b, [b EXCEPT !.target = t, !.stage = "aiming"])
      BY <3>1 DEF O!RangedRound
    <3>3. QED
      BY <1>5, <1>6, <2>3, <2>4, <2>6, <3>2
  <2>7. QED
    BY <2>2, <2>5, <2>6
<1>7. QED
  BY <1>1, <1>3, <1>4, <1>5, <1>6

(* A hit is of the target, and with what the engagement holds. *)
LEMMA HitFits ==
  ASSUME BotInv, NEW b \in O!Running, b.stage \in {"aiming", "drawing"},
         NEW c, DOMAIN c = BodyFields, c.of = b.of, c.hits = b.hits \cup {O!Hit(b)},
         c.stage = "head", c.target = b.target
  PROVE  BodyFits(c)
<1>1. /\ BodyFits(b) /\ b.of.type = "engage" /\ b.target # O!NoMob
      /\ (b = body /\ b \notin late) \/ b \in late
  BY RunningFits DEF BodyFits, StageFits, Engaging, Heating
<1> DEFINE g == O!Hit(b)
<1>2. g.mob = b.target /\ g.item = hand
      /\ (g.alone => haunted \cap O!Handling = {} /\ b \notin late)
  BY DEF O!Hit
<1> HIDE DEF g
<1>3. ASSUME NEW h \in b.hits, h.alone, g.alone PROVE h.item = hand
  BY <1>1, <1>2, <1>3 DEF BotInv, HandIsHeld, O!Running
<1>4. g.alone => /\ b.of.item # O!Whatever => hand = b.of.item
                 /\ b.of.mode = "ranged" => hand \in Bows
  BY <1>1, <1>2 DEF BotInv, HandIsHeld, O!Running
<1>5. HitsFit(c)
  <2>1. \A h \in b.hits : h.mob = b.target
    BY <1>1 DEF BodyFits, HitsFit
  <2>2. c.hits = b.hits \cup {g}
    BY DEF g
  <2>3. ASSUME NEW h \in c.hits, NEW i \in c.hits
        PROVE  h.mob = i.mob /\ (h.alone /\ i.alone => h.item = i.item)
    <3>1. h.mob = b.target /\ i.mob = b.target
      BY <1>2, <2>1, <2>2
    <3>2. h.alone /\ i.alone => h.item = i.item
      BY <1>1, <1>2, <1>3, <2>2 DEF BodyFits, HitsFit
    <3>3. QED
      BY <3>1, <3>2
  <2>4. ASSUME NEW h \in c.hits
        PROVE  /\ h.alone /\ b.of.item # O!Whatever => h.item = b.of.item
               /\ h.alone /\ b.of.mode = "ranged" => h.item \in Bows
               /\ h.mob = b.target
    BY <1>1, <1>2, <1>4, <2>1, <2>2 DEF BodyFits, HitsFit
  <2>5. QED
    BY <1>1, <2>3, <2>4 DEF HitsFit
<1>6. QED
  BY <1>1, <1>5 DEF BodyFits, StageFits, Engaging, KillsFit

LEMMA StepStrike == ASSUME BotInv, O!Strike PROVE BotInv'
<1>1. PICK b \in O!Running :
        /\ b.stage = "aiming" /\ attacked' = attacked \cup {b.target}
        /\ O!Becomes(b, IF b.of.mode = "melee"
                        THEN [b EXCEPT !.stage = "head", !.hits = @ \cup {O!Hit(b)}]
                        ELSE [b EXCEPT !.stage = "drawing"])
        /\ UNCHANGED where /\ UNCHANGED killed /\ UNCHANGED O!gear /\ UNCHANGED goal
        /\ UNCHANGED O!busy /\ UNCHANGED O!frame
  BY DEF O!Strike
<1>2. BodyFits(b) /\ b.of.type = "engage" /\ b.target \in Mobs /\ b.target # O!NoMob
      /\ DOMAIN b = BodyFields
  BY <1>1, RunningFits DEF BodyFits, StageFits, Engaging, Heating
<1>3. ASSUME NEW c, O!Becomes(b, c), BodyFits(c), c.n = b.n, c.of = b.of, c.result = b.result,
             c.stage \in {"head", "drawing"}, c.hits \subseteq b.hits \cup {O!Hit(b)}
      PROVE  BotInv'
  <2>1. GoesOn(b, c)
    BY <1>1, <1>2, <1>3
       DEF GoesOn, O!gear, O!busy, O!frame, Engaging, Heating, BotInv, GameTyped, O!Outlives
  <2>2. QED
    BY <2>1, BodyGoesOn
<1>4. CASE b.of.mode = "melee"
  <2> DEFINE c == [b EXCEPT !.stage = "head", !.hits = @ \cup {O!Hit(b)}]
  <2>1. /\ DOMAIN c = BodyFields /\ c.n = b.n /\ c.of = b.of /\ c.hits = b.hits \cup {O!Hit(b)}
        /\ c.result = b.result /\ c.target = b.target /\ c.stage = "head" /\ O!Becomes(b, c)
    BY <1>1, <1>2, <1>4 DEF BodyFields
  <2> HIDE DEF c
  <2>2. QED
    BY <1>1, <1>3, <2>1, HitFits
<1>5. CASE b.of.mode # "melee"
  <2> DEFINE c == [b EXCEPT !.stage = "drawing"]
  <2>1. /\ DOMAIN c = BodyFields /\ c.n = b.n /\ c.of = b.of /\ c.hits = b.hits
        /\ c.result = b.result /\ c.target = b.target /\ c.stage = "drawing" /\ O!Becomes(b, c)
    BY <1>1, <1>2, <1>5 DEF BodyFields
  <2> HIDE DEF c
  <2>2. BodyFits(c)
    BY <1>1, <1>2, <2>1, StageEntered DEF StageFits, Engaging
  <2>3. QED
    BY <1>3, <2>1, <2>2
<1>6. QED
  BY <1>4, <1>5

LEMMA StepLoose == ASSUME BotInv, O!Loose PROVE BotInv'
<1>1. PICK b \in O!Running :
        /\ b.stage = "drawing"
        /\ O!Becomes(b, [b EXCEPT !.stage = "head", !.hits = @ \cup {O!Hit(b)}])
        /\ UNCHANGED O!game /\ UNCHANGED hand /\ UNCHANGED goal /\ UNCHANGED O!busy
        /\ UNCHANGED O!frame
  BY DEF O!Loose
<1>2. BodyFits(b) /\ b.of.type = "engage" /\ DOMAIN b = BodyFields
  BY <1>1, RunningFits DEF BodyFits, StageFits, Engaging, Heating
<1> DEFINE c == [b EXCEPT !.stage = "head", !.hits = @ \cup {O!Hit(b)}]
<1>3. /\ DOMAIN c = BodyFields /\ c.n = b.n /\ c.of = b.of /\ c.hits = b.hits \cup {O!Hit(b)}
      /\ c.result = b.result /\ c.target = b.target /\ c.stage = "head" /\ O!Becomes(b, c)
  BY <1>1, <1>2 DEF BodyFields
<1> HIDE DEF c
<1>4. BodyFits(c)
  BY <1>1, <1>3, HitFits
<1>5. GoesOn(b, c)
  BY <1>1, <1>2, <1>3, <1>4
     DEF GoesOn, O!game, O!busy, O!frame, Engaging, Heating, BotInv, GameTyped
<1>6. QED
  BY <1>5, BodyGoesOn
--------------------
(* The time limit, the game, and the next request. *)
LEMMA StepTimeLimit == ASSUME BotInv, O!TimeLimit PROVE BotInv'
<1> DEFINE d == [body EXCEPT !.result = "timeout"]
<1> DEFINE e == O!Ended(body, "timeout")
<1>1. /\ body \in O!Running /\ body.stage \in O!Outlives \cup {"digging"} /\ body.stage # "over"
      /\ body' = e /\ late' = late \cup {b \in {d} : b.stage \in O!Outlives}
      /\ digging' = (IF digging = body.n THEN 0 ELSE digging)
      /\ where' = where /\ attacked' = attacked /\ killed' = killed /\ hand' = hand
      /\ goal' = goal /\ windows' = windows /\ follow' = follow /\ turn' = turn
      /\ haunted' = haunted
  BY DEF O!TimeLimit, O!game, O!gear, O!frame, O!Running
<1>2. BodyFits(body) /\ body.n = turn /\ turn # 0 /\ turn \in 0 .. MaxActions /\ MaxActions \in Nat
  BY <1>1, BotAssumption DEF BotInv, BodiesFit, GameTyped
<1>3. /\ DOMAIN d = BodyFields /\ d.n = turn /\ d.of = body.of /\ d.hits = body.hits
      /\ d.result = "timeout" /\ d.target = body.target /\ d.stage = body.stage
  BY <1>2 DEF BodyFits, BodyFields
<1>4. /\ BodyFits(e) /\ e.n = turn /\ e.of = body.of /\ e.stage = "over" /\ e.result = "timeout"
  BY <1>1, <1>2, EndFits
<1> HIDE DEF d, e
<1>5. BodyFits(d)
  BY <1>1, <1>2, <1>3 DEF BodyFits, HitsFit, KillsFit
<1>6. digging' = 0
  BY <1>1 DEF BotInv, DigIsHeld
<1>7. follow = 0
  BY <1>1, <1>2 DEF BotInv, O!FollowIsReal, BodyFits, StageFits
<1>8. GameTyped'
  BY <1>1, <1>2, <1>6 DEF BotInv, GameTyped
<1>9. BodiesFit'
  <2>1. turn \in 1 .. turn
    BY <1>2
  <2>2. QED
    BY <1>1, <1>3, <1>4, <1>5, <2>1 DEF BotInv, BodiesFit
<1>10. LateAreKnown' /\ HandIsHeld'
  BY <1>1, <1>3, <1>4 DEF BotInv, LateAreKnown, HandIsHeld
<1>11. O!FollowIsReal' /\ DigIsHeld'
  BY <1>1, <1>6, <1>7 DEF O!FollowIsReal, DigIsHeld
<1>12. body.stage \in Engaging \cup {"going"} \cup Heating => d \in late'
  BY <1>1, <1>3 DEF O!Outlives, Engaging, Heating
<1>13. GoalIsHeld'
  BY <1>1, <1>3, <1>7, <1>12 DEF BotInv, GoalIsHeld, O!Running
<1>14. WindowsAreHeld'
  BY <1>1, <1>2, <1>3, <1>12 DEF BotInv, WindowsAreHeld
<1>15. QED
  BY <1>8, <1>9, <1>10, <1>11, <1>13, <1>14 DEF BotInv

LEMMA StepGame ==
  ASSUME BotInv, O!Wander \/ O!Dies \/ O!Vanishes \/ UNCHANGED O!vars
  PROVE  BotInv'
<1>1. /\ where' \in [Mobs -> {"reach", "near", "far", "gone"}]
      /\ attacked' \subseteq Mobs /\ killed' \subseteq Mobs
  BY DEF O!Wander, O!Dies, O!Vanishes, O!vars, BotInv, GameTyped
<1>2. /\ hand' = hand /\ goal' = goal /\ follow' = follow /\ digging' = digging
      /\ windows' = windows /\ body' = body /\ late' = late /\ turn' = turn
      /\ haunted' = haunted
  BY DEF O!Wander, O!Dies, O!Vanishes, O!vars, O!gear, O!busy, O!frame
<1>3. GameTyped' /\ BodiesFit' /\ LateAreKnown'
  BY <1>1, <1>2 DEF BotInv, GameTyped, BodiesFit, LateAreKnown
<1>4. HandIsHeld' /\ O!FollowIsReal'
  BY <1>2 DEF BotInv, HandIsHeld, O!FollowIsReal
<1>5. GoalIsHeld' /\ DigIsHeld' /\ WindowsAreHeld'
  BY <1>2 DEF BotInv, GoalIsHeld, DigIsHeld, WindowsAreHeld, O!Running
<1>6. QED
  BY <1>3, <1>4, <1>5 DEF BotInv

(* What the worker makes of a request. *)
HandledTypes ==
  {"look", "wait", "move", "dig", "follow", "use", "equip", "place", "consume", "engage", "smelt",
   "craft"}
LEMMA HandledTyped == ASSUME NEW r \in Requests PROVE O!Handled(r).type \in HandledTypes
<1>1. /\ DOMAIN r = {"type", "asked", "item", "station", "mode", "ammo", "stop"}
      /\ r.type \in {"look", "wait", "move", "dig", "follow", "use", "equip", "place", "consume",
                     "process", "fight", "engage"}
  BY BotAssumption
<1>2. CASE r.type = "fight"
  BY <1>2 DEF O!Handled, O!Fight, HandledTypes
<1>3. CASE r.type = "process"
  BY <1>1, <1>3 DEF O!Handled, O!Process, HandledTypes
<1>4. CASE r.type \notin {"fight", "process"}
  BY <1>1, <1>4 DEF O!Handled, HandledTypes
<1>5. QED
  BY <1>2, <1>3, <1>4

(* The first step of a body b, which is then c. *)
Begins(b, c) ==
  /\ DOMAIN b = BodyFields /\ b.n = turn + 1 /\ b.before = killed /\ b.stage = "over"
  /\ b.result = "none" /\ b.target = O!NoMob /\ b.hits = {} /\ b.of.type \in HandledTypes
  /\ body' = c /\ c.n = b.n /\ c.of = b.of /\ c.hits = {} /\ BodyFits(c)
  /\ c.stage # "over" => c.result = "none"

LEMMA BodyBegins ==
  ASSUME BotInv, body.stage = "over", turn < MaxActions, turn' = turn + 1,
         UNCHANGED O!game, UNCHANGED O!gear, UNCHANGED windows, UNCHANGED late,
         NEW b, NEW c, Begins(b, c),
         haunted' = {l.of.type : l \in late} \cup (IF b.of.type = "follow" THEN haunted ELSE {}),
         c.stage # "over" /\ b.of.type = "engage" =>
           /\ b.of.item # O!Whatever => hand = b.of.item
           /\ b.of.mode = "ranged" => hand \in Bows,
         \/ follow' = 0
         \/ /\ b.of.type = "follow" /\ follow' = follow /\ goal' = goal
         \/ /\ b.of.type = "follow" /\ follow' = turn + 1
            /\ goal' = [of |-> follow', on |-> "follow"],
         \/ goal' = O!NoGoal \/ follow' # 0 \/ c.stage = "going"
         \/ goal' = goal /\ follow = 0,
         digging' = 0 \/ (c.stage = "digging" /\ digging' = turn + 1)
  PROVE  BotInv'
<1>1. turn \in 0 .. MaxActions /\ MaxActions \in Nat /\ follow \in 0 .. turn /\ turn + 1 # 0
  BY BotAssumption DEF BotInv, GameTyped
<1>2. GameTyped'
  BY <1>1 DEF BotInv, GameTyped, O!game
<1>3. BodiesFit'
  <2>1. \A l \in late : l.n \in 1 .. turn + 1
    BY <1>1 DEF BotInv, BodiesFit
  <2>2. QED
    BY <1>1, <2>1 DEF BotInv, BodiesFit, Begins
<1>4. LateAreKnown'
  BY DEF LateAreKnown
<1>5. HandIsHeld'
  BY DEF HandIsHeld, Begins, O!gear
<1>6. O!FollowIsReal'
  <2>1. SUFFICES ASSUME follow' # 0
                 PROVE  /\ body'.of.type = "follow"
                        /\ "engage" \notin haunted' => goal' = [of |-> follow', on |-> "follow"]
    BY DEF O!FollowIsReal
  <2>2. b.of.type = "follow" /\ body'.of.type = "follow" /\ haunted \subseteq haunted'
    BY <2>1 DEF Begins
  <2>3. QED
    BY <2>1, <2>2 DEF BotInv, O!FollowIsReal
<1>7. GoalIsHeld'
  <2>1. CASE goal' = O!NoGoal \/ follow' # 0
    BY <2>1 DEF GoalIsHeld
  <2>2. CASE c.stage = "going"
    BY <2>2 DEF GoalIsHeld, Begins, O!Running
  <2>3. CASE goal' = goal /\ follow = 0
    BY <2>3 DEF BotInv, GoalIsHeld, O!Running
  <2>4. QED
    BY <2>1, <2>2, <2>3
<1>8. DigIsHeld'
  BY DEF DigIsHeld, Begins
<1>9. WindowsAreHeld'
  <2>1. \A w \in windows : \E l \in late : l.stage \in Heating /\ l.n = w
    BY DEF BotInv, WindowsAreHeld, Heating
  <2>2. QED
    BY <2>1 DEF WindowsAreHeld
<1>10. QED
  BY <1>2, <1>3, <1>4, <1>5, <1>6, <1>7, <1>8, <1>9 DEF BotInv

LEMMA StepReceive == ASSUME BotInv, O!Receive PROVE BotInv'
<1>1. PICK r \in Requests :
        LET b == [O!Quiet EXCEPT !.n = turn + 1, !.of = O!Handled(r), !.before = killed]
        IN  /\ haunted' = {l.of.type : l \in late}
                          \cup (IF b.of.type = "follow" THEN haunted ELSE {})
            /\ IF b.of.type = "follow" THEN O!StartFollow(b) /\ UNCHANGED digging
               ELSE O!Dispatch(b)
  BY DEF O!Receive
<1>2. /\ turn < MaxActions /\ body.stage = "over" /\ turn' = turn + 1 /\ UNCHANGED O!game
      /\ UNCHANGED O!gear /\ UNCHANGED windows /\ UNCHANGED late
  BY DEF O!Receive
<1> DEFINE b == [O!Quiet EXCEPT !.n = turn + 1, !.of = O!Handled(r), !.before = killed]
<1>3. /\ haunted' = {l.of.type : l \in late} \cup (IF b.of.type = "follow" THEN haunted ELSE {})
      /\ b.of.type = "follow" => O!StartFollow(b) /\ UNCHANGED digging
      /\ b.of.type # "follow" => O!Dispatch(b)
  BY <1>1
<1>4. /\ DOMAIN b = BodyFields /\ b.n = turn + 1 /\ b.before = killed /\ b.stage = "over"
      /\ b.result = "none" /\ b.target = O!NoMob /\ b.hits = {} /\ b.of.type \in HandledTypes
  BY HandledTyped DEF O!Quiet, BodyFields
<1> HIDE DEF b
<1>5. digging = 0
  BY <1>2 DEF BotInv, DigIsHeld
(* A body that is refused is over, and has killed nothing. *)
<1>6. ASSUME NEW status, status # "target_killed", body' = O!Ended(b, status)
      PROVE  Begins(b, O!Ended(b, status)) /\ O!Ended(b, status).stage = "over"
  <2> DEFINE c == O!Ended(b, status)
  <2>1. /\ DOMAIN c = BodyFields /\ c.n = b.n /\ c.of = b.of /\ c.hits = {} /\ c.stage = "over"
        /\ c.result = status /\ c.target = O!NoMob /\ c.before = killed /\ c.after = killed
        /\ body' = c
    BY <1>4, <1>6 DEF O!Ended, BodyFields
  <2> HIDE DEF c
  <2>2. O!Counted(c, c.after) = {}
    BY <2>1 DEF O!Counted
  <2>3. BodyFits(c)
    BY <1>6, <2>1, <2>2 DEF BodyFits, StageFits, HitsFit, KillsFit
  <2>4. Begins(b, c) /\ c.stage = "over"
    BY <1>4, <2>1, <2>3 DEF Begins
  <2>5. QED
    BY <2>4 DEF c
<1>7. CASE b.of.type = "follow"
  <2>1. PICK m \in O!Nearest(b.of.asked) :
          IF m = O!NoMob
          THEN body' = O!Ended(b, "target_not_found") /\ UNCHANGED <<goal, follow>>
          ELSE O!Registered(b.n) /\ body' = O!Ended(b, "success")
    BY <1>3, <1>7 DEF O!StartFollow
  <2>2. PICK status : status # "target_killed" /\ body' = O!Ended(b, status)
    BY <2>1
  <2>3. Begins(b, O!Ended(b, status)) /\ O!Ended(b, status).stage = "over"
    BY <1>6, <2>2
  <2>4. \/ follow' = follow /\ goal' = goal
        \/ follow' = turn + 1 /\ goal' = [of |-> follow', on |-> "follow"]
    BY <1>4, <2>1 DEF O!Registered
  <2>5. turn + 1 # 0
    BY DEF BotInv, GameTyped
  <2>6. QED
    BY <1>2, <1>3, <1>5, <1>7, <2>3, <2>4, <2>5, BodyBegins
<1>8. CASE b.of.type # "follow"
  <2>1. PICK refusal \in O!Refusals(b.of) :
          /\ body' = IF refusal = "none" THEN [b EXCEPT !.stage = O!FirstStage(b.of)]
                     ELSE O!Ended(b, refusal)
          /\ follow' = IF O!StopsFollow(b.of) THEN 0 ELSE follow
          /\ goal' = CASE b.of.type = "move" /\ refusal = "none" -> [of |-> b.n, on |-> "place"]
                       [] b.of.type = "move" -> O!NoGoal
                       [] OTHER -> O!GoalLeft(b.of)
          /\ digging' = IF b.of.type = "dig" /\ refusal = "none" THEN b.n ELSE digging
    BY <1>3, <1>8 DEF O!Dispatch
  <2>2. follow' = 0
    BY <1>8, <2>1 DEF O!StopsFollow
  <2>3. b.of.type # "move" => goal' = O!NoGoal \/ (goal' = goal /\ follow = 0)
    BY <1>8, <2>1 DEF O!GoalLeft, O!StopsFollow
  <2>4. CASE refusal = "none"
    <3> DEFINE c == [b EXCEPT !.stage = O!FirstStage(b.of)]
    <3>1. /\ DOMAIN c = BodyFields /\ c.n = b.n /\ c.of = b.of /\ c.hits = {}
          /\ c.stage = O!FirstStage(b.of) /\ c.result = "none" /\ c.target = O!NoMob /\ body' = c
      BY <1>4, <2>1, <2>4 DEF BodyFields
    <3> HIDE DEF c
    <3>2. b.of.type # "look"
      BY <2>1, <2>4 DEF O!Refusals
    <3>3. StageFits(c.stage, c.of.type) /\ c.stage \notin {"over", "aiming", "drawing"}
      BY <1>4, <1>8, <3>1, <3>2 DEF O!FirstStage, StageFits, HandledTypes, Engaging, Heating
    <3>4. BodyFits(c)
      BY <3>1, <3>3 DEF BodyFits, HitsFit, KillsFit
    <3>5. Begins(b, c)
      BY <1>4, <3>1, <3>4 DEF Begins
    <3>6. b.of.type = "engage" => /\ b.of.item # O!Whatever => hand = b.of.item
                                  /\ b.of.mode = "ranged" => hand \in Bows
      <4>1. b.of.type = "engage" => O!EquipmentFault(b.of) = "none"
        BY <2>1, <2>4 DEF O!Refusals
      <4>2. QED
        BY <4>1 DEF O!EquipmentFault
    <3>7. /\ b.of.type = "move" => c.stage = "going"
          /\ b.of.type = "dig" => c.stage = "digging"
      BY <3>1 DEF O!FirstStage
    <3>8. digging' = 0 \/ (c.stage = "digging" /\ digging' = turn + 1)
      BY <1>4, <1>5, <2>1, <3>7
    <3>9. QED
      BY <1>2, <1>3, <2>2, <2>3, <3>5, <3>6, <3>7, <3>8, BodyBegins
  <2>5. CASE refusal # "none"
    <3>1. refusal # "target_killed"
      BY <2>1 DEF O!Refusals, O!UseRefusals, O!SmeltRefusals, O!CraftRefusals, O!DigRefusals,
         O!EquipmentFault
    <3>2. Begins(b, O!Ended(b, refusal)) /\ O!Ended(b, refusal).stage = "over"
      BY <1>6, <2>1, <2>5, <3>1
    <3>3. goal' = O!NoGoal \/ (goal' = goal /\ follow = 0)
      BY <2>1, <2>3, <2>5
    <3>4. digging' = 0
      BY <1>5, <2>1, <2>5
    <3>5. QED
      BY <1>2, <1>3, <2>2, <3>2, <3>3, <3>4, BodyBegins
  <2>6. QED
    BY <2>4, <2>5
<1>9. QED
  BY <1>7, <1>8
--------------------
LEMMA InitBot == O!Init => BotInv
<1> SUFFICES ASSUME O!Init PROVE BotInv
  OBVIOUS
<1>1. BodyFits(body) /\ body.n = 0 /\ body.stage = "over" /\ late = {}
  BY DEF O!Init, O!Quiet, BodyFits, BodyFields, StageFits, HitsFit, KillsFit
<1>2. GameTyped
  BY BotAssumption DEF O!Init, GameTyped
<1>3. BodiesFit /\ LateAreKnown /\ HandIsHeld
  BY <1>1 DEF O!Init, BodiesFit, LateAreKnown, HandIsHeld
<1>4. O!FollowIsReal /\ GoalIsHeld /\ DigIsHeld /\ WindowsAreHeld
  BY DEF O!Init, O!FollowIsReal, GoalIsHeld, DigIsHeld, WindowsAreHeld
<1>5. QED
  BY <1>2, <1>3, <1>4 DEF BotInv

LEMMA StepBot == BotInv /\ [O!Next]_(O!vars) => BotInv'
  BY StepWaited, StepMoveEnds, StepDug, StepDropsObserved, StepEquipped, StepActed,
     StepFurnaceOpened, StepFurnaceFilled, StepFurnaceEmptied, StepThrows, StepRound, StepLost,
     StepStrike, StepLoose, StepTimeLimit, StepGame, StepReceive
     DEF O!Next

(* A registered follow is real, a bot without an action stands still, *)
(* kills are told, and hits are meant: for any mobs, items and requests, *)
(* however often handlers outlive the answers to their requests. *)
THEOREM ActionsServe == O!Spec => [](O!TypeOK /\ O!ActionsAreSound)
<1>1. BotInv => O!TypeOK
  BY DEF BotInv, GameTyped, BodiesFit, O!TypeOK
<1>2. BotInv => O!BotStandsStill
  BY DEF BotInv, GoalIsHeld, DigIsHeld, WindowsAreHeld, BodiesFit, BodyFits, O!BotStandsStill,
     O!Running, Heating
<1>3. BotInv => O!KillsAreTold
  BY DEF BotInv, BodiesFit, BodyFits, KillsFit, O!KillsAreTold
<1>4. BotInv => O!HitsAreMeant
  BY DEF BotInv, BodiesFit, BodyFits, HitsFit, O!HitsAreMeant
<1>5. BotInv => O!ActionsAreSound
  BY <1>2, <1>3, <1>4 DEF BotInv, O!ActionsAreSound
<1>6. QED
  BY <1>1, <1>5, InitBot, StepBot, PTL DEF O!Spec
--------------------
(* Numbers and finite sets, for the parts that follow. *)
(* A set of naturals has a least element. *)
LEMMA NaturalsHaveMinimum ==
  ASSUME NEW V \in SUBSET Nat, V # {}
  PROVE  \E m \in V : \A n \in V : m <= n
<1> DEFINE R == OpToRel(<, Nat)
<1>1. \A x, y \in Nat : <<x, y>> \in R <=> x < y
  BY DEF OpToRel
<1>2. IsWellFoundedOn(R, Nat)
  BY NatLessThanWellFounded
<1> HIDE DEF R
<1>3. PICK m \in V : \A n \in V : <<n, m>> \notin R
  BY <1>2, WFMin
<1>4. \A n \in V : ~(n < m) /\ n \in Nat /\ m \in Nat
  BY <1>1, <1>3
<1>5. QED
  BY <1>4

(* What holds of zero and, with a number, of the next holds of all of them.*)
LEMMA NaturalsGrow ==
  ASSUME NEW G \in SUBSET Nat, 0 \in G, \A k \in G : k + 1 \in G
  PROVE  G = Nat
<1> DEFINE Rest == Nat \ G
<1>1. ASSUME Rest # {} PROVE FALSE
  <2>1. PICK m \in Rest : \A n \in Rest : m <= n
    BY <1>1, NaturalsHaveMinimum
  <2>2. m \in Nat /\ m - 1 \in Nat /\ (m - 1) + 1 = m
    BY <2>1
  <2>3. m - 1 \in G
    BY <2>1, <2>2
  <2>4. QED
    BY <2>1, <2>2, <2>3
<1>2. QED
  BY <1>1

(* Of a finite set in a strict order, the one with the fewest before it has*)
(* none before it. *)
LEMMA SomeoneIsFirst ==
  ASSUME NEW V, IsFiniteSet(V), V # {}, NEW R, \A x \in V : <<x, x>> \notin R,
         \A x, y, z \in V : <<x, y>> \in R /\ <<y, z>> \in R => <<x, z>> \in R
  PROVE  \E x \in V : \A y \in V : <<y, x>> \notin R
<1> DEFINE Ahead(x) == {y \in V : <<y, x>> \in R}
           Counts == {Cardinality(Ahead(x)) : x \in V}
<1>1. \A x \in V : IsFiniteSet(Ahead(x)) /\ Cardinality(Ahead(x)) \in Nat
  <2> SUFFICES ASSUME NEW x \in V PROVE IsFiniteSet(Ahead(x)) /\ Cardinality(Ahead(x)) \in Nat
    OBVIOUS
  <2>1. Ahead(x) \in SUBSET V
    OBVIOUS
  <2> HIDE DEF Ahead
  <2>2. QED
    BY <2>1, FS_Subset, FS_CardinalityType
<1>2. PICK m \in Counts : \A n \in Counts : m <= n
  <2> HIDE DEF Ahead
  <2>1. Counts \in SUBSET Nat /\ Counts # {}
    BY <1>1
  <2> HIDE DEF Counts
  <2>2. QED
    BY <2>1, NaturalsHaveMinimum
<1>3. PICK x \in V : Cardinality(Ahead(x)) = m
  BY <1>2
<1>4. ASSUME NEW y \in V, <<y, x>> \in R PROVE FALSE
  <2>1. Ahead(y) \cup {y} \in SUBSET Ahead(x) /\ y \notin Ahead(y)
    BY <1>4
  <2>2. Cardinality(Ahead(y)) \in Counts
    OBVIOUS
  <2> HIDE DEF Ahead, Counts
  <2>3. Cardinality(Ahead(y) \cup {y}) = Cardinality(Ahead(y)) + 1
    BY <1>1, <2>1, FS_AddElement
  <2>4. Cardinality(Ahead(y) \cup {y}) <= Cardinality(Ahead(x))
    BY <1>1, <2>1, FS_Subset
  <2>5. Cardinality(Ahead(y)) \in Nat /\ Cardinality(Ahead(x)) \in Nat
    BY <1>1
  <2>6. m <= Cardinality(Ahead(y))
    BY <1>2, <2>2
  <2>7. QED
    BY <1>3, <2>3, <2>4, <2>5, <2>6
<1>5. QED
  BY <1>4

(* A finite set of integers has a least element. *)
LEMMA IntegersHaveFirst ==
  ASSUME NEW V \in SUBSET Int, IsFiniteSet(V), V # {}
  PROVE  \E x \in V : \A y \in V : x <= y
<1> DEFINE R == {p \in V \X V : p[1] < p[2]}
<1>1. \A x, y \in V : <<x, y>> \in R <=> x < y
  OBVIOUS
<1> HIDE DEF R
<1>2. \A x \in V : <<x, x>> \notin R
  BY <1>1
<1>3. \A x, y, z \in V : <<x, y>> \in R /\ <<y, z>> \in R => <<x, z>> \in R
  BY <1>1
<1>4. PICK x \in V : \A y \in V : <<y, x>> \notin R
  BY <1>2, <1>3, SomeoneIsFirst
<1>5. \A y \in V : ~(y < x) /\ y \in Int /\ x \in Int
  BY <1>1, <1>4
<1>6. \A y \in V : x <= y
  BY <1>5
<1>7. QED
  BY <1>6
--------------------
CONSTANTS
  \* ScriptedBenchmark
  Initial, Script, Places, BenchmarkSteps
VARIABLES
  inventory, blocks, entities, position, steps, initial, last, gained, lost, consumed, kills

B == INSTANCE ScriptedBenchmark WITH
  MaxSteps <- BenchmarkSteps

(* The range of places holds where a run begins; a pile of the initial *)
(* state is of an item and counted; drops lie there as the runtime makes *)
(* them; a script asks for at least one of an item, at a place, and does *)
(* not fight what is dropped. *)
Stock(f) == DOMAIN f \subseteq B!Items /\ \A i \in DOMAIN f : f[i] \in Nat \ {0}
BlockSort == [name : B!Items, place : Places]
Drops == [name : {"item"}, item : B!Items, place : Places, air : {FALSE}]
Found == UNION {{i.entities[k] : k \in DOMAIN i.entities} : i \in Initial}
EntitySort == Found \cup Drops
ASSUME BenchmarkAssumption ==
  /\ BenchmarkSteps \in Nat /\ 0 \in Places
  /\ \A i \in Initial : Stock(i.inventory) /\ i.blocks \in Seq(BlockSort) /\ i.entities \in Seq(Found)
  /\ \A e \in Found : e.name = "item" => e.item \in B!Items
  /\ \A a \in Script :
       /\ a.place \in Places /\ a.count \in Nat \ {0}
       /\ a.type \in {"engage_combat", "fight_entity"} => a.subject # "item"

(* The inductive invariant: what is held is what was there and came, less *)
(* what went; every block was there or came from the inventory; the last *)
(* result tells of what was done. *)

WorldTyped ==
  /\ B!TypeOK /\ Stock(inventory) /\ Stock(gained) /\ Stock(lost) /\ Stock(consumed)
  /\ blocks \in Seq(BlockSort) /\ entities \in Seq(EntitySort) /\ Stock(initial.inventory)
StockIsExplained ==
  \A i \in B!Items : B!Held(inventory, i) + B!Held(lost, i)
                      = B!Held(initial.inventory, i) + B!Held(gained, i)
BlocksAreExplained ==
  \A k \in DOMAIN blocks :
    \/ \E j \in DOMAIN initial.blocks : initial.blocks[j] = blocks[k]
    \/ B!Held(lost, blocks[k].name) > 0
ResultIsTrue ==
  last.ok => /\ last.type = "place_block" => B!Held(lost, last.subject) > 0
             /\ last.type \in {"fight_entity", "engage_combat"} =>
                  last.subject \in kills \/ B!Named(last.subject) = {}
BenchmarkInv ==
  WorldTyped /\ StockIsExplained /\ BlocksAreExplained /\ ResultIsTrue /\ B!MatterIsKept

(* Sequences, their members and how many of them there are of a kind. *)

LEMMA BenchmarkCounts == \A V : B!Cardinality(V) = Cardinality(V)
  BY DEF B!Cardinality, Cardinality

(* The places of a finite set: each place has its number of places before *)
(* it, a later one has more, and there are as many as there are numbers. *)
LEMMA PlacesInOrder ==
  ASSUME NEW V \in SUBSET Int, IsFiniteSet(V)
  PROVE  /\ Cardinality(V) \in Nat
         /\ \A k \in 1 .. Cardinality(V) : B!Nth(V, k) \in V
         /\ \A k, l \in 1 .. Cardinality(V) : k < l => B!Nth(V, k) < B!Nth(V, l)
         /\ \A x \in V : \E k \in 1 .. Cardinality(V) : B!Nth(V, k) = x
<1> DEFINE n == Cardinality(V)
<1> DEFINE Below(x) == {y \in V : y < x}
<1> DEFINE r == [x \in V |-> Cardinality(Below(x))]
<1>1. n \in Nat
  BY FS_CardinalityType
<1>2. ASSUME NEW x \in V
      PROVE  IsFiniteSet(Below(x)) /\ r[x] \in 0 .. n - 1
  <2>1. IsFiniteSet(V \ {x}) /\ Cardinality(V \ {x}) = n - 1
    BY <1>2, FS_RemoveElement
  <2>2. Below(x) \in SUBSET (V \ {x})
    BY <1>2
  <2>3. IsFiniteSet(Below(x)) /\ Cardinality(Below(x)) <= n - 1
    BY <2>1, <2>2, FS_Subset
  <2>4. Cardinality(Below(x)) \in Nat
    BY <2>3, FS_CardinalityType
  <2>5. QED
    BY <1>1, <2>3, <2>4
<1>3. ASSUME NEW x \in V, NEW y \in V, x < y
      PROVE  r[x] < r[y]
  <2>1. IsFiniteSet(Below(x)) /\ IsFiniteSet(Below(y)) /\ x \notin Below(x)
    BY <1>2
  <2>2. IsFiniteSet(Below(x) \cup {x}) /\ Cardinality(Below(x) \cup {x}) = Cardinality(Below(x)) + 1
    BY <2>1, FS_AddElement
  <2>3. Below(x) \cup {x} \in SUBSET Below(y)
    <3>1. \A z \in V : z < x => z < y
      BY <1>3
    <3>2. QED
      BY <1>3, <3>1
  <2>4. Cardinality(Below(x) \cup {x}) <= Cardinality(Below(y))
    BY <2>1, <2>3, FS_Subset
  <2>5. r[x] \in Int /\ r[y] \in Int /\ r[x] = Cardinality(Below(x)) /\ r[y] = Cardinality(Below(y))
    <3>1. r[x] = Cardinality(Below(x)) /\ r[y] = Cardinality(Below(y))
      OBVIOUS
    <3>2. r[x] \in 0 .. n - 1 /\ r[y] \in 0 .. n - 1
      BY <1>2
    <3> HIDE DEF r, n, Below
    <3>3. r[x] \in Int /\ r[y] \in Int
      BY <1>1, <3>2
    <3>4. QED
      BY <3>1, <3>3
  <2>6. QED
    BY <2>2, <2>4, <2>5
<1>4. r \in Injection(V, 0 .. n - 1)
  <2> HIDE DEF r, n
  <2>1. r \in [V -> 0 .. n - 1]
    BY <1>2 DEF r
  <2>2. ASSUME NEW x \in V, NEW y \in V, r[x] = r[y] PROVE x = y
    <3>1. r[x] \in Int /\ x \in Int /\ y \in Int
      BY <1>1, <2>1
    <3>2. ~(x < y) /\ ~(y < x)
      BY <1>3, <2>2, <3>1
    <3>3. QED
      BY <3>1, <3>2
  <2>3. QED
    BY <2>1, <2>2 DEF Injection, IsInjective
<1>5. \A v \in 0 .. n - 1 : \E x \in V : r[x] = v
  <2>1. IsFiniteSet(0 .. n - 1) /\ Cardinality(0 .. n - 1) = n
    BY <1>1, FS_Interval
  <2> HIDE DEF r
  <2>2. r \in Surjection(V, 0 .. n - 1)
    BY <1>4, <2>1, FS_Injection
  <2>3. QED
    BY <2>2 DEF Surjection
<1>6. ASSUME NEW k \in 1 .. n
      PROVE  B!Nth(V, k) \in V /\ r[B!Nth(V, k)] = k - 1
  <2>1. k - 1 \in 0 .. n - 1
    BY <1>1
  <2>2. \E x \in V : Cardinality({y \in V : y < x}) = k - 1
    BY <1>5, <2>1
  <2>3. QED
    BY <2>2, BenchmarkCounts DEF B!Nth
<1>7. \A x \in V : x \in Int /\ r[x] \in 0 .. n - 1
  BY <1>2
<1> HIDE DEF r, n
<1>8. ASSUME NEW k \in 1 .. n, NEW l \in 1 .. n, k < l
      PROVE  B!Nth(V, k) < B!Nth(V, l)
  <2> DEFINE x == B!Nth(V, k)
  <2> DEFINE y == B!Nth(V, l)
  <2>1. x \in V /\ y \in V /\ r[x] = k - 1 /\ r[y] = l - 1
    BY <1>6
  <2> HIDE DEF x, y
  <2>2. x # y /\ ~(y < x)
    BY <1>1, <1>3, <1>8, <2>1
  <2>3. x < y
    BY <1>7, <2>1, <2>2
  <2>4. QED
    BY <2>3 DEF x, y
<1>9. ASSUME NEW x \in V PROVE \E k \in 1 .. n : B!Nth(V, k) = x
  <2> DEFINE k == r[x] + 1
  <2>1. k \in 1 .. n /\ k - 1 = r[x]
    BY <1>1, <1>7
  <2> HIDE DEF k
  <2>2. B!Nth(V, k) \in V /\ r[B!Nth(V, k)] = r[x]
    BY <1>6, <2>1
  <2>3. B!Nth(V, k) = x
    BY <1>4, <2>2 DEF Injection, IsInjective
  <2>4. QED
    BY <2>1, <2>3
<1>10. QED
  BY <1>1, <1>6, <1>8, <1>9 DEF n

(* What is picked of a sequence is of it. *)
LEMMA PickedHas ==
  ASSUME NEW T, NEW s \in Seq(T), NEW V \in SUBSET (DOMAIN s)
  PROVE  /\ B!Picked(s, V) \in Seq(T) /\ IsFiniteSet(V)
         /\ DOMAIN B!Picked(s, V) = 1 .. Cardinality(V)
         /\ \A k \in DOMAIN B!Picked(s, V) : B!Nth(V, k) \in V /\ B!Picked(s, V)[k] = s[B!Nth(V, k)]
<1>1. Len(s) \in Nat /\ DOMAIN s = 1 .. Len(s)
  OBVIOUS
<1>2. IsFiniteSet(1 .. Len(s))
  BY <1>1, FS_Interval
<1>3. IsFiniteSet(V) /\ V \in SUBSET Int
  BY <1>1, <1>2, FS_Subset
<1> DEFINE n == Cardinality(V)
<1>4. n \in Nat /\ \A k \in 1 .. n : B!Nth(V, k) \in V
  BY <1>3, PlacesInOrder
<1>5. B!Picked(s, V) = [k \in 1 .. n |-> s[B!Nth(V, k)]]
  BY BenchmarkCounts DEF B!Picked
<1> HIDE DEF n
<1>6. \A k \in 1 .. n : s[B!Nth(V, k)] \in T
  BY <1>1, <1>4, ElementOfSeq
<1>7. [k \in 1 .. n |-> s[B!Nth(V, k)]] \in [1 .. n -> T]
  BY <1>6
<1>8. B!Picked(s, V) \in Seq(T)
  BY <1>4, <1>5, <1>7, SeqDef
<1>9. QED
  BY <1>3, <1>4, <1>5, <1>8 DEF n

Holding(s, T) == {k \in DOMAIN s : s[k] \in T}

LEMMA HoldingIsFinite ==
  ASSUME NEW X, NEW s \in Seq(X), NEW T
  PROVE  IsFiniteSet(Holding(s, T)) /\ Cardinality(Holding(s, T)) \in Nat
<1>1. Len(s) \in Nat /\ DOMAIN s = 1 .. Len(s) /\ Holding(s, T) \in SUBSET (DOMAIN s)
  BY DEF Holding
<1>2. IsFiniteSet(1 .. Len(s))
  BY <1>1, FS_Interval
<1>3. QED
  BY <1>1, <1>2, FS_Subset, FS_CardinalityType

LEMMA OneAppended ==
  ASSUME NEW X, NEW s \in Seq(X), NEW x \in X, NEW T
  PROVE  Cardinality(Holding(Append(s, x), T))
           = IF x \in T THEN Cardinality(Holding(s, T)) + 1 ELSE Cardinality(Holding(s, T))
<1> DEFINE n == Len(s)
<1> DEFINE t == Append(s, x)
<1>1. n \in Nat /\ DOMAIN s = 1 .. n /\ DOMAIN t = 1 .. n + 1
      /\ \A k \in 1 .. n : t[k] = s[k]
  BY AppendProperties
<1>1a. t[n + 1] = x
  BY AppendProperties
<1> HIDE DEF n, t
<1>2. 1 .. n + 1 = (1 .. n) \cup {n + 1} /\ n + 1 \notin 1 .. n
  BY <1>1
<1>3. CASE x \in T
  <2>1. Holding(t, T) = Holding(s, T) \cup {n + 1} /\ n + 1 \notin Holding(s, T)
    BY <1>1, <1>1a, <1>2, <1>3 DEF Holding
  <2>2. QED
    BY <1>3, <2>1, HoldingIsFinite, FS_AddElement DEF t
<1>4. CASE x \notin T
  <2>1. Holding(t, T) = Holding(s, T)
    BY <1>1, <1>1a, <1>2, <1>4 DEF Holding
  <2>2. QED
    BY <1>4, <2>1 DEF t
<1>5. QED
  BY <1>3, <1>4

(* Of what is picked as many are of a kind as there are such places. *)
LEMMA PickedCounts ==
  ASSUME NEW X, NEW s \in Seq(X), NEW V \in SUBSET (DOMAIN s), NEW T
  PROVE  Cardinality(Holding(B!Picked(s, V), T)) = Cardinality(V \cap Holding(s, T))
<1> DEFINE t == B!Picked(s, V)
           U == V \cap Holding(s, T)
           f == [k \in Holding(t, T) |-> B!Nth(V, k)]
<1>1. /\ IsFiniteSet(V) /\ DOMAIN t = 1 .. Cardinality(V) /\ t \in Seq(X)
      /\ \A k \in DOMAIN t : B!Nth(V, k) \in V /\ t[k] = s[B!Nth(V, k)]
  BY PickedHas
<1>2. V \in SUBSET Int /\ Cardinality(V) \in Nat
  BY <1>1, FS_CardinalityType
<1> HIDE DEF t
<1>3. /\ \A k, l \in 1 .. Cardinality(V) : k < l => B!Nth(V, k) < B!Nth(V, l)
      /\ \A x \in V : \E k \in 1 .. Cardinality(V) : B!Nth(V, k) = x
  BY <1>1, <1>2, PlacesInOrder
<1>4. \A k \in Holding(t, T) : k \in 1 .. Cardinality(V) /\ B!Nth(V, k) \in U
  BY <1>1 DEF Holding
<1>5. \A x \in U : \E k \in Holding(t, T) : B!Nth(V, k) = x
  BY <1>1, <1>3 DEF Holding
<1>6. \A k, l \in Holding(t, T) : B!Nth(V, k) = B!Nth(V, l) => k = l
  <2> SUFFICES ASSUME NEW k \in Holding(t, T), NEW l \in Holding(t, T), B!Nth(V, k) = B!Nth(V, l)
               PROVE  k = l
    OBVIOUS
  <2>1. k \in 1 .. Cardinality(V) /\ l \in 1 .. Cardinality(V) /\ B!Nth(V, k) \in Int
    BY <1>2, <1>4
  <2>2. ~(k < l) /\ ~(l < k)
    BY <1>3, <2>1
  <2>3. k \in Int /\ l \in Int
    BY <1>2, <2>1
  <2>4. QED
    BY <2>2, <2>3
<1> HIDE DEF U
<1>7. f \in [Holding(t, T) -> U]
  BY <1>4
<1>8. f \in Surjection(Holding(t, T), U) /\ f \in Injection(Holding(t, T), U)
  <2>1. \A k \in Holding(t, T) : f[k] = B!Nth(V, k)
    OBVIOUS
  <2> HIDE DEF f
  <2>2. QED
    BY <1>5, <1>6, <1>7, <2>1 DEF Surjection, Injection, IsInjective
<1>9. IsFiniteSet(U)
  BY <1>1, FS_Intersection DEF U
<1> HIDE DEF f
<1>10. Cardinality(Holding(t, T)) = Cardinality(U)
  BY <1>8, <1>9, FS_Injection
<1>11. QED
  BY <1>10 DEF t, U

LEMMA OneLess ==
  ASSUME NEW X, NEW s \in Seq(X), NEW k \in DOMAIN s, NEW T
  PROVE  /\ B!Without(s, k) \in Seq(X)
         /\ \A j \in DOMAIN B!Without(s, k) : \E i \in DOMAIN s : B!Without(s, k)[j] = s[i]
         /\ Cardinality(Holding(B!Without(s, k), T))
              = IF s[k] \in T THEN Cardinality(Holding(s, T)) - 1 ELSE Cardinality(Holding(s, T))
<1> DEFINE V == DOMAIN s \ {k}
<1>1. V \in SUBSET (DOMAIN s) /\ B!Without(s, k) = B!Picked(s, V)
  BY DEF B!Without
<1>2. V \cap Holding(s, T) = Holding(s, T) \ {k} /\ (k \in Holding(s, T) <=> s[k] \in T)
  BY DEF Holding
<1> HIDE DEF V
<1>3. Cardinality(Holding(B!Picked(s, V), T)) = Cardinality(Holding(s, T) \ {k})
  BY <1>1, <1>2, PickedCounts
<1>4. IsFiniteSet(Holding(s, T))
  BY HoldingIsFinite
<1>5. Cardinality(Holding(s, T) \ {k})
        = IF k \in Holding(s, T) THEN Cardinality(Holding(s, T)) - 1 ELSE Cardinality(Holding(s, T))
  BY <1>4, FS_RemoveElement
<1>6. /\ B!Picked(s, V) \in Seq(X)
      /\ \A j \in DOMAIN B!Picked(s, V) : B!Nth(V, j) \in V /\ B!Picked(s, V)[j] = s[B!Nth(V, j)]
  BY <1>1, PickedHas
<1>7. \A j \in DOMAIN B!Picked(s, V) : \E i \in DOMAIN s : B!Picked(s, V)[j] = s[i]
  BY <1>1, <1>6
<1>8. QED
  BY <1>1, <1>2, <1>3, <1>5, <1>6, <1>7

(* What is held, and what moves. *)

Pile(f) == DOMAIN f \subseteq B!Items /\ \A i \in DOMAIN f : f[i] \in Int

LEMMA StockIsPile ==
  ASSUME NEW f, Stock(f)
  PROVE  Pile(f) /\ \A i : B!Held(f, i) \in Nat
<1>1. \A i \in DOMAIN f : f[i] \in Nat /\ f[i] \in Int
  BY DEF Stock
<1>2. QED
  BY <1>1 DEF Stock, Pile, B!Held

LEMMA PileIsHeld ==
  ASSUME NEW f, Pile(f)
  PROVE  \A i : B!Held(f, i) \in Int
BY DEF Pile, B!Held

(* A stock that changes by what it can bear is a stock, and holds the sum. *)
LEMMA ChangedHolds ==
  ASSUME NEW f, Stock(f), NEW d, Pile(d), \A i \in B!Items : B!Held(f, i) + B!Held(d, i) >= 0
  PROVE  /\ Stock(B!Changed(f, d))
         /\ \A i : B!Held(B!Changed(f, d), i) = B!Held(f, i) + B!Held(d, i)
<1> DEFINE n(i) == B!Held(f, i) + B!Held(d, i)
           V == {i \in DOMAIN f \cup DOMAIN d : n(i) > 0}
<1>1. B!Changed(f, d) = [i \in V |-> n(i)]
  BY DEF B!Changed
<1>2. \A i : n(i) \in Int /\ (i \notin DOMAIN f \cup DOMAIN d => n(i) = 0)
  <2>1. \A i : B!Held(f, i) \in Int /\ B!Held(d, i) \in Int
    BY StockIsPile, PileIsHeld
  <2>2. \A i : i \notin DOMAIN f \cup DOMAIN d => B!Held(f, i) = 0 /\ B!Held(d, i) = 0
    BY DEF B!Held
  <2>3. QED
    BY <2>1, <2>2
<1>3. DOMAIN f \cup DOMAIN d \subseteq B!Items
  BY DEF Stock, Pile
<1>4. \A i \in B!Items : n(i) >= 0
  OBVIOUS
<1> HIDE DEF n
<1>5. \A i \in V : i \in B!Items /\ n(i) \in Nat \ {0}
  BY <1>2, <1>3
<1>6. Stock([i \in V |-> n(i)])
  BY <1>5 DEF Stock
<1>7. ASSUME NEW i PROVE B!Held([j \in V |-> n(j)], i) = n(i)
  <2>1. CASE i \in V
    BY <2>1 DEF B!Held
  <2>2. CASE i \notin V
    <3>1. n(i) = 0
      BY <1>2, <1>3, <1>4, <2>2
    <3>2. QED
      BY <2>2, <3>1 DEF B!Held
  <2>3. QED
    BY <2>1, <2>2
<1>8. QED
  BY <1>1, <1>6, <1>7 DEF n

(* What came and what went is counted with what is held. *)
LEMMA MovesKeep ==
  ASSUME Stock(inventory), Stock(gained), Stock(lost), NEW d, Pile(d),
         \A i \in B!Items : B!Held(inventory, i) + B!Held(d, i) >= 0, B!Moves(d)
  PROVE  /\ Stock(inventory') /\ Stock(gained') /\ Stock(lost')
         /\ \A i : /\ B!Held(inventory', i) = B!Held(inventory, i) + B!Held(d, i)
                   /\ B!Held(gained', i) - B!Held(lost', i)
                        = B!Held(gained, i) - B!Held(lost, i) + B!Held(d, i)
                   /\ B!Held(lost', i) >= B!Held(lost, i)
                   /\ B!Held(d, i) < 0 => B!Held(lost', i) > 0
<1> DEFINE more == [i \in {j \in DOMAIN d : d[j] > 0} |-> d[i]]
           fewer == [i \in {j \in DOMAIN d : d[j] < 0} |-> -d[i]]
<1>1. inventory' = B!Changed(inventory, d) /\ gained' = B!Changed(gained, more)
      /\ lost' = B!Changed(lost, fewer)
  BY DEF B!Moves
<1>2. \A i \in DOMAIN d : d[i] \in Int /\ i \in B!Items
  BY DEF Pile
<1>3. Pile(more) /\ \A i : B!Held(more, i) = (IF B!Held(d, i) > 0 THEN B!Held(d, i) ELSE 0)
  <2>1. Pile(more)
    BY <1>2 DEF Pile
  <2>2. ASSUME NEW i PROVE B!Held(more, i) = (IF B!Held(d, i) > 0 THEN B!Held(d, i) ELSE 0)
    BY <1>2 DEF B!Held
  <2>3. QED
    BY <2>1, <2>2
<1>4. Pile(fewer) /\ \A i : B!Held(fewer, i) = (IF B!Held(d, i) < 0 THEN -B!Held(d, i) ELSE 0)
  <2>1. Pile(fewer)
    BY <1>2 DEF Pile
  <2>2. ASSUME NEW i PROVE B!Held(fewer, i) = (IF B!Held(d, i) < 0 THEN -B!Held(d, i) ELSE 0)
    BY <1>2 DEF B!Held
  <2>3. QED
    BY <2>1, <2>2
<1> HIDE DEF more, fewer
<1>5. \A i : /\ B!Held(d, i) \in Int /\ B!Held(inventory, i) \in Nat
             /\ B!Held(gained, i) \in Nat /\ B!Held(lost, i) \in Nat
  BY StockIsPile, PileIsHeld
<1>6. \A i : B!Held(gained, i) + B!Held(more, i) >= 0 /\ B!Held(lost, i) + B!Held(fewer, i) >= 0
  BY <1>3, <1>4, <1>5
<1>7. Stock(gained') /\ \A i : B!Held(gained', i) = B!Held(gained, i) + B!Held(more, i)
  BY <1>1, <1>3, <1>6, ChangedHolds
<1>8. Stock(lost') /\ \A i : B!Held(lost', i) = B!Held(lost, i) + B!Held(fewer, i)
  BY <1>1, <1>4, <1>6, ChangedHolds
<1>9. Stock(inventory') /\ \A i : B!Held(inventory', i) = B!Held(inventory, i) + B!Held(d, i)
  BY <1>1, ChangedHolds
<1>10. ASSUME NEW i
       PROVE  /\ B!Held(gained', i) - B!Held(lost', i)
                   = B!Held(gained, i) - B!Held(lost, i) + B!Held(d, i)
              /\ B!Held(lost', i) >= B!Held(lost, i)
              /\ B!Held(d, i) < 0 => B!Held(lost', i) > 0
  <2>1. /\ B!Held(gained', i) = B!Held(gained, i) + B!Held(more, i)
        /\ B!Held(lost', i) = B!Held(lost, i) + B!Held(fewer, i)
        /\ B!Held(more, i) = (IF B!Held(d, i) > 0 THEN B!Held(d, i) ELSE 0)
        /\ B!Held(fewer, i) = (IF B!Held(d, i) < 0 THEN -B!Held(d, i) ELSE 0)
    BY <1>3, <1>4, <1>7, <1>8
  <2>2. QED
    BY <1>5, <2>1
<1>11. QED
  BY <1>7, <1>8, <1>9, <1>10

(* Pieces of an item: held, consumed, placed, and dropped. *)

Blocks(item) == {b \in BlockSort : b.name = item}
Heap(item) == {e \in EntitySort : e.name = "item" /\ e.item = item}

LEMMA PiecesAreCounted ==
  ASSUME NEW bs \in Seq(BlockSort), NEW es \in Seq(EntitySort)
  PROVE  \A i : /\ B!Placed(i, bs) = Cardinality(Holding(bs, Blocks(i))) /\ B!Placed(i, bs) \in Nat
                /\ B!Dropped(i, es) = Cardinality(Holding(es, Heap(i))) /\ B!Dropped(i, es) \in Nat
<1> SUFFICES ASSUME NEW i
             PROVE  /\ B!Placed(i, bs) = Cardinality(Holding(bs, Blocks(i))) /\ B!Placed(i, bs) \in Nat
                    /\ B!Dropped(i, es) = Cardinality(Holding(es, Heap(i))) /\ B!Dropped(i, es) \in Nat
  OBVIOUS
<1>1. DOMAIN bs = 1 .. Len(bs) /\ DOMAIN es = 1 .. Len(es)
  OBVIOUS
<1>2. (\A k \in DOMAIN bs : bs[k] \in BlockSort) /\ (\A k \in DOMAIN es : es[k] \in EntitySort)
  BY <1>1, ElementOfSeq
<1>3. Holding(bs, Blocks(i)) = {k \in DOMAIN bs : bs[k].name = i}
  BY <1>2 DEF Holding, Blocks
<1>4. Holding(es, Heap(i)) = {k \in DOMAIN es : es[k].name = "item" /\ es[k].item = i}
  BY <1>2 DEF Holding, Heap
<1>5. QED
  BY <1>3, <1>4, HoldingIsFinite, BenchmarkCounts DEF B!Placed, B!Dropped

Same(item) == B!Pieces(item, inventory', consumed', blocks', entities')
                = B!Pieces(item, inventory, consumed, blocks, entities)

(* Where every item keeps its pieces there is as much wood and stone. *)
LEMMA PiecesKept ==
  ASSUME B!MatterIsKept, initial' = initial, \A i \in B!Items : Same(i)
  PROVE  B!MatterIsKept'
<1>1. {"oak_log", "oak_planks", "stick", "crafting_table", "wooden_pickaxe", "stone", "cobblestone"}
        \subseteq B!Items
  BY DEF B!Items
<1>2. B!Wood(inventory', consumed', blocks', entities')
        = B!Wood(inventory, consumed, blocks, entities)
  BY <1>1 DEF B!Wood, Same
<1>3. B!Stone(inventory', consumed', blocks', entities')
        = B!Stone(inventory, consumed, blocks, entities)
  BY <1>1 DEF B!Stone, Same
<1>4. QED
  BY <1>2, <1>3 DEF B!MatterIsKept

(* Steps. *)

Advance(a) ==
  /\ a \in Script /\ steps < BenchmarkSteps /\ steps' = steps + 1 /\ initial' = initial

LEMMA StepsAdvance ==
  ASSUME BenchmarkInv, NEW a, Advance(a)
  PROVE  /\ steps' \in 0 .. BenchmarkSteps /\ a.place \in Places /\ a.count \in Nat \ {0}
         /\ a.type \in {"engage_combat", "fight_entity"} => a.subject # "item"
<1>1. steps \in 0 .. BenchmarkSteps /\ BenchmarkSteps \in Nat
  BY BenchmarkAssumption DEF BenchmarkInv, WorldTyped, B!TypeOK
<1>2. QED
  BY <1>1, BenchmarkAssumption DEF Advance

LEMMA FirstIsThere ==
  ASSUME NEW X, NEW s \in Seq(X), NEW V \in SUBSET (DOMAIN s), V # {}
  PROVE  B!Min(V) \in V
<1>1. DOMAIN s = 1 .. Len(s) /\ Len(s) \in Nat
  OBVIOUS
<1>2. IsFiniteSet(1 .. Len(s))
  BY <1>1, FS_Interval
<1>3. V \in SUBSET Int /\ IsFiniteSet(V)
  BY <1>1, <1>2, FS_Subset
<1>4. QED
  BY <1>3, IntegersHaveFirst DEF B!Min

(* Where the stock, the blocks and the entities stay, all there is stays. *)
LEMMA StepCalm ==
  ASSUME BenchmarkInv, NEW a, Advance(a), B!Keeps, blocks' = blocks, entities' = entities,
         hand' \in B!Items \cup {B!None}, position' \in Places, ResultIsTrue'
  PROVE  BenchmarkInv'
<1>1. inventory' = inventory /\ gained' = gained /\ lost' = lost /\ consumed' = consumed
      /\ initial' = initial
  BY DEF B!Keeps, Advance
<1>2. WorldTyped'
  BY <1>1, StepsAdvance DEF BenchmarkInv, WorldTyped, B!TypeOK, Stock
<1>3. StockIsExplained'
  BY <1>1 DEF BenchmarkInv, StockIsExplained
<1>4. BlocksAreExplained'
  BY <1>1 DEF BenchmarkInv, BlocksAreExplained
<1>5. \A i \in B!Items : Same(i)
  BY <1>1 DEF Same
<1>6. B!MatterIsKept'
  BY <1>1, <1>5, PiecesKept DEF BenchmarkInv
<1>7. QED
  BY <1>2, <1>3, <1>4, <1>6 DEF BenchmarkInv

LEMMA HandAndPlace ==
  ASSUME BenchmarkInv
  PROVE  /\ hand \in B!Items \cup {B!None} /\ position \in Places
         /\ blocks \in Seq(BlockSort) /\ entities \in Seq(EntitySort)
         /\ Stock(inventory) /\ Stock(gained) /\ Stock(lost) /\ Stock(consumed)
BY DEF BenchmarkInv, WorldTyped, B!TypeOK

LEMMA StepFails ==
  ASSUME BenchmarkInv, NEW a, Advance(a), B!Fails(a)
  PROVE  BenchmarkInv'
<1>1. ResultIsTrue'
  BY DEF B!Fails, B!Ends, ResultIsTrue
<1>2. /\ B!Keeps /\ blocks' = blocks /\ entities' = entities /\ hand' = hand
      /\ position' = position
  BY DEF B!Fails
<1>3. QED
  BY <1>1, <1>2, StepCalm, HandAndPlace

LEMMA StepQuery ==
  ASSUME BenchmarkInv, NEW a, Advance(a), B!Query(a)
  PROVE  BenchmarkInv'
<1>1. ResultIsTrue'
  BY DEF B!Query, B!Ends, ResultIsTrue
<1>2. /\ B!Keeps /\ blocks' = blocks /\ entities' = entities /\ hand' = hand
      /\ position' = position
  BY DEF B!Query
<1>3. QED
  BY <1>1, <1>2, StepCalm, HandAndPlace

LEMMA StepMoveTo ==
  ASSUME BenchmarkInv, NEW a, Advance(a), B!MoveTo(a)
  PROVE  BenchmarkInv'
<1>1. ResultIsTrue'
  BY DEF B!MoveTo, B!Ends, ResultIsTrue
<1>2. /\ B!Keeps /\ blocks' = blocks /\ entities' = entities /\ hand' = hand
      /\ position' = a.place
  BY DEF B!MoveTo
<1>3. QED
  BY <1>1, <1>2, StepCalm, HandAndPlace, StepsAdvance

LEMMA StepFollow ==
  ASSUME BenchmarkInv, NEW a, Advance(a), B!Follow(a)
  PROVE  BenchmarkInv'
<1>1. CASE B!Named(a.subject) = {}
  BY <1>1, StepFails DEF B!Follow
<1>2. CASE B!Named(a.subject) # {}
  <2>1. ResultIsTrue'
    BY <1>2 DEF B!Follow, B!Ends, ResultIsTrue
  <2>2. /\ B!Keeps /\ blocks' = blocks /\ entities' = entities /\ hand' = hand
        /\ position' = position
    BY <1>2 DEF B!Follow
  <2>3. QED
    BY <2>1, <2>2, StepCalm, HandAndPlace
<1>3. QED
  BY <1>1, <1>2

(* What is held is an item. *)
LEMMA HeldIsItem ==
  ASSUME BenchmarkInv, NEW item, B!Held(inventory, item) # 0
  PROVE  item \in B!Items /\ B!Held(inventory, item) > 0
<1>1. Stock(inventory) /\ B!Held(inventory, item) \in Nat
  BY HandAndPlace, StockIsPile
<1>2. QED
  BY <1>1 DEF Stock, B!Held

LEMMA StepEquip ==
  ASSUME BenchmarkInv, NEW a, Advance(a), B!Equip(a)
  PROVE  BenchmarkInv'
<1>1. CASE B!Held(inventory, a.subject) = 0
  BY <1>1, StepFails DEF B!Equip
<1>2. CASE B!Held(inventory, a.subject) # 0
  <2>1. ResultIsTrue'
    BY <1>2 DEF B!Equip, B!Ends, ResultIsTrue
  <2>2. /\ B!Keeps /\ blocks' = blocks /\ entities' = entities /\ hand' = a.subject
        /\ position' = position
    BY <1>2 DEF B!Equip
  <2>3. QED
    BY <1>2, <2>1, <2>2, StepCalm, HandAndPlace, HeldIsItem
<1>3. QED
  BY <1>1, <1>2

(* Items that come and go. *)

LEMMA MovesExplain ==
  ASSUME BenchmarkInv, NEW a, Advance(a), NEW d, Pile(d),
         \A i \in B!Items : B!Held(inventory, i) + B!Held(d, i) >= 0, B!Moves(d)
  PROVE  /\ Stock(inventory') /\ Stock(gained') /\ Stock(lost') /\ StockIsExplained'
         /\ \A i : /\ B!Held(inventory', i) = B!Held(inventory, i) + B!Held(d, i)
                   /\ B!Held(lost, i) > 0 => B!Held(lost', i) > 0
                   /\ B!Held(d, i) < 0 => B!Held(lost', i) > 0
<1>1. Stock(inventory) /\ Stock(gained) /\ Stock(lost) /\ Stock(initial.inventory)
  BY DEF BenchmarkInv, WorldTyped
<1>2. /\ Stock(inventory') /\ Stock(gained') /\ Stock(lost')
      /\ \A i : /\ B!Held(inventory', i) = B!Held(inventory, i) + B!Held(d, i)
                /\ B!Held(gained', i) - B!Held(lost', i)
                     = B!Held(gained, i) - B!Held(lost, i) + B!Held(d, i)
                /\ B!Held(lost', i) >= B!Held(lost, i)
                /\ B!Held(d, i) < 0 => B!Held(lost', i) > 0
  BY <1>1, MovesKeep
<1>3. \A i : /\ B!Held(d, i) \in Int /\ B!Held(inventory, i) \in Nat /\ B!Held(gained, i) \in Nat
             /\ B!Held(lost, i) \in Nat /\ B!Held(initial.inventory, i) \in Nat
             /\ B!Held(gained', i) \in Nat /\ B!Held(lost', i) \in Nat
  BY <1>1, <1>2, StockIsPile, PileIsHeld
<1>4. ASSUME NEW i \in B!Items
      PROVE  B!Held(inventory', i) + B!Held(lost', i)
               = B!Held(initial.inventory, i) + B!Held(gained', i)
  <2>1. B!Held(inventory, i) + B!Held(lost, i) = B!Held(initial.inventory, i) + B!Held(gained, i)
    BY DEF BenchmarkInv, StockIsExplained
  <2>2. QED
    BY <1>2, <1>3, <2>1
<1>5. StockIsExplained'
  BY <1>4 DEF StockIsExplained, Advance
<1>6. \A i : B!Held(lost, i) > 0 => B!Held(lost', i) > 0
  BY <1>2, <1>3
<1>7. QED
  BY <1>2, <1>5, <1>6

(* Blocks that stay are still explained. *)
LEMMA BlocksStay ==
  ASSUME BenchmarkInv, NEW a, Advance(a), blocks' = blocks,
         \A i : B!Held(lost, i) > 0 => B!Held(lost', i) > 0
  PROVE  BlocksAreExplained'
BY DEF BenchmarkInv, BlocksAreExplained, Advance

LEMMA StepConsume ==
  ASSUME BenchmarkInv, NEW a, Advance(a), B!Consume(a)
  PROVE  BenchmarkInv'
<1>1. CASE B!Held(inventory, a.subject) = 0
  BY <1>1, StepFails DEF B!Consume
<1>2. CASE B!Held(inventory, a.subject) # 0
  <2> DEFINE d == B!Only(a.subject, -1)
             e == B!Only(a.subject, 1)
  <2>1. a.subject \in B!Items /\ B!Held(inventory, a.subject) > 0
    BY <1>2, HeldIsItem
  <2>2. Pile(d) /\ \A i : B!Held(d, i) = IF i = a.subject THEN -1 ELSE 0
    BY <2>1 DEF Pile, B!Held, B!Only
  <2>3. Pile(e) /\ \A i : B!Held(e, i) = IF i = a.subject THEN 1 ELSE 0
    BY <2>1 DEF Pile, B!Held, B!Only
  <2>4. /\ B!Moves(d) /\ consumed' = B!Changed(consumed, e) /\ hand' = hand /\ blocks' = blocks
        /\ entities' = entities /\ position' = position
    BY <1>2 DEF B!Consume
  <2> HIDE DEF d, e
  <2>5. \A i : B!Held(inventory, i) \in Nat /\ B!Held(consumed, i) \in Nat
    BY HandAndPlace, StockIsPile
  <2>6. \A i : B!Held(inventory, i) + B!Held(d, i) >= 0 /\ B!Held(consumed, i) + B!Held(e, i) >= 0
    BY <2>1, <2>2, <2>3, <2>5
  <2>7. /\ Stock(inventory') /\ Stock(gained') /\ Stock(lost') /\ StockIsExplained'
        /\ \A i : /\ B!Held(inventory', i) = B!Held(inventory, i) + B!Held(d, i)
                  /\ B!Held(lost, i) > 0 => B!Held(lost', i) > 0
    BY <2>2, <2>4, <2>6, MovesExplain
  <2>8. Stock(consumed') /\ \A i : B!Held(consumed', i) = B!Held(consumed, i) + B!Held(e, i)
    BY <2>3, <2>4, <2>6, HandAndPlace, ChangedHolds
  <2>9. BlocksAreExplained'
    BY <2>4, <2>7, BlocksStay
  <2>10. ResultIsTrue'
    BY <1>2 DEF B!Consume, B!Ends, ResultIsTrue
  <2>11. ASSUME NEW i \in B!Items PROVE Same(i)
    <3>1. B!Placed(i, blocks) \in Nat /\ B!Dropped(i, entities) \in Nat
      BY HandAndPlace, PiecesAreCounted
    <3>2. B!Held(inventory', i) + B!Held(consumed', i) = B!Held(inventory, i) + B!Held(consumed, i)
      BY <2>2, <2>3, <2>5, <2>7, <2>8
    <3>3. QED
      BY <2>4, <3>2 DEF Same, B!Pieces
  <2>12. B!MatterIsKept'
    BY <2>11, PiecesKept DEF BenchmarkInv, Advance
  <2>13. WorldTyped'
    BY <2>4, <2>7, <2>8, HandAndPlace, StepsAdvance
       DEF BenchmarkInv, WorldTyped, B!TypeOK, Advance, Stock
  <2>14. QED
    BY <2>7, <2>9, <2>10, <2>12, <2>13 DEF BenchmarkInv
<1>3. QED
  BY <1>1, <1>2

LEMMA StepPlaceBlock ==
  ASSUME BenchmarkInv, NEW a, Advance(a), B!PlaceBlock(a)
  PROVE  BenchmarkInv'
<1>1. CASE B!Held(inventory, a.subject) = 0
  BY <1>1, StepFails DEF B!PlaceBlock
<1>2. CASE B!Held(inventory, a.subject) # 0
  <2> DEFINE d == B!Only(a.subject, -1)
             b == [name |-> a.subject, place |-> a.place]
  <2>1. a.subject \in B!Items /\ B!Held(inventory, a.subject) > 0
    BY <1>2, HeldIsItem
  <2>2. Pile(d) /\ \A i : B!Held(d, i) = IF i = a.subject THEN -1 ELSE 0
    BY <2>1 DEF Pile, B!Held, B!Only
  <2>3. b \in BlockSort /\ b.name = a.subject
    BY <2>1, StepsAdvance DEF BlockSort
  <2>4. /\ B!Moves(d) /\ consumed' = consumed /\ hand' = hand /\ blocks' = Append(blocks, b)
        /\ entities' = entities /\ position' = position
    BY <1>2 DEF B!PlaceBlock
  <2> HIDE DEF d, b
  <2>5. \A i : B!Held(inventory, i) \in Nat /\ B!Held(consumed, i) \in Nat
    BY HandAndPlace, StockIsPile
  <2>6. \A i : B!Held(inventory, i) + B!Held(d, i) >= 0
    BY <2>1, <2>2, <2>5
  <2>7. /\ Stock(inventory') /\ Stock(gained') /\ Stock(lost') /\ StockIsExplained'
        /\ \A i : /\ B!Held(inventory', i) = B!Held(inventory, i) + B!Held(d, i)
                  /\ B!Held(lost, i) > 0 => B!Held(lost', i) > 0
                  /\ B!Held(d, i) < 0 => B!Held(lost', i) > 0
    BY <2>2, <2>4, <2>6, MovesExplain
  <2>8. B!Held(lost', a.subject) > 0
    BY <2>2, <2>7
  <2>9. BlocksAreExplained'
    <3>1. blocks \in Seq(BlockSort)
      BY HandAndPlace
    <3>2. /\ DOMAIN blocks = 1 .. Len(blocks) /\ DOMAIN blocks' = 1 .. Len(blocks) + 1
          /\ Len(blocks) \in Nat /\ \A k \in 1 .. Len(blocks) : blocks'[k] = blocks[k]
      BY <2>3, <2>4, <3>1, AppendProperties
    <3>3. blocks'[Len(blocks) + 1] = b
      BY <2>3, <2>4, <3>1, AppendProperties
    <3>4. ASSUME NEW k \in DOMAIN blocks'
          PROVE  \/ \E j \in DOMAIN initial'.blocks : initial'.blocks[j] = blocks'[k]
                 \/ B!Held(lost', blocks'[k].name) > 0
      <4>1. CASE k \in 1 .. Len(blocks)
        <5>1. \/ \E j \in DOMAIN initial.blocks : initial.blocks[j] = blocks[k]
              \/ B!Held(lost, blocks[k].name) > 0
          BY <3>2, <4>1 DEF BenchmarkInv, BlocksAreExplained
        <5>2. QED
          BY <2>7, <3>2, <4>1, <5>1 DEF Advance
      <4>2. CASE k = Len(blocks) + 1
        BY <2>3, <2>8, <3>3, <4>2
      <4>3. QED
        BY <3>2, <4>1, <4>2
    <3>5. QED
      BY <3>4 DEF BlocksAreExplained
  <2>10. ResultIsTrue'
    BY <1>2, <2>8 DEF B!PlaceBlock, B!Ends, ResultIsTrue
  <2>11. ASSUME NEW i \in B!Items PROVE Same(i)
    <3>1. blocks \in Seq(BlockSort) /\ entities \in Seq(EntitySort)
      BY HandAndPlace
    <3>2. blocks' \in Seq(BlockSort)
      BY <2>3, <2>4, <3>1, AppendProperties
    <3>3. B!Placed(i, blocks) = Cardinality(Holding(blocks, Blocks(i)))
          /\ B!Placed(i, blocks) \in Nat /\ B!Dropped(i, entities) \in Nat
      BY <3>1, PiecesAreCounted
    <3>4. B!Placed(i, blocks') = Cardinality(Holding(blocks', Blocks(i)))
      BY <3>1, <3>2, PiecesAreCounted
    <3>5. Cardinality(Holding(blocks', Blocks(i)))
            = IF b \in Blocks(i) THEN Cardinality(Holding(blocks, Blocks(i))) + 1
              ELSE Cardinality(Holding(blocks, Blocks(i)))
      BY <2>3, <2>4, <3>1, OneAppended
    <3>6. b \in Blocks(i) <=> i = a.subject
      BY <2>3 DEF Blocks
    <3>7. B!Placed(i, blocks') = IF i = a.subject THEN B!Placed(i, blocks) + 1 ELSE B!Placed(i, blocks)
      BY <3>3, <3>4, <3>5, <3>6
    <3>8. B!Held(inventory', i)
            = IF i = a.subject THEN B!Held(inventory, i) - 1 ELSE B!Held(inventory, i)
      BY <2>2, <2>5, <2>7
    <3>9. B!Held(inventory, i) \in Nat /\ B!Held(consumed, i) \in Nat
      BY <2>5
    <3>10. B!Held(inventory', i) + B!Held(consumed, i) + B!Placed(i, blocks') + B!Dropped(i, entities)
             = B!Held(inventory, i) + B!Held(consumed, i) + B!Placed(i, blocks) + B!Dropped(i, entities)
      BY <3>3, <3>7, <3>8, <3>9
    <3>11. QED
      BY <2>4, <3>10 DEF Same, B!Pieces
  <2>12. B!MatterIsKept'
    BY <2>11, PiecesKept DEF BenchmarkInv, Advance
  <2>13. blocks' \in Seq(BlockSort)
    BY <2>3, <2>4, HandAndPlace, AppendProperties
  <2>14. WorldTyped'
    BY <2>4, <2>7, <2>13, HandAndPlace, StepsAdvance
       DEF BenchmarkInv, WorldTyped, B!TypeOK, Advance, Stock
  <2>15. QED
    BY <2>7, <2>9, <2>10, <2>12, <2>14 DEF BenchmarkInv
<1>3. QED
  BY <1>1, <1>2

(* A drop at the place of a pick-up. *)
LEMMA StepWaitTicks ==
  ASSUME BenchmarkInv, NEW a, Advance(a), B!WaitTicks(a)
  PROVE  BenchmarkInv'
<1> DEFINE R == B!InReach
           d == [i \in {entities[k].item : k \in R} |-> B!Cardinality({k \in R : entities[k].item = i})]
<1>1. /\ B!Moves(d) /\ consumed' = consumed /\ hand' = hand /\ blocks' = blocks
      /\ entities' = B!Picked(entities, DOMAIN entities \ R) /\ position' = position
  BY DEF B!WaitTicks
<1>2. entities \in Seq(EntitySort) /\ DOMAIN entities = 1 .. Len(entities) /\ Len(entities) \in Nat
  BY HandAndPlace
<1>3. R \in SUBSET (DOMAIN entities) /\ IsFiniteSet(R)
  <2>1. IsFiniteSet(1 .. Len(entities))
    BY <1>2, FS_Interval
  <2>2. R \in SUBSET (DOMAIN entities)
    BY DEF B!InReach
  <2> HIDE DEF R
  <2>3. QED
    BY <1>2, <2>1, <2>2, FS_Subset
<1>4. \A k \in R : entities[k] \in EntitySort /\ entities[k].name = "item" /\ entities[k].item \in B!Items
  <2>1. \A k \in DOMAIN entities : entities[k] \in EntitySort
    BY <1>2, ElementOfSeq
  <2>2. \A e \in EntitySort : e.name = "item" => e.item \in B!Items
    BY BenchmarkAssumption DEF EntitySort, Drops
  <2>3. QED
    BY <2>1, <2>2 DEF B!InReach
<1> HIDE DEF R
<1>5. \A i : {k \in R : entities[k].item = i} = Holding(entities, Heap(i)) \cap R
  BY <1>3, <1>4 DEF Holding, Heap
<1>6. \A i : B!Held(d, i) = Cardinality(Holding(entities, Heap(i)) \cap R) /\ B!Held(d, i) \in Nat
  <2> SUFFICES ASSUME NEW i
               PROVE  B!Held(d, i) = Cardinality(Holding(entities, Heap(i)) \cap R) /\ B!Held(d, i) \in Nat
    OBVIOUS
  <2> DEFINE V == Holding(entities, Heap(i)) \cap R
  <2>1. IsFiniteSet(V)
    BY <1>3, FS_Intersection
  <2>2. CASE i \in {entities[k].item : k \in R}
    <3>1. d[i] = Cardinality(V)
      BY <1>5, <2>2, BenchmarkCounts
    <3> HIDE DEF V
    <3>2. QED
      BY <2>1, <2>2, <3>1, FS_CardinalityType DEF B!Held, V
  <2>3. CASE i \notin {entities[k].item : k \in R}
    <3>1. V = {}
      BY <1>5, <2>3
    <3>2. Cardinality(V) = 0
      BY <3>1, FS_EmptySet
    <3>3. B!Held(d, i) = 0
      BY <2>3 DEF B!Held
    <3>4. QED
      BY <3>2, <3>3
  <2>4. QED
    BY <2>2, <2>3
<1>7. Pile(d)
  <2>1. DOMAIN d \subseteq B!Items
    BY <1>4
  <2>2. \A i \in DOMAIN d : d[i] = B!Held(d, i)
    BY DEF B!Held
  <2> HIDE DEF d
  <2>3. QED
    BY <1>6, <2>1, <2>2 DEF Pile
<1> HIDE DEF d
<1>8. \A i : B!Held(inventory, i) \in Nat /\ B!Held(consumed, i) \in Nat
  BY HandAndPlace, StockIsPile
<1>9. /\ Stock(inventory') /\ Stock(gained') /\ Stock(lost') /\ StockIsExplained'
      /\ \A i : /\ B!Held(inventory', i) = B!Held(inventory, i) + B!Held(d, i)
                /\ B!Held(lost, i) > 0 => B!Held(lost', i) > 0
  <2>1. \A i \in B!Items : B!Held(inventory, i) + B!Held(d, i) >= 0
    BY <1>6, <1>8
  <2>2. QED
    BY <1>1, <1>7, <2>1, MovesExplain
<1>10. BlocksAreExplained'
  BY <1>1, <1>9, BlocksStay
<1>11. ResultIsTrue'
  BY DEF B!WaitTicks, B!Ends, ResultIsTrue
<1>12. entities' \in Seq(EntitySort)
  BY <1>1, <1>2, PickedHas
<1>13. ASSUME NEW i \in B!Items PROVE Same(i)
  <2> DEFINE V == Holding(entities, Heap(i))
  <2>1. (DOMAIN entities \ R) \cap V = V \ R
    BY DEF Holding
  <2>2. IsFiniteSet(V) /\ Cardinality(V) \in Nat
    BY <1>2, HoldingIsFinite
  <2>3. /\ B!Dropped(i, entities) = Cardinality(V)
        /\ B!Dropped(i, entities') = Cardinality(Holding(entities', Heap(i)))
        /\ B!Placed(i, blocks) \in Nat
    BY <1>2, <1>12, HandAndPlace, PiecesAreCounted
  <2>4. B!Held(d, i) = Cardinality(V \cap R)
    BY <1>6
  <2> HIDE DEF V
  <2>5. Cardinality(V \ R) = Cardinality(V) - Cardinality(V \cap R)
    BY <2>2, FS_Difference
  <2>6. Cardinality(Holding(entities', Heap(i))) = Cardinality((DOMAIN entities \ R) \cap V)
    BY <1>1, <1>2, PickedCounts DEF V
  <2>7. B!Dropped(i, entities') = B!Dropped(i, entities) - B!Held(d, i)
    BY <2>1, <2>3, <2>4, <2>5, <2>6
  <2>8. /\ B!Held(inventory, i) \in Nat /\ B!Held(consumed, i) \in Nat /\ B!Held(d, i) \in Nat
        /\ B!Dropped(i, entities) \in Nat
    BY <1>6, <1>8, <2>2, <2>3
  <2>9. B!Held(inventory', i) + B!Held(consumed, i) + B!Placed(i, blocks) + B!Dropped(i, entities')
          = B!Held(inventory, i) + B!Held(consumed, i) + B!Placed(i, blocks) + B!Dropped(i, entities)
    BY <1>9, <2>3, <2>7, <2>8
  <2>10. QED
    BY <1>1, <2>9 DEF Same, B!Pieces
<1>14. B!MatterIsKept'
  BY <1>13, PiecesKept DEF BenchmarkInv, Advance
<1>15. WorldTyped'
  BY <1>1, <1>9, <1>12, HandAndPlace, StepsAdvance
     DEF BenchmarkInv, WorldTyped, B!TypeOK, Advance, Stock
<1>16. QED
  BY <1>9, <1>10, <1>11, <1>14, <1>15 DEF BenchmarkInv

(* Blocks that are dug, and entities that are killed. *)

LEMMA StepDig ==
  ASSUME BenchmarkInv, NEW a, Advance(a), B!Dig(a)
  PROVE  BenchmarkInv'
<1> DEFINE there == {k \in DOMAIN blocks : blocks[k].place = a.place}
           m == B!Min(there)
           drop == [name |-> "item", item |-> B!DropOf(blocks[m].name), place |-> a.place,
                    air |-> FALSE]
<1>1. CASE there = {} \/ (a.subject # B!None /\ blocks[m].name # a.subject)
  BY <1>1, StepFails DEF B!Dig
<1>2. CASE ~(there = {} \/ (a.subject # B!None /\ blocks[m].name # a.subject))
  <2>1. /\ blocks' = B!Without(blocks, m) /\ entities' = Append(entities, drop)
        /\ B!Ends(a, TRUE, B!None) /\ B!Keeps /\ hand' = hand /\ position' = position
        /\ a.type = "dig_block_at"
    BY <1>2 DEF B!Dig
  <2>2. blocks \in Seq(BlockSort) /\ entities \in Seq(EntitySort)
    BY HandAndPlace
  <2>3. there \in SUBSET (DOMAIN blocks) /\ there # {}
    BY <1>2
  <2> HIDE DEF there
  <2>4. m \in there
    BY <2>2, <2>3, FirstIsThere
  <2> HIDE DEF m
  <2>5. m \in DOMAIN blocks /\ blocks[m] \in BlockSort
    BY <2>2, <2>3, <2>4, ElementOfSeq
  <2>6. blocks[m].name \in B!Items /\ B!DropOf(blocks[m].name) \in B!Items
    BY <2>5 DEF BlockSort, B!DropOf, B!Items
  <2>7. drop \in EntitySort /\ drop.name = "item" /\ drop.item = B!DropOf(blocks[m].name)
    BY <2>6, StepsAdvance DEF EntitySort, Drops
  <2> HIDE DEF drop
  <2>8. blocks' \in Seq(BlockSort) /\ entities' \in Seq(EntitySort)
    BY <2>1, <2>2, <2>5, <2>7, OneLess, AppendProperties
  <2>9. inventory' = inventory /\ gained' = gained /\ lost' = lost /\ consumed' = consumed
        /\ initial' = initial
    BY <2>1 DEF B!Keeps, Advance
  <2>10. \A j \in DOMAIN blocks' : \E i \in DOMAIN blocks : blocks'[j] = blocks[i]
    BY <2>1, <2>2, <2>5, OneLess
  <2>11. BlocksAreExplained'
    <3>1. \A i \in DOMAIN blocks : \/ \E j \in DOMAIN initial.blocks : initial.blocks[j] = blocks[i]
                                   \/ B!Held(lost, blocks[i].name) > 0
      BY DEF BenchmarkInv, BlocksAreExplained
    <3>2. \A k \in DOMAIN blocks' :
            \/ \E j \in DOMAIN initial'.blocks : initial'.blocks[j] = blocks'[k]
            \/ B!Held(lost', blocks'[k].name) > 0
      BY <2>9, <2>10, <3>1
    <3>3. QED
      BY <3>2 DEF BlocksAreExplained
  <2>12. ResultIsTrue'
    BY <2>1 DEF B!Ends, ResultIsTrue
  <2>13. StockIsExplained'
    BY <2>9 DEF BenchmarkInv, StockIsExplained
  <2>14. WorldTyped'
    BY <2>1, <2>8, <2>9, HandAndPlace, StepsAdvance DEF BenchmarkInv, WorldTyped, B!TypeOK, Stock
  <2>15. ASSUME NEW i
         PROVE  /\ B!Placed(i, blocks')
                     = IF blocks[m].name = i THEN B!Placed(i, blocks) - 1 ELSE B!Placed(i, blocks)
                /\ B!Dropped(i, entities')
                     = IF drop.item = i THEN B!Dropped(i, entities) + 1 ELSE B!Dropped(i, entities)
                /\ B!Placed(i, blocks) \in Nat /\ B!Dropped(i, entities) \in Nat
    <3>1. /\ B!Placed(i, blocks) = Cardinality(Holding(blocks, Blocks(i)))
          /\ B!Dropped(i, entities) = Cardinality(Holding(entities, Heap(i)))
          /\ B!Placed(i, blocks) \in Nat /\ B!Dropped(i, entities) \in Nat
      BY <2>2, PiecesAreCounted
    <3>2. /\ B!Placed(i, blocks') = Cardinality(Holding(blocks', Blocks(i)))
          /\ B!Dropped(i, entities') = Cardinality(Holding(entities', Heap(i)))
      BY <2>8, PiecesAreCounted
    <3>3. (blocks[m] \in Blocks(i) <=> blocks[m].name = i) /\ (drop \in Heap(i) <=> drop.item = i)
      BY <2>5, <2>7 DEF Blocks, Heap
    <3>4. Cardinality(Holding(B!Without(blocks, m), Blocks(i)))
            = IF blocks[m] \in Blocks(i) THEN Cardinality(Holding(blocks, Blocks(i))) - 1
              ELSE Cardinality(Holding(blocks, Blocks(i)))
      BY <2>2, <2>5, OneLess
    <3>5. Cardinality(Holding(Append(entities, drop), Heap(i)))
            = IF drop \in Heap(i) THEN Cardinality(Holding(entities, Heap(i))) + 1
              ELSE Cardinality(Holding(entities, Heap(i)))
      BY <2>2, <2>7, OneAppended
    <3>6. QED
      BY <2>1, <3>1, <3>2, <3>3, <3>4, <3>5
  <2>16. \A i : B!Held(inventory, i) \in Nat /\ B!Held(consumed, i) \in Nat
    BY HandAndPlace, StockIsPile
  <2>17. ASSUME blocks[m].name # "stone" PROVE B!MatterIsKept'
    <3>1. drop.item = blocks[m].name
      BY <2>7, <2>17 DEF B!DropOf
    <3>2. ASSUME NEW i PROVE Same(i)
      <4>1. B!Placed(i, blocks') + B!Dropped(i, entities') = B!Placed(i, blocks) + B!Dropped(i, entities)
            /\ B!Placed(i, blocks') \in Int /\ B!Dropped(i, entities') \in Int
        BY <2>15, <3>1
      <4>2. B!Held(inventory, i) + B!Held(consumed, i) + B!Placed(i, blocks') + B!Dropped(i, entities')
              = B!Held(inventory, i) + B!Held(consumed, i) + B!Placed(i, blocks) + B!Dropped(i, entities)
        BY <2>15, <2>16, <4>1
      <4>3. QED
        BY <2>9, <4>2 DEF Same, B!Pieces
    <3>3. QED
      BY <2>9, <3>2, PiecesKept DEF BenchmarkInv
  <2>18. ASSUME blocks[m].name = "stone" PROVE B!MatterIsKept'
    <3>1. drop.item = "cobblestone"
      BY <2>7, <2>18 DEF B!DropOf
    <3>2. ASSUME NEW i, i # "stone", i # "cobblestone" PROVE Same(i)
      <4>1. B!Placed(i, blocks') = B!Placed(i, blocks) /\ B!Dropped(i, entities') = B!Dropped(i, entities)
        BY <2>15, <2>18, <3>1, <3>2
      <4>2. QED
        BY <2>9, <4>1 DEF Same, B!Pieces
    <3>3. B!Wood(inventory', consumed', blocks', entities')
            = B!Wood(inventory, consumed, blocks, entities)
      BY <3>2 DEF B!Wood, Same
    <3>4. B!Stone(inventory', consumed', blocks', entities')
            = B!Stone(inventory, consumed, blocks, entities)
      <4>1. /\ B!Placed("stone", blocks') = B!Placed("stone", blocks) - 1
            /\ B!Placed("cobblestone", blocks') = B!Placed("cobblestone", blocks)
            /\ B!Dropped("stone", entities') = B!Dropped("stone", entities)
            /\ B!Dropped("cobblestone", entities') = B!Dropped("cobblestone", entities) + 1
        BY <2>15, <2>18, <3>1
      <4>2. /\ B!Placed("stone", blocks) \in Nat /\ B!Placed("cobblestone", blocks) \in Nat
            /\ B!Dropped("stone", entities) \in Nat /\ B!Dropped("cobblestone", entities) \in Nat
            /\ B!Held(inventory, "stone") \in Nat /\ B!Held(consumed, "stone") \in Nat
            /\ B!Held(inventory, "cobblestone") \in Nat /\ B!Held(consumed, "cobblestone") \in Nat
        BY <2>15, <2>16
      <4>3. QED
        BY <2>9, <4>1, <4>2 DEF B!Stone, B!Pieces
    <3>5. B!MatterIsKept'
      BY <2>9, <3>3, <3>4 DEF B!MatterIsKept, BenchmarkInv
    <3>6. QED
      BY <3>5
  <2>19. B!MatterIsKept'
    <3>1. CASE blocks[m].name # "stone"
      BY <2>17, <3>1
    <3>2. CASE blocks[m].name = "stone"
      BY <2>18, <3>2
    <3>3. QED
      BY <3>1, <3>2
  <2>20. QED
    BY <2>11, <2>12, <2>13, <2>14, <2>19 DEF BenchmarkInv
<1>3. QED
  BY <1>1, <1>2

(* What is killed is not a drop. *)
LEMMA KillKeeps ==
  ASSUME BenchmarkInv, NEW a, Advance(a), B!Named(a.subject) # {}, a.subject # "item",
         entities' = B!Without(entities, B!Min(B!Named(a.subject))), B!Keeps, hand' = hand,
         blocks' = blocks, position' = position, ResultIsTrue'
  PROVE  BenchmarkInv'
<1> DEFINE k == B!Min(B!Named(a.subject))
<1>1. entities \in Seq(EntitySort)
  BY HandAndPlace
<1>2. B!Named(a.subject) \in SUBSET (DOMAIN entities)
  BY DEF B!Named
<1>3. k \in B!Named(a.subject)
  BY <1>1, <1>2, FirstIsThere
<1>4. entities' = B!Without(entities, k)
  OBVIOUS
<1> HIDE DEF k
<1>5. k \in DOMAIN entities /\ entities[k].name = a.subject
  BY <1>3 DEF B!Named
<1>6. entities' \in Seq(EntitySort)
  BY <1>1, <1>4, <1>5, OneLess
<1>7. inventory' = inventory /\ gained' = gained /\ lost' = lost /\ consumed' = consumed
      /\ initial' = initial
  BY DEF B!Keeps, Advance
<1>8. ASSUME NEW i \in B!Items PROVE Same(i)
  <2>1. entities[k] \notin Heap(i)
    BY <1>5 DEF Heap
  <2>2. Cardinality(Holding(B!Without(entities, k), Heap(i))) = Cardinality(Holding(entities, Heap(i)))
    BY <1>1, <1>5, <2>1, OneLess
  <2>3. B!Dropped(i, entities') = B!Dropped(i, entities)
    BY <1>1, <1>4, <1>6, <2>2, HandAndPlace, PiecesAreCounted
  <2>4. QED
    BY <1>7, <2>3 DEF Same, B!Pieces
<1>9. B!MatterIsKept'
  BY <1>7, <1>8, PiecesKept DEF BenchmarkInv
<1>10. WorldTyped'
  BY <1>6, <1>7, HandAndPlace, StepsAdvance DEF BenchmarkInv, WorldTyped, B!TypeOK, Stock
<1>11. StockIsExplained'
  BY <1>7 DEF BenchmarkInv, StockIsExplained
<1>12. BlocksAreExplained'
  BY <1>7 DEF BenchmarkInv, BlocksAreExplained
<1>13. QED
  BY <1>9, <1>10, <1>11, <1>12 DEF BenchmarkInv

LEMMA StepEngage ==
  ASSUME BenchmarkInv, NEW a, Advance(a), B!Engage(a)
  PROVE  BenchmarkInv'
<1> DEFINE k == B!Min(B!Named(a.subject))
           Misses == B!Named(a.subject) = {} \/ (a.weapon # B!None /\ hand # a.weapon)
                     \/ B!Unreachable(entities[k])
<1>1. CASE Misses
  BY <1>1, StepFails DEF B!Engage
<1>2. CASE ~Misses
  <2>1. /\ a.type = "engage_combat" /\ entities' = B!Without(entities, k)
        /\ kills' = kills \cup {a.subject} /\ B!Ends(a, TRUE, B!None) /\ B!Keeps
        /\ hand' = hand /\ blocks' = blocks /\ position' = position
    BY <1>2 DEF B!Engage
  <2>2. B!Named(a.subject) # {} /\ a.subject # "item"
    BY <1>2, <2>1, StepsAdvance
  <2>3. ResultIsTrue'
    BY <2>1 DEF B!Ends, ResultIsTrue
  <2>4. QED
    BY <2>1, <2>2, <2>3, KillKeeps
<1>3. QED
  BY <1>1, <1>2

LEMMA StepFight ==
  ASSUME BenchmarkInv, NEW a, Advance(a), B!Fight(a)
  PROVE  BenchmarkInv'
<1>1. /\ a.type = "fight_entity" /\ B!Ends(a, TRUE, B!None) /\ B!Keeps
      /\ hand' = hand /\ blocks' = blocks /\ position' = position /\ a.subject # "item"
  BY StepsAdvance DEF B!Fight
<1>2. CASE B!Named(a.subject) = {}
  <2>1. entities' = entities
    BY <1>2 DEF B!Fight
  <2>2. ResultIsTrue'
    <3>1. B!Named(a.subject)' = {} /\ last'.subject = a.subject /\ last'.type = "fight_entity"
      BY <1>1, <1>2, <2>1 DEF B!Named, B!Ends
    <3>2. QED
      BY <1>1, <1>2, <2>1, <3>1 DEF ResultIsTrue, B!Named, B!Ends
  <2>3. QED
    BY <1>1, <2>1, <2>2, StepCalm, HandAndPlace
<1>3. CASE B!Named(a.subject) # {}
  <2>1. entities' = B!Without(entities, B!Min(B!Named(a.subject))) /\ kills' = kills \cup {a.subject}
    BY <1>3 DEF B!Fight
  <2>2. ResultIsTrue'
    BY <1>1, <2>1 DEF B!Ends, ResultIsTrue
  <2>3. QED
    BY <1>1, <1>3, <2>1, <2>2, KillKeeps
<1>4. QED
  BY <1>2, <1>3

(* Crafting: a recipe returns the worth of what it takes. *)

Worth(d) ==
  8 * B!Held(d, "oak_log") + 2 * B!Held(d, "oak_planks") + B!Held(d, "stick")
  + 8 * B!Held(d, "crafting_table") + 8 * B!Held(d, "wooden_pickaxe")

Change(a) == [i \in DOMAIN B!Needed(a) \cup {a.subject} |->
               IF i = a.subject THEN B!Produced(a) ELSE -B!Needed(a)[i]]

LEMMA CountsRoundUp ==
  \A n \in Nat \ {0} : (n + 4 - 1) \div 4 \in Nat /\ (n + 1 - 1) \div 1 \in Nat
BY Z3

(* What a recipe takes and makes: nothing but wood. *)
LEMMA RecipesAreFair ==
  ASSUME NEW a, a.count \in Nat \ {0}, a.subject \in DOMAIN B!Recipe
  PROVE  /\ DOMAIN B!Needed(a) \subseteq B!Items /\ a.subject \in B!Items \ DOMAIN B!Needed(a)
         /\ B!Produced(a) \in Nat /\ \A i \in DOMAIN B!Needed(a) : B!Needed(a)[i] \in Nat
         /\ Worth(Change(a)) = 0 /\ B!Held(Change(a), "stone") = 0
         /\ B!Held(Change(a), "cobblestone") = 0
<1> DEFINE n == B!CraftCount(a)
<1>1. a.subject \in {"oak_planks", "crafting_table", "stick", "wooden_pickaxe"}
  BY DEF B!Recipe
<1>2. CASE a.subject = "oak_planks"
  <2>1. B!Recipe[a.subject].output = 4 /\ B!Recipe[a.subject].inputs = [oak_log |-> 1]
    BY <1>2 DEF B!Recipe
  <2>2. n \in Nat
    BY <2>1, CountsRoundUp DEF B!CraftCount
  <2> HIDE DEF n
  <2>3. B!Needed(a) = [i \in {"oak_log"} |-> n] /\ B!Produced(a) = n * 4
    BY <2>1, <2>2 DEF B!Needed, B!Produced, n
  <2>4. /\ B!Held(Change(a), "oak_log") = -n /\ B!Held(Change(a), "oak_planks") = n * 4
        /\ B!Held(Change(a), "stick") = 0 /\ B!Held(Change(a), "crafting_table") = 0
        /\ B!Held(Change(a), "wooden_pickaxe") = 0 /\ B!Held(Change(a), "stone") = 0
        /\ B!Held(Change(a), "cobblestone") = 0
    BY <1>2, <2>2, <2>3 DEF Change, B!Held
  <2>5. QED
    BY <1>2, <2>2, <2>3, <2>4 DEF Worth, B!Items
<1>3. CASE a.subject = "crafting_table"
  <2>1. B!Recipe[a.subject].output = 1 /\ B!Recipe[a.subject].inputs = [oak_planks |-> 4]
    BY <1>3 DEF B!Recipe
  <2>2. n \in Nat
    BY <2>1, CountsRoundUp DEF B!CraftCount
  <2> HIDE DEF n
  <2>3. B!Needed(a) = [i \in {"oak_planks"} |-> 4 * n] /\ B!Produced(a) = n
    BY <2>1, <2>2 DEF B!Needed, B!Produced, n
  <2>4. /\ B!Held(Change(a), "oak_log") = 0 /\ B!Held(Change(a), "oak_planks") = -(4 * n)
        /\ B!Held(Change(a), "stick") = 0 /\ B!Held(Change(a), "crafting_table") = n
        /\ B!Held(Change(a), "wooden_pickaxe") = 0 /\ B!Held(Change(a), "stone") = 0
        /\ B!Held(Change(a), "cobblestone") = 0
    BY <1>3, <2>2, <2>3 DEF Change, B!Held
  <2>5. QED
    BY <1>3, <2>2, <2>3, <2>4 DEF Worth, B!Items
<1>4. CASE a.subject = "stick"
  <2>1. B!Recipe[a.subject].output = 4 /\ B!Recipe[a.subject].inputs = [oak_planks |-> 2]
    BY <1>4 DEF B!Recipe
  <2>2. n \in Nat
    BY <2>1, CountsRoundUp DEF B!CraftCount
  <2> HIDE DEF n
  <2>3. B!Needed(a) = [i \in {"oak_planks"} |-> 2 * n] /\ B!Produced(a) = n * 4
    BY <2>1, <2>2 DEF B!Needed, B!Produced, n
  <2>4. /\ B!Held(Change(a), "oak_log") = 0 /\ B!Held(Change(a), "oak_planks") = -(2 * n)
        /\ B!Held(Change(a), "stick") = n * 4 /\ B!Held(Change(a), "crafting_table") = 0
        /\ B!Held(Change(a), "wooden_pickaxe") = 0 /\ B!Held(Change(a), "stone") = 0
        /\ B!Held(Change(a), "cobblestone") = 0
    BY <1>4, <2>2, <2>3 DEF Change, B!Held
  <2>5. QED
    BY <1>4, <2>2, <2>3, <2>4 DEF Worth, B!Items
<1>5. CASE a.subject = "wooden_pickaxe"
  <2>1. B!Recipe[a.subject].output = 1 /\ B!Recipe[a.subject].inputs = [oak_planks |-> 3, stick |-> 2]
    BY <1>5 DEF B!Recipe
  <2>2. n \in Nat
    BY <2>1, CountsRoundUp DEF B!CraftCount
  <2> HIDE DEF n
  <2>3. /\ B!Needed(a) = [i \in {"oak_planks", "stick"} |-> IF i = "stick" THEN 2 * n ELSE 3 * n]
        /\ B!Produced(a) = n
    BY <2>1, <2>2 DEF B!Needed, B!Produced, n
  <2>4. /\ B!Held(Change(a), "oak_log") = 0 /\ B!Held(Change(a), "oak_planks") = -(3 * n)
        /\ B!Held(Change(a), "stick") = -(2 * n) /\ B!Held(Change(a), "crafting_table") = 0
        /\ B!Held(Change(a), "wooden_pickaxe") = n /\ B!Held(Change(a), "stone") = 0
        /\ B!Held(Change(a), "cobblestone") = 0
    BY <1>5, <2>2, <2>3 DEF Change, B!Held
  <2>5. QED
    BY <1>5, <2>2, <2>3, <2>4 DEF Worth, B!Items
<1>6. QED
  BY <1>1, <1>2, <1>3, <1>4, <1>5

LEMMA StepCraft ==
  ASSUME BenchmarkInv, NEW a, Advance(a), B!Craft(a)
  PROVE  BenchmarkInv'
<1>1. CASE ~B!CanCraft(a)
  BY <1>1, StepFails DEF B!Craft
<1>2. CASE B!CanCraft(a)
  <2> DEFINE d == Change(a)
  <2>1. /\ B!Moves(d) /\ consumed' = consumed /\ hand' = hand /\ blocks' = blocks
        /\ entities' = entities /\ position' = position /\ B!Ends(a, TRUE, B!None)
        /\ a.type = "craft_item"
    BY <1>2 DEF B!Craft, Change
  <2>2. /\ a.count \in Nat \ {0} /\ a.subject \in DOMAIN B!Recipe
        /\ \A i \in DOMAIN B!Needed(a) : B!Held(inventory, i) >= B!Needed(a)[i]
    BY <1>2, StepsAdvance DEF B!CanCraft
  <2>3. /\ DOMAIN B!Needed(a) \subseteq B!Items /\ a.subject \in B!Items \ DOMAIN B!Needed(a)
        /\ B!Produced(a) \in Nat /\ \A i \in DOMAIN B!Needed(a) : B!Needed(a)[i] \in Nat
        /\ Worth(d) = 0 /\ B!Held(d, "stone") = 0 /\ B!Held(d, "cobblestone") = 0
    BY <2>2, RecipesAreFair
  <2>4. /\ DOMAIN d = DOMAIN B!Needed(a) \cup {a.subject} /\ d[a.subject] = B!Produced(a)
        /\ \A i \in DOMAIN B!Needed(a) : d[i] = -B!Needed(a)[i]
    BY <2>3 DEF Change
  <2> HIDE DEF d
  <2>5. Pile(d)
    BY <2>3, <2>4 DEF Pile
  <2>6. \A i : B!Held(inventory, i) \in Nat /\ B!Held(consumed, i) \in Nat /\ B!Held(d, i) \in Int
    BY <2>5, HandAndPlace, StockIsPile, PileIsHeld
  <2>7. ASSUME NEW i PROVE B!Held(inventory, i) + B!Held(d, i) >= 0
    <3>1. CASE i \in DOMAIN B!Needed(a)
      <4>1. B!Held(d, i) = -B!Needed(a)[i] /\ B!Needed(a)[i] \in Nat
        BY <2>3, <2>4, <3>1 DEF B!Held
      <4>2. QED
        BY <2>2, <2>6, <3>1, <4>1
    <3>2. CASE i \notin DOMAIN B!Needed(a)
      <4>1. B!Held(d, i) \in Nat
        BY <2>3, <2>4, <3>2 DEF B!Held
      <4>2. QED
        BY <2>6, <4>1
    <3>3. QED
      BY <3>1, <3>2
  <2>8. /\ Stock(inventory') /\ Stock(gained') /\ Stock(lost') /\ StockIsExplained'
        /\ \A i : /\ B!Held(inventory', i) = B!Held(inventory, i) + B!Held(d, i)
                  /\ B!Held(lost, i) > 0 => B!Held(lost', i) > 0
    BY <2>1, <2>5, <2>7, MovesExplain
  <2>9. BlocksAreExplained'
    BY <2>1, <2>8, BlocksStay
  <2>10. ResultIsTrue'
    BY <2>1 DEF B!Ends, ResultIsTrue
  <2>11. ASSUME NEW i
         PROVE  /\ B!Pieces(i, inventory', consumed', blocks', entities')
                     = B!Pieces(i, inventory, consumed, blocks, entities) + B!Held(d, i)
                /\ B!Pieces(i, inventory, consumed, blocks, entities) \in Int
    <3>1. B!Placed(i, blocks) \in Nat /\ B!Dropped(i, entities) \in Nat
      BY HandAndPlace, PiecesAreCounted
    <3>2. QED
      BY <2>1, <2>6, <2>8, <3>1 DEF B!Pieces
  <2>12. B!Wood(inventory', consumed', blocks', entities')
           = B!Wood(inventory, consumed, blocks, entities)
    <3>1. 8 * B!Held(d, "oak_log") + 2 * B!Held(d, "oak_planks") + B!Held(d, "stick")
          + 8 * B!Held(d, "crafting_table") + 8 * B!Held(d, "wooden_pickaxe") = 0
      BY <2>3 DEF Worth
    <3>2. QED
      BY <2>6, <2>11, <3>1 DEF B!Wood
  <2>13. B!Stone(inventory', consumed', blocks', entities')
           = B!Stone(inventory, consumed, blocks, entities)
    BY <2>3, <2>6, <2>11 DEF B!Stone
  <2>14. B!MatterIsKept'
    BY <2>12, <2>13 DEF B!MatterIsKept, BenchmarkInv, Advance
  <2>15. WorldTyped'
    BY <2>1, <2>8, HandAndPlace, StepsAdvance
       DEF BenchmarkInv, WorldTyped, B!TypeOK, Advance, Stock
  <2>16. QED
    BY <2>8, <2>9, <2>10, <2>14, <2>15 DEF BenchmarkInv
<1>3. QED
  BY <1>1, <1>2

LEMMA InitBenchmark == B!Init => BenchmarkInv
<1> SUFFICES ASSUME B!Init PROVE BenchmarkInv
  OBVIOUS
<1>1. PICK i \in Initial :
        /\ inventory = i.inventory /\ blocks = i.blocks /\ entities = i.entities
        /\ initial = [inventory |-> i.inventory, blocks |-> i.blocks, entities |-> i.entities]
  BY DEF B!Init
<1>2. /\ hand = B!None /\ position = 0 /\ steps = 0 /\ last = B!NoResult /\ gained = B!Nothing
      /\ lost = B!Nothing /\ consumed = B!Nothing
  BY DEF B!Init
<1>3. Stock(i.inventory) /\ i.blocks \in Seq(BlockSort) /\ i.entities \in Seq(Found)
  BY BenchmarkAssumption
<1>4. Stock(B!Nothing) /\ \A j : B!Held(B!Nothing, j) = 0
  BY DEF Stock, B!Nothing, B!Held
<1>5. Found \subseteq EntitySort
  BY DEF EntitySort
<1>6. i.entities \in Seq(EntitySort)
  BY <1>3, <1>5, SeqMonotonic
<1>7. WorldTyped
  BY <1>1, <1>2, <1>3, <1>4, <1>6, BenchmarkAssumption DEF WorldTyped, B!TypeOK, Stock
<1>8. StockIsExplained
  BY <1>1, <1>2, <1>3, <1>4, StockIsPile DEF StockIsExplained
<1>9. BlocksAreExplained
  BY <1>1 DEF BlocksAreExplained
<1>10. ResultIsTrue
  BY <1>2 DEF B!NoResult, ResultIsTrue
<1>11. B!MatterIsKept
  BY <1>1, <1>2 DEF B!MatterIsKept
<1>12. QED
  BY <1>7, <1>8, <1>9, <1>10, <1>11 DEF BenchmarkInv

LEMMA StepBenchmark == BenchmarkInv /\ [B!Next]_(B!vars) => BenchmarkInv'
<1>1. ASSUME BenchmarkInv, B!Next PROVE BenchmarkInv'
  <2>1. PICK a \in Script :
          /\ steps < BenchmarkSteps /\ steps' = steps + 1 /\ initial' = initial
          /\ \/ B!Query(a) \/ B!MoveTo(a) \/ B!Follow(a) \/ B!Dig(a) \/ B!WaitTicks(a)
             \/ B!Craft(a) \/ B!PlaceBlock(a) \/ B!Equip(a) \/ B!Consume(a) \/ B!Engage(a)
             \/ B!Fight(a)
    BY <1>1 DEF B!Next, B!Act
  <2>2. Advance(a)
    BY <2>1 DEF Advance
  <2>3. QED
    BY <1>1, <2>1, <2>2, StepQuery, StepMoveTo, StepFollow, StepDig, StepWaitTicks, StepCraft,
       StepPlaceBlock, StepEquip, StepConsume, StepEngage, StepFight
<1>2. ASSUME BenchmarkInv, UNCHANGED B!vars PROVE BenchmarkInv'
  BY <1>2 DEF B!vars, BenchmarkInv, WorldTyped, B!TypeOK, Stock, StockIsExplained,
     BlocksAreExplained, ResultIsTrue, B!Named, B!MatterIsKept
<1>3. QED
  BY <1>1, <1>2

LEMMA AcceptedWasDone == BenchmarkInv => B!VerifiedMeansDone
<1> SUFFICES ASSUME BenchmarkInv, steps > 0 PROVE B!VerifiedMeansDone
  BY DEF B!VerifiedMeansDone
<1>1. B!Latest = B!Observation /\ B!First = initial
  <2>1. steps # 0
    BY DEF BenchmarkInv, WorldTyped, B!TypeOK
  <2>2. QED
    BY <2>1 DEF B!Latest, B!First
<1>2. /\ B!Latest.inventory = inventory /\ B!Latest.blocks = blocks
      /\ B!Latest.entities = entities /\ B!First.inventory = initial.inventory
  BY <1>1 DEF B!Observation
<1>3. \A i : /\ B!Held(inventory, i) \in Nat /\ B!Held(lost, i) \in Nat /\ B!Held(gained, i) \in Nat
             /\ B!Held(initial.inventory, i) \in Nat
  BY StockIsPile DEF BenchmarkInv, WorldTyped
<1>4. \A i \in B!Items : B!Held(inventory, i) + B!Held(lost, i)
                           = B!Held(initial.inventory, i) + B!Held(gained, i)
  BY DEF BenchmarkInv, StockIsExplained
<1>5. ASSUME NEW i \in B!Items, NEW n \in 1 .. 4
      PROVE  /\ B!InventoryContains(i, n) => B!Held(gained, i) + B!Held(initial.inventory, i) >= n
             /\ B!InventoryDelta(i, n) => B!Held(gained, i) - B!Held(lost, i) >= n
  BY <1>2, <1>3, <1>4 DEF B!InventoryContains, B!InventoryDelta
<1>6. ASSUME NEW e, B!EntityDefeated(e) PROVE e \in kills \/ B!Named(e) = {}
  <2>1. CASE last.type \in {"fight_entity", "engage_combat"} /\ last.ok /\ last.subject = e
    BY <2>1 DEF BenchmarkInv, ResultIsTrue
  <2>2. CASE \A k \in DOMAIN entities : entities[k].name # e
    BY <2>2 DEF B!Named
  <2>3. QED
    BY <1>2, <1>6, <2>1, <2>2 DEF B!EntityDefeated
<1>7. ASSUME NEW b, NEW p, B!BlockPlaced(b, p)
      PROVE  \/ B!Held(lost, b) > 0
             \/ \E k \in DOMAIN initial.blocks : initial.blocks[k] = [name |-> b, place |-> p]
  <2>1. CASE last = [type |-> "place_block", ok |-> TRUE, subject |-> b, place |-> p]
    BY <2>1 DEF BenchmarkInv, ResultIsTrue
  <2>2. CASE \E k \in DOMAIN blocks : blocks[k] = [name |-> b, place |-> p]
    <3>1. PICK k \in DOMAIN blocks : blocks[k] = [name |-> b, place |-> p]
      BY <2>2
    <3>2. \/ \E j \in DOMAIN initial.blocks : initial.blocks[j] = blocks[k]
          \/ B!Held(lost, blocks[k].name) > 0
      BY DEF BenchmarkInv, BlocksAreExplained
    <3>3. QED
      BY <3>1, <3>2
  <2>3. QED
    BY <1>2, <1>7, <2>1, <2>2 DEF B!BlockPlaced
<1>8. QED
  BY <1>5, <1>6, <1>7 DEF B!VerifiedMeansDone

(* The simulated world keeps its matter, and the verifier accepts only *)
(* what was done in it: for any initial worlds, scripts and places, any *)
(* counts that are asked for and any number of steps. *)
THEOREM BenchmarkServes == B!Spec => [](B!TypeOK /\ B!BenchmarkIsSound)
<1>1. BenchmarkInv => B!TypeOK /\ B!BenchmarkIsSound
  BY AcceptedWasDone DEF BenchmarkInv, WorldTyped, B!BenchmarkIsSound
<1>2. QED
  BY <1>1, InitBenchmark, StepBenchmark, PTL DEF B!Spec
--------------------
CONSTANTS
  \* HistoryImport
  Databases, Runs, Rows, Contents, MaxRows, MaxChanges, MaxImports
VARIABLES
  source, target, pc, options, pending, toRead, seen, done, changes, imports

H == INSTANCE HistoryImport

(* A row belongs to one of five tables, and says what rounds may be called.*)
(* Databases are numbered. *)
Tables == {"spans", "steps", "events", "calls", "errors"}
Marks == {"none", "active", "incomplete", "interrupted", "ok", "error"}
RowSort == [kind : Tables, step : Int, status : Marks]
RunSort == [status : {"running", "succeeded", "failed"}, rows : Seq(RowSort), updated : Int]
Content(c) ==
  /\ DOMAIN c = {"readable", "runs", "auxiliary"} /\ c.readable \in BOOLEAN
  /\ DOMAIN c.runs \subseteq Runs /\ \A r \in DOMAIN c.runs : c.runs[r] \in RunSort
ASSUME HistoryAssumption ==
  /\ IsFiniteSet(Databases) /\ Databases \subseteq Int /\ {MaxChanges, MaxImports} \subseteq Nat
  /\ Rows \subseteq RowSort /\ \A c \in Contents : Content(c)

(* The inductive invariant: what was selected is still there when it is *)
(* read, and what was read is what was selected. *)

SaidOf(run, k) ==
  {H!StatusOf(run.rows[i]) : i \in {j \in DOMAIN run.rows : run.rows[j].step = k}}
Tells(run) ==
  \A k \in DOMAIN run.rounds :
    /\ ("error" \in SaidOf(run, k)) = (run.rounds[k] = "error")
    /\ ("ok" \in SaidOf(run, k) /\ "error" \notin SaidOf(run, k)) = (run.rounds[k] = "ok")
    /\ run.rounds[k] = "active" => run.status = "running"
Refers(a, known) == a.refs # {} => a.refs \cap known # {}
Faithful(database) ==
  /\ DOMAIN database.runs \subseteq Runs /\ \A r \in DOMAIN database.runs : Tells(database.runs[r])
  /\ \A a \in database.auxiliary : Refers(a, DOMAIN database.runs)

HistoryTyped ==
  /\ DOMAIN source = Databases /\ DOMAIN seen = Databases
  /\ \A d \in Databases : Content(source[d]) /\ Content(seen[d])
  /\ pc \in {"idle", "reading"} /\ changes \in 0 .. MaxChanges /\ imports \in 0 .. MaxImports
  /\ toRead \subseteq Databases /\ DOMAIN selected \subseteq Runs /\ options.normalize \in BOOLEAN
SourcesAreKept ==
  \A d \in Databases : \A r \in DOMAIN seen[d].runs :
    /\ r \in DOMAIN source[d].runs
    /\ seen[d].runs[r].status \in H!Terminal => source[d].runs[r] = seen[d].runs[r]
Chosen(r) ==
  LET d == selected[r].database
  IN /\ d \in Databases /\ r \in DOMAIN seen[d].runs /\ selected[r].row = seen[d].runs[r]
     /\ r \notin DOMAIN target.runs
     /\ \A e \in Databases : seen[e].readable /\ r \in DOMAIN seen[e].runs
          => Cardinality(H!Kinds(seen[e].runs[r])) <= Cardinality(H!Kinds(selected[r].row))
Fetched(r) ==
  /\ r \in DOMAIN pending.runs
  /\ selected[r].row.status \in H!Terminal =>
       /\ pending.runs[r].database = selected[r].database
       /\ pending.runs[r].status = selected[r].row.status
       /\ pending.runs[r].rows = selected[r].row.rows
SeenIsCovered ==
  \A d \in Databases : seen[d].readable
    => DOMAIN seen[d].runs \subseteq DOMAIN selected \cup DOMAIN target.runs
Reading ==
  /\ ~done /\ SourcesAreKept /\ SeenIsCovered
  /\ \A r \in DOMAIN selected : Chosen(r) /\ (selected[r].database \in toRead \/ Fetched(r))

HistoryInv ==
  /\ HistoryTyped /\ Faithful(target) /\ Faithful(pending)
  /\ pc = "reading" => Reading
  /\ H!FinishedRunsArriveWhole

(* Sets and their sizes. *)

LEMMA KindsAreCounted == \A V : H!Cardinality(V) = Cardinality(V)
  BY DEF H!Cardinality, Cardinality

LEMMA NumberedIsFirst ==
  ASSUME NEW V \in SUBSET Int, IsFiniteSet(V), V # {}
  PROVE  H!Min(V) \in V
  BY IntegersHaveFirst DEF H!Min

(* Selection: a copy than which there is none better. *)

LEMMA KindsAreFinite ==
  ASSUME NEW run \in RunSort
  PROVE  Cardinality(H!Kinds(run)) \in Nat
<1> DEFINE f == [i \in DOMAIN run.rows |-> run.rows[i].kind]
<1>1. run.rows \in Seq(RowSort) /\ Len(run.rows) \in Nat /\ DOMAIN run.rows = 1 .. Len(run.rows)
  BY DEF RunSort
<1>2. IsFiniteSet(1 .. Len(run.rows))
  BY <1>1, FS_Interval
<1>3. f \in Surjection(DOMAIN run.rows, H!Kinds(run))
  BY DEF Surjection, H!Kinds
<1>4. IsFiniteSet(H!Kinds(run))
  BY <1>1, <1>2, <1>3, FS_Surjection
<1>5. QED
  BY <1>4, FS_CardinalityType

Score(run) == <<Cardinality(H!Kinds(run)), Len(run.rows),
                IF run.status \in H!Terminal THEN 1 ELSE 0, run.updated>>
Higher(x, y) ==
  \/ x[1] > y[1]
  \/ x[1] = y[1] /\ x[2] > y[2]
  \/ x[1] = y[1] /\ x[2] = y[2] /\ x[3] > y[3]
  \/ x[1] = y[1] /\ x[2] = y[2] /\ x[3] = y[3] /\ x[4] > y[4]

LEMMA BetterIsHigher ==
  ASSUME NEW a, NEW b
  PROVE  H!Better(a, b) <=> Higher(Score(a), Score(b))
<1> DEFINE x == Score(a)
           y == Score(b)
<1>1. H!Better(a, b) <=> \E i \in 1 .. 4 : x[i] > y[i] /\ \A j \in 1 .. i - 1 : x[j] = y[j]
  BY KindsAreCounted DEF H!Better, Score
<1> HIDE DEF x, y
<1>2. 1 .. 4 = {1, 2, 3, 4} /\ 1 .. 0 = {} /\ 1 .. 1 = {1} /\ 1 .. 2 = {1, 2} /\ 1 .. 3 = {1, 2, 3}
  OBVIOUS
<1>3. (\E i \in {1, 2, 3, 4} : x[i] > y[i] /\ \A j \in 1 .. i - 1 : x[j] = y[j]) <=> Higher(x, y)
  BY <1>2 DEF Higher
<1>4. QED
  BY <1>1, <1>2, <1>3 DEF x, y

LEMMA ScoreIsTyped ==
  ASSUME NEW run \in RunSort
  PROVE  Score(run) \in Int \X Int \X Int \X Int
<1>1. Cardinality(H!Kinds(run)) \in Int /\ Len(run.rows) \in Int /\ run.updated \in Int
  BY KindsAreFinite DEF RunSort
<1>2. QED
  BY <1>1 DEF Score

LEMMA HigherIsStrict ==
  /\ \A x \in Int \X Int \X Int \X Int : ~Higher(x, x)
  /\ \A x, y, z \in Int \X Int \X Int \X Int : Higher(x, y) /\ Higher(y, z) => Higher(x, z)
  BY DEF Higher

LEMMA BestIsBest ==
  ASSUME HistoryTyped, NEW r, H!Holding(r) # {}
  PROVE  /\ H!Best(r) \in H!Holding(r)
         /\ \A e \in H!Holding(r) :
              Cardinality(H!Kinds(source[e].runs[r])) <= Cardinality(H!Kinds(source[H!Best(r)].runs[r]))
<1> DEFINE V == H!Holding(r)
           run(d) == source[d].runs[r]
           R == {p \in V \X V : Higher(Score(run(p[1])), Score(run(p[2])))}
           T == {d \in V : ~\E o \in V : H!Better(run(o), run(d))}
<1>1. V \in SUBSET Databases /\ \A d \in V : run(d) \in RunSort
  BY DEF H!Holding, HistoryTyped, Content
<1>2. IsFiniteSet(V) /\ V # {} /\ V \in SUBSET Int
  BY <1>1, HistoryAssumption, FS_Subset
<1>3. \A d \in V : Score(run(d)) \in Int \X Int \X Int \X Int
  BY <1>1, ScoreIsTyped
<1>4. \A d, e \in V : <<d, e>> \in R <=> Higher(Score(run(d)), Score(run(e)))
  OBVIOUS
<1> HIDE DEF V, run, R
<1>5. (\A d \in V : <<d, d>> \notin R)
      /\ \A d, e, f \in V : <<d, e>> \in R /\ <<e, f>> \in R => <<d, f>> \in R
  BY <1>3, <1>4, HigherIsStrict
<1>6. PICK d \in V : \A e \in V : <<e, d>> \notin R
  BY <1>2, <1>5, SomeoneIsFirst
<1>7. d \in T
  BY <1>4, <1>6, BetterIsHigher
<1>8. T \in SUBSET V /\ IsFiniteSet(T) /\ T \in SUBSET Int
  <2>1. T \in SUBSET V
    OBVIOUS
  <2> HIDE DEF T
  <2>2. QED
    BY <1>2, <2>1, FS_Subset
<1>9. H!Best(r) \in T
  <2>1. H!Best(r) = H!Min(T)
    BY DEF H!Best, V, run
  <2> HIDE DEF T
  <2>2. QED
    BY <1>7, <1>8, <2>1, NumberedIsFirst
<1>10. ASSUME NEW e \in V
       PROVE  Cardinality(H!Kinds(run(e))) <= Cardinality(H!Kinds(run(H!Best(r))))
  <2>1. H!Best(r) \in V /\ ~Higher(Score(run(e)), Score(run(H!Best(r))))
    BY <1>9, <1>10, BetterIsHigher
  <2>2. ~(Score(run(e))[1] > Score(run(H!Best(r)))[1])
    BY <2>1 DEF Higher
  <2>3. Cardinality(H!Kinds(run(e))) \in Nat /\ Cardinality(H!Kinds(run(H!Best(r)))) \in Nat
    BY <1>1, <2>1, KindsAreFinite
  <2>4. QED
    BY <2>2, <2>3 DEF Score
<1>11. QED
  BY <1>8, <1>9, <1>10 DEF V, run

(* The rounds: what a status has heard of. *)

Heard(status, said) ==
  /\ status = "error" <=> "error" \in said
  /\ status = "ok" <=> "ok" \in said /\ "error" \notin said

LEMMA TouchHears ==
  ASSUME NEW status, NEW said, Heard(status, said), NEW row \in RowSort
  PROVE  Heard(H!Touch(status, row), said \cup {H!StatusOf(row)})
<1> DEFINE news == H!StatusOf(row)
<1>1. H!Touch(status, row) = IF news # "none" /\ H!Rank(news) >= H!Rank(status) THEN news ELSE status
  BY DEF H!Touch
<1>2. /\ H!Rank("error") = 3 /\ H!Rank("ok") = 2
      /\ \A x : x \notin {"error", "ok"} => H!Rank(x) \in {0, 1}
  BY DEF H!Rank
<1> HIDE DEF news
<1>3. news = "error" => H!Touch(status, row) = "error"
  BY <1>1, <1>2
<1>4. news = "ok" => H!Touch(status, row) = IF status = "error" THEN "error" ELSE "ok"
  BY <1>1, <1>2
<1>5. news \notin {"error", "ok"} =>
        (H!Touch(status, row) \in {"error", "ok"} \/ status \in {"error", "ok"}
           => H!Touch(status, row) = status)
  BY <1>1, <1>2
<1>6. Heard(H!Touch(status, row), said \cup {news})
  BY <1>3, <1>4, <1>5 DEF Heard
<1>7. QED
  BY <1>6 DEF news

(* The rows of a table up to the i-th one, and what they say of a round. *)
SaidBy(entries, kind, k, n) ==
  {H!StatusOf(entries[i]) : i \in {j \in 1 .. n : entries[j].kind = kind /\ entries[j].step = k}}

LEMMA TouchedHears ==
  ASSUME NEW entries \in Seq(RowSort), NEW status, NEW said, Heard(status, said), NEW kind, NEW k
  PROVE  Heard(H!Touched(status, kind, k, entries), said \cup SaidBy(entries, kind, k, Len(entries)))
<1> DEFINE n == Len(entries)
           Then(i, x) == IF entries[i].kind = kind /\ entries[i].step = k THEN H!Touch(x, entries[i]) ELSE x
           IsTold(f, m) == f = [i \in 0 .. m |-> IF i = 0 THEN status ELSE Then(i, f[i - 1])]
           G == {m \in Nat : \E f : IsTold(f, m)}
<1>1. 0 \in G
  <2> DEFINE f == [i \in 0 .. 0 |-> status]
  <2> HIDE DEF Then
  <2>1. IsTold(f, 0)
    OBVIOUS
  <2>2. QED
    BY <2>1
<1>2. ASSUME NEW m \in G PROVE m + 1 \in G
  <2> HIDE DEF Then
  <2>1. PICK f : IsTold(f, m)
    OBVIOUS
  <2> DEFINE g == [i \in 0 .. m + 1 |-> IF i = m + 1 THEN Then(m + 1, f[m]) ELSE f[i]]
  <2>2. m \in Nat /\ DOMAIN f = 0 .. m /\ DOMAIN g = 0 .. m + 1
    BY <2>1
  <2>3. \A i \in 0 .. m : f[i] = IF i = 0 THEN status ELSE Then(i, f[i - 1])
    BY <2>1
  <2>4. \A i \in 0 .. m + 1 : g[i] = IF i = 0 THEN status ELSE Then(i, g[i - 1])
    <3>1. \A i \in 0 .. m : g[i] = f[i]
      BY <2>2
    <3>2. g[m + 1] = Then(m + 1, f[m]) /\ m \in 0 .. m /\ m + 1 # 0 /\ (m + 1) - 1 = m
      BY <2>2
    <3> HIDE DEF g
    <3>3. ASSUME NEW i \in 0 .. m + 1 PROVE g[i] = IF i = 0 THEN status ELSE Then(i, g[i - 1])
      <4>1. CASE i = m + 1
        <5>1. g[i - 1] = f[m]
          BY <3>1, <3>2, <4>1
        <5>2. QED
          BY <3>2, <4>1, <5>1
      <4>2. CASE i = 0
        BY <2>2, <2>3, <3>1, <4>2
      <4>3. CASE i \in 1 .. m
        <5>1. i \in 0 .. m /\ i - 1 \in 0 .. m /\ i # 0
          BY <2>2, <4>3
        <5>2. g[i] = f[i] /\ g[i - 1] = f[i - 1]
          BY <3>1, <5>1
        <5>3. QED
          BY <2>3, <5>1, <5>2
      <4>4. QED
        BY <2>2, <4>1, <4>2, <4>3
    <3>4. QED
      BY <3>3
  <2>5. IsTold(g, m + 1)
    <3>1. g = [i \in 0 .. m + 1 |-> g[i]]
      BY <2>2
    <3> HIDE DEF g
    <3>2. QED
      BY <2>4, <3>1
  <2> HIDE DEF g, IsTold
  <2>6. QED
    BY <2>2, <2>5
<1>3. n \in G
  <2>1. G = Nat
    <3> HIDE DEF G
    <3>1. G \in SUBSET Nat
      BY DEF G
    <3>2. QED
      BY <1>1, <1>2, <3>1, NaturalsGrow
  <2>2. QED
    BY <2>1
<1> DEFINE told == CHOOSE f : IsTold(f, n)
<1>4. IsTold(told, n)
  <2> HIDE DEF IsTold
  <2>1. \E f : IsTold(f, n)
    BY <1>3
  <2>2. QED
    BY <2>1
<1>5. H!Touched(status, kind, k, entries) = told[n]
  BY DEF H!Touched
<1> HIDE DEF told
<1>6. told[0] = status /\ \A i \in 1 .. n : told[i] = Then(i, told[i - 1])
  <2> HIDE DEF Then
  <2>1. \A i \in 0 .. n : told[i] = IF i = 0 THEN status ELSE Then(i, told[i - 1])
    BY <1>4
  <2>2. QED
    BY <2>1
<1> DEFINE By(m) == said \cup SaidBy(entries, kind, k, m)
           F == {m \in Nat : m <= n => Heard(told[m], By(m))}
<1>7. 0 \in F
  <2>1. By(0) = said
    BY DEF SaidBy
  <2> HIDE DEF By
  <2>2. QED
    BY <1>6, <2>1
<1>8. ASSUME NEW m \in F PROVE m + 1 \in F
  <2> SUFFICES ASSUME m + 1 <= n PROVE Heard(told[m + 1], By(m + 1))
    OBVIOUS
  <2>1. m \in Nat /\ m + 1 \in 1 .. n /\ Heard(told[m], By(m)) /\ entries[m + 1] \in RowSort
        /\ (m + 1) - 1 = m
    OBVIOUS
  <2>2. told[m + 1] = Then(m + 1, told[m])
    BY <1>6, <2>1
  <2>3. 1 .. m + 1 = (1 .. m) \cup {m + 1}
    BY <2>1
  <2>4. CASE entries[m + 1].kind = kind /\ entries[m + 1].step = k
    <3>1. By(m + 1) = By(m) \cup {H!StatusOf(entries[m + 1])}
      BY <2>3, <2>4 DEF SaidBy
    <3>2. told[m + 1] = H!Touch(told[m], entries[m + 1])
      BY <2>2, <2>4
    <3> HIDE DEF By
    <3>3. QED
      BY <2>1, <3>1, <3>2, TouchHears
  <2>5. CASE ~(entries[m + 1].kind = kind /\ entries[m + 1].step = k)
    <3>1. By(m + 1) = By(m)
      BY <2>3, <2>5 DEF SaidBy
    <3>2. told[m + 1] = told[m]
      BY <2>2, <2>5
    <3> HIDE DEF By
    <3>3. QED
      BY <2>1, <3>1, <3>2
  <2>6. QED
    BY <2>4, <2>5
<1>9. n \in F
  <2>1. F = Nat
    <3> HIDE DEF F
    <3>1. F \in SUBSET Nat
      BY DEF F
    <3>2. QED
      BY <1>7, <1>8, <3>1, NaturalsGrow
  <2>2. n \in Nat
    OBVIOUS
  <2> HIDE DEF F, n
  <2>3. QED
    BY <2>1, <2>2
<1>10. QED
  BY <1>5, <1>9

LEMMA AggregateHears ==
  ASSUME NEW entries \in Seq(RowSort), NEW k
  PROVE  Heard(H!Aggregate(k, entries), {H!StatusOf(entries[i]) : i \in {j \in DOMAIN entries : entries[j].step = k}})
<1> DEFINE By(kind) == SaidBy(entries, kind, k, Len(entries))
           spans == H!Touched("active", "spans", k, entries)
           steps0 == H!Touched(spans, "steps", k, entries)
           events == H!Touched(steps0, "events", k, entries)
           calls == H!Touched(events, "calls", k, entries)
<1>1. H!Aggregate(k, entries) = H!Touched(calls, "errors", k, entries)
  BY DEF H!Aggregate
<1>2. Heard("active", {})
  BY DEF Heard
<1> HIDE DEF By
<1>3. Heard(spans, {} \cup By("spans"))
  BY <1>2, TouchedHears DEF By
<1> HIDE DEF spans
<1>4. Heard(steps0, ({} \cup By("spans")) \cup By("steps"))
  BY <1>3, TouchedHears DEF By
<1> HIDE DEF steps0
<1>5. Heard(events, (({} \cup By("spans")) \cup By("steps")) \cup By("events"))
  BY <1>4, TouchedHears DEF By
<1> HIDE DEF events
<1>6. Heard(calls, ((({} \cup By("spans")) \cup By("steps")) \cup By("events")) \cup By("calls"))
  BY <1>5, TouchedHears DEF By
<1> HIDE DEF calls
<1>7. Heard(H!Aggregate(k, entries), (((({} \cup By("spans")) \cup By("steps")) \cup By("events"))
                                     \cup By("calls")) \cup By("errors"))
  BY <1>1, <1>6, TouchedHears DEF By
<1>8. DOMAIN entries = 1 .. Len(entries) /\ \A i \in DOMAIN entries : entries[i].kind \in Tables
  <2>1. \A i \in 1 .. Len(entries) : entries[i] \in RowSort
    BY ElementOfSeq
  <2>2. DOMAIN entries = 1 .. Len(entries)
    OBVIOUS
  <2>3. QED
    BY <2>1, <2>2 DEF RowSort
<1>9. {H!StatusOf(entries[i]) : i \in {j \in DOMAIN entries : entries[j].step = k}}
        = (((({} \cup By("spans")) \cup By("steps")) \cup By("events")) \cup By("calls")) \cup By("errors")
  BY <1>8 DEF By, SaidBy, Tables
<1>10. QED
  BY <1>7, <1>9

LEMMA RoundsTell ==
  ASSUME NEW entries \in Seq(RowSort), NEW status, NEW run, run.rows = entries, run.status = status,
         run.rounds = H!Rounds(entries, status)
  PROVE  Tells(run)
<1> SUFFICES ASSUME NEW k \in DOMAIN run.rounds
             PROVE  /\ ("error" \in SaidOf(run, k)) = (run.rounds[k] = "error")
                    /\ ("ok" \in SaidOf(run, k) /\ "error" \notin SaidOf(run, k)) = (run.rounds[k] = "ok")
                    /\ run.rounds[k] = "active" => run.status = "running"
  BY DEF Tells
<1>1. Heard(H!Aggregate(k, entries), SaidOf(run, k))
  BY AggregateHears DEF SaidOf
<1>2. run.rounds[k] = IF H!Aggregate(k, entries) = "active" /\ status # "running" THEN "incomplete"
                      ELSE H!Aggregate(k, entries)
  BY DEF H!Rounds
<1>3. QED
  BY <1>1, <1>2 DEF Heard

(* Databases that are written to, copied and damaged. *)

LEMMA InitHistory == H!Init => HistoryInv
<1> SUFFICES ASSUME H!Init PROVE HistoryInv
  OBVIOUS
<1>1. /\ source \in [Databases -> Contents] /\ seen = source /\ pc = "idle" /\ ~done /\ toRead = {}
      /\ DOMAIN selected = {} /\ target = pending /\ options.normalize = TRUE
      /\ changes = 0 /\ imports = 0
  BY DEF H!Init, H!Never
<1>2. DOMAIN target.runs = {} /\ target.auxiliary = {}
  BY DEF H!Init, H!EmptyTarget, H!Never
<1>3. \A d \in Databases : Content(source[d])
  BY <1>1, HistoryAssumption
<1>4. HistoryTyped
  <2>1. changes \in 0 .. MaxChanges /\ imports \in 0 .. MaxImports
    BY <1>1, HistoryAssumption
  <2>2. DOMAIN source = Databases /\ DOMAIN seen = Databases
    BY <1>1
  <2>3. options.normalize \in BOOLEAN /\ toRead \subseteq Databases /\ DOMAIN selected \subseteq Runs
    BY <1>1
  <2>4. QED
    BY <1>1, <1>3, <2>1, <2>2, <2>3 DEF HistoryTyped
<1>5. Faithful(target)
  BY <1>2 DEF Faithful
<1>6. QED
  BY <1>1, <1>4, <1>5 DEF HistoryInv, H!FinishedRunsArriveWhole

(* A change that keeps what the databases hold and finished keeps the rest.*)
LEMMA ChangeKeeps ==
  ASSUME HistoryInv, NEW d \in Databases, NEW content, H!Changes(d, content), Content(content),
         pc = "reading" =>
           \A r \in DOMAIN source[d].runs :
             /\ r \in DOMAIN content.runs
             /\ source[d].runs[r].status \in H!Terminal => content.runs[r] = source[d].runs[r]
  PROVE  HistoryInv'
<1>1. /\ changes < MaxChanges /\ changes' = changes + 1 /\ source' = [source EXCEPT ![d] = content]
      /\ UNCHANGED <<target, pc, options, selected, pending, toRead, seen, done, imports>>
  BY DEF H!Changes
<1>2. /\ DOMAIN source' = Databases /\ source'[d] = content
      /\ \A e \in Databases : e # d => source'[e] = source[e]
  BY <1>1 DEF HistoryInv, HistoryTyped
<1>3. HistoryTyped'
  <2>1. \A e \in Databases : Content(source'[e])
    BY <1>2 DEF HistoryInv, HistoryTyped
  <2>2. changes' \in 0 .. MaxChanges
    BY <1>1, HistoryAssumption DEF HistoryInv, HistoryTyped
  <2>3. QED
    BY <1>1, <1>2, <2>1, <2>2 DEF HistoryInv, HistoryTyped, Content
<1>4. Faithful(target)' /\ Faithful(pending)'
  BY <1>1 DEF HistoryInv, Faithful, Tells, SaidOf, Refers, H!StatusOf
<1>5. H!FinishedRunsArriveWhole'
  BY <1>1 DEF HistoryInv, H!FinishedRunsArriveWhole, H!Kinds, H!Terminal
<1>6. ASSUME pc = "reading" PROVE Reading'
  <2>1. Reading
    BY <1>6 DEF HistoryInv
  <2>2. ASSUME NEW e \in Databases, NEW r \in DOMAIN seen[e].runs
        PROVE  /\ r \in DOMAIN source'[e].runs
               /\ seen[e].runs[r].status \in H!Terminal => source'[e].runs[r] = seen[e].runs[r]
    <3>1. /\ r \in DOMAIN source[e].runs
          /\ seen[e].runs[r].status \in H!Terminal => source[e].runs[r] = seen[e].runs[r]
      BY <2>1 DEF Reading, SourcesAreKept
    <3>2. CASE e = d
      BY <1>2, <1>6, <3>1, <3>2
    <3>3. CASE e # d
      BY <1>2, <3>1, <3>3
    <3>4. QED
      BY <3>2, <3>3
  <2>3. SourcesAreKept'
    BY <1>1, <2>2 DEF SourcesAreKept, H!Terminal
  <2>4. SeenIsCovered'
    BY <1>1, <2>1 DEF Reading, SeenIsCovered
  <2>5. \A r \in DOMAIN selected : Chosen(r)' /\ (selected[r].database \in toRead \/ Fetched(r))'
    BY <1>1, <2>1 DEF Reading, Chosen, Fetched, H!Kinds, H!Terminal
  <2>6. QED
    BY <1>1, <2>1, <2>3, <2>4, <2>5 DEF Reading
<1>7. QED
  BY <1>1, <1>3, <1>4, <1>5, <1>6 DEF HistoryInv

LEMMA RunIsWritten ==
  ASSUME NEW d, Content(source[d]), NEW r \in Runs, NEW run \in RunSort
  PROVE  LET content == H!WithRun(d, r, run)
         IN /\ Content(content) /\ DOMAIN content.runs = DOMAIN source[d].runs \cup {r}
            /\ \A q \in DOMAIN source[d].runs : q # r => content.runs[q] = source[d].runs[q]
<1> DEFINE content == H!WithRun(d, r, run)
           written == [q \in DOMAIN source[d].runs \cup {r} |-> IF q = r THEN run ELSE source[d].runs[q]]
<1>1. content = [source[d] EXCEPT !.runs = written]
  BY DEF H!WithRun
<1>2. /\ DOMAIN content = DOMAIN source[d] /\ content.runs = written
      /\ content.readable = source[d].readable
  BY <1>1 DEF Content
<1>3. \A q \in DOMAIN written : q \in Runs /\ written[q] \in RunSort
  BY DEF Content
<1> HIDE DEF content
<1>4. Content(content)
  BY <1>2, <1>3 DEF Content
<1>5. QED
  BY <1>2, <1>4 DEF content

LEMMA WritesKeep == ASSUME HistoryInv, H!RunWrites PROVE HistoryInv'
<1>1. PICK d \in Databases, r \in Runs :
        IF r \notin DOMAIN source[d].runs
        THEN H!Changes(d, H!WithRun(d, r, [status |-> "running", rows |-> <<>>, updated |-> changes]))
        ELSE /\ source[d].runs[r].status = "running"
             /\ \/ \E row \in Rows :
                     H!Changes(d, H!WithRun(d, r, [source[d].runs[r] EXCEPT !.rows = Append(@, row),
                                                                            !.updated = changes]))
                \/ \E s \in H!Terminal :
                     H!Changes(d, H!WithRun(d, r, [source[d].runs[r] EXCEPT !.status = s,
                                                                            !.updated = changes]))
                \/ H!Changes(d, [source[d] EXCEPT !.auxiliary = @ \cup {[key |-> d, refs |-> {r}]}])
  BY DEF H!RunWrites
<1>2. Content(source[d]) /\ changes \in Int
  BY DEF HistoryInv, HistoryTyped
<1>3. ASSUME NEW run \in RunSort, H!Changes(d, H!WithRun(d, r, run)),
             r \in DOMAIN source[d].runs => source[d].runs[r].status = "running"
      PROVE  HistoryInv'
  <2> DEFINE content == H!WithRun(d, r, run)
  <2>1. /\ Content(content) /\ DOMAIN content.runs = DOMAIN source[d].runs \cup {r}
        /\ \A q \in DOMAIN source[d].runs : q # r => content.runs[q] = source[d].runs[q]
    BY <1>2, RunIsWritten
  <2>2. H!Changes(d, content)
    BY <1>3
  <2> HIDE DEF content
  <2>3. \A q \in DOMAIN source[d].runs :
          /\ q \in DOMAIN content.runs
          /\ source[d].runs[q].status \in H!Terminal => content.runs[q] = source[d].runs[q]
    BY <1>3, <2>1 DEF H!Terminal
  <2>4. QED
    BY <2>1, <2>2, <2>3, ChangeKeeps
<1>4. CASE r \notin DOMAIN source[d].runs
  <2>1. [status |-> "running", rows |-> <<>>, updated |-> changes] \in RunSort
    BY <1>2 DEF RunSort
  <2>2. QED
    BY <1>1, <1>3, <1>4, <2>1
<1>5. CASE r \in DOMAIN source[d].runs
  <2> DEFINE run == source[d].runs[r]
  <2>1. run \in RunSort /\ run.status = "running"
    BY <1>1, <1>2, <1>5 DEF Content
  <2>2. ASSUME NEW row \in Rows,
               H!Changes(d, H!WithRun(d, r, [run EXCEPT !.rows = Append(@, row), !.updated = changes]))
        PROVE  HistoryInv'
    <3> DEFINE next1 == [run EXCEPT !.rows = Append(@, row), !.updated = changes]
    <3>1. next1 \in RunSort
      <4>1. row \in RowSort
        BY HistoryAssumption
      <4> HIDE DEF run
      <4>2. Append(run.rows, row) \in Seq(RowSort)
        BY <2>1, <4>1 DEF RunSort
      <4>3. QED
        BY <1>2, <2>1, <4>2 DEF RunSort
    <3>2. H!Changes(d, H!WithRun(d, r, next1))
      BY <2>2
    <3> HIDE DEF next1
    <3>3. QED
      BY <1>3, <2>1, <3>1, <3>2
  <2>3. ASSUME NEW s \in H!Terminal,
               H!Changes(d, H!WithRun(d, r, [run EXCEPT !.status = s, !.updated = changes]))
        PROVE  HistoryInv'
    <3> DEFINE next1 == [run EXCEPT !.status = s, !.updated = changes]
    <3>1. next1 \in RunSort
      <4>1. s \in {"succeeded", "failed"}
        BY DEF H!Terminal
      <4> HIDE DEF run
      <4>2. QED
        BY <1>2, <2>1, <4>1 DEF RunSort
    <3>2. H!Changes(d, H!WithRun(d, r, next1))
      BY <2>3
    <3> HIDE DEF next1
    <3>3. QED
      BY <1>3, <2>1, <3>1, <3>2
  <2>4. ASSUME H!Changes(d, [source[d] EXCEPT !.auxiliary = @ \cup {[key |-> d, refs |-> {r}]}])
        PROVE  HistoryInv'
    <3> DEFINE content == [source[d] EXCEPT !.auxiliary = @ \cup {[key |-> d, refs |-> {r}]}]
    <3>1. DOMAIN content = DOMAIN source[d] /\ content.runs = source[d].runs
          /\ content.readable = source[d].readable
      BY <1>2 DEF Content
    <3>2. H!Changes(d, content)
      BY <2>4
    <3> HIDE DEF content
    <3>3. Content(content)
      BY <1>2, <3>1 DEF Content
    <3>4. QED
      BY <3>1, <3>2, <3>3, ChangeKeeps
  <2>5. QED
    BY <1>1, <1>5, <2>2, <2>3, <2>4
<1>6. QED
  BY <1>4, <1>5

LEMMA CopyKeeps == ASSUME HistoryInv, H!Copied PROVE HistoryInv'
<1>1. PICK from, to \in Databases : pc = "idle" /\ H!Changes(to, source[from])
  BY DEF H!Copied
<1>2. Content(source[from])
  BY DEF HistoryInv, HistoryTyped
<1>3. QED
  BY <1>1, <1>2, ChangeKeeps

LEMMA DamageKeeps == ASSUME HistoryInv, H!Damaged PROVE HistoryInv'
<1>1. PICK d \in Databases : H!Changes(d, [source[d] EXCEPT !.readable = FALSE])
  BY DEF H!Damaged
<1> DEFINE content == [source[d] EXCEPT !.readable = FALSE]
<1>2. Content(source[d])
  BY DEF HistoryInv, HistoryTyped
<1>3. DOMAIN content = DOMAIN source[d] /\ content.runs = source[d].runs /\ content.readable = FALSE
  BY <1>2 DEF Content
<1>4. H!Changes(d, content)
  BY <1>1
<1> HIDE DEF content
<1>5. Content(content)
  BY <1>2, <1>3 DEF Content
<1>6. QED
  BY <1>3, <1>4, <1>5, ChangeKeeps

(* Selection, reading, and the end of an import. *)

LEMMA SelectKeeps == ASSUME HistoryInv, H!Select PROVE HistoryInv'
<1>1. /\ pc' = "reading" /\ imports < MaxImports /\ imports' = imports + 1 /\ ~done'
      /\ options' \in [dry : BOOLEAN, normalize : BOOLEAN]
      /\ selected' = [r \in H!Candidates |->
                        [database |-> H!Best(r), row |-> source[H!Best(r)].runs[r]]]
      /\ toRead' = {selected'[r].database : r \in H!Candidates}
      /\ pending' = H!EmptyTarget /\ seen' = source /\ UNCHANGED <<source, target, changes>>
  BY DEF H!Select
<1>2. HistoryTyped
  BY DEF HistoryInv
<1>3. ASSUME NEW r \in H!Candidates
      PROVE  LET d == selected'[r].database
             IN /\ r \in Runs /\ r \notin DOMAIN target.runs /\ d \in toRead' /\ d \in Databases
                /\ r \in DOMAIN source[d].runs /\ selected'[r].row = source[d].runs[r]
                /\ \A e \in Databases : source[e].readable /\ r \in DOMAIN source[e].runs
                     => Cardinality(H!Kinds(source[e].runs[r]))
                          <= Cardinality(H!Kinds(selected'[r].row))
  <2>1. r \in Runs /\ H!Holding(r) # {} /\ r \notin DOMAIN target.runs
    BY DEF H!Candidates
  <2>2. selected'[r].database = H!Best(r) /\ selected'[r].row = source[H!Best(r)].runs[r]
    BY <1>1
  <2>3. /\ H!Best(r) \in H!Holding(r)
        /\ \A e \in H!Holding(r) : Cardinality(H!Kinds(source[e].runs[r]))
                                     <= Cardinality(H!Kinds(source[H!Best(r)].runs[r]))
    BY <1>2, <2>1, BestIsBest
  <2>4. \A e : e \in H!Holding(r) <=> e \in Databases /\ source[e].readable /\ r \in DOMAIN source[e].runs
    BY DEF H!Holding
  <2>5. selected'[r].database \in toRead'
    BY <1>1
  <2>6. QED
    BY <2>1, <2>2, <2>3, <2>4, <2>5
<1>4. DOMAIN selected' = H!Candidates
  BY <1>1
<1>5. HistoryTyped'
  <2>1. toRead' \subseteq Databases /\ DOMAIN selected' \subseteq Runs
    <3>1. \A r \in H!Candidates : selected'[r].database \in Databases /\ r \in Runs
      BY <1>3
    <3>2. \A d \in toRead' : \E r \in H!Candidates : d = selected'[r].database
      BY <1>1
    <3>3. QED
      BY <1>4, <3>1, <3>2
  <2>2. imports' \in 0 .. MaxImports
    BY <1>1, <1>2, HistoryAssumption DEF HistoryTyped
  <2>3. options'.normalize \in BOOLEAN
    BY <1>1
  <2>4. QED
    BY <1>1, <1>2, <2>1, <2>2, <2>3 DEF HistoryTyped, Content
<1>6. Faithful(target)' /\ Faithful(pending)'
  <2>1. Faithful(target)'
    BY <1>1 DEF HistoryInv, Faithful, Tells, SaidOf, Refers, H!StatusOf
  <2>2. DOMAIN pending'.runs = {} /\ pending'.auxiliary = {}
    BY <1>1 DEF H!EmptyTarget, H!Never
  <2>3. QED
    BY <2>1, <2>2 DEF Faithful
<1>7. SourcesAreKept'
  BY <1>1 DEF SourcesAreKept
<1>8. SeenIsCovered'
  <2> SUFFICES ASSUME NEW d \in Databases, source[d].readable, NEW r \in DOMAIN source[d].runs
               PROVE  r \in H!Candidates \/ r \in DOMAIN target.runs
    BY <1>1, <1>4 DEF SeenIsCovered
  <2>1. r \in Runs /\ d \in H!Holding(r)
    BY <1>2 DEF HistoryTyped, Content, H!Holding
  <2>2. QED
    BY <2>1 DEF H!Candidates
<1>9. ASSUME NEW r \in DOMAIN selected' PROVE Chosen(r)' /\ selected'[r].database \in toRead'
  <2>1. seen' = source /\ target' = target /\ r \in H!Candidates
    BY <1>1, <1>4
  <2>2. /\ r \notin DOMAIN target.runs /\ selected'[r].database \in toRead'
        /\ selected'[r].database \in Databases /\ r \in DOMAIN source[selected'[r].database].runs
        /\ selected'[r].row = source[selected'[r].database].runs[r]
        /\ \A e \in Databases : source[e].readable /\ r \in DOMAIN source[e].runs
             => Cardinality(H!Kinds(source[e].runs[r])) <= Cardinality(H!Kinds(selected'[r].row))
    BY <1>3, <2>1
  <2>3. QED
    BY <2>1, <2>2 DEF Chosen, H!Kinds
<1>10. QED
  BY <1>1, <1>5, <1>6, <1>7, <1>8, <1>9 DEF HistoryInv, Reading, H!FinishedRunsArriveWhole

(* Skills and lessons come with a run that they refer to. *)
LEMMA ReadKeeps == ASSUME HistoryInv, H!ReadDatabase PROVE HistoryInv'
<1> DEFINE d == H!Min(toRead)
           here == {r \in DOMAIN selected : selected[r].database = d}
<1>1. /\ pc = "reading" /\ toRead # {} /\ toRead' = toRead \ {d}
      /\ pending' = [runs |-> [r \in DOMAIN pending.runs \cup here |->
                                 IF r \in here THEN H!Children(d, r) ELSE pending.runs[r]],
                     auxiliary |-> pending.auxiliary \cup H!Auxiliary(d, here)]
      /\ UNCHANGED <<source, target, pc, options, selected, seen, done, changes, imports>>
  BY DEF H!ReadDatabase
<1>2. HistoryTyped /\ Reading /\ Faithful(pending)
  BY <1>1 DEF HistoryInv
<1>3. toRead \in SUBSET Databases /\ IsFiniteSet(toRead) /\ toRead \in SUBSET Int
  <2>1. toRead \in SUBSET Databases
    BY <1>2 DEF HistoryTyped
  <2>2. QED
    BY <2>1, HistoryAssumption, FS_Subset
<1>4. d \in toRead /\ d \in Databases
  BY <1>1, <1>3, NumberedIsFirst
<1> HIDE DEF d, here
<1>5. ASSUME NEW r \in here
      PROVE  /\ r \in Runs /\ r \in DOMAIN seen[d].runs /\ r \in DOMAIN source[d].runs
             /\ selected[r].row = seen[d].runs[r] /\ source[d].runs[r] \in RunSort
             /\ seen[d].runs[r].status \in H!Terminal => source[d].runs[r] = seen[d].runs[r]
  <2>1. r \in DOMAIN selected /\ selected[r].database = d
    BY DEF here
  <2>2. r \in Runs /\ Chosen(r) /\ SourcesAreKept
    BY <1>2, <2>1 DEF HistoryTyped, Reading
  <2>3. r \in DOMAIN seen[d].runs /\ selected[r].row = seen[d].runs[r]
    BY <2>1, <2>2 DEF Chosen
  <2>4. /\ r \in DOMAIN source[d].runs
        /\ seen[d].runs[r].status \in H!Terminal => source[d].runs[r] = seen[d].runs[r]
    BY <1>4, <2>2, <2>3 DEF SourcesAreKept
  <2>5. source[d].runs[r] \in RunSort
    BY <1>2, <1>4, <2>4 DEF HistoryTyped, Content
  <2>6. QED
    BY <2>2, <2>3, <2>4, <2>5
<1>6. ASSUME NEW r \in here
      PROVE  LET run == H!Children(d, r)
             IN /\ Tells(run) /\ run.database = d /\ run.rows = source[d].runs[r].rows
                /\ selected[r].row.status \in H!Terminal => run.status = selected[r].row.status
  <2> DEFINE rows0 == source[d].runs[r].rows
             status == H!RunRecord(selected[r].row)
             run == H!Children(d, r)
  <2>1. run = [status |-> status, database |-> d, rows |-> rows0, rounds |-> H!Rounds(rows0, status)]
    BY DEF H!Children
  <2>2. rows0 \in Seq(RowSort)
    BY <1>5 DEF RunSort
  <2>3. selected[r].row.status \in H!Terminal => status = selected[r].row.status
    BY DEF H!RunRecord, H!Terminal
  <2> HIDE DEF rows0, status, run
  <2>4. run.rows = rows0 /\ run.status = status /\ run.rounds = H!Rounds(rows0, status)
        /\ run.database = d
    BY <2>1
  <2>5. Tells(run)
    BY <2>2, <2>4, RoundsTell
  <2>6. QED
    BY <2>3, <2>4, <2>5 DEF rows0, run
<1>7. /\ DOMAIN pending'.runs = DOMAIN pending.runs \cup here
      /\ \A r \in here : pending'.runs[r] = H!Children(d, r)
      /\ \A r \in DOMAIN pending.runs : r \notin here => pending'.runs[r] = pending.runs[r]
      /\ pending'.auxiliary = pending.auxiliary \cup H!Auxiliary(d, here)
  BY <1>1
<1>8. HistoryTyped' /\ SourcesAreKept' /\ SeenIsCovered' /\ Faithful(target)' /\ ~done'
      /\ H!FinishedRunsArriveWhole'
  <2>1. HistoryTyped'
    BY <1>1, <1>2 DEF HistoryTyped, Content
  <2>2. SourcesAreKept' /\ SeenIsCovered' /\ ~done'
    BY <1>1, <1>2 DEF Reading, SourcesAreKept, SeenIsCovered, H!Terminal
  <2>3. Faithful(target)'
    BY <1>1 DEF HistoryInv, Faithful, Tells, SaidOf, Refers, H!StatusOf
  <2>4. QED
    BY <2>1, <2>2, <2>3 DEF H!FinishedRunsArriveWhole
<1>9. Faithful(pending)'
  <2>1. DOMAIN pending'.runs \subseteq Runs
    BY <1>2, <1>5, <1>7 DEF Faithful
  <2>2. \A r \in DOMAIN pending'.runs : Tells(pending'.runs[r])
    BY <1>2, <1>6, <1>7 DEF Faithful
  <2>3. \A a \in pending'.auxiliary : Refers(a, DOMAIN pending'.runs)
    BY <1>2, <1>7 DEF Faithful, Refers, H!Auxiliary
  <2>4. QED
    BY <2>1, <2>2, <2>3 DEF Faithful, Tells, SaidOf, Refers, H!StatusOf
<1>10. ASSUME NEW r \in DOMAIN selected
       PROVE  Chosen(r)' /\ (selected'[r].database \in toRead' \/ Fetched(r)')
  <2>1. Chosen(r) /\ (selected[r].database \in toRead \/ Fetched(r))
    BY <1>2 DEF Reading
  <2>2. Chosen(r)'
    BY <1>1, <2>1 DEF Chosen, H!Kinds
  <2>3. CASE r \in here
    <3>1. selected[r].database = d
      BY <2>3 DEF here
    <3>2. r \in DOMAIN pending'.runs /\ pending'.runs[r] = H!Children(d, r)
      BY <1>7, <2>3
    <3>3. selected[r].row.status \in H!Terminal => source[d].runs[r] = selected[r].row
      BY <1>5, <2>3
    <3>4. Fetched(r)'
      BY <1>1, <1>6, <2>3, <3>1, <3>2, <3>3 DEF Fetched, H!Terminal
    <3>5. QED
      BY <2>2, <3>4
  <2>4. CASE r \notin here
    <3>1. selected[r].database # d
      BY <2>4 DEF here
    <3>2. ASSUME Fetched(r) PROVE Fetched(r)'
      BY <1>1, <1>7, <2>4, <3>2 DEF Fetched, H!Terminal
    <3>3. QED
      BY <1>1, <2>1, <2>2, <3>1, <3>2
  <2>5. QED
    BY <2>3, <2>4
<1>11. QED
  BY <1>1, <1>8, <1>9, <1>10 DEF HistoryInv, Reading

LEMMA FailureKeeps == ASSUME HistoryInv, H!ImportFails PROVE HistoryInv'
<1>1. /\ pc = "reading" /\ pc' = "idle" /\ pending' = H!EmptyTarget /\ selected' = H!Never
      /\ toRead' = {} /\ UNCHANGED <<source, target, options, seen, done, changes, imports>>
  BY DEF H!ImportFails
<1>2. HistoryTyped'
  BY <1>1 DEF HistoryInv, HistoryTyped, Content, H!Never
<1>3. Faithful(target)'
  BY <1>1 DEF HistoryInv, Faithful, Tells, SaidOf, Refers, H!StatusOf
<1>4. Faithful(pending)'
  <2>1. DOMAIN pending'.runs = {} /\ pending'.auxiliary = {}
    BY <1>1 DEF H!EmptyTarget, H!Never
  <2>2. QED
    BY <2>1 DEF Faithful
<1>5. ~done'
  BY <1>1 DEF HistoryInv, Reading
<1>6. QED
  BY <1>1, <1>2, <1>3, <1>4, <1>5 DEF HistoryInv, H!FinishedRunsArriveWhole

LEMMA CommitKeeps == ASSUME HistoryInv, H!Commit PROVE HistoryInv'
<1>1. /\ pc = "reading" /\ toRead = {} /\ pc' = "idle" /\ done' = ~options.dry
      /\ UNCHANGED <<source, options, selected, pending, toRead, seen, changes, imports>>
  BY DEF H!Commit
<1>2. HistoryTyped /\ Reading /\ Faithful(pending) /\ Faithful(target)
  BY <1>1 DEF HistoryInv
<1>3. HistoryTyped' /\ Faithful(pending)'
  <2>1. HistoryTyped'
    BY <1>1, <1>2 DEF HistoryTyped, Content
  <2>2. Faithful(pending)'
    BY <1>1, <1>2 DEF Faithful, Tells, SaidOf, Refers, H!StatusOf
  <2>3. QED
    BY <2>1, <2>2
<1>4. CASE options.dry
  <2>1. target' = target /\ done' = FALSE
    BY <1>1, <1>4 DEF H!Commit
  <2>2. Faithful(target)'
    BY <1>2, <2>1 DEF Faithful, Tells, SaidOf, Refers, H!StatusOf
  <2>3. QED
    BY <1>1, <1>3, <2>1, <2>2 DEF HistoryInv, H!FinishedRunsArriveWhole
<1>5. CASE ~options.dry
  <2>1. target' = [runs |-> [r \in DOMAIN target.runs \cup DOMAIN pending.runs |->
                               IF r \in DOMAIN target.runs THEN target.runs[r] ELSE pending.runs[r]],
                   auxiliary |-> target.auxiliary \cup pending.auxiliary]
    BY <1>5 DEF H!Commit
  <2>2. /\ DOMAIN target'.runs = DOMAIN target.runs \cup DOMAIN pending.runs
        /\ \A r \in DOMAIN target.runs : target'.runs[r] = target.runs[r]
        /\ \A r \in DOMAIN pending.runs : r \notin DOMAIN target.runs => target'.runs[r] = pending.runs[r]
        /\ target'.auxiliary = target.auxiliary \cup pending.auxiliary
    BY <2>1
  <2>3. /\ DOMAIN target'.runs \subseteq Runs
        /\ \A r \in DOMAIN target'.runs : Tells(target'.runs[r])
        /\ \A a \in target'.auxiliary : Refers(a, DOMAIN target'.runs)
    <3>1. \A r \in DOMAIN target'.runs : r \in Runs /\ Tells(target'.runs[r])
      BY <1>2, <2>2 DEF Faithful
    <3>2. \A a \in target'.auxiliary : Refers(a, DOMAIN target'.runs)
      BY <1>2, <2>2 DEF Faithful, Refers
    <3>3. QED
      BY <3>1, <3>2
  <2>4. Faithful(target)'
    BY <2>3 DEF Faithful, Tells, SaidOf, Refers, H!StatusOf
  <2>5. \A r \in DOMAIN selected : Chosen(r) /\ Fetched(r)
    BY <1>1, <1>2 DEF Reading
  <2>6. \A e \in Databases : seen[e].readable => DOMAIN seen[e].runs \subseteq DOMAIN target'.runs
    BY <1>2, <2>2, <2>5 DEF Reading, SeenIsCovered, Fetched
  <2>7. ASSUME NEW r \in DOMAIN selected, selected[r].row.status \in H!Terminal
        PROVE  /\ target'.runs[r].status = selected[r].row.status
               /\ target'.runs[r].rows = seen[target'.runs[r].database].runs[r].rows
               /\ \A e \in Databases : seen[e].readable /\ r \in DOMAIN seen[e].runs
                    => H!Cardinality(H!Kinds(seen[e].runs[r])) <= H!Cardinality(H!Kinds(target'.runs[r]))
    <3>1. Chosen(r) /\ Fetched(r)
      BY <2>5
    <3>2. target'.runs[r] = pending.runs[r]
      BY <2>2, <3>1 DEF Chosen, Fetched
    <3>3. /\ target'.runs[r].database = selected[r].database
          /\ target'.runs[r].status = selected[r].row.status
          /\ target'.runs[r].rows = selected[r].row.rows
      BY <2>7, <3>1, <3>2 DEF Fetched
    <3>4. selected[r].row = seen[selected[r].database].runs[r]
      BY <3>1 DEF Chosen
    <3>5. H!Kinds(target'.runs[r]) = H!Kinds(selected[r].row)
      BY <3>3 DEF H!Kinds
    <3>6. \A e \in Databases : seen[e].readable /\ r \in DOMAIN seen[e].runs
            => Cardinality(H!Kinds(seen[e].runs[r])) <= Cardinality(H!Kinds(selected[r].row))
      BY <3>1 DEF Chosen
    <3>7. QED
      BY <3>3, <3>4, <3>5, <3>6, KindsAreCounted
  <2>8. H!FinishedRunsArriveWhole'
    <3>1. \A a \in target'.auxiliary : a.refs # {} => a.refs \cap DOMAIN target'.runs # {}
      BY <2>3 DEF Refers
    <3>2. QED
      BY <1>1, <2>6, <2>7, <3>1 DEF H!FinishedRunsArriveWhole, H!Kinds, H!Terminal
  <2>9. QED
    BY <1>1, <1>3, <2>4, <2>8 DEF HistoryInv
<1>6. QED
  BY <1>4, <1>5

LEMMA StepHistory == HistoryInv /\ [H!Next]_(H!vars) => HistoryInv'
<1> SUFFICES ASSUME HistoryInv, [H!Next]_(H!vars) PROVE HistoryInv'
  OBVIOUS
<1>1. CASE H!Next
  BY <1>1, WritesKeep, CopyKeeps, DamageKeeps, SelectKeeps, ReadKeeps, FailureKeeps, CommitKeeps
     DEF H!Next
<1>2. CASE UNCHANGED H!vars
  <2>1. HistoryTyped'
    BY <1>2 DEF H!vars, HistoryInv, HistoryTyped, Content
  <2>2. Faithful(target)' /\ Faithful(pending)'
    BY <1>2 DEF H!vars, HistoryInv, Faithful, Tells, SaidOf, Refers, H!StatusOf
  <2>3. H!FinishedRunsArriveWhole'
    BY <1>2 DEF H!vars, HistoryInv, H!FinishedRunsArriveWhole, H!Kinds, H!Terminal
  <2>4. (pc = "reading" => Reading)'
    <3>1. pc = "reading" => SourcesAreKept' /\ SeenIsCovered' /\ ~done'
      BY <1>2 DEF H!vars, HistoryInv, Reading, SourcesAreKept, SeenIsCovered, H!Terminal
    <3>2. pc = "reading" =>
            \A r \in DOMAIN selected : Chosen(r)' /\ (selected[r].database \in toRead \/ Fetched(r)')
      BY <1>2 DEF H!vars, HistoryInv, Reading, Chosen, Fetched, H!Kinds, H!Terminal
    <3>3. QED
      BY <1>2, <3>1, <3>2 DEF H!vars, Reading
  <2>5. QED
    BY <2>1, <2>2, <2>3, <2>4 DEF HistoryInv
<1>3. QED
  BY <1>1, <1>2

(* Runs arrive whole and their rounds tell the worst, for any databases, *)
(* runs, rows and numbers of changes and of imports. *)
THEOREM HistoryServes == H!Spec => [](H!TypeOK /\ H!ImportIsFaithful)
<1>1. HistoryInv => H!TypeOK
  BY DEF HistoryInv, HistoryTyped, Faithful, H!TypeOK
<1>2. HistoryInv => H!RoundsTellTheWorst
  BY DEF HistoryInv, Faithful, Tells, SaidOf, H!RoundsTellTheWorst
<1>3. HistoryInv => H!ImportIsFaithful
  BY <1>2 DEF HistoryInv, H!ImportIsFaithful
<1>4. QED
  BY <1>1, <1>3, InitHistory, StepHistory, PTL DEF H!Spec
--------------------
CONSTANTS
  \* ContextMemory
  ContextSteps, Interval, RecentCount, MaxSegment, MaxSources, Phases, Queries, Skills,
  Rankings, MaxSkills, Keys, Sizes, Budget, ContextLosses, CorpusEdits
VARIABLES
  step, context, previous, prompt, lookup, checkpoint, corpus, history

C == INSTANCE ContextMemory WITH
  MaxSteps <- ContextSteps, MaxLosses <- ContextLosses, MaxEdits <- CorpusEdits

(* Budgets and bounds are naturals, recent_step_count is positive, and a *)
(* search returns skills. *)
ASSUME ContextAssumption ==
  /\ {ContextSteps, MaxSources, MaxSkills, ContextLosses, CorpusEdits} \subseteq Nat
  /\ RecentCount \in Nat \ {0} /\ Rankings \subseteq Seq(Skills)

(* The inductive invariant: what a context of n steps holds is what these *)
(* steps left, also the one in the checkpoint. *)

Climbs(t) == \A i, j \in 1 .. Len(t) : i < j => t[i].step < t[j].step
Entries == [step : Nat, phase : Phases]
WorldPhases == Phases \cup {C!None}

Traced(c, n, h) ==
  /\ c.trajectory \in Seq(Entries) /\ Climbs(c.trajectory)
  /\ C!StepsOf(c.trajectory) = {s \in 0 .. n - 1 : h[s + 1].phase # C!None}
Sourced(c, n, h) ==
  /\ DOMAIN c.sources \subseteq 0 .. n - 1 /\ Cardinality(DOMAIN c.sources) <= MaxSources
  /\ \A s \in DOMAIN c.sources : c.sources[s] = h[s + 1].value
Noted(c, n, h) ==
  \A k \in DOMAIN c.memory :
    LET fact == c.memory[k]
    IN fact.source \in 0 .. n - 1 /\ fact.value = h[fact.source + 1].value
Learnt(c) ==
  /\ \A e \in c.knowledge : e.content \in Nat /\ e.content >= e.revision[2]
  /\ \A e, f \in c.knowledge : e.query = f.query => e = f
Ledger == {"trajectory", "knowledge", "skills", "memory", "sources"}
Remembers(c, n, h) ==
  /\ DOMAIN c = Ledger /\ DOMAIN c.skills \subseteq Skills
  /\ Traced(c, n, h) /\ Sourced(c, n, h) /\ Noted(c, n, h) /\ Learnt(c)

RunTyped ==
  /\ pc \in {"build", "choose", "lookup", "lost"} /\ step \in 0 .. ContextSteps
  /\ losses \in 0 .. ContextLosses
  /\ history \in Seq([phase : WorldPhases, value : Nat]) /\ Len(history) = step
  /\ pc \in {"choose", "lookup"} => step < ContextSteps
CorpusTyped ==
  /\ corpus \in [versions : Nat, stamp : Nat, content : 0 .. CorpusEdits]
  /\ corpus.stamp = corpus.content
AskedOfCorpus ==
  /\ pc = "lookup" => /\ lookup.asked \in Nat /\ lookup.asked <= corpus.content
                      /\ lookup.revision[2] = lookup.asked
  /\ C!CacheIsCurrent
CheckpointHolds ==
  /\ DOMAIN checkpoint = {"step", "context", "previous"}
  /\ checkpoint.step \in 0 .. step /\ checkpoint.previous.step = checkpoint.step - 1
  /\ Remembers(checkpoint.context, checkpoint.step, history)

ContextInv ==
  /\ RunTyped /\ CorpusTyped /\ AskedOfCorpus /\ CheckpointHolds
  /\ previous.step = step - 1 /\ Remembers(context, step, history)
  /\ C!EvidenceReachesModel /\ C!ShownOnce

(* The end of a step. *)

LEMMA CardinalityIs == \A V : C!Cardinality(V) = Cardinality(V)
  BY DEF C!Cardinality, Cardinality

(* Of a finite set of integers no more than n have fewer than n above them.*)
LEMMA NewestAreFew ==
  ASSUME NEW V \in SUBSET Int, IsFiniteSet(V), NEW n \in Nat
  PROVE  /\ C!Newest(n, V) \subseteq V /\ IsFiniteSet(C!Newest(n, V))
         /\ Cardinality(C!Newest(n, V)) <= n
<1> DEFINE T == C!Newest(n, V)
           Above(s) == {t \in V : t > s}
           f == [s \in T |-> Cardinality(Above(s))]
<1>0. T = {s \in V : Cardinality(Above(s)) < n}
  BY CardinalityIs DEF C!Newest
<1> HIDE DEF T
<1>1. T \subseteq V /\ IsFiniteSet(T)
  <2> HIDE DEF Above
  <2>1. T \in SUBSET V
    BY <1>0
  <2>2. QED
    BY <2>1, FS_Subset
<1>2. ASSUME NEW s \in T PROVE IsFiniteSet(Above(s)) /\ f[s] \in 0 .. n - 1
  <2>1. IsFiniteSet(Above(s)) /\ Cardinality(Above(s)) \in Nat
    BY FS_Subset, FS_CardinalityType
  <2> HIDE DEF Above
  <2>2. Cardinality(Above(s)) < n
    BY <1>0
  <2>3. QED
    BY <2>1, <2>2
<1>3. ASSUME NEW s \in T, NEW t \in T, s < t PROVE f[t] < f[s]
  <2>1. t \notin Above(t) /\ IsFiniteSet(Above(t))
    BY <1>1, <1>2
  <2>2. Cardinality(Above(t) \cup {t}) = Cardinality(Above(t)) + 1
    BY <2>1, FS_AddElement
  <2>3. Above(t) \cup {t} \in SUBSET Above(s)
    <3>1. \A x \in V : x > t => x > s
      BY <1>1, <1>3
    <3>2. t \in V /\ t > s
      BY <1>1, <1>3
    <3>3. QED
      BY <3>1, <3>2
  <2>4. Cardinality(Above(t) \cup {t}) <= Cardinality(Above(s))
    BY <1>2, <2>3, FS_Subset
  <2>5. f[s] \in Int /\ f[t] \in Int
    <3> HIDE DEF f, Above
    <3>1. f[s] \in 0 .. n - 1 /\ f[t] \in 0 .. n - 1
      BY <1>2
    <3>2. QED
      BY <3>1
  <2>6. QED
    BY <2>2, <2>4, <2>5
<1>4. f \in Injection(T, 0 .. n - 1)
  <2> HIDE DEF f, T
  <2>1. f \in [T -> 0 .. n - 1]
    BY <1>2 DEF f
  <2>2. ASSUME NEW s \in T, NEW t \in T, f[s] = f[t] PROVE s = t
    <3>1. s \in Int /\ t \in Int /\ f[s] \in Int
      BY <1>1, <2>1
    <3>2. QED
      BY <1>3, <2>2, <3>1
  <2>3. QED
    BY <2>1, <2>2 DEF Injection, IsInjective
<1>5. IsFiniteSet(0 .. n - 1) /\ Cardinality(0 .. n - 1) = n
  BY FS_Interval
<1> HIDE DEF f, T
<1>6. Cardinality(T) <= n
  BY <1>4, <1>5, FS_Injection
<1>7. QED
  BY <1>1, <1>6 DEF T

(* A history that goes on says the same of the steps there were. *)
LEMMA StillRemembers ==
  ASSUME NEW c, NEW n \in Nat, NEW h, NEW g, Remembers(c, n, h), \A i \in 1 .. n : g[i] = h[i]
  PROVE  Remembers(c, n, g)
<1>1. Traced(c, n, g)
  BY DEF Remembers, Traced
<1>2. Sourced(c, n, g)
  BY DEF Remembers, Sourced
<1>3. Noted(c, n, g)
  BY DEF Remembers, Noted
<1>4. QED
  BY <1>1, <1>2, <1>3 DEF Remembers

(* The result of a step, or of a resume, is among the sources. *)
LEMMA SourcesStay ==
  ASSUME NEW c, NEW g, step \in Nat, Remembers(c, step, g), NEW result, g[step + 1].value = result
  PROVE  LET k == C!RecordSource(c, result)
         IN /\ DOMAIN k = Ledger /\ Sourced(k, step + 1, g)
            /\ k.trajectory = c.trajectory /\ k.knowledge = c.knowledge /\ k.skills = c.skills
            /\ k.memory = c.memory
<1> DEFINE all == C!Put(c.sources, step, result)
           left == C!Restrict2(all, C!Newest(MaxSources, DOMAIN all))
<1>1. C!RecordSource(c, result) = [c EXCEPT !.sources = left]
  BY DEF C!RecordSource
<1>2. DOMAIN c = Ledger
  BY DEF Remembers
<1>3. DOMAIN c.sources \subseteq 0 .. step - 1
  BY DEF Remembers, Sourced
<1>4. DOMAIN all \subseteq 0 .. step /\ IsFiniteSet(DOMAIN all)
  <2>1. DOMAIN all \in SUBSET (0 .. step)
    BY <1>3 DEF C!Put
  <2>2. IsFiniteSet(0 .. step)
    BY FS_Interval
  <2>3. QED
    BY <2>1, <2>2, FS_Subset
<1>5. \A s \in DOMAIN all : all[s] = g[s + 1].value
  BY DEF Remembers, Sourced, C!Put
<1> HIDE DEF all
<1>6. /\ DOMAIN left = C!Newest(MaxSources, DOMAIN all)
      /\ C!Newest(MaxSources, DOMAIN all) \subseteq DOMAIN all
      /\ Cardinality(C!Newest(MaxSources, DOMAIN all)) <= MaxSources
  <2>1. MaxSources \in Nat
    BY ContextAssumption
  <2>2. /\ C!Newest(MaxSources, DOMAIN all) \subseteq DOMAIN all
        /\ Cardinality(C!Newest(MaxSources, DOMAIN all)) <= MaxSources
    BY <1>4, <2>1, NewestAreFew
  <2>3. QED
    BY <2>2 DEF C!Restrict2
<1>7. \A s \in DOMAIN left : left[s] = g[s + 1].value
  BY <1>5 DEF C!Restrict2
<1> HIDE DEF left
<1>8. Sourced([c EXCEPT !.sources = left], step + 1, g)
  BY <1>2, <1>4, <1>6, <1>7 DEF Ledger, Sourced
<1>9. QED
  BY <1>1, <1>2, <1>8 DEF Ledger

(* A fact that is noted is what a source says, and so are the others. *)
LEMMA FactsAreNoted ==
  ASSUME NEW c, NEW n, NEW g, DOMAIN c = Ledger, Sourced(c, n, g), Noted(c, n, g),
         NEW key, NEW origin
  PROVE  LET k == C!ApplyUpdate(c, key, origin)
         IN /\ DOMAIN k = Ledger /\ Sourced(k, n, g) /\ Noted(k, n, g)
            /\ k.trajectory = c.trajectory /\ k.knowledge = c.knowledge /\ k.skills = c.skills
<1>1. CASE origin \notin DOMAIN c.sources
  BY <1>1 DEF C!ApplyUpdate
<1>2. CASE origin \in DOMAIN c.sources
  <2> DEFINE created == IF key \in DOMAIN c.memory THEN c.memory[key].created ELSE step
             fact == [source |-> origin, value |-> c.sources[origin], created |-> created,
                      updated |-> step]
             m == C!Put(c.memory, key, fact)
  <2>1. C!ApplyUpdate(c, key, origin) = [c EXCEPT !.memory = m]
    BY <1>2 DEF C!ApplyUpdate, Ledger
  <2>2. fact.source \in 0 .. n - 1 /\ fact.value = g[fact.source + 1].value
    BY <1>2 DEF Sourced
  <2> HIDE DEF fact
  <2>3. \A k \in DOMAIN m : m[k].source \in 0 .. n - 1 /\ m[k].value = g[m[k].source + 1].value
    BY <2>2 DEF C!Put, Noted
  <2> HIDE DEF m
  <2>4. Sourced([c EXCEPT !.memory = m], n, g) /\ Noted([c EXCEPT !.memory = m], n, g)
    BY <2>3 DEF Ledger, Sourced, Noted
  <2>5. QED
    BY <2>1, <2>4 DEF Ledger
<1>3. QED
  BY <1>1, <1>2

(* The trajectory has the steps that acted on the world. *)
LEMMA TraceGrows ==
  ASSUME NEW c, DOMAIN c = Ledger, step \in Nat, NEW h, Traced(c, step, h), NEW stage \in WorldPhases,
         h[step + 1].phase = stage
  PROVE  LET k == C!RecordStep(c, stage)
         IN /\ DOMAIN k = Ledger /\ Traced(k, step + 1, h)
            /\ k.knowledge = c.knowledge /\ k.skills = c.skills
            /\ k.sources = c.sources /\ k.memory = c.memory
<1> DEFINE t == c.trajectory
           e == [step |-> step, phase |-> stage]
           World(n) == {s \in 0 .. n - 1 : h[s + 1].phase # C!None}
<1>1. /\ t \in Seq(Entries) /\ Climbs(t)
      /\ C!StepsOf(t) = World(step)
  BY DEF Traced
<1>2. CASE stage = C!None
  <2>1. World(step + 1) = World(step)
    BY <1>2
  <2>2. Traced(c, step + 1, h)
    BY <1>1, <2>1 DEF Traced
  <2>3. QED
    BY <1>2, <2>2 DEF C!RecordStep
<1>3. CASE stage # C!None
  <2> DEFINE u == Append(t, e)
  <2>1. e \in Entries /\ e.step = step
    BY <1>3 DEF WorldPhases, Entries
  <2>2. /\ u \in Seq(Entries) /\ Len(u) = Len(t) + 1 /\ u[Len(t) + 1] = e /\ Len(t) \in Nat
        /\ \A i \in 1 .. Len(t) : u[i] = t[i]
    BY <1>1, <2>1
  <2>3. C!RecordStep(c, stage) = [c EXCEPT !.trajectory = u]
    BY <1>3 DEF C!RecordStep
  <2>4. DOMAIN t = 1 .. Len(t) /\ DOMAIN u = 1 .. Len(t) + 1
    BY <1>1, <2>2
  <2> HIDE DEF u, e
  <2>5. C!StepsOf(u) = C!StepsOf(t) \cup {step}
    BY <2>1, <2>2, <2>4 DEF C!StepsOf
  <2>6. World(step + 1) = World(step) \cup {step}
    BY <1>3
  <2>7. \A i \in 1 .. Len(t) : t[i].step \in Nat /\ t[i].step < step
    <3>1. \A i \in 1 .. Len(t) : t[i].step \in C!StepsOf(t)
      BY <2>4 DEF C!StepsOf
    <3>2. QED
      BY <1>1, <3>1
  <2>8. Climbs(u)
    <3>1. \A i, j \in 1 .. Len(t) : i < j => t[i].step < t[j].step
      BY <1>1 DEF Climbs
    <3> HIDE DEF t
    <3>2. QED
      BY <2>1, <2>2, <2>7, <3>1 DEF Climbs
  <2>9. Traced([c EXCEPT !.trajectory = u], step + 1, h)
    <3>1. [c EXCEPT !.trajectory = u].trajectory = u
      BY DEF Ledger
    <3>2. QED
      BY <1>1, <2>2, <2>5, <2>6, <2>8, <3>1 DEF Traced
  <2>10. QED
    BY <2>3, <2>9 DEF Ledger
<1>4. QED
  BY <1>2, <1>3

LEMMA Concluded ==
  ASSUME RunTyped, CheckpointHolds, step < ContextSteps, NEW c, Remembers(c, step, history),
         NEW stage \in WorldPhases, NEW p, p.step = step, C!Conclude(c, stage, p)
  PROVE  /\ step' = step + 1 /\ pc' = "build"
         /\ history' \in Seq([phase : WorldPhases, value : Nat]) /\ Len(history') = step'
         /\ Remembers(context, step, history)' /\ CheckpointHolds' /\ previous'.step = step' - 1
<1> DEFINE g == Append(history, [phase |-> stage, value |-> losses])
           kept == C!RecordSource(c, losses)
<1>1. step \in Nat /\ losses \in Nat /\ Len(history) = step
  BY ContextAssumption DEF RunTyped
<1>2. /\ g \in Seq([phase : WorldPhases, value : Nat]) /\ Len(g) = step + 1
      /\ g[step + 1] = [phase |-> stage, value |-> losses] /\ \A i \in 1 .. step : g[i] = history[i]
  BY <1>1 DEF RunTyped
<1>3. /\ previous' = p /\ history' = g /\ step' = step + 1 /\ pc' = "build"
      /\ previous'.step = step' - 1
  BY <1>1 DEF C!Conclude
<1> HIDE DEF g
<1>4. g[step + 1].phase = stage /\ g[step + 1].value = losses
  BY <1>2
<1>5. Remembers(c, step, g)
  BY <1>1, <1>2, StillRemembers
<1>6. /\ DOMAIN kept = Ledger /\ Sourced(kept, step + 1, g)
      /\ kept.trajectory = c.trajectory /\ kept.knowledge = c.knowledge /\ kept.skills = c.skills
      /\ kept.memory = c.memory
  BY <1>1, <1>4, <1>5, SourcesStay
<1>7. Noted(kept, step + 1, g)
  BY <1>1, <1>5, <1>6 DEF Remembers, Noted
<1> HIDE DEF kept
<1>8. PICK noted : /\ DOMAIN noted = Ledger /\ Sourced(noted, step + 1, g) /\ Noted(noted, step + 1, g)
                   /\ noted.trajectory = c.trajectory /\ noted.knowledge = c.knowledge
                   /\ noted.skills = c.skills
                   /\ context' = C!RecordStep(noted, stage)
                   /\ C!SaveCheckpoint(C!RecordStep(noted, stage), p)
  <2>1. PICK wish \in {<<>>} \cup (Keys \X (0 .. step)) :
          LET noted == IF wish = <<>> THEN kept ELSE C!ApplyUpdate(kept, C!KeyOf(wish[1], wish[2]), wish[2])
              whole == C!RecordStep(noted, stage)
          IN context' = whole /\ C!SaveCheckpoint(whole, p)
    BY DEF C!Conclude, kept
  <2>2. CASE wish = <<>>
    BY <1>6, <1>7, <2>1, <2>2
  <2>3. CASE wish # <<>>
    BY <1>6, <1>7, <2>1, <2>3, FactsAreNoted
  <2>4. QED
    BY <2>2, <2>3
<1> DEFINE whole == C!RecordStep(noted, stage)
<1>9. Traced(noted, step, g)
  BY <1>5, <1>8 DEF Remembers, Traced
<1>10. /\ DOMAIN whole = Ledger /\ Traced(whole, step + 1, g)
       /\ whole.knowledge = noted.knowledge /\ whole.skills = noted.skills
       /\ whole.sources = noted.sources /\ whole.memory = noted.memory
  BY <1>1, <1>4, <1>8, <1>9, TraceGrows
<1> HIDE DEF whole
<1>11. Remembers(whole, step + 1, g)
  <2>1. Sourced(whole, step + 1, g)
    BY <1>8, <1>10 DEF Sourced
  <2>2. Noted(whole, step + 1, g)
    BY <1>8, <1>10 DEF Noted
  <2>3. Learnt(whole) /\ DOMAIN whole.skills \subseteq Skills
    BY <1>5, <1>8, <1>10 DEF Remembers, Learnt
  <2>4. QED
    BY <1>10, <2>1, <2>2, <2>3 DEF Remembers
<1>12. Remembers(context, step, history)'
  BY <1>3, <1>8, <1>11 DEF whole, Remembers, Traced, Sourced, Noted, Learnt
<1>13. CheckpointHolds'
  <2>1. CASE UNCHANGED checkpoint
    <3>1. checkpoint.step \in 0 .. step /\ Remembers(checkpoint.context, checkpoint.step, history)
      BY DEF CheckpointHolds
    <3>2. Remembers(checkpoint.context, checkpoint.step, g)
      BY <1>1, <1>2, <3>1, StillRemembers
    <3>3. Remembers(checkpoint.context, checkpoint.step, history)'
      BY <1>3, <2>1, <3>2 DEF Remembers, Traced, Sourced, Noted, Learnt
    <3>4. QED
      BY <1>1, <1>3, <2>1, <3>3 DEF CheckpointHolds
  <2>2. CASE checkpoint' = [step |-> step + 1, context |-> whole, previous |-> p]
    <3>1. Remembers(checkpoint.context, checkpoint.step, history)'
      BY <1>3, <1>11, <2>2 DEF Remembers, Traced, Sourced, Noted, Learnt
    <3>2. /\ DOMAIN checkpoint' = {"step", "context", "previous"}
          /\ checkpoint'.step = step + 1 /\ checkpoint'.previous = p
      BY <2>2
    <3>3. step + 1 \in 0 .. step' /\ p.step = (step + 1) - 1
      BY <1>1, <1>3
    <3>4. QED
      BY <3>1, <3>2, <3>3 DEF CheckpointHolds
  <2>3. QED
    BY <1>8, <2>1, <2>2 DEF C!SaveCheckpoint, whole
<1>14. QED
  BY <1>2, <1>3, <1>12, <1>13

(* The prompt. *)

(* What is visible is what came before the previous step. *)
LEMMA VisibleIsBefore ==
  ASSUME step \in Nat, previous.step = step - 1,
         NEW t, t \in Seq(Entries), Climbs(t), C!StepsOf(t) \subseteq 0 .. step - 1
  PROVE  /\ C!Visible(t) \in Seq(Entries) /\ Climbs(C!Visible(t))
         /\ C!StepsOf(C!Visible(t)) = C!StepsOf(t) \ {step - 1}
<1> DEFINE n == Len(t)
<1>1. /\ n \in Nat /\ DOMAIN t = 1 .. n /\ \A i \in 1 .. n : t[i].step \in 0 .. step - 1
      /\ \A i, j \in 1 .. n : i < j => t[i].step < t[j].step
  BY DEF C!StepsOf, Climbs
<1>2. CASE t = <<>>
  <2>1. C!StepsOf(t) = {} /\ C!Visible(t) = t
    BY <1>2 DEF C!StepsOf, C!Visible
  <2>2. QED
    BY <2>1
<1>3. CASE t # <<>>
  <2>1. n > 0 /\ step > 0 /\ C!Last(t) = t[n]
    BY <1>1, <1>3 DEF C!Last
  <2>2. previous.step # C!NoStep
    BY <2>1 DEF C!NoStep
  <2>3. CASE t[n].step = step - 1
    <3> DEFINE v == SubSeq(t, 1, n - 1)
    <3>1. C!Visible(t) = v
      BY <1>3, <2>1, <2>3 DEF C!Visible, C!Front
    <3>2. v \in Seq(Entries) /\ Len(v) = n - 1 /\ \A i \in 1 .. n - 1 : v[i] = t[i]
      BY <1>1, <2>1
    <3>3. DOMAIN v = 1 .. n - 1
      BY <3>2
    <3> HIDE DEF v
    <3>4. Climbs(v)
      BY <1>1, <3>2 DEF Climbs
    <3>5. C!StepsOf(v) = C!StepsOf(t) \ {step - 1}
      <4>1. C!StepsOf(v) = {t[i].step : i \in 1 .. n - 1}
        BY <3>2, <3>3 DEF C!StepsOf
      <4>2. C!StepsOf(t) = {t[i].step : i \in 1 .. n - 1} \cup {step - 1}
        <5>1. 1 .. n = (1 .. n - 1) \cup {n}
          BY <1>1, <2>1
        <5> HIDE DEF n
        <5>2. C!StepsOf(t) = {t[i].step : i \in 1 .. n}
          BY <1>1 DEF C!StepsOf
        <5>3. QED
          BY <2>3, <5>1, <5>2
      <4>3. \A i \in 1 .. n - 1 : t[i].step # step - 1
        BY <1>1, <2>1, <2>3
      <4>4. QED
        BY <4>1, <4>2, <4>3
    <3>6. QED
      BY <3>1, <3>2, <3>4, <3>5
  <2>4. CASE t[n].step # step - 1
    <3>1. C!Visible(t) = t
      BY <2>1, <2>2, <2>4 DEF C!Visible
    <3>2. \A i \in 1 .. n : t[i].step # step - 1
      <4> HIDE DEF n
      <4>1. \A i \in 1 .. n : i # n => t[i].step < t[n].step
        BY <1>1, <2>1
      <4>2. t[n].step \in 0 .. step - 1
        BY <1>1, <2>1
      <4>3. QED
        BY <1>1, <2>4, <4>1, <4>2
    <3>3. C!StepsOf(t) = C!StepsOf(t) \ {step - 1}
      BY <1>1, <3>2 DEF C!StepsOf
    <3>4. QED
      BY <3>1, <3>3
  <2>5. QED
    BY <2>3, <2>4
<1>4. QED
  BY <1>2, <1>3

LEMMA PayloadShows ==
  ASSUME NEW v \in Seq(Entries), Climbs(v),
         NEW p, p \in {C!Hierarchical(v), C!Aggressive(v), C!Episode(v)}
  PROVE  /\ p.recent \cup p.merged \subseteq C!StepsOf(v)
         /\ p.recent \cap p.merged \subseteq (IF p.mode = "episode" THEN p.recent ELSE {})
         /\ C!StepsOf(v) \subseteq p.recent \cup p.merged
              \cup (IF p.mode = "aggressive" /\ RecentCount > 1 /\ Len(v) > 1
                    THEN C!StepsOf(C!Recent(v)) ELSE {})
<1> DEFINE n == Len(v)
           r == IF n < RecentCount THEN n ELSE RecentCount
           Steps(a, b) == {v[i].step : i \in a .. b}
<1>1. n \in Nat /\ r \in 0 .. n /\ (n > 0 => r > 0) /\ DOMAIN v = 1 .. n
  BY ContextAssumption
<1>2. RecentCount \in Nat /\ (RecentCount > 1 \/ RecentCount = 1)
  BY ContextAssumption
<1>3. ASSUME NEW a \in 1 .. n + 1, NEW b \in 0 .. n, a <= b + 1
      PROVE  C!StepsOf(SubSeq(v, a, b)) = Steps(a, b) /\ Len(SubSeq(v, a, b)) = b - a + 1
  <2> DEFINE s == SubSeq(v, a, b)
  <2>1. Len(s) = b - a + 1 /\ DOMAIN s = 1 .. b - a + 1
        /\ \A i \in 1 .. b - a + 1 : s[i] = v[a + i - 1]
    BY <1>1, <1>3
  <2> HIDE DEF s
  <2>2. \A i \in 1 .. b - a + 1 : s[i].step \in Steps(a, b)
    BY <1>1, <2>1
  <2>3. ASSUME NEW i \in a .. b PROVE v[i].step \in C!StepsOf(s)
    <3>1. i - a + 1 \in DOMAIN s /\ s[i - a + 1] = v[i]
      BY <1>1, <2>1
    <3>2. QED
      BY <3>1 DEF C!StepsOf
  <2>4. C!StepsOf(s) = Steps(a, b)
    BY <2>1, <2>2, <2>3 DEF C!StepsOf
  <2>5. QED
    BY <2>1, <2>4 DEF s
<1>4. /\ C!Recent(v) = SubSeq(v, n - r + 1, n) /\ Len(C!Recent(v)) = r
      /\ C!StepsOf(C!Recent(v)) = Steps(n - r + 1, n)
  <2>1. C!Recent(v) = SubSeq(v, n - r + 1, n)
    BY DEF C!Recent, C!LastOf
  <2>2. n - r + 1 \in 1 .. n + 1 /\ n \in 0 .. n /\ n - r + 1 <= n + 1 /\ n - (n - r + 1) + 1 = r
    BY <1>1
  <2> HIDE DEF r, n
  <2>3. QED
    BY <1>3, <2>1, <2>2
<1>5. C!StepsOf(C!Older(v)) = Steps(1, n - r)
  <2>1. C!Older(v) = SubSeq(v, 1, n - r)
    BY <1>4 DEF C!Older
  <2>2. 1 \in 1 .. n + 1 /\ n - r \in 0 .. n /\ 1 <= n - r + 1
    BY <1>1
  <2> HIDE DEF r, n
  <2>3. QED
    BY <1>3, <2>1, <2>2
<1>6. \/ n > 0 /\ C!StepsOf(C!Latest(v)) = Steps(n, n)
      \/ n = 0 /\ C!StepsOf(C!Latest(v)) = {}
  <2>1. CASE v = <<>>
    BY <2>1 DEF C!Latest, C!StepsOf
  <2>2. CASE v # <<>>
    <3>1. n > 0 /\ C!Latest(v) = <<v[n]>>
      BY <1>1, <2>2 DEF C!Latest, C!Last
    <3>2. QED
      BY <1>1, <3>1 DEF C!StepsOf
  <2>3. QED
    BY <2>1, <2>2
<1>7. C!StepsOf(v) = Steps(1, n)
  BY <1>1 DEF C!StepsOf
<1>8. \A i, j \in 1 .. n : i < j => v[i].step # v[j].step
  <2>1. \A i \in 1 .. n : v[i] \in Entries
    BY <1>1, ElementOfSeq
  <2>2. \A i \in 1 .. n : v[i].step \in Nat
    BY <2>1 DEF Entries
  <2>3. QED
    BY <2>2 DEF Climbs
<1>9. CASE p = C!Hierarchical(v)
  <2>1. p.mode = "hierarchical" /\ p.recent = Steps(n - r + 1, n) /\ p.merged = Steps(1, n - r)
    BY <1>4, <1>5, <1>9 DEF C!Hierarchical, C!Part
  <2> HIDE DEF r, n
  <2>2. p.recent \cap p.merged = {}
    BY <1>1, <1>8, <2>1
  <2>3. p.recent \cup p.merged = Steps(1, n)
    BY <1>1, <2>1
  <2>4. QED
    BY <1>7, <2>1, <2>2, <2>3
<1>10. CASE p = C!Aggressive(v)
  <2>1. p.mode = "aggressive" /\ p.recent = C!StepsOf(C!Latest(v)) /\ p.merged = Steps(1, n - r)
    BY <1>5, <1>10 DEF C!Aggressive, C!Part
  <2>3. r <= 1 \/ (RecentCount > 1 /\ n > 1)
    <3> HIDE DEF n
    <3>1. QED
      BY <1>1, <1>2
  <2> HIDE DEF r, n
  <2>4. p.recent \subseteq Steps(1, n) /\ p.merged \subseteq Steps(1, n)
    BY <1>1, <1>6, <2>1
  <2>5. p.recent \cap p.merged = {}
    BY <1>1, <1>6, <1>8, <2>1
  <2>6. CASE RecentCount > 1 /\ n > 1
    <3>1. Steps(1, n) \subseteq Steps(1, n - r) \cup Steps(n - r + 1, n)
      BY <1>1
    <3>2. QED
      BY <1>4, <1>7, <2>1, <2>4, <2>5, <2>6, <3>1 DEF n
  <2>7. CASE r <= 1
    <3>1. Steps(1, n) \subseteq p.recent \cup p.merged
      <4>1. n = 0 \/ r = 1
        BY <1>1, <2>7
      <4>2. CASE n = 0
        BY <4>2
      <4>3. CASE n # 0 /\ r = 1
        BY <1>1, <1>6, <2>1, <4>3
      <4>4. QED
        BY <4>1, <4>2, <4>3
    <3>2. QED
      BY <1>7, <2>1, <2>4, <2>5, <3>1
  <2>8. QED
    BY <2>3, <2>6, <2>7
<1>11. CASE p = C!Episode(v)
  <2>1. p.mode = "episode" /\ p.recent = C!StepsOf(C!Latest(v)) /\ p.merged = C!StepsOf(v)
    BY <1>11 DEF C!Episode, C!Part
  <2>2. p.recent \subseteq C!StepsOf(v)
    BY <1>1, <1>6, <1>7, <2>1
  <2>3. QED
    BY <2>1, <2>2
<1>12. QED
  BY <1>9, <1>10, <1>11

(* Of the skills that a search found, those ranked first are shown. *)
LEMMA InjectionsFill ==
  ASSUME NEW ranked \in Seq(Skills), NEW visible
  PROVE  LET injected == C!SelectInjections(ranked, visible)
         IN /\ injected \subseteq Skills /\ visible \cap injected = {}
            /\ \A i \in DOMAIN ranked : i <= MaxSkills => ranked[i] \in visible \cup injected
<1> DEFINE others(i) == {ranked[j] : j \in 1 .. i - 1} \ visible
<1>1. C!SelectInjections(ranked, visible)
        = {ranked[i] : i \in {k \in DOMAIN ranked : ranked[k] \notin visible
                                                   /\ Cardinality(others(k)) < MaxSkills}}
  BY CardinalityIs DEF C!SelectInjections
<1>2. DOMAIN ranked = 1 .. Len(ranked) /\ Len(ranked) \in Nat
  OBVIOUS
<1>3. ASSUME NEW i \in DOMAIN ranked, i <= MaxSkills
      PROVE  Cardinality(others(i)) < MaxSkills
  <2> DEFINE T == {ranked[j] : j \in 1 .. i - 1}
             f == [j \in 1 .. i - 1 |-> ranked[j]]
  <2>1. i \in Nat /\ i - 1 \in Nat /\ MaxSkills \in Nat
    BY <1>2, ContextAssumption
  <2>2. f \in Surjection(1 .. i - 1, T)
    BY DEF Surjection
  <2>3. IsFiniteSet(1 .. i - 1) /\ Cardinality(1 .. i - 1) = i - 1
    BY <2>1, FS_Interval
  <2> HIDE DEF f, T
  <2>4. IsFiniteSet(T) /\ Cardinality(T) <= i - 1 /\ Cardinality(T) \in Nat
    BY <2>2, <2>3, FS_Surjection, FS_CardinalityType
  <2>5. others(i) \in SUBSET T
    BY DEF T
  <2> HIDE DEF others
  <2>6. Cardinality(others(i)) <= Cardinality(T) /\ Cardinality(others(i)) \in Nat
    BY <2>4, <2>5, FS_Subset, FS_CardinalityType
  <2>7. QED
    BY <1>3, <2>1, <2>4, <2>6
<1> HIDE DEF others
<1>4. \A i \in DOMAIN ranked : ranked[i] \in Skills
  OBVIOUS
<1>5. QED
  BY <1>1, <1>3, <1>4

(* The steps. *)

LEMMA InitContext == C!Init => ContextInv
<1> SUFFICES ASSUME C!Init PROVE ContextInv
  OBVIOUS
<1>1. Remembers(C!NoContext, 0, <<>>)
  <2>1. Cardinality({}) = 0 /\ MaxSources \in Nat
    BY FS_EmptySet, ContextAssumption
  <2>2. C!StepsOf(<<>>) = {}
    BY DEF C!StepsOf
  <2>3. C!NoContext.trajectory = <<>> /\ DOMAIN C!NoContext.sources = {} /\ DOMAIN C!NoContext.memory = {}
        /\ DOMAIN C!NoContext.skills = {} /\ C!NoContext.knowledge = {} /\ DOMAIN C!NoContext = Ledger
    BY DEF C!NoContext, Ledger
  <2> HIDE DEF C!NoContext
  <2>4. QED
    BY <2>1, <2>2, <2>3 DEF Remembers, Traced, Sourced, Noted, Learnt, Climbs
<1>2. RunTyped /\ CorpusTyped /\ AskedOfCorpus
  BY ContextAssumption DEF C!Init, RunTyped, CorpusTyped, AskedOfCorpus, C!CacheIsCurrent, C!NoLookup
<1>3. CheckpointHolds
  BY <1>1 DEF C!Init, CheckpointHolds, C!NoPrevious, C!NoStep
<1>4. previous.step = step - 1 /\ Remembers(context, step, history)
  BY <1>1 DEF C!Init, C!NoPrevious, C!NoStep
<1>5. C!EvidenceReachesModel /\ C!ShownOnce
  BY DEF C!Init, C!EvidenceReachesModel, C!ShownOnce
<1>6. QED
  BY <1>2, <1>3, <1>4, <1>5 DEF ContextInv

(* The prompt is built: what it says of the past and which skills it shows.*)
LEMMA BuildShows == ASSUME ContextInv, C!Build PROVE (C!EvidenceReachesModel /\ C!ShownOnce)'
<1> DEFINE t == context.trajectory
           v == C!Visible(t)
           shown == C!ContextPayload
           p == shown.trajectory
<1>1. PICK ranked \in Rankings :
        /\ prompt' = [mode |-> p.mode, previous |-> previous.step, recent |-> p.recent,
                      merged |-> p.merged, visible |-> v, knowledge |-> shown.knowledge,
                      skills |-> shown.skills,
                      injected |-> C!SelectInjections(ranked, shown.skills), ranked |-> ranked]
        /\ context' = [context EXCEPT !.skills = C!Injected(C!SelectInjections(ranked, shown.skills))]
  BY DEF C!Build
<1>2. step \in Nat /\ step' = step /\ history' = history /\ previous.step = step - 1 /\ pc' = "choose"
  BY ContextAssumption DEF C!Build, ContextInv, RunTyped
<1>3. /\ t \in Seq(Entries) /\ Climbs(t)
      /\ C!StepsOf(t) = {s \in 0 .. step - 1 : history[s + 1].phase # C!None}
  BY DEF ContextInv, Remembers, Traced
<1>4. v \in Seq(Entries) /\ Climbs(v) /\ C!StepsOf(v) = C!StepsOf(t) \ {step - 1}
  <2> HIDE DEF t
  <2>1. C!StepsOf(t) \subseteq 0 .. step - 1
    BY <1>3
  <2>2. QED
    BY <1>2, <1>3, <2>1, VisibleIsBefore
<1>5. p \in {C!Hierarchical(v), C!Aggressive(v), C!Episode(v)}
  BY DEF C!ContextPayload, C!TrajectoryPayload
<1> HIDE DEF v, p
<1>6. /\ p.recent \cup p.merged \subseteq C!StepsOf(v)
      /\ p.recent \cap p.merged \subseteq (IF p.mode = "episode" THEN p.recent ELSE {})
      /\ C!StepsOf(v) \subseteq p.recent \cup p.merged
           \cup (IF p.mode = "aggressive" /\ RecentCount > 1 /\ Len(v) > 1
                 THEN C!StepsOf(C!Recent(v)) ELSE {})
  BY <1>4, <1>5, PayloadShows
<1>7. C!EvidenceReachesModel'
  <2>1. C!WorldSteps' = C!StepsOf(t)
    BY <1>2, <1>3 DEF C!WorldSteps
  <2>2. C!Shown' = p.recent \cup p.merged \cup {step - 1}
    BY <1>1, <1>2 DEF C!Shown
  <2>3. C!Lost' = IF p.mode = "aggressive" /\ RecentCount > 1 /\ Len(v) > 1
                  THEN C!StepsOf(C!Recent(v)) ELSE {}
    BY <1>1 DEF C!Lost, C!StepsOf, C!Recent, C!LastOf
  <2>4. C!WorldSteps' \subseteq C!Shown' \cup C!Lost'
    BY <1>4, <1>6, <2>1, <2>2, <2>3
  <2>5. QED
    BY <2>4 DEF C!EvidenceReachesModel
<1>8. \A a, b \in shown.knowledge : a[2] = b[2] => a = b
  <2>1. shown.knowledge \subseteq {e.id : e \in C!KnowledgeEntries}
    BY DEF C!ContextPayload, C!KnowledgePayload, C!Project
  <2>2. \A e, f \in context.knowledge : e.query = f.query => e = f
    BY DEF ContextInv, Remembers, Learnt
  <2>3. \A a \in {e.id : e \in C!KnowledgeEntries} :
          \E e \in context.knowledge : a = <<e.last, e.query, e.revision>>
    BY DEF C!KnowledgeEntries
  <2> HIDE DEF shown
  <2>4. QED
    BY <2>1, <2>2, <2>3
<1>9. ranked \in Seq(Skills)
  BY ContextAssumption
<1> HIDE DEF shown
<1>10. /\ shown.skills \cap C!SelectInjections(ranked, shown.skills) = {}
       /\ \A i \in DOMAIN ranked : i <= MaxSkills =>
            ranked[i] \in shown.skills \cup C!SelectInjections(ranked, shown.skills)
  BY <1>9, InjectionsFill
<1>11. C!ShownOnce'
  <2>1. p.recent \cap p.merged \subseteq (IF p.mode = "episode" THEN p.recent ELSE {})
        /\ step - 1 \notin p.recent \cup p.merged
    BY <1>4, <1>6
  <2>2. QED
    BY <1>1, <1>2, <1>8, <1>10, <2>1 DEF C!ShownOnce
<1>12. QED
  BY <1>7, <1>11

LEMMA BuildKeeps == ASSUME ContextInv, C!Build PROVE ContextInv'
<1> DEFINE shown == C!ContextPayload
<1>1. PICK ranked \in Rankings :
        context' = [context EXCEPT !.skills = C!Injected(C!SelectInjections(ranked, shown.skills))]
  BY DEF C!Build
<1>2. /\ UNCHANGED <<step, previous, lookup, checkpoint, corpus, losses, history>>
      /\ pc' = "choose" /\ step < ContextSteps
  BY ContextAssumption DEF C!Build, ContextInv, RunTyped
<1> DEFINE injected == C!SelectInjections(ranked, shown.skills)
           skills == C!Injected(injected)
<1>3. injected \subseteq Skills
  <2> HIDE DEF shown
  <2>1. ranked \in Seq(Skills)
    BY ContextAssumption
  <2>2. QED
    BY <2>1, InjectionsFill
<1> HIDE DEF injected, shown
<1>4. Remembers(context, step, history)
  BY DEF ContextInv
<1>5. DOMAIN skills \subseteq Skills
  BY <1>3, <1>4 DEF C!Injected, Remembers
<1> HIDE DEF skills
<1>6. /\ DOMAIN context' = Ledger /\ context'.skills = skills
      /\ context'.trajectory = context.trajectory /\ context'.knowledge = context.knowledge
      /\ context'.memory = context.memory /\ context'.sources = context.sources
  BY <1>1, <1>4 DEF Remembers, Ledger, injected, skills
<1>7. Remembers(context, step, history)'
  BY <1>2, <1>4, <1>5, <1>6 DEF Remembers, Traced, Sourced, Noted, Learnt
<1>8. RunTyped' /\ CorpusTyped' /\ AskedOfCorpus' /\ previous'.step = step' - 1
  BY <1>2 DEF ContextInv, RunTyped, CorpusTyped, AskedOfCorpus, C!CacheIsCurrent
<1>9. CheckpointHolds'
  BY <1>2 DEF ContextInv, CheckpointHolds, Remembers, Traced, Sourced, Noted, Learnt
<1>10. QED
  BY <1>7, <1>8, <1>9, BuildShows DEF ContextInv

LEMMA ActKeeps == ASSUME ContextInv, C!Act PROVE ContextInv'
<1>1. /\ RunTyped /\ CheckpointHolds /\ step < ContextSteps /\ Remembers(context, step, history)
      /\ UNCHANGED <<prompt, lookup, corpus, losses>>
  BY DEF ContextInv, RunTyped, C!Act
<1>2. PICK stage \in Phases :
        C!Conclude(context, stage, [step |-> step, query |-> C!None, revision |-> <<>>])
  BY DEF C!Act
<1> DEFINE p == [step |-> step, query |-> C!None, revision |-> <<>>]
<1>3. p.step = step /\ stage \in WorldPhases
  BY DEF WorldPhases
<1> HIDE DEF p
<1>4. /\ step' = step + 1 /\ pc' = "build"
      /\ history' \in Seq([phase : WorldPhases, value : Nat]) /\ Len(history') = step'
      /\ Remembers(context, step, history)' /\ CheckpointHolds' /\ previous'.step = step' - 1
  BY <1>1, <1>2, <1>3, Concluded DEF p
<1>5. RunTyped'
  BY <1>1, <1>4, ContextAssumption DEF RunTyped
<1>6. CorpusTyped' /\ AskedOfCorpus'
  BY <1>1, <1>4 DEF ContextInv, CorpusTyped, AskedOfCorpus, C!CacheIsCurrent
<1>7. QED
  BY <1>4, <1>5, <1>6 DEF ContextInv, C!EvidenceReachesModel, C!ShownOnce

(* A prompt is judged by the steps before it alone. *)
LEMMA PromptStays ==
  ASSUME C!EvidenceReachesModel, C!ShownOnce, UNCHANGED <<prompt, step, history>>,
         pc' \in {"choose", "lookup"} => pc \in {"choose", "lookup"}
  PROVE  C!EvidenceReachesModel' /\ C!ShownOnce'
<1>1. C!WorldSteps' = C!WorldSteps
  BY DEF C!WorldSteps
<1>2. C!Shown' = C!Shown
  BY DEF C!Shown
<1>3. C!Lost' = C!Lost
  BY Zenon DEF C!Lost, C!StepsOf, C!Recent, C!LastOf
<1>4. C!EvidenceReachesModel'
  BY <1>1, <1>2, <1>3 DEF C!EvidenceReachesModel
<1>5. C!ShownOnce'
  BY DEF C!ShownOnce
<1>6. QED
  BY <1>4, <1>5

LEMMA FirstOnes ==
  ASSUME NEW V, NEW s \in Seq(V), NEW n \in 0 .. Len(s)
  PROVE  /\ SubSeq(s, 1, n) \in Seq(V) /\ Len(SubSeq(s, 1, n)) = n
         /\ \A i \in 1 .. n : SubSeq(s, 1, n)[i] = s[i]
  OBVIOUS

LEMMA AskKeeps == ASSUME ContextInv, C!Ask PROVE ContextInv'
<1>1. /\ UNCHANGED <<step, context, previous, prompt, checkpoint, corpus, losses, history>>
      /\ pc = "choose" /\ pc' = "lookup"
  BY DEF C!Ask
<1>2. PICK q \in Queries : lookup' = [query |-> q, revision |-> C!Revision, asked |-> corpus.content,
                                     served |-> C!Unserved]
  BY DEF C!Ask
<1>3. RunTyped' /\ CorpusTyped'
  BY <1>1 DEF ContextInv, RunTyped, CorpusTyped
<1>4. AskedOfCorpus'
  <2>1. /\ lookup'.asked = corpus.content /\ lookup'.served = C!Unserved
        /\ lookup'.revision = <<corpus.versions, corpus.stamp>>
    BY <1>2 DEF C!Revision
  <2>2. corpus.content \in Nat /\ corpus.stamp = corpus.content
    BY ContextAssumption DEF ContextInv, CorpusTyped
  <2>3. lookup'.revision[2] = corpus.stamp
    BY <2>1
  <2>4. QED
    BY <1>1, <2>1, <2>2, <2>3 DEF AskedOfCorpus, C!CacheIsCurrent
<1>5. CheckpointHolds' /\ Remembers(context, step, history)' /\ previous'.step = step' - 1
  BY <1>1 DEF ContextInv, CheckpointHolds, Remembers, Traced, Sourced, Noted, Learnt
<1>6. C!EvidenceReachesModel' /\ C!ShownOnce'
  BY <1>1, PromptStays DEF ContextInv
<1>7. QED
  BY <1>3, <1>4, <1>5, <1>6 DEF ContextInv

(* An answer is as new as the question, from the ledger too: a revision *)
(* names the number of changes there were. *)
LEMMA AnswerKeeps == ASSUME ContextInv, C!Answer PROVE ContextInv'
<1> DEFINE hits == C!Cached(lookup)
           content == IF hits = {} THEN C!Dispatch(lookup.query) ELSE (CHOOSE e \in hits : TRUE).content
           c == C!RecordKnowledge(context, lookup, content)
           p == [step |-> step, query |-> lookup.query, revision |-> lookup.revision]
<1>1. /\ pc = "lookup" /\ lookup' = [lookup EXCEPT !.served = content]
      /\ C!Conclude(c, C!None, p) /\ UNCHANGED <<prompt, corpus, losses>>
  BY DEF C!Answer
<1>2. /\ RunTyped /\ CheckpointHolds /\ step < ContextSteps /\ Remembers(context, step, history)
      /\ step \in Nat
  BY <1>1, ContextAssumption DEF ContextInv, RunTyped
<1>3. lookup.asked \in Nat /\ lookup.asked <= corpus.content /\ lookup.revision[2] = lookup.asked
  BY <1>1 DEF ContextInv, AskedOfCorpus
<1>4. content \in Nat /\ content >= lookup.asked
  <2>1. CASE hits = {}
    <3>1. content = corpus.content
      BY <2>1 DEF C!Dispatch
    <3>2. corpus.content \in Nat
      BY ContextAssumption DEF ContextInv, CorpusTyped
    <3>3. QED
      BY <1>3, <3>1, <3>2
  <2>2. CASE hits # {}
    <3> DEFINE e == CHOOSE e \in hits : TRUE
    <3>1. e \in hits
      BY <2>2
    <3>2. content = e.content
      BY <2>2
    <3> HIDE DEF e
    <3>3. e \in context.knowledge /\ e.revision = lookup.revision
      BY <3>1 DEF C!Cached
    <3>4. e.content \in Nat /\ e.content >= e.revision[2]
      BY <1>2, <3>3 DEF Remembers, Learnt
    <3>5. QED
      BY <1>3, <3>2, <3>3, <3>4
  <2>3. QED
    BY <2>1, <2>2
<1> HIDE DEF content, hits
<1> DEFINE e == [query |-> lookup.query, revision |-> lookup.revision, content |-> content, last |-> step]
           others == {f \in context.knowledge : f.query # lookup.query}
<1>5. c = [context EXCEPT !.knowledge = others \cup {e}]
  BY DEF C!RecordKnowledge
<1>6. e.query = lookup.query /\ e.content \in Nat /\ e.content >= e.revision[2]
  BY <1>3, <1>4
<1> HIDE DEF c, e
<1>7. Learnt([context EXCEPT !.knowledge = others \cup {e}])
  <2>1. [context EXCEPT !.knowledge = others \cup {e}].knowledge = others \cup {e}
    BY <1>2 DEF Remembers, Ledger
  <2>2. \A f \in others \cup {e} : f.content \in Nat /\ f.content >= f.revision[2]
    BY <1>2, <1>6 DEF Remembers, Learnt
  <2>3. \A f, g \in others \cup {e} : f.query = g.query => f = g
    BY <1>2, <1>6 DEF Remembers, Learnt
  <2> HIDE DEF others
  <2>4. QED
    BY <2>1, <2>2, <2>3 DEF Learnt
<1>8. Remembers(c, step, history)
  <2>1. /\ DOMAIN c = Ledger /\ c.trajectory = context.trajectory /\ c.skills = context.skills
        /\ c.memory = context.memory /\ c.sources = context.sources
    BY <1>2, <1>5 DEF Remembers, Ledger
  <2>2. QED
    BY <1>2, <1>5, <1>7, <2>1 DEF Remembers, Traced, Sourced, Noted
<1>9. p.step = step /\ C!None \in WorldPhases
  BY DEF WorldPhases
<1> HIDE DEF p
<1>10. /\ step' = step + 1 /\ pc' = "build"
       /\ history' \in Seq([phase : WorldPhases, value : Nat]) /\ Len(history') = step'
       /\ Remembers(context, step, history)' /\ CheckpointHolds' /\ previous'.step = step' - 1
  BY <1>1, <1>2, <1>8, <1>9, Concluded
<1>11. RunTyped'
  BY <1>1, <1>2, <1>10, ContextAssumption DEF RunTyped
<1>12. CorpusTyped' /\ AskedOfCorpus'
  <2>1. lookup'.asked = lookup.asked
    BY <1>1
  <2>2. lookup'.served = content \/ lookup'.served = lookup.served
    BY <1>1
  <2>3. C!CacheIsCurrent
    BY DEF ContextInv, AskedOfCorpus
  <2>4. C!CacheIsCurrent'
    BY <1>4, <2>1, <2>2, <2>3 DEF C!CacheIsCurrent
  <2>5. QED
    BY <1>1, <1>10, <2>4 DEF ContextInv, CorpusTyped, AskedOfCorpus
<1>13. QED
  BY <1>10, <1>11, <1>12 DEF ContextInv, C!EvidenceReachesModel, C!ShownOnce

LEMMA CorpusKeeps == ASSUME ContextInv, C!Edit PROVE ContextInv'
<1>1. /\ UNCHANGED <<pc, step, context, previous, prompt, lookup, checkpoint, losses, history>>
      /\ corpus.content < CorpusEdits
  BY DEF C!Edit
<1>2. PICK counted \in {0, 1} :
        corpus' = [versions |-> corpus.versions + counted, stamp |-> corpus.stamp + 1,
                   content |-> corpus.content + 1]
  BY DEF C!Edit
<1>3. CorpusTyped' /\ corpus'.content = corpus.content + 1 /\ corpus.content \in Nat
  BY <1>1, <1>2, ContextAssumption DEF ContextInv, CorpusTyped
<1>4. AskedOfCorpus'
  BY <1>1, <1>3 DEF ContextInv, AskedOfCorpus, C!CacheIsCurrent
<1>5. RunTyped' /\ CheckpointHolds' /\ Remembers(context, step, history)' /\ previous'.step = step' - 1
  BY <1>1 DEF ContextInv, RunTyped, CheckpointHolds, Remembers, Traced, Sourced, Noted, Learnt
<1>6. C!EvidenceReachesModel' /\ C!ShownOnce'
  BY <1>1, PromptStays DEF ContextInv
<1>7. QED
  BY <1>3, <1>4, <1>5, <1>6 DEF ContextInv

LEMMA LossKeeps == ASSUME ContextInv, C!Lose PROVE ContextInv'
<1>1. /\ UNCHANGED <<step, context, previous, prompt, lookup, checkpoint, corpus, history>>
      /\ pc' = "lost" /\ losses < ContextLosses /\ losses' = losses + 1
  BY DEF C!Lose
<1>2. RunTyped'
  BY <1>1, ContextAssumption DEF ContextInv, RunTyped
<1>3. /\ CorpusTyped' /\ AskedOfCorpus' /\ CheckpointHolds' /\ Remembers(context, step, history)'
      /\ previous'.step = step' - 1
  BY <1>1 DEF ContextInv, CorpusTyped, AskedOfCorpus, C!CacheIsCurrent, CheckpointHolds, Remembers,
     Traced, Sourced, Noted, Learnt
<1>4. QED
  BY <1>1, <1>2, <1>3 DEF ContextInv, C!EvidenceReachesModel, C!ShownOnce

(* A resume goes back to the steps that the checkpoint knows. *)
LEMMA ResumeKeeps == ASSUME ContextInv, C!Resume PROVE ContextInv'
<1> DEFINE n == checkpoint.step
           c == checkpoint.context
           g == SubSeq(history, 1, n)
           sources == C!Restrict2(c.sources, C!Newest(MaxSources, DOMAIN c.sources))
<1>1. /\ pc' = "build" /\ step' = n /\ context' = [c EXCEPT !.sources = sources]
      /\ previous' = checkpoint.previous /\ lookup' = C!NoLookup /\ history' = g
      /\ UNCHANGED <<checkpoint, corpus, losses>>
  BY DEF C!Resume, C!Restored
<1>2. /\ n \in 0 .. step /\ step \in Nat /\ step <= ContextSteps /\ Remembers(c, n, history)
      /\ checkpoint.previous.step = n - 1
  BY ContextAssumption DEF ContextInv, RunTyped, CheckpointHolds
<1>3. /\ g \in Seq([phase : WorldPhases, value : Nat]) /\ Len(g) = n
      /\ \A i \in 1 .. n : g[i] = history[i]
  <2>1. history \in Seq([phase : WorldPhases, value : Nat]) /\ Len(history) = step
    BY DEF ContextInv, RunTyped
  <2>2. n \in 0 .. Len(history)
    BY <1>2, <2>1
  <2> HIDE DEF n
  <2>3. QED
    BY <2>1, <2>2, FirstOnes
<1>4. n \in Nat
  BY <1>2
<1> HIDE DEF g, n, c
<1>5. Remembers(c, n, g)
  BY <1>2, <1>3, <1>4, StillRemembers
<1>6. DOMAIN sources \subseteq DOMAIN c.sources /\ Cardinality(DOMAIN sources) <= MaxSources
      /\ \A s \in DOMAIN sources : sources[s] = c.sources[s]
  <2>1. DOMAIN c.sources \subseteq 0 .. n - 1
    BY <1>5 DEF Remembers, Sourced
  <2>2. IsFiniteSet(DOMAIN c.sources) /\ DOMAIN c.sources \in SUBSET Int
    <3> DEFINE D == DOMAIN c.sources
    <3>1. n - 1 \in Int /\ IsFiniteSet(0 .. n - 1)
      BY <1>4, FS_Interval
    <3> HIDE DEF D
    <3>2. D \subseteq 0 .. n - 1
      BY <2>1 DEF D
    <3>3. IsFiniteSet(D)
      BY <3>1, <3>2, FS_Subset
    <3>4. D \in SUBSET Int
      BY <3>1, <3>2
    <3>5. QED
      BY <3>3, <3>4 DEF D
  <2>3. MaxSources \in Nat
    BY ContextAssumption
  <2>4. /\ C!Newest(MaxSources, DOMAIN c.sources) \subseteq DOMAIN c.sources
        /\ Cardinality(C!Newest(MaxSources, DOMAIN c.sources)) <= MaxSources
    BY <2>2, <2>3, NewestAreFew
  <2>5. DOMAIN sources = C!Newest(MaxSources, DOMAIN c.sources)
    BY <2>4 DEF C!Restrict2
  <2>6. QED
    BY <2>4, <2>5 DEF C!Restrict2
<1> HIDE DEF sources
<1>7. /\ DOMAIN context' = Ledger /\ context'.sources = sources
      /\ context'.trajectory = c.trajectory /\ context'.knowledge = c.knowledge
      /\ context'.memory = c.memory /\ context'.skills = c.skills
  BY <1>1, <1>5 DEF Remembers, Ledger
<1>8. Remembers(context, step, history)'
  BY <1>1, <1>5, <1>6, <1>7 DEF Remembers, Traced, Sourced, Noted, Learnt
<1>9. CheckpointHolds'
  <2>1. Remembers(checkpoint.context, checkpoint.step, history)'
    BY <1>1, <1>5 DEF Remembers, Traced, Sourced, Noted, Learnt, n, c
  <2>2. QED
    BY <1>1, <1>2, <1>4, <2>1 DEF ContextInv, CheckpointHolds, n
<1>10. RunTyped'
  <2>1. n \in 0 .. ContextSteps
    BY <1>2, <1>4, ContextAssumption
  <2>2. losses \in 0 .. ContextLosses
    BY DEF ContextInv, RunTyped
  <2>3. QED
    BY <1>1, <1>3, <2>1, <2>2 DEF RunTyped
<1>11. CorpusTyped' /\ AskedOfCorpus'
  BY <1>1 DEF ContextInv, CorpusTyped, AskedOfCorpus, C!CacheIsCurrent, C!NoLookup
<1>12. QED
  BY <1>1, <1>2, <1>8, <1>9, <1>10, <1>11 DEF ContextInv, C!EvidenceReachesModel, C!ShownOnce

LEMMA ContextStep == ASSUME ContextInv, [C!Next]_(C!vars) PROVE ContextInv'
<1>1. CASE UNCHANGED C!vars
  <2>1. C!EvidenceReachesModel' /\ C!ShownOnce'
    BY <1>1, PromptStays DEF C!vars, ContextInv
  <2>2. RunTyped' /\ CorpusTyped' /\ AskedOfCorpus' /\ previous'.step = step' - 1
    BY <1>1 DEF C!vars, ContextInv, RunTyped, CorpusTyped, AskedOfCorpus, C!CacheIsCurrent
  <2>3. CheckpointHolds' /\ Remembers(context, step, history)'
    BY <1>1 DEF C!vars, ContextInv, CheckpointHolds, Remembers, Traced, Sourced, Noted, Learnt
  <2>4. QED
    BY <2>1, <2>2, <2>3 DEF ContextInv
<1>2. CASE C!Next
  BY <1>2, BuildKeeps, ActKeeps, AskKeeps, AnswerKeeps, CorpusKeeps, LossKeeps, ResumeKeeps
     DEF C!Next
<1>3. QED
  BY <1>1, <1>2

(* What was executed is in front of the model, nothing is shown twice, no *)
(* answer is older than its question, and facts are what their steps *)
(* returned, for any budgets, sizes, rankings and losses. *)
THEOREM ContextServes == C!Spec => [](C!TypeOK /\ C!ContextIsSound)
<1>1. ContextInv => C!TypeOK
  <2> SUFFICES ASSUME ContextInv PROVE C!TypeOK
    OBVIOUS
  <2>1. DOMAIN context.sources \subseteq 0 .. step - 1 /\ step \in 0 .. ContextSteps
        /\ Cardinality(DOMAIN context.sources) <= MaxSources
    BY DEF ContextInv, Remembers, Sourced, RunTyped
  <2>2. C!Cardinality(DOMAIN context.sources) <= MaxSources
    BY <2>1, CardinalityIs
  <2>3. DOMAIN context.sources \subseteq 0 .. ContextSteps - 1
    BY <2>1, ContextAssumption
  <2>4. corpus.content \in 0 .. CorpusEdits /\ DOMAIN context.skills \subseteq Skills
        /\ checkpoint.step <= step /\ Len(history) = step
    BY ContextAssumption DEF ContextInv, CorpusTyped, Remembers, RunTyped, CheckpointHolds
  <2>5. QED
    BY <2>1, <2>2, <2>3, <2>4 DEF ContextInv, RunTyped, C!TypeOK
<1>2. ContextInv => C!ContextIsSound
  <2> SUFFICES ASSUME ContextInv PROVE C!ContextIsSound
    OBVIOUS
  <2>1. Noted(context, step, history) /\ step \in Nat
    BY ContextAssumption DEF ContextInv, Remembers, RunTyped
  <2>2. C!MemoryIsGrounded
    BY <2>1 DEF Noted, C!MemoryIsGrounded
  <2>3. QED
    BY <2>2 DEF ContextInv, AskedOfCorpus, C!ContextIsSound
<1>3. QED
  BY <1>1, <1>2, InitContext, ContextStep, PTL DEF C!Spec
--------------------
CONSTANTS
  \* MineflayerRpc
  MaxAttempts, MaxRequests, RpcFaults

(* Budgets and bounds are naturals. *)
ASSUME WorkerAssumption == {MaxAttempts, MaxRequests, RpcFaults} \subseteq Nat

VARIABLES
  part, client, request, next, ready, handlers, bot, bots, mine, taken, overtaken

W == INSTANCE MineflayerRpcProofs WITH
  MaxFaults <- RpcFaults

WithoutP == <<
  phase, task, batch, aligned, open, waiting, link, inbox, outbox, located, world, executed,
  late, resets, faults, client, request, next, ready, handlers, bot, bots, mine, taken,
  overtaken, backend, selected, list, sent, states, remote, worker, outcomes, active, highest,
  report, clean, runs, inventory, hand, blocks, entities, position, follow, steps, initial,
  last, gained, lost, consumed, kills, source, target, pc, options, pending, toRead, seen,
  done, changes, imports, step, context, previous, prompt, lookup, checkpoint, corpus, history,
  where, attacked, killed, items, goal, digging, windows, body, turn, haunted >>
WithoutS == <<
  rows, epoch, editor, edits, saved, pinned, turns, losses, client, request, next, ready,
  handlers, bot, bots, mine, taken, overtaken, backend, selected, list, sent, states, remote,
  worker, outcomes, active, highest, report, clean, runs, inventory, hand, blocks, entities,
  position, follow, steps, initial, last, gained, lost, consumed, kills, source, target, pc,
  options, pending, toRead, seen, done, changes, imports, step, context, previous, prompt,
  lookup, checkpoint, corpus, history, where, attacked, killed, items, goal, digging, windows,
  body, turn, haunted >>
WithoutW == <<
  rows, epoch, editor, edits, saved, pinned, turns, losses, phase, task, batch, aligned, open,
  waiting, located, world, executed, late, resets, backend, selected, list, sent, states,
  remote, worker, outcomes, active, highest, report, clean, runs, inventory, hand, blocks,
  entities, position, follow, steps, initial, last, gained, lost, consumed, kills, source,
  target, pc, options, pending, toRead, seen, done, changes, imports, step, context, previous,
  prompt, lookup, checkpoint, corpus, history, where, attacked, killed, items, goal, digging,
  windows, body, turn, haunted >>
WithoutQ == <<
  rows, epoch, editor, edits, saved, pinned, turns, losses, task, batch, aligned, open,
  waiting, link, inbox, outbox, located, world, executed, late, resets, client, request, next,
  ready, handlers, bot, bots, mine, taken, overtaken, inventory, hand, blocks, entities,
  position, follow, steps, initial, last, gained, lost, consumed, kills, source, target, pc,
  options, pending, toRead, seen, done, changes, imports, step, context, previous, prompt,
  lookup, checkpoint, corpus, history, where, attacked, killed, items, goal, digging, windows,
  body, turn, haunted >>
WithoutB == <<
  rows, epoch, editor, edits, saved, pinned, turns, losses, phase, task, batch, aligned, open,
  waiting, link, inbox, outbox, located, world, executed, late, resets, faults, client,
  request, next, ready, handlers, bot, bots, mine, taken, overtaken, backend, selected, list,
  sent, states, remote, worker, outcomes, active, highest, report, clean, runs, source, target,
  pc, options, pending, toRead, seen, done, changes, imports, step, context, previous, prompt,
  lookup, checkpoint, corpus, history, where, attacked, killed, items, goal, digging, windows,
  body, turn, haunted >>
WithoutH == <<
  rows, epoch, editor, edits, saved, pinned, turns, losses, phase, task, batch, aligned, open,
  waiting, link, inbox, outbox, located, world, executed, late, resets, faults, client,
  request, next, ready, handlers, bot, bots, mine, taken, overtaken, backend, list, sent,
  states, remote, worker, outcomes, active, highest, report, clean, runs, inventory, hand,
  blocks, entities, position, follow, steps, initial, last, gained, lost, consumed, kills,
  step, context, previous, prompt, lookup, checkpoint, corpus, history, where, attacked,
  killed, items, goal, digging, windows, body, turn, haunted >>
WithoutC == <<
  rows, epoch, editor, edits, saved, pinned, turns, phase, task, batch, aligned, open, waiting,
  link, inbox, outbox, located, world, executed, late, resets, faults, client, request, next,
  ready, handlers, bot, bots, mine, taken, overtaken, backend, selected, list, sent, states,
  remote, worker, outcomes, active, highest, report, clean, runs, inventory, hand, blocks,
  entities, position, follow, steps, initial, last, gained, lost, consumed, kills, source,
  target, options, pending, toRead, seen, done, changes, imports, where, attacked, killed,
  items, goal, digging, windows, body, turn, haunted >>
WithoutO == <<
  rows, epoch, editor, edits, saved, pinned, turns, losses, phase, task, batch, aligned, open,
  waiting, link, inbox, outbox, located, world, executed, resets, faults, client, request,
  next, ready, handlers, bot, bots, mine, taken, overtaken, backend, selected, list, sent,
  states, remote, worker, outcomes, active, highest, report, clean, runs, inventory, blocks,
  entities, position, steps, initial, last, gained, lost, consumed, kills, source, target, pc,
  options, pending, toRead, seen, done, changes, imports, step, context, previous, prompt,
  lookup, checkpoint, corpus, history >>

(* The variables of the other parts stay at zero. *)
ZeroP ==
  /\ phase = 0 /\ task = 0 /\ batch = 0 /\ aligned = 0 /\ open = 0 /\ waiting = 0 /\ link = 0
  /\ inbox = 0 /\ outbox = 0 /\ located = 0 /\ world = 0 /\ executed = 0 /\ late = 0
  /\ resets = 0 /\ faults = 0 /\ client = 0 /\ request = 0 /\ next = 0 /\ ready = 0
  /\ handlers = 0 /\ bot = 0 /\ bots = 0 /\ mine = 0 /\ taken = 0 /\ overtaken = 0
  /\ backend = 0 /\ selected = 0 /\ list = 0 /\ sent = 0 /\ states = 0 /\ remote = 0
  /\ worker = 0 /\ outcomes = 0 /\ active = 0 /\ highest = 0 /\ report = 0 /\ clean = 0
  /\ runs = 0 /\ inventory = 0 /\ hand = 0 /\ blocks = 0 /\ entities = 0 /\ position = 0
  /\ follow = 0 /\ steps = 0 /\ initial = 0 /\ last = 0 /\ gained = 0 /\ lost = 0
  /\ consumed = 0 /\ kills = 0 /\ source = 0 /\ target = 0 /\ pc = 0 /\ options = 0
  /\ pending = 0 /\ toRead = 0 /\ seen = 0 /\ done = 0 /\ changes = 0 /\ imports = 0
  /\ step = 0 /\ context = 0 /\ previous = 0 /\ prompt = 0 /\ lookup = 0 /\ checkpoint = 0
  /\ corpus = 0 /\ history = 0 /\ where = 0 /\ attacked = 0 /\ killed = 0 /\ items = 0
  /\ goal = 0 /\ digging = 0 /\ windows = 0 /\ body = 0 /\ turn = 0 /\ haunted = 0
ZeroS ==
  /\ rows = 0 /\ epoch = 0 /\ editor = 0 /\ edits = 0 /\ saved = 0 /\ pinned = 0 /\ turns = 0
  /\ losses = 0 /\ client = 0 /\ request = 0 /\ next = 0 /\ ready = 0 /\ handlers = 0
  /\ bot = 0 /\ bots = 0 /\ mine = 0 /\ taken = 0 /\ overtaken = 0 /\ backend = 0
  /\ selected = 0 /\ list = 0 /\ sent = 0 /\ states = 0 /\ remote = 0 /\ worker = 0
  /\ outcomes = 0 /\ active = 0 /\ highest = 0 /\ report = 0 /\ clean = 0 /\ runs = 0
  /\ inventory = 0 /\ hand = 0 /\ blocks = 0 /\ entities = 0 /\ position = 0 /\ follow = 0
  /\ steps = 0 /\ initial = 0 /\ last = 0 /\ gained = 0 /\ lost = 0 /\ consumed = 0
  /\ kills = 0 /\ source = 0 /\ target = 0 /\ pc = 0 /\ options = 0 /\ pending = 0
  /\ toRead = 0 /\ seen = 0 /\ done = 0 /\ changes = 0 /\ imports = 0 /\ step = 0
  /\ context = 0 /\ previous = 0 /\ prompt = 0 /\ lookup = 0 /\ checkpoint = 0 /\ corpus = 0
  /\ history = 0 /\ where = 0 /\ attacked = 0 /\ killed = 0 /\ items = 0 /\ goal = 0
  /\ digging = 0 /\ windows = 0 /\ body = 0 /\ turn = 0 /\ haunted = 0
ZeroW ==
  /\ rows = 0 /\ epoch = 0 /\ editor = 0 /\ edits = 0 /\ saved = 0 /\ pinned = 0 /\ turns = 0
  /\ losses = 0 /\ phase = 0 /\ task = 0 /\ batch = 0 /\ aligned = 0 /\ open = 0
  /\ waiting = 0 /\ located = 0 /\ world = 0 /\ executed = 0 /\ late = 0 /\ resets = 0
  /\ backend = 0 /\ selected = 0 /\ list = 0 /\ sent = 0 /\ states = 0 /\ remote = 0
  /\ worker = 0 /\ outcomes = 0 /\ active = 0 /\ highest = 0 /\ report = 0 /\ clean = 0
  /\ runs = 0 /\ inventory = 0 /\ hand = 0 /\ blocks = 0 /\ entities = 0 /\ position = 0
  /\ follow = 0 /\ steps = 0 /\ initial = 0 /\ last = 0 /\ gained = 0 /\ lost = 0
  /\ consumed = 0 /\ kills = 0 /\ source = 0 /\ target = 0 /\ pc = 0 /\ options = 0
  /\ pending = 0 /\ toRead = 0 /\ seen = 0 /\ done = 0 /\ changes = 0 /\ imports = 0
  /\ step = 0 /\ context = 0 /\ previous = 0 /\ prompt = 0 /\ lookup = 0 /\ checkpoint = 0
  /\ corpus = 0 /\ history = 0 /\ where = 0 /\ attacked = 0 /\ killed = 0 /\ items = 0
  /\ goal = 0 /\ digging = 0 /\ windows = 0 /\ body = 0 /\ turn = 0 /\ haunted = 0
ZeroQ ==
  /\ rows = 0 /\ epoch = 0 /\ editor = 0 /\ edits = 0 /\ saved = 0 /\ pinned = 0 /\ turns = 0
  /\ losses = 0 /\ task = 0 /\ batch = 0 /\ aligned = 0 /\ open = 0 /\ waiting = 0 /\ link = 0
  /\ inbox = 0 /\ outbox = 0 /\ located = 0 /\ world = 0 /\ executed = 0 /\ late = 0
  /\ resets = 0 /\ client = 0 /\ request = 0 /\ next = 0 /\ ready = 0 /\ handlers = 0
  /\ bot = 0 /\ bots = 0 /\ mine = 0 /\ taken = 0 /\ overtaken = 0 /\ inventory = 0
  /\ hand = 0 /\ blocks = 0 /\ entities = 0 /\ position = 0 /\ follow = 0 /\ steps = 0
  /\ initial = 0 /\ last = 0 /\ gained = 0 /\ lost = 0 /\ consumed = 0 /\ kills = 0
  /\ source = 0 /\ target = 0 /\ pc = 0 /\ options = 0 /\ pending = 0 /\ toRead = 0
  /\ seen = 0 /\ done = 0 /\ changes = 0 /\ imports = 0 /\ step = 0 /\ context = 0
  /\ previous = 0 /\ prompt = 0 /\ lookup = 0 /\ checkpoint = 0 /\ corpus = 0 /\ history = 0
  /\ where = 0 /\ attacked = 0 /\ killed = 0 /\ items = 0 /\ goal = 0 /\ digging = 0
  /\ windows = 0 /\ body = 0 /\ turn = 0 /\ haunted = 0
ZeroB ==
  /\ rows = 0 /\ epoch = 0 /\ editor = 0 /\ edits = 0 /\ saved = 0 /\ pinned = 0 /\ turns = 0
  /\ losses = 0 /\ phase = 0 /\ task = 0 /\ batch = 0 /\ aligned = 0 /\ open = 0
  /\ waiting = 0 /\ link = 0 /\ inbox = 0 /\ outbox = 0 /\ located = 0 /\ world = 0
  /\ executed = 0 /\ late = 0 /\ resets = 0 /\ faults = 0 /\ client = 0 /\ request = 0
  /\ next = 0 /\ ready = 0 /\ handlers = 0 /\ bot = 0 /\ bots = 0 /\ mine = 0 /\ taken = 0
  /\ overtaken = 0 /\ backend = 0 /\ selected = 0 /\ list = 0 /\ sent = 0 /\ states = 0
  /\ remote = 0 /\ worker = 0 /\ outcomes = 0 /\ active = 0 /\ highest = 0 /\ report = 0
  /\ clean = 0 /\ runs = 0 /\ source = 0 /\ target = 0 /\ pc = 0 /\ options = 0 /\ pending = 0
  /\ toRead = 0 /\ seen = 0 /\ done = 0 /\ changes = 0 /\ imports = 0 /\ step = 0
  /\ context = 0 /\ previous = 0 /\ prompt = 0 /\ lookup = 0 /\ checkpoint = 0 /\ corpus = 0
  /\ history = 0 /\ where = 0 /\ attacked = 0 /\ killed = 0 /\ items = 0 /\ goal = 0
  /\ digging = 0 /\ windows = 0 /\ body = 0 /\ turn = 0 /\ haunted = 0
ZeroH ==
  /\ rows = 0 /\ epoch = 0 /\ editor = 0 /\ edits = 0 /\ saved = 0 /\ pinned = 0 /\ turns = 0
  /\ losses = 0 /\ phase = 0 /\ task = 0 /\ batch = 0 /\ aligned = 0 /\ open = 0
  /\ waiting = 0 /\ link = 0 /\ inbox = 0 /\ outbox = 0 /\ located = 0 /\ world = 0
  /\ executed = 0 /\ late = 0 /\ resets = 0 /\ faults = 0 /\ client = 0 /\ request = 0
  /\ next = 0 /\ ready = 0 /\ handlers = 0 /\ bot = 0 /\ bots = 0 /\ mine = 0 /\ taken = 0
  /\ overtaken = 0 /\ backend = 0 /\ list = 0 /\ sent = 0 /\ states = 0 /\ remote = 0
  /\ worker = 0 /\ outcomes = 0 /\ active = 0 /\ highest = 0 /\ report = 0 /\ clean = 0
  /\ runs = 0 /\ inventory = 0 /\ hand = 0 /\ blocks = 0 /\ entities = 0 /\ position = 0
  /\ follow = 0 /\ steps = 0 /\ initial = 0 /\ last = 0 /\ gained = 0 /\ lost = 0
  /\ consumed = 0 /\ kills = 0 /\ step = 0 /\ context = 0 /\ previous = 0 /\ prompt = 0
  /\ lookup = 0 /\ checkpoint = 0 /\ corpus = 0 /\ history = 0 /\ where = 0 /\ attacked = 0
  /\ killed = 0 /\ items = 0 /\ goal = 0 /\ digging = 0 /\ windows = 0 /\ body = 0 /\ turn = 0
  /\ haunted = 0
ZeroC ==
  /\ rows = 0 /\ epoch = 0 /\ editor = 0 /\ edits = 0 /\ saved = 0 /\ pinned = 0 /\ turns = 0
  /\ phase = 0 /\ task = 0 /\ batch = 0 /\ aligned = 0 /\ open = 0 /\ waiting = 0 /\ link = 0
  /\ inbox = 0 /\ outbox = 0 /\ located = 0 /\ world = 0 /\ executed = 0 /\ late = 0
  /\ resets = 0 /\ faults = 0 /\ client = 0 /\ request = 0 /\ next = 0 /\ ready = 0
  /\ handlers = 0 /\ bot = 0 /\ bots = 0 /\ mine = 0 /\ taken = 0 /\ overtaken = 0
  /\ backend = 0 /\ selected = 0 /\ list = 0 /\ sent = 0 /\ states = 0 /\ remote = 0
  /\ worker = 0 /\ outcomes = 0 /\ active = 0 /\ highest = 0 /\ report = 0 /\ clean = 0
  /\ runs = 0 /\ inventory = 0 /\ hand = 0 /\ blocks = 0 /\ entities = 0 /\ position = 0
  /\ follow = 0 /\ steps = 0 /\ initial = 0 /\ last = 0 /\ gained = 0 /\ lost = 0
  /\ consumed = 0 /\ kills = 0 /\ source = 0 /\ target = 0 /\ options = 0 /\ pending = 0
  /\ toRead = 0 /\ seen = 0 /\ done = 0 /\ changes = 0 /\ imports = 0 /\ where = 0
  /\ attacked = 0 /\ killed = 0 /\ items = 0 /\ goal = 0 /\ digging = 0 /\ windows = 0
  /\ body = 0 /\ turn = 0 /\ haunted = 0
ZeroO ==
  /\ rows = 0 /\ epoch = 0 /\ editor = 0 /\ edits = 0 /\ saved = 0 /\ pinned = 0 /\ turns = 0
  /\ losses = 0 /\ phase = 0 /\ task = 0 /\ batch = 0 /\ aligned = 0 /\ open = 0
  /\ waiting = 0 /\ link = 0 /\ inbox = 0 /\ outbox = 0 /\ located = 0 /\ world = 0
  /\ executed = 0 /\ resets = 0 /\ faults = 0 /\ client = 0 /\ request = 0 /\ next = 0
  /\ ready = 0 /\ handlers = 0 /\ bot = 0 /\ bots = 0 /\ mine = 0 /\ taken = 0
  /\ overtaken = 0 /\ backend = 0 /\ selected = 0 /\ list = 0 /\ sent = 0 /\ states = 0
  /\ remote = 0 /\ worker = 0 /\ outcomes = 0 /\ active = 0 /\ highest = 0 /\ report = 0
  /\ clean = 0 /\ runs = 0 /\ inventory = 0 /\ blocks = 0 /\ entities = 0 /\ position = 0
  /\ steps = 0 /\ initial = 0 /\ last = 0 /\ gained = 0 /\ lost = 0 /\ consumed = 0
  /\ kills = 0 /\ source = 0 /\ target = 0 /\ pc = 0 /\ options = 0 /\ pending = 0
  /\ toRead = 0 /\ seen = 0 /\ done = 0 /\ changes = 0 /\ imports = 0 /\ step = 0
  /\ context = 0 /\ previous = 0 /\ prompt = 0 /\ lookup = 0 /\ checkpoint = 0 /\ corpus = 0
  /\ history = 0

Init ==
  \/ part = "prompts" /\ P!Init /\ ZeroP
  \/ part = "server" /\ S!Init /\ ZeroS
  \/ part = "worker" /\ W!Init /\ ZeroW
  \/ part = "queue" /\ Q!Init /\ ZeroQ
  \/ part = "benchmark" /\ B!Init /\ ZeroB
  \/ part = "history" /\ H!Init /\ ZeroH
  \/ part = "context" /\ C!Init /\ ZeroC
  \/ part = "bot" /\ O!Init /\ ZeroO
Next ==
  /\ UNCHANGED part
  /\ \/ part = "prompts" /\ P!Next /\ UNCHANGED WithoutP
     \/ part = "server" /\ S!Next /\ UNCHANGED WithoutS
     \/ part = "worker" /\ W!Next /\ UNCHANGED WithoutW
     \/ part = "queue" /\ Q!Next /\ UNCHANGED WithoutQ
     \/ part = "benchmark" /\ B!Next /\ UNCHANGED WithoutB
     \/ part = "history" /\ H!Next /\ UNCHANGED WithoutH
     \/ part = "context" /\ C!Next /\ UNCHANGED WithoutC
     \/ part = "bot" /\ O!Next /\ UNCHANGED WithoutO

vars == <<part,
  rows, epoch, editor, edits, saved, pinned, turns, losses, phase, task, batch, aligned, open,
  waiting, link, inbox, outbox, located, world, executed, late, resets, faults, client,
  request, next, ready, handlers, bot, bots, mine, taken, overtaken, backend, selected, list,
  sent, states, remote, worker, outcomes, active, highest, report, clean, runs, inventory,
  hand, blocks, entities, position, follow, steps, initial, last, gained, lost, consumed,
  kills, source, target, pc, options, pending, toRead, seen, done, changes, imports, step,
  context, previous, prompt, lookup, checkpoint, corpus, history, where, attacked, killed,
  items, goal, digging, windows, body, turn, haunted>>
Spec == Init /\ [][Next]_vars

(* A save that is accepted replaces the row that its editor had loaded, *)
(* and a run that pinned its prompt shows it until its process is lost. *)
PromptsAreSound == part = "prompts" => P!TypeOK /\ P!PromptsAreSound

(* A command that is reported as done was executed, and a task starts in *)
(* the world that its reset plan asks for. *)
ResetIsSound == part = "server" => S!TypeOK /\ S!ResetIsSound

(* What a client takes for an answer was made for its request, an action *)
(* never shares its bot with another one, and an attempt keeps its bot. *)
WorkerIsOwn == part = "worker" => W!TypeOK /\ W!WorkerIsOwn

(* Every worker is told to stop, and a run that began with an empty list *)
(* reports every task once. *)
QueueIsServed == part = "queue" => Q!TypeOK /\ Q!QueueIsServed

(* Matter is neither made nor lost, and what a verifier accepts was done *)
(* in this run. *)
BenchmarkIsSound == part = "benchmark" => B!TypeOK /\ B!BenchmarkIsSound

(* Finished runs arrive whole, and the status of a round tells the worst *)
(* of its rows. *)
ImportIsFaithful == part = "history" => H!TypeOK /\ H!ImportIsFaithful

(* What was executed is in front of the model, nothing is shown twice, no *)
(* answer is older than the corpus was, and every remembered fact is what *)
(* its step returned. *)
ContextIsSound == part = "context" => C!TypeOK /\ C!ContextIsSound

(* A registered follow is real, a bot without an action stands still, *)
(* kills are told, and hits are meant. *)
ActionsAreSound == part = "bot" => O!TypeOK /\ O!ActionsAreSound
--------------------
LEMMA PromptsAlone ==
  /\ Spec /\ part = "prompts" => P!Spec /\ [](part = "prompts")
  /\ Spec /\ ~(part = "prompts") => [](~(part = "prompts"))
<1>1. Init /\ part = "prompts" => P!Init
  BY DEF Init
<1>2. part = "prompts" /\ [Next]_vars => [P!Next]_(P!vars) /\ (part = "prompts")'
  BY DEF Next, vars, P!vars
<1>3. ~(part = "prompts") /\ [Next]_vars => (~(part = "prompts"))'
  BY DEF Next, vars
<1>4. QED
  BY <1>1, <1>2, <1>3, PTL DEF Spec, P!Spec

(* Editors replace only what they have seen and a pinned run keeps its *)
(* prompt, for any editors, prompts, chunks and bounds. *)
THEOREM PromptsHold == Spec => []PromptsAreSound
<1>1. P!Spec => []P!TypeOK
  BY PromptsStayTyped, PromptsAssumption
<1>2. P!Spec => []P!PromptsAreSound
  BY PromptsStaySound
<1>3. P!TypeOK /\ P!PromptsAreSound => PromptsAreSound
  BY DEF PromptsAreSound
<1>4. ~(part = "prompts") => PromptsAreSound
  BY DEF PromptsAreSound
<1>5. QED
  BY <1>1, <1>2, <1>3, <1>4, PromptsAlone, PTL
--------------------
LEMMA WorkerAlone ==
  /\ Spec /\ part = "worker" => W!Spec /\ [](part = "worker")
  /\ Spec /\ ~(part = "worker") => [](~(part = "worker"))
<1>1. Init /\ part = "worker" => W!Init
  BY DEF Init
<1>2. part = "worker" /\ [Next]_vars => [W!Next]_(W!vars) /\ (part = "worker")'
  BY DEF Next, vars, W!vars
<1>3. ~(part = "worker") /\ [Next]_vars => (~(part = "worker"))'
  BY DEF Next, vars
<1>4. QED
  BY <1>1, <1>2, <1>3, PTL DEF Spec, W!Spec

(* Answers reach the call they belong to, one action at a time, and an *)
(* attempt keeps its bot, for any number of attempts, requests and faults. *)
THEOREM WorkerHolds == Spec => []WorkerIsOwn
<1>1. W!Spec => []W!TypeOK
  BY W!WorkerStaysTyped, WorkerAssumption
<1>2. W!Spec => []W!WorkerIsOwn
  BY W!WorkerStaysOwn
<1>3. W!TypeOK /\ W!WorkerIsOwn => WorkerIsOwn
  BY DEF WorkerIsOwn
<1>4. ~(part = "worker") => WorkerIsOwn
  BY DEF WorkerIsOwn
<1>5. QED
  BY <1>1, <1>2, <1>3, <1>4, WorkerAlone, PTL
--------------------
LEMMA QueueAlone ==
  /\ Spec /\ part = "queue" => Q!Spec /\ [](part = "queue")
  /\ Spec /\ ~(part = "queue") => [](~(part = "queue"))
<1>1. Init /\ part = "queue" => Q!Init
  BY DEF Init
<1>2. part = "queue" /\ [Next]_vars => [Q!Next]_(Q!vars) /\ (part = "queue")'
  BY DEF Next, vars, Q!vars
<1>3. ~(part = "queue") /\ [Next]_vars => (~(part = "queue"))'
  BY DEF Next, vars
<1>4. QED
  BY <1>1, <1>2, <1>3, PTL DEF Spec, Q!Spec

(* Every worker of the runner is told to stop, and a run that began with *)
(* an empty list reports each task that it selected once, with the status *)
(* that the queue and Redis show: for any manifest, number of workers, of *)
(* runs and of faults. *)
THEOREM QueueHolds == Spec => []QueueIsServed
<1>1. Q!TypeOK /\ Q!QueueIsServed => QueueIsServed
  BY DEF QueueIsServed
<1>2. ~(part = "queue") => QueueIsServed
  BY DEF QueueIsServed
<1>3. QED
  BY <1>1, <1>2, QueueServes, QueueAlone, PTL
--------------------
LEMMA ResetAlone ==
  /\ Spec /\ part = "server" => S!Spec /\ [](part = "server")
  /\ Spec /\ ~(part = "server") => [](~(part = "server"))
<1>1. Init /\ part = "server" => S!Init
  BY DEF Init
<1>2. part = "server" /\ [Next]_vars => [S!Next]_(S!vars) /\ (part = "server")'
  BY DEF Next, vars, S!vars
<1>3. ~(part = "server") /\ [Next]_vars => (~(part = "server"))'
  BY DEF Next, vars
<1>4. QED
  BY <1>1, <1>2, <1>3, PTL DEF Spec, S!Spec

(* A command that a batch counts as done was executed by the server for *)
(* this very request, and a reset that is reported ready has left the *)
(* world as the plan of the task asks for, unless a command of a batch *)
(* that was given up is still executed after it: for any plans, any *)
(* configuration of resets and any number of faults of the connection. *)
THEOREM ResetHolds == Spec => []ResetIsSound
<1>1. S!TypeOK /\ S!ResetIsSound => ResetIsSound
  BY DEF ResetIsSound
<1>2. ~(part = "server") => ResetIsSound
  BY DEF ResetIsSound
<1>3. QED
  BY <1>1, <1>2, ResetServes, ResetAlone, PTL
--------------------
LEMMA BotAlone ==
  /\ Spec /\ part = "bot" => O!Spec /\ [](part = "bot")
  /\ Spec /\ ~(part = "bot") => [](~(part = "bot"))
<1>1. Init /\ part = "bot" => O!Init
  BY DEF Init
<1>2. part = "bot" /\ [Next]_vars => [O!Next]_(O!vars) /\ (part = "bot")'
  BY DEF Next, vars, O!vars
<1>3. ~(part = "bot") /\ [Next]_vars => (~(part = "bot"))'
  BY DEF Next, vars
<1>4. QED
  BY <1>1, <1>2, <1>3, PTL DEF Spec, O!Spec

(* A registered follow is real, a bot without an action stands still, an *)
(* engagement tells of the kills that were confirmed while it lasted, and *)
(* hits one mob with what it was asked to use: for any mobs, items and *)
(* requests, however many handlers outlive the answers to their requests. *)
THEOREM ActionsHold == Spec => []ActionsAreSound
<1>1. O!TypeOK /\ O!ActionsAreSound => ActionsAreSound
  BY DEF ActionsAreSound
<1>2. ~(part = "bot") => ActionsAreSound
  BY DEF ActionsAreSound
<1>3. QED
  BY <1>1, <1>2, ActionsServe, BotAlone, PTL
--------------------
LEMMA BenchmarkAlone ==
  /\ Spec /\ part = "benchmark" => B!Spec /\ [](part = "benchmark")
  /\ Spec /\ ~(part = "benchmark") => [](~(part = "benchmark"))
<1>1. Init /\ part = "benchmark" => B!Init
  BY DEF Init
<1>2. part = "benchmark" /\ [Next]_vars => [B!Next]_(B!vars) /\ (part = "benchmark")'
  BY DEF Next, vars, B!vars
<1>3. ~(part = "benchmark") /\ [Next]_vars => (~(part = "benchmark"))'
  BY DEF Next, vars
<1>4. QED
  BY <1>1, <1>2, <1>3, PTL DEF Spec, B!Spec

(* Crafting, placing, digging and collecting neither make nor lose wood or *)
(* stone, and what ProgrammaticVerifier accepts after a step was done in *)
(* this run: for any initial world, script and number of steps. *)
THEOREM BenchmarkHolds == Spec => []BenchmarkIsSound
<1>1. B!TypeOK /\ B!BenchmarkIsSound => BenchmarkIsSound
  BY DEF BenchmarkIsSound
<1>2. ~(part = "benchmark") => BenchmarkIsSound
  BY DEF BenchmarkIsSound
<1>3. QED
  BY <1>1, <1>2, BenchmarkServes, BenchmarkAlone, PTL
--------------------
LEMMA HistoryAlone ==
  /\ Spec /\ part = "history" => H!Spec /\ [](part = "history")
  /\ Spec /\ ~(part = "history") => [](~(part = "history"))
<1>1. Init /\ part = "history" => H!Init
  BY DEF Init
<1>2. part = "history" /\ [Next]_vars => [H!Next]_(H!vars) /\ (part = "history")'
  BY DEF Next, vars, H!vars
<1>3. ~(part = "history") /\ [Next]_vars => (~(part = "history"))'
  BY DEF Next, vars
<1>4. QED
  BY <1>1, <1>2, <1>3, PTL DEF Spec, H!Spec

(* A finished run arrives with the status and the rows of its best copy, *)
(* rounds tell the worst of their rows, and what is auxiliary refers to a *)
(* run that is there: for any databases, contents, changes between *)
(* selection and reading, and number of imports. *)
THEOREM HistoryHolds == Spec => []ImportIsFaithful
<1>1. H!TypeOK /\ H!ImportIsFaithful => ImportIsFaithful
  BY DEF ImportIsFaithful
<1>2. ~(part = "history") => ImportIsFaithful
  BY DEF ImportIsFaithful
<1>3. QED
  BY <1>1, <1>2, HistoryServes, HistoryAlone, PTL
--------------------
LEMMA ContextAlone ==
  /\ Spec /\ part = "context" => C!Spec /\ [](part = "context")
  /\ Spec /\ ~(part = "context") => [](~(part = "context"))
<1>1. Init /\ part = "context" => C!Init
  BY DEF Init
<1>2. part = "context" /\ [Next]_vars => [C!Next]_(C!vars) /\ (part = "context")'
  BY DEF Next, vars, C!vars
<1>3. ~(part = "context") /\ [Next]_vars => (~(part = "context"))'
  BY DEF Next, vars
<1>4. QED
  BY <1>1, <1>2, <1>3, PTL DEF Spec, C!Spec

(* What was executed is in front of the model, nothing is shown twice, no *)
(* answer is older than the corpus was when it was asked for, and a *)
(* remembered fact is what its step returned, also after a loss and from a *)
(* checkpoint: for any sizes, budgets, searches and number of steps. *)
THEOREM ContextHolds == Spec => []ContextIsSound
<1>1. C!TypeOK /\ C!ContextIsSound => ContextIsSound
  BY DEF ContextIsSound
<1>2. ~(part = "context") => ContextIsSound
  BY DEF ContextIsSound
<1>3. QED
  BY <1>1, <1>2, ContextServes, ContextAlone, PTL
=============================================================================
