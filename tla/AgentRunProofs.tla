--------------------------- MODULE AgentRunProofs ---------------------------
(***************************************************************************)
(* The audit tables tell how an attempt went, for every budget of steps,   *)
(* every limit of retries, revisions and losses and every set of tasks.    *)
(*                                                                         *)
(* The actions record lists of at most two events: a fold over such a list *)
(* is unrolled first.  Then one transaction of the recorder, the rows      *)
(* after every action, the types, where every action goes, and with these  *)
(* the parts of the inductive invariant RunInv.                            *)
(***************************************************************************)
EXTENDS AgentRun, SequenceTheorems, TLAPS

(* The rows after a list of events                                         *)

LEMMA Greatest ==
  /\ Max({1}) = 1
  /\ Max({1, 2}) = 2
  BY DEF Max

LEMMA GreatestOf ==
  ASSUME NEW s \in SUBSET (1 .. 2), s # {}
  PROVE  Max(s) \in s /\ \A i \in s : i <= Max(s)
<1>1. \E m \in s : \A i \in s : m >= i
  <2>1. CASE 2 \in s
    BY <2>1
  <2>2. CASE 2 \notin s
    <3>1. \A i \in s : i = 1
      BY <2>2
    <3>2. PICK m \in s : m = 1
      BY <3>1
    <3>3. QED
      BY <3>1, <3>2
  <2>3. QED
    BY <2>1, <2>2
<1>2. QED
  BY <1>1 DEF Max

(* The fold over at most two events, one after the other.                  *)
LEMMA FoldOfTwo ==
  ASSUME NEW d, NEW q, DOMAIN q \in SUBSET (1 .. 2)
  PROVE  /\ DOMAIN q = {} => FoldLeft(Recorded, d, q) = d
         /\ DOMAIN q = {1} => FoldLeft(Recorded, d, q) = Recorded(d, q[1])
         /\ DOMAIN q = {1, 2} => FoldLeft(Recorded, d, q) = Recorded(Recorded(d, q[1]), q[2])
<1> DEFINE Eq(f) == f = [s \in SUBSET DOMAIN q |->
                          IF s = {} THEN d ELSE Recorded(f[s \ {Max(s)}], q[Max(s)])]
           one(s) == IF 1 \in s THEN Recorded(d, q[1]) ELSE d
           all(s) == IF 2 \in s THEN Recorded(one(s), q[2]) ELSE one(s)
           w == [s \in SUBSET DOMAIN q |-> all(s)]
           iter == CHOOSE f : Eq(f)
<1>1. FoldLeft(Recorded, d, q) = iter[DOMAIN q]
  BY DEF FoldLeft, MapThenFoldSet
<1>2. Eq(w)
  <2>1. ASSUME NEW s \in SUBSET DOMAIN q, s # {}
        PROVE  all(s) = Recorded(w[s \ {Max(s)}], q[Max(s)])
    <3>1. Max(s) \in s /\ s \subseteq 1 .. 2 /\ \A i \in s : i <= Max(s)
      BY <2>1, GreatestOf
    <3>2. PICK t : t = s \ {Max(s)}
      OBVIOUS
    <3>3. w[t] = all(t)
      BY <3>2
    <3> HIDE DEF w
    <3>4. CASE Max(s) = 1
      <4>1. 1 \in s /\ 2 \notin s /\ 1 \notin t /\ 2 \notin t
        BY <3>1, <3>2, <3>4
      <4>2. QED
        BY <3>2, <3>3, <3>4, <4>1
    <3>5. CASE Max(s) = 2
      <4>1. 2 \in s /\ 2 \notin t /\ (1 \in t <=> 1 \in s)
        BY <3>1, <3>2, <3>5
      <4>2. QED
        BY <3>2, <3>3, <3>5, <4>1
    <3>6. QED
      BY <3>1, <3>4, <3>5
  <2>2. all({}) = d
    OBVIOUS
  <2>3. QED
    BY <2>1, <2>2
<1> HIDE DEF w
<1>3. Eq(iter)
  BY <1>2
<1> HIDE DEF iter
<1>4. /\ iter[{}] = d
      /\ \A s \in SUBSET DOMAIN q : s # {} => iter[s] = Recorded(iter[s \ {Max(s)}], q[Max(s)])
  BY <1>3
<1>5. {1} \ {1} = {} /\ {1, 2} \ {2} = {1}
  OBVIOUS
<1>6. 1 \in DOMAIN q => iter[{1}] = Recorded(d, q[1])
  BY <1>4, <1>5, Greatest
<1>7. {1, 2} \subseteq DOMAIN q => iter[{1, 2}] = Recorded(iter[{1}], q[2])
  BY <1>4, <1>5, Greatest
<1>8. QED
  BY <1>1, <1>4, <1>6, <1>7

AfterAll(d, q) == FoldLeft(Recorded, d, q)

LEMMA AfterNone ==
  ASSUME NEW d
  PROVE  AfterAll(d, <<>>) = d
<1>1. PICK q : q = <<>>
  OBVIOUS
<1>2. DOMAIN q = {}
  BY <1>1
<1>3. AfterAll(d, q) = d
  BY <1>2, FoldOfTwo DEF AfterAll
<1>4. QED
  BY <1>1, <1>3

LEMMA AfterOne ==
  ASSUME NEW d, NEW a
  PROVE  AfterAll(d, <<a>>) = Recorded(d, a)
<1>1. PICK q : q = <<a>>
  OBVIOUS
<1>2. DOMAIN q = {1} /\ q[1] = a
  BY <1>1
<1>3. DOMAIN q \in SUBSET (1 .. 2)
  BY <1>2
<1>4. AfterAll(d, q) = Recorded(d, a)
  BY <1>2, <1>3, FoldOfTwo DEF AfterAll
<1>5. QED
  BY <1>1, <1>4

LEMMA AfterTwo ==
  ASSUME NEW d, NEW a, NEW b
  PROVE  AfterAll(d, <<a, b>>) = Recorded(Recorded(d, a), b)
<1>1. PICK q : q = <<a, b>>
  OBVIOUS
<1>2. DOMAIN q = {1, 2} /\ q[1] = a /\ q[2] = b
  BY <1>1
<1>3. DOMAIN q \in SUBSET (1 .. 2)
  BY <1>2
<1>4. AfterAll(d, q) = Recorded(Recorded(d, a), b)
  BY <1>2, <1>3, FoldOfTwo DEF AfterAll
<1>5. QED
  BY <1>1, <1>4

LEMMA Recording ==
  ASSUME NEW q
  PROVE  RecordAll(q) <=> rows' = AfterAll(rows, q)
  BY DEF RecordAll, AfterAll

LEMMA Joined ==
  ASSUME NEW x, NEW y
  PROVE  <<>> \o <<y>> = <<y>> /\ <<x>> \o <<y>> = <<x, y>>
<1>1. PICK S : S = {x, y}
  OBVIOUS
<1>2. PICK p, q, e : p = <<x>> /\ q = <<y>> /\ e = <<>>
  OBVIOUS
<1>3. p \in Seq(S) /\ q \in Seq(S) /\ e \in Seq(S) /\ Len(p) = 1 /\ Len(q) = 1 /\ Len(e) = 0
      /\ p[1] = x /\ q[1] = y /\ p = <<x>> /\ q = <<y>>
  BY <1>1, <1>2
<1>4. e \o q = q
  BY <1>1, <1>2
<1>5. p \o q = <<x, y>>
  <2>1. PICK r : r = p \o q
    OBVIOUS
  <2>2. r \in Seq(S) /\ Len(r) = 2 /\ r[1] = x /\ r[2] = y
    BY <1>3, <2>1
  <2>3. PICK t : t = <<x, y>>
    OBVIOUS
  <2>4. t \in Seq(S) /\ Len(t) = 2 /\ t[1] = x /\ t[2] = y
    BY <1>1, <2>3
  <2>5. \A i \in 1 .. Len(r) : r[i] = t[i]
    <3>1. \A i \in 1 .. 2 : i = 1 \/ i = 2
      OBVIOUS
    <3>2. QED
      BY <2>2, <2>4, <3>1
  <2>6. r = t
    BY <2>2, <2>4, <2>5, SeqEqual
  <2>7. QED
    BY <2>1, <2>3, <2>6
<1>6. QED
  BY <1>2, <1>4, <1>5

-----------------------------------------------------------------------------
(* The inductive invariant                                                 *)

Stepping == {"plan", "model", "handoff", "act", "revise", "save", "check"}

(* A step that is begun is within the budget, an exception has a kind; the *)
(* evaluation comes after the end, on a row; nothing is there before the   *)
(* first start.                                                            *)
Placed ==
  /\ pc \in Stepping => step < MaxSteps
  /\ pc = "raised" => raised # None
  /\ pc = "lost" => losses > 0
  /\ evaluation # None => pc = "done" /\ rows.status # None
  /\ pc = "load" /\ losses = 0 => rows = NoRows /\ checkpoint = 0

(* A row has a status; only the runs that ask for an evaluation have a     *)
(* review.                                                                 *)
RowsBegun ==
  /\ rows.status = None => rows = NoRows
  /\ ~task.external => rows.review = None

(* A step that has its result has its row; a step that has none yet is not *)
(* behind the checkpoint.                                                  *)
HistoryKept ==
  /\ \A s \in rows.steps : 0 .. s \subseteq rows.steps
  /\ \A s \in Rounds : s < step \/ s < checkpoint => s \in rows.steps
  /\ pc \in {"revise", "save", "check"} => step \in rows.steps
  /\ pc \in ({"observe"} \cup Stepping) \ {"check"} => step >= checkpoint
  /\ pc = "check" => step + 1 >= checkpoint

(* A timeout retry starts the transient ones anew, a repair both.          *)
RetriesCounted ==
  pc = "model" =>
    calls <= retry.repair * ((TimeoutRetries + 1) * (TransientRetries + 1))
               + retry.timeout * (TransientRetries + 1) + retry.transient

NoneActive(d) == \A s \in Rounds : d.spans[s] # "active"

(* What the row says of the end, while no reviewer has decided.            *)
Undecided == rows.review \notin Decisions

(* From the last event of the loop on: the rounds are closed, a finished   *)
(* run has no operational end, and the verdict is what the outcome says.   *)
EndTells ==
  /\ pc \in {"verify", "inconclusive", "close", "done"} => NoneActive(rows)
  /\ pc \in {"verify", "inconclusive"} => rows.status # None
  /\ pc = "verify" /\ Undecided => rows.status \notin Operational
  /\ pc = "inconclusive" =>
       /\ outcome = "verification_inconclusive"
       /\ Undecided => rows.status \in StatusesOf(outcome)
  /\ pc \in {"close", "done"} /\ rows # NoRows /\ Undecided =>
       rows.status \in StatusesOf(outcome) \cup
         (IF evaluation = None THEN {} ELSE {"awaiting_human_review"})

RunInv == TypeOK /\ Placed /\ RowsBegun /\ HistoryKept /\ RetriesCounted /\ EndTells

-----------------------------------------------------------------------------
(* One transaction of the recorder                                         *)

(* The events of an attempt: a round or none, and the result of an action  *)
(* in its round.                                                           *)
Known(e) ==
  /\ e.step \in Rounds \cup {NoStep}
  /\ e.type = "action_result" => e.step \in Rounds /\ e.info \in {"ok", "error"}

Begun(d) == IF d.status = None THEN [d EXCEPT !.status = "running"] ELSE d
CreativeEvents == {"creative_evaluation_completed", "creative_evaluation_inconclusive"}
OpensReview(e) ==
  \/ e.type \in CreativeEvents
  \/ e.type = "agent_finish_accepted" /\ e.info = "agent_submitted_for_external_evaluation"

LEMMA BegunRows ==
  ASSUME NEW d \in Rows
  PROVE  /\ Begun(d) \in Rows /\ Begun(d).status # None
         /\ Begun(d).review = d.review /\ Begun(d).steps = d.steps /\ Begun(d).spans = d.spans
         /\ d.status # None => Begun(d) = d
         /\ d.status = None => Begun(d).status = "running"
  BY DEF Begun, Rows, Statuses, None

LEMMA PlainStatus ==
  ASSUME NEW t \in DOMAIN Plain
  PROVE  Plain[t] \in Statuses
  BY DEF Plain, Statuses, Operational

LEMMA FinishedStatus ==
  ASSUME NEW reason
  PROVE  /\ StatusWhenFinished(reason) \in Statuses
         /\ StatusWhenFinished(reason) \notin Operational
  BY DEF StatusWhenFinished, Statuses, Operational

LEMMA VerifiedStatus ==
  ASSUME NEW d \in Rows, d.status # None, NEW verdict
  PROVE  StatusWhenVerified(d, verdict) \in Statuses
<1>1. CASE d.status \in Operational
  BY <1>1 DEF StatusWhenVerified, Statuses
<1>2. CASE d.status \notin Operational /\ Pending(d)
  BY <1>2 DEF StatusWhenVerified, Statuses
<1>3. CASE d.status \notin Operational /\ ~Pending(d)
  <2>1. d.status \in Statuses
    BY DEF Rows
  <2>2. StatusWhenVerified(d, verdict) \in
          {"succeeded", "verification_inconclusive", "failed", d.status}
    BY <1>3 DEF StatusWhenVerified
  <2>3. QED
    BY <2>1, <2>2 DEF Statuses
<1>4. QED
  BY <1>1, <1>2, <1>3

LEMMA InconclusiveStatus ==
  ASSUME NEW d \in Rows
  PROVE  StatusWhenInconclusive(d) \in Statuses
  BY DEF StatusWhenInconclusive, Statuses

LEMMA NextStatus ==
  ASSUME NEW d \in Rows, d.status # None, NEW e
  PROVE  StatusAfter(d, e) \in Statuses
<1>1. CASE e.type \in DOMAIN Plain
  <2>1. /\ e.type \notin {"run_finished", "verifier_result", "run_verification_inconclusive"}
        /\ Plain[e.type] \in Statuses
    BY <1>1, PlainStatus DEF Plain
  <2>2. StatusAfter(d, e) = Plain[e.type]
    BY <1>1, <2>1 DEF StatusAfter
  <2>3. QED
    BY <2>1, <2>2
<1>2. CASE e.type \notin DOMAIN Plain /\ e.type = "run_finished"
  BY <1>2, FinishedStatus DEF StatusAfter
<1>3. CASE e.type \notin DOMAIN Plain /\ e.type = "verifier_result"
  BY <1>3, VerifiedStatus DEF StatusAfter
<1>4. CASE e.type \notin DOMAIN Plain /\ e.type = "run_verification_inconclusive"
  BY <1>4, InconclusiveStatus DEF StatusAfter
<1>5. CASE /\ e.type \notin DOMAIN Plain
           /\ e.type \notin {"run_finished", "verifier_result", "run_verification_inconclusive"}
  <2>1. d.status \in Statuses
    BY DEF Rows
  <2>2. QED
    BY <1>5, <2>1 DEF StatusAfter
<1>6. QED
  BY <1>1, <1>2, <1>3, <1>4, <1>5

LEMMA EnsuredRun ==
  ASSUME NEW d \in Rows, NEW e
  PROVE  LET r == EnsureRun(d, e)
         IN /\ r \in Rows /\ r.status = StatusAfter(Begun(d), e) /\ r.status # None
            /\ r.review = d.review /\ r.steps = d.steps /\ r.spans = d.spans
<1>1. PICK b : b = Begun(d)
  OBVIOUS
<1>2. b \in Rows /\ b.status # None
  BY <1>1, BegunRows
<1>3. b.review = d.review /\ b.steps = d.steps /\ b.spans = d.spans
  BY <1>1, BegunRows
<1>4. PICK t : t = StatusAfter(b, e)
  OBVIOUS
<1>5. t \in Statuses
  BY <1>2, <1>4, NextStatus
<1>6. EnsureRun(d, e) = [b EXCEPT !.status = t]
  BY <1>1, <1>4 DEF EnsureRun, Begun
<1>7. t # None
  BY <1>5 DEF Statuses, Operational, None
<1>8. PICK r : r = [b EXCEPT !.status = t]
  OBVIOUS
<1>9. r \in Rows /\ r.status = t /\ r.review = b.review /\ r.steps = b.steps /\ r.spans = b.spans
  BY <1>2, <1>5, <1>8 DEF Rows
<1>10. QED
  BY <1>1, <1>3, <1>4, <1>6, <1>7, <1>8, <1>9

LEMMA NextSpan ==
  ASSUME NEW span \in SpanStatuses, NEW e, Known(e)
  PROVE  SpanAfter(span, e) \in SpanStatuses
  BY DEF SpanAfter, RoundTerminal, Known, SpanStatuses, None

LEMMA EnsuredSpan ==
  ASSUME NEW d \in Rows, NEW e, Known(e)
  PROVE  LET r == EnsureSpan(d, e)
         IN /\ r \in Rows /\ r.status = d.status /\ r.review = d.review /\ r.steps = d.steps
            /\ e.step = NoStep => r = d
<1>1. CASE e.step = NoStep
  BY <1>1 DEF EnsureSpan
<1>2. CASE e.step # NoStep
  <2>1. e.step \in Rounds
    BY <1>2 DEF Known
  <2>2. d.spans[e.step] \in SpanStatuses
    BY <2>1 DEF Rows
  <2>3. PICK t : t = SpanAfter(d.spans[e.step], e)
    OBVIOUS
  <2>4. t \in SpanStatuses
    BY <2>2, <2>3, NextSpan
  <2>5. PICK spans : spans = [d.spans EXCEPT ![e.step] = t]
    OBVIOUS
  <2>6. spans \in [Rounds -> SpanStatuses]
    BY <2>1, <2>4, <2>5 DEF Rows
  <2>7. EnsureSpan(d, e) = [d EXCEPT !.spans = spans]
    BY <1>2, <2>3, <2>5 DEF EnsureSpan
  <2>8. QED
    BY <1>2, <2>6, <2>7 DEF Rows
<1>3. QED
  BY <1>1, <1>2

LEMMA Finalized ==
  ASSUME NEW d \in Rows, NEW e
  PROVE  LET r == FinalizeSpans(d, e)
         IN /\ r \in Rows /\ r.status = d.status /\ r.review = d.review /\ r.steps = d.steps
            /\ e.type \in RunTerminal => NoneActive(r)
            /\ NoneActive(d) => NoneActive(r)
<1>1. CASE e.type \notin RunTerminal
  BY <1>1 DEF FinalizeSpans
<1>2. CASE e.type \in RunTerminal
  <2>1. PICK spans : spans = [s \in Rounds |-> IF d.spans[s] = "active" THEN "interrupted"
                                                ELSE d.spans[s]]
    OBVIOUS
  <2>2. spans \in [Rounds -> SpanStatuses]
    BY <2>1 DEF Rows, SpanStatuses
  <2>3. \A s \in Rounds : spans[s] # "active"
    BY <2>1
  <2>4. FinalizeSpans(d, e) = [d EXCEPT !.spans = spans]
    BY <1>2, <2>1 DEF FinalizeSpans
  <2>5. PICK r : r = [d EXCEPT !.spans = spans]
    OBVIOUS
  <2>6. /\ r \in Rows /\ r.status = d.status /\ r.review = d.review /\ r.steps = d.steps
        /\ r.spans = spans
    BY <2>2, <2>5 DEF Rows
  <2>7. NoneActive(r)
    BY <2>3, <2>6 DEF NoneActive
  <2>8. QED
    BY <2>4, <2>5, <2>6, <2>7
<1>3. QED
  BY <1>1, <1>2

(* What evidence does to the rows.                                         *)
LEMMA EvaluatedRows ==
  ASSUME NEW d \in Rows, d.status # None
  PROVE  LET r == Evaluated(d)
         IN /\ r \in Rows /\ r.status # None /\ r.steps = d.steps /\ r.spans = d.spans
            /\ r.review = IF d.review = None THEN "awaiting_review" ELSE d.review
            /\ r.status \in {d.status, "awaiting_human_review"}
            /\ d.review \in Decisions => r.status = d.status
<1>1. PICK v : v = IF d.review = None THEN "awaiting_review" ELSE d.review
  OBVIOUS
<1>2. v \in Decisions \cup {None, "awaiting_review"}
  BY <1>1 DEF Rows
<1>3. PICK r : r = [d EXCEPT !.evaluation = TRUE, !.review = v]
  OBVIOUS
<1>4. /\ r \in Rows /\ r.status = d.status /\ r.review = v /\ r.steps = d.steps
      /\ r.spans = d.spans
  BY <1>2, <1>3 DEF Rows
<1>5. d.review \in Decisions => ~Pending(r)
  BY <1>1, <1>4 DEF Pending, Decisions, None
<1>6. Evaluated(d) = IF Pending(r) /\ r.status \notin Operational
                       THEN [r EXCEPT !.status = "awaiting_human_review"] ELSE r
  BY <1>1, <1>3 DEF Evaluated
<1>7. CASE Pending(r) /\ r.status \notin Operational
  <2>1. PICK a : a = [r EXCEPT !.status = "awaiting_human_review"]
    OBVIOUS
  <2>2. "awaiting_human_review" \in Statuses /\ "awaiting_human_review" # None
    BY DEF Statuses, None
  <2>3. /\ a \in Rows /\ a.status = "awaiting_human_review" /\ a.review = r.review
        /\ a.steps = r.steps /\ a.spans = r.spans
    BY <1>4, <2>1, <2>2 DEF Rows
  <2>4. QED
    BY <1>1, <1>4, <1>5, <1>6, <1>7, <2>1, <2>2, <2>3
<1>8. CASE ~(Pending(r) /\ r.status \notin Operational)
  BY <1>1, <1>4, <1>5, <1>6, <1>8
<1>9. QED
  BY <1>7, <1>8

LEMMA SubmittedRows ==
  ASSUME NEW d \in Rows
  PROVE  LET r == Submitted(d)
         IN /\ r \in Rows /\ r.status = d.status /\ r.steps = d.steps /\ r.spans = d.spans
            /\ r.review = IF d.review = None THEN "awaiting_review" ELSE d.review
<1>1. PICK v : v = IF d.review = None THEN "awaiting_review" ELSE d.review
  OBVIOUS
<1>2. v \in Decisions \cup {None, "awaiting_review"}
  BY <1>1 DEF Rows
<1>3. Submitted(d) = [d EXCEPT !.review = v]
  BY <1>1 DEF Submitted
<1>4. QED
  BY <1>1, <1>2, <1>3 DEF Rows

LEMMA SpecializedRows ==
  ASSUME NEW d \in Rows, d.status # None, NEW e, Known(e)
  PROVE  LET r == Specialized(d, e)
         IN /\ r \in Rows /\ r.status # None /\ r.spans = d.spans
            /\ e.type = "action_result" => r.steps = d.steps \cup {e.step}
            /\ e.type # "action_result" => r.steps = d.steps
            /\ e.type \notin CreativeEvents => r.status = d.status
            /\ ~OpensReview(e) => r.review = d.review
            /\ OpensReview(e) =>
                 r.review = IF d.review = None THEN "awaiting_review" ELSE d.review
            /\ e.type \in CreativeEvents => r = Evaluated(d)
<1>1. CASE e.type = "action_result"
  <2>1. PICK s : s = d.steps \cup {e.step}
    OBVIOUS
  <2>2. s \in SUBSET Rounds
    BY <1>1, <2>1 DEF Known, Rows
  <2>3. Specialized(d, e) = [d EXCEPT !.steps = s]
    BY <1>1, <2>1 DEF Specialized
  <2>4. ~OpensReview(e) /\ e.type \notin CreativeEvents
    BY <1>1 DEF OpensReview, CreativeEvents
  <2>5. QED
    BY <1>1, <2>1, <2>2, <2>3, <2>4 DEF Rows
<1>2. CASE e.type \in CreativeEvents
  <2>1. Specialized(d, e) = Evaluated(d)
    BY <1>2 DEF Specialized, CreativeEvents
  <2>2. OpensReview(e) /\ e.type # "action_result"
    BY <1>2 DEF OpensReview, CreativeEvents
  <2>3. QED
    BY <1>2, <2>1, <2>2, EvaluatedRows
<1>3. CASE e.type \notin CreativeEvents /\ OpensReview(e)
  <2>1. /\ e.type = "agent_finish_accepted"
        /\ e.info = "agent_submitted_for_external_evaluation"
    BY <1>3 DEF OpensReview
  <2>2. Specialized(d, e) = Submitted(d)
    BY <2>1 DEF Specialized
  <2>3. QED
    BY <1>3, <2>1, <2>2, SubmittedRows
<1>4. CASE e.type # "action_result" /\ ~OpensReview(e)
  <2>1. Specialized(d, e) = d
    BY <1>4 DEF Specialized, OpensReview, CreativeEvents
  <2>2. QED
    BY <1>4, <2>1 DEF OpensReview
<1>5. QED
  BY <1>1, <1>2, <1>3, <1>4

(* One record: the rows stay rows, there is a run row afterwards, a result *)
(* is the only event that adds a step, an event that asks for a review is  *)
(* the only one that opens it, and the end of the run closes its rounds.   *)
LEMMA RecordedRows ==
  ASSUME NEW d \in Rows, NEW e, Known(e)
  PROVE  LET r == Recorded(d, e)
         IN /\ r \in Rows /\ r.status # None
            /\ e.type = "action_result" => r.steps = d.steps \cup {e.step}
            /\ e.type # "action_result" => r.steps = d.steps
            /\ e.type \notin CreativeEvents => r.status = StatusAfter(Begun(d), e)
            /\ ~OpensReview(e) => r.review = d.review
            /\ OpensReview(e) =>
                 r.review = IF d.review = None THEN "awaiting_review" ELSE d.review
            /\ e.type \in RunTerminal => NoneActive(r)
            /\ NoneActive(d) /\ e.step = NoStep => NoneActive(r)
            /\ e.type \in CreativeEvents /\ d.status # None =>
                 /\ r.status \in {d.status, "awaiting_human_review"}
                 /\ d.review \in Decisions => r.status = d.status
<1>1. PICK a : a = EnsureRun(d, e)
  OBVIOUS
<1>2. PICK b : b = EnsureSpan(a, e)
  OBVIOUS
<1>3. PICK c : c = FinalizeSpans(b, e)
  OBVIOUS
<1>4. Recorded(d, e) = Specialized(c, e)
  BY <1>1, <1>2, <1>3 DEF Recorded
<1>5. /\ a \in Rows /\ a.status = StatusAfter(Begun(d), e) /\ a.status # None
      /\ a.review = d.review /\ a.steps = d.steps /\ a.spans = d.spans
  BY <1>1, EnsuredRun
<1>6. /\ b \in Rows /\ b.status = a.status /\ b.review = a.review /\ b.steps = a.steps
      /\ e.step = NoStep => b = a
  BY <1>2, <1>5, EnsuredSpan
<1>7. /\ c \in Rows /\ c.status = b.status /\ c.review = b.review /\ c.steps = b.steps
      /\ e.type \in RunTerminal => NoneActive(c)
      /\ NoneActive(b) => NoneActive(c)
  BY <1>3, <1>6, Finalized
<1>8. PICK r : r = Specialized(c, e)
  OBVIOUS
<1>9. /\ r \in Rows /\ r.status # None /\ r.spans = c.spans
      /\ e.type = "action_result" => r.steps = c.steps \cup {e.step}
      /\ e.type # "action_result" => r.steps = c.steps
      /\ e.type \notin CreativeEvents => r.status = c.status
      /\ ~OpensReview(e) => r.review = c.review
      /\ OpensReview(e) => r.review = IF c.review = None THEN "awaiting_review" ELSE c.review
      /\ e.type \in CreativeEvents => r = Evaluated(c)
  BY <1>5, <1>6, <1>7, <1>8, SpecializedRows
<1>10. NoneActive(c) => NoneActive(r)
  BY <1>9 DEF NoneActive
<1>11. NoneActive(d) /\ e.step = NoStep => NoneActive(b)
  BY <1>5, <1>6 DEF NoneActive
<1>12. ASSUME e.type \in CreativeEvents, d.status # None
       PROVE  /\ r.status \in {d.status, "awaiting_human_review"}
              /\ d.review \in Decisions => r.status = d.status
  <2>1. StatusAfter(d, e) = d.status
    BY <1>12 DEF StatusAfter, CreativeEvents, Plain
  <2>2. c.status = d.status /\ c.review = d.review
    BY <1>5, <1>6, <1>7, <1>12, <2>1, BegunRows
  <2>3. r = Evaluated(c)
    BY <1>9, <1>12
  <2>4. QED
    BY <1>7, <1>12, <2>2, <2>3, EvaluatedRows
<1>13. QED
  BY <1>4, <1>5, <1>6, <1>7, <1>8, <1>9, <1>10, <1>11, <1>12

-----------------------------------------------------------------------------
(* The rows after a step                                                   *)

Loud == {"action_result", "agent_finish_accepted"} \cup CreativeEvents
Kept(d, r) == r \in Rows /\ r.status # None /\ r.steps = d.steps /\ r.review = d.review

LEMMA QuietEvent ==
  ASSUME NEW d \in Rows, NEW t, NEW s \in Rounds \cup {NoStep}, NEW i, t \notin Loud
  PROVE  Kept(d, Recorded(d, Event(t, s, i)))
<1>1. PICK e : e = Event(t, s, i)
  OBVIOUS
<1>2. e.type = t /\ e.step = s
  BY <1>1 DEF Event
<1>3. Known(e) /\ e.type # "action_result" /\ ~OpensReview(e)
  BY <1>2 DEF Known, Loud, OpensReview, CreativeEvents
<1>4. QED
  BY <1>1, <1>3, RecordedRows DEF Kept

LEMMA QuietEvents ==
  ASSUME NEW d \in Rows, NEW t, NEW s \in Rounds \cup {NoStep}, NEW i, t \notin Loud
  PROVE  /\ Kept(d, AfterAll(d, <<Event(t, s, i)>>))
         /\ \A u, v, j : u \notin Loud /\ v \in Rounds \cup {NoStep} =>
              Kept(d, AfterAll(d, <<Event(t, s, i), Event(u, v, j)>>))
<1>1. PICK a : a = Recorded(d, Event(t, s, i))
  OBVIOUS
<1>2. a \in Rows /\ Kept(d, a)
  BY <1>1, QuietEvent DEF Kept
<1>3. ASSUME NEW u, NEW v \in Rounds \cup {NoStep}, NEW j, u \notin Loud
      PROVE  Kept(d, Recorded(a, Event(u, v, j)))
  <2>1. Kept(a, Recorded(a, Event(u, v, j)))
    BY <1>2, <1>3, QuietEvent
  <2>2. QED
    BY <1>2, <2>1 DEF Kept
<1>4. AfterAll(d, <<Event(t, s, i)>>) = a
  BY <1>1, AfterOne
<1>5. ASSUME NEW u, NEW v \in Rounds \cup {NoStep}, NEW j, u \notin Loud
      PROVE  Kept(d, AfterAll(d, <<Event(t, s, i), Event(u, v, j)>>))
  <2>1. AfterAll(d, <<Event(t, s, i), Event(u, v, j)>>) = Recorded(a, Event(u, v, j))
    BY <1>1, AfterTwo
  <2>2. QED
    BY <1>3, <1>5, <2>1
<1>6. QED
  BY <1>2, <1>4, <1>5

(* A result adds its step, whatever stands next to it.                     *)
Stepped(d, r, s) ==
  r \in Rows /\ r.status # None /\ r.steps = d.steps \cup {s} /\ r.review = d.review
LEMMA ResultEvent ==
  ASSUME NEW d \in Rows, NEW s \in Rounds, NEW i \in {"ok", "error"}
  PROVE  Stepped(d, Recorded(d, Event("action_result", s, i)), s)
<1>1. PICK e : e = Event("action_result", s, i)
  OBVIOUS
<1>2. e.type = "action_result" /\ e.step = s /\ e.info = i
  BY <1>1 DEF Event
<1>3. Known(e) /\ ~OpensReview(e)
  BY <1>2 DEF Known, OpensReview, CreativeEvents
<1>4. QED
  BY <1>1, <1>2, <1>3, RecordedRows DEF Stepped

LEMMA ResultEvents ==
  ASSUME NEW d \in Rows, NEW s \in Rounds, NEW i \in {"ok", "error"}, NEW t, t \notin Loud
  PROVE  /\ Stepped(d, AfterAll(d, <<Event("action_result", s, i)>>), s)
         /\ Stepped(d, AfterAll(d, <<Event(t, s, None), Event("action_result", s, i)>>), s)
         /\ Stepped(d, AfterAll(d, <<Event("action_result", s, i), Event(t, s, None)>>), s)
<1>1. PICK a : a = Recorded(d, Event("action_result", s, i))
  OBVIOUS
<1>2. Stepped(d, a, s) /\ a \in Rows
  BY <1>1, ResultEvent DEF Stepped
<1>3. Kept(a, Recorded(a, Event(t, s, None)))
  BY <1>2, QuietEvent
<1>4. PICK b : b = Recorded(d, Event(t, s, None))
  OBVIOUS
<1>5. Kept(d, b) /\ b \in Rows
  BY <1>4, QuietEvent DEF Kept
<1>6. Stepped(b, Recorded(b, Event("action_result", s, i)), s)
  BY <1>5, ResultEvent
<1>7. Stepped(d, Recorded(b, Event("action_result", s, i)), s)
  BY <1>5, <1>6 DEF Kept, Stepped
<1>8. Stepped(d, Recorded(a, Event(t, s, None)), s)
  BY <1>2, <1>3 DEF Kept, Stepped
<1>9. AfterAll(d, <<Event("action_result", s, i)>>) = a
  BY <1>1, AfterOne
<1>10. AfterAll(d, <<Event(t, s, None), Event("action_result", s, i)>>) =
         Recorded(b, Event("action_result", s, i))
  BY <1>4, AfterTwo
<1>11. AfterAll(d, <<Event("action_result", s, i), Event(t, s, None)>>) =
         Recorded(a, Event(t, s, None))
  BY <1>1, AfterTwo
<1>12. QED
  BY <1>2, <1>7, <1>8, <1>9, <1>10, <1>11

LEMMA QuietlyOne ==
  ASSUME TypeOK, NEW t, t \notin Loud
  PROVE  /\ Kept(rows, AfterAll(rows, <<At(t)>>))
         /\ Kept(rows, AfterAll(rows, <<Plainly(t)>>))
<1>1. rows \in Rows /\ step \in Rounds
  BY DEF TypeOK
<1>2. QED
  BY <1>1, QuietEvents DEF At, Plainly

LEMMA QuietlyTwo ==
  ASSUME TypeOK, NEW t, NEW u, t \notin Loud, u \notin Loud
  PROVE  /\ Kept(rows, AfterAll(rows, <<At(t), At(u)>>))
         /\ Kept(rows, AfterAll(rows, <<Plainly(t), Plainly(u)>>))
<1>1. rows \in Rows /\ step \in Rounds
  BY DEF TypeOK
<1>2. QED
  BY <1>1, QuietEvents DEF At, Plainly

(* What an action that records no result and opens no review does.         *)
Quietly == Kept(rows, rows') \/ rows' = rows

LEMMA StartIsQuiet ==
  ASSUME TypeOK, Start
  PROVE  Quietly
<1>1. PICK s : s = step'
  OBVIOUS
<1>2. rows \in Rows /\ s \in Rounds
  BY <1>1, StepsAssumption DEF TypeOK, Start, Rounds
<1>3. CASE s > 0
  <2>1. PICK x, y : /\ x = Event("run_started", NoStep, None)
                    /\ y = Event("checkpoint_loaded", s, None)
    OBVIOUS
  <2>2. rows' = AfterAll(rows, <<x>> \o <<y>>)
    BY <1>1, <1>3, <2>1 DEF Start, RecordAll, AfterAll, Plainly
  <2>3. <<x>> \o <<y>> = <<x, y>>
    BY Joined
  <2>4. Kept(rows, AfterAll(rows, <<x, y>>))
    BY <1>2, <2>1, QuietEvents DEF Loud, CreativeEvents
  <2>5. QED
    BY <2>2, <2>3, <2>4 DEF Quietly
<1>4. CASE ~(s > 0)
  <2>1. PICK x, y : /\ x = Event("run_started", NoStep, None)
                    /\ y = Event("initial_visual_snapshot", NoStep, None)
    OBVIOUS
  <2>2. s = 0
    BY <1>2, <1>4, StepsAssumption DEF Rounds
  <2>3. rows' = AfterAll(rows, <<x>> \o <<y>>)
    BY <1>1, <2>1, <2>2 DEF Start, RecordAll, AfterAll, Plainly, InitialSnapshot
  <2>4. <<x>> \o <<y>> = <<x, y>>
    BY Joined
  <2>5. Kept(rows, AfterAll(rows, <<x, y>>))
    BY <1>2, <2>1, QuietEvents DEF Loud, CreativeEvents
  <2>6. QED
    BY <2>3, <2>4, <2>5 DEF Quietly
<1>5. QED
  BY <1>3, <1>4

LEMMA ErrorIsQuiet ==
  ASSUME TypeOK, NEW at \in Rounds \cup {NoStep}, NEW kinds, RuntimeError(at, kinds)
  PROVE  Quietly
<1>1. rows' = AfterAll(rows, <<Event("runtime_error", at, None)>>)
  BY DEF RuntimeError, RecordAll, AfterAll
<1>2. rows \in Rows
  BY DEF TypeOK
<1>3. Kept(rows, AfterAll(rows, <<Event("runtime_error", at, None)>>))
  BY <1>2, QuietEvents DEF Loud, CreativeEvents
<1>4. QED
  BY <1>1, <1>3 DEF Quietly

LEMMA ChoiceIsQuiet ==
  ASSUME TypeOK, NEW kind
  PROVE  /\ Choose(kind, <<>>) => Quietly
         /\ Choose(kind, <<At("model_fallback_action")>>) => Quietly
<1>1. PICK x, y : x = At("model_fallback_action") /\ y = At("model_action")
  OBVIOUS
<1>2. <<>> \o <<y>> = <<y>> /\ <<x>> \o <<y>> = <<x, y>>
  BY Joined
<1>3. Kept(rows, AfterAll(rows, <<y>>)) /\ Kept(rows, AfterAll(rows, <<x, y>>))
  BY <1>1, QuietlyOne, QuietlyTwo DEF Loud, CreativeEvents
<1>4. ASSUME Choose(kind, <<>>) PROVE Quietly
  <2>1. rows' = AfterAll(rows, <<>> \o <<y>>)
    BY <1>1, <1>4 DEF Choose, RecordAll, AfterAll
  <2>2. QED
    BY <1>2, <1>3, <2>1 DEF Quietly
<1>5. ASSUME Choose(kind, <<At("model_fallback_action")>>) PROVE Quietly
  <2>1. rows' = AfterAll(rows, <<x>> \o <<y>>)
    BY <1>1, <1>5 DEF Choose, RecordAll, AfterAll
  <2>2. QED
    BY <1>2, <1>3, <2>1 DEF Quietly
<1>6. QED
  BY <1>4, <1>5

LEMMA ErrsQuietly ==
  ASSUME TypeOK, ModelErrs
  PROVE  Quietly
<1>1. CASE retry.repair < MaxAttempts
  <2>1. rows' = AfterAll(rows, <<At("model_error"), At("model_repair_attempt")>>)
    BY <1>1 DEF ModelErrs, RecordAll, AfterAll
  <2>2. Kept(rows, AfterAll(rows, <<At("model_error"), At("model_repair_attempt")>>))
    BY QuietlyTwo DEF Loud, CreativeEvents
  <2>3. QED
    BY <2>1, <2>2 DEF Quietly
<1>2. CASE ~(retry.repair < MaxAttempts) /\ task.fallback
  <2>1. Choose(Fallback, <<At("model_fallback_action")>>)
    BY <1>2 DEF ModelErrs, FallBack
  <2>2. QED
    BY <2>1, ChoiceIsQuiet
<1>3. CASE ~(retry.repair < MaxAttempts) /\ ~task.fallback
  <2>1. rows' = AfterAll(rows, <<At("model_repair_exhausted")>>)
    BY <1>3 DEF ModelErrs, FallBack, RecordAll, AfterAll
  <2>2. Kept(rows, AfterAll(rows, <<At("model_repair_exhausted")>>))
    BY QuietlyOne DEF Loud, CreativeEvents
  <2>3. QED
    BY <2>1, <2>2 DEF Quietly
<1>4. QED
  BY <1>1, <1>2, <1>3

LEMMA TimesOutQuietly ==
  ASSUME TypeOK, TimesOut
  PROVE  Quietly
<1>1. rows' = AfterAll(rows, <<At("model_timeout"), At("model_timeout_retry")>>)
      \/ rows' = AfterAll(rows, <<At("model_timeout"), At("model_timeout_exhausted")>>)
  BY DEF TimesOut, RecordAll, AfterAll
<1>2. /\ Kept(rows, AfterAll(rows, <<At("model_timeout"), At("model_timeout_retry")>>))
      /\ Kept(rows, AfterAll(rows, <<At("model_timeout"), At("model_timeout_exhausted")>>))
  BY QuietlyTwo DEF Loud, CreativeEvents
<1>3. QED
  BY <1>1, <1>2 DEF Quietly

LEMMA HandlesQuietly ==
  ASSUME TypeOK, raised # None, Handle
  PROVE  Quietly
<1>1. raised \in Errors
  BY DEF TypeOK
<1>2. \/ rows' = AfterAll(rows, <<At("run_model_timeout")>>)
      \/ rows' = AfterAll(rows, <<Plainly("run_task_timeout")>>)
      \/ rows' = AfterAll(rows, <<Plainly("run_interrupted")>>)
      \/ rows' = AfterAll(rows, <<Plainly("runtime_error"), Plainly("run_failed")>>)
  <2>1. rows' = AfterAll(rows, HandlerEvents)
    BY DEF Handle, RecordAll, AfterAll
  <2>2. HandlerEvents \in {<<At("run_model_timeout")>>, <<Plainly("run_task_timeout")>>,
                           <<Plainly("run_interrupted")>>,
                           <<Plainly("runtime_error"), Plainly("run_failed")>>}
    BY <1>1 DEF HandlerEvents, Errors
  <2>3. QED
    BY <2>1, <2>2
<1>3. /\ Kept(rows, AfterAll(rows, <<At("run_model_timeout")>>))
      /\ Kept(rows, AfterAll(rows, <<Plainly("run_task_timeout")>>))
      /\ Kept(rows, AfterAll(rows, <<Plainly("run_interrupted")>>))
  BY QuietlyOne DEF Loud, CreativeEvents
<1>4. Kept(rows, AfterAll(rows, <<Plainly("runtime_error"), Plainly("run_failed")>>))
  BY QuietlyTwo DEF Loud, CreativeEvents
<1>5. QED
  BY <1>2, <1>3, <1>4 DEF Quietly

LEMMA Ended ==
  ASSUME NEW x, NEW y
  PROVE  <<x>> \o <<>> = <<x>> /\ <<x, y>> \o <<>> = <<x, y>>
<1>1. PICK S : S = {x, y}
  OBVIOUS
<1>2. <<x>> \in Seq(S) /\ <<x, y>> \in Seq(S)
  BY <1>1
<1>3. QED
  BY <1>2, ConcatEmptySeq

LEMMA ReturnSteps ==
  ASSUME TypeOK, NEW r, NEW t, t \notin Loud
  PROVE  /\ Returns(r, <<>>) => Stepped(rows, rows', step)
         /\ r # "rpc_timeout" /\ Returns(r, <<At(t)>>) => Stepped(rows, rows', step)
<1>1. rows \in Rows /\ step \in Rounds
  BY DEF TypeOK
<1>2. PICK i : i = OkOf(r)
  OBVIOUS
<1>3. i \in {"ok", "error"}
  BY <1>2 DEF OkOf
<1>4. PICK x, y, z : /\ x = Event(t, step, None) /\ y = Event("action_result", step, i)
                     /\ z = Event("runtime_action_timeout", step, None)
  OBVIOUS
<1>5. "runtime_action_timeout" \notin Loud
  BY DEF Loud, CreativeEvents
<1>6. /\ Stepped(rows, AfterAll(rows, <<y>>), step)
      /\ Stepped(rows, AfterAll(rows, <<x, y>>), step)
      /\ Stepped(rows, AfterAll(rows, <<y, z>>), step)
  BY <1>1, <1>3, <1>4, <1>5, ResultEvents
<1>7. /\ <<>> \o <<y>> = <<y>> /\ <<x>> \o <<y>> = <<x, y>> /\ <<y>> \o <<z>> = <<y, z>>
      /\ <<y>> \o <<>> = <<y>> /\ <<x, y>> \o <<>> = <<x, y>>
  BY Joined, Ended
<1>8. ASSUME Returns(r, <<>>), r = "rpc_timeout" PROVE Stepped(rows, rows', step)
  <2>1. rows' = AfterAll(rows, <<>> \o <<y>> \o <<z>>)
    BY <1>2, <1>4, <1>8 DEF Returns, RecordAll, AfterAll, At
  <2>2. QED
    BY <1>6, <1>7, <2>1
<1>9. ASSUME Returns(r, <<>>), r # "rpc_timeout" PROVE Stepped(rows, rows', step)
  <2>1. rows' = AfterAll(rows, <<>> \o <<y>> \o <<>>)
    BY <1>2, <1>4, <1>9 DEF Returns, RecordAll, AfterAll
  <2>2. QED
    BY <1>6, <1>7, <2>1
<1>10. ASSUME Returns(r, <<At(t)>>), r # "rpc_timeout" PROVE Stepped(rows, rows', step)
  <2>1. rows' = AfterAll(rows, <<x>> \o <<y>> \o <<>>)
    BY <1>2, <1>4, <1>10 DEF Returns, RecordAll, AfterAll, At
  <2>2. QED
    BY <1>6, <1>7, <2>1
<1>11. QED
  BY <1>8, <1>9, <1>10

(* A submission for an external evaluation and evidence open the review.   *)
Opened(d, r) ==
  /\ r \in Rows /\ r.status # None /\ r.steps = d.steps
  /\ r.review = IF d.review = None THEN "awaiting_review" ELSE d.review
DecidedBy(d, r) ==
  /\ d.review = "awaiting_review" /\ r.review \in Decisions
  /\ r \in Rows /\ r.status # None /\ r.steps = d.steps /\ r.spans = d.spans

LEMMA SubmissionChecked ==
  ASSUME TypeOK, CheckSubmission
  PROVE  Quietly \/ (task.external /\ Opened(rows, rows'))
<1>1. rows \in Rows /\ step \in Rounds
  BY DEF TypeOK
<1>2. CASE ~Accepted(submission)
  <2>1. rows' = AfterAll(rows, <<At("step_verifier_result"), At("agent_finish_rejected")>>)
    BY <1>2 DEF CheckSubmission, RecordAll, AfterAll
  <2>2. Kept(rows, AfterAll(rows, <<At("step_verifier_result"), At("agent_finish_rejected")>>))
    BY QuietlyTwo DEF Loud, CreativeEvents
  <2>3. Quietly
    BY <2>1, <2>2 DEF Quietly
  <2>4. QED
    BY <2>3
<1>3. CASE Accepted(submission)
  <2>1. PICK x, e : /\ x = At("step_verifier_result")
                    /\ e = Event("agent_finish_accepted", step, AcceptedAs(submission))
    OBVIOUS
  <2>2. rows' = AfterAll(rows, <<x, e>>)
    BY <1>3, <2>1 DEF CheckSubmission, RecordAll, AfterAll
  <2>3. PICK a : a = Recorded(rows, x)
    OBVIOUS
  <2>4. Kept(rows, a) /\ a \in Rows
    BY <1>1, <2>1, <2>3, QuietEvent DEF At, Kept, Loud, CreativeEvents
  <2>5. rows' = Recorded(a, e)
    BY <2>2, <2>3, AfterTwo
  <2>6. e.type = "agent_finish_accepted" /\ e.step = step /\ e.info = AcceptedAs(submission)
    BY <2>1 DEF Event
  <2>7. Known(e) /\ e.type # "action_result"
    BY <1>1, <2>6 DEF Known
  <2>8. OpensReview(e) => task.external
    BY <2>6 DEF OpensReview, CreativeEvents, AcceptedAs
  <2>9. PICK r : r = Recorded(a, e)
    OBVIOUS
  <2>10. /\ r \in Rows /\ r.status # None /\ r.steps = a.steps
         /\ ~OpensReview(e) => r.review = a.review
         /\ OpensReview(e) => r.review = IF a.review = None THEN "awaiting_review" ELSE a.review
    BY <2>4, <2>7, <2>9, RecordedRows
  <2>11. rows' = r
    BY <2>5, <2>9
  <2>12. a.steps = rows.steps /\ a.review = rows.review
    BY <2>4 DEF Kept
  <2>13. ~OpensReview(e) => Kept(rows, r)
    BY <2>10, <2>12 DEF Kept
  <2>14. OpensReview(e) => Opened(rows, r)
    BY <2>10, <2>12 DEF Opened
  <2>15. QED
    BY <2>8, <2>11, <2>13, <2>14 DEF Quietly
<1>4. QED
  BY <1>2, <1>3

LEMMA EvidenceOpens ==
  ASSUME TypeOK, Evaluate
  PROVE  /\ Opened(rows, rows')
         /\ rows'.status \in {rows.status, "awaiting_human_review"}
         /\ rows.review \in Decisions => rows'.status = rows.status
         /\ NoneActive(rows) => NoneActive(rows')
<1>1. rows \in Rows /\ rows.status # None
  BY DEF TypeOK, Evaluate
<1>2. PICK e : e = Event("creative_evaluation_completed", NoStep, None)
  OBVIOUS
<1>3. e.type = "creative_evaluation_completed" /\ e.step = NoStep
  BY <1>2 DEF Event
<1>4. Known(e) /\ OpensReview(e) /\ e.type # "action_result" /\ e.type \in CreativeEvents
  BY <1>3 DEF Known, OpensReview, CreativeEvents
<1>5. rows' = AfterAll(rows, <<e>>)
  BY <1>2 DEF Evaluate, RecordAll, AfterAll, Plainly
<1>6. rows' = Recorded(rows, e)
  BY <1>5, AfterOne
<1>7. PICK r : r = Recorded(rows, e)
  OBVIOUS
<1>8. /\ r \in Rows /\ r.status # None /\ r.steps = rows.steps
      /\ r.review = IF rows.review = None THEN "awaiting_review" ELSE rows.review
      /\ r.status \in {rows.status, "awaiting_human_review"}
      /\ rows.review \in Decisions => r.status = rows.status
      /\ NoneActive(rows) => NoneActive(r)
  BY <1>1, <1>3, <1>4, <1>7, RecordedRows
<1>9. QED
  BY <1>6, <1>7, <1>8 DEF Opened

LEMMA DecisionStatus ==
  ASSUME NEW decision \in Decisions
  PROVE  StatusForDecision(decision) \in Statuses /\ StatusForDecision(decision) # None
  BY DEF StatusForDecision, Decisions, Statuses, None

LEMMA ReviewDecides ==
  ASSUME TypeOK, Review
  PROVE  DecidedBy(rows, rows')
<1>1. PICK decision \in Decisions : rows' = Decided(rows, decision)
  BY DEF Review
<1>2. rows \in Rows /\ rows.review = "awaiting_review"
  BY DEF TypeOK, Review, Decidable, Pending
<1>3. PICK t : t = StatusForDecision(decision)
  OBVIOUS
<1>4. t \in Statuses /\ t # None
  BY <1>3, DecisionStatus
<1>5. rows' = [rows EXCEPT !.review = decision, !.status = t]
  BY <1>1, <1>3 DEF Decided
<1>6. QED
  BY <1>2, <1>4, <1>5 DEF DecidedBy, Rows

(* The four ways a step may move the rows.                                 *)
RowsMove ==
  \/ Quietly /\ pc' # "revise"
  \/ Stepped(rows, rows', step) /\ pc = "act" /\ pc' = "revise"
  \/ task.external /\ Opened(rows, rows') /\ pc' # "revise"
  \/ DecidedBy(rows, rows') /\ pc' = pc

LEMMA AttemptRows ==
  ASSUME TypeOK, Placed, Attempt
  PROVE  RowsMove
<1>1. CASE LoadFails
  BY <1>1 DEF LoadFails, RowsMove, Quietly, Raise
<1>2. CASE Start
  <2>1. Quietly
    BY <1>2, StartIsQuiet
  <2>2. QED
    BY <1>2, <2>1 DEF Start, RowsMove
<1>3. CASE ResetRaises
  <2>1. Quietly
    BY <1>3, ErrorIsQuiet DEF ResetRaises
  <2>2. QED
    BY <1>3, <2>1 DEF ResetRaises, RuntimeError, Raise, RowsMove
<1>4. CASE StepsExhausted
  BY <1>4 DEF StepsExhausted, RowsMove, Quietly, Raise
<1>5. CASE Observe
  <2>1. rows' = AfterAll(rows, <<At("observation")>>)
    BY <1>5 DEF Observe, RecordAll, AfterAll
  <2>2. Kept(rows, AfterAll(rows, <<At("observation")>>))
    BY QuietlyOne DEF Loud, CreativeEvents
  <2>3. Quietly
    BY <2>1, <2>2 DEF Quietly
  <2>4. QED
    BY <1>5, <2>3 DEF Observe, RowsMove
<1>6. CASE ObserveRaises
  <2>1. step \in Rounds \cup {NoStep}
    BY DEF TypeOK
  <2>2. Quietly
    BY <1>6, <2>1, ErrorIsQuiet DEF ObserveRaises
  <2>3. QED
    BY <1>6, <2>2 DEF ObserveRaises, RuntimeError, Raise, RowsMove
<1>7. CASE Plan
  <2>1. \/ rows' = AfterAll(rows, <<At("agent_plan_model_call"), At("agent_plan_created")>>)
        \/ rows' = rows
    BY <1>7, AfterNone DEF Plan, RecordAll, AfterAll, PlanEvents
  <2>2. Kept(rows, AfterAll(rows, <<At("agent_plan_model_call"), At("agent_plan_created")>>))
    BY QuietlyTwo DEF Loud, CreativeEvents
  <2>3. Quietly
    BY <2>1, <2>2 DEF Quietly
  <2>4. QED
    BY <1>7, <2>3 DEF Plan, RowsMove
<1>8. CASE ModelChooses
  <2>1. PICK reply \in Replies : Choose(reply.kind, <<>>)
    BY <1>8 DEF ModelChooses
  <2>2. Quietly
    BY <2>1, ChoiceIsQuiet
  <2>3. QED
    BY <2>1, <2>2 DEF Choose, RowsMove
<1>9. CASE ModelErrs
  <2>1. Quietly
    BY <1>9, ErrsQuietly
  <2>2. QED
    BY <1>9, <2>1 DEF ModelErrs, FallBack, Choose, Raise, RowsMove
<1>10. CASE ModelTimesOut
  <2>1. Quietly
    BY <1>10, TimesOutQuietly DEF ModelTimesOut
  <2>2. QED
    BY <1>10, <2>1 DEF ModelTimesOut, TimesOut, Raise, RowsMove
<1>11. CASE ModelIsBusy
  <2>1. Quietly
    BY <1>11, TimesOutQuietly DEF ModelIsBusy, Quietly
  <2>2. QED
    BY <1>11, <2>1 DEF ModelIsBusy, TimesOut, Raise, RowsMove
<1>12. CASE ModelBreaks
  BY <1>12 DEF ModelBreaks, RowsMove, Quietly, Raise
<1>13. CASE Handoff
  <2>1. \/ rows' = AfterAll(rows, <<At("follow_handoff_wait")>>)
        \/ rows' = rows
    BY <1>13, AfterNone DEF Handoff, RecordAll, AfterAll
  <2>2. Kept(rows, AfterAll(rows, <<At("follow_handoff_wait")>>))
    BY QuietlyOne DEF Loud, CreativeEvents
  <2>3. Quietly
    BY <2>1, <2>2 DEF Quietly
  <2>4. QED
    BY <1>13, <2>3 DEF Handoff, RowsMove
<1>14. CASE Lookup
  <2>1. PICK r \in {"ok", "failed"} : Returns(r, <<At("knowledge_tool_call")>>)
    BY <1>14 DEF Lookup
  <2>2. Stepped(rows, rows', step)
    BY <2>1, ReturnSteps DEF Loud, CreativeEvents
  <2>3. QED
    BY <1>14, <2>1, <2>2 DEF Lookup, Returns, RowsMove
<1>15. CASE RuntimeActs
  <2>1. PICK r \in Results : Returns(r, <<>>)
    BY <1>15 DEF RuntimeActs
  <2>2. "runtime_action_timeout" \notin Loud
    BY DEF Loud, CreativeEvents
  <2>3. Stepped(rows, rows', step)
    BY <2>1, <2>2, ReturnSteps
  <2>4. QED
    BY <1>15, <2>1, <2>3 DEF RuntimeActs, Returns, RowsMove
<1>16. CASE ActTimesOut
  <2>1. Returns("action_timeout", <<At("runtime_action_timeout")>>)
    BY <1>16 DEF ActTimesOut
  <2>2. "runtime_action_timeout" \notin Loud
    BY DEF Loud, CreativeEvents
  <2>3. Stepped(rows, rows', step)
    BY <2>1, <2>2, ReturnSteps
  <2>4. QED
    BY <1>16, <2>1, <2>3 DEF ActTimesOut, Returns, RowsMove
<1>17. CASE ActRaises
  <2>1. step \in Rounds \cup {NoStep}
    BY DEF TypeOK
  <2>2. Quietly
    BY <1>17, <2>1, ErrorIsQuiet DEF ActRaises
  <2>3. QED
    BY <1>17, <2>2 DEF ActRaises, RuntimeError, Raise, RowsMove
<1>18. CASE Submit
  <2>1. PICK r \in {"ok", "failed"} : Returns(r, <<At("agent_finish_requested")>>)
    BY <1>18 DEF Submit
  <2>2. "agent_finish_requested" \notin Loud
    BY DEF Loud, CreativeEvents
  <2>3. Stepped(rows, rows', step)
    BY <2>1, <2>2, ReturnSteps
  <2>4. QED
    BY <1>18, <2>1, <2>3 DEF Submit, Returns, RowsMove
<1>19. CASE Revise
  <2>1. \/ rows' = AfterAll(rows, <<At("agent_plan_model_call"), At("agent_plan_revised")>>)
        \/ rows' = rows
    BY <1>19 DEF Revise, RecordAll, AfterAll, PlanEvents
  <2>2. Kept(rows, AfterAll(rows, <<At("agent_plan_model_call"), At("agent_plan_revised")>>))
    BY QuietlyTwo DEF Loud, CreativeEvents
  <2>3. Quietly
    BY <2>1, <2>2 DEF Quietly
  <2>4. QED
    BY <1>19, <2>3 DEF Revise, RowsMove
<1>20. CASE Save
  <2>1. \/ rows' = AfterAll(rows, <<At("checkpoint_saved")>>)
        \/ rows' = rows
    BY <1>20 DEF Save, RecordAll, AfterAll
  <2>2. Kept(rows, AfterAll(rows, <<At("checkpoint_saved")>>))
    BY QuietlyOne DEF Loud, CreativeEvents
  <2>3. Quietly
    BY <2>1, <2>2 DEF Quietly
  <2>4. QED
    BY <1>20, <2>3 DEF Save, RowsMove
<1>21. CASE CheckResult
  BY <1>21 DEF CheckResult, RowsMove, Quietly, Raise, Stop
<1>22. CASE CheckSubmission
  <2>1. Quietly \/ (task.external /\ Opened(rows, rows'))
    BY <1>22, SubmissionChecked
  <2>2. pc' # "revise"
    BY <1>22 DEF CheckSubmission, Stop, NextStep
  <2>3. QED
    BY <2>1, <2>2 DEF RowsMove
<1>23. CASE CheckSuccess
  <2>1. \/ rows' = AfterAll(rows, <<At("step_verifier_result")>>)
        \/ rows' = rows
    BY <1>23, AfterNone DEF CheckSuccess, RecordAll, AfterAll
  <2>2. Kept(rows, AfterAll(rows, <<At("step_verifier_result")>>))
    BY QuietlyOne DEF Loud, CreativeEvents
  <2>3. Quietly
    BY <2>1, <2>2 DEF Quietly
  <2>4. QED
    BY <1>23, <2>3 DEF CheckSuccess, RowsMove, Stop, NextStep
<1>24. CASE Finish
  <2>1. rows' = AfterAll(rows, <<Event("run_finished", NoStep, stop)>>)
    BY <1>24 DEF Finish, RecordAll, AfterAll
  <2>2. Kept(rows, AfterAll(rows, <<Event("run_finished", NoStep, stop)>>))
    BY QuietEvents DEF TypeOK, Loud, CreativeEvents
  <2>3. QED
    BY <1>24, <2>1, <2>2 DEF Finish, RowsMove, Quietly
<1>25. CASE RuntimeFailure
  <2>1. rows' = AfterAll(rows, <<At("run_runtime_error")>>)
    BY <1>25 DEF RuntimeFailure, RecordAll, AfterAll
  <2>2. Kept(rows, AfterAll(rows, <<At("run_runtime_error")>>))
    BY QuietlyOne DEF Loud, CreativeEvents
  <2>3. Quietly
    BY <2>1, <2>2 DEF Quietly
  <2>4. QED
    BY <1>25, <2>3 DEF RuntimeFailure, RowsMove
<1>26. CASE Verify
  <2>1. PICK verdict : rows' = AfterAll(rows, <<Event("verifier_result", NoStep, verdict)>>)
    BY <1>26 DEF Verify, RecordAll, AfterAll
  <2>2. Kept(rows, AfterAll(rows, <<Event("verifier_result", NoStep, verdict)>>))
    BY QuietEvents DEF TypeOK, Loud, CreativeEvents
  <2>3. QED
    BY <1>26, <2>1, <2>2 DEF Verify, RowsMove, Quietly
<1>27. CASE Inconclusive
  <2>1. rows' = AfterAll(rows, <<Plainly("run_verification_inconclusive")>>)
    BY <1>27 DEF Inconclusive, RecordAll, AfterAll
  <2>2. Kept(rows, AfterAll(rows, <<Plainly("run_verification_inconclusive")>>))
    BY QuietlyOne DEF Loud, CreativeEvents
  <2>3. Quietly
    BY <2>1, <2>2 DEF Quietly
  <2>4. QED
    BY <1>27, <2>3 DEF Inconclusive, RowsMove
<1>28. CASE VerifierRaises
  BY <1>28 DEF VerifierRaises, RowsMove, Quietly, Raise
<1>29. CASE Handle
  <2>1. Quietly
    BY <1>29, HandlesQuietly DEF Handle, Placed
  <2>2. QED
    BY <1>29, <2>1 DEF Handle, RowsMove
<1>30. CASE Close
  <2>1. \/ rows' = AfterAll(rows, <<Plainly("runtime_error")>>)
        \/ rows' = rows
    BY <1>30, AfterNone DEF Close, RecordAll, AfterAll
  <2>2. Kept(rows, AfterAll(rows, <<Plainly("runtime_error")>>))
    BY QuietlyOne DEF Loud, CreativeEvents
  <2>3. Quietly
    BY <2>1, <2>2 DEF Quietly
  <2>4. QED
    BY <1>30, <2>3 DEF Close, RowsMove
<1>31. QED
  BY <1>1, <1>2, <1>3, <1>4, <1>5, <1>6, <1>7, <1>8, <1>9, <1>10, <1>11, <1>12, <1>13, <1>14,
     <1>15, <1>16, <1>17, <1>18, <1>19, <1>20, <1>21, <1>22, <1>23, <1>24, <1>25, <1>26,
     <1>27, <1>28, <1>29, <1>30 DEF Attempt

LEMMA EnvironmentRows ==
  ASSUME TypeOK, Placed, Environment
  PROVE  RowsMove
<1>1. CASE TimeLimit
  BY <1>1 DEF TimeLimit, RowsMove, Quietly, Raise
<1>2. CASE Cancel
  BY <1>2 DEF Cancel, RowsMove, Quietly, Raise
<1>3. CASE Lose
  BY <1>3 DEF Lose, RowsMove, Quietly, Raise
<1>4. CASE Guard
  <2>1. rows' = AfterAll(rows, <<Plainly("run_interrupted")>>)
    BY <1>4 DEF Guard, RecordAll, AfterAll
  <2>2. Kept(rows, AfterAll(rows, <<Plainly("run_interrupted")>>))
    BY QuietlyOne DEF Loud, CreativeEvents
  <2>3. Quietly
    BY <2>1, <2>2 DEF Quietly
  <2>4. QED
    BY <1>4, <2>3 DEF Guard, RowsMove
<1>5. CASE Resume
  BY <1>5 DEF Resume, RowsMove, Quietly, Raise
<1>6. CASE Evaluate
  <2>1. Opened(rows, rows')
    BY <1>6, EvidenceOpens
  <2>2. QED
    BY <1>6, <2>1 DEF Evaluate, RowsMove
<1>7. CASE Advise
  <2>1. rows' = AfterAll(rows, <<Event("verifier_result", NoStep, "advisory")>>)
    BY <1>7 DEF Advise, RecordAll, AfterAll
  <2>2. Kept(rows, AfterAll(rows, <<Event("verifier_result", NoStep, "advisory")>>))
    BY QuietEvents DEF TypeOK, Loud, CreativeEvents
  <2>3. pc' = "done"
    BY <1>7 DEF Advise, Placed, None
  <2>4. QED
    BY <2>1, <2>2, <2>3 DEF RowsMove, Quietly
<1>8. CASE Review
  <2>1. DecidedBy(rows, rows')
    BY <1>8, ReviewDecides
  <2>2. QED
    BY <1>8, <2>1 DEF Review, RowsMove
<1>9. QED
  BY <1>1, <1>2, <1>3, <1>4, <1>5, <1>6, <1>7, <1>8 DEF Environment

-----------------------------------------------------------------------------
(* The types                                                               *)

(* TypeOK without the rows.                                                *)
Retries == [repair : 0 .. MaxAttempts, timeout : 0 .. TimeoutRetries,
            transient : 0 .. TransientRetries]
TypedAttempt ==
  /\ task \in Tasks /\ pc \in Phases /\ step \in Rounds /\ calls \in Nat
  /\ retry \in Retries
  /\ action \in ActionKinds \cup {None, Fallback}
  /\ result \in Results \cup {None, "action_timeout"}
  /\ submission \in Verdicts \cup {None}
  /\ revisions \in NoStep .. MaxRevisions
  /\ stop \in StopReasons \cup {None} /\ raised \in Errors \cup {None}
  /\ checkpoint \in Rounds /\ losses \in 0 .. MaxLosses
  /\ outcome \in Statuses \cup {None} /\ evaluation \in {None, "evidence", "verdict"}

Repaired(r) == [NoRetry EXCEPT !.repair = r.repair + 1]
Waited(r) == [r EXCEPT !.timeout = r.timeout + 1, !.transient = 0]
AskedAgain(r) == [r EXCEPT !.transient = r.transient + 1]

LEMMA RetryTyped ==
  /\ NoRetry \in Retries
  /\ \A r \in Retries :
       /\ r.repair < MaxAttempts =>
            Repaired(r) \in Retries
       /\ r.timeout < TimeoutRetries =>
            Waited(r) \in Retries
       /\ r.transient < TransientRetries =>
            AskedAgain(r) \in Retries
<1> USE BoundsAssumption
<1>1. NoRetry \in Retries
  BY DEF NoRetry, Retries
<1>2. ASSUME NEW r \in Retries, r.repair < MaxAttempts
      PROVE  Repaired(r) \in Retries
  BY <1>2 DEF NoRetry, Retries, Repaired
<1>3. ASSUME NEW r \in Retries, r.timeout < TimeoutRetries
      PROVE  Waited(r) \in Retries
  <2>1. PICK t, z : t = r.timeout + 1 /\ z = 0
    OBVIOUS
  <2>2. t \in 0 .. TimeoutRetries /\ z \in 0 .. TransientRetries
    BY <1>3, <2>1 DEF Retries
  <2>3. [r EXCEPT !.timeout = t, !.transient = z] \in Retries
    BY <2>2 DEF Retries
  <2>4. QED
    BY <2>1, <2>3 DEF Waited
<1>4. ASSUME NEW r \in Retries, r.transient < TransientRetries
      PROVE  AskedAgain(r) \in Retries
  BY <1>4 DEF Retries, AskedAgain
<1>5. QED
  BY <1>1, <1>2, <1>3, <1>4

LEMMA AttemptTyped ==
  ASSUME TypedAttempt, Placed, Attempt
  PROVE  TypedAttempt'
<1> USE StepsAssumption, BoundsAssumption
<1>1. CASE LoadFails
  BY <1>1 DEF TypedAttempt, LoadFails, turn, ending, outside, Statuses, Operational, Phases
<1>2. CASE Start
  BY <1>2 DEF TypedAttempt, Start, turn, ending, outside, Rounds, NoStep, Phases
<1>3. CASE ResetRaises
  BY <1>3 DEF TypedAttempt, ResetRaises, RuntimeError, Raise, turn, ending, outside, Errors,
    Phases
<1>4. CASE StepsExhausted
  BY <1>4 DEF TypedAttempt, StepsExhausted, turn, ending, outside, StopReasons, Phases
<1>5. CASE Observe
  BY <1>5 DEF TypedAttempt, Observe, turn, ending, outside, StopReasons, Phases
<1>6. CASE ObserveRaises
  BY <1>6 DEF TypedAttempt, ObserveRaises, RuntimeError, Raise, turn, ending, outside,
    Errors, Phases
<1>7. CASE Plan
  <2>1. retry' \in Retries /\ calls' \in Nat
    BY <1>7, RetryTyped DEF Plan, Forget
  <2>2. QED
    BY <1>7, <2>1 DEF TypedAttempt, Plan, Forget, turn, ending, outside, NoStep, Phases
<1>8. CASE ModelChooses
  <2>1. Forget
    BY <1>8 DEF ModelChooses, Choose, Repaired, Waited, AskedAgain
  <2>2. retry' \in Retries /\ calls' \in Nat
    BY <2>1, RetryTyped DEF Forget, TypedAttempt
  <2>3. QED
    BY <1>8, <2>2 DEF TypedAttempt, ModelChooses, Choose, Forget, turn, ending, outside,
      Usable, Offered, ActionKinds, Phases
<1>9. CASE ModelErrs
  <2>1. \/ Forget
        \/ /\ retry.repair < MaxAttempts
           /\ calls' = calls + 1
           /\ retry' = Repaired(retry)
    BY <1>9 DEF ModelErrs, FallBack, Choose, Repaired, Waited, AskedAgain
  <2>2. retry' \in Retries /\ calls' \in Nat
    BY <2>1, RetryTyped DEF Forget, TypedAttempt
  <2>3. QED
    BY <1>9, <2>2 DEF TypedAttempt, ModelErrs, FallBack, Choose, Raise, Forget, turn,
      ending, outside, Errors, Phases
<1>10. CASE ModelTimesOut
  <2>1. \/ Forget
        \/ /\ retry.timeout < TimeoutRetries
           /\ calls' = calls + 1
           /\ retry' = Waited(retry)
    BY <1>10 DEF ModelTimesOut, TimesOut, Repaired, Waited, AskedAgain
  <2>2. retry' \in Retries /\ calls' \in Nat
    BY <2>1, RetryTyped DEF Forget, TypedAttempt
  <2>3. QED
    BY <1>10, <2>2 DEF TypedAttempt, ModelTimesOut, TimesOut, Raise, Forget, turn, ending,
      outside, Errors, Phases
<1>11. CASE ModelIsBusy
  <2>1. \/ Forget
        \/ /\ retry.timeout < TimeoutRetries
           /\ calls' = calls + 1
           /\ retry' = Waited(retry)
        \/ /\ retry.transient < TransientRetries
           /\ calls' = calls + 1
           /\ retry' = AskedAgain(retry)
    BY <1>11 DEF ModelIsBusy, TimesOut, Repaired, Waited, AskedAgain
  <2>2. retry' \in Retries /\ calls' \in Nat
    BY <2>1, RetryTyped DEF Forget, TypedAttempt
  <2>3. QED
    BY <1>11, <2>2 DEF TypedAttempt, ModelIsBusy, TimesOut, Raise, Forget, turn, ending,
      outside, Errors, Phases
<1>12. CASE ModelBreaks
  BY <1>12, RetryTyped DEF TypedAttempt, ModelBreaks, Raise, Forget, turn, ending, outside,
    Errors, Phases
<1>13. CASE Handoff
  BY <1>13 DEF TypedAttempt, Handoff, turn, ending, outside, Phases
<1>14. CASE Lookup
  BY <1>14 DEF TypedAttempt, Lookup, Returns, turn, ending, outside, Results, Phases
<1>15. CASE RuntimeActs
  BY <1>15 DEF TypedAttempt, RuntimeActs, Returns, turn, ending, outside, Phases
<1>16. CASE ActTimesOut
  BY <1>16 DEF TypedAttempt, ActTimesOut, Returns, turn, ending, outside, Phases
<1>17. CASE ActRaises
  BY <1>17 DEF TypedAttempt, ActRaises, RuntimeError, Raise, turn, ending, outside, Errors,
    Phases
<1>18. CASE Submit
  BY <1>18 DEF TypedAttempt, Submit, Returns, turn, ending, outside, Results, Accepted,
    AskedVerdicts, TaskVerdicts, Verdicts, Phases
<1>19. CASE Revise
  BY <1>19 DEF TypedAttempt, Revise, turn, ending, outside, ShouldRevise, NoStep, Phases
<1>20. CASE Save
  BY <1>20 DEF TypedAttempt, Save, turn, ending, outside, Rounds, Placed, Stepping, Phases
<1>21. CASE CheckResult
  BY <1>21 DEF TypedAttempt, CheckResult, Stop, turn, ending, outside, StopReasons, Phases
<1>22. CASE CheckSubmission
  BY <1>22 DEF TypedAttempt, CheckSubmission, Stop, NextStep, turn, ending, outside,
    StopReasons, AcceptedAs, Rounds, Placed, Stepping, Phases
<1>23. CASE CheckSuccess
  BY <1>23 DEF TypedAttempt, CheckSuccess, Stop, NextStep, turn, ending, outside,
    StopReasons, Rounds, Placed, Stepping, Phases
<1>24. CASE Finish
  BY <1>24 DEF TypedAttempt, Finish, turn, ending, outside, Phases
<1>25. CASE RuntimeFailure
  BY <1>25 DEF TypedAttempt, RuntimeFailure, turn, ending, outside, Statuses, Operational,
    Phases
<1>26. CASE Verify
  BY <1>26 DEF TypedAttempt, Verify, turn, ending, outside, Statuses, Operational, Phases
<1>27. CASE Inconclusive
  BY <1>27 DEF TypedAttempt, Inconclusive, turn, ending, outside, Phases
<1>28. CASE VerifierRaises
  BY <1>28 DEF TypedAttempt, VerifierRaises, Raise, turn, ending, outside, Errors, Phases
<1>29. CASE Handle
  BY <1>29 DEF TypedAttempt, Handle, turn, ending, outside, Statuses, Operational, Phases
<1>30. CASE Close
  BY <1>30 DEF TypedAttempt, Close, turn, ending, outside, Phases
<1>31. QED
  BY <1>1, <1>2, <1>3, <1>4, <1>5, <1>6, <1>7, <1>8, <1>9, <1>10, <1>11, <1>12, <1>13,
    <1>14, <1>15,
     <1>16, <1>17, <1>18, <1>19, <1>20, <1>21, <1>22, <1>23, <1>24, <1>25, <1>26, <1>27,
     <1>28, <1>29, <1>30 DEF Attempt

LEMMA EnvironmentTyped ==
  ASSUME TypedAttempt, Placed, Environment
  PROVE  TypedAttempt'
<1> USE StepsAssumption, BoundsAssumption
<1>1. CASE TimeLimit
  BY <1>1, RetryTyped DEF TypedAttempt, TimeLimit, Raise, Forget, turn, ending, outside,
    Phases, Errors
<1>2. CASE Cancel
  BY <1>2, RetryTyped DEF TypedAttempt, Cancel, Raise, Forget, turn, ending, outside,
    Phases, Errors
<1>3. CASE Lose
  BY <1>3 DEF TypedAttempt, Lose, turn, ending, outside, Phases
<1>4. CASE Guard
  BY <1>4 DEF TypedAttempt, Guard, turn, ending, outside, Phases, Errors, Statuses
<1>5. CASE Resume
  <2>1. retry' \in Retries
    BY <1>5, RetryTyped DEF Resume
  <2>2. QED
    BY <1>5, <2>1 DEF TypedAttempt, Resume, turn, ending, outside, Phases, Rounds, NoStep
<1>6. CASE Evaluate
  BY <1>6 DEF TypedAttempt, Evaluate, turn, ending, outside, Phases
<1>7. CASE Advise
  BY <1>7 DEF TypedAttempt, Advise, turn, ending, outside, Phases
<1>8. CASE Review
  BY <1>8 DEF TypedAttempt, Review, turn, ending, outside, Phases
<1>9. QED
  BY <1>1, <1>2, <1>3, <1>4, <1>5, <1>6, <1>7, <1>8 DEF Environment

-----------------------------------------------------------------------------
(* Where a step goes                                                       *)

(* Of Placed what does not look at the rows.                               *)
PlacedPc ==
  /\ pc \in Stepping => step < MaxSteps
  /\ pc = "raised" => raised # None
  /\ pc = "lost" => losses > 0
  /\ evaluation # None => pc = "done"
  /\ pc = "load" /\ losses = 0 => checkpoint = 0

(* The rounds: begun where the checkpoint is, or after the one before.     *)
Onwards == {<<"observe", "plan">>, <<"plan", "model">>, <<"model", "model">>,
            <<"model", "handoff">>, <<"model", "act">>, <<"handoff", "act">>,
            <<"act", "revise">>, <<"revise", "save">>}
PcMove ==
  \/ /\ pc' \notin {"observe"} \cup Stepping
     /\ step' = step \/ (pc' = "load" /\ step' = 0)
     /\ checkpoint' = checkpoint
  \/ pc = "load" /\ pc' = "observe" /\ step' = checkpoint /\ checkpoint' = checkpoint
  \/ <<pc, pc'>> \in Onwards /\ step' = step /\ checkpoint' = checkpoint
  \/ pc = "save" /\ pc' = "check" /\ step' = step /\ checkpoint' \in {checkpoint, step + 1}
  \/ pc = "check" /\ pc' = "observe" /\ step' = step + 1 /\ checkpoint' = checkpoint
  \/ pc' = pc /\ step' = step /\ checkpoint' = checkpoint

CallsMove ==
  pc' = "model" =>
    \/ calls' = 0 /\ retry' = NoRetry
    \/ pc = "model" /\ calls' = calls /\ retry' = retry
    \/ /\ pc = "model" /\ calls' = calls + 1
       /\ \/ retry.repair < MaxAttempts /\ retry' = Repaired(retry)
          \/ retry.timeout < TimeoutRetries /\ retry' = Waited(retry)
          \/ retry.transient < TransientRetries /\ retry' = AskedAgain(retry)

Moves == PcMove /\ CallsMove /\ PlacedPc' /\ task' = task

LEMMA AttemptMoves ==
  ASSUME TypedAttempt, Placed, Attempt
  PROVE  Moves
<1> USE StepsAssumption, BoundsAssumption
<1>1. CASE LoadFails
  BY <1>1 DEF LoadFails, turn, ending, outside, TypedAttempt, Phases, Errors, Rounds,
    Placed, Stepping, None, Moves, PcMove, Onwards, CallsMove, PlacedPc, Resumed
<1>2. CASE Start
  BY <1>2 DEF Start, turn, ending, outside, TypedAttempt, Phases, Errors, Rounds, Placed,
    Stepping, None, Moves, PcMove, Onwards, CallsMove, PlacedPc, Resumed
<1>3. CASE ResetRaises
  BY <1>3 DEF ResetRaises, RuntimeError, Raise, turn, ending, outside, TypedAttempt, Phases,
    Errors, Rounds, Placed, Stepping, None, Moves, PcMove, Onwards, CallsMove, PlacedPc
<1>4. CASE StepsExhausted
  BY <1>4 DEF StepsExhausted, turn, ending, outside, TypedAttempt, Phases, Errors, Rounds,
    Placed, Stepping, None, Moves, PcMove, Onwards, CallsMove, PlacedPc
<1>5. CASE Observe
  BY <1>5 DEF Observe, turn, ending, outside, TypedAttempt, Phases, Errors, Rounds, Placed,
    Stepping, None, Moves, PcMove, Onwards, CallsMove, PlacedPc
<1>6. CASE ObserveRaises
  BY <1>6 DEF ObserveRaises, RuntimeError, Raise, turn, ending, outside, TypedAttempt,
    Phases, Errors, Rounds, Placed, Stepping, None, Moves, PcMove, Onwards, CallsMove,
    PlacedPc
<1>7. CASE Plan
  BY <1>7 DEF Plan, Forget, turn, ending, outside, TypedAttempt, Phases, Errors, Rounds,
    Placed, Stepping, None, Moves, PcMove, Onwards, CallsMove, PlacedPc
<1>8. CASE ModelChooses
  BY <1>8 DEF ModelChooses, Choose, Forget, turn, ending, outside, TypedAttempt, Phases,
    Errors, Rounds, Placed, Stepping, None, Moves, PcMove, Onwards, CallsMove, PlacedPc
<1>9. CASE ModelErrs
  BY <1>9 DEF ModelErrs, FallBack, Choose, Raise, Forget, turn, ending, outside,
    TypedAttempt, Phases, Errors, Rounds, Placed, Stepping, None, Moves, PcMove, Onwards,
    CallsMove, PlacedPc, Repaired, Waited, AskedAgain
<1>10. CASE ModelTimesOut
  BY <1>10 DEF ModelTimesOut, TimesOut, Raise, Forget, turn, ending, outside, TypedAttempt,
    Phases, Errors, Rounds, Placed, Stepping, None, Moves, PcMove, Onwards, CallsMove,
    PlacedPc, Repaired, Waited, AskedAgain
<1>11. CASE ModelIsBusy
  BY <1>11 DEF ModelIsBusy, TimesOut, Raise, Forget, turn, ending, outside, TypedAttempt,
    Phases, Errors, Rounds, Placed, Stepping, None, Moves, PcMove, Onwards, CallsMove,
    PlacedPc, Repaired, Waited, AskedAgain
<1>12. CASE ModelBreaks
  BY <1>12 DEF ModelBreaks, Raise, Forget, turn, ending, outside, TypedAttempt, Phases,
    Errors, Rounds, Placed, Stepping, None, Moves, PcMove, Onwards, CallsMove, PlacedPc
<1>13. CASE Handoff
  BY <1>13 DEF Handoff, turn, ending, outside, TypedAttempt, Phases, Errors, Rounds, Placed,
    Stepping, None, Moves, PcMove, Onwards, CallsMove, PlacedPc
<1>14. CASE Lookup
  BY <1>14 DEF Lookup, Returns, turn, ending, outside, TypedAttempt, Phases, Errors, Rounds,
    Placed, Stepping, None, Moves, PcMove, Onwards, CallsMove, PlacedPc
<1>15. CASE RuntimeActs
  BY <1>15 DEF RuntimeActs, Returns, turn, ending, outside, TypedAttempt, Phases, Errors,
    Rounds, Placed, Stepping, None, Moves, PcMove, Onwards, CallsMove, PlacedPc
<1>16. CASE ActTimesOut
  BY <1>16 DEF ActTimesOut, Returns, turn, ending, outside, TypedAttempt, Phases, Errors,
    Rounds, Placed, Stepping, None, Moves, PcMove, Onwards, CallsMove, PlacedPc
<1>17. CASE ActRaises
  BY <1>17 DEF ActRaises, RuntimeError, Raise, turn, ending, outside, TypedAttempt, Phases,
    Errors, Rounds, Placed, Stepping, None, Moves, PcMove, Onwards, CallsMove, PlacedPc
<1>18. CASE Submit
  BY <1>18 DEF Submit, Returns, turn, ending, outside, TypedAttempt, Phases, Errors, Rounds,
    Placed, Stepping, None, Moves, PcMove, Onwards, CallsMove, PlacedPc
<1>19. CASE Revise
  BY <1>19 DEF Revise, turn, ending, outside, TypedAttempt, Phases, Errors, Rounds, Placed,
    Stepping, None, Moves, PcMove, Onwards, CallsMove, PlacedPc
<1>20. CASE Save
  BY <1>20 DEF Save, turn, ending, outside, TypedAttempt, Phases, Errors, Rounds, Placed,
    Stepping, None, Moves, PcMove, Onwards, CallsMove, PlacedPc
<1>21. CASE CheckResult
  BY <1>21 DEF CheckResult, Stop, turn, ending, outside, TypedAttempt, Phases, Errors,
    Rounds, Placed, Stepping, None, Moves, PcMove, Onwards, CallsMove, PlacedPc
<1>22. CASE CheckSubmission
  BY <1>22 DEF CheckSubmission, Stop, NextStep, turn, ending, outside, TypedAttempt, Phases,
    Errors, Rounds, Placed, Stepping, None, Moves, PcMove, Onwards, CallsMove, PlacedPc
<1>23. CASE CheckSuccess
  BY <1>23 DEF CheckSuccess, Stop, NextStep, turn, ending, outside, TypedAttempt, Phases,
    Errors, Rounds, Placed, Stepping, None, Moves, PcMove, Onwards, CallsMove, PlacedPc
<1>24. CASE Finish
  BY <1>24 DEF Finish, turn, ending, outside, TypedAttempt, Phases, Errors, Rounds, Placed,
    Stepping, None, Moves, PcMove, Onwards, CallsMove, PlacedPc
<1>25. CASE RuntimeFailure
  BY <1>25 DEF RuntimeFailure, turn, ending, outside, TypedAttempt, Phases, Errors, Rounds,
    Placed, Stepping, None, Moves, PcMove, Onwards, CallsMove, PlacedPc
<1>26. CASE Verify
  BY <1>26 DEF Verify, turn, ending, outside, TypedAttempt, Phases, Errors, Rounds, Placed,
    Stepping, None, Moves, PcMove, Onwards, CallsMove, PlacedPc
<1>27. CASE Inconclusive
  BY <1>27 DEF Inconclusive, turn, ending, outside, TypedAttempt, Phases, Errors, Rounds,
    Placed, Stepping, None, Moves, PcMove, Onwards, CallsMove, PlacedPc
<1>28. CASE VerifierRaises
  BY <1>28 DEF VerifierRaises, Raise, turn, ending, outside, TypedAttempt, Phases, Errors,
    Rounds, Placed, Stepping, None, Moves, PcMove, Onwards, CallsMove, PlacedPc
<1>29. CASE Handle
  BY <1>29 DEF Handle, turn, ending, outside, TypedAttempt, Phases, Errors, Rounds, Placed,
    Stepping, None, Moves, PcMove, Onwards, CallsMove, PlacedPc
<1>30. CASE Close
  BY <1>30 DEF Close, turn, ending, outside, TypedAttempt, Phases, Errors, Rounds, Placed,
    Stepping, None, Moves, PcMove, Onwards, CallsMove, PlacedPc
<1>31. QED
  BY <1>1, <1>2, <1>3, <1>4, <1>5, <1>6, <1>7, <1>8, <1>9, <1>10, <1>11, <1>12, <1>13,
    <1>14, <1>15,
     <1>16, <1>17, <1>18, <1>19, <1>20, <1>21, <1>22, <1>23, <1>24, <1>25, <1>26, <1>27,
     <1>28, <1>29, <1>30 DEF Attempt

LEMMA EnvironmentMoves ==
  ASSUME TypedAttempt, Placed, Environment
  PROVE  Moves
<1> USE StepsAssumption, BoundsAssumption
<1>1. CASE TimeLimit
  BY <1>1 DEF TimeLimit, Raise, Forget, turn, ending, outside, TypedAttempt, Phases, Errors,
    Rounds, Placed, Stepping, None, Moves, PcMove, Onwards, CallsMove, PlacedPc, InLoop
<1>2. CASE Cancel
  BY <1>2 DEF Cancel, Raise, Forget, turn, ending, outside, TypedAttempt, Phases, Errors,
    Rounds, Placed, Stepping, None, Moves, PcMove, Onwards, CallsMove, PlacedPc
<1>3. CASE Lose
  BY <1>3 DEF Lose, turn, ending, outside, TypedAttempt, Phases, Errors, Rounds, Placed,
    Stepping, None, Moves, PcMove, Onwards, CallsMove, PlacedPc
<1>4. CASE Guard
  BY <1>4 DEF Guard, turn, ending, outside, TypedAttempt, Phases, Errors, Rounds, Placed,
    Stepping, None, Moves, PcMove, Onwards, CallsMove, PlacedPc
<1>5. CASE Resume
  BY <1>5 DEF Resume, turn, ending, outside, TypedAttempt, Phases, Errors, Rounds, Placed,
    Stepping, None, Moves, PcMove, Onwards, CallsMove, PlacedPc
<1>6. CASE Evaluate
  BY <1>6 DEF Evaluate, turn, ending, outside, TypedAttempt, Phases, Errors, Rounds, Placed,
    Stepping, None, Moves, PcMove, Onwards, CallsMove, PlacedPc
<1>7. CASE Advise
  BY <1>7 DEF Advise, turn, ending, outside, TypedAttempt, Phases, Errors, Rounds, Placed,
    Stepping, None, Moves, PcMove, Onwards, CallsMove, PlacedPc
<1>8. CASE Review
  BY <1>8 DEF Review, turn, ending, outside, TypedAttempt, Phases, Errors, Rounds, Placed,
    Stepping, None, Moves, PcMove, Onwards, CallsMove, PlacedPc, Decidable, Pending, NoRows
<1>9. QED
  BY <1>1, <1>2, <1>3, <1>4, <1>5, <1>6, <1>7, <1>8 DEF Environment

-----------------------------------------------------------------------------
(* The parts of the invariant that every step keeps                        *)

LEMMA RowsTyped ==
  ASSUME TypeOK, RowsMove
  PROVE  rows' \in Rows /\ (rows' = rows \/ rows'.status # None)
  BY DEF TypeOK, RowsMove, Quietly, Kept, Stepped, Opened, DecidedBy

LEMMA PlacedKept ==
  ASSUME TypeOK, Placed, RowsBegun, RowsMove, Moves, Next
  PROVE  Placed'
<1>1. PlacedPc'
  BY DEF Moves
<1>2. ASSUME evaluation' # None PROVE rows'.status # None
  <2>1. rows' = rows \/ rows'.status # None
    BY RowsTyped
  <2>2. CASE evaluation # None
    BY <2>1, <2>2 DEF Placed
  <2>3. CASE evaluation = None
    <3>1. Evaluate
      BY <1>2, <2>3 DEF Next, Attempt, Environment, LoadFails, Start, ResetRaises, RuntimeError,
        StepsExhausted, Observe, ObserveRaises, Plan, ModelChooses, ModelErrs, ModelTimesOut,
        ModelIsBusy, ModelBreaks, Handoff, Lookup, RuntimeActs, ActTimesOut, ActRaises, Submit,
        Revise, Save, CheckResult, CheckSubmission, CheckSuccess, Finish, RuntimeFailure, Verify,
        Inconclusive, VerifierRaises, Handle, Close, TimeLimit, Cancel, Lose, Guard, Resume,
        Advise, Review, outside, None
    <3>2. QED
      BY <3>1, EvidenceOpens DEF Opened
  <2>4. QED
    BY <2>2, <2>3
<1>3. ASSUME pc' = "load", losses' = 0 PROVE rows' = NoRows /\ checkpoint' = 0
  <2>1. pc = "load" /\ losses = 0 /\ rows' = rows
    BY <1>3 DEF Placed, TypeOK, None, Next, Attempt, Environment, LoadFails, Start, ResetRaises,
      RuntimeError, Raise, StepsExhausted, Observe, ObserveRaises, Plan, ModelChooses, Choose,
      ModelErrs, FallBack, ModelTimesOut, TimesOut, ModelIsBusy, ModelBreaks, Handoff, Lookup,
      Returns, RuntimeActs, ActTimesOut, ActRaises, Submit, Revise, Save, CheckResult, Stop,
      NextStep, CheckSubmission, CheckSuccess, Finish, RuntimeFailure, Verify, Inconclusive,
      VerifierRaises, Handle, Close, TimeLimit, Cancel, Lose, Guard, Resume, Evaluate, Advise,
      Review, Decidable, Pending, NoRows, outside
  <2>2. rows = NoRows
    BY <2>1 DEF Placed
  <2>3. checkpoint' = 0
    BY <1>1, <1>3 DEF PlacedPc
  <2>4. QED
    BY <2>1, <2>2, <2>3
<1>4. QED
  BY <1>1, <1>2, <1>3 DEF Placed, PlacedPc

LEMMA RowsBegunKept ==
  ASSUME TypeOK, RowsBegun, RowsMove, Moves
  PROVE  RowsBegun'
<1>1. rows'.status = None => rows' = NoRows
  BY RowsTyped DEF RowsBegun
<1>2. ASSUME ~task'.external PROVE rows'.review = None
  <2>1. ~task.external /\ rows.review = None
    BY <1>2 DEF Moves, RowsBegun
  <2>2. QED
    BY <2>1 DEF RowsMove, Quietly, Kept, Stepped, Opened, DecidedBy, None
<1>3. QED
  BY <1>1, <1>2 DEF RowsBegun

LEMMA HistoryStaysKept ==
  ASSUME TypeOK, Placed, HistoryKept, RowsMove, Moves
  PROVE  HistoryKept'
<1>1. /\ step \in Rounds /\ checkpoint \in Rounds /\ rows.steps \subseteq Rounds
      /\ rows'.steps \subseteq Rounds
  BY RowsTyped DEF TypeOK, Rows
<1>2. Rounds \subseteq Nat
  BY StepsAssumption DEF Rounds
<1>3. /\ pc' = "revise" /\ pc = "act" => rows'.steps = rows.steps \cup {step}
      /\ ~(pc' = "revise" /\ pc = "act") => rows'.steps = rows.steps
      /\ pc' = "revise" => pc = "act" \/ pc = "revise"
  BY DEF RowsMove, Quietly, Kept, Stepped, Opened, DecidedBy
<1>4. PcMove
  BY DEF Moves
<1>5. \A s \in rows'.steps : 0 .. s \subseteq rows'.steps
  <2>1. CASE ~(pc' = "revise" /\ pc = "act")
    BY <1>3, <2>1 DEF HistoryKept
  <2>2. CASE pc' = "revise" /\ pc = "act"
    <3>1. ASSUME NEW t \in 0 .. step PROVE t \in rows.steps \cup {step}
      <4>1. t \in Rounds /\ (t < step \/ t = step)
        BY <1>1, StepsAssumption DEF Rounds
      <4>2. QED
        BY <4>1 DEF HistoryKept
    <3>2. QED
      BY <1>3, <2>2, <3>1 DEF HistoryKept
  <2>3. QED
    BY <2>1, <2>2
<1>6. ASSUME NEW s \in Rounds, s < step' \/ s < checkpoint'
      PROVE  s \in rows'.steps
  <2>1. rows.steps \subseteq rows'.steps
    BY <1>3
  <2>2. CASE s < step \/ s < checkpoint
    BY <2>1, <2>2 DEF HistoryKept
  <2>3. CASE ~(s < step \/ s < checkpoint)
    <3>1. /\ pc \in {"save", "check"} /\ s = step
      BY <1>1, <1>2, <1>4, <1>6, <2>3 DEF PcMove, Onwards
    <3>2. step \in rows.steps
      BY <3>1 DEF HistoryKept
    <3>3. QED
      BY <2>1, <3>1, <3>2
  <2>4. QED
    BY <2>2, <2>3
<1>7. ASSUME pc' \in {"revise", "save", "check"} PROVE step' \in rows'.steps
  <2>1. step' = step /\ (pc \in {"revise", "save", "check"} \/ (pc = "act" /\ pc' = "revise"))
    BY <1>4, <1>7 DEF PcMove, Onwards, Stepping
  <2>2. QED
    BY <1>3, <2>1 DEF HistoryKept
<1>8. ASSUME pc' \in ({"observe"} \cup Stepping) \ {"check"} PROVE step' >= checkpoint'
  <2>1. checkpoint' = checkpoint
    BY <1>4, <1>8 DEF PcMove, Onwards, Stepping
  <2>2. \/ step' = checkpoint
        \/ step' = step /\ pc \in ({"observe"} \cup Stepping) \ {"check"}
        \/ step' = step + 1 /\ pc = "check"
    BY <1>4, <1>8 DEF PcMove, Onwards, Stepping
  <2>3. QED
    BY <1>1, <1>2, <2>1, <2>2 DEF HistoryKept
<1>9. ASSUME pc' = "check" PROVE step' + 1 >= checkpoint'
  <2>1. step' = step /\ checkpoint' \in {checkpoint, step + 1} /\ pc \in {"save", "check"}
    BY <1>4, <1>9 DEF PcMove, Onwards, Stepping
  <2>2. step + 1 >= checkpoint
    BY <1>1, <1>2, <2>1 DEF HistoryKept, Stepping
  <2>3. QED
    BY <1>1, <1>2, <2>1, <2>2
<1>10. QED
  BY <1>5, <1>6, <1>7, <1>8, <1>9 DEF HistoryKept

LEMMA Grows ==
  ASSUME NEW a \in Nat, NEW b \in Nat, NEW k \in Nat, a <= b
  PROVE  a * k <= b * k
  OBVIOUS

LEMMA RetriesStayCounted ==
  ASSUME TypeOK, RetriesCounted, Moves
  PROVE  RetriesCounted'
<1> USE BoundsAssumption
<1>1. ASSUME pc' = "model"
      PROVE  calls' <= retry'.repair * ((TimeoutRetries + 1) * (TransientRetries + 1))
                         + retry'.timeout * (TransientRetries + 1) + retry'.transient
  <2>1. PICK rep, wait, ask : rep = retry.repair /\ wait = retry.timeout /\ ask = retry.transient
    OBVIOUS
  <2>2. /\ rep \in Nat /\ wait \in Nat /\ ask \in Nat /\ calls \in Nat
        /\ rep <= MaxAttempts /\ wait <= TimeoutRetries /\ ask <= TransientRetries
    BY <2>1 DEF TypeOK
  <2>3. PICK k, m : k = TransientRetries + 1 /\ m = (TimeoutRetries + 1) * k
    OBVIOUS
  <2>4. k \in Nat /\ m \in Nat /\ ask + 1 <= k
    BY <2>2, <2>3
  <2>5. PICK x, y : x = rep * m /\ y = wait * k
    OBVIOUS
  <2>6. x \in Nat /\ y \in Nat /\ (rep + 1) * m = x + m /\ (wait + 1) * k = y + k
    BY <2>2, <2>4, <2>5
  <2>7. y + k <= m
    <3>1. y <= TimeoutRetries * k
      BY <2>2, <2>4, <2>5, Grows
    <3>2. (TimeoutRetries + 1) * k = TimeoutRetries * k + k
      BY <2>4
    <3>3. TimeoutRetries * k \in Nat
      BY <2>4
    <3>4. QED
      BY <2>3, <2>4, <2>6, <3>1, <3>2, <3>3
  <2>8. CallsMove
    BY DEF Moves
  <2>9. pc = "model" => calls <= x + y + ask
    BY <2>1, <2>3, <2>5 DEF RetriesCounted
  <2>10. CASE calls' = 0 /\ retry' = NoRetry
    <3>1. retry'.repair = 0 /\ retry'.timeout = 0 /\ retry'.transient = 0
      BY <2>10 DEF NoRetry
    <3>2. 0 * m = 0 /\ 0 * k = 0
      BY <2>4
    <3>3. QED
      BY <2>3, <2>10, <3>1, <3>2
  <2>11. CASE pc = "model" /\ calls' = calls /\ retry' = retry
    BY <2>1, <2>3, <2>5, <2>9, <2>11
  <2>12. CASE pc = "model" /\ calls' = calls + 1 /\ retry' = Repaired(retry)
    <3>1. retry'.repair = rep + 1 /\ retry'.timeout = 0 /\ retry'.transient = 0
      BY <2>1, <2>12 DEF Repaired, NoRetry
    <3>2. 0 * k = 0
      BY <2>4
    <3>3. calls + 1 <= x + m + 0 + 0
      BY <2>2, <2>4, <2>6, <2>7, <2>9, <2>12
    <3>4. calls' <= (rep + 1) * m + 0 * k + 0
      BY <2>6, <2>12, <3>2, <3>3
    <3>5. QED
      BY <2>3, <3>1, <3>4
  <2>13. CASE pc = "model" /\ calls' = calls + 1 /\ retry' = Waited(retry)
    <3>1. retry'.repair = rep /\ retry'.timeout = wait + 1 /\ retry'.transient = 0
      BY <2>1, <2>13 DEF Waited, TypeOK
    <3>2. calls + 1 <= x + (y + k) + 0
      BY <2>2, <2>4, <2>6, <2>9, <2>13
    <3>3. calls' <= rep * m + (wait + 1) * k + 0
      BY <2>5, <2>6, <2>13, <3>2
    <3>4. QED
      BY <2>3, <3>1, <3>3
  <2>14. CASE pc = "model" /\ calls' = calls + 1 /\ retry' = AskedAgain(retry)
    <3>1. retry'.repair = rep /\ retry'.timeout = wait /\ retry'.transient = ask + 1
      BY <2>1, <2>14 DEF AskedAgain, TypeOK
    <3>2. calls + 1 <= x + y + (ask + 1)
      BY <2>2, <2>6, <2>9, <2>14
    <3>3. calls' <= rep * m + wait * k + (ask + 1)
      BY <2>5, <2>14, <3>2
    <3>4. QED
      BY <2>3, <3>1, <3>3
  <2>15. QED
    BY <1>1, <2>8, <2>10, <2>11, <2>12, <2>13, <2>14 DEF CallsMove
<1>2. QED
  BY <1>1 DEF RetriesCounted

-----------------------------------------------------------------------------
(* What the rows say of the end                                            *)

(* One quiet event on rows that may be there or not.                       *)
LEMMA EventTells ==
  ASSUME NEW d \in Rows, NEW t, NEW s \in Rounds \cup {NoStep}, NEW i, t \notin Loud
  PROVE  LET r == Recorded(d, Event(t, s, i))
         IN /\ Kept(d, r)
            /\ r.status = StatusAfter(Begun(d), Event(t, s, i))
            /\ t \in RunTerminal => NoneActive(r)
            /\ NoneActive(d) /\ s = NoStep => NoneActive(r)
<1>1. PICK e : e = Event(t, s, i)
  OBVIOUS
<1>2. e.type = t /\ e.step = s
  BY <1>1 DEF Event
<1>3. Known(e) /\ e.type # "action_result" /\ ~OpensReview(e) /\ e.type \notin CreativeEvents
  BY <1>2 DEF Known, Loud, OpensReview, CreativeEvents
<1>4. QED
  BY <1>1, <1>2, <1>3, RecordedRows DEF Kept

LEMMA PlainlyTells ==
  ASSUME NEW d, NEW t \in DOMAIN Plain, NEW s, NEW i
  PROVE  StatusAfter(d, Event(t, s, i)) = Plain[t]
<1>1. t \notin {"run_finished", "verifier_result", "run_verification_inconclusive"}
  BY DEF Plain
<1>2. QED
  BY <1>1 DEF StatusAfter, Event

LEMMA PlainNames ==
  /\ "run_failed" \in DOMAIN Plain /\ Plain["run_failed"] = "failed"
  /\ "run_interrupted" \in DOMAIN Plain /\ Plain["run_interrupted"] = "cancelled"
  /\ "run_model_timeout" \in DOMAIN Plain /\ Plain["run_model_timeout"] = "model_timeout"
  /\ "run_task_timeout" \in DOMAIN Plain /\ Plain["run_task_timeout"] = "task_timeout"
  /\ "run_runtime_error" \in DOMAIN Plain /\ Plain["run_runtime_error"] = "runtime_error"
  BY DEF Plain

(* A plain end of the run: its status, its rounds closed.                  *)
LEMMA PlainEnd ==
  ASSUME NEW d \in Rows, NEW s \in Rounds \cup {NoStep},
         NEW t \in {"run_failed", "run_interrupted", "run_model_timeout", "run_task_timeout",
                    "run_runtime_error"}
  PROVE  /\ Recorded(d, Event(t, s, None)).status = Plain[t]
         /\ NoneActive(Recorded(d, Event(t, s, None)))
<1>1. t \in DOMAIN Plain /\ t \notin Loud /\ t \in RunTerminal
  BY PlainNames DEF Loud, CreativeEvents, RunTerminal
<1>2. QED
  BY <1>1, EventTells, PlainlyTells

Ends == {"verify", "inconclusive", "close", "done"}

LEMMA NotYetEnded ==
  ASSUME pc' \notin Ends
  PROVE  EndTells'
  BY DEF Ends, EndTells

LEMMA LoadFailsTells ==
  ASSUME RunInv, LoadFails
  PROVE  EndTells'
<1>1. rows = NoRows /\ rows' = rows /\ pc' = "close"
  BY DEF RunInv, Placed, TypeOK, LoadFails, Resumed
<1>2. NoneActive(rows')
  BY <1>1 DEF NoneActive, NoRows, None
<1>3. QED
  BY <1>1, <1>2 DEF EndTells

LEMMA FinishTells ==
  ASSUME RunInv, Finish
  PROVE  EndTells'
<1>1. PICK r : r = Recorded(rows, Event("run_finished", NoStep, stop))
  OBVIOUS
<1>2. rows' = AfterAll(rows, <<Event("run_finished", NoStep, stop)>>)
  BY DEF Finish, RecordAll, AfterAll
<1>3. rows' = r
  BY <1>1, <1>2, AfterOne
<1>4. "run_finished" \notin Loud /\ "run_finished" \in RunTerminal /\ rows \in Rows
  BY DEF Loud, CreativeEvents, RunTerminal, RunInv, TypeOK
<1>5. /\ r.status = StatusAfter(Begun(rows), Event("run_finished", NoStep, stop))
      /\ r.status # None /\ NoneActive(r)
  BY <1>1, <1>4, EventTells DEF Kept
<1>6. StatusAfter(Begun(rows), Event("run_finished", NoStep, stop)) = StatusWhenFinished(stop)
  BY DEF StatusAfter, Event, Plain
<1>7. r.status \notin Operational
  BY <1>5, <1>6, FinishedStatus
<1>8. NoneActive(rows')
  BY <1>3, <1>5 DEF NoneActive
<1>9. pc' = "verify"
  BY DEF Finish
<1>10. QED
  BY <1>3, <1>5, <1>7, <1>8, <1>9 DEF EndTells

LEMMA RuntimeFailureTells ==
  ASSUME RunInv, RuntimeFailure
  PROVE  EndTells'
<1>1. PICK r : r = Recorded(rows, Event("run_runtime_error", step, None))
  OBVIOUS
<1>2. rows' = AfterAll(rows, <<Event("run_runtime_error", step, None)>>)
  BY DEF RuntimeFailure, RecordAll, AfterAll, At
<1>3. rows' = r
  BY <1>1, <1>2, AfterOne
<1>4. rows \in Rows /\ step \in Rounds
  BY DEF RunInv, TypeOK
<1>5. r.status = "runtime_error" /\ NoneActive(r)
  BY <1>1, <1>4, PlainEnd, PlainNames
<1>6. NoneActive(rows')
  BY <1>3, <1>5 DEF NoneActive
<1>7. pc' = "close" /\ outcome' = "runtime_error"
  BY DEF RuntimeFailure
<1>8. "runtime_error" \in StatusesOf("runtime_error")
  BY DEF StatusesOf, None
<1>9. QED
  BY <1>3, <1>5, <1>6, <1>7, <1>8 DEF EndTells

LEMMA VerifyTells ==
  ASSUME RunInv, Verify
  PROVE  EndTells'
<1>1. PICK verdict \in FinalVerdicts :
        /\ RecordAll(<<Event("verifier_result", NoStep, verdict)>>)
        /\ pc' = IF verdict = "inconclusive" THEN "inconclusive" ELSE "close"
        /\ outcome' = CASE verdict = "success" -> "succeeded"
                        [] verdict = "failure" -> "failed"
                        [] OTHER -> "verification_inconclusive"
  BY DEF Verify
<1>2. PICK r : r = Recorded(rows, Event("verifier_result", NoStep, verdict))
  OBVIOUS
<1>3. rows' = AfterAll(rows, <<Event("verifier_result", NoStep, verdict)>>)
  BY <1>1 DEF RecordAll, AfterAll
<1>4. rows' = r
  BY <1>2, <1>3, AfterOne
<1>5. rows \in Rows /\ rows.status # None /\ NoneActive(rows)
  BY DEF RunInv, TypeOK, EndTells, Verify
<1>6. "verifier_result" \notin Loud
  BY DEF Loud, CreativeEvents
<1>7. /\ Kept(rows, r) /\ NoneActive(r)
      /\ r.status = StatusAfter(Begun(rows), Event("verifier_result", NoStep, verdict))
  BY <1>2, <1>5, <1>6, EventTells
<1>8. r.status = StatusWhenVerified(rows, verdict)
  <2>1. Begun(rows) = rows
    BY <1>5, BegunRows
  <2>2. StatusAfter(rows, Event("verifier_result", NoStep, verdict)) =
          StatusWhenVerified(rows, verdict)
    BY DEF StatusAfter, Event, Plain
  <2>3. QED
    BY <1>7, <2>1, <2>2
<1>9. r.review = rows.review /\ r.status # None
  BY <1>7 DEF Kept
<1>10. ASSUME r.review \notin Decisions
       PROVE  r.status \in StatusesOf(outcome')
  <2>1. rows.status \notin Operational
    BY <1>9, <1>10 DEF RunInv, EndTells, Undecided, Verify
  <2>2. CASE Pending(rows)
    <3>1. task.external
      BY <2>2 DEF Pending, RunInv, RowsBegun, None
    <3>2. verdict = "inconclusive"
      BY <3>1 DEF FinalVerdicts, TaskVerdicts
    <3>3. r.status = "awaiting_human_review"
      BY <1>8, <2>1, <2>2 DEF StatusWhenVerified
    <3>4. outcome' = "verification_inconclusive"
      BY <1>1, <3>2
    <3>5. QED
      BY <3>3, <3>4 DEF StatusesOf, None
  <2>3. CASE ~Pending(rows)
    <3>1. verdict \in {"success", "inconclusive", "failure"}
      BY DEF FinalVerdicts, TaskVerdicts, Verdicts
    <3>2. CASE verdict = "success"
      BY <1>1, <1>8, <2>1, <2>3, <3>2 DEF StatusWhenVerified, StatusesOf, None
    <3>3. CASE verdict = "failure"
      BY <1>1, <1>8, <2>1, <2>3, <3>3 DEF StatusWhenVerified, StatusesOf, None
    <3>4. CASE verdict = "inconclusive"
      BY <1>1, <1>8, <2>1, <2>3, <3>4 DEF StatusWhenVerified, StatusesOf, None
    <3>5. QED
      BY <3>1, <3>2, <3>3, <3>4
  <2>4. QED
    BY <2>2, <2>3
<1>11. NoneActive(rows')
  BY <1>4, <1>7 DEF NoneActive
<1>12. CASE verdict = "inconclusive"
  <2>1. pc' = "inconclusive" /\ outcome' = "verification_inconclusive"
    BY <1>1, <1>12
  <2>2. QED
    BY <1>4, <1>9, <1>10, <1>11, <2>1 DEF EndTells, Undecided
<1>13. CASE verdict # "inconclusive"
  <2>1. pc' = "close"
    BY <1>1, <1>13
  <2>2. QED
    BY <1>4, <1>10, <1>11, <2>1 DEF EndTells, Undecided
<1>14. QED
  BY <1>12, <1>13

LEMMA InconclusiveTells ==
  ASSUME RunInv, Inconclusive
  PROVE  EndTells'
<1>1. PICK r : r = Recorded(rows, Event("run_verification_inconclusive", NoStep, None))
  OBVIOUS
<1>2. rows' = AfterAll(rows, <<Event("run_verification_inconclusive", NoStep, None)>>)
  BY DEF Inconclusive, RecordAll, AfterAll, Plainly
<1>3. rows' = r
  BY <1>1, <1>2, AfterOne
<1>4. rows \in Rows /\ rows.status # None /\ outcome = "verification_inconclusive"
  BY DEF RunInv, TypeOK, EndTells, Inconclusive
<1>5. /\ "run_verification_inconclusive" \notin Loud
      /\ "run_verification_inconclusive" \in RunTerminal
  BY DEF Loud, CreativeEvents, RunTerminal
<1>6. /\ Kept(rows, r) /\ NoneActive(r)
      /\ r.status = StatusAfter(Begun(rows), Event("run_verification_inconclusive", NoStep, None))
  BY <1>1, <1>4, <1>5, EventTells
<1>7. r.status = StatusWhenInconclusive(rows)
  <2>1. Begun(rows) = rows
    BY <1>4, BegunRows
  <2>2. StatusAfter(rows, Event("run_verification_inconclusive", NoStep, None)) =
          StatusWhenInconclusive(rows)
    BY DEF StatusAfter, Event, Plain
  <2>3. QED
    BY <1>6, <2>1, <2>2
<1>8. ASSUME r.review \notin Decisions
      PROVE  r.status \in StatusesOf(outcome)
  <2>1. rows.status \in StatusesOf(outcome)
    BY <1>6, <1>8 DEF Kept, RunInv, EndTells, Undecided, Inconclusive
  <2>2. rows.status \notin Operational
    BY <1>4, <2>1 DEF StatusesOf, Operational, None
  <2>3. QED
    BY <1>4, <1>7, <2>2 DEF StatusWhenInconclusive, StatusesOf, None
<1>9. NoneActive(rows')
  BY <1>3, <1>6 DEF NoneActive
<1>10. pc' = "close" /\ outcome' = outcome
  BY DEF Inconclusive, ending
<1>11. QED
  BY <1>3, <1>8, <1>9, <1>10 DEF EndTells, Undecided

LEMMA HandleTells ==
  ASSUME RunInv, Handle
  PROVE  EndTells'
<1>1. rows \in Rows /\ step \in Rounds /\ raised \in {"model", "timeout", "cancelled", "error"}
  BY DEF RunInv, TypeOK, Placed, Handle, Errors
<1>2. ASSUME NEW r, rows' = r, NoneActive(r), r.status \in StatusesOf(outcome')
      PROVE  EndTells'
  <2>1. NoneActive(rows')
    BY <1>2 DEF NoneActive
  <2>2. pc' = "close"
    BY DEF Handle
  <2>3. QED
    BY <1>2, <2>1, <2>2 DEF EndTells
<1>3. rows' = AfterAll(rows, HandlerEvents)
  BY DEF Handle, RecordAll, AfterAll
<1>4. CASE raised = "model"
  <2>1. PICK r : r = Recorded(rows, Event("run_model_timeout", step, None))
    OBVIOUS
  <2>2. HandlerEvents = <<Event("run_model_timeout", step, None)>>
    BY <1>4 DEF HandlerEvents, At
  <2>3. rows' = r
    BY <1>3, <2>1, <2>2, AfterOne
  <2>4. r.status = "model_timeout" /\ NoneActive(r)
    BY <1>1, <2>1, PlainEnd, PlainNames
  <2>5. outcome' = "model_timeout"
    BY <1>4 DEF Handle
  <2>6. r.status \in StatusesOf(outcome')
    BY <2>4, <2>5 DEF StatusesOf, None
  <2>7. QED
    BY <1>2, <2>3, <2>4, <2>6
<1>5. CASE raised = "timeout"
  <2>1. PICK r : r = Recorded(rows, Event("run_task_timeout", NoStep, None))
    OBVIOUS
  <2>2. HandlerEvents = <<Event("run_task_timeout", NoStep, None)>>
    BY <1>5 DEF HandlerEvents, Plainly
  <2>3. rows' = r
    BY <1>3, <2>1, <2>2, AfterOne
  <2>4. r.status = "task_timeout" /\ NoneActive(r)
    BY <1>1, <2>1, PlainEnd, PlainNames
  <2>5. outcome' = "task_timeout"
    BY <1>5 DEF Handle
  <2>6. r.status \in StatusesOf(outcome')
    BY <2>4, <2>5 DEF StatusesOf, None
  <2>7. QED
    BY <1>2, <2>3, <2>4, <2>6
<1>6. CASE raised = "cancelled"
  <2>1. PICK r : r = Recorded(rows, Event("run_interrupted", NoStep, None))
    OBVIOUS
  <2>2. HandlerEvents = <<Event("run_interrupted", NoStep, None)>>
    BY <1>6 DEF HandlerEvents, Plainly
  <2>3. rows' = r
    BY <1>3, <2>1, <2>2, AfterOne
  <2>4. r.status = "cancelled" /\ NoneActive(r)
    BY <1>1, <2>1, PlainEnd, PlainNames
  <2>5. outcome' = None
    BY <1>6 DEF Handle
  <2>6. r.status \in StatusesOf(outcome')
    BY <2>4, <2>5 DEF StatusesOf, None
  <2>7. QED
    BY <1>2, <2>3, <2>4, <2>6
<1>7. CASE raised = "error"
  <2>1. PICK a : a = Recorded(rows, Event("runtime_error", NoStep, None))
    OBVIOUS
  <2>2. PICK r : r = Recorded(a, Event("run_failed", NoStep, None))
    OBVIOUS
  <2>3. HandlerEvents =
          <<Event("runtime_error", NoStep, None), Event("run_failed", NoStep, None)>>
    BY <1>7 DEF HandlerEvents, Plainly
  <2>4. rows' = r
    BY <1>3, <2>1, <2>2, <2>3, AfterTwo
  <2>5. a \in Rows
    BY <1>1, <2>1, EventTells DEF Kept, Loud, CreativeEvents
  <2>6. r.status = "failed" /\ NoneActive(r)
    BY <2>2, <2>5, PlainEnd, PlainNames
  <2>7. outcome' = "runtime_error"
    BY <1>7 DEF Handle
  <2>8. r.status \in StatusesOf(outcome')
    BY <2>6, <2>7 DEF StatusesOf, None
  <2>9. QED
    BY <1>2, <2>4, <2>6, <2>8
<1>8. QED
  BY <1>1, <1>4, <1>5, <1>6, <1>7

LEMMA CloseTells ==
  ASSUME RunInv, Close
  PROVE  EndTells'
<1>1. pc = "close" /\ pc' = "done" /\ outcome' = outcome /\ evaluation' = evaluation
  BY DEF Close, ending, outside
<1>2. rows \in Rows /\ NoneActive(rows)
  BY <1>1 DEF RunInv, TypeOK, EndTells
<1>3. PICK r : r = Recorded(rows, Event("runtime_error", NoStep, None))
  OBVIOUS
<1>4. rows' = AfterAll(rows, <<>>)
      \/ (rows # NoRows /\ rows' = AfterAll(rows, <<Event("runtime_error", NoStep, None)>>))
  BY DEF Close, RecordAll, AfterAll, Plainly
<1>5. rows' = rows \/ (rows # NoRows /\ rows' = r)
  BY <1>3, <1>4, AfterNone, AfterOne
<1>6. CASE rows' = rows
  <2>1. NoneActive(rows')
    BY <1>2, <1>6 DEF NoneActive
  <2>2. QED
    BY <1>1, <1>6, <2>1 DEF RunInv, EndTells, Undecided
<1>7. CASE rows # NoRows /\ rows' = r
  <2>1. rows.status # None
    BY <1>7 DEF RunInv, RowsBegun
  <2>2. "runtime_error" \notin Loud
    BY DEF Loud, CreativeEvents
  <2>3. /\ Kept(rows, r) /\ NoneActive(r)
        /\ r.status = StatusAfter(Begun(rows), Event("runtime_error", NoStep, None))
    BY <1>2, <1>3, <2>2, EventTells
  <2>4. Begun(rows) = rows
    BY <1>2, <2>1, BegunRows
  <2>5. StatusAfter(rows, Event("runtime_error", NoStep, None)) = rows.status
    BY DEF StatusAfter, Event, Plain
  <2>6. r.status = rows.status /\ r.review = rows.review
    BY <2>3, <2>4, <2>5 DEF Kept
  <2>7. NoneActive(rows')
    BY <1>7, <2>3 DEF NoneActive
  <2>8. QED
    BY <1>1, <1>7, <2>6, <2>7 DEF RunInv, EndTells, Undecided
<1>8. QED
  BY <1>5, <1>6, <1>7

LEMMA GuardTells ==
  ASSUME RunInv, Guard
  PROVE  EndTells'
<1>1. PICK r : r = Recorded(rows, Event("run_interrupted", NoStep, None))
  OBVIOUS
<1>2. rows' = AfterAll(rows, <<Event("run_interrupted", NoStep, None)>>)
  BY DEF Guard, RecordAll, AfterAll, Plainly
<1>3. rows' = r
  BY <1>1, <1>2, AfterOne
<1>4. rows \in Rows
  BY DEF RunInv, TypeOK
<1>5. r.status = "cancelled" /\ NoneActive(r)
  BY <1>1, <1>4, PlainEnd, PlainNames
<1>6. NoneActive(rows')
  BY <1>3, <1>5 DEF NoneActive
<1>7. pc' = "done" /\ outcome' = None
  BY DEF Guard
<1>8. "cancelled" \in StatusesOf(None)
  BY DEF StatusesOf, None
<1>9. QED
  BY <1>3, <1>5, <1>6, <1>7, <1>8 DEF EndTells

LEMMA EvaluateTells ==
  ASSUME RunInv, Evaluate
  PROVE  EndTells'
<1>1. /\ pc = "done" /\ pc' = "done" /\ outcome' = outcome /\ evaluation = None
      /\ evaluation' # None /\ rows.status # None
  BY DEF Evaluate, ending, None
<1>2. NoneActive(rows) /\ rows # NoRows
  BY <1>1 DEF RunInv, EndTells, NoRows
<1>3. TypeOK
  BY DEF RunInv
<1>4. /\ Opened(rows, rows')
      /\ rows'.status \in {rows.status, "awaiting_human_review"}
      /\ NoneActive(rows')
  BY <1>2, <1>3, EvidenceOpens
<1>5. rows'.review \notin Decisions => rows.review \notin Decisions
  BY <1>4 DEF Opened, Decisions, None
<1>6. rows.review \notin Decisions => rows.status \in StatusesOf(outcome)
  BY <1>1, <1>2 DEF RunInv, EndTells, Undecided
<1>7. QED
  BY <1>1, <1>4, <1>5, <1>6 DEF EndTells, Undecided

LEMMA AdviceKeeps ==
  ASSUME RunInv, Advise
  PROVE  /\ Kept(rows, rows') /\ NoneActive(rows')
         /\ rows'.status \in {rows.status, "awaiting_human_review"}
         /\ rows.review \in Decisions => rows'.status = rows.status
<1>1. rows \in Rows /\ rows.status # None /\ NoneActive(rows)
  BY DEF RunInv, TypeOK, EndTells, Advise, Placed, None
<1>2. PICK r : r = Recorded(rows, Event("verifier_result", NoStep, "advisory"))
  OBVIOUS
<1>3. rows' = AfterAll(rows, <<Event("verifier_result", NoStep, "advisory")>>)
  BY DEF Advise, RecordAll, AfterAll
<1>4. rows' = r
  BY <1>2, <1>3, AfterOne
<1>5. "verifier_result" \notin Loud
  BY DEF Loud, CreativeEvents
<1>6. /\ Kept(rows, r) /\ NoneActive(r)
      /\ r.status = StatusAfter(Begun(rows), Event("verifier_result", NoStep, "advisory"))
  BY <1>1, <1>2, <1>5, EventTells
<1>7. Begun(rows) = rows
  BY <1>1, BegunRows
<1>8. StatusAfter(rows, Event("verifier_result", NoStep, "advisory")) =
        StatusWhenVerified(rows, "advisory")
  BY DEF StatusAfter, Event, Plain
<1>9. /\ StatusWhenVerified(rows, "advisory") \in {rows.status, "awaiting_human_review"}
      /\ rows.review \in Decisions => StatusWhenVerified(rows, "advisory") = rows.status
  <2>1. CASE rows.status \in Operational
    BY <2>1 DEF StatusWhenVerified
  <2>2. CASE rows.status \notin Operational /\ Pending(rows)
    BY <2>2 DEF StatusWhenVerified, Pending, Decisions
  <2>3. CASE rows.status \notin Operational /\ ~Pending(rows)
    BY <2>3 DEF StatusWhenVerified
  <2>4. QED
    BY <2>1, <2>2, <2>3
<1>10. NoneActive(rows') /\ Kept(rows, rows')
  BY <1>4, <1>6 DEF NoneActive, Kept
<1>11. QED
  BY <1>4, <1>6, <1>7, <1>8, <1>9, <1>10

LEMMA AdviseTells ==
  ASSUME RunInv, Advise
  PROVE  EndTells'
<1>1. /\ pc = "done" /\ pc' = "done" /\ outcome' = outcome /\ evaluation' # None
      /\ rows # NoRows
  BY DEF Advise, ending, None, RunInv, Placed, NoRows
<1>2. rows'.review = rows.review
  BY AdviceKeeps DEF Kept
<1>3. QED
  BY <1>1, <1>2, AdviceKeeps DEF RunInv, EndTells, Undecided

LEMMA ReviewTells ==
  ASSUME RunInv, Review
  PROVE  EndTells'
<1>1. DecidedBy(rows, rows')
  BY ReviewDecides DEF RunInv
<1>2. pc' = pc /\ outcome' = outcome
  BY DEF Review, ending
<1>3. NoneActive(rows) => NoneActive(rows')
  BY <1>1 DEF DecidedBy, NoneActive
<1>4. rows'.status # None /\ rows'.review \in Decisions
  BY <1>1 DEF DecidedBy
<1>5. QED
  BY <1>2, <1>3, <1>4 DEF RunInv, EndTells, Undecided

LEMMA EndStaysTold ==
  ASSUME RunInv, Next
  PROVE  EndTells'

<1>1. CASE LoadFails
  BY <1>1, LoadFailsTells
<1>2. CASE Finish
  BY <1>2, FinishTells
<1>3. CASE RuntimeFailure
  BY <1>3, RuntimeFailureTells
<1>4. CASE Verify
  BY <1>4, VerifyTells
<1>5. CASE Inconclusive
  BY <1>5, InconclusiveTells
<1>6. CASE Handle
  BY <1>6, HandleTells
<1>7. CASE Close
  BY <1>7, CloseTells
<1>8. CASE Guard
  BY <1>8, GuardTells
<1>9. CASE Evaluate
  BY <1>9, EvaluateTells
<1>10. CASE Advise
  BY <1>10, AdviseTells
<1>11. CASE Review
  BY <1>11, ReviewTells
<1>12. CASE Start
  BY <1>12, NotYetEnded DEF Start, Ends
<1>13. CASE ResetRaises
  BY <1>13, NotYetEnded DEF ResetRaises, RuntimeError, Raise, Ends
<1>14. CASE StepsExhausted
  BY <1>14, NotYetEnded DEF StepsExhausted, Ends
<1>15. CASE Observe
  BY <1>15, NotYetEnded DEF Observe, Ends
<1>16. CASE ObserveRaises
  BY <1>16, NotYetEnded DEF ObserveRaises, RuntimeError, Raise, Ends
<1>17. CASE Plan
  BY <1>17, NotYetEnded DEF Plan, Forget, Ends
<1>18. CASE ModelChooses
  BY <1>18, NotYetEnded DEF ModelChooses, Choose, Forget, Ends
<1>19. CASE ModelErrs
  BY <1>19, NotYetEnded DEF ModelErrs, FallBack, Choose, Raise, Forget, Ends
<1>20. CASE ModelTimesOut
  BY <1>20, NotYetEnded DEF ModelTimesOut, TimesOut, Raise, Forget, Ends
<1>21. CASE ModelIsBusy
  BY <1>21, NotYetEnded DEF ModelIsBusy, TimesOut, Raise, Forget, Ends
<1>22. CASE ModelBreaks
  BY <1>22, NotYetEnded DEF ModelBreaks, Raise, Forget, Ends
<1>23. CASE Handoff
  BY <1>23, NotYetEnded DEF Handoff, Ends
<1>24. CASE Lookup
  BY <1>24, NotYetEnded DEF Lookup, Returns, Ends
<1>25. CASE RuntimeActs
  BY <1>25, NotYetEnded DEF RuntimeActs, Returns, Ends
<1>26. CASE ActTimesOut
  BY <1>26, NotYetEnded DEF ActTimesOut, Returns, Ends
<1>27. CASE ActRaises
  BY <1>27, NotYetEnded DEF ActRaises, RuntimeError, Raise, Ends
<1>28. CASE Submit
  BY <1>28, NotYetEnded DEF Submit, Returns, Ends
<1>29. CASE Revise
  BY <1>29, NotYetEnded DEF Revise, Ends
<1>30. CASE Save
  BY <1>30, NotYetEnded DEF Save, Ends
<1>31. CASE CheckResult
  BY <1>31, NotYetEnded DEF CheckResult, Stop, Ends
<1>32. CASE CheckSubmission
  BY <1>32, NotYetEnded DEF CheckSubmission, Stop, NextStep, Ends
<1>33. CASE CheckSuccess
  BY <1>33, NotYetEnded DEF CheckSuccess, Stop, NextStep, Ends
<1>34. CASE VerifierRaises
  BY <1>34, NotYetEnded DEF VerifierRaises, Raise, Ends
<1>35. CASE TimeLimit
  BY <1>35, NotYetEnded DEF TimeLimit, Raise, Forget, Ends
<1>36. CASE Cancel
  BY <1>36, NotYetEnded DEF Cancel, Raise, Forget, Ends
<1>37. CASE Lose
  BY <1>37, NotYetEnded DEF Lose, Ends
<1>38. CASE Resume
  BY <1>38, NotYetEnded DEF Resume, Ends
<1>39. QED
  BY <1>1, <1>2, <1>3, <1>4, <1>5, <1>6, <1>7, <1>8, <1>9, <1>10, <1>11, <1>12, <1>13,
     <1>14, <1>15, <1>16, <1>17, <1>18, <1>19, <1>20, <1>21, <1>22, <1>23, <1>24, <1>25, <1>26,
     <1>27, <1>28, <1>29, <1>30, <1>31, <1>32, <1>33, <1>34, <1>35, <1>36, <1>37, <1>38
     DEF Next, Attempt, Environment

-----------------------------------------------------------------------------
(* The invariant                                                           *)

LEMMA RunInvInit ==
  ASSUME Init
  PROVE  RunInv
<1> USE StepsAssumption, BoundsAssumption
<1>1. NoRows \in Rows
  BY DEF NoRows, Rows, Statuses, SpanStatuses, None, Decisions
<1>2. NoRetry \in Retries
  BY RetryTyped
<1>3. TypeOK
  BY <1>1, <1>2 DEF Init, TypeOK, Retries, Phases, Rounds, NoStep
<1>4. Placed
  BY DEF Init, Placed, Stepping, NoRows
<1>5. RowsBegun
  BY DEF Init, RowsBegun, NoRows
<1>6. HistoryKept
  BY DEF Init, HistoryKept, Stepping, NoRows, Rounds
<1>7. RetriesCounted
  BY DEF Init, RetriesCounted
<1>8. EndTells
  BY DEF Init, EndTells
<1>9. QED
  BY <1>3, <1>4, <1>5, <1>6, <1>7, <1>8 DEF RunInv

LEMMA RunInvNext ==
  ASSUME RunInv, Next
  PROVE  RunInv'
<1>1. TypeOK /\ Placed /\ RowsBegun /\ HistoryKept /\ RetriesCounted
  BY DEF RunInv
<1>2. TypedAttempt
  BY <1>1 DEF TypeOK, TypedAttempt, Retries
<1>3. RowsMove
  BY <1>1, AttemptRows, EnvironmentRows DEF Next
<1>4. Moves
  BY <1>1, <1>2, AttemptMoves, EnvironmentMoves DEF Next
<1>5. TypeOK'
  <2>1. TypedAttempt'
    BY <1>1, <1>2, AttemptTyped, EnvironmentTyped DEF Next
  <2>2. rows' \in Rows
    BY <1>1, <1>3, RowsTyped
  <2>3. QED
    BY <2>1, <2>2 DEF TypeOK, TypedAttempt, Retries
<1>6. Placed'
  BY <1>1, <1>3, <1>4, PlacedKept
<1>7. RowsBegun'
  BY <1>1, <1>3, <1>4, RowsBegunKept
<1>8. HistoryKept'
  BY <1>1, <1>3, <1>4, HistoryStaysKept
<1>9. RetriesCounted'
  BY <1>1, <1>4, RetriesStayCounted
<1>10. EndTells'
  BY EndStaysTold
<1>11. QED
  BY <1>5, <1>6, <1>7, <1>8, <1>9, <1>10 DEF RunInv

LEMMA RunInvStutter ==
  ASSUME RunInv, UNCHANGED vars
  PROVE  RunInv'
<1>1. TypeOK'
  BY DEF RunInv, TypeOK, vars
<1>2. Placed' /\ RowsBegun' /\ RetriesCounted'
  BY DEF RunInv, Placed, RowsBegun, RetriesCounted, vars
<1>3. HistoryKept'
  BY DEF RunInv, HistoryKept, vars
<1>4. EndTells'
  <2>1. NoneActive(rows) => NoneActive(rows')
    BY DEF NoneActive, vars
  <2>2. QED
    BY <2>1 DEF RunInv, EndTells, Undecided, vars
<1>5. QED
  BY <1>1, <1>2, <1>3, <1>4 DEF RunInv

LEMMA RunInvariant == Spec => []RunInv
<1>1. Init => RunInv
  BY RunInvInit
<1>2. RunInv /\ [Next]_vars => RunInv'
  BY RunInvNext, RunInvStutter
<1>3. QED
  BY <1>1, <1>2, PTL DEF Spec

(* Every attempt keeps its types: no retry counter passes its limit, no    *)
(* round is begun beyond the budget and no status is written that is none  *)
(* of the known ones, whatever the loop, the runner, a loss of the process,*)
(* the evaluation and the reviewer do in whatever order.                   *)
THEOREM AttemptStaysTyped == Spec => []TypeOK
<1>1. RunInv => TypeOK
  BY DEF RunInv
<1>2. QED
  BY <1>1, RunInvariant, PTL

LEMMA ProductBounds ==
  ASSUME NEW rep \in Nat, NEW wait \in Nat, NEW ask \in Nat, NEW a \in Nat, NEW t \in Nat,
         NEW s \in Nat, rep <= a, wait <= t, ask <= s
  PROVE  rep * ((t + 1) * (s + 1)) + wait * (s + 1) + ask < (a + 1) * (t + 1) * (s + 1)
<1>1. PICK k, m : k = s + 1 /\ m = (t + 1) * k
  OBVIOUS
<1>2. k \in Nat /\ m \in Nat /\ ask < k
  BY <1>1
<1>3. PICK x, y, p, q : x = rep * m /\ y = wait * k /\ p = a * m /\ q = t * k
  OBVIOUS
<1>4. x \in Nat /\ y \in Nat /\ p \in Nat /\ q \in Nat
  BY <1>2, <1>3
<1>5. x <= p /\ y <= q
  BY <1>2, <1>3, Grows
<1>6. m = q + k
  BY <1>1, <1>2, <1>3
<1>7. (a + 1) * m = p + m
  BY <1>2, <1>3
<1>8. x + y + ask < p + m
  BY <1>2, <1>4, <1>5, <1>6
<1>9. (a + 1) * (t + 1) * (s + 1) = (a + 1) * m
  <2>1. ((a + 1) * (t + 1)) * k = (a + 1) * ((t + 1) * k)
    BY <1>2
  <2>2. QED
    BY <1>1, <2>1
<1>10. QED
  BY <1>1, <1>3, <1>7, <1>8, <1>9

LEMMA CountedIsBounded ==
  ASSUME TypeOK, RetriesCounted
  PROVE  RetriesBounded
<1> USE BoundsAssumption
<1>1. ASSUME pc = "model"
      PROVE  calls < (MaxAttempts + 1) * (TimeoutRetries + 1) * (TransientRetries + 1)
  <2>1. /\ retry.repair \in Nat /\ retry.timeout \in Nat /\ retry.transient \in Nat
        /\ retry.repair <= MaxAttempts /\ retry.timeout <= TimeoutRetries
        /\ retry.transient <= TransientRetries /\ calls \in Nat
    BY DEF TypeOK
  <2>2. PICK x, y : /\ x = retry.repair * ((TimeoutRetries + 1) * (TransientRetries + 1))
                             + retry.timeout * (TransientRetries + 1) + retry.transient
                    /\ y = (MaxAttempts + 1) * (TimeoutRetries + 1) * (TransientRetries + 1)
    OBVIOUS
  <2>3. x < y
    BY <2>1, <2>2, ProductBounds
  <2>4. x \in Nat /\ y \in Nat
    BY <2>1, <2>2
  <2>5. calls <= x
    BY <1>1, <2>2 DEF RetriesCounted
  <2>6. QED
    BY <2>1, <2>2, <2>3, <2>4, <2>5
<1>2. QED
  BY <1>1 DEF RetriesBounded

(* The audit tables tell how the run went: when the attempt is over the    *)
(* status says what the outcome says unless a reviewer has decided, no     *)
(* round is left open, the steps have no gap before the present one or the *)
(* checkpoint, and the nested retries stay within their product. For every *)
(* number of steps, retries, revisions and losses, and every set of tasks. *)
THEOREM RecordsTell == Spec => []RecordsTellTheRun
<1>1. RunInv => StatusTellsOutcome
  BY DEF RunInv, EndTells, Undecided, StatusTellsOutcome
<1>2. RunInv => RoundsAreClosed
  BY DEF RunInv, EndTells, NoneActive, RoundsAreClosed
<1>3. RunInv => HistoryIsWhole
  BY DEF RunInv, HistoryKept, Stepping, HistoryIsWhole
<1>4. RunInv => RetriesBounded
  BY CountedIsBounded DEF RunInv
<1>5. RunInv => RecordsTellTheRun
  BY <1>1, <1>2, <1>3, <1>4 DEF RecordsTellTheRun
<1>6. QED
  BY <1>5, RunInvariant, PTL

LEMMA DecisionKept ==
  ASSUME RunInv, [Next]_vars, pc = "done", rows.review \in Decisions
  PROVE  rows'.status = rows.status
<1>1. TypeOK
  BY DEF RunInv
<1>2. CASE Evaluate
  BY <1>1, <1>2, EvidenceOpens
<1>3. CASE Advise
  BY <1>3, AdviceKeeps
<1>4. CASE Review
  BY <1>4 DEF Review, Decidable, Pending, Decisions
<1>5. CASE Attempt
  BY <1>5 DEF Attempt, LoadFails, Start, ResetRaises, StepsExhausted, Observe, ObserveRaises,
    Plan, ModelChooses, ModelErrs, ModelTimesOut, ModelIsBusy, ModelBreaks, Handoff, Lookup,
    RuntimeActs, ActTimesOut, ActRaises, Submit, Revise, Save, CheckResult, CheckSubmission,
    CheckSuccess, Finish, RuntimeFailure, Verify, Inconclusive, VerifierRaises, Handle, Close
<1>6. CASE TimeLimit \/ Cancel \/ Lose \/ Guard \/ Resume
  BY <1>6 DEF TimeLimit, InLoop, Cancel, Lose, Guard, Resume
<1>7. CASE UNCHANGED vars
  BY <1>7 DEF vars
<1>8. QED
  BY <1>2, <1>3, <1>4, <1>5, <1>6, <1>7 DEF Next, Environment

(* What a reviewer decided about a run whose attempt is over stays its     *)
(* status: evidence and advisory verdicts that come later only add to it.  *)
(* While the attempt is not over this is not so, which a run of its own    *)
(* shows (HumanDecisionStands).                                            *)
THEOREM DecisionStands == Spec => LateDecisionStands
<1>1. RunInv /\ [Next]_vars =>
        [pc = "done" /\ rows.review \in Decisions => rows'.status = rows.status]_vars
  BY DecisionKept
<1>2. QED
  BY <1>1, RunInvariant, PTL DEF Spec, LateDecisionStands
=============================================================================
