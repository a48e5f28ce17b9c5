---------------------------- MODULE MineflayerRpc ----------------------------
(***************************************************************************)
(* The JSON-RPC client of an attempt and the worker process that owns one  *)
(* bot: a connection for every attempt, requests with a number and a time  *)
(* limit, handlers that go on in the worker when nobody waits for them,    *)
(* and the close that may reach the worker late.                           *)
(***************************************************************************)
EXTENDS Integers, SequencesExt

CONSTANTS
  MaxAttempts,  \* bound: attempts on this worker, each with a client of its own
  MaxRequests,  \* bound: requests of one client before it closes
  MaxFaults     \* bound: time limits, cancellations, lost connections

NoBot == 0
Nobody == -1

VARIABLES
  client,    \* "off", "idle", "waiting", "probing", "leaving", "closing"
  link,      \* number of the connection, 0 for none yet
  request,   \* number and method of the request that is awaited
  next,      \* _next_request_id
  ready,     \* the reset of this attempt has succeeded
  inbox,     \* per connection: requests the worker has not begun
  handlers,  \* requests the worker is working on, with the bot they hold
  outbox,    \* per connection: answers on their way
  bot,       \* the bot of the controller
  bots,      \* bots created
  mine,      \* ghost: the bot that the reset of this attempt created
  taken,     \* ghost: answers taken by the client, with the request they were made for
  overtaken, \* ghost: a request of an earlier connection was begun since this attempt
  faults

vars == <<client, link, request, next, ready, inbox, handlers, outbox, bot, bots, mine, taken,
          overtaken, faults>>

NoRequest == [id |-> Nobody, method |-> "none"]

Init ==
  /\ client = "off" /\ link = 0 /\ request = NoRequest /\ next = 0 /\ ready = FALSE
  /\ inbox = <<>> /\ handlers = {} /\ outbox = <<>> /\ bot = NoBot /\ bots = 0 /\ mine = NoBot
  /\ taken = {} /\ overtaken = FALSE /\ faults = 0

Fault == faults < MaxFaults /\ faults' = faults + 1

(* ------------------------------------------------------------------------*)
(* The client.                                                             *)
(* ------------------------------------------------------------------------*)
Sends(method, state) ==
  /\ request' = [id |-> next, method |-> method] /\ next' = next + 1 /\ client' = state
  /\ inbox' = [inbox EXCEPT ![link] = Append(@, [id |-> next, method |-> method])]

(* A new attempt connects with a new client and resets.                    *)
Attempt ==
  /\ client = "off" /\ link < MaxAttempts
  /\ link' = link + 1 /\ ready' = FALSE /\ mine' = NoBot /\ overtaken' = FALSE
  /\ client' = "waiting" /\ request' = [id |-> 0, method |-> "reset"] /\ next' = 1
  /\ inbox' = Append(inbox, <<[id |-> 0, method |-> "reset"]>>) /\ outbox' = Append(outbox, <<>>)
  /\ UNCHANGED <<handlers, bot, bots, taken, faults>>

(* A snapshot is answered as an observation is.                            *)
Request ==
  /\ client = "idle" /\ next < MaxRequests
  /\ \E method \in {"observe", "act"} : Sends(method, "waiting")
  /\ UNCHANGED <<link, ready, handlers, outbox, bot, bots, mine, taken, overtaken, faults>>

(* What the client does with an answer or an error.                        *)
After(ok) == CASE client = "closing" -> "off"
               [] client = "probing" \/ (client = "waiting" /\ ~ok) -> "leaving"
               [] OTHER -> "idle"
(* Mutant of Matches: any answer resolves the request that waits.  *)
MatchesAny(answer) == TRUE

Matches(answer) == answer.id = request.id

(* Answers are matched by number; others are dropped.                      *)
Receive ==
  /\ link > 0 /\ client # "off" /\ outbox[link] # <<>>
  /\ LET answer == Head(outbox[link])
     IN /\ outbox' = [outbox EXCEPT ![link] = Tail(@)]
        /\ IF client \notin {"idle", "leaving"} /\ Matches(answer)
           THEN /\ client' = After(answer.ok)
                /\ ready' = (ready \/ (request.method = "reset" /\ answer.ok))
                /\ mine' = IF request.method = "reset" /\ answer.ok THEN answer.bot ELSE mine
                /\ taken' = taken \cup {[asked |-> request, answer |-> answer]}
                /\ request' = NoRequest
           ELSE UNCHANGED <<client, ready, mine, taken, request>>
  /\ UNCHANGED <<link, next, inbox, handlers, bot, bots, overtaken, faults>>

(* An action that exceeds its time is followed by a probe, whatever else   *)
(* exceeds its time ends the attempt.                                      *)
AfterTimeout == IF request.method = "act" THEN "probing" ELSE "leaving"
TimesOut ==
  /\ client = "waiting" /\ Fault
  /\ IF AfterTimeout = "leaving"
     THEN client' = "leaving" /\ request' = NoRequest /\ UNCHANGED <<next, inbox>>
     ELSE Sends("observe", AfterTimeout)
  /\ UNCHANGED <<link, ready, handlers, outbox, bot, bots, mine, taken, overtaken>>

ProbeFails ==
  /\ client = "probing" /\ Fault /\ client' = "leaving" /\ request' = NoRequest
  /\ UNCHANGED <<link, next, ready, inbox, handlers, outbox, bot, bots, mine, taken, overtaken>>

(* The attempt ends, also in the middle of a request when its time is up.  *)
Leave ==
  /\ client \in {"idle", "waiting", "probing"}
  /\ IF client = "idle" THEN UNCHANGED faults ELSE Fault
  /\ client' = "leaving" /\ request' = NoRequest
  /\ UNCHANGED <<link, next, ready, inbox, handlers, outbox, bot, bots, mine, taken, overtaken>>

Close ==
  /\ client = "leaving" /\ Sends("close", "closing")
  /\ UNCHANGED <<link, ready, handlers, outbox, bot, bots, mine, taken, overtaken, faults>>

(* The close is not answered in time: the connection is dropped all the    *)
(* same. What it carries may still reach the worker.                       *)
ShutDown ==
  /\ client = "closing" /\ Fault /\ client' = "off" /\ request' = NoRequest
  /\ UNCHANGED <<link, next, ready, inbox, handlers, outbox, bot, bots, mine, taken, overtaken>>

(* The receive loop ends with the connection: whoever waits gets the       *)
(* exception, the close that follows cannot be sent.                       *)
ConnectionLost ==
  /\ client \notin {"off"} /\ Fault /\ client' = "off" /\ request' = NoRequest
  /\ \E n \in 0 .. Len(inbox[link]) : inbox' = [inbox EXCEPT ![link] = SubSeq(@, 1, n)]
  /\ UNCHANGED <<link, next, ready, handlers, outbox, bot, bots, mine, taken, overtaken>>

(* ------------------------------------------------------------------------*)
(* The worker.                                                             *)
(* ------------------------------------------------------------------------*)
Answer(l, call, ok, b) ==
  Append(outbox[l], [id |-> call.id, ok |-> ok, bot |-> b, of |-> call, link |-> l])

(* BotController.connect closes the bot there is and creates a new one.    *)
Connected == bots + 1

(* The requests of a connection are begun in their order. A reset and an   *)
(* action are worked on while others begin.                                *)
Begin ==
  \E l \in DOMAIN inbox :
    /\ inbox[l] # <<>> /\ inbox' = [inbox EXCEPT ![l] = Tail(@)]
    /\ overtaken' = (overtaken \/ l < link)
    /\ LET call == Head(inbox[l])
       IN \/ /\ call.method = "reset" /\ bots' = Connected /\ bot' = Connected
             /\ handlers' = handlers \cup {[link |-> l, call |-> call, bot |-> Connected]}
             /\ UNCHANGED outbox
          \/ /\ call.method = "act" /\ bot # NoBot /\ UNCHANGED <<bot, bots, outbox>>
             /\ handlers' = handlers \cup {[link |-> l, call |-> call, bot |-> bot]}
          \/ /\ call.method = "observe" \/ (call.method = "act" /\ bot = NoBot)
             /\ outbox' = [outbox EXCEPT ![l] = Answer(l, call, bot # NoBot, bot)]
             /\ UNCHANGED <<bot, bots, handlers>>
          \/ /\ call.method = "close" /\ bot' = NoBot
             /\ outbox' = [outbox EXCEPT ![l] = Answer(l, call, TRUE, NoBot)]
             /\ UNCHANGED <<bots, handlers>>
    /\ UNCHANGED <<client, link, request, next, ready, mine, taken, faults>>

(* A handler ends; a bot that was closed meanwhile makes it fail.          *)
Finish ==
  \E h \in handlers : \E ok \in BOOLEAN :
    /\ (ok => h.bot = bot) /\ (~ok /\ h.bot = bot => h.call.method = "reset")
    /\ handlers' = handlers \ {h}
    /\ outbox' = [outbox EXCEPT ![h.link] = Answer(h.link, h.call, ok, h.bot)]
    /\ UNCHANGED <<client, link, request, next, ready, inbox, bot, bots, mine, taken, overtaken,
                   faults>>

Next == \/ Attempt \/ Request \/ Receive \/ TimesOut \/ ProbeFails \/ Leave \/ Close \/ ShutDown
        \/ ConnectionLost \/ Begin \/ Finish
Spec == Init /\ [][Next]_vars

(* ------------------------------------------------------------------------*)
(* Properties.                                                             *)
(* ------------------------------------------------------------------------*)
TypeOK ==
  /\ client \in {"off", "idle", "waiting", "probing", "leaving", "closing"}
  /\ link \in 0 .. MaxAttempts /\ next \in 0 .. MaxRequests + 2 /\ faults \in 0 .. MaxFaults
  /\ Len(inbox) = link /\ Len(outbox) = link /\ bot \in 0 .. bots

(* What the client takes for the answer to a request was made for it, also *)
(* when answers to requests it has given up arrive later.                  *)
AnswersAreOwn == \A t \in taken : t.answer.of = t.asked

(* An action of the attempt never shares its bot with another action:      *)
(* after one whose end is unknown the attempt sends no other, and the next *)
(* attempt gets another bot, while the old action still runs.              *)
OneActionPerBot ==
  ~overtaken => \A g, h \in handlers :
    g.link = link /\ g.call.method = "act" /\ h.call.method = "act" /\ g.bot = h.bot => g = h

(* An attempt that was reset keeps its bot until it closes it, unless a    *)
(* request that an earlier attempt left behind is begun meanwhile.         *)
BotIsKept == ready /\ client \in {"idle", "waiting", "probing"} /\ ~overtaken => bot = mine

(* All of the above: an attempt alone uses its bot and its answers,        *)
(* whatever requests earlier attempts have left behind.                    *)
WorkerIsOwn == AnswersAreOwn /\ OneActionPerBot /\ BotIsKept
=============================================================================
