------------------------- MODULE MineflayerRpcProofs -------------------------
(***************************************************************************)
(* That an attempt has its bot and its answers to itself, for any number   *)
(* of attempts on a worker, of requests and of faults.                     *)
(*                                                                         *)
(* The answers follow from their numbers: a client counts its requests and *)
(* awaits the last one only. The bot follows from where a request can be:  *)
(* while the client waits, its one request is queued, worked on or         *)
(* answered, and nothing else of the attempt is under way; so whatever     *)
(* acts beside the attempt was begun before its reset, with a bot that is  *)
(* older than the one the reset created.                                   *)
(***************************************************************************)
EXTENDS MineflayerRpc, SequenceTheorems, TLAPS

In == inbox[link]
Out == outbox[link]

Call == [id : Nat, method : {"reset", "observe", "act", "close"}]
Reply == [id : Nat, ok : BOOLEAN, bot : Nat, of : Call, link : Nat]
Handler == [link : Nat, call : Call, bot : Nat]

Awaiting == client \in {"waiting", "probing", "closing"}

(* The types, stronger than TypeOK in what the connections carry.          *)
Typed ==
  /\ client \in {"off", "idle", "waiting", "probing", "leaving", "closing"}
  /\ link \in Nat /\ next \in Nat /\ bots \in Nat /\ bot \in Nat
  /\ ready \in BOOLEAN /\ overtaken \in BOOLEAN
  /\ inbox \in Seq(Seq(Call)) /\ Len(inbox) = link
  /\ outbox \in Seq(Seq(Reply)) /\ Len(outbox) = link
  /\ request = NoRequest \/ request \in Call
  /\ handlers \in SUBSET Handler
  /\ link = 0 => client = "off"

(* A request is awaited in the states that wait, and it is the last sent.  *)
RequestIsLast ==
  /\ Awaiting <=> request # NoRequest
  /\ request # NoRequest => request.id = next - 1

(* No request that is on its way, worked on or answered on the present     *)
(* connection is newer than the last, and the last is the awaited one.     *)
Numbered(call) == call.id < next /\ (call.id = request.id => call = request)
NumbersTell ==
  link > 0 =>
    /\ \A i \in DOMAIN In : Numbered(In[i])
    /\ \A h \in handlers : h.link = link => Numbered(h.call)
    /\ \A i \in DOMAIN Out : Numbered(Out[i].of) /\ Out[i].id = Out[i].of.id

(* Bots are numbered as they are created, handlers are of connections made.*)
HandlersKnown == bot <= bots /\ \A h \in handlers : h.link \in 1 .. link /\ h.bot <= bots

(* While the client waits, its request is in one place and alone; once it  *)
(* has its answer nothing of the attempt is left.                          *)
Nothing == \A h \in handlers : h.link # link
WaitsAlone ==
  /\ client = "idle" => In = <<>> /\ Nothing /\ Out = <<>>
  /\ client = "waiting" =>
       \/ In = <<request>> /\ Nothing /\ Out = <<>>
       \/ /\ In = <<>> /\ Out = <<>>
          /\ \A h \in handlers : h.link = link => h.call = request
          /\ \A g, h \in handlers : g.link = link /\ h.link = link => g = h
       \/ In = <<>> /\ Nothing /\ Len(Out) = 1 /\ Out[1].of = request

(* One action of the attempt is under way at most, queued or worked on.    *)
OneAction ==
  link > 0 =>
    /\ \A i, j \in DOMAIN In : In[i].method = "act" /\ In[j].method = "act" => i = j
    /\ \A h \in handlers : h.link = link /\ h.call.method = "act" =>
         \A i \in DOMAIN In : In[i].method # "act"
    /\ \A g, h \in handlers :
         g.link = link /\ h.link = link /\ g.call.method = "act" /\ h.call.method = "act" => g = h

(* The bot of the worker is newer than the bot of every handler that an    *)
(* earlier attempt has left behind.                                        *)
OlderBelow == bot # NoBot => \A h \in handlers : h.link < link => h.bot < bot

Present == client \in {"idle", "waiting", "probing"}

(* An attempt that nothing has overtaken: after its reset it works with a  *)
(* bot of its own, and the reset tells it which.                           *)
OwnBot ==
  link > 0 /\ ~overtaken =>
    /\ \A g, h \in handlers : g.link = link /\ h.link < link => h.bot < g.bot
    /\ (\E i \in DOMAIN In : In[i].method = "act") => OlderBelow
    /\ Present =>
         /\ \A i \in DOMAIN In : In[i].method # "close"
         /\ In = <<>> \/ Head(In).method # "reset" => OlderBelow
         /\ ready => bot = mine /\ request.method # "reset"
                     /\ \A i \in DOMAIN In : In[i].method # "reset"
    /\ client = "waiting" /\ request.method = "reset" =>
         \A i \in DOMAIN Out : Out[i].ok => Out[i].bot = bot

RpcInv ==
  /\ Typed /\ RequestIsLast /\ NumbersTell /\ HandlersKnown
  /\ WaitsAlone /\ OneAction /\ OwnBot /\ AnswersAreOwn

-----------------------------------------------------------------------------
(* The queues of the present connection under the actions.                 *)

LEMMA QueuesTyped ==
  ASSUME Typed, link > 0
  PROVE  In \in Seq(Call) /\ Out \in Seq(Reply)
  BY DEF Typed, In, Out

LEMMA CallsTyped ==
  ASSUME Typed, link > 0
  PROVE  /\ \A i \in DOMAIN In : In[i] \in Call
         /\ \A h \in handlers : h.call \in Call
         /\ \A i \in DOMAIN Out : Out[i] \in Reply /\ Out[i].of \in Call
<1>1. \A h \in handlers : h.call \in Call
  BY DEF Typed, Handler
<1>2. \A i \in DOMAIN In : In[i] \in Call
  BY QueuesTyped
<1>3. \A i \in DOMAIN Out : Out[i] \in Reply
  BY QueuesTyped
<1>4. \A a \in Reply : a.of \in Call
  BY DEF Reply
<1>5. QED
  BY <1>1, <1>2, <1>3, <1>4

(* A request is sent: only the queue of the present connection changes.    *)
LEMMA SentLast ==
  ASSUME Typed, link > 0, link' = link, NEW m \in {"observe", "act", "close"}, NEW s, Sends(m, s)
  PROVE  /\ inbox' \in Seq(Seq(Call)) /\ Len(inbox') = link
         /\ request' \in Call /\ request'.id = next /\ request'.method = m
         /\ next' = next + 1 /\ client' = s
         /\ In' = Append(In, request')
<1>1. request' = [id |-> next, method |-> m] /\ request' \in Call
  BY DEF Sends, Typed, Call
<1>2. inbox' = [inbox EXCEPT ![link] = Append(inbox[link], request')]
  BY <1>1 DEF Sends
<1>3. /\ inbox' \in Seq(Seq(Call)) /\ Len(inbox') = link
      /\ In' = Append(In, request')
  BY <1>1, <1>2 DEF Typed, In
<1>4. QED
  BY <1>1, <1>3 DEF Sends

LEMMA AppendElements ==
  ASSUME NEW S, NEW q \in Seq(S), NEW e \in S
  PROVE  /\ Append(q, e) \in Seq(S)
         /\ \A i \in DOMAIN Append(q, e) :
              \/ i = Len(q) + 1 /\ Append(q, e)[i] = e
              \/ i \in DOMAIN q /\ Append(q, e)[i] = q[i]
         /\ q # <<>> => Head(Append(q, e)) = Head(q)
         /\ q = <<>> => Append(q, e) = <<e>>
<1>1. Append(q, e) \in Seq(S)
  OBVIOUS
<1>2. \A i \in DOMAIN Append(q, e) :
        \/ i = Len(q) + 1 /\ Append(q, e)[i] = e
        \/ i \in DOMAIN q /\ Append(q, e)[i] = q[i]
  OBVIOUS
<1>3. q # <<>> => Head(Append(q, e)) = Head(q)
  OBVIOUS
<1>4. q = <<>> => Append(q, e) = <<e>>
  OBVIOUS
<1>5. QED
  BY <1>1, <1>2, <1>3, <1>4

LEMMA TailElements ==
  ASSUME NEW S, NEW q \in Seq(S), q # <<>>
  PROVE  /\ Tail(q) \in Seq(S) /\ Len(Tail(q)) = Len(q) - 1
         /\ 1 \in DOMAIN q /\ Head(q) = q[1] /\ Head(q) \in S
         /\ \A i \in DOMAIN Tail(q) : i + 1 \in DOMAIN q /\ Tail(q)[i] = q[i + 1] /\ i \in Nat
         /\ Len(q) = 1 => Tail(q) = <<>>
<1>1. Tail(q) \in Seq(S) /\ Len(Tail(q)) = Len(q) - 1
  OBVIOUS
<1>2. 1 \in DOMAIN q /\ Head(q) = q[1] /\ Head(q) \in S
  OBVIOUS
<1>3. \A i \in DOMAIN Tail(q) : i + 1 \in DOMAIN q /\ Tail(q)[i] = q[i + 1] /\ i \in Nat
  OBVIOUS
<1>4. Len(q) = 1 => Tail(q) = <<>>
  <2>1. PICK t : t = Tail(q)
    OBVIOUS
  <2>2. t \in Seq(S) /\ Len(t) = Len(q) - 1
    BY <1>1, <2>1
  <2>3. t # <<>> => Len(t) # 0
    BY <2>2, EmptySeq
  <2>4. QED
    BY <2>1, <2>2, <2>3
<1>5. QED
  BY <1>1, <1>2, <1>3, <1>4

LEMMA PrefixElements ==
  ASSUME NEW S, NEW q \in Seq(S), NEW n \in 0 .. Len(q)
  PROVE  /\ SubSeq(q, 1, n) \in Seq(S)
         /\ \A i \in DOMAIN SubSeq(q, 1, n) : i \in DOMAIN q /\ SubSeq(q, 1, n)[i] = q[i]
<1>1. SubSeq(q, 1, n) \in Seq(S)
  OBVIOUS
<1>2. \A i \in DOMAIN SubSeq(q, 1, n) : i \in DOMAIN q /\ SubSeq(q, 1, n)[i] = q[i]
  OBVIOUS
<1>3. QED
  BY <1>1, <1>2
-----------------------------------------------------------------------------
LEMMA InitRpc == Init => RpcInv
<1> SUFFICES ASSUME Init PROVE RpcInv
  OBVIOUS
<1> USE DEF Init
<1>0. <<>> \in Seq(Seq(Call)) /\ <<>> \in Seq(Seq(Reply)) /\ Len(<<>>) = 0
  OBVIOUS
<1>1. Typed
  <2>1. ready \in BOOLEAN /\ overtaken \in BOOLEAN
    OBVIOUS
  <2>2. handlers \in SUBSET Handler
    OBVIOUS
  <2>3. QED
    BY <1>0, <2>1, <2>2 DEF Typed, NoBot
<1>2. RequestIsLast
  BY DEF RequestIsLast, Awaiting
<1>3. HandlersKnown /\ AnswersAreOwn /\ WaitsAlone
  BY DEF HandlersKnown, WaitsAlone, AnswersAreOwn, NoBot
<1>4. NumbersTell /\ OneAction /\ OwnBot
  BY DEF NumbersTell, OneAction, OwnBot
<1>5. QED
  BY <1>1, <1>2, <1>3, <1>4 DEF RpcInv

(* A new attempt finds its connection empty, but for its reset.            *)
LEMMA AttemptStep == RpcInv /\ Attempt => RpcInv'
<1> SUFFICES ASSUME RpcInv, Attempt PROVE RpcInv'
  OBVIOUS
<1> DEFINE first == [id |-> 0, method |-> "reset"]
<1>0. first \in Call /\ first # NoRequest /\ first.id = 0 /\ first.method = "reset"
  BY DEF Call, NoRequest
<1>1. /\ link \in Nat /\ link' = link + 1 /\ client = "off" /\ client' = "waiting"
      /\ request' = first /\ next' = 1 /\ overtaken' = FALSE /\ ready' = FALSE
      /\ In' = <<first>> /\ Out' = <<>>
      /\ UNCHANGED <<handlers, bot, bots, taken>>
  BY <1>0 DEF Attempt, RpcInv, Typed, In, Out
<1> HIDE DEF first
<1>2. Typed'
  <2>1. inbox' \in Seq(Seq(Call)) /\ Len(inbox') = link'
    <3>1. inbox' = Append(inbox, <<first>>) /\ <<first>> \in Seq(Call)
      BY <1>0 DEF Attempt, first
    <3>2. QED
      BY <1>1, <3>1 DEF RpcInv, Typed
  <2>2. outbox' \in Seq(Seq(Reply)) /\ Len(outbox') = link'
    <3>1. outbox' = Append(outbox, <<>>) /\ <<>> \in Seq(Reply)
      BY DEF Attempt
    <3>2. QED
      BY <1>1, <3>1 DEF RpcInv, Typed
  <2>3. ready' \in BOOLEAN /\ overtaken' \in BOOLEAN
    BY <1>1
  <2>4. QED
    BY <1>0, <1>1, <2>1, <2>2, <2>3 DEF RpcInv, Typed
<1>3. Nothing'
  BY <1>1 DEF RpcInv, HandlersKnown, Nothing
<1>4. RequestIsLast'
  BY <1>0, <1>1 DEF RequestIsLast, Awaiting
<1>5. NumbersTell'
  BY <1>0, <1>1, <1>3 DEF NumbersTell, Numbered, Nothing
<1>6. HandlersKnown'
  BY <1>1 DEF RpcInv, HandlersKnown
<1>7. WaitsAlone'
  BY <1>1, <1>3 DEF WaitsAlone
<1>8. OneAction'
  BY <1>0, <1>1, <1>3 DEF OneAction, Nothing
<1>9. OwnBot'
  BY <1>0, <1>1, <1>3 DEF OwnBot, Nothing, Present
<1>10. AnswersAreOwn'
  BY <1>1 DEF RpcInv, AnswersAreOwn
<1>11. QED
  BY <1>2, <1>4, <1>5, <1>6, <1>7, <1>8, <1>9, <1>10 DEF RpcInv

(* An attempt with nothing under way sends its next request.               *)
LEMMA RequestStep == RpcInv /\ Request => RpcInv'
<1> SUFFICES ASSUME RpcInv, Request PROVE RpcInv'
  OBVIOUS
<1>1. PICK m \in {"observe", "act"} : Sends(m, "waiting")
  BY DEF Request
<1>2. /\ client = "idle" /\ link > 0 /\ In = <<>> /\ Nothing /\ Out = <<>>
      /\ UNCHANGED <<link, ready, handlers, outbox, bot, bots, mine, taken, overtaken>>
  BY DEF Request, RpcInv, Typed, WaitsAlone
<1>3. /\ inbox' \in Seq(Seq(Call)) /\ Len(inbox') = link
      /\ request' \in Call /\ request'.id = next /\ request'.method = m
      /\ next' = next + 1 /\ client' = "waiting"
      /\ In' = <<request'>> /\ Out' = <<>>
  BY <1>1, <1>2, SentLast DEF RpcInv, Out
<1>4. request' # NoRequest
  BY <1>3 DEF Call, NoRequest
<1>5. Typed'
  BY <1>2, <1>3 DEF RpcInv, Typed
<1>6. RequestIsLast'
  BY <1>2, <1>3, <1>4 DEF RpcInv, Typed, RequestIsLast, Awaiting
<1>7. NumbersTell'
  BY <1>2, <1>3 DEF NumbersTell, Numbered, Nothing, RpcInv, Typed
<1>8. HandlersKnown' /\ AnswersAreOwn'
  BY <1>2 DEF RpcInv, HandlersKnown, AnswersAreOwn
<1>9. WaitsAlone'
  BY <1>2, <1>3 DEF WaitsAlone, Nothing
<1>10. OneAction'
  BY <1>2, <1>3 DEF OneAction, Nothing
<1>11. OwnBot'
  BY <1>2, <1>3 DEF RpcInv, OwnBot, Nothing, Present, OlderBelow
<1>12. QED
  BY <1>5, <1>6, <1>7, <1>8, <1>9, <1>10, <1>11 DEF RpcInv

(* An answer is taken for the awaited request, or dropped.                 *)
LEMMA ReceiveStep == RpcInv /\ Receive => RpcInv'
<1> SUFFICES ASSUME RpcInv, Receive PROVE RpcInv'
  OBVIOUS
<1>0. Typed /\ RequestIsLast /\ NumbersTell /\ HandlersKnown /\ WaitsAlone /\ OneAction
      /\ OwnBot /\ AnswersAreOwn
  BY DEF RpcInv
<1>1. /\ link > 0 /\ client # "off" /\ Out # <<>>
      /\ UNCHANGED <<link, next, inbox, handlers, bot, bots, overtaken>>
      /\ In' = In
  BY DEF Receive, In, Out
<1>2. In \in Seq(Call) /\ Out \in Seq(Reply)
  BY <1>0, <1>1, QueuesTyped
<1>3. PICK a : a = Out[1]
  OBVIOUS
<1>4. /\ outbox' = [outbox EXCEPT ![link] = Tail(Out)]
      /\ a = Head(Out) /\ a \in Reply /\ Tail(Out) \in Seq(Reply)
  BY <1>1, <1>2, <1>3, TailElements DEF Receive, Out
<1>5. outbox' \in Seq(Seq(Reply)) /\ Len(outbox') = link /\ Out' = Tail(Out)
  BY <1>0, <1>1, <1>4 DEF Typed, Out
<1>6. /\ \A i \in DOMAIN Out' : i + 1 \in DOMAIN Out /\ Out'[i] = Out[i + 1]
      /\ Len(Out) = 1 => Out' = <<>>
  BY <1>1, <1>2, <1>5, TailElements
<1>7. Numbered(a.of) /\ a.id = a.of.id
  BY <1>0, <1>1, <1>2, <1>3, TailElements DEF NumbersTell
<1>8. a.of \in Call /\ a.id \in Nat /\ a.bot \in Nat /\ a.ok \in BOOLEAN
  BY <1>4 DEF Reply
<1>9. client \in {"idle", "waiting"} => client = "waiting" /\ In = <<>> /\ Nothing /\ Len(Out) = 1 /\ a.of = request
  BY <1>0, <1>1, <1>3 DEF WaitsAlone
<1>10. HandlersKnown' /\ OneAction'
  BY <1>0, <1>1 DEF HandlersKnown, OneAction
<1>11. CASE client \notin {"idle", "leaving"} /\ Matches(a)
  <2>1. /\ client' = After(a.ok)
        /\ ready' = (ready \/ (request.method = "reset" /\ a.ok))
        /\ mine' = IF request.method = "reset" /\ a.ok THEN a.bot ELSE mine
        /\ taken' = taken \cup {[asked |-> request, answer |-> a]}
        /\ request' = NoRequest
    BY <1>4, <1>11 DEF Receive, Out
  <2>2. /\ client' \in {"off", "idle", "leaving"}
        /\ client' = "idle" => client = "waiting" /\ a.ok
    BY <1>0, <1>1, <1>8, <1>11, <2>1 DEF After, Typed
  <2>3. a.of = request
    BY <1>7, <1>11 DEF Matches, Numbered
  <2>4. Typed'
    <3>1. ready' \in BOOLEAN
      BY <2>1
    <3>2. QED
      BY <1>0, <1>1, <1>5, <2>1, <2>2, <3>1 DEF Typed
  <2>5. RequestIsLast'
    BY <2>1, <2>2 DEF RequestIsLast, Awaiting
  <2>6. NumbersTell'
    <3>1. \A c \in Call : Numbered(c) => Numbered(c)'
      BY <1>1, <2>1 DEF Numbered, NoRequest, Nobody, Call
    <3>2. QED
      BY <1>0, <1>1, <1>6, <3>1, CallsTyped DEF NumbersTell
  <2>7. WaitsAlone'
    BY <1>1, <1>6, <1>9, <2>2 DEF WaitsAlone, Nothing
  <2>8. OwnBot'
    <3>1. CASE overtaken
      BY <1>1, <3>1 DEF OwnBot
    <3>2. CASE client' # "idle"
      BY <1>0, <1>1, <2>2, <3>2 DEF OwnBot, Present, OlderBelow
    <3>3. CASE client' = "idle" /\ ~overtaken
      <4>1. client = "waiting" /\ a.ok /\ In = <<>> /\ OlderBelow
        BY <1>0, <1>1, <1>9, <2>2, <3>3 DEF OwnBot, Present
      <4>2. ready' => bot = mine'
        <5>1. CASE request.method = "reset"
          <6>1. 1 \in DOMAIN Out
            BY <1>1, <1>2, TailElements
          <6>2. a.bot = bot
            BY <1>0, <1>1, <1>3, <3>3, <4>1, <5>1, <6>1 DEF OwnBot
          <6>3. QED
            BY <2>1, <4>1, <5>1, <6>2
        <5>2. CASE request.method # "reset"
          BY <1>0, <1>1, <2>1, <3>3, <4>1, <5>2 DEF OwnBot, Present
        <5>3. QED
          BY <5>1, <5>2
      <4>3. request'.method # "reset" /\ OlderBelow'
        BY <1>1, <2>1, <4>1 DEF NoRequest, OlderBelow
      <4>4. \A g, h \in handlers' : g.link = link' /\ h.link < link' => h.bot < g.bot
        BY <1>0, <1>1, <3>3 DEF OwnBot
      <4>5. QED
        BY <1>1, <3>3, <4>1, <4>2, <4>3, <4>4 DEF OwnBot
    <3>4. QED
      BY <3>1, <3>2, <3>3
  <2>9. AnswersAreOwn'
    BY <1>0, <2>1, <2>3 DEF AnswersAreOwn
  <2>10. QED
    BY <1>10, <2>4, <2>5, <2>6, <2>7, <2>8, <2>9 DEF RpcInv
<1>12. CASE ~(client \notin {"idle", "leaving"} /\ Matches(a))
  <2>1. UNCHANGED <<client, ready, mine, taken, request>>
    BY <1>4, <1>12 DEF Receive, Out
  <2>2. client \notin {"idle", "waiting"}
    BY <1>7, <1>9, <1>12 DEF Matches
  <2>3. Typed'
    BY <1>0, <1>1, <1>5, <2>1 DEF Typed
  <2>4. RequestIsLast' /\ AnswersAreOwn'
    BY <1>0, <1>1, <2>1 DEF RequestIsLast, AnswersAreOwn, Awaiting
  <2>5. NumbersTell'
    BY <1>0, <1>1, <1>6, <2>1 DEF NumbersTell, Numbered
  <2>6. WaitsAlone'
    BY <2>1, <2>2 DEF WaitsAlone
  <2>7. OwnBot'
    BY <1>0, <1>1, <1>6, <2>1, <2>2 DEF OwnBot, Present, OlderBelow
  <2>8. QED
    BY <1>10, <2>3, <2>4, <2>5, <2>6, <2>7 DEF RpcInv
<1>13. QED
  BY <1>11, <1>12

(* The client gives a request up without sending another one.              *)
LEMMA GivenUp ==
  ASSUME RpcInv, link > 0, client' \in {"off", "leaving"}, request' = NoRequest,
         UNCHANGED <<link, next, ready, handlers, outbox, bot, bots, mine, taken, overtaken>>,
         inbox' \in Seq(Seq(Call)), Len(inbox') = link,
         \A i \in DOMAIN In' : i \in DOMAIN In /\ In'[i] = In[i]
  PROVE  RpcInv'
<1>0. Typed /\ RequestIsLast /\ NumbersTell /\ HandlersKnown /\ WaitsAlone /\ OneAction
      /\ OwnBot /\ AnswersAreOwn
  BY DEF RpcInv
<1>1. Typed'
  BY <1>0 DEF Typed
<1>2. RequestIsLast' /\ WaitsAlone' /\ HandlersKnown' /\ AnswersAreOwn'
  BY <1>0 DEF RequestIsLast, Awaiting, WaitsAlone, HandlersKnown, AnswersAreOwn
<1>3. NumbersTell'
  <2>1. \A c \in Call : Numbered(c) => Numbered(c)'
    BY DEF Numbered, NoRequest, Nobody, Call
  <2>2. Out' = Out
    BY DEF Out
  <2>3. QED
    BY <1>0, <2>1, <2>2, CallsTyped DEF NumbersTell
<1>4. OneAction'
  BY <1>0 DEF OneAction
<1>5. OwnBot'
  BY <1>0 DEF OwnBot, Present, OlderBelow
<1>6. QED
  BY <1>1, <1>2, <1>3, <1>4, <1>5 DEF RpcInv

(* The time limit of a probe, the end of an attempt, a close that is not   *)
(* answered and the loss of the connection.                                *)
LEMMA GiveUpSteps == RpcInv /\ (ProbeFails \/ Leave \/ ShutDown \/ ConnectionLost) => RpcInv'
<1> SUFFICES ASSUME RpcInv, ProbeFails \/ Leave \/ ShutDown \/ ConnectionLost PROVE RpcInv'
  OBVIOUS
<1>1. link > 0
  BY DEF RpcInv, Typed, ProbeFails, Leave, ShutDown, ConnectionLost
<1>2. /\ client' \in {"off", "leaving"} /\ request' = NoRequest
      /\ UNCHANGED <<link, next, ready, handlers, outbox, bot, bots, mine, taken, overtaken>>
  BY DEF ProbeFails, Leave, ShutDown, ConnectionLost
<1>3. /\ inbox' \in Seq(Seq(Call)) /\ Len(inbox') = link
      /\ \A i \in DOMAIN In' : i \in DOMAIN In /\ In'[i] = In[i]
  <2>1. CASE UNCHANGED inbox
    BY <1>2, <2>1 DEF RpcInv, Typed, In
  <2>2. CASE ConnectionLost
    <3>1. PICK n \in 0 .. Len(In) : inbox' = [inbox EXCEPT ![link] = SubSeq(In, 1, n)]
      BY <2>2 DEF ConnectionLost, In
    <3>2. In \in Seq(Call)
      BY <1>1, QueuesTyped DEF RpcInv
    <3>3. /\ SubSeq(In, 1, n) \in Seq(Call)
          /\ \A i \in DOMAIN SubSeq(In, 1, n) : i \in DOMAIN In /\ SubSeq(In, 1, n)[i] = In[i]
      BY <3>2, PrefixElements
    <3>4. PICK p : p = SubSeq(In, 1, n)
      OBVIOUS
    <3>5. inbox' \in Seq(Seq(Call)) /\ Len(inbox') = link /\ In' = p
      BY <1>1, <1>2, <3>1, <3>3, <3>4 DEF RpcInv, Typed, In
    <3>6. QED
      BY <3>3, <3>4, <3>5
  <2>3. QED
    BY <2>1, <2>2 DEF ProbeFails, Leave, ShutDown
<1>4. QED
  BY <1>1, <1>2, <1>3, GivenUp

(* A probe after an action, and the close of the connection, follow what   *)
(* is still under way.                                                     *)
LEMMA SentAfter ==
  ASSUME RpcInv, link > 0, NEW m \in {"observe", "close"}, NEW s \in {"probing", "closing"},
         Sends(m, s), s = "closing" <=> m = "close",
         s = "probing" => client = "waiting" /\ request.method = "act",
         UNCHANGED <<link, ready, handlers, outbox, bot, bots, mine, taken, overtaken>>
  PROVE  RpcInv'
<1>0. Typed /\ RequestIsLast /\ NumbersTell /\ HandlersKnown /\ WaitsAlone /\ OneAction
      /\ OwnBot /\ AnswersAreOwn
  BY DEF RpcInv
<1>1. /\ inbox' \in Seq(Seq(Call)) /\ Len(inbox') = link
      /\ request' \in Call /\ request'.id = next /\ request'.method = m
      /\ next' = next + 1 /\ client' = s
      /\ In' = Append(In, request')
  BY <1>0, SentLast
<1>2. /\ \A i \in DOMAIN In' : \/ i = Len(In) + 1 /\ In'[i] = request'
                               \/ i \in DOMAIN In /\ In'[i] = In[i]
      /\ In # <<>> => Head(In') = Head(In)
      /\ In' # <<>> /\ (In = <<>> => In' = <<request'>>)
  BY <1>0, <1>1, QueuesTyped, AppendElements
<1>3. Out' = Out /\ next \in Nat
  BY <1>0 DEF Out, Typed
<1>4. Typed'
  BY <1>0, <1>1 DEF Typed
<1>5. request' # NoRequest
  BY <1>1 DEF Call, NoRequest
<1>6. RequestIsLast'
  BY <1>0, <1>1, <1>5 DEF RequestIsLast, Awaiting, Typed
<1>7. NumbersTell'
  <2>1. \A c \in Call : Numbered(c) => c.id < next' /\ c.id # request'.id
    BY <1>1, <1>3 DEF Numbered, Call
  <2>2. request'.id < next'
    BY <1>1, <1>3
  <2>3. \A i \in DOMAIN In' : In'[i].id < next' /\ (In'[i].id = request'.id => In'[i] = request')
    <3>1. \A i \in DOMAIN In : In[i].id < next' /\ In[i].id # request'.id
      BY <1>0, <2>1, CallsTyped DEF NumbersTell
    <3>2. QED
      BY <1>2, <2>2, <3>1
  <2>4. \A h \in handlers : h.link = link => h.call.id < next' /\ h.call.id # request'.id
    BY <1>0, <2>1, CallsTyped DEF NumbersTell
  <2>5. \A i \in DOMAIN Out : /\ Out[i].of.id < next' /\ Out[i].of.id # request'.id
                             /\ Out[i].id = Out[i].of.id
    BY <1>0, <2>1, CallsTyped DEF NumbersTell
  <2>6. QED
    BY <1>3, <2>3, <2>4, <2>5 DEF NumbersTell, Numbered
<1>8. HandlersKnown' /\ AnswersAreOwn' /\ WaitsAlone'
  BY <1>0, <1>1 DEF HandlersKnown, AnswersAreOwn, WaitsAlone
<1>9. OneAction'
  BY <1>0, <1>1, <1>2 DEF OneAction
<1>10. OwnBot'
  <2>1. (\E i \in DOMAIN In' : In'[i].method = "act") => \E i \in DOMAIN In : In[i].method = "act"
    BY <1>1, <1>2
  <2>2. CASE s = "closing"
    BY <1>0, <1>1, <2>1, <2>2 DEF OwnBot, Present, OlderBelow
  <2>3. CASE s = "probing"
    <3>1. Present /\ m = "observe"
      BY <2>3 DEF Present
    <3>2. In' = <<>> \/ Head(In').method # "reset" => In = <<>> \/ Head(In).method # "reset"
      BY <1>2
    <3>3. (\A i \in DOMAIN In : In[i].method # "reset") => \A i \in DOMAIN In' : In'[i].method # "reset"
      BY <1>1, <1>2, <3>1
    <3>4. (\A i \in DOMAIN In : In[i].method # "close") => \A i \in DOMAIN In' : In'[i].method # "close"
      BY <1>1, <1>2, <3>1
    <3>5. QED
      BY <1>0, <1>1, <2>1, <2>3, <3>1, <3>2, <3>3, <3>4 DEF OwnBot, Present, OlderBelow
  <2>4. QED
    BY <2>2, <2>3
<1>11. QED
  BY <1>4, <1>6, <1>7, <1>8, <1>9, <1>10 DEF RpcInv

LEMMA SendSteps == RpcInv /\ (TimesOut \/ Close) => RpcInv'
<1> SUFFICES ASSUME RpcInv, TimesOut \/ Close PROVE RpcInv'
  OBVIOUS
<1>1. link > 0
  BY DEF RpcInv, Typed, TimesOut, Close
<1>2. CASE Close
  BY <1>1, <1>2, SentAfter DEF Close
<1>3. CASE TimesOut /\ request.method = "act"
  BY <1>1, <1>3, SentAfter DEF TimesOut, AfterTimeout
<1>4. CASE TimesOut /\ request.method # "act"
  <2>1. /\ client' = "leaving" /\ request' = NoRequest
        /\ UNCHANGED <<inbox, link, ready, next, handlers, outbox, bot, bots, mine, taken, overtaken>>
    BY <1>4 DEF TimesOut, AfterTimeout
  <2>2. /\ inbox' \in Seq(Seq(Call)) /\ Len(inbox') = link
        /\ \A i \in DOMAIN In' : i \in DOMAIN In /\ In'[i] = In[i]
    BY <1>1, <2>1 DEF RpcInv, Typed, In
  <2>3. QED
    BY <1>1, <2>1, <2>2, GivenUp
<1>5. QED
  BY <1>2, <1>3, <1>4

(* An answer is put on its connection.                                     *)
Answers(l, call, ok, b) == outbox' = [outbox EXCEPT ![l] = Answer(l, call, ok, b)]

LEMMA Answered ==
  ASSUME Typed, link' = link, NEW l \in 1 .. link, NEW call \in Call, NEW ok \in BOOLEAN,
         NEW b \in Nat, Answers(l, call, ok, b)
  PROVE  /\ outbox' \in Seq(Seq(Reply)) /\ Len(outbox') = link
         /\ l # link => Out' = Out
         /\ \E a \in Reply : /\ l = link => Out' = Append(Out, a)
                            /\ a.of = call /\ a.id = call.id /\ a.ok = ok /\ a.bot = b
<1> DEFINE a == [id |-> call.id, ok |-> ok, bot |-> b, of |-> call, link |-> l]
<1>1. /\ a \in Reply
      /\ a.of = call /\ a.id = call.id /\ a.ok = ok /\ a.bot = b
  BY DEF Reply, Call, Typed
<1>2. outbox' = [outbox EXCEPT ![l] = Append(outbox[l], a)]
  BY DEF Answer, Answers
<1> HIDE DEF a
<1>3. outbox[l] \in Seq(Reply) /\ Append(outbox[l], a) \in Seq(Reply)
  BY <1>1 DEF Typed
<1>4. outbox' \in Seq(Seq(Reply)) /\ Len(outbox') = link
  <2>1. PICK q : q = Append(outbox[l], a)
    OBVIOUS
  <2>2. outbox' = [outbox EXCEPT ![l] = q] /\ q \in Seq(Reply)
    BY <1>2, <1>3, <2>1
  <2>3. QED
    BY <2>2 DEF Typed
<1>5. l # link => Out' = Out
  BY <1>2 DEF Typed, Out
<1>6. l = link => Out' = Append(Out, a)
  BY <1>2 DEF Typed, Out
<1>7. QED
  BY <1>1, <1>4, <1>5, <1>6

(* A handler ends with its answer.                                         *)
LEMMA FinishStep == RpcInv /\ Finish => RpcInv'
<1> SUFFICES ASSUME RpcInv, Finish PROVE RpcInv'
  OBVIOUS
<1>0. Typed /\ RequestIsLast /\ NumbersTell /\ HandlersKnown /\ WaitsAlone /\ OneAction
      /\ OwnBot /\ AnswersAreOwn
  BY DEF RpcInv
<1>1. PICK h \in handlers, ok \in BOOLEAN :
        /\ ok => h.bot = bot
        /\ handlers' = handlers \ {h}
        /\ Answers(h.link, h.call, ok, h.bot)
        /\ UNCHANGED <<client, link, request, next, ready, inbox, bot, bots, mine, taken, overtaken>>
  BY DEF Finish, Answers
<1>2. h.link \in 1 .. link /\ h.call \in Call /\ h.bot \in Nat
  BY <1>0, <1>1 DEF HandlersKnown, Typed, Handler
<1>3. /\ outbox' \in Seq(Seq(Reply)) /\ Len(outbox') = link
      /\ h.link # link => Out' = Out
  BY <1>0, <1>1, <1>2, Answered
<1>4. In' = In /\ link > 0
  BY <1>0, <1>1, <1>2 DEF In, Typed
<1>5. Typed'
  BY <1>0, <1>1, <1>3 DEF Typed
<1>6. RequestIsLast' /\ HandlersKnown' /\ OneAction' /\ AnswersAreOwn'
  BY <1>0, <1>1, <1>4 DEF RequestIsLast, Awaiting, HandlersKnown, OneAction, AnswersAreOwn
<1>7. CASE h.link # link
  <2>1. NumbersTell'
    BY <1>0, <1>1, <1>3, <1>4, <1>7 DEF NumbersTell, Numbered
  <2>2. WaitsAlone'
    BY <1>0, <1>1, <1>3, <1>4, <1>7 DEF WaitsAlone, Nothing
  <2>3. OwnBot'
    BY <1>0, <1>1, <1>3, <1>4, <1>7 DEF OwnBot, Present, OlderBelow
  <2>4. QED
    BY <1>5, <1>6, <2>1, <2>2, <2>3 DEF RpcInv
<1>8. CASE h.link = link
  <2>1. PICK a \in Reply : /\ Out' = Append(Out, a)
                           /\ a.of = h.call /\ a.id = h.call.id /\ a.ok = ok /\ a.bot = h.bot
    <3>1. PICK l : l = h.link
      OBVIOUS
    <3>2. PICK call : call = h.call
      OBVIOUS
    <3>3. PICK b : b = h.bot
      OBVIOUS
    <3>4. /\ Answers(l, call, ok, b)
          /\ l \in 1 .. link /\ call \in Call /\ b \in Nat /\ link' = link /\ ok \in BOOLEAN
      BY <1>1, <1>2, <3>1, <3>2, <3>3
    <3>5. \E a \in Reply : /\ l = link => Out' = Append(Out, a)
                            /\ a.of = call /\ a.id = call.id /\ a.ok = ok /\ a.bot = b
      BY <1>0, <3>4, Answered
    <3>6. QED
      BY <1>8, <3>1, <3>2, <3>3, <3>5
  <2>2. /\ \A i \in DOMAIN Out' : \/ i = Len(Out) + 1 /\ Out'[i] = a
                                  \/ i \in DOMAIN Out /\ Out'[i] = Out[i]
        /\ Out = <<>> => Out' = <<a>>
    BY <1>0, <1>4, <2>1, QueuesTyped, AppendElements
  <2>3. NumbersTell'
    BY <1>0, <1>1, <1>4, <1>8, <2>1, <2>2 DEF NumbersTell, Numbered
  <2>4. /\ client # "idle"
        /\ client = "waiting" => In = <<>> /\ Out = <<>> /\ h.call = request
                                 /\ Nothing'
    BY <1>0, <1>1, <1>8 DEF WaitsAlone, Nothing
  <2>5. WaitsAlone'
    BY <1>1, <1>4, <2>1, <2>2, <2>4 DEF WaitsAlone
  <2>6. OwnBot'
    <3>1. client = "waiting" => \A i \in DOMAIN Out' : Out'[i].ok => Out'[i].bot = bot
      BY <1>1, <2>1, <2>2, <2>4
    <3>2. QED
      BY <1>0, <1>1, <1>4, <3>1 DEF OwnBot, Present, OlderBelow
  <2>7. QED
    BY <1>5, <1>6, <2>3, <2>5, <2>6 DEF RpcInv
<1>9. QED
  BY <1>7, <1>8

(* What the worker begins, connection by connection.                       *)
BeginsOn(l, call) ==
  \/ /\ call.method = "reset" /\ bots' = bots + 1 /\ bot' = bots + 1
     /\ handlers' = handlers \cup {[link |-> l, call |-> call, bot |-> bots + 1]}
     /\ UNCHANGED outbox
  \/ /\ call.method = "act" /\ bot # NoBot /\ UNCHANGED <<bot, bots, outbox>>
     /\ handlers' = handlers \cup {[link |-> l, call |-> call, bot |-> bot]}
  \/ /\ call.method = "observe" \/ (call.method = "act" /\ bot = NoBot)
     /\ outbox' = [outbox EXCEPT ![l] = Answer(l, call, bot # NoBot, bot)]
     /\ UNCHANGED <<bot, bots, handlers>>
  \/ /\ call.method = "close" /\ bot' = NoBot
     /\ outbox' = [outbox EXCEPT ![l] = Answer(l, call, TRUE, NoBot)]
     /\ UNCHANGED <<bots, handlers>>

LEMMA BeginCase ==
  ASSUME Typed, Begin
  PROVE  \E l \in 1 .. link : \E call \in Call :
           /\ inbox[l] # <<>> /\ call = Head(inbox[l]) /\ BeginsOn(l, call)
           /\ inbox' \in Seq(Seq(Call)) /\ Len(inbox') = link
           /\ l # link => In' = In
           /\ l = link => In # <<>> /\ call = In[1] /\ In' = Tail(In)
           /\ overtaken' = (overtaken \/ l < link)
           /\ UNCHANGED <<client, link, request, next, ready, mine, taken, faults>>
<1>1. PICK l \in DOMAIN inbox :
        /\ inbox[l] # <<>> /\ inbox' = [inbox EXCEPT ![l] = Tail(inbox[l])]
        /\ BeginsOn(l, Head(inbox[l]))
        /\ overtaken' = (overtaken \/ l < link)
        /\ UNCHANGED <<client, link, request, next, ready, mine, taken, faults>>
  BY DEF Begin, BeginsOn, Connected
<1>2. l \in 1 .. link /\ inbox[l] \in Seq(Call) /\ link \in Nat
  BY DEF Typed
<1>3. PICK call \in Call : call = Head(inbox[l]) /\ call = inbox[l][1]
  BY <1>1, <1>2, TailElements
<1>4. PICK q \in Seq(Call) : q = Tail(inbox[l])
  BY <1>1, <1>2, TailElements
<1>5. inbox' = [inbox EXCEPT ![l] = q]
  BY <1>1, <1>4
<1>6. /\ inbox' \in Seq(Seq(Call)) /\ Len(inbox') = link
      /\ l # link => In' = In
      /\ l = link => In' = q
  BY <1>1, <1>2, <1>5 DEF Typed, In
<1>7. l = link => In # <<>> /\ call = In[1] /\ In' = Tail(In)
  BY <1>1, <1>3, <1>4, <1>6 DEF In
<1>8. QED
  BY <1>1, <1>2, <1>3, <1>6, <1>7

(* What a request that is begun leaves: a handler with the bot of the      *)
(* worker, or an answer.                                                   *)
LEMMA BegunTyped ==
  ASSUME Typed, HandlersKnown, link' = link, NEW l \in 1 .. link, NEW call \in Call, BeginsOn(l, call)
  PROVE  /\ handlers' \in SUBSET Handler /\ HandlersKnown'
         /\ bot' \in Nat /\ bots' \in Nat
         /\ outbox' \in Seq(Seq(Reply)) /\ Len(outbox') = link
         /\ l # link => Out' = Out
<1>1. /\ link \in Nat /\ bot \in Nat /\ bots \in Nat /\ bot <= bots
      /\ handlers \in SUBSET Handler /\ outbox \in Seq(Seq(Reply)) /\ Len(outbox) = link
  BY DEF Typed, HandlersKnown
<1>2. CASE call.method = "reset" \/ (call.method = "act" /\ bot # NoBot)
  <2>1. PICK b \in Nat : /\ bot' = b /\ bots' \in Nat /\ b <= bots' /\ bots <= bots'
                         /\ handlers' = handlers \cup {[link |-> l, call |-> call, bot |-> b]}
                         /\ outbox' = outbox
    <3>1. CASE call.method = "reset"
      <4>1. bot' = bots + 1 /\ bots + 1 \in Nat
        BY <1>1, <3>1 DEF BeginsOn
      <4>2. QED
        BY <1>1, <3>1, <4>1 DEF BeginsOn
    <3>2. CASE call.method = "act" /\ bot # NoBot
      BY <1>1, <3>2 DEF BeginsOn
    <3>3. QED
      BY <1>2, <3>1, <3>2
  <2>2. [link |-> l, call |-> call, bot |-> b] \in Handler
    BY DEF Handler
  <2>3. HandlersKnown'
    <3>1. \A h \in handlers : h.bot \in Nat /\ h.link \in 1 .. link /\ h.bot <= bots
      BY <1>1 DEF HandlersKnown, Handler
    <3>2. QED
      BY <1>1, <2>1, <3>1 DEF HandlersKnown
  <2>4. QED
    BY <1>1, <2>1, <2>2, <2>3 DEF Out
<1>3. CASE ~(call.method = "reset" \/ (call.method = "act" /\ bot # NoBot))
  <2>1. PICK ok \in BOOLEAN, b \in Nat : Answers(l, call, ok, b)
    <3>1. CASE call.method = "close"
      BY <1>3, <3>1 DEF BeginsOn, NoBot, Answers
    <3>2. CASE call.method # "close"
      <4>1. Answers(l, call, bot # NoBot, bot) /\ (bot # NoBot) \in BOOLEAN
        BY <1>3, <3>2 DEF BeginsOn, Answers
      <4>2. QED
        BY <1>1, <4>1
    <3>3. QED
      BY <3>1, <3>2
  <2>2. handlers' = handlers /\ bots' = bots /\ bot' \in {bot, 0}
    BY <1>3 DEF BeginsOn, NoBot
  <2>3. HandlersKnown'
    BY <1>1, <2>2 DEF HandlersKnown
  <2>4. outbox' \in Seq(Seq(Reply)) /\ Len(outbox') = link /\ (l # link => Out' = Out)
    BY <2>1, Answered, SMTT(30)
  <2>5. QED
    BY <1>1, <2>2, <2>3, <2>4
<1>4. QED
  BY <1>2, <1>3

(* A request that an earlier attempt has left behind is begun: that much   *)
(* is noted, and nothing of the present attempt is touched.                *)
LEMMA BeginOther ==
  ASSUME RpcInv, NEW l \in 1 .. link, l # link, NEW call \in Call, BeginsOn(l, call),
         inbox' \in Seq(Seq(Call)), Len(inbox') = link, In' = In,
         overtaken' = (overtaken \/ l < link),
         UNCHANGED <<client, link, request, next, ready, mine, taken, faults>>
  PROVE  RpcInv'
<1>0. Typed /\ RequestIsLast /\ NumbersTell /\ HandlersKnown /\ WaitsAlone /\ OneAction
      /\ OwnBot /\ AnswersAreOwn
  BY DEF RpcInv
<1>1. overtaken' = TRUE
  <2>1. l < link
    BY <1>0 DEF Typed
  <2>2. QED
    BY <2>1
<1>2. /\ handlers' \in SUBSET Handler /\ HandlersKnown' /\ bot' \in Nat /\ bots' \in Nat
      /\ outbox' \in Seq(Seq(Reply)) /\ Len(outbox') = link /\ Out' = Out
  BY <1>0, BegunTyped
<1>3. Typed'
  BY <1>0, <1>1, <1>2 DEF Typed
<1>4. \A h : h.link = link => (h \in handlers' <=> h \in handlers)
  <2>1. \/ handlers' = handlers
        \/ \E b : handlers' = handlers \cup {[link |-> l, call |-> call, bot |-> b]}
    BY DEF BeginsOn
  <2>2. \A b : [link |-> l, call |-> call, bot |-> b].link # link
    OBVIOUS
  <2>3. QED
    BY <2>1, <2>2
<1>5. RequestIsLast' /\ AnswersAreOwn'
  BY <1>0 DEF RequestIsLast, Awaiting, AnswersAreOwn
<1>6. NumbersTell'
  BY <1>0, <1>2, <1>4 DEF NumbersTell, Numbered
<1>7. WaitsAlone'
  BY <1>0, <1>2, <1>4 DEF WaitsAlone, Nothing
<1>8. OneAction'
  BY <1>0, <1>2, <1>4 DEF OneAction
<1>9. OwnBot'
  BY <1>1 DEF OwnBot
<1>10. QED
  BY <1>2, <1>3, <1>5, <1>6, <1>7, <1>8, <1>9 DEF RpcInv

(* What begins on the present connection besides the answer.               *)
LEMMA BeginOwnHandler ==
  ASSUME Typed, link' = link, NEW call \in Call, BeginsOn(link, call), link > 0
  PROVE  \/ /\ call.method \in {"reset", "act"} /\ Out' = Out /\ bot' # NoBot
            /\ handlers' = handlers \cup {[link |-> link, call |-> call, bot |-> bot']}
            /\ call.method = "act" => bot' = bot
            /\ call.method = "reset" => bot' = bots + 1
         \/ /\ handlers' = handlers
            /\ call.method = "close" \/ bot' = bot
            /\ bot' \in {bot, NoBot}
            /\ call.method # "reset"
            /\ \E a \in Reply : Out' = Append(Out, a) /\ a.of = call /\ a.id = call.id
<1>1. link \in 1 .. link /\ bots \in Nat /\ bot \in Nat
  BY DEF Typed
<1>2. CASE call.method = "reset"
  BY <1>1, <1>2 DEF BeginsOn, Out, NoBot
<1>3. CASE call.method = "act" /\ bot # NoBot
  BY <1>3 DEF BeginsOn, Out
<1>4. CASE call.method \notin {"reset", "act"} \/ (call.method = "act" /\ bot = NoBot)
  <2>1. \E ok \in BOOLEAN, b \in Nat : Answers(link, call, ok, b)
    <3>1. CASE call.method = "close"
      BY <1>4, <3>1 DEF BeginsOn, NoBot, Answers
    <3>2. CASE call.method # "close"
      <4>1. Answers(link, call, bot # NoBot, bot) /\ (bot # NoBot) \in BOOLEAN
        BY <1>4, <3>2 DEF BeginsOn, Answers
      <4>2. QED
        BY <1>1, <4>1
    <3>3. QED
      BY <3>1, <3>2
  <2>2. \E a \in Reply : Out' = Append(Out, a) /\ a.of = call /\ a.id = call.id
    BY <1>1, <2>1, Answered
  <2>3. handlers' = handlers /\ (call.method = "close" \/ bot' = bot) /\ bot' \in {bot, NoBot}
    BY <1>4 DEF BeginsOn
  <2>4. QED
    BY <1>4, <2>2, <2>3
<1>5. QED
  BY <1>2, <1>3, <1>4

LEMMA BeginOwn ==
  ASSUME RpcInv, link > 0, NEW call \in Call, BeginsOn(link, call), In # <<>>, call = In[1],
         inbox' \in Seq(Seq(Call)), Len(inbox') = link, In' = Tail(In),
         overtaken' = overtaken,
         UNCHANGED <<client, link, request, next, ready, mine, taken, faults>>
  PROVE  RpcInv'
<1>0. Typed /\ RequestIsLast /\ NumbersTell /\ HandlersKnown /\ WaitsAlone /\ OneAction
      /\ OwnBot /\ AnswersAreOwn
  BY DEF RpcInv
<1>1. /\ handlers' \in SUBSET Handler /\ HandlersKnown' /\ bot' \in Nat /\ bots' \in Nat
      /\ outbox' \in Seq(Seq(Reply)) /\ Len(outbox') = link
  BY <1>0, BegunTyped DEF Typed
<1>2. /\ \A i \in DOMAIN In' : i + 1 \in DOMAIN In /\ In'[i] = In[i + 1] /\ i \in Nat
      /\ Len(In) = 1 => In' = <<>>
      /\ 1 \in DOMAIN In /\ Head(In) = call
      /\ In' \in Seq(Call) /\ Out \in Seq(Reply)
  BY <1>0, QueuesTyped, TailElements
<1>3. client # "idle" /\ (client = "waiting" =>
        /\ In = <<request>> /\ Nothing /\ Out = <<>> /\ In' = <<>> /\ call = request)
  BY <1>0, <1>2 DEF WaitsAlone
<1>4. Numbered(call)
  BY <1>0, <1>2 DEF NumbersTell
<1>5. Typed'
  BY <1>0, <1>1 DEF Typed
<1>6. RequestIsLast' /\ AnswersAreOwn'
  BY <1>0 DEF RequestIsLast, Awaiting, AnswersAreOwn
<1>7. CASE /\ call.method \in {"reset", "act"} /\ Out' = Out /\ bot' # NoBot
           /\ handlers' = handlers \cup {[link |-> link, call |-> call, bot |-> bot']}
           /\ call.method = "act" => bot' = bot
           /\ call.method = "reset" => bot' = bots + 1
  <2> DEFINE n == [link |-> link, call |-> call, bot |-> bot']
  <2>1. n.link = link /\ n.call = call /\ n.bot = bot' /\ handlers' = handlers \cup {n}
    BY <1>7
  <2> HIDE DEF n
  <2>2. NumbersTell'
    BY <1>0, <1>2, <1>4, <1>7, <2>1 DEF NumbersTell, Numbered
  <2>3. WaitsAlone'
    BY <1>3, <1>7, <2>1 DEF WaitsAlone, Nothing
  <2>4. OneAction'
    <3>1. call.method = "act" => \A h \in handlers : h.link = link => h.call.method # "act"
      BY <1>0, <1>2 DEF OneAction
    <3>2. call.method = "act" => \A i \in DOMAIN In' : In'[i].method # "act"
      <4>1. \A i \in DOMAIN In' : i + 1 # 1
        BY <1>2
      <4>2. QED
        BY <1>0, <1>2, <4>1 DEF OneAction
    <3>3. \A i, j \in DOMAIN In' : In'[i].method = "act" /\ In'[j].method = "act" => i = j
      <4>1. \A i, j \in Nat : i + 1 = j + 1 => i = j
        OBVIOUS
      <4>2. QED
        BY <1>0, <1>2, <4>1 DEF OneAction
    <3>4. \A h \in handlers : h.link = link /\ h.call.method = "act" =>
             \A i \in DOMAIN In' : In'[i].method # "act"
      BY <1>0, <1>2 DEF OneAction
    <3>5. QED
      BY <1>0, <2>1, <3>1, <3>2, <3>3, <3>4 DEF OneAction
  <2>5. OwnBot'
    <3> SUFFICES ASSUME ~overtaken PROVE OwnBot'
      BY DEF OwnBot
    <3>1. \A h \in handlers : h.link < link => h.bot < bot'
      <4>1. \A h \in handlers : h.bot \in Nat /\ h.bot <= bots
        BY <1>0 DEF HandlersKnown, Typed, Handler
      <4>2. CASE call.method = "reset"
        BY <1>0, <1>7, <4>1, <4>2 DEF Typed
      <4>3. CASE call.method = "act"
        BY <1>0, <1>2, <1>7, <4>3 DEF OwnBot, OlderBelow
      <4>4. QED
        BY <1>7, <4>2, <4>3
    <3>2. OlderBelow' /\ \A g, h \in handlers' : g.link = link /\ h.link < link => h.bot < g.bot
      <4>1. link \in Nat /\ ~(link < link)
        BY <1>0 DEF Typed
      <4>2. OlderBelow'
        BY <2>1, <3>1, <4>1 DEF OlderBelow
      <4>3. \A g, h \in handlers : g.link = link /\ h.link < link => h.bot < g.bot
        BY <1>0 DEF OwnBot
      <4>4. QED
        BY <2>1, <3>1, <4>1, <4>2, <4>3
    <3>3. Present => /\ \A i \in DOMAIN In' : In'[i].method # "close"
                     /\ ready => bot' = mine /\ request.method # "reset"
                                /\ \A i \in DOMAIN In' : In'[i].method # "reset"
      <4>1. Present /\ ready => call.method = "act"
        BY <1>0, <1>2, <1>7 DEF OwnBot
      <4>2. QED
        BY <1>0, <1>2, <1>7, <4>1 DEF OwnBot
    <3>4. client = "waiting" => Out' = <<>>
      BY <1>3, <1>7
    <3>5. QED
      BY <3>2, <3>3, <3>4 DEF OwnBot, Present
  <2>6. QED
    BY <1>1, <1>5, <1>6, <2>2, <2>3, <2>4, <2>5 DEF RpcInv
<1>8. CASE /\ handlers' = handlers
           /\ call.method = "close" \/ bot' = bot
           /\ bot' \in {bot, NoBot}
           /\ call.method # "reset"
           /\ \E a \in Reply : Out' = Append(Out, a) /\ a.of = call /\ a.id = call.id
  <2>1. PICK a \in Reply : Out' = Append(Out, a) /\ a.of = call /\ a.id = call.id
    BY <1>8
  <2>2. /\ \A i \in DOMAIN Out' : \/ i = Len(Out) + 1 /\ Out'[i] = a
                                  \/ i \in DOMAIN Out /\ Out'[i] = Out[i]
        /\ Out = <<>> => Out' = <<a>>
    BY <1>2, <2>1, AppendElements
  <2>3. NumbersTell'
    BY <1>0, <1>2, <1>4, <1>8, <2>1, <2>2 DEF NumbersTell, Numbered
  <2>4. WaitsAlone'
    BY <1>3, <1>8, <2>1, <2>2 DEF WaitsAlone, Nothing
  <2>5. OneAction'
    <3>1. \A i, j \in DOMAIN In' : In'[i].method = "act" /\ In'[j].method = "act" => i = j
      <4>1. \A i, j \in Nat : i + 1 = j + 1 => i = j
        OBVIOUS
      <4>2. QED
        BY <1>0, <1>2, <4>1 DEF OneAction
    <3>2. QED
      BY <1>0, <1>2, <1>8, <3>1 DEF OneAction
  <2>6. OwnBot'
    <3> SUFFICES ASSUME ~overtaken PROVE OwnBot'
      BY DEF OwnBot
    <3>1. OlderBelow => OlderBelow'
      BY <1>8 DEF OlderBelow
    <3>2. (\E i \in DOMAIN In' : In'[i].method = "act") => OlderBelow'
      BY <1>0, <1>2, <3>1 DEF OwnBot
    <3>3. \A g, h \in handlers' : g.link = link /\ h.link < link => h.bot < g.bot
      BY <1>0, <1>8 DEF OwnBot
    <3>4. Present => /\ \A i \in DOMAIN In' : In'[i].method # "close"
                     /\ OlderBelow'
                     /\ ready => bot' = mine /\ request.method # "reset"
                                /\ \A i \in DOMAIN In' : In'[i].method # "reset"
      BY <1>0, <1>2, <1>8, <3>1 DEF OwnBot
    <3>5. client = "waiting" => request.method # "reset"
      BY <1>3, <1>8
    <3>6. QED
      BY <3>2, <3>3, <3>4, <3>5 DEF OwnBot, Present
  <2>7. QED
    BY <1>1, <1>5, <1>6, <2>3, <2>4, <2>5, <2>6 DEF RpcInv
<1>9. QED
  BY <1>0, <1>7, <1>8, BeginOwnHandler

LEMMA BeginStep == RpcInv /\ Begin => RpcInv'
<1> SUFFICES ASSUME RpcInv, Begin PROVE RpcInv'
  OBVIOUS
<1>1. PICK l \in 1 .. link, call \in Call :
        /\ inbox[l] # <<>> /\ call = Head(inbox[l]) /\ BeginsOn(l, call)
        /\ inbox' \in Seq(Seq(Call)) /\ Len(inbox') = link
        /\ l # link => In' = In
        /\ l = link => In # <<>> /\ call = In[1] /\ In' = Tail(In)
        /\ overtaken' = (overtaken \/ l < link)
        /\ UNCHANGED <<client, link, request, next, ready, mine, taken, faults>>
  BY BeginCase DEF RpcInv
<1>2. link \in Nat
  BY DEF RpcInv, Typed
<1>3. CASE l # link
  BY <1>1, <1>3, BeginOther
<1>4. CASE l = link
  <2>1. overtaken' = overtaken
    BY <1>1, <1>2, <1>4 DEF RpcInv, Typed
  <2>2. QED
    BY <1>1, <1>2, <1>4, <2>1, BeginOwn
<1>5. QED
  BY <1>3, <1>4
-----------------------------------------------------------------------------
LEMMA RpcStep == RpcInv /\ [Next]_vars => RpcInv'
<1>1. RpcInv /\ Next => RpcInv'
  BY AttemptStep, RequestStep, ReceiveStep, SendSteps, GiveUpSteps, BeginStep, FinishStep DEF Next
<1>2. RpcInv /\ UNCHANGED vars => RpcInv'
  BY DEF RpcInv, vars, Typed, RequestIsLast, Awaiting, NumbersTell, Numbered, HandlersKnown,
         WaitsAlone, Nothing, OneAction, OwnBot, OlderBelow, Present, AnswersAreOwn, In, Out
<1>3. QED
  BY <1>1, <1>2

(* An attempt alone uses its bot and its answers, however many attempts    *)
(* share the worker and whatever requests the earlier ones have left on    *)
(* their connections or under way: for any number of attempts, requests    *)
(* and faults.                                                             *)
THEOREM WorkerStaysOwn == Spec => []WorkerIsOwn
<1>1. RpcInv => WorkerIsOwn
  <2> SUFFICES ASSUME RpcInv PROVE WorkerIsOwn
    OBVIOUS
  <2>1. Typed /\ HandlersKnown /\ OneAction /\ OwnBot /\ AnswersAreOwn
    BY DEF RpcInv
  <2>2. OneActionPerBot
    <3> SUFFICES ASSUME ~overtaken, NEW g \in handlers, NEW h \in handlers, g.link = link,
                        g.call.method = "act", h.call.method = "act", g.bot = h.bot
                 PROVE  g = h
      BY DEF OneActionPerBot
    <3>1. link \in Nat /\ link > 0 /\ h.link \in 1 .. link /\ h.bot \in Nat
      BY <2>1 DEF HandlersKnown, Typed, Handler
    <3>2. CASE h.link = link
      BY <2>1, <3>1, <3>2 DEF OneAction
    <3>3. CASE h.link # link
      <4>1. h.link < link
        BY <3>1, <3>3
      <4>2. h.bot < g.bot
        BY <2>1, <3>1, <4>1 DEF OwnBot
      <4>3. QED
        BY <3>1, <4>2
    <3>4. QED
      BY <3>2, <3>3
  <2>3. BotIsKept
    <3>1. link \in Nat /\ (client # "off" => link > 0)
      BY <2>1 DEF Typed
    <3>2. QED
      BY <2>1, <3>1 DEF BotIsKept, OwnBot, Present
  <2>4. QED
    BY <2>1, <2>2, <2>3 DEF WorkerIsOwn
<1>2. QED
  BY <1>1, InitRpc, RpcStep, PTL DEF Spec
-----------------------------------------------------------------------------
(* The types, with the bounds of the instance.                             *)

(* How many requests a client has sent: those that the bound lets it send, *)
(* then at most a probe and a close.                                       *)
RequestsCounted ==
  /\ link <= MaxAttempts /\ faults \in 0 .. MaxFaults /\ next <= MaxRequests + 2
  /\ client \in {"idle", "waiting", "probing", "leaving"} => next <= MaxRequests + 1
  /\ client = "waiting" /\ request.method = "act" => next <= MaxRequests

(* The client and the worker keep their types, for any bounds.             *)
THEOREM WorkerStaysTyped ==
  ASSUME {MaxAttempts, MaxRequests, MaxFaults} \subseteq Nat
  PROVE  Spec => []TypeOK
<1>1. Init => RequestsCounted
  BY DEF Init, RequestsCounted
<1>2. Typed /\ RequestsCounted /\ [Next]_vars => RequestsCounted'
  <2> SUFFICES ASSUME Typed, RequestsCounted, [Next]_vars PROVE RequestsCounted'
    OBVIOUS
  <2>1. link \in Nat /\ next \in Nat /\ faults \in Nat
    BY DEF Typed, RequestsCounted
  <2>2. CASE Attempt
    BY <2>1, <2>2 DEF Attempt, RequestsCounted
  <2>3. CASE Request
    <3>1. /\ next < MaxRequests /\ next' = next + 1 /\ client' = "waiting"
          /\ link' = link /\ faults' = faults
      BY <2>3 DEF Request, Sends
    <3>2. QED
      BY <2>1, <3>1 DEF RequestsCounted
  <2>4. CASE Receive
    <3>1. UNCHANGED <<link, next, faults>>
      BY <2>4 DEF Receive
    <3>2. \/ client' \in {"off", "leaving", "idle"} /\ client \in {"waiting", "probing", "closing", "off"}
             /\ (client' # "off" => client \in {"waiting", "probing"})
          \/ UNCHANGED <<client, request>>
      <4>1. client \in {"off", "idle", "waiting", "probing", "leaving", "closing"}
        BY DEF Typed
      <4>2. PICK answer : \/ client \notin {"idle", "leaving"} /\ client' = After(answer.ok)
                          \/ UNCHANGED <<client, request>>
        BY <2>4 DEF Receive
      <4>3. QED
        BY <2>4, <4>1, <4>2 DEF Receive, After
    <3>3. QED
      BY <2>1, <3>1, <3>2 DEF RequestsCounted
  <2>5. CASE TimesOut
    <3>1. /\ client = "waiting" /\ link' = link /\ faults < MaxFaults /\ faults' = faults + 1
          /\ \/ client' = "leaving" /\ next' = next
             \/ client' = "probing" /\ request.method = "act" /\ next' = next + 1
      BY <2>5 DEF TimesOut, AfterTimeout, Fault, Sends
    <3>2. QED
      BY <2>1, <3>1 DEF RequestsCounted
  <2>6. CASE ProbeFails \/ Leave \/ ShutDown \/ ConnectionLost
    <3>1. /\ link' = link /\ next' = next /\ (faults' = faults \/ (faults < MaxFaults /\ faults' = faults + 1))
          /\ \/ client' = "leaving" /\ client \in {"idle", "waiting", "probing"}
             \/ client' = "off"
      BY <2>6 DEF ProbeFails, Leave, ShutDown, ConnectionLost, Fault
    <3>2. QED
      BY <2>1, <3>1 DEF RequestsCounted
  <2>7. CASE Close
    BY <2>1, <2>7 DEF Close, Sends, RequestsCounted
  <2>8. CASE Begin \/ Finish \/ UNCHANGED vars
    BY <2>8 DEF Begin, Finish, vars, RequestsCounted
  <2>9. QED
    BY <2>2, <2>3, <2>4, <2>5, <2>6, <2>7, <2>8 DEF Next
<1>3. RpcInv /\ RequestsCounted => TypeOK
  BY DEF RpcInv, Typed, HandlersKnown, RequestsCounted, TypeOK
<1>4. QED
  BY <1>1, <1>2, <1>3, InitRpc, RpcStep, PTL DEF Spec, RpcInv
=============================================================================
