---------------------------- MODULE AppHttp_proofs ----------------------------
(***************************************************************************)
(* Proofs about AppHttp, for any number of polls, events and limits.  The  *)
(* source is a client of ImpHttp's server: what is proved of the server    *)
(* for any clients holds for it.                                           *)
(***************************************************************************)
EXTENDS AppHttp, ImpHttp_proofs

USE ImpAssumption, AppAssumption

-----------------------------------------------------------------------------
(* The source as a client *)

\* The request it waits for is one of its own.
Asking == source = "asking" => cur \in Poll

LEMMA AskingStep == Asking /\ [SourceNext]_allVars => Asking'
BY DEF Asking, SourceNext, Source, PollBuffered, AskNobody, Reply, ReplyFails, Cancel, Ask,
       sourceVars, allVars

LEMMA ClientStep == Asking /\ [SourceNext]_allVars => [Next]_vars
<1> SUFFICES ASSUME Asking, [SourceNext]_allVars
             PROVE  [Next]_vars
  OBVIOUS
<1>1. CASE PollBuffered \/ AskNobody \/ Reply \/ ReplyFails \/ UNCHANGED allVars
  BY <1>1 DEF PollBuffered, AskNobody, Reply, ReplyFails, allVars
<1>2. ASSUME NEW r \in Poll, Connection(r), UNCHANGED impVars
      PROVE  Next
  BY <1>2 DEF Next, Client
<1>3. CASE Cancel
  <2>1. CASE source = "asking" /\ HangUp(cur)
    <3>1. PICK r \in Poll : r = cur
      BY <2>1 DEF Asking
    <3>2. HangUp(r)
      BY <2>1, <3>1 DEF HangUp
    <3> QED
      BY <1>2, <1>3, <3>2 DEF Cancel, Connection
  <2>2. CASE UNCHANGED taskVars
    BY <1>3, <2>2 DEF Cancel, vars
  <2> QED
    BY <1>3, <2>1, <2>2 DEF Cancel
<1>4. ASSUME NEW r \in Poll, Ask(r)
      PROVE  Next
  <2>1. Connection(r)
    BY <1>4 DEF Ask, Connection
  <2> QED
    BY <1>2, <1>4, <2>1 DEF Ask
<1>5. ASSUME NEW r \in Poll, Send(r) \/ RecvHandler(r)
      PROVE  Next
  <2>1. CASE RecvHandler(r)
    BY <2>1 DEF Next
  <2>2. CASE PassBody(r) /\ UNCHANGED impVars
    BY <2>2 DEF Next, PassBodyImp
  <2>3. CASE Refuse(r) /\ UNCHANGED impVars
    BY <1>2, <2>3 DEF Connection
  <2> QED
    BY <1>5, <2>1, <2>2, <2>3 DEF Send
<1>6. CASE \/ \E e \in Event : SendEvent(e)
           \/ \E c \in Closer : Issue(c)
           \/ \E c \in Cmd : CmdHandler(c)
           \/ Serve \/ FinishImp \/ ReleaseMap
  BY <1>6 DEF Next
<1> QED
  BY <1>1, <1>3, <1>4, <1>5, <1>6 DEF SourceNext, Source, ServerNext

(***************************************************************************)
(* Whatever the source does is what a client of the server may do, the     *)
(* polls that are dropped at an await included.                            *)
(***************************************************************************)
THEOREM SourceIsClient == SourceSpec => Spec
<1>1. SourceInit => Init /\ Asking
  BY DEF SourceInit, Asking
<1> QED
  BY <1>1, AskingStep, ClientStep, PTL DEF SourceSpec, Spec

(***************************************************************************)
(* Over the server's tasks, its map and its queue each poll gets the       *)
(* response to it, or fails, at most once.                                 *)
(***************************************************************************)
THEOREM PollsTheorem == SourceSpec => ImplementsCalls
BY SourceIsClient, CallsTheorem, PTL

\* What ImpHttp's server keeps to.
ServerInv == TypeOK /\ HeldInv /\ OnceInv /\ EchoInv /\ Answered

LEMMA ServerInvariant == SourceSpec => []ServerInv
<1>1. TypeOK /\ HeldInv /\ OnceInv /\ EchoInv /\ Answered => ServerInv
  BY DEF ServerInv
<1> QED
  BY <1>1, SourceIsClient, Typing, HeldInvariant, OnceInvariant, EchoInvariant,
     AnsweredInvariant, PTL

-----------------------------------------------------------------------------
(* Lemmas about sequences *)

LEMMA ItemsConcat ==
    ASSUME NEW S, NEW p \in Seq(S), NEW q \in Seq(S)
    PROVE  p \o q \in Seq(S) /\ Items(p \o q) = Items(p) \cup Items(q)
<1> DEFINE r == p \o q
<1>1. /\ r \in Seq(S) /\ Len(r) = Len(p) + Len(q) /\ Len(p) \in Nat /\ Len(q) \in Nat
      /\ DOMAIN r = 1..(Len(p) + Len(q)) /\ DOMAIN p = 1..Len(p) /\ DOMAIN q = 1..Len(q)
      /\ \A i \in 1..(Len(p) + Len(q)) : r[i] = IF i =< Len(p) THEN p[i] ELSE q[i - Len(p)]
  <2>1. /\ r \in Seq(S) /\ Len(r) = Len(p) + Len(q)
        /\ \A i \in 1..(Len(p) + Len(q)) : r[i] = IF i =< Len(p) THEN p[i] ELSE q[i - Len(p)]
    BY ConcatProperties
  <2> HIDE DEF r
  <2> QED
    BY <2>1
<1> HIDE DEF r
<1>2. ASSUME NEW i \in DOMAIN r
      PROVE  r[i] \in Items(p) \cup Items(q)
  <2>1. CASE i =< Len(p)
    BY <1>1, <2>1 DEF Items
  <2>2. CASE ~(i =< Len(p))
    <3>1. i - Len(p) \in DOMAIN q /\ r[i] = q[i - Len(p)]
      BY <1>1, <2>2
    <3> QED
      BY <3>1, Zenon DEF Items
  <2> QED
    BY <2>1, <2>2
<1>3. \A i \in DOMAIN p : i \in DOMAIN r /\ r[i] = p[i]
  BY <1>1
<1>4. \A i \in DOMAIN q : i + Len(p) \in DOMAIN r /\ r[i + Len(p)] = q[i]
  BY <1>1
<1>5. Items(p) \subseteq Items(r)
  BY <1>3, Zenon DEF Items
<1>6. Items(q) \subseteq Items(r)
  BY <1>4, Zenon DEF Items
<1>7. Items(r) \subseteq Items(p) \cup Items(q)
  BY <1>2, Zenon DEF Items
<1> QED
  BY <1>1, <1>5, <1>6, <1>7 DEF r

\* The first of a buffer goes to the end of what was returned: nothing moves.
LEMMA ConcatMove ==
    ASSUME NEW S, NEW p \in Seq(S), NEW q \in Seq(S), q # << >>
    PROVE  Append(p, Head(q)) \o Tail(q) = p \o q
<1>1. /\ Head(q) \in S /\ Tail(q) \in Seq(S) /\ Append(p, Head(q)) \in Seq(S)
      /\ Len(Tail(q)) = Len(q) - 1 /\ Len(Append(p, Head(q))) = Len(p) + 1
      /\ Len(p) \in Nat /\ Len(q) \in Nat \ {0}
      /\ \A i \in 1..Len(p) : Append(p, Head(q))[i] = p[i]
      /\ Append(p, Head(q))[Len(p) + 1] = q[1]
      /\ \A i \in 1..(Len(q) - 1) : Tail(q)[i] = q[i + 1]
  OBVIOUS
<1> DEFINE a == Append(p, Head(q))
<1> DEFINE b == Tail(q)
<1>2. /\ a \o b \in Seq(S) /\ Len(a \o b) = Len(p) + Len(q)
      /\ \A i \in 1..(Len(p) + Len(q)) :
           (a \o b)[i] = IF i =< Len(p) + 1 THEN a[i] ELSE b[i - (Len(p) + 1)]
  <2>1. a \in Seq(S) /\ b \in Seq(S)
    BY <1>1
  <2>2. Len(a) = Len(p) + 1 /\ Len(a) + Len(b) = Len(p) + Len(q)
    BY <1>1
  <2> HIDE DEF a, b
  <2>3. /\ a \o b \in Seq(S) /\ Len(a \o b) = Len(a) + Len(b)
        /\ \A i \in 1..(Len(a) + Len(b)) :
             (a \o b)[i] = IF i =< Len(a) THEN a[i] ELSE b[i - Len(a)]
    BY <2>1, ConcatProperties
  <2> QED
    BY <2>2, <2>3
<1>3. /\ p \o q \in Seq(S) /\ Len(p \o q) = Len(p) + Len(q)
      /\ \A i \in 1..(Len(p) + Len(q)) :
           (p \o q)[i] = IF i =< Len(p) THEN p[i] ELSE q[i - Len(p)]
  BY ConcatProperties
<1>4. /\ \A i \in 1..Len(p) : a[i] = p[i]
      /\ a[Len(p) + 1] = q[1]
      /\ \A i \in 1..(Len(q) - 1) : b[i] = q[i + 1]
  BY <1>1
<1>5. Len(p) \in Nat /\ Len(q) \in Nat
  BY <1>1
<1> HIDE DEF a, b
<1>6. ASSUME NEW i \in 1..(Len(p) + Len(q))
      PROVE  (a \o b)[i] = (p \o q)[i]
  <2>1. CASE i =< Len(p)
    BY <1>2, <1>3, <1>4, <1>5, <2>1
  <2>2. CASE i = Len(p) + 1
    <3>1. i - Len(p) = 1 /\ ~(i =< Len(p)) /\ i =< Len(p) + 1
      BY <1>5, <2>2
    <3> QED
      BY <1>2, <1>3, <1>4, <2>2, <3>1
  <2>3. CASE i > Len(p) + 1
    <3>1. i - (Len(p) + 1) \in 1..(Len(q) - 1) /\ i - (Len(p) + 1) + 1 = i - Len(p)
      BY <1>5, <2>3
    <3>2. ~(i =< Len(p)) /\ ~(i =< Len(p) + 1)
      BY <1>5, <2>3
    <3> QED
      BY <1>2, <1>3, <1>4, <3>1, <3>2
  <2>4. i =< Len(p) \/ i = Len(p) + 1 \/ i > Len(p) + 1
    BY <1>5
  <2> QED
    BY <2>1, <2>2, <2>3, <2>4, Zenon
<1>7. a \o b = p \o q
  BY <1>2, <1>3, <1>5, <1>6, SeqEqual
<1> QED
  BY <1>7 DEF a, b

Ascending(q) == \A i, j \in DOMAIN q : i < j => q[i] < q[j]

LEMMA RunAscending ==
    ASSUME NEW n \in Nat, NEW q, Run(q, n)
    PROVE  Ascending(q)
<1>1. Len(q) \in Nat /\ DOMAIN q = 1..Len(q) /\ \A j \in 1..Len(q) : q[j] = n - Len(q) + j
  BY DEF Run
<1> SUFFICES ASSUME NEW i \in 1..Len(q), NEW j \in 1..Len(q), i < j
             PROVE  q[i] < q[j]
  BY <1>1, Zenon DEF Ascending
<1>2. q[i] = n - Len(q) + i /\ q[j] = n - Len(q) + j
  BY <1>1
<1> QED
  BY <1>1, <1>2

LEMMA AscendingConcat ==
    ASSUME NEW p \in Seq(Nat), NEW q \in Seq(Nat), Ascending(p), Ascending(q),
           \A x \in Items(p), y \in Items(q) : x < y
    PROVE  Ascending(p \o q)
<1> DEFINE r == p \o q
<1>1. /\ r \in Seq(Nat) /\ Len(r) = Len(p) + Len(q)
      /\ \A i \in 1..(Len(p) + Len(q)) : r[i] = IF i =< Len(p) THEN p[i] ELSE q[i - Len(p)]
  BY ConcatProperties
<1> HIDE DEF r
<1>2. /\ DOMAIN r = 1..(Len(p) + Len(q)) /\ DOMAIN p = 1..Len(p) /\ DOMAIN q = 1..Len(q)
      /\ Len(p) \in Nat /\ Len(q) \in Nat
  BY <1>1
<1> SUFFICES ASSUME NEW i \in DOMAIN r, NEW j \in DOMAIN r, i < j
             PROVE  r[i] < r[j]
  BY Zenon DEF Ascending, r
<1>3. CASE j =< Len(p)
  <2>1. i \in DOMAIN p /\ j \in DOMAIN p /\ r[i] = p[i] /\ r[j] = p[j]
    BY <1>1, <1>2, <1>3
  <2> QED
    BY <2>1 DEF Ascending
<1>4. CASE ~(j =< Len(p)) /\ i =< Len(p)
  <2>1. i \in DOMAIN p /\ j - Len(p) \in DOMAIN q /\ r[i] = p[i] /\ r[j] = q[j - Len(p)]
    BY <1>1, <1>2, <1>4
  <2>2. r[i] \in Items(p) /\ r[j] \in Items(q)
    BY <2>1, Zenon DEF Items
  <2> QED
    BY <2>2
<1>5. CASE ~(i =< Len(p))
  <2>1. i - Len(p) \in DOMAIN q /\ j - Len(p) \in DOMAIN q /\ i - Len(p) < j - Len(p)
    BY <1>2, <1>5
  <2>2. ~(j =< Len(p)) /\ i \in 1..(Len(p) + Len(q)) /\ j \in 1..(Len(p) + Len(q))
    BY <1>2, <1>5
  <2>3. r[i] = q[i - Len(p)] /\ r[j] = q[j - Len(p)]
    BY <1>1, <1>5, <2>2, Zenon
  <2>4. q[i - Len(p)] < q[j - Len(p)]
    BY <2>1, Zenon DEF Ascending
  <2> QED
    BY <2>3, <2>4
<1> QED
  BY <1>3, <1>4, <1>5

-----------------------------------------------------------------------------
(* What the server does meanwhile *)

\* The server hands nobody a request, and events to a handler that starts only.
ServerMove(r) ==
    /\ http'[r] \in {"open", "waiting"} => http[r] \in {"open", "waiting"}
    /\ answer'[r] = answer[r] \/ http[r] = "waiting"
    /\ \/ batch'[r] = batch[r]
       \/ pc[r] = "registered" /\ \A q \in Poll \ {r} : batch'[q] = batch[q]

LEMMA ServerMoves ==
    ASSUME TypeOK, ServerNext, NEW r \in Poll
    PROVE  ServerMove(r)
<1> USE DEF TypeOK, TaskTypeOK, Final, ServerMove
<1>1. ASSUME UNCHANGED <<http, answer, batch>>
      PROVE  ServerMove(r)
  BY <1>1
<1>2. CASE \/ \E e \in Event : SendEvent(e)
           \/ \E c \in Closer : Issue(c)
           \/ \E c \in Closer : HandleClose(c)
  BY <1>1, <1>2 DEF SendEvent, Issue, HandleClose, impVars, taskVars
<1>3. ASSUME NEW c \in Req, HandleRespond(c)
      PROVE  ServerMove(r)
  BY <1>3 DEF HandleRespond
<1>4. ASSUME NEW q \in Poll, Send(q)
      PROVE  ServerMove(r)
  BY <1>4 DEF Send, PassBody, Refuse, impVars
<1>5. ASSUME NEW q \in Poll, RecvHandler(q)
      PROVE  ServerMove(r)
  <2>1. CASE Register(q)
    BY <2>1 DEF Register, Failing
  <2>2. CASE HandOver(q) \/ GiveUp(q) \/ DrainPanics(q)
    BY <1>1, <2>2 DEF HandOver, GiveUp, DrainPanics
  <2>3. CASE AwaitEvents(q) \/ TimeOut(q) \/ RespondEvents(q)
    BY <1>1, <2>3 DEF AwaitEvents, TimeOut, RespondEvents
  <2>4. CASE TakeEvents(q)
    <3>1. pc[q] = "registered" /\ UNCHANGED <<http, answer>>
      BY <2>4 DEF TakeEvents
    <3>2. \A p \in Poll \ {q} : batch'[p] = batch[p]
      BY <2>4 DEF TakeEvents, Drain
    <3> QED
      BY <3>1, <3>2
  <2> QED
    BY <1>5, <2>1, <2>2, <2>3, <2>4 DEF RecvHandler
<1>6. CASE Serve
  BY <1>1, <1>6 DEF Serve, Working, TakeBody, TakeCmd, Check, StopServer, ServerStopped,
                    ServerSignal, impVars
<1>7. CASE FinishImp \/ ReleaseMap
  BY <1>7 DEF FinishImp, Finish, ReleaseMap, Failing
<1> QED
  BY <1>2, <1>3, <1>4, <1>5, <1>6, <1>7 DEF ServerNext, CmdHandler

-----------------------------------------------------------------------------
(* What the application sees *)

\* What poll_message returned and what it will return next.
Seen == got \o events

SourceTypes ==
    /\ source \in {"idle", "asking", "sleeping"}
    /\ cur \in Poll \cup {None}
    /\ source = "asking" => cur \in Poll
    /\ events \in Seq(Event) /\ got \in Seq(Event)
    /\ source # "idle" => events = << >>

\* Each of it is in some response.
Known == \A e \in Items(Seen) : \E r \in Poll : e \in Items(batch[r])

\* The response it waits for is newer than what it has.
Ahead == source = "asking" => \A e \in Items(batch[cur]), s \in Items(Seen) : s < e

\* It has one request at a time.
AtOnce == \A r \in Poll \ missed :
            http[r] \in {"open", "waiting"} => source = "asking" /\ r = cur

\* It keeps what it got.
Complete == \A r \in Poll \ missed :
              answer[r] # None /\ (r # cur \/ source # "asking")
                => Items(batch[r]) \subseteq Items(Seen)

SourceInv == SourceTypes /\ Ascending(Seen) /\ Known /\ Ahead /\ AtOnce /\ Complete

LEMMA SourceMeans == ServerInv /\ SourceInv => PolledInOrder
<1> SUFFICES ASSUME ServerInv, SourceInv
             PROVE  PolledInOrder
  OBVIOUS
<1>1. Items(Seen) \subseteq Items(sent)
  <2>1. Items(Seen) \subseteq 1..Gone
    BY DEF SourceInv, Known, ServerInv, OnceInv, Parted
  <2>2. /\ sent \in Seq(Nat) /\ queue \in Seq(Nat) /\ Run(sent, Len(sent))
    BY DEF ServerInv, OnceInv, Numbered, Run
  <2>3. Len(sent) \in Nat /\ Len(queue) \in Nat
    BY <2>2
  <2>4. Items(sent) = (Len(sent) - Len(sent) + 1)..Len(sent)
    BY <2>2, <2>3, RunItems
  <2> QED
    BY <2>1, <2>3, <2>4 DEF Gone
<1>2. Items(Seen) = Items(got) \cup Items(events)
  BY ItemsConcat DEF SourceInv, SourceTypes, Seen
<1> QED
  BY <1>1, <1>2 DEF PolledInOrder, SourceInv, Ascending, Complete, Seen

-----------------------------------------------------------------------------
(* The source's own steps *)

\* Two requests do not share an answer.
LEMMA OwnAnswer ==
    ASSUME ServerInv, NEW r \in Poll, answer[r] # None
    PROVE  answer[r] = r /\ pc[r] = "ended"
BY DEF ServerInv, EchoInv, Correlated, Tracked, Answered

LEMMA SourceBuffered ==
    ASSUME SourceInv, PollBuffered
    PROVE  SourceInv'
<1> USE DEF SourceInv, SourceTypes
<1>1. /\ got' = Append(got, Head(events)) /\ events' = Tail(events) /\ events # << >>
      /\ UNCHANGED <<http, answer, batch, source, cur, missed>> /\ source = "idle"
  BY DEF PollBuffered, vars, taskVars, impVars
<1>2. Seen' = Seen
  BY <1>1, ConcatMove DEF Seen
<1>3. Head(events) \in Event /\ Tail(events) \in Seq(Event)
  BY <1>1, ItemsTail
<1>4. SourceTypes'
  BY <1>1, <1>3
<1>5. Items(Seen)' = Items(Seen) /\ Ascending(Seen)'
  BY <1>2 DEF Items, Ascending
<1> QED
  BY <1>1, <1>4, <1>5 DEF Known, Ahead, AtOnce, Complete

\* Nothing is returned or buffered.
LEMMA SeenFrame ==
    ASSUME SourceInv, UNCHANGED <<got, events>>, SourceTypes', Ahead', AtOnce', Complete',
           UNCHANGED batch
    PROVE  SourceInv'
<1>1. Items(Seen)' = Items(Seen) /\ Ascending(Seen)'
  BY DEF SourceInv, Seen, Items, Ascending
<1> QED
  BY <1>1 DEF SourceInv, Known

LEMMA SourceAsk ==
    ASSUME ServerInv, SourceInv, NEW r \in Poll, Ask(r)
    PROVE  SourceInv'
<1> USE DEF SourceInv, SourceTypes
<1>1. /\ UNCHANGED <<got, events, missed, batch, answer>>
      /\ source # "asking" /\ source' = "asking" /\ cur' = r /\ events = << >>
      /\ Accept(r) \/ \E p \in Poll : KeepAlive(p, r)
  BY DEF Ask, MayAsk, impVars
<1>2. http \in [Req -> {"none", "open", "waiting"} \cup Final]
  BY DEF ServerInv, TypeOK, TaskTypeOK
<1>3. /\ http[r] = "none"
      /\ \A q \in Poll \ {r} : http'[q] \in {"open", "waiting"} => http'[q] = http[q]
  BY <1>1, <1>2 DEF Accept, KeepAlive
<1>4. batch[r] = << >>
  BY <1>3 DEF ServerInv, HeldInv, Placed, OnceInv, HandedOnce
<1>5. Ahead'
  BY <1>1, <1>4 DEF Ahead, Items
<1>6. AtOnce'
  BY <1>1, <1>3 DEF AtOnce
<1>7. Items(Seen)' = Items(Seen)
  BY <1>1 DEF Seen, Items
<1>8. Complete'
  BY <1>1, <1>7 DEF Complete
<1> QED
  BY <1>1, <1>5, <1>6, <1>8, SeenFrame

LEMMA SourceReply ==
    ASSUME ServerInv, SourceInv, Reply
    PROVE  SourceInv'
<1> USE DEF SourceInv, SourceTypes
<1>1. /\ UNCHANGED <<http, answer, batch, cur, missed>>
      /\ source = "asking" /\ http[cur] = "answered" /\ cur \in Poll /\ events = << >>
  BY DEF Reply, vars, taskVars, impVars
<1>2. answer[cur] = cur /\ answer[cur] # None
  <2>1. answer[cur] # None
    BY <1>1 DEF ServerInv, Answered
  <2> QED
    BY <1>1, <2>1, OwnAnswer
<1> DEFINE b == batch[cur]
<1>3. batch \in [Req -> Seq(Event)]
  BY DEF ServerInv, TypeOK
<1>4. b \in Seq(Event)
  BY <1>1, <1>3
<1>5. Seen = got /\ got \in Seq(Event)
  BY <1>1, ConcatEmptySeq DEF Seen
<1>6. \A q \in Poll \ missed : http[q] \in {"open", "waiting"} => FALSE
  BY <1>1 DEF AtOnce
<1>7. CASE b = << >>
  <2>1. source' = "sleeping" /\ UNCHANGED <<events, got>>
    BY <1>2, <1>7 DEF Reply
  <2>2. Items(b) = {} /\ Items(Seen)' = Items(Seen)
    BY <1>7, <2>1 DEF Items, Seen
  <2>3. Complete'
    BY <1>1, <2>1, <2>2 DEF Complete
  <2>4. Ahead' /\ AtOnce' /\ SourceTypes'
    BY <1>1, <1>6, <2>1 DEF Ahead, AtOnce
  <2> QED
    BY <1>1, <2>1, <2>3, <2>4, SeenFrame
<1>8. CASE b # << >>
  <2>1. source' = "idle" /\ got' = Append(got, Head(b)) /\ events' = Tail(b)
    BY <1>2, <1>8 DEF Reply, TakeBatch
  <2>2. Seen' = got \o b
    <3>1. Seen' = Append(got, Head(b)) \o Tail(b)
      BY <2>1 DEF Seen
    <3> HIDE DEF b
    <3> QED
      BY <1>4, <1>5, <1>8, <3>1, ConcatMove
  <2>3. Items(Seen') = Items(Seen) \cup Items(b)
    BY <1>4, <1>5, <2>2, ItemsConcat
  <2>4. Items(Seen)' = Items(Seen')
    BY DEF Items
  <2>5. SourceTypes'
    <3>1. Head(b) \in Event /\ Tail(b) \in Seq(Event)
      BY <1>4, <1>8, ItemsTail
    <3> QED
      BY <1>1, <1>5, <2>1, <3>1
  <2>6. Ascending(Seen)'
    <3>1. b \in Seq(Nat) /\ got \in Seq(Nat)
      BY <1>4, <1>5, SeqMonotonic
    <3>2. Ascending(got)
      BY <1>5
    <3>3. Ascending(b)
      BY <1>1, RunAscending DEF ServerInv, OnceInv, Batched
    <3>4. \A x \in Items(got), y \in Items(b) : x < y
      BY <1>1, <1>5 DEF Ahead
    <3> HIDE DEF b
    <3>5. Ascending(got \o b)
      BY <3>1, <3>2, <3>3, <3>4, AscendingConcat
    <3> QED
      BY <2>2, <3>5 DEF Ascending
  <2>7. Known'
    BY <1>1, <2>3, <2>4 DEF Known
  <2>8. Complete'
    BY <1>1, <2>3, <2>4 DEF Complete
  <2>9. Ahead' /\ AtOnce'
    BY <1>1, <1>6, <2>1 DEF Ahead, AtOnce
  <2> QED
    BY <2>5, <2>6, <2>7, <2>8, <2>9
<1> QED
  BY <1>7, <1>8

LEMMA SourceLets ==
    ASSUME ServerInv, SourceInv, AskNobody \/ ReplyFails \/ Cancel
    PROVE  SourceInv'
<1> USE DEF SourceInv, SourceTypes
<1>1. UNCHANGED <<got, events, cur, batch, answer>> /\ Items(Seen)' = Items(Seen)
  BY DEF AskNobody, ReplyFails, Cancel, vars, taskVars, impVars, Seen, Items
<1>2. CASE AskNobody
  <2>1. source' = "sleeping" /\ source # "asking" /\ events = << >> /\ UNCHANGED <<http, missed>>
    BY <1>2 DEF AskNobody, MayAsk, vars, taskVars
  <2> QED
    BY <1>1, <2>1, SeenFrame DEF Ahead, AtOnce, Complete
<1>3. CASE ReplyFails
  <2>1. /\ source = "asking" /\ source' = "sleeping" /\ UNCHANGED http
        /\ http[cur] \in {"answered", "refused", "failed", "cut"}
        /\ missed' = IF http[cur] = "answered" THEN missed \cup {cur} ELSE missed
    BY <1>3 DEF ReplyFails, vars, taskVars
  <2>2. cur \in Poll \ missed' => answer[cur] = None
    BY <2>1 DEF ServerInv, Answered
  <2>3. Complete'
    BY <1>1, <2>1, <2>2 DEF Complete
  <2>4. AtOnce' /\ Ahead' /\ SourceTypes'
    BY <1>1, <2>1 DEF AtOnce, Ahead
  <2> QED
    BY <1>1, <2>3, <2>4, SeenFrame
<1>4. CASE Cancel /\ source = "asking"
  <2>1. /\ source' = "idle" /\ missed' = missed \cup {cur} /\ cur \in Poll
        /\ HangUp(cur) \/ UNCHANGED taskVars
    BY <1>4 DEF Cancel
  <2>2. http \in [Req -> {"none", "open", "waiting"} \cup Final]
    BY DEF ServerInv, TypeOK, TaskTypeOK
  <2>3. \A q \in Poll \ {cur} : http'[q] = http[q]
    BY <2>1, <2>2 DEF HangUp, taskVars
  <2> QED
    BY <1>1, <1>4, <2>1, <2>3, SeenFrame DEF AtOnce, Complete, Ahead
<1>5. CASE Cancel /\ source # "asking"
  <2>1. source' = "idle" /\ UNCHANGED <<missed, http>>
    BY <1>5 DEF Cancel, taskVars
  <2> QED
    BY <1>1, <1>5, <2>1, SeenFrame DEF AtOnce, Complete, Ahead
<1> QED
  BY <1>2, <1>3, <1>4, <1>5

-----------------------------------------------------------------------------
(* The server's steps *)

\* What a request takes from the queue is newer than what others took.
LEMMA NewIsNewer ==
    ASSUME ServerInv, ServerInv', NEW r \in Poll, pc[r] = "registered",
           \A q \in Poll \ {r} : batch'[q] = batch[q],
           NEW p \in Poll, NEW s \in Items(batch[p]), NEW e \in Items(batch'[r])
    PROVE  s < e
<1> USE DEF ServerInv, OnceInv
<1>1. Len(sent) \in Nat /\ Len(queue) \in Nat /\ Len(sent') \in Nat /\ Len(queue') \in Nat
  BY DEF Numbered, Run
<1>2. Gone \in Int /\ Gone' \in Int
  BY <1>1 DEF Gone
<1>3. s \in 1..Gone
  BY DEF Parted
<1>4. e \in 1..Gone'
  BY DEF Parted, Items
<1>5. e \notin 1..Gone
  <2> SUFFICES ASSUME e \in 1..Gone
               PROVE  FALSE
    OBVIOUS
  <2>1. PICK q \in Poll : e \in Items(batch[q])
    BY DEF Parted
  <2>2. Items(batch[r]) = {}
    BY DEF HandedOnce, Items
  <2>3. q # r /\ batch'[q] = batch[q]
    BY <2>1, <2>2
  <2>4. \A x, y \in Poll : x # y => Items(batch'[x]) \cap Items(batch'[y]) = {}
    BY DEF Parted, Items
  <2> QED
    BY <2>1, <2>3, <2>4
<1> QED
  BY <1>2, <1>3, <1>4, <1>5

LEMMA SourceServer ==
    ASSUME ServerInv, ServerInv', SourceInv, ServerNext, UNCHANGED sourceVars
    PROVE  SourceInv'
<1> USE DEF SourceInv, SourceTypes
<1>1. \A r \in Poll : ServerMove(r)
  BY ServerMoves DEF ServerInv
<1>2. UNCHANGED <<source, cur, events, got, missed>> /\ Items(Seen)' = Items(Seen)
  BY DEF sourceVars, Seen, Items
<1>3. SourceTypes' /\ Ascending(Seen)'
  BY <1>2 DEF Ascending, Seen
<1>4. AtOnce'
  BY <1>1, <1>2 DEF AtOnce, ServerMove
<1>5. ASSUME NEW r \in Poll, batch'[r] # batch[r]
      PROVE  /\ pc[r] = "registered" /\ Items(batch[r]) = {} /\ answer[r] = None
             /\ \A q \in Poll \ {r} : batch'[q] = batch[q]
  <2>1. pc[r] = "registered" /\ \A q \in Poll \ {r} : batch'[q] = batch[q]
    BY <1>1, <1>5 DEF ServerMove
  <2>2. Items(batch[r]) = {}
    BY <2>1 DEF ServerInv, OnceInv, HandedOnce, Items
  <2>3. answer[r] = None
    BY <2>1, OwnAnswer
  <2> QED
    BY <2>1, <2>2, <2>3
<1>6. Known'
  <2>1. ASSUME NEW r \in Poll, NEW e \in Items(batch[r])
        PROVE  batch'[r] = batch[r]
    BY <1>5, <2>1
  <2> QED
    BY <1>2, <2>1 DEF Known
<1>7. Ahead'
  <2> SUFFICES ASSUME source = "asking", NEW e \in Items(batch'[cur]), NEW s \in Items(Seen)
               PROVE  s < e
    BY <1>2 DEF Ahead, Items
  <2>1. PICK r \in Poll : r = cur
    BY <1>2
  <2>2. PICK p \in Poll : s \in Items(batch[p])
    BY DEF Known
  <2>3. CASE batch'[r] = batch[r]
    BY <2>1, <2>3 DEF Ahead
  <2>4. CASE batch'[r] # batch[r]
    BY <1>5, <2>1, <2>2, <2>4, NewIsNewer
  <2> QED
    BY <2>3, <2>4
<1>8. Complete'
  <2> SUFFICES ASSUME NEW r \in Poll \ missed, answer'[r] # None, r # cur \/ source # "asking"
               PROVE  Items(batch'[r]) \subseteq Items(Seen)
    BY <1>2 DEF Complete, Items
  <2>1. answer'[r] = answer[r]
    BY <1>1 DEF ServerMove, AtOnce
  <2>2. batch'[r] = batch[r]
    BY <1>5, <2>1
  <2> QED
    BY <2>1, <2>2 DEF Complete
<1> QED
  BY <1>3, <1>4, <1>6, <1>7, <1>8

LEMMA SourceStep == ServerInv /\ ServerInv' /\ SourceInv /\ [SourceNext]_allVars => SourceInv'
<1> SUFFICES ASSUME ServerInv, ServerInv', SourceInv, [SourceNext]_allVars
             PROVE  SourceInv'
  OBVIOUS
<1>1. CASE UNCHANGED allVars
  <2>1. UNCHANGED <<http, answer, batch, source, cur, events, got, missed>>
    BY <1>1 DEF allVars, sourceVars, vars, taskVars, impVars
  <2>2. Items(Seen)' = Items(Seen)
    BY <2>1 DEF Seen, Items
  <2> QED
    BY <2>1, <2>2, SeenFrame DEF SourceInv, SourceTypes, Ahead, AtOnce, Complete
<1> QED
  BY <1>1, SourceBuffered, SourceAsk, SourceReply, SourceLets, SourceServer
     DEF SourceNext, Source

(***************************************************************************)
(* Events reach the application in the order they were sent and none       *)
(* twice, and of the responses it got none is lost: over polls that fail   *)
(* or are dropped at an await while the server still handles them, over    *)
(* connections that are kept alive, limits, panics and the server's close. *)
(***************************************************************************)
THEOREM PolledTheorem == SourceSpec => []PolledInOrder
<1>1. SourceInit => SourceInv
  <2> SUFFICES ASSUME SourceInit
               PROVE  SourceInv
    OBVIOUS
  <2>1. /\ source = "idle" /\ cur = None /\ events = << >> /\ got = << >> /\ missed = {}
        /\ \A r \in Req : http[r] = "none" /\ answer[r] = None
    BY DEF SourceInit, Init, TaskInit
  <2>2. << >> \in Seq(Event) /\ Seen = << >> /\ Items(Seen) = {}
    BY <2>1 DEF Seen, Items
  <2> QED
    BY <2>1, <2>2 DEF SourceInv, SourceTypes, Ascending, Known, Ahead, AtOnce, Complete
<1> QED
  BY <1>1, SourceStep, SourceMeans, ServerInvariant, PTL DEF SourceSpec
=============================================================================
