------------------------ MODULE LossyChannel_proofs ------------------------
(***************************************************************************)
(* Proofs about LossyChannel, for any items, senders and buffer size.      *)
(***************************************************************************)
EXTENDS LossyChannel, SequenceTheorems, FiniteSetTheorems, TLAPS

-----------------------------------------------------------------------------
(* Lemmas about sequences *)

LEMMA TailLaw ==
    ASSUME NEW S, NEW q \in Seq(S), q # << >>
    PROVE  /\ Head(q) \in S
           /\ Head(q) = q[1]
           /\ Tail(q) \in Seq(S)
           /\ Len(q) \in Nat \ {0}
           /\ Len(Tail(q)) = Len(q) - 1
           /\ \A i \in 1 .. Len(q) - 1 : Tail(q)[i] = q[i + 1]
BY HeadTailProperties, EmptySeq

LEMMA AppendLaw ==
    ASSUME NEW S, NEW q \in Seq(S), NEW x \in S
    PROVE  /\ Append(q, x) \in Seq(S)
           /\ Append(q, x) # << >>
           /\ Len(Append(q, x)) = Len(q) + 1
           /\ Append(q, x)[Len(q) + 1] = x
           /\ \A i \in 1 .. Len(q) : Append(q, x)[i] = q[i]
BY AppendProperties, EmptySeq

\* What an item in a sequence means.
LEMMA ItemsLaw ==
    ASSUME NEW S, NEW q \in Seq(S)
    PROVE  /\ DOMAIN q = 1 .. Len(q)
           /\ Len(q) \in Nat
           /\ \A i \in 1 .. Len(q) : q[i] \in S /\ q[i] \in Items(q)
           /\ \A x \in S : Items(Append(q, x)) = Items(q) \cup {x}
<1>1. DOMAIN q = 1 .. Len(q) /\ Len(q) \in Nat
  OBVIOUS
<1>2. \A i \in 1 .. Len(q) : q[i] \in S /\ q[i] \in Items(q)
  BY DEF Items
<1>3. ASSUME NEW x \in S
      PROVE  Items(Append(q, x)) = Items(q) \cup {x}
  <2>1. DOMAIN Append(q, x) = 1 .. Len(q) + 1
    BY AppendLaw
  <2> QED
    BY <1>1, <2>1, AppendLaw DEF Items
<1> QED
  BY <1>1, <1>2, <1>3

\* The room a send makes.
LEMMA RoomLaw ==
    ASSUME NEW q \in Seq(Item)
    PROVE  /\ Room(q) \in Seq(Item)
           /\ (BufSize > 0 /\ Len(q) =< BufSize) => Len(Room(q)) < BufSize
           /\ \/ Room(q) = q
              \/ Len(q) = BufSize /\ q # << >> /\ Room(q) = Tail(q)
<1> USE LossyAssumption DEF Room
<1>1. CASE Len(q) = BufSize /\ q # << >>
  BY <1>1, TailLaw
<1>2. CASE Len(q) = BufSize /\ q = << >>
  BY <1>2
<1>3. CASE Len(q) # BufSize
  BY <1>3
<1> QED
  BY <1>1, <1>2, <1>3

-----------------------------------------------------------------------------
(* Types *)

\* A poll that saw an item finds one: only it removes the last.
Ready == rx = "pop" => buf # << >>

LEMMA TypeStep == TypeOK /\ Ready /\ [Next]_chanVars => TypeOK' /\ Ready'
<1> SUFFICES ASSUME TypeOK, Ready, [Next]_chanVars
             PROVE  TypeOK' /\ Ready'
  OBVIOUS
<1> USE LossyAssumption DEF TypeOK, Ready, Polling
<1>1. CASE UNCHANGED chanVars
  BY <1>1 DEF chanVars
<1>2. ASSUME NEW s \in Sender, Push(s)
      PROVE  TypeOK' /\ Ready'
  <2>1. sending[s] \in Item
    BY <1>2 DEF Push
  <2>2. buf' \in Seq(Item) /\ buf' # << >>
    <3>1. Room(buf) \in Seq(Item)
      BY RoomLaw
    <3> QED
      BY <1>2, <2>1, <3>1, AppendLaw DEF Push
  <2>5. pushed' \in Seq(Item)
    BY <1>2, <2>1, AppendLaw DEF Push
  <2>3. sending' \in [Sender -> Item \cup {None}]
    BY <1>2 DEF Push
  <2>4. notified' \in BOOLEAN /\ waker' \in BOOLEAN
    BY <1>2, Zenon DEF Push, Wake
  <2> QED
    BY <1>2, <2>2, <2>3, <2>4, <2>5 DEF Push
<1>3. ASSUME NEW s \in Sender, DropWake(s)
      PROVE  TypeOK' /\ Ready'
  <2>1. notified' \in BOOLEAN /\ waker' \in BOOLEAN
    BY <1>3, Zenon DEF DropWake, Wake
  <2> QED
    BY <1>3, <2>1 DEF DropWake
<1>4. ASSUME NEW s \in Sender, DropSender(s)
      PROVE  TypeOK' /\ Ready'
  BY <1>4 DEF DropSender
<1>5. ASSUME NEW s \in Sender, NEW i \in Item, Send(s, i)
      PROVE  TypeOK' /\ Ready'
  BY <1>5 DEF Send
<1>6. ASSUME NEW s \in Sender, NEW t \in Sender, CloneSender(s, t)
      PROVE  TypeOK' /\ Ready'
  BY <1>6 DEF CloneSender
<1>7. CASE PollPop
  BY <1>7, TailLaw, AppendLaw DEF PollPop
<1>8. CASE PollLen
  BY <1>8, EmptySeq DEF PollLen
<1>9. CASE StartPoll \/ PollCount \/ PollRegister \/ Repoll \/ DropReceiver
  BY <1>9 DEF StartPoll, PollCount, PollRegister, Repoll, DropReceiver
<1> QED
  BY <1>1, <1>2, <1>3, <1>4, <1>5, <1>6, <1>7, <1>8, <1>9 DEF Next, SenderStep, Poll

LEMMA TypeInit == Init => TypeOK /\ Ready
<1> SUFFICES ASSUME Init
             PROVE  TypeOK /\ Ready
  OBVIOUS
<1>1. buf \in Seq(Item) /\ pushed \in Seq(Item) /\ received \in Seq(Item)
  BY EmptySeq DEF Init
<1>2. sending \in [Sender -> Item \cup {None}]
  BY DEF Init
<1> QED
  BY <1>1, <1>2, LossyAssumption DEF Init, TypeOK, Ready, Polling

(***************************************************************************)
(* The variables have their types.                                         *)
(***************************************************************************)
THEOREM Typing == Spec => [](TypeOK /\ Ready)
BY TypeInit, TypeStep, PTL DEF Spec

-----------------------------------------------------------------------------
(* The bound *)

LEMMA BoundStep == TypeOK /\ Ready /\ Bounded /\ [Next]_chanVars => Bounded'
<1> SUFFICES ASSUME TypeOK, Ready, Bounded, [Next]_chanVars
             PROVE  Bounded'
  OBVIOUS
<1> USE LossyAssumption DEF TypeOK, Bounded
<1>1. ASSUME NEW s \in Sender, Push(s)
      PROVE  Bounded'
  <2>1. sending[s] \in Item
    BY <1>1 DEF Push
  <2>2. Len(buf') = Len(Room(buf)) + 1
    <3>1. Room(buf) \in Seq(Item)
      BY RoomLaw
    <3> QED
      BY <1>1, <2>1, <3>1, AppendLaw DEF Push
  <2>3. BufSize > 0 => Len(Room(buf)) < BufSize
    BY RoomLaw
  <2> QED
    BY <2>2, <2>3, RoomLaw
<1>2. CASE PollPop
  BY <1>2, TailLaw DEF PollPop, Ready
<1>3. CASE UNCHANGED buf
  BY <1>3
<1> QED
  BY <1>1, <1>2, <1>3 DEF Next, SenderStep, Poll, chanVars, DropWake, DropSender, Send,
     CloneSender, PollLen, StartPoll, PollCount, PollRegister, Repoll, DropReceiver

(***************************************************************************)
(* The buffer never outgrows buf_size, whatever threads send.              *)
(***************************************************************************)
THEOREM BoundTheorem == Spec => []Bounded
<1>1. Init => Bounded
  BY LossyAssumption DEF Init, Bounded
<1> QED
  BY <1>1, BoundStep, Typing, PTL DEF Spec

-----------------------------------------------------------------------------
(* Wakes *)

LEMMA WakeableStep == TypeOK /\ ParkedIsWakeable /\ [Next]_chanVars => ParkedIsWakeable'
<1> SUFFICES ASSUME TypeOK, ParkedIsWakeable, [Next]_chanVars
             PROVE  ParkedIsWakeable'
  OBVIOUS
<1> USE DEF ParkedIsWakeable
<1>1. ASSUME NEW s \in Sender, Push(s) \/ DropWake(s)
      PROVE  ParkedIsWakeable'
  BY <1>1, Zenon DEF Push, DropWake, Wake
<1>2. CASE PollRegister
  BY <1>2 DEF PollRegister
<1>3. CASE StartPoll \/ Repoll \/ PollCount \/ PollLen \/ PollPop \/ DropReceiver
  BY <1>3 DEF StartPoll, Repoll, PollCount, PollLen, PollPop, DropReceiver
<1>4. CASE UNCHANGED <<rx, waker, notified>>
  BY <1>4
<1> QED
  BY <1>1, <1>2, <1>3, <1>4 DEF Next, SenderStep, Poll, chanVars, DropSender, Send, CloneSender

(***************************************************************************)
(* A receiver that waits can be woken.                                     *)
(***************************************************************************)
THEOREM WakeableTheorem == Spec => []ParkedIsWakeable
<1>1. Init => ParkedIsWakeable
  BY DEF Init, ParkedIsWakeable
<1> QED
  BY <1>1, WakeableStep, Typing, PTL DEF Spec

\* On one thread nothing is half done during a poll, and what a poll has seen
\* of the senders and the buffer is still true when it registers the waker.
Alone ==
    /\ rx \in Polling => dropping = {} /\ \A s \in Sender : sending[s] = None
    /\ rx \in {"len", "pop", "register"} => senders # {}
    /\ rx = "register" => buf = << >>

WakeInv == Alone /\ NoLostWakeup

LEMMA WakeStep ==
    ASSUME ~Parallel
    PROVE  TypeOK /\ ParkedIsWakeable /\ WakeInv /\ [Next]_chanVars => WakeInv'
<1> SUFFICES ASSUME TypeOK, ParkedIsWakeable, WakeInv, [Next]_chanVars
             PROVE  WakeInv'
  OBVIOUS
<1> USE DEF WakeInv, Alone, NoLostWakeup, PollMayRun, SendersMayRun, Polling
<1>1. CASE UNCHANGED chanVars
  BY <1>1 DEF chanVars
<1>2. ASSUME NEW s \in Sender, Push(s) \/ DropWake(s)
      PROVE  WakeInv'
  <2>1. rx \notin Polling /\ rx' = rx
    BY <1>2 DEF Push, DropWake
  <2>2. rx = "parked" => notified'
    BY <1>2, Zenon DEF Push, DropWake, Wake, ParkedIsWakeable
  <2> QED
    BY <2>1, <2>2
<1>3. ASSUME NEW s \in Sender, DropSender(s)
      PROVE  WakeInv'
  BY <1>3 DEF DropSender
<1>4. ASSUME NEW s \in Sender, NEW i \in Item, Send(s, i)
      PROVE  WakeInv'
  <2>1. i # None
    BY LossyAssumption
  <2>2. sending'[s] # None
    BY <1>4, <2>1 DEF Send, TypeOK
  <2> QED
    BY <1>4, <2>2 DEF Send
<1>5. ASSUME NEW s \in Sender, NEW t \in Sender, CloneSender(s, t)
      PROVE  WakeInv'
  BY <1>5 DEF CloneSender
<1>6. CASE StartPoll \/ Repoll
  BY <1>6 DEF StartPoll, Repoll
<1>7. CASE PollCount
  <2>1. senders = {} => tx_count = 0
    BY FS_EmptySet DEF tx_count
  <2> QED
    BY <1>7, <2>1 DEF PollCount
<1>8. CASE PollLen
  BY <1>8, EmptySeq DEF PollLen, TypeOK
<1>9. CASE PollPop
  BY <1>9 DEF PollPop
<1>10. CASE PollRegister
  BY <1>10 DEF PollRegister
<1>11. CASE DropReceiver
  BY <1>11 DEF DropReceiver
<1> QED
  BY <1>1, <1>2, <1>3, <1>4, <1>5, <1>6, <1>7, <1>8, <1>9, <1>10, <1>11
     DEF Next, SenderStep, Poll

(***************************************************************************)
(* With receiver and senders on one thread no wake is missed.              *)
(***************************************************************************)
THEOREM WakeTheorem ==
    ASSUME ~Parallel
    PROVE  Spec => []NoLostWakeup
<1>1. Init => WakeInv
  BY DEF Init, WakeInv, Alone, NoLostWakeup, Polling
<1>2. TypeOK /\ ParkedIsWakeable /\ WakeInv /\ [Next]_chanVars => WakeInv'
  BY WakeStep
<1>3. WakeInv => NoLostWakeup
  BY DEF WakeInv
<1> QED
  BY <1>1, <1>2, <1>3, Typing, WakeableTheorem, PTL DEF Spec

-----------------------------------------------------------------------------
(* What is lost, and the order of what is not *)

\* How many of the items pushed have left the buffer.
Left == Len(pushed) - Len(buf)

\* The buffer is the end of what was pushed.
Suffix == /\ Left \in Nat
          /\ \A i \in 1 .. Len(buf) : buf[i] = pushed[Left + i]

\* What left the buffer without being received is old.
LostIsOld == \A p \in 1 .. Left : p + BufSize > Len(pushed) => pushed[p] \in Items(received)

\* What was received left the buffer, in the order it entered.
ReceivedLeft == \A m \in DOMAIN received : \E p \in 1 .. Left : pushed[p] = received[m]

History == Suffix /\ LostIsOld /\ ReceivedLeft /\ InOrder

LEMMA PushHistory ==
    ASSUME TypeOK, History, NEW s \in Sender, Push(s)
    PROVE  History'
<1> USE LossyAssumption DEF TypeOK
<1> DEFINE x == sending[s]
<1>1. x \in Item /\ received' = received
  BY DEF Push
<1>2. /\ pushed' = Append(pushed, x)
      /\ Len(pushed') = Len(pushed) + 1
      /\ Len(pushed) \in Nat
      /\ DOMAIN pushed = 1 .. Len(pushed)
      /\ DOMAIN pushed' = 1 .. Len(pushed) + 1
      /\ pushed'[Len(pushed) + 1] = x
      /\ \A p \in 1 .. Len(pushed) : pushed'[p] = pushed[p]
  BY <1>1, AppendLaw DEF Push
<1>3. /\ buf' = Append(Room(buf), x)
      /\ Room(buf) \in Seq(Item)
      /\ Len(buf') = Len(Room(buf)) + 1
      /\ buf'[Len(Room(buf)) + 1] = x
      /\ \A i \in 1 .. Len(Room(buf)) : buf'[i] = Room(buf)[i]
      /\ Len(buf) \in Nat
  <2>1. Room(buf) \in Seq(Item)
    BY RoomLaw
  <2> QED
    BY <1>1, <2>1, AppendLaw DEF Push
<1>6. Room(buf) = buf \/ (Len(buf) = BufSize /\ buf # << >> /\ Room(buf) = Tail(buf))
  BY RoomLaw
<1> HIDE DEF x, TypeOK
<1>4. CASE Room(buf) = buf
  <2>1. Left' = Left
    BY <1>2, <1>3, <1>4 DEF Left
  <2>2. Left \in Nat /\ Left + Len(buf) = Len(pushed)
    BY <1>2, <1>3 DEF Left, History, Suffix
  <2>3. Suffix'
    <3> SUFFICES ASSUME NEW i \in 1 .. Len(buf) + 1
                 PROVE  buf'[i] = pushed'[Left + i]
      BY <1>3, <1>4, <2>1, <2>2 DEF Suffix
    <3>1. CASE i = Len(buf) + 1
      <4>1. Left + i = Len(pushed) + 1
        <5>1. Len(buf) \in Nat
          BY <1>3
        <5> QED
          BY <2>2, <3>1, <5>1
      <4>2. buf'[i] = x
        BY <1>3, <1>4, <3>1
      <4> QED
        BY <1>2, <4>1, <4>2
    <3>2. CASE i # Len(buf) + 1
      <4>1. i \in 1 .. Len(buf) /\ Left + i \in 1 .. Len(pushed)
        BY <1>3, <2>2, <3>2
      <4> QED
        BY <1>2, <1>3, <1>4, <4>1 DEF History, Suffix
    <3> QED
      BY <3>1, <3>2
  <2>4. LostIsOld'
    BY <1>1, <1>2, <2>1, <2>2 DEF History, LostIsOld
  <2>5. ReceivedLeft' /\ InOrder'
    BY <1>1, <1>2, <2>1, <2>2 DEF History, ReceivedLeft, InOrder
  <2> QED
    BY <2>3, <2>4, <2>5 DEF History
<1>5. CASE Len(buf) = BufSize /\ buf # << >> /\ Room(buf) = Tail(buf)
  <2>1. /\ Len(Tail(buf)) = Len(buf) - 1
        /\ \A i \in 1 .. Len(buf) - 1 : Tail(buf)[i] = buf[i + 1]
        /\ Len(buf) \in Nat \ {0}
    BY <1>5, TailLaw
  <2>2. Left' = Left + 1 /\ Len(buf') = Len(buf)
    <3>1. Len(buf') = Len(buf)
      BY <1>3, <1>5, <2>1
    <3> QED
      BY <1>2, <2>1, <3>1 DEF Left
  <2>3. Left \in Nat /\ Left + Len(buf) = Len(pushed)
    BY <1>2, <1>3 DEF Left, History, Suffix
  <2>4. Suffix'
    <3> SUFFICES ASSUME NEW i \in 1 .. Len(buf)
                 PROVE  buf'[i] = pushed'[Left + 1 + i]
      BY <2>2, <2>3 DEF Suffix
    <3>1. CASE i = Len(buf)
      <4>1. Left + 1 + i = Len(pushed) + 1
        BY <1>2, <2>1, <2>3, <3>1
      <4>2. i = Len(Room(buf)) + 1
        BY <1>5, <2>1, <3>1
      <4>3. buf'[i] = x
        BY <1>3, <4>2
      <4> QED
        BY <1>2, <4>1, <4>3
    <3>2. CASE i # Len(buf)
      <4>1. /\ i \in 1 .. Len(buf) - 1 /\ i + 1 \in 1 .. Len(buf)
            /\ Left + 1 + i \in 1 .. Len(pushed)
            /\ Left + 1 + i = Left + (i + 1)
        <5>1. Len(buf) \in Nat \ {0}
          BY <2>1
        <5> QED
          BY <2>3, <3>2, <5>1
      <4>2. buf'[i] = buf[i + 1]
        BY <1>3, <1>5, <2>1, <4>1
      <4>3. buf[i + 1] = pushed[Left + (i + 1)]
        BY <4>1 DEF History, Suffix
      <4> QED
        BY <1>2, <4>1, <4>2, <4>3
    <3> QED
      BY <3>1, <3>2
  <2>5. LostIsOld'
    BY <1>2, <1>5, <2>2, <2>3 DEF LostIsOld
  <2>6. ReceivedLeft'
    BY <1>1, <1>2, <2>1, <2>2, <2>3 DEF History, ReceivedLeft
  <2>7. InOrder'
    BY <1>1, <1>2 DEF History, InOrder
  <2> QED
    BY <2>4, <2>5, <2>6, <2>7 DEF History
<1> QED
  BY <1>4, <1>5, <1>6

LEMMA PopHistory ==
    ASSUME TypeOK, Ready, History, PollPop
    PROVE  History'
<1> USE DEF TypeOK
<1>1. /\ Len(Tail(buf)) = Len(buf) - 1
      /\ \A i \in 1 .. Len(buf) - 1 : Tail(buf)[i] = buf[i + 1]
      /\ Len(buf) \in Nat \ {0}
      /\ Head(buf) = buf[1] /\ Head(buf) \in Item
  BY TailLaw DEF PollPop, Ready
<1>2. buf' = Tail(buf) /\ pushed' = pushed /\ received' = Append(received, Head(buf))
  BY DEF PollPop
<1>3. Left' = Left + 1 /\ Left \in Nat /\ Left + Len(buf) = Len(pushed) /\ Len(pushed) \in Nat
  BY <1>1, <1>2 DEF Left, History, Suffix
<1>4. pushed[Left + 1] = Head(buf)
  BY <1>1, <1>3 DEF History, Suffix
<1>5. Items(received') = Items(received) \cup {Head(buf)}
  BY <1>1, <1>2, ItemsLaw
<1>6. Suffix'
  BY <1>1, <1>2, <1>3 DEF History, Suffix
<1>7. LostIsOld'
  BY <1>2, <1>3, <1>4, <1>5 DEF History, LostIsOld
<1>8. /\ DOMAIN received = 1 .. Len(received)
      /\ DOMAIN received' = 1 .. Len(received) + 1
      /\ Len(received) \in Nat
      /\ received'[Len(received) + 1] = Head(buf)
      /\ \A m \in 1 .. Len(received) : received'[m] = received[m]
  BY <1>1, <1>2, AppendLaw
<1> HIDE DEF TypeOK
<1>9. ReceivedLeft'
  <2> SUFFICES ASSUME NEW m \in 1 .. Len(received) + 1
               PROVE  \E p \in 1 .. Left + 1 : pushed[p] = received'[m]
    BY <1>2, <1>3, <1>8 DEF ReceivedLeft
  <2>1. CASE m = Len(received) + 1
    <3>1. Left + 1 \in 1 .. Left + 1
      BY <1>3
    <3> QED
      BY <1>4, <1>8, <2>1, <3>1
  <2>2. CASE m # Len(received) + 1
    <3>1. m \in 1 .. Len(received)
      BY <1>8, <2>2
    <3>2. PICK p \in 1 .. Left : pushed[p] = received[m]
      BY <1>8, <3>1 DEF History, ReceivedLeft
    <3>3. p \in 1 .. Left + 1
      BY <1>3, <3>2
    <3> QED
      BY <1>8, <3>1, <3>2, <3>3
  <2> QED
    BY <2>1, <2>2
<1>10. InOrder'
  <2> SUFFICES ASSUME NEW m \in DOMAIN received', NEW n \in DOMAIN received', m < n
               PROVE  \E p, q \in DOMAIN pushed :
                          p < q /\ pushed[p] = received'[m] /\ pushed[q] = received'[n]
    BY <1>2 DEF InOrder
  <2>1. DOMAIN pushed = 1 .. Len(pushed)
    BY DEF TypeOK
  <2>2. CASE n = Len(received) + 1
    <3>1. PICK p \in 1 .. Left : pushed[p] = received[m]
      BY <1>8, <2>2 DEF History, ReceivedLeft
    <3>2. received'[m] = received[m] /\ received'[n] = Head(buf)
      BY <1>8, <2>2
    <3>3. p \in DOMAIN pushed /\ Left + 1 \in DOMAIN pushed /\ p < Left + 1
      BY <1>1, <1>3, <2>1
    <3> QED
      BY <1>4, <3>1, <3>2, <3>3
  <2>3. CASE n # Len(received) + 1
    <3>1. m \in DOMAIN received /\ n \in DOMAIN received
      BY <1>8, <2>3
    <3>2. received'[m] = received[m] /\ received'[n] = received[n]
      BY <1>8, <3>1
    <3> QED
      BY <3>1, <3>2 DEF History, InOrder
  <2> QED
    BY <2>2, <2>3
<1> QED
  BY <1>6, <1>7, <1>9, <1>10 DEF History

LEMMA HistoryStep == TypeOK /\ Ready /\ History /\ [Next]_chanVars => History'
<1> SUFFICES ASSUME TypeOK, Ready, History, [Next]_chanVars
             PROVE  History'
  OBVIOUS
<1>1. CASE UNCHANGED <<buf, pushed, received>>
  BY <1>1 DEF History, Suffix, LostIsOld, ReceivedLeft, InOrder, Left
<1> QED
  BY <1>1, PushHistory, PopHistory DEF Next, SenderStep, Poll, chanVars, DropWake, DropSender,
     Send, CloneSender, PollLen, StartPoll, PollCount, PollRegister, Repoll, DropReceiver

LEMMA HistoryInvariant == Spec => []History
<1>1. Init => History
  BY LossyAssumption DEF Init, History, Suffix, LostIsOld, ReceivedLeft, InOrder, Left
<1> QED
  BY <1>1, HistoryStep, Typing, PTL DEF Spec

(***************************************************************************)
(* The buffer is bounded, and only items older than the last buf_size are  *)
(* ever lost.                                                              *)
(***************************************************************************)
THEOREM SurviveTheorem == Spec => []NewestSurvive
<1>1. TypeOK /\ Bounded /\ History => NewestSurvive
  <2> SUFFICES ASSUME TypeOK, Bounded, History,
                      NEW p \in DOMAIN pushed, p + BufSize > Len(pushed)
               PROVE  pushed[p] \in Items(buf) \cup Items(received)
    BY DEF NewestSurvive
  <2>1. DOMAIN pushed = 1 .. Len(pushed) /\ Len(pushed) \in Nat /\ Len(buf) \in Nat
    BY DEF TypeOK
  <2>2. CASE p \in 1 .. Left
    BY <2>2 DEF History, LostIsOld
  <2>3. CASE p \notin 1 .. Left
    <3>1. p - Left \in 1 .. Len(buf) /\ Left + (p - Left) = p
      BY <2>1, <2>3 DEF History, Suffix, Left
    <3>2. buf[p - Left] = pushed[p]
      BY <3>1 DEF History, Suffix
    <3>3. buf[p - Left] \in Items(buf)
      BY <3>1, ItemsLaw DEF TypeOK
    <3> QED
      BY <3>2, <3>3
  <2> QED
    BY <2>2, <2>3
<1> QED
  BY <1>1, HistoryInvariant, BoundTheorem, Typing, PTL

(***************************************************************************)
(* The receiver sees items in the order they were sent.                    *)
(***************************************************************************)
THEOREM OrderTheorem == Spec => []InOrder
<1>1. History => InOrder
  BY DEF History
<1> QED
  BY <1>1, HistoryInvariant, PTL

=============================================================================
