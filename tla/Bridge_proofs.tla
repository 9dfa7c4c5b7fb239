---------------------------- MODULE Bridge_proofs ----------------------------
(***************************************************************************)
(* Proofs about Bridge, for any size of the event buffer and any number of *)
(* events and of connections.                                              *)
(***************************************************************************)
EXTENDS Bridge, SequenceTheorems, TLAPS

USE BridgeAssumption

-----------------------------------------------------------------------------
(* Types *)

\* The actions that move the implementation side to where it awaits no call.
Moves == Provide \/ Check \/ CreateFails \/ CreateOk \/ ImplSignal \/ ImplClose \/ CallPanics

LEMMA PushType ==
    ASSUME buf \in Seq(1..emitted), Len(buf) =< BufSize, emitted \in Nat, Push(emitted + 1)
    PROVE  buf' \in Seq(1..(emitted + 1)) /\ Len(buf') =< BufSize
<1>1. buf \in Seq(1..(emitted + 1))
  OBVIOUS
<1>2. CASE Len(buf) = BufSize
  <2>1. Tail(buf) \in Seq(1..(emitted + 1)) /\ Len(Tail(buf)) = BufSize - 1
    BY <1>1, <1>2
  <2> QED
    BY <1>2, <2>1 DEF Push
<1>3. CASE Len(buf) # BufSize
  BY <1>1, <1>3 DEF Push
<1> QED
  BY <1>2, <1>3

\* The flags, which no other variable's type depends on.
Flags == /\ app_sub \in BOOLEAN /\ announced \in BOOLEAN /\ outer_sub \in BOOLEAN
         /\ impl_sub \in BOOLEAN /\ use_event \in BOOLEAN /\ closed \in BOOLEAN
Subscribed == (impl_sub => Serving) /\ (app_sub \/ outer_sub \/ impl_sub => closed)

Plain ==
    /\ app \in {"spawned", "select", "done", "panicked"}
    /\ impl \in {"provide", "failed", "check", "create", "serve", "sending", "acting", "done",
                "panicked"}
    /\ conns \in 0..MaxConn
    /\ late \in 0..conns
    /\ buf \in Seq(1..emitted) /\ Len(buf) =< BufSize
    /\ emitted \in 0..MaxEvent
    /\ passed \in Seq(1..emitted)

LEMMA FlagsStep == Flags /\ Subscribed /\ [Next]_vars => Flags' /\ Subscribed'
<1> SUFFICES ASSUME Flags, Subscribed, [Next]_vars
             PROVE  Flags' /\ Subscribed'
  OBVIOUS
<1> USE DEF Flags, Subscribed, Serving
<1>1. CASE UNCHANGED vars
  BY <1>1 DEF vars
<1>2. CASE Close \/ AppClose
  <2>1. /\ closed' = TRUE /\ outer_sub' = ReceiverAlive /\ impl_sub' = Serving
        /\ app_sub' = (app = "select") /\ UNCHANGED <<impl, use_event>>
        /\ announced' = announced \/ announced' = TRUE
    BY <1>2, Zenon DEF Close, AppClose, Broadcast
  <2>2. ReceiverAlive \in BOOLEAN /\ Serving \in BOOLEAN /\ (app = "select") \in BOOLEAN
    BY DEF ReceiverAlive
  <2>3. Flags'
    BY <2>1, <2>2, Zenon
  <2>4. Serving' <=> Serving
    BY <2>1, Zenon
  <2>5. impl_sub' => Serving'
    BY <2>1, <2>4, Zenon
  <2> QED
    BY <2>1, <2>3, <2>5, Zenon
<1>3. CASE AppStart
  BY <1>3, Zenon DEF AppStart
<1>4. CASE AppSignal
  <2>1. app_sub' = FALSE /\ UNCHANGED <<announced, impl, outer_sub, impl_sub, use_event, closed>>
    BY <1>4 DEF AppSignal
  <2>2. ~app_sub'
    BY <2>1
  <2> QED
    BY <2>1, <2>2, Zenon
<1>5. CASE AppEvent
  BY <1>5, Zenon DEF AppEvent
<1>6. ASSUME NEW at, at \notin {"sending", "acting"}, ImplGoto(at)
      PROVE  Flags' /\ Subscribed'
  BY <1>6, Zenon DEF ImplGoto
<1>7. CASE Moves
  BY <1>7, <1>6 DEF Moves, Provide, Check, CreateFails, CreateOk, ImplSignal, ImplClose,
                    CallPanics
<1>8. CASE TakeEvent \/ TakeAction
  <2>1. PICK at \in {"sending", "acting"} : Calling(at)
    BY <1>8, Zenon DEF TakeEvent, TakeAction
  <2> QED
    BY <2>1, Zenon DEF Calling
<1>9. CASE CallReturns
  BY <1>9, Zenon DEF CallReturns
<1> QED
  BY <1>1, <1>2, <1>3, <1>4, <1>5, <1>7, <1>8, <1>9, Zenon DEF Next, Moves

LEMMA PlainStep == Plain /\ [Next]_vars => Plain'
<1> SUFFICES ASSUME Plain, [Next]_vars
             PROVE  Plain'
  OBVIOUS
<1> USE DEF Plain
<1>1. CASE UNCHANGED vars
  BY <1>1 DEF vars
<1>2. CASE Close \/ AppClose
  BY <1>2 DEF Close, AppClose
<1>3. CASE AppStart \/ AppSignal
  BY <1>3 DEF AppStart, AppSignal
<1>4. CASE AppEvent
  <2>1. CASE ReceiverAlive
    <3>1. Push(emitted + 1) /\ emitted' = emitted + 1 /\ emitted < MaxEvent
      BY <1>4, <2>1 DEF AppEvent
    <3>2. buf' \in Seq(1..(emitted + 1)) /\ Len(buf') =< BufSize
      BY <3>1, PushType
    <3>3. emitted' \in 0..MaxEvent
      BY <3>1
    <3>4. passed' \in Seq(1..emitted')
      BY <1>4, <3>1 DEF AppEvent
    <3> QED
      BY <1>4, <2>1, <3>1, <3>2, <3>3, <3>4 DEF AppEvent
  <2>2. CASE ~ReceiverAlive
    BY <1>4, <2>2 DEF AppEvent
  <2> QED
    BY <2>1, <2>2
<1>5. CASE Provide \/ Check \/ CreateFails \/ ImplSignal \/ ImplClose \/ CallPanics
  BY <1>5 DEF Provide, Check, CreateFails, ImplSignal, ImplClose, CallPanics, ImplGoto
<1>6. CASE CreateOk
  BY <1>6 DEF CreateOk, ImplGoto
<1>7. CASE TakeEvent
  <2>1. Head(buf) \in 1..emitted /\ Tail(buf) \in Seq(1..emitted) /\ Len(Tail(buf)) =< BufSize
    BY <1>7 DEF TakeEvent
  <2>2. passed' \in Seq(1..emitted) /\ buf' \in Seq(1..emitted) /\ Len(buf') =< BufSize
    BY <1>7, <2>1 DEF TakeEvent
  <2> QED
    BY <1>7, <2>2 DEF TakeEvent, Calling
<1>8. CASE TakeAction \/ CallReturns
  BY <1>8 DEF TakeAction, CallReturns, Calling
<1> QED
  BY <1>1, <1>2, <1>3, <1>4, <1>5, <1>6, <1>7, <1>8 DEF Next

LEMMA TypeParts == TypeOK <=> Flags /\ Subscribed /\ Plain
BY Zenon DEF TypeOK, Flags, Subscribed, Plain

LEMMA TypeStep == TypeOK /\ [Next]_vars => TypeOK'
BY FlagsStep, PlainStep, TypeParts, PTL

(***************************************************************************)
(* Types, among them that a subscription has a close only after one was    *)
(* broadcast.                                                              *)
(***************************************************************************)
THEOREM Typing == Spec => []TypeOK
<1>1. Init => TypeOK
  <2> SUFFICES ASSUME Init
               PROVE  Flags /\ Subscribed /\ Plain
    BY TypeParts
  <2>1. Flags
    BY Zenon DEF Init, Flags
  <2>2. Subscribed
    BY DEF Init, Subscribed
  <2>3. Plain
    BY DEF Init, Plain
  <2> QED
    BY <2>1, <2>2, <2>3
<1> QED
  BY <1>1, TypeStep, PTL DEF Spec

-----------------------------------------------------------------------------
(* Closing *)

\* While the implementation side has its receiver, create's subscription,
\* which is older than any close, holds every close; the loop ends at its next
\* test.  So a connection made after a close is the last one.
Closing ==
    /\ ~closed /\ impl \notin {"failed", "panicked"} => SenderAlive /\ ReceiverAlive
    /\ app = "panicked" => ~ReceiverAlive
    /\ closed /\ ReceiverAlive => outer_sub
    /\ late =< 1
    /\ late = 1 => closed /\ impl # "create"

LEMMA ClosingStep == TypeOK /\ Closing /\ [Next]_vars => Closing'
<1> SUFFICES ASSUME Plain, Subscribed, Closing, [Next]_vars
             PROVE  Closing'
  BY DEF TypeOK, Plain, Subscribed
<1> USE DEF Plain, Subscribed, Closing, SenderAlive, ReceiverAlive
<1>1. CASE UNCHANGED vars
  BY <1>1 DEF vars
<1>2. CASE Close \/ AppClose
  <2>1. /\ closed' /\ UNCHANGED late /\ UNCHANGED impl /\ UNCHANGED app
        /\ outer_sub' = ReceiverAlive
    BY <1>2 DEF Close, AppClose, Broadcast
  <2>2. closed' /\ ReceiverAlive' => outer_sub'
    BY <2>1, Zenon DEF ReceiverAlive
  <2> QED
    BY <2>1, <2>2
<1>3. CASE AppStart \/ AppSignal \/ AppEvent
  BY <1>3 DEF AppStart, AppSignal, AppEvent
<1>4. CASE Provide \/ Check
  BY <1>4 DEF Provide, Check, ImplGoto
<1>5. CASE CreateFails \/ ImplSignal \/ ImplClose \/ CallPanics
  BY <1>5 DEF CreateFails, ImplSignal, ImplClose, CallPanics, ImplGoto
<1>6. CASE CreateOk
  BY <1>6 DEF CreateOk, ImplGoto
<1>7. CASE TakeEvent \/ TakeAction \/ CallReturns
  BY <1>7 DEF TakeEvent, TakeAction, CallReturns, Calling
<1> QED
  BY <1>1, <1>2, <1>3, <1>4, <1>5, <1>6, <1>7 DEF Next

(***************************************************************************)
(* Without a close the bridge runs on, however connections fail and end,   *)
(* unless its create fails or a call panics; app_task panics only when the *)
(* other side is gone; and after a close at most one more connection is    *)
(* made.                                                                   *)
(***************************************************************************)
THEOREM UntilClosedTheorem == Spec => []UntilClosed
<1>1. Init => Closing
  BY DEF Init, Closing, SenderAlive, ReceiverAlive
<1>2. Closing => UntilClosed
  BY DEF Closing, UntilClosed
<1> QED
  BY <1>1, <1>2, ClosingStep, Typing, PTL DEF Spec

-----------------------------------------------------------------------------
(* Events *)

\* The events in a channel when n have been pushed: the last of them.
Run(q, n) == q \in Seq(Nat) /\ \A j \in 1..Len(q) : q[j] = n - Len(q) + j

LEMMA AppendRun ==
    ASSUME NEW n \in Nat, NEW q, Run(q, n)
    PROVE  Run(Append(q, n + 1), n + 1) /\ Len(Append(q, n + 1)) = Len(q) + 1
<1> DEFINE r == Append(q, n + 1)
<1>1. q \in Seq(Nat) /\ n + 1 \in Nat
  BY DEF Run
<1>2. /\ r \in Seq(Nat) /\ Len(r) = Len(q) + 1 /\ Len(q) \in Nat
      /\ r[Len(q) + 1] = n + 1
      /\ \A j \in 1..Len(q) : r[j] = q[j]
  BY <1>1, AppendProperties
<1> HIDE DEF r
<1>3. ASSUME NEW j \in 1..Len(r)
      PROVE  r[j] = (n + 1) - Len(r) + j
  <2>1. CASE j = Len(r)
    BY <1>2, <2>1
  <2>2. CASE j # Len(r)
    <3>1. j \in 1..Len(q) /\ r[j] = q[j] /\ q[j] = n - Len(q) + j
      BY <1>2, <2>2 DEF Run
    <3> QED
      BY <1>2, <3>1
  <2> QED
    BY <2>1, <2>2
<1>4. Run(r, n + 1)
  BY <1>2, <1>3 DEF Run
<1> QED
  BY <1>2, <1>4 DEF r

LEMMA TailRun ==
    ASSUME NEW n \in Nat, NEW q, Run(q, n), q # << >>
    PROVE  /\ Run(Tail(q), n) /\ Len(Tail(q)) = Len(q) - 1
           /\ Head(q) = n - Len(q) + 1 /\ Len(q) \in Nat \ {0}
<1> DEFINE r == Tail(q)
<1>1. q \in Seq(Nat)
  BY DEF Run
<1>2. /\ r \in Seq(Nat) /\ Len(r) = Len(q) - 1 /\ Len(q) \in Nat \ {0}
      /\ \A j \in 1..Len(q) - 1 : r[j] = q[j + 1]
      /\ Head(q) = q[1]
  BY <1>1, HeadTailProperties, EmptySeq
<1> HIDE DEF r
<1>3. \A j \in 1..Len(r) : r[j] = n - Len(r) + j
  BY <1>2 DEF Run
<1>4. Run(r, n)
  BY <1>2, <1>3 DEF Run
<1>5. Head(q) = n - Len(q) + 1
  BY <1>2 DEF Run
<1> QED
  BY <1>2, <1>4, <1>5 DEF r

LEMMA RunItems ==
    ASSUME NEW n \in Nat, NEW q, Run(q, n)
    PROVE  \A e \in Nat : e > n - Len(q) /\ e =< n => e \in Items(q)
<1> SUFFICES ASSUME NEW e \in Nat, e > n - Len(q), e =< n
             PROVE  e \in Items(q)
  OBVIOUS
<1>1. q \in Seq(Nat) /\ Len(q) \in Nat /\ DOMAIN q = 1..Len(q)
  BY DEF Run
<1> DEFINE j == e - (n - Len(q))
<1>2. j \in 1..Len(q)
  BY <1>1
<1>3. q[j] = e
  BY <1>1, <1>2 DEF Run
<1> QED
  BY <1>1, <1>2, <1>3 DEF Items

LEMMA AppendItems ==
    ASSUME NEW q \in Seq(Nat), NEW x \in Nat
    PROVE  Items(q) \cup {x} \subseteq Items(Append(q, x))
<1> DEFINE r == Append(q, x)
<1>1. /\ r \in Seq(Nat) /\ Len(r) = Len(q) + 1 /\ Len(q) \in Nat
      /\ r[Len(q) + 1] = x /\ DOMAIN r = 1..Len(r) /\ DOMAIN q = 1..Len(q)
      /\ \A j \in 1..Len(q) : r[j] = q[j]
  BY AppendProperties
<1> HIDE DEF r
<1>2. x \in Items(r)
  BY <1>1 DEF Items
<1>3. Items(q) \subseteq Items(r)
  BY <1>1 DEF Items
<1> QED
  BY <1>2, <1>3 DEF r

\* What was taken from the channel is older than what it holds, and those of
\* the newest events that it does not hold were taken.
Increasing == \A i, j \in 1..Len(passed) : i < j => passed[i] < passed[j]
Older == \A i \in 1..Len(passed) : passed[i] =< emitted - Len(buf)
Taken == \A e \in Nat \ {0} :
             e =< emitted - Len(buf) /\ e + BufSize > emitted => e \in Items(passed)

Kept == Run(buf, emitted) /\ Increasing /\ Older /\ Taken

LEMMA PushKeeps ==
    ASSUME Plain, Kept, Push(emitted + 1), emitted' = emitted + 1, UNCHANGED passed
    PROVE  Kept'
<1>1. /\ emitted \in Nat /\ Len(buf) \in Nat /\ Len(buf) =< BufSize /\ passed \in Seq(Nat)
      /\ \A i \in 1..Len(passed) : passed[i] \in Nat
  BY DEF Plain
<1>2. Run(buf, emitted)
  BY DEF Kept
<1>3. Increasing'
  BY DEF Kept, Increasing
<1>4. CASE Len(buf) = BufSize
  <2>1. buf # << >>
    BY <1>4, EmptySeq
  <2>2. Run(Tail(buf), emitted) /\ Len(Tail(buf)) = BufSize - 1
    BY <1>1, <1>2, <1>4, <2>1, TailRun
  <2>3. buf' = Append(Tail(buf), emitted + 1)
    BY <1>4 DEF Push
  <2>4. Run(buf', emitted + 1) /\ Len(buf') = BufSize
    BY <1>1, <2>2, <2>3, AppendRun
  <2>5. Older'
    BY <1>1, <1>4, <2>4 DEF Kept, Older
  <2>6. Taken'
    BY <1>1, <2>4 DEF Taken
  <2> QED
    BY <1>3, <2>4, <2>5, <2>6 DEF Kept
<1>5. CASE Len(buf) # BufSize
  <2>1. buf' = Append(buf, emitted + 1)
    BY <1>5 DEF Push
  <2>2. Run(buf', emitted + 1) /\ Len(buf') = Len(buf) + 1
    BY <1>1, <1>2, <2>1, AppendRun
  <2>3. Older'
    BY <1>1, <2>2 DEF Kept, Older
  <2>4. Taken'
    BY <1>1, <2>2 DEF Kept, Taken
  <2> QED
    BY <1>3, <2>2, <2>3, <2>4 DEF Kept
<1> QED
  BY <1>4, <1>5

LEMMA TakeKeeps ==
    ASSUME Plain, Kept, TakeEvent
    PROVE  Kept'
<1> DEFINE first == emitted - Len(buf) + 1
<1>1. /\ emitted \in Nat /\ passed \in Seq(Nat)
      /\ \A i \in 1..Len(passed) : passed[i] \in Nat
  BY DEF Plain
<1>2. buf # << >> /\ buf' = Tail(buf) /\ passed' = Append(passed, Head(buf)) /\ emitted' = emitted
  BY DEF TakeEvent, Calling
<1>3. /\ Run(buf', emitted) /\ Len(buf') = Len(buf) - 1
      /\ Head(buf) = first /\ Len(buf) \in Nat \ {0} /\ first \in Nat
  <2>1. Run(buf, emitted)
    BY DEF Kept
  <2>2. Head(buf) \in Nat
    BY <1>2 DEF Plain
  <2> QED
    BY <1>1, <1>2, <2>1, <2>2, TailRun
<1>4. /\ Len(passed) \in Nat /\ Len(passed') = Len(passed) + 1
      /\ passed'[Len(passed) + 1] = first
      /\ \A i \in 1..Len(passed) : passed'[i] = passed[i]
  BY <1>1, <1>2, <1>3, AppendProperties
<1>5. Items(passed) \cup {first} \subseteq Items(passed')
  BY <1>1, <1>2, <1>3, AppendItems
<1>6. Older'
  BY <1>1, <1>2, <1>3, <1>4 DEF Kept, Older
<1>7. Increasing'
  <2> SUFFICES ASSUME NEW i \in 1..Len(passed'), NEW j \in 1..Len(passed'), i < j
               PROVE  passed'[i] < passed'[j]
    BY DEF Increasing
  <2>1. i \in 1..Len(passed) /\ passed'[i] = passed[i] /\ passed[i] \in Nat
    BY <1>1, <1>4
  <2>2. CASE j = Len(passed) + 1
    BY <1>1, <1>3, <1>4, <2>1, <2>2 DEF Kept, Older
  <2>3. CASE j # Len(passed) + 1
    BY <1>4, <2>1, <2>3 DEF Kept, Increasing
  <2> QED
    BY <2>2, <2>3
<1>8. Taken'
  <2>1. ASSUME NEW e \in Nat \ {0}, e =< first, e + BufSize > emitted
        PROVE  e \in Items(passed')
    <3>1. CASE e = first
      BY <1>5, <3>1
    <3>2. CASE e # first
      BY <1>1, <1>3, <1>5, <2>1, <3>2 DEF Kept, Taken
    <3> QED
      BY <3>1, <3>2
  <2>2. emitted' - Len(buf') = first /\ emitted' = emitted
    BY <1>1, <1>2, <1>3
  <2> QED
    BY <2>1, <2>2 DEF Taken
<1> QED
  BY <1>2, <1>3, <1>6, <1>7, <1>8 DEF Kept

LEMMA KeptStep == TypeOK /\ Kept /\ [Next]_vars => Kept'
<1> SUFFICES ASSUME Plain, Kept, [Next]_vars
             PROVE  Kept'
  BY TypeParts
<1>1. ASSUME UNCHANGED <<buf, emitted, passed>>
      PROVE  Kept'
  BY <1>1 DEF Kept, Increasing, Older, Taken
<1>2. CASE AppEvent
  <2>1. CASE ReceiverAlive
    BY <1>2, <2>1, PushKeeps DEF AppEvent
  <2>2. CASE ~ReceiverAlive
    BY <1>1, <1>2, <2>2 DEF AppEvent
  <2> QED
    BY <2>1, <2>2
<1>3. CASE TakeEvent
  BY <1>3, TakeKeeps
<1>4. CASE ~AppEvent /\ ~TakeEvent
  BY <1>1, <1>4 DEF Next, vars, Close, AppStart, AppSignal, AppClose, Provide, Check, CreateFails,
                    CreateOk, ImplSignal, ImplClose, CallPanics, ImplGoto, TakeAction,
                    CallReturns, Calling
<1> QED
  BY <1>2, <1>3, <1>4

LEMMA KeptMeans == Plain /\ Kept => NewestKept
<1> SUFFICES ASSUME Plain, Kept
             PROVE  NewestKept
  OBVIOUS
<1>1. /\ emitted \in Nat /\ DOMAIN passed = 1..Len(passed)
      /\ \A i \in 1..Len(passed) : passed[i] \in Nat
  BY DEF Plain
<1>2. /\ Run(buf, emitted) /\ DOMAIN buf = 1..Len(buf) /\ Len(buf) \in Nat
      /\ \A j \in 1..Len(buf) : buf[j] = emitted - Len(buf) + j
  BY DEF Plain, Kept, Run
<1>3. \A i, j \in DOMAIN passed : i < j => passed[i] < passed[j]
  BY <1>1 DEF Kept, Increasing
<1>4. \A i \in DOMAIN passed, j \in DOMAIN buf : passed[i] < buf[j]
  BY <1>1, <1>2 DEF Kept, Older
<1>5. ASSUME NEW e \in 1..emitted, e + BufSize > emitted
      PROVE  e \in Items(passed) \cup Items(buf)
  <2>1. CASE e =< emitted - Len(buf)
    BY <1>1, <1>5, <2>1 DEF Kept, Taken
  <2>2. CASE e > emitted - Len(buf)
    BY <1>1, <1>2, <2>2, RunItems
  <2> QED
    BY <1>1, <1>2, <2>1, <2>2
<1> QED
  BY <1>3, <1>4, <1>5 DEF NewestKept

(***************************************************************************)
(* Events are passed on in order and once, and of the newest BufSize       *)
(* events none is lost: it was passed on or is in the channel, whatever    *)
(* connections came and went.                                              *)
(***************************************************************************)
THEOREM NewestTheorem == Spec => []NewestKept
<1>1. Init => Kept
  BY EmptySeq DEF Init, Kept, Run, Increasing, Older, Taken
<1>2. TypeOK /\ Kept => NewestKept
  BY KeptMeans, TypeParts
<1> QED
  BY <1>1, <1>2, KeptStep, Typing, PTL DEF Spec
=============================================================================
