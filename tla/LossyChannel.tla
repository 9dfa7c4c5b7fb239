---------------------------- MODULE LossyChannel ----------------------------
(***************************************************************************)
(* The lossy event channel of common/util.rs: a bounded buffer that drops  *)
(* its oldest item when it is full, senders that may be cloned, and one    *)
(* receiver whose future is polled.                                        *)
(*                                                                         *)
(* LossyRxFut::poll reads tx_count, takes the read lock, takes the write   *)
(* lock and registers its waker one after the other; sends and drops of    *)
(* senders fall in between when they run on another thread (Parallel).     *)
(* A poll that is woken runs again; a select loop also polls again when    *)
(* another branch of it was ready.                                         *)
(***************************************************************************)
EXTENDS Sequences, Naturals, FiniteSets

CONSTANTS
    Item,      \* what is sent, each item once
    Sender,    \* handles of senders
    First,     \* the sender that lossy_channel returns
    BufSize,   \* buf_size
    None,      \* no item
    Parallel   \* TRUE: senders and receiver run on different threads

ASSUME LossyAssumption ==
    /\ First \in Sender
    /\ IsFiniteSet(Sender)
    /\ BufSize \in Nat
    /\ None \notin Item
    /\ Parallel \in BOOLEAN

VARIABLES
    buf,        \* the buffer
    senders,    \* live senders: tx_count is their number
    sending,    \* the item a send has in hand past its rx_closed test
    dropping,   \* senders that left tx_count and have not called wake yet
    rx,         \* where the receiver is in its poll
    rx_closed,  \* the receiver is dropped
    waker,      \* a waker is registered
    notified,   \* the receiver's task is scheduled by a wake
    pushed,     \* history: every item that entered buf
    received    \* history: every item the receiver got

chanVars == <<buf, senders, sending, dropping, rx, rx_closed, waker, notified, pushed, received>>

Polling == {"count", "len", "pop", "register"}

TypeOK ==
    /\ buf \in Seq(Item)
    /\ senders \subseteq Sender
    /\ sending \in [Sender -> Item \cup {None}]
    /\ dropping \subseteq Sender \ senders
    /\ rx \in Polling \cup {"idle", "parked", "ended", "closed"}
    /\ rx_closed \in BOOLEAN
    /\ waker \in BOOLEAN
    /\ notified \in BOOLEAN
    /\ pushed \in Seq(Item)
    /\ received \in Seq(Item)

Init ==
    /\ buf = << >>
    /\ senders = {First}
    /\ sending = [s \in Sender |-> None]
    /\ dropping = {}
    /\ rx = "idle"
    /\ rx_closed = FALSE
    /\ waker = FALSE
    /\ notified = FALSE
    /\ pushed = << >>
    /\ received = << >>

Items(q) == {q[i] : i \in DOMAIN q}

tx_count == Cardinality(senders)

\* AtomicWaker::wake takes the waker that is registered, if any.
Wake == /\ notified' = (notified \/ waker)
        /\ waker' = FALSE

\* On one thread a poll, a send and a drop run to their end without each other.
SendersMayRun == Parallel \/ rx \notin Polling
PollMayRun == Parallel \/ (dropping = {} /\ \A s \in Sender : sending[s] = None)

-----------------------------------------------------------------------------
(* LossySender *)

\* send: the test of rx_closed; a closed channel gives the item back.
Send(s, i) ==
    /\ SendersMayRun
    /\ s \in senders /\ sending[s] = None
    /\ i \notin Items(pushed) /\ \A t \in Sender : sending[t] # i
    /\ ~rx_closed
    /\ sending' = [sending EXCEPT ![s] = i]
    /\ UNCHANGED <<buf, senders, dropping, rx, rx_closed, waker, notified, pushed, received>>

\* Mutant: the newest item is dropped.
RoomByNewest(q) == IF Len(q) = BufSize /\ q # << >> THEN SubSeq(q, 1, Len(q) - 1) ELSE q

\* A full buffer drops its oldest item; pop_front of an empty one does nothing.
Room(q) == IF Len(q) = BufSize /\ q # << >> THEN Tail(q) ELSE q

\* Mutant: an item is pushed without a wake.
PushSilently(s) ==
    /\ SendersMayRun
    /\ sending[s] # None
    /\ buf' = Append(Room(buf), sending[s])
    /\ pushed' = Append(pushed, sending[s])
    /\ sending' = [sending EXCEPT ![s] = None]
    /\ UNCHANGED <<senders, dropping, rx, rx_closed, waker, notified, received>>

\* send: everything under the write lock, wake included.  The lock is not held
\* across a step of the poll that needs it, so this is one step.
Push(s) ==
    /\ SendersMayRun
    /\ sending[s] # None
    /\ buf' = Append(Room(buf), sending[s])
    /\ pushed' = Append(pushed, sending[s])
    /\ sending' = [sending EXCEPT ![s] = None]
    /\ Wake
    /\ UNCHANGED <<senders, dropping, rx, rx_closed, received>>

CloneSender(s, t) ==
    /\ SendersMayRun
    /\ s \in senders /\ t \notin senders \cup dropping
    /\ senders' = senders \cup {t}
    /\ UNCHANGED <<buf, sending, dropping, rx, rx_closed, waker, notified, pushed, received>>

\* Mutant: a drop that does not count.
DropUncounted(s) ==
    /\ SendersMayRun
    /\ s \in senders /\ sending[s] = None
    /\ dropping' = dropping \cup {s}
    /\ UNCHANGED <<buf, senders, sending, rx, rx_closed, waker, notified, pushed, received>>

\* drop: the count first ...
DropSender(s) ==
    /\ SendersMayRun
    /\ s \in senders /\ sending[s] = None
    /\ senders' = senders \ {s}
    /\ dropping' = dropping \cup {s}
    /\ UNCHANGED <<buf, sending, rx, rx_closed, waker, notified, pushed, received>>

\* Mutant: a dropped sender wakes nobody.
DropSilently(s) ==
    /\ SendersMayRun
    /\ s \in dropping
    /\ dropping' = dropping \ {s}
    /\ UNCHANGED <<buf, senders, sending, rx, rx_closed, waker, notified, pushed, received>>

\* ... then the wake.
DropWake(s) ==
    /\ SendersMayRun
    /\ s \in dropping
    /\ dropping' = dropping \ {s}
    /\ Wake
    /\ UNCHANGED <<buf, senders, sending, rx, rx_closed, pushed, received>>

-----------------------------------------------------------------------------
(* LossyRxFut and LossyReceiver *)

\* recv is polled: for the first time, because of a wake, or by chance.
StartPoll ==
    /\ PollMayRun
    /\ rx = "idle" \/ (rx = "parked" /\ notified)
    /\ rx' = "count"
    /\ notified' = FALSE
    /\ UNCHANGED <<buf, senders, sending, dropping, rx_closed, waker, pushed, received>>

Repoll ==
    /\ PollMayRun
    /\ rx = "parked" /\ ~notified
    /\ rx' = "count"
    /\ UNCHANGED <<buf, senders, sending, dropping, rx_closed, waker, notified, pushed, received>>

\* Ready(None) without a look at the buffer once no sender is left.
PollCount ==
    /\ rx = "count"
    /\ rx' = IF tx_count = 0 THEN "ended" ELSE "len"
    /\ UNCHANGED <<buf, senders, sending, dropping, rx_closed, waker, notified, pushed, received>>

PollLen ==
    /\ rx = "len"
    /\ rx' = IF Len(buf) > 0 THEN "pop" ELSE "register"
    /\ UNCHANGED <<buf, senders, sending, dropping, rx_closed, waker, notified, pushed, received>>

\* Mutant: the newest item is taken.
PollPopNewest ==
    /\ rx = "pop"
    /\ rx' = "idle"
    /\ buf' = SubSeq(buf, 1, Len(buf) - 1)
    /\ received' = Append(received, buf[Len(buf)])
    /\ UNCHANGED <<senders, sending, dropping, rx_closed, waker, notified, pushed>>

\* Nothing but this removes the last item, so there is one to pop.
PollPop ==
    /\ rx = "pop"
    /\ rx' = "idle"
    /\ buf' = Tail(buf)
    /\ received' = Append(received, Head(buf))
    /\ UNCHANGED <<senders, sending, dropping, rx_closed, waker, notified, pushed>>

\* Mutant: Pending without a waker.
PollForget ==
    /\ rx = "register"
    /\ rx' = "parked"
    /\ UNCHANGED <<buf, senders, sending, dropping, rx_closed, waker, notified, pushed, received>>

\* Pending; the buffer and the count are not read again.
PollRegister ==
    /\ rx = "register"
    /\ rx' = "parked"
    /\ waker' = TRUE
    /\ UNCHANGED <<buf, senders, sending, dropping, rx_closed, notified, pushed, received>>

\* The receiver is dropped between two polls.
DropReceiver ==
    /\ rx \in {"idle", "parked", "ended"}
    /\ PollMayRun
    /\ rx' = "closed"
    /\ rx_closed' = TRUE
    /\ UNCHANGED <<buf, senders, sending, dropping, waker, notified, pushed, received>>

Poll == StartPoll \/ PollCount \/ PollLen \/ PollPop \/ PollRegister

SenderStep(s) == Push(s) \/ DropWake(s)

Next == \/ \E s \in Sender : \/ SenderStep(s) \/ DropSender(s)
                             \/ \E i \in Item : Send(s, i)
                             \/ \E t \in Sender : CloneSender(s, t)
        \/ Poll \/ Repoll \/ DropReceiver

Spec == Init /\ [][Next]_chanVars

\* A poll, a send and a drop that began go on; a woken receiver polls again.  On
\* one thread a poll is disabled in the middle of a send or a drop, which no
\* task scheduler can interrupt: the fairness of polls is strong.
Fairness == SF_chanVars(Poll) /\ \A s \in Sender : WF_chanVars(SenderStep(s))

FairSpec == Spec /\ Fairness

-----------------------------------------------------------------------------
\* A buf_size of zero does not bound the buffer.
Bounded == BufSize > 0 => Len(buf) =< BufSize

(* The buffer stays within buf_size, with senders on any threads, and what *)
(* is dropped to keep it there is old: each of the last buf_size items     *)
(* sent is still in the buffer or was received.                            *)
NewestSurvive ==
    /\ Bounded
    /\ \A p \in DOMAIN pushed :
          p + BufSize > Len(pushed) => pushed[p] \in Items(buf) \cup Items(received)

(* The receiver sees the items in the order they were sent, with gaps.     *)
InOrder ==
    \A m, n \in DOMAIN received : m < n =>
        \E p, q \in DOMAIN pushed :
            p < q /\ pushed[p] = received[m] /\ pushed[q] = received[n]

(* A receiver that waits is one wake away from polling: its waker is       *)
(* registered or it is scheduled already, so even after a missed wake the  *)
(* next send or drop reaches it.                                           *)
ParkedIsWakeable == rx = "parked" => waker \/ notified

(* On one thread no wake is missed: a receiver that waits although there   *)
(* is an item, or no sender, is scheduled.  On several threads a send      *)
(* between the test of the length and the registration is missed.          *)
NoLostWakeup ==
    rx = "parked" /\ PollMayRun /\ (buf # << >> \/ senders = {}) => notified

(* On one thread every item is eventually received or pushed out, unless   *)
(* the receiver or the last sender is dropped.                             *)
ItemLeaves ==
    \A i \in Item :
        i \in Items(buf) ~> i \notin Items(buf) \/ rx_closed \/ senders = {}

(* On one thread the receiver learns that no sender is left.               *)
EndIsSeen == (senders = {}) ~> (rx \in {"ended", "closed"})
=============================================================================
