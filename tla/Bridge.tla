------------------------------- MODULE Bridge -------------------------------
(***************************************************************************)
(* wrap/bridge.rs: OBridge passes the events of an application connection  *)
(* on to an implementation connection, the actions back, and replaces the  *)
(* implementation connection whenever it ends.                             *)
(*                                                                         *)
(* Two tasks share a lossy channel of events and a broadcast of closes.    *)
(* What the channel promises is shown in LossyChannel; here it is a queue  *)
(* of bounded length.  A subscription to the broadcast is whether a close  *)
(* was sent since it was made: the receiver stops at the first one, read   *)
(* or lagged behind.  tokio's select takes any of the ready branches; its  *)
(* else is never taken, as the branch of the broadcast accepts every       *)
(* result.                                                                 *)
(*                                                                         *)
(* The two connections are the environment: they may deliver a message,    *)
(* return from a call or stay silent.  A source that ended is silent, a    *)
(* Close(Err) of the application is only logged.                           *)
(***************************************************************************)
EXTENDS Sequences, Naturals

CONSTANTS
    BufSize,   \* event_buf_size
    MaxEvent,  \* events the application connection delivers: 1..MaxEvent
    MaxConn    \* implementation connections that are established

ASSUME BridgeAssumption ==
    /\ BufSize \in Nat \ {0}
    /\ MaxEvent \in Nat
    /\ MaxConn \in Nat

VARIABLES
    app,        \* where app_task is
    app_sub,    \* app_task's subscription has a close
    announced,  \* the application connection delivered Close(Ok)
    impl,       \* where create, then the task of the implementation side is
    outer_sub,  \* the subscription create made has a close
    impl_sub,   \* impl_task's subscription has a close
    use_event,  \* use_event_context of the application's provider
    conns,      \* implementation connections so far
    late,       \* of these, the ones made after the first close
    closed,     \* a close was broadcast
    buf,        \* the events of the lossy channel
    emitted,    \* events pushed so far
    passed      \* history: the events handed to send_event_impl, in order

vars == <<app, app_sub, announced, impl, outer_sub, impl_sub, use_event, conns, late, closed,
          buf, emitted, passed>>

\* impl_task runs and has its subscription.
Serving == impl \in {"serve", "sending", "acting"}

\* event_tx lives with app_task, event_rx and close_rx with the implementation side.
SenderAlive == app \in {"spawned", "select"}
ReceiverAlive == impl \notin {"failed", "done", "panicked"}

Items(q) == {q[i] : i \in DOMAIN q}

TypeOK ==
    /\ app \in {"spawned", "select", "done", "panicked"}
    /\ impl \in {"provide", "failed", "check", "create", "serve", "sending", "acting", "done",
                "panicked"}
    /\ {app_sub, announced, outer_sub, impl_sub, use_event, closed} \subseteq BOOLEAN
    /\ conns \in 0..MaxConn
    /\ late \in 0..conns
    /\ buf \in Seq(1..emitted) /\ Len(buf) =< BufSize
    /\ emitted \in 0..MaxEvent
    /\ passed \in Seq(1..emitted)
    /\ impl_sub => Serving
    /\ app_sub \/ outer_sub \/ impl_sub => closed

Init ==
    /\ app = "spawned"
    /\ impl = "provide"
    /\ app_sub = FALSE /\ outer_sub = FALSE /\ impl_sub = FALSE
    /\ announced = FALSE /\ closed = FALSE
    /\ use_event \in BOOLEAN
    /\ conns = 0 /\ late = 0
    /\ buf = << >> /\ emitted = 0 /\ passed = << >>

-----------------------------------------------------------------------------
(* The broadcast *)

\* close_tx.send reaches the subscriptions there are.
Broadcast ==
    /\ closed' = TRUE
    /\ outer_sub' = ReceiverAlive
    /\ impl_sub' = Serving
    /\ app_sub' = (app = "select")

\* OBridge::close, once create has returned; without a receiver it is an error.
Close ==
    /\ impl \notin {"provide", "failed"}
    /\ ReceiverAlive \/ app = "select"
    /\ Broadcast
    /\ UNCHANGED <<app, announced, impl, use_event, conns, late, buf, emitted, passed>>

-----------------------------------------------------------------------------
(* app_task *)

\* The task subscribes when it first runs.
AppStart ==
    /\ app = "spawned"
    /\ app' = "select"
    /\ UNCHANGED <<app_sub, announced, impl, outer_sub, impl_sub, use_event, conns, late, closed,
                   buf, emitted, passed>>

AppSignal ==
    /\ app = "select" /\ app_sub
    /\ app' = "done"
    /\ app_sub' = FALSE
    /\ UNCHANGED <<announced, impl, outer_sub, impl_sub, use_event, conns, late, closed, buf,
                   emitted, passed>>

\* Mutant: the buffer has no bound.
PushAll(e) == buf' = Append(buf, e)

\* A full buffer drops its oldest event.
Push(e) == buf' = Append(IF Len(buf) = BufSize THEN Tail(buf) ELSE buf, e)

\* An event; the unwrap of send panics when event_rx was dropped.
AppEvent ==
    /\ app = "select"
    /\ emitted < MaxEvent
    /\ IF ReceiverAlive
       THEN Push(emitted + 1) /\ emitted' = emitted + 1 /\ UNCHANGED <<app, app_sub>>
       ELSE app' = "panicked" /\ app_sub' = FALSE /\ UNCHANGED <<buf, emitted>>
    /\ UNCHANGED <<announced, impl, outer_sub, impl_sub, use_event, conns, late, closed, passed>>

\* Close(Ok) is broadcast; the task's own subscription is one receiver.
AppClose ==
    /\ app = "select"
    /\ ~announced
    /\ announced' = TRUE
    /\ Broadcast
    /\ UNCHANGED <<app, impl, use_event, conns, late, buf, emitted, passed>>

-----------------------------------------------------------------------------
(* The implementation side *)

ImplGoto(at) ==
    /\ impl' = at
    /\ impl_sub' = FALSE
    /\ UNCHANGED <<app, app_sub, announced, outer_sub, use_event, closed, emitted>>

\* app_prov.provide()? ; a provider with an event context may have none yet.  On
\* an error create returns and app_task runs on.
Provide ==
    /\ impl = "provide"
    /\ \E at \in {"check"} \cup (IF use_event THEN {"failed"} ELSE {}) : ImplGoto(at)
    /\ UNCHANGED <<conns, late, buf, passed>>

\* Mutant: the loop goes on whatever try_recv returns.
CheckNothing ==
    /\ impl = "check"
    /\ ImplGoto("create")
    /\ UNCHANGED <<conns, late, buf, passed>>

\* while let Err(TryRecvError::Empty) = close_rx.try_recv()
Check ==
    /\ impl = "check"
    /\ ImplGoto(IF outer_sub THEN "done" ELSE "create")
    /\ UNCHANGED <<conns, late, buf, passed>>

\* create fails, or the provider of the new connection does.
CreateFails ==
    /\ impl = "create"
    /\ ImplGoto("check")
    /\ UNCHANGED <<conns, late, buf, passed>>

\* A connection is served under a subscription of its own.
CreateOk ==
    /\ impl = "create"
    /\ conns < MaxConn
    /\ ImplGoto("serve")
    /\ conns' = conns + 1
    /\ late' = IF closed THEN late + 1 ELSE late
    /\ UNCHANGED <<buf, passed>>

\* Mutant: the signal is read and the loop goes on.
ReadSignal ==
    /\ impl = "serve" /\ impl_sub
    /\ ImplGoto("serve")
    /\ UNCHANGED <<conns, late, buf, passed>>

ImplSignal ==
    /\ impl = "serve" /\ impl_sub
    /\ ImplGoto("check")
    /\ UNCHANGED <<conns, late, buf, passed>>

\* Mutant: a connection that ends takes the channel with it.
ImplCloseDropping ==
    /\ impl = "serve"
    /\ ImplGoto("check")
    /\ buf' = << >>
    /\ UNCHANGED <<conns, late, passed>>

\* The connection's Close ends impl_task, which returns app and event_rx.
ImplClose ==
    /\ impl = "serve"
    /\ ImplGoto("check")
    /\ UNCHANGED <<conns, late, buf, passed>>

\* A branch of the loop that awaits a call of a connection.
Calling(at) ==
    /\ impl = "serve"
    /\ impl' = at
    /\ UNCHANGED <<app, app_sub, announced, outer_sub, impl_sub, use_event, conns, late, closed,
                   emitted>>

\* The channel gives nothing once its sender is gone.
TakeEvent ==
    /\ SenderAlive /\ buf # << >>
    /\ Calling("sending")
    /\ passed' = Append(passed, Head(buf))
    /\ buf' = Tail(buf)

\* An action goes to the application, unless events have a context.
TakeAction ==
    /\ ~use_event
    /\ Calling("acting")
    /\ UNCHANGED <<buf, passed>>

\* send_event_impl of an HTTP implementation unwraps the lock of its event
\* queue, which is poisoned for good once a request has panicked in it.  No task
\* of its own runs impl_task: the implementation side is over, with event_rx.
CallPanics ==
    /\ impl = "sending"
    /\ ImplGoto("panicked")
    /\ UNCHANGED <<conns, late, buf, passed>>

\* send_event_impl returned, whether the event was taken or not; the
\* application answered and the answer was passed on, or it failed and nothing
\* was.
CallReturns ==
    /\ impl \in {"sending", "acting"}
    /\ impl' = "serve"
    /\ UNCHANGED <<app, app_sub, announced, outer_sub, impl_sub, use_event, conns, late, closed,
                   buf, emitted, passed>>

-----------------------------------------------------------------------------
Next == \/ Close
        \/ AppStart \/ AppSignal \/ AppEvent \/ AppClose
        \/ Provide \/ Check \/ CreateFails \/ CreateOk
        \/ ImplSignal \/ ImplClose \/ TakeEvent \/ TakeAction
        \/ CallReturns \/ CallPanics

Spec == Init /\ [][Next]_vars

\* tokio runs both tasks; select picks a ready branch at random, so that one
\* which is ready again and again is taken.  Connections owe nothing.
Fairness == /\ WF_vars(AppStart) /\ WF_vars(Provide) /\ WF_vars(Check)
            /\ SF_vars(AppSignal) /\ SF_vars(ImplSignal)

FairSpec == Spec /\ Fairness

-----------------------------------------------------------------------------
(* Events reach the implementation side in order, each once, and only the  *)
(* oldest are lost: whatever connections end and are replaced, one of the  *)
(* newest BufSize events that was not handed over is still in the channel. *)
NewestKept ==
    /\ \A i, j \in DOMAIN passed : i < j => passed[i] < passed[j]
    /\ \A i \in DOMAIN passed, j \in DOMAIN buf : passed[i] < buf[j]
    /\ \A e \in 1..emitted : e + BufSize > emitted => e \in Items(passed) \cup Items(buf)

(* The bridge outlives the connections of the implementation side, their   *)
(* ends and the errors of making new ones: without a close neither task    *)
(* ends, but for a create that fails or a call that panics.  app_task      *)
(* panics only after the other side is gone.  After a close at most one    *)
(* more connection is served: the one that was awaited when it came.       *)
UntilClosed ==
    /\ ~closed /\ impl \notin {"failed", "panicked"} => SenderAlive /\ ReceiverAlive
    /\ app = "panicked" => ~ReceiverAlive
    /\ late =< 1

(* A close that a task's subscription got ends the task, provided that     *)
(* calls to the connections return: app_task always, the implementation    *)
(* side through its loop or by the panic of a call.                        *)
CloseEnds ==
    /\ app_sub ~> ~SenderAlive
    /\ ([]<>(impl \notin {"sending", "acting"})) => (impl_sub ~> impl \in {"done", "panicked"})
=============================================================================
