------------------------------- MODULE ImpHttp -------------------------------
(***************************************************************************)
(* An implementation's HTTP server: imp/http.rs's HttpHandler and HttpImpl *)
(* over the server of HttpTask.  Clients send actions; the implementation  *)
(* is handed each and responds by echo.  get_latest_events is answered     *)
(* from the event queue by the handler itself.                             *)
(*                                                                         *)
(* A request is at once the command Respond that answers it.  Nothing ever *)
(* takes a sender from waiting_queue, so a get_events that waits is ended  *)
(* by its timeout alone and waiting_queue is no variable here.             *)
(* The only command channel is that of HttpCreate and HttpImpl sends       *)
(* Respond and Close alone: the other arms of handle_cmd are never run.    *)
(***************************************************************************)
EXTENDS HttpTask

CONSTANTS
    Action,  \* requests whose action the implementation is handed
    Poll,    \* get_latest_events requests
    Bad,     \* get_latest_events requests whose parameters do not deserialize
    Closer,  \* calls of HttpImpl::close
    Event,   \* events the implementation sends, numbered in that order
    Inner,   \* the numbers an ActionEcho::Inner is drawn from
    Outer,   \* the echoes clients choose
    Limit,   \* the limits clients choose
    Notice,  \* RecvMessage::Close
    None     \* no request, no echo

ASSUME ImpAssumption ==
    /\ Req = Action \cup Poll \cup Bad
    /\ Cmd = Req \cup Closer
    /\ Action \cap (Poll \cup Bad) = {}
    /\ Poll \cap Bad = {}
    /\ Req \cap Closer = {}
    /\ Inner \cap Outer = {}
    /\ Event \subseteq Nat /\ Limit \subseteq Nat
    /\ Notice \notin Req
    /\ None \notin Req \cup Inner \cup Outer

VARIABLES
    issued,    \* commands issued so far
    pc,        \* where the handle_recv task of each request is
    echo,      \* the ActionEcho of each request
    resp_map,  \* HttpHandler.resp_map: the request whose responder an echo leads to
    queue,     \* HttpImpl.queue
    poisoned,  \* a thread panicked while it held the lock of queue
    batch,     \* the events get_events returned to each request
    sent,      \* history: every event send_event took
    answer,    \* the request whose response each client got
    msg_q      \* every RecvMessage delivered to the implementation

impVars == <<issued, pc, echo, resp_map, queue, poisoned, batch, sent, answer, msg_q>>
vars == <<taskVars, impVars>>

Echo == Inner \cup Outer

TypeOK ==
    /\ TaskTypeOK
    /\ issued \subseteq Cmd
    /\ pc \in [Req -> {"start", "registered", "waiting", "respond", "ended"}]
    /\ echo \in [Req -> Echo \cup {None}]
    /\ resp_map \in [Echo -> Req \cup {None}]
    /\ queue \in Seq(Event)
    /\ poisoned \in BOOLEAN
    /\ batch \in [Req -> Seq(Event)]
    /\ sent \in Seq(Event)
    /\ answer \in [Req -> Req \cup {None}]
    /\ msg_q \in Seq(Req \cup {Notice})
    /\ \A r \in Req : pc[r] \in {"registered", "waiting", "respond"} =>
                         r \in recv_tasks /\ echo[r] # None

Init ==
    /\ TaskInit
    /\ issued = {}
    /\ pc = [r \in Req |-> "start"]
    /\ echo = [r \in Req |-> None]
    /\ resp_map = [e \in Echo |-> None]
    /\ queue = << >>
    /\ poisoned = FALSE
    /\ batch = [r \in Req |-> << >>]
    /\ sent = << >>
    /\ answer = [r \in Req |-> None]
    /\ msg_q = << >>

Mapped == {resp_map[e] : e \in Echo} \ {None}

-----------------------------------------------------------------------------
(* HttpImpl *)

\* send_event_impl panics in its caller when the lock is poisoned.
SendEvent(e) ==
    /\ e = Len(sent) + 1
    /\ ~poisoned
    /\ queue' = Append(queue, e)
    /\ sent' = Append(sent, e)
    /\ UNCHANGED <<taskVars, issued, pc, echo, resp_map, poisoned, batch, answer, msg_q>>

\* respond_impl for an action that was handed over, once, and close.
Issue(c) ==
    /\ c \notin issued
    /\ c \in Action => c \in Items(msg_q)
    /\ issued' = issued \cup {c}
    /\ SendCommand(c)
    /\ UNCHANGED <<recv_tasks, http, pc, echo, resp_map, queue, poisoned, batch, sent, answer,
                   msg_q>>

-----------------------------------------------------------------------------
(* handle_recv *)

\* The task of r goes on to another place, or ends.
Goto(r, at) ==
    /\ pc' = [pc EXCEPT ![r] = at]
    /\ IF at = "ended" THEN EndRecv(r) ELSE r \in recv_tasks /\ UNCHANGED recv_tasks

\* Mutant: an inner echo is not compared with the map.
AnyEcho == Echo

\* The client's echo, or a number the map does not hold.
FreeEcho == Outer \cup {e \in Inner : resp_map[e] = None}

\* The responder goes to the map; one that is there under the same echo is
\* dropped.  (Two threads that draw one 64-bit number at once are left out.)
Register(r) ==
    /\ pc[r] = "start"
    /\ Goto(r, "registered")
    /\ \E e \in FreeEcho :
         /\ echo' = [echo EXCEPT ![r] = e]
         /\ http' = Failing({resp_map[e]})
         /\ resp_map' = [resp_map EXCEPT ![e] = r]
    /\ UNCHANGED <<cmd_q, body_q, active, mgr, cmd_tasks, server, issued, queue, poisoned, batch,
                   sent, answer, msg_q>>

\* An action is handed to the implementation, which may be told later that the
\* server was closed before.
HandOver(r) ==
    /\ r \in Action
    /\ pc[r] = "registered"
    /\ Goto(r, "ended")
    /\ msg_q' = Append(msg_q, r)
    /\ UNCHANGED <<cmd_q, body_q, active, mgr, cmd_tasks, server, http, issued, echo, resp_map,
                   queue, poisoned, batch, sent, answer>>

\* The parameters do not deserialize, or the lock is poisoned and unwrap
\* panics: the task ends and the responder stays in the map.
GiveUp(r) ==
    /\ pc[r] = "registered"
    /\ r \in Bad \/ (r \in Poll /\ poisoned)
    /\ Goto(r, "ended")
    /\ UNCHANGED <<cmd_q, body_q, active, mgr, cmd_tasks, server, http, issued, echo, resp_map,
                   queue, poisoned, batch, sent, answer, msg_q>>

\* Mutant: one event too many is removed.
DrainOneMore(r, l) ==
    /\ batch' = [batch EXCEPT ![r] = IF l = 0 THEN queue ELSE SubSeq(queue, 1, l)]
    /\ queue' = IF l = 0 THEN << >> ELSE SubSeq(queue, l + 2, Len(queue))

\* A limit of zero means all.
Drain(r, l) ==
    /\ batch' = [batch EXCEPT ![r] = IF l = 0 THEN queue ELSE SubSeq(queue, 1, l)]
    /\ queue' = IF l = 0 THEN << >> ELSE SubSeq(queue, l + 1, Len(queue))

\* get_events finds events.
TakeEvents(r) ==
    /\ r \in Poll
    /\ pc[r] = "registered"
    /\ ~poisoned /\ queue # << >>
    /\ Goto(r, "respond")
    /\ \E l \in Limit : l =< Len(queue) /\ Drain(r, l)
    /\ UNCHANGED <<cmd_q, body_q, active, mgr, cmd_tasks, server, http, issued, echo, resp_map,
                   poisoned, sent, answer, msg_q>>

\* drain(..limit) panics on a queue that is shorter, and poisons the lock.
DrainPanics(r) ==
    /\ r \in Poll
    /\ pc[r] = "registered"
    /\ ~poisoned /\ queue # << >>
    /\ \E l \in Limit : l > Len(queue)
    /\ Goto(r, "ended")
    /\ poisoned' = TRUE
    /\ UNCHANGED <<cmd_q, body_q, active, mgr, cmd_tasks, server, http, issued, echo, resp_map,
                   queue, batch, sent, answer, msg_q>>

\* get_events finds none and waits for a sender that nobody calls.
AwaitEvents(r) ==
    /\ r \in Poll
    /\ pc[r] = "registered"
    /\ ~poisoned /\ queue = << >>
    /\ Goto(r, "waiting")
    /\ UNCHANGED <<cmd_q, body_q, active, mgr, cmd_tasks, server, http, issued, echo, resp_map,
                   queue, poisoned, batch, sent, answer, msg_q>>

\* Mutant: a response written before the timeout, and lost.
TimeOutSilently(r) ==
    /\ pc[r] = "waiting"
    /\ Goto(r, "ended")
    /\ UNCHANGED <<cmd_q, body_q, active, mgr, cmd_tasks, server, http, issued, echo, resp_map,
                   queue, poisoned, batch, sent, answer, msg_q>>

\* The timeout passes; the response has no events.
TimeOut(r) ==
    /\ pc[r] = "waiting"
    /\ Goto(r, "respond")
    /\ UNCHANGED <<cmd_q, body_q, active, mgr, cmd_tasks, server, http, issued, echo, resp_map,
                   queue, poisoned, batch, sent, answer, msg_q>>

\* Mutant: the response is made of what the queue holds after the draining.
RespondNothing(r) ==
    /\ pc[r] = "respond"
    /\ Goto(r, "ended")
    /\ issued' = issued \cup {r}
    /\ batch' = [batch EXCEPT ![r] = << >>]
    /\ SendCommand(r)
    /\ UNCHANGED <<http, echo, resp_map, queue, poisoned, sent, answer, msg_q>>

\* The handler responds through the command channel, as the implementation does.
RespondEvents(r) ==
    /\ pc[r] = "respond"
    /\ Goto(r, "ended")
    /\ issued' = issued \cup {r}
    /\ SendCommand(r)
    /\ UNCHANGED <<http, echo, resp_map, queue, poisoned, batch, sent, answer, msg_q>>

RecvHandler(r) ==
    /\ r \in recv_tasks
    /\ \/ Register(r) \/ HandOver(r) \/ GiveUp(r) \/ TakeEvents(r) \/ DrainPanics(r)
       \/ AwaitEvents(r) \/ TimeOut(r) \/ RespondEvents(r)

-----------------------------------------------------------------------------
(* handle_cmd *)

\* Respond: the responder under the echo gets the response, if its client is
\* still there; without one it is an error in the log.
HandleRespond(c) ==
    /\ EndCmd(c)
    /\ LET r == resp_map[echo[c]] IN
         IF r # None /\ http[r] = "waiting"
         THEN /\ http' = [http EXCEPT ![r] = "answered"]
              /\ answer' = [answer EXCEPT ![r] = c]
         ELSE UNCHANGED <<http, answer>>
    /\ resp_map' = [resp_map EXCEPT ![echo[c]] = None]
    /\ UNCHANGED <<active, recv_tasks, issued, pc, echo, queue, poisoned, batch, sent, msg_q>>

HandleClose(c) == EndCmd(c) /\ active' = FALSE /\ UNCHANGED <<http, impVars>>

CmdHandler(c) == \/ c \in Req /\ HandleRespond(c)
                 \/ c \in Closer /\ HandleClose(c)

-----------------------------------------------------------------------------
(* The manager's return, and the end of the map *)

FinishImp ==
    /\ Finish
    /\ msg_q' = Append(msg_q, Notice)
    /\ UNCHANGED <<issued, pc, echo, resp_map, queue, poisoned, batch, sent, answer>>

\* The manager and all handler tasks are gone, and the shared map with them.
ReleaseMap ==
    /\ MgrEnded
    /\ cmd_tasks = {} /\ recv_tasks = {}
    /\ Mapped # {}
    /\ http' = Failing(Mapped)
    /\ resp_map' = [e \in Echo |-> None]
    /\ UNCHANGED <<cmd_q, body_q, active, mgr, cmd_tasks, recv_tasks, server, issued, pc, echo,
                   queue, poisoned, batch, sent, answer, msg_q>>

Serve == (Working \/ ServerSignal) /\ UNCHANGED impVars

PassBodyImp(r) == PassBody(r) /\ UNCHANGED impVars

Client(r) == Connection(r) /\ UNCHANGED impVars

Next == \/ \E e \in Event : SendEvent(e)
        \/ \E c \in Action \cup Closer : Issue(c)
        \/ \E c \in Cmd : CmdHandler(c)
        \/ \E r \in Req : RecvHandler(r) \/ PassBodyImp(r) \/ Client(r)
        \/ Serve \/ FinishImp \/ ReleaseMap

Spec == Init /\ [][Next]_vars

-----------------------------------------------------------------------------
(* A client gets the response to its own request; only clients that chose  *)
(* the same echo may get each other's.  The numbers drawn for requests     *)
(* without an echo never lead to another client.                           *)
Correlated ==
    \A r \in Req : answer[r] # None =>
        answer[r] = r \/ (echo[r] \in Outer /\ echo[answer[r]] = echo[r])

(* A client that waits has its responder in the body queue, in a handler   *)
(* that has not registered it yet, or in the map - through overwritten     *)
(* echoes, panics and the end of the server alike.                         *)
WaitingIsHeld ==
    \A r \in Req : http[r] = "waiting" =>
        \/ r \in Items(body_q)
        \/ r \in recv_tasks /\ pc[r] = "start"
        \/ r \in Mapped

(* Every event sent is in the queue or was handed to exactly one           *)
(* get_latest_events request, whatever limits requests carry that drain    *)
(* the queue at once.                                                      *)
EventOnce ==
    \A e \in Items(sent) :
        LET readers == {r \in Poll : e \in Items(batch[r])} IN
            IF e \in Items(queue) THEN readers = {} ELSE \E r \in Poll : readers = {r}

(* A get_latest_events request is answered, with events or after its       *)
(* timeout, as long as no panic has poisoned the queue; and once the       *)
(* server is closed no client waits forever: every responder is dropped    *)
(* with the channel, the task or the map that holds it.                    *)
ClientsSettle ==
    /\ \A r \in Poll : http[r] = "waiting" ~> http[r] # "waiting" \/ poisoned \/ ~active
    /\ MgrEnded ~> \A r \in Req : http[r] # "waiting"

(* Where clients choose no echoes of their own the server implements the   *)
(* abstract calls: a request is answered at most once, with the response   *)
(* to it and after that was given, or it fails, and never both - whatever  *)
(* handlers run at once, give up or panic, and however it is closed.       *)
Calls == INSTANCE ActionCalls WITH
    Call    <- Req,
    Failed  <- "failed",
    asked   <- {r \in Req : http[r] # "none"},
    served  <- issued \cap Req,
    outcome <- [r \in Req |-> IF answer[r] # None THEN answer[r]
                             ELSE IF http[r] \in Final THEN "failed" ELSE None]

ImplementsCalls == Calls!CallsSpec

(* Documented of HttpImpl: events are stored in a queue, waiting for       *)
(* get_latest_events.  A request that asks for more events than there are  *)
(* poisons the lock, and what the queue holds can be asked for no more.    *)
EventsAvailable == queue # << >> => ~poisoned
=============================================================================
