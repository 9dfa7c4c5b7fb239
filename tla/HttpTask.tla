------------------------------ MODULE HttpTask ------------------------------
(***************************************************************************)
(* The HTTP server of common/http_s.rs: server_task accepts connections, a *)
(* task per connection serves its requests, and manage_task selects over   *)
(* the request bodies and the command channel and spawns a handler task    *)
(* for each.  What the handlers do belongs to the modules that extend this *)
(* one (ImpHttp).                                                          *)
(*                                                                         *)
(* A request stands for its body and for the responder handle_req waits    *)
(* on.  The responder is in the body queue, in a handler task, or where    *)
(* the handler put it; dropping it makes handle_req answer with 500.       *)
(*                                                                         *)
(* server_task keeps body_tx until it gets the close signal, so the else   *)
(* branch of manage_task's select is never taken and has no action here.   *)
(***************************************************************************)
EXTENDS Sequences, Naturals

CONSTANTS
    Cmd,  \* commands a user of the server may issue
    Req   \* requests of the clients

VARIABLES
    cmd_q,       \* cmd_tx -> cmd_rx
    body_q,      \* body_tx -> body_rx
    active,      \* ConnState
    mgr,         \* where manage_task is
    cmd_tasks,   \* commands whose handle_cmd task is running
    recv_tasks,  \* requests whose handle_recv task is running
    server,      \* where server_task is
    http         \* how far each request is

taskVars == <<cmd_q, body_q, active, mgr, cmd_tasks, recv_tasks, server, http>>

\* What a channel holds.
Items(q) == {q[i] : i \in DOMAIN q}

\* manage_task has returned: its receivers are dropped.
MgrEnded == mgr = "done"

\* What the client has seen of its request: an answer of the handler, 400 or
\* 401, 500, a connection that was cut; or the client itself hung up.  A request
\* followed by another one on its connection is over.
Final == {"answered", "refused", "failed", "cut", "gone", "over"}

TaskTypeOK ==
    /\ cmd_q \in Seq(Cmd)
    /\ body_q \in Seq(Req)
    /\ active \in BOOLEAN
    /\ mgr \in {"check", "select", "stop", "wait", "finish", "done"}
    /\ cmd_tasks \subseteq Cmd
    /\ recv_tasks \subseteq Req
    /\ server \in {"accept", "signalled", "ended"}
    /\ http \in [Req -> {"none", "open", "waiting"} \cup Final]

TaskInit ==
    /\ cmd_q = << >>
    /\ body_q = << >>
    /\ active = TRUE
    /\ mgr = "check"
    /\ cmd_tasks = {}
    /\ recv_tasks = {}
    /\ server = "accept"
    /\ http = [r \in Req |-> "none"]

\* The responders of these requests are dropped: handle_req answers with 500.
Failing(S) == [r \in Req |-> IF r \in S /\ http[r] = "waiting" THEN "failed" ELSE http[r]]

-----------------------------------------------------------------------------
(* Connections and requests *)

\* server_task accepts a connection until it is signalled.
Accept(r) ==
    /\ server # "ended"
    /\ http[r] = "none"
    /\ http' = [http EXCEPT ![r] = "open"]
    /\ UNCHANGED <<cmd_q, body_q, active, mgr, cmd_tasks, recv_tasks, server>>

\* A connection outlives server_task: it carries a request after another.
KeepAlive(p, r) ==
    /\ http[p] \in {"answered", "refused", "failed"}
    /\ http[r] = "none"
    /\ http' = [http EXCEPT ![p] = "over", ![r] = "open"]
    /\ UNCHANGED <<cmd_q, body_q, active, mgr, cmd_tasks, recv_tasks, server>>

\* process_request refuses it: no authorization, a bad method or body.
Refuse(r) ==
    /\ http[r] = "open"
    /\ http' = [http EXCEPT ![r] = "refused"]
    /\ UNCHANGED <<cmd_q, body_q, active, mgr, cmd_tasks, recv_tasks, server>>

\* Mutant: the body is sent to a channel nobody reads and its failure ignored.
PassBodyBlindly(r) ==
    /\ http[r] = "open"
    /\ http' = [http EXCEPT ![r] = "waiting"]
    /\ body_q' = IF MgrEnded THEN body_q ELSE Append(body_q, r)
    /\ UNCHANGED <<cmd_q, active, mgr, cmd_tasks, recv_tasks, server>>

\* handle_req sends the body; without body_rx its unwrap panics and the
\* connection is cut.
PassBody(r) ==
    /\ http[r] = "open"
    /\ http' = [http EXCEPT ![r] = IF MgrEnded THEN "cut" ELSE "waiting"]
    /\ body_q' = IF MgrEnded THEN body_q ELSE Append(body_q, r)
    /\ UNCHANGED <<cmd_q, active, mgr, cmd_tasks, recv_tasks, server>>

\* The client closes its connection: handle_req is dropped with its receiver.
HangUp(r) ==
    /\ http[r] \in {"open", "waiting"}
    /\ http' = [http EXCEPT ![r] = "gone"]
    /\ UNCHANGED <<cmd_q, body_q, active, mgr, cmd_tasks, recv_tasks, server>>

Connection(r) == \/ Accept(r) \/ Refuse(r) \/ HangUp(r)
                 \/ \E p \in Req : KeepAlive(p, r)

\* The signal's arm answers and breaks.
ServerSignal ==
    /\ server = "signalled"
    /\ server' = "ended"
    /\ UNCHANGED <<cmd_q, body_q, active, mgr, cmd_tasks, recv_tasks, http>>

-----------------------------------------------------------------------------
(* manage_task *)

\* A clone of cmd_tx sends a command; the send fails once cmd_rx is dropped.
SendCommand(c) ==
    /\ cmd_q' = IF MgrEnded THEN cmd_q ELSE Append(cmd_q, c)
    /\ UNCHANGED <<body_q, active, mgr, cmd_tasks, server>>

\* while state.is_active(): the state is read between two iterations only.
Check ==
    /\ mgr = "check"
    /\ mgr' = IF active THEN "select" ELSE "stop"
    /\ UNCHANGED <<cmd_q, body_q, active, cmd_tasks, recv_tasks, server, http>>

TakeBody ==
    /\ mgr = "select"
    /\ body_q # << >>
    /\ body_q' = Tail(body_q)
    /\ recv_tasks' = recv_tasks \cup {Head(body_q)}
    /\ mgr' = "check"
    /\ UNCHANGED <<cmd_q, active, cmd_tasks, server, http>>

TakeCmd ==
    /\ mgr = "select"
    /\ cmd_q # << >>
    /\ cmd_q' = Tail(cmd_q)
    /\ cmd_tasks' = cmd_tasks \cup {Head(cmd_q)}
    /\ mgr' = "check"
    /\ UNCHANGED <<body_q, active, recv_tasks, server, http>>

\* server_task lives until this signal, so sending it succeeds.
StopServer ==
    /\ mgr = "stop"
    /\ mgr' = "wait"
    /\ server' = "signalled"
    /\ UNCHANGED <<cmd_q, body_q, active, cmd_tasks, recv_tasks, http>>

\* Mutant: the manager does not wait for the answer.
ServerStoppedEarly ==
    /\ mgr = "wait"
    /\ mgr' = "finish"
    /\ UNCHANGED <<cmd_q, body_q, active, cmd_tasks, recv_tasks, server, http>>

ServerStopped ==
    /\ mgr = "wait"
    /\ server = "ended"
    /\ mgr' = "finish"
    /\ UNCHANGED <<cmd_q, body_q, active, cmd_tasks, recv_tasks, server, http>>

\* Mutant: the manager aborts the handler tasks it spawned.
FinishAborting ==
    /\ mgr = "finish"
    /\ mgr' = "done"
    /\ cmd_q' = << >>
    /\ body_q' = << >>
    /\ http' = Failing(Items(body_q))
    /\ recv_tasks' = {}
    /\ UNCHANGED <<active, cmd_tasks, server>>

\* handle_close, then the manager returns and drops cmd_rx and body_rx.
Finish ==
    /\ mgr = "finish"
    /\ mgr' = "done"
    /\ cmd_q' = << >>
    /\ body_q' = << >>
    /\ http' = Failing(Items(body_q))
    /\ UNCHANGED <<active, cmd_tasks, recv_tasks, server>>

Working == Check \/ TakeBody \/ TakeCmd \/ StopServer \/ ServerStopped

-----------------------------------------------------------------------------
(* A handler task ends *)

EndCmd(c) ==
    /\ c \in cmd_tasks
    /\ cmd_tasks' = cmd_tasks \ {c}
    /\ UNCHANGED <<cmd_q, body_q, mgr, recv_tasks, server>>

EndRecv(r) ==
    /\ r \in recv_tasks
    /\ recv_tasks' = recv_tasks \ {r}

-----------------------------------------------------------------------------
(* Once manage_task has returned - the moment the user is told that the    *)
(* server is closed - no request and no command is handed to a handler any *)
(* more and no connection is accepted, although connections that are open  *)
(* stay so.                                                                *)
QuietOnceClosed ==
    [][mgr = "done" => /\ cmd_tasks' \subseteq cmd_tasks
                       /\ recv_tasks' \subseteq recv_tasks
                       /\ server = "ended"]_taskVars
=============================================================================
