------------------------------- MODULE WSTask -------------------------------
(***************************************************************************)
(* One WebSocket connection as common/ws.rs runs it: a manager task that   *)
(* selects over the command channel and the received frames, a task that   *)
(* writes frames, a task that reads them, and one spawned task for every   *)
(* command and every frame.  What a handler does with a command or a frame *)
(* belongs to the modules that extend this one (AppWS).                    *)
(*                                                                         *)
(* Every command, frame and message is a value of its own (it is sent at   *)
(* most once), so a set of running handler tasks is a set of what they     *)
(* handle.  An unbounded tokio channel is a sequence; dropping its receiver *)
(* empties it.                                                             *)
(***************************************************************************)
EXTENDS Sequences, Naturals

CONSTANTS
    Cmd,         \* commands a user of the connection may issue
    Frame,       \* frames the handlers may write
    Inbound,     \* frames the peer may send, apart from its Close frame
    CloseFrame,  \* the peer's Close frame
    None         \* no frame

ASSUME FrameAssumption == /\ CloseFrame \notin Inbound
                          /\ None \notin Frame

VARIABLES
    cmd_q,       \* cmd_tx -> cmd_rx
    handles,     \* TRUE while a clone of cmd_tx exists
    active,      \* ConnState
    mgr,         \* where manage_task is
    reason,      \* how recv_task answered the close signal
    cmd_tasks,   \* commands whose handle_cmd task is running
    recv_tasks,  \* frames whose handle_recv task is running
    sender,      \* where send_task is
    send_signal, \* the signal channel of send_task
    send_q,      \* send_tx -> send_rx
    sink,        \* the frame send_task is writing
    receiver,    \* where recv_task is
    recv_signal, \* the signal channel of recv_task
    recv_q,      \* recv_tx -> recv_rx
    link,        \* the socket
    wire,        \* frames of the peer not read yet
    peer_sent,   \* every frame the peer ever sent
    peer_got     \* every frame the peer ever received

mgrVars  == <<active, mgr, reason>>
sendVars == <<sender, send_signal, send_q, sink>>
recvVars == <<receiver, recv_signal, recv_q>>
netVars  == <<link, wire, peer_sent, peer_got>>
taskVars == <<cmd_q, handles, mgrVars, cmd_tasks, recv_tasks, sendVars, recvVars, netVars>>

\* What a channel holds.
Items(q) == {q[i] : i \in DOMAIN q}

\* manage_task has returned: its receivers and its senders are dropped.
MgrEnded == mgr \in {"done", "failed"}

TaskTypeOK ==
    /\ cmd_q \in Seq(Cmd)
    /\ handles \in BOOLEAN
    /\ active \in BOOLEAN
    /\ mgr \in {"check", "select", "stop_send", "wait_send",
                "stop_recv", "wait_recv", "finish", "done", "failed"}
    /\ reason \in {"none", "ok", "partial"}
    /\ cmd_tasks \subseteq Cmd
    /\ recv_tasks \subseteq Inbound
    /\ sender \in {"select", "sending", "ended"}
    /\ send_signal \in {"none", "queued", "acked"}
    /\ send_q \in Seq(Frame)
    /\ sink \in Frame \cup {None}
    /\ sender = "sending" <=> sink # None
    /\ receiver \in {"select", "ended"}
    /\ recv_signal \in {"none", "queued", "acked"}
    /\ recv_q \in Seq(Inbound \cup {CloseFrame})
    /\ link \in {"up", "closed", "down"}
    /\ wire \in Seq(Inbound \cup {CloseFrame})
    /\ peer_sent \subseteq Inbound \cup {CloseFrame}
    /\ peer_got \subseteq Frame

TaskInit ==
    /\ cmd_q = << >>
    /\ handles = TRUE
    /\ active = TRUE
    /\ mgr = "check"
    /\ reason = "none"
    /\ cmd_tasks = {}
    /\ recv_tasks = {}
    /\ sender = "select"
    /\ send_signal = "none"
    /\ send_q = << >>
    /\ sink = None
    /\ receiver = "select"
    /\ recv_signal = "none"
    /\ recv_q = << >>
    /\ link = "up"
    /\ wire = << >>
    /\ peer_sent = {}
    /\ peer_got = {}

-----------------------------------------------------------------------------
(* The users of the connection *)

\* A clone of cmd_tx sends a command; the send fails once cmd_rx is dropped.
SendCommand(c) ==
    /\ handles
    /\ cmd_q' = IF MgrEnded THEN cmd_q ELSE Append(cmd_q, c)
    /\ UNCHANGED <<handles, mgrVars, cmd_tasks, recv_tasks, sendVars, recvVars, netVars>>

\* The last clone of cmd_tx is dropped.
DropHandles ==
    /\ handles
    /\ handles' = FALSE
    /\ UNCHANGED <<cmd_q, mgrVars, cmd_tasks, recv_tasks, sendVars, recvVars, netVars>>

-----------------------------------------------------------------------------
(* The peer and the socket *)

\* A peer that sent its Close frame sends nothing after it.
PeerSend(m) ==
    /\ link = "up"
    /\ peer_sent \cap {m, CloseFrame} = {}
    /\ peer_sent' = peer_sent \cup {m}
    /\ wire' = Append(wire, m)
    /\ UNCHANGED <<cmd_q, handles, mgrVars, cmd_tasks, recv_tasks, sendVars, recvVars,
                   link, peer_got>>

\* The socket breaks without a closing handshake.
Disconnect ==
    /\ link # "down"
    /\ link' = "down"
    /\ UNCHANGED <<cmd_q, handles, mgrVars, cmd_tasks, recv_tasks, sendVars, recvVars,
                   wire, peer_sent, peer_got>>

-----------------------------------------------------------------------------
(* send_task *)

SendSignal ==
    /\ sender = "select"
    /\ send_signal = "queued"
    /\ send_signal' = "acked"
    /\ sender' = "ended"
    /\ send_q' = << >>
    /\ UNCHANGED <<cmd_q, handles, mgrVars, cmd_tasks, recv_tasks, sink, recvVars, netVars>>

\* While sink.send is pending, the signal channel is not served.
SendTake ==
    /\ sender = "select"
    /\ send_q # << >>
    /\ sender' = "sending"
    /\ sink' = Head(send_q)
    /\ send_q' = Tail(send_q)
    /\ UNCHANGED <<cmd_q, handles, mgrVars, cmd_tasks, recv_tasks, send_signal, recvVars,
                   netVars>>

SendDone ==
    /\ sender = "sending"
    /\ link = "up"
    /\ peer_got' = peer_got \cup {sink}
    /\ sink' = None
    /\ sender' = "select"
    /\ UNCHANGED <<cmd_q, handles, mgrVars, cmd_tasks, recv_tasks, send_signal, send_q,
                   recvVars, link, wire, peer_sent>>

\* A write error ends the task: what send_rx still holds is dropped with it.
SendFail ==
    /\ sender = "sending"
    /\ link # "up"
    /\ sink' = None
    /\ sender' = "ended"
    /\ send_q' = << >>
    /\ UNCHANGED <<cmd_q, handles, mgrVars, cmd_tasks, recv_tasks, send_signal, recvVars,
                   netVars>>

\* else: the manager and every command handler have dropped their senders.
SendElse ==
    /\ sender = "select"
    /\ mgr = "failed"
    /\ cmd_tasks = {}
    /\ send_q = << >>
    /\ sender' = "ended"
    /\ UNCHANGED <<cmd_q, handles, mgrVars, cmd_tasks, recv_tasks, send_signal, send_q, sink,
                   recvVars, netVars>>

SendTask == SendSignal \/ SendTake \/ SendDone \/ SendFail \/ SendElse

-----------------------------------------------------------------------------
(* recv_task *)

RecvSignal ==
    /\ receiver = "select"
    /\ recv_signal = "queued"
    /\ recv_signal' = "acked"
    /\ receiver' = "ended"
    /\ UNCHANGED <<cmd_q, handles, mgrVars, cmd_tasks, recv_tasks, sendVars, recv_q, netVars>>

\* Mutant: the Close frame overtakes what was received before it.
RecvTakeUrgent ==
    /\ receiver = "select"
    /\ wire # << >>
    /\ wire' = Tail(wire)
    /\ link' = IF Head(wire) = CloseFrame /\ link = "up" THEN "closed" ELSE link
    /\ recv_q' = IF Head(wire) = CloseFrame THEN <<CloseFrame>> \o recv_q
                                           ELSE Append(recv_q, Head(wire))
    /\ UNCHANGED <<cmd_q, handles, mgrVars, cmd_tasks, recv_tasks, sendVars, receiver,
                   recv_signal, peer_sent, peer_got>>

\* The stream yields a frame; the task ends if recv_rx is gone.  Reading the
\* Close frame ends the stream and makes every later write fail.
RecvTake ==
    /\ receiver = "select"
    /\ wire # << >>
    /\ wire' = Tail(wire)
    /\ link' = IF Head(wire) = CloseFrame /\ link = "up" THEN "closed" ELSE link
    /\ receiver' = IF MgrEnded THEN "ended" ELSE "select"
    /\ recv_q' = IF MgrEnded THEN recv_q ELSE Append(recv_q, Head(wire))
    /\ UNCHANGED <<cmd_q, handles, mgrVars, cmd_tasks, recv_tasks, sendVars, recv_signal,
                   peer_sent, peer_got>>

\* The stream yields an error.
RecvFail ==
    /\ receiver = "select"
    /\ link = "down"
    /\ receiver' = "ended"
    /\ UNCHANGED <<cmd_q, handles, mgrVars, cmd_tasks, recv_tasks, sendVars, recv_signal,
                   recv_q, netVars>>

\* else: the stream has ended and the manager has dropped the signal sender.
RecvElse ==
    /\ receiver = "select"
    /\ mgr = "failed"
    /\ link = "closed"
    /\ receiver' = "ended"
    /\ UNCHANGED <<cmd_q, handles, mgrVars, cmd_tasks, recv_tasks, sendVars, recv_signal,
                   recv_q, netVars>>

RecvTask == RecvSignal \/ RecvTake \/ RecvFail \/ RecvElse

-----------------------------------------------------------------------------
(* manage_task *)

\* while state.is_active(): the state is read between two iterations only.
Check ==
    /\ mgr = "check"
    /\ mgr' = IF active THEN "select" ELSE "stop_send"
    /\ UNCHANGED <<cmd_q, handles, active, reason, cmd_tasks, recv_tasks, sendVars, recvVars,
                   netVars>>

TakeCmd ==
    /\ mgr = "select"
    /\ cmd_q # << >>
    /\ cmd_q' = Tail(cmd_q)
    /\ cmd_tasks' = cmd_tasks \cup {Head(cmd_q)}
    /\ mgr' = "check"
    /\ UNCHANGED <<handles, active, reason, recv_tasks, sendVars, recvVars, netVars>>

\* Mutant: the manager handles a frame before it takes the next one.
TakeFrameInline ==
    /\ mgr = "select"
    /\ recv_tasks = {}
    /\ recv_q # << >>
    /\ Head(recv_q) # CloseFrame
    /\ recv_q' = Tail(recv_q)
    /\ recv_tasks' = {Head(recv_q)}
    /\ mgr' = "check"
    /\ UNCHANGED <<cmd_q, handles, active, reason, cmd_tasks, sendVars, receiver, recv_signal,
                   netVars>>

TakeFrame ==
    /\ mgr = "select"
    /\ recv_q # << >>
    /\ Head(recv_q) # CloseFrame
    /\ recv_q' = Tail(recv_q)
    /\ recv_tasks' = recv_tasks \cup {Head(recv_q)}
    /\ mgr' = "check"
    /\ UNCHANGED <<cmd_q, handles, active, reason, cmd_tasks, sendVars, receiver, recv_signal,
                   netVars>>

TakeClose ==
    /\ mgr = "select"
    /\ recv_q # << >>
    /\ Head(recv_q) = CloseFrame
    /\ recv_q' = Tail(recv_q)
    /\ active' = FALSE
    /\ mgr' = "stop_send"
    /\ UNCHANGED <<cmd_q, handles, reason, cmd_tasks, recv_tasks, sendVars, receiver,
                   recv_signal, netVars>>

\* else: both channels are closed and empty; no close handling at all.
TakeElse ==
    /\ mgr = "select"
    /\ cmd_q = << >> /\ ~handles
    /\ recv_q = << >> /\ receiver = "ended"
    /\ mgr' = "failed"
    /\ UNCHANGED <<cmd_q, handles, active, reason, cmd_tasks, recv_tasks, sendVars, recvVars,
                   netVars>>

\* close(signal_send_tx): sending the signal fails once send_task has ended.
StopSend ==
    /\ mgr = "stop_send"
    /\ mgr' = IF sender = "ended" THEN "stop_recv" ELSE "wait_send"
    /\ send_signal' = IF sender = "ended" THEN send_signal ELSE "queued"
    /\ UNCHANGED <<cmd_q, handles, active, reason, cmd_tasks, recv_tasks, sender, send_q, sink,
                   recvVars, netVars>>

\* Mutants: the manager does not wait for send_task, or waits for its answer alone.
SendStoppedEarly ==
    /\ mgr = "wait_send"
    /\ mgr' = "stop_recv"
    /\ UNCHANGED <<cmd_q, handles, active, reason, cmd_tasks, recv_tasks, sendVars, recvVars,
                   netVars>>
SendStoppedByAnswer == send_signal = "acked" /\ SendStoppedEarly

\* The callback is answered, or dropped by a send_task that failed.
SendStopped ==
    /\ mgr = "wait_send"
    /\ sender = "ended"
    /\ mgr' = "stop_recv"
    /\ UNCHANGED <<cmd_q, handles, active, reason, cmd_tasks, recv_tasks, sendVars, recvVars,
                   netVars>>

StopRecv ==
    /\ mgr = "stop_recv"
    /\ mgr' = IF receiver = "ended" THEN "finish" ELSE "wait_recv"
    /\ recv_signal' = IF receiver = "ended" THEN recv_signal ELSE "queued"
    /\ reason' = IF receiver = "ended" THEN "partial" ELSE reason
    /\ UNCHANGED <<cmd_q, handles, active, cmd_tasks, recv_tasks, sendVars, receiver, recv_q,
                   netVars>>

\* Mutant: the manager does not wait for recv_task.
RecvStoppedEarly ==
    /\ mgr = "wait_recv"
    /\ mgr' = "finish"
    /\ reason' = "ok"
    /\ UNCHANGED <<cmd_q, handles, active, cmd_tasks, recv_tasks, sendVars, recvVars, netVars>>

\* ss_res.and(sr_res): both are Ok values, so the result is recv_task's.
RecvStopped ==
    /\ mgr = "wait_recv"
    /\ receiver = "ended"
    /\ mgr' = "finish"
    /\ reason' = IF recv_signal = "acked" THEN "ok" ELSE "partial"
    /\ UNCHANGED <<cmd_q, handles, active, cmd_tasks, recv_tasks, sendVars, recvVars, netVars>>

\* handle_close, then the manager returns and drops cmd_rx and recv_rx.
Finish ==
    /\ mgr = "finish"
    /\ mgr' = "done"
    /\ cmd_q' = << >>
    /\ recv_q' = << >>
    /\ UNCHANGED <<handles, active, reason, cmd_tasks, recv_tasks, sendVars, receiver,
                   recv_signal, netVars>>

Manage == \/ Check \/ TakeCmd \/ TakeFrame \/ TakeClose \/ TakeElse
          \/ StopSend \/ SendStopped \/ StopRecv \/ RecvStopped \/ Finish

-----------------------------------------------------------------------------
(* What a handler task may do to the connection *)

\* A handle_cmd task ends without touching the connection.
EndCmd(c) ==
    /\ c \in cmd_tasks
    /\ cmd_tasks' = cmd_tasks \ {c}
    /\ UNCHANGED <<cmd_q, handles, mgrVars, recv_tasks, sendVars, recvVars, netVars>>

\* A handle_cmd task writes a frame and ends; the write fails without send_rx.
EndCmdSending(c, f) ==
    /\ c \in cmd_tasks
    /\ cmd_tasks' = cmd_tasks \ {c}
    /\ send_q' = IF sender = "ended" THEN send_q ELSE Append(send_q, f)
    /\ UNCHANGED <<cmd_q, handles, mgrVars, recv_tasks, sender, send_signal, sink, recvVars,
                   netVars>>

\* A handle_cmd task calls state.set_active(false) and ends.
EndCmdClosing(c) ==
    /\ c \in cmd_tasks
    /\ cmd_tasks' = cmd_tasks \ {c}
    /\ active' = FALSE
    /\ UNCHANGED <<cmd_q, handles, mgr, reason, recv_tasks, sendVars, recvVars, netVars>>

\* A handle_recv task ends.
EndRecv(m) ==
    /\ m \in recv_tasks
    /\ recv_tasks' = recv_tasks \ {m}
    /\ UNCHANGED <<cmd_q, handles, mgrVars, cmd_tasks, sendVars, recvVars, netVars>>

Handle == \/ \E c \in Cmd : \/ EndCmd(c) \/ EndCmdClosing(c)
                            \/ \E f \in Frame : EndCmdSending(c, f)
          \/ \E m \in Inbound : EndRecv(m)

TaskNext == \/ \E c \in Cmd : SendCommand(c)
            \/ DropHandles
            \/ \E m \in Inbound \cup {CloseFrame} : PeerSend(m)
            \/ Disconnect
            \/ SendTask \/ RecvTask \/ Manage \/ Handle

\* The connection with any handler at all.
TaskSpec == TaskInit /\ [][TaskNext]_taskVars

-----------------------------------------------------------------------------
(* Once manage_task has returned after its close sequence - the moment the *)
(* user is told that the connection is closed - nothing more reaches the   *)
(* peer and no handler is started: a frame still queued, a command still   *)
(* waiting or a frame still unread never takes effect afterwards.          *)
QuietOnceClosed ==
    [][mgr = "done" => /\ peer_got' = peer_got
                       /\ cmd_tasks' \subseteq cmd_tasks
                       /\ recv_tasks' \subseteq recv_tasks]_taskVars
=============================================================================
