---------------------------- MODULE WSTask_proofs ----------------------------
(***************************************************************************)
(* Proofs about WSTask with any handler: TaskSpec lets a handler task do   *)
(* everything a handler may do, so what is proved here holds of each       *)
(* connection built on WSTask.                                             *)
(***************************************************************************)
EXTENDS WSTask, SequenceTheorems, TLAPS

\* A task is stopped before the next one is signalled, and both before the
\* manager finishes: what makes QuietOnceClosed inductive.
StopOrder ==
    /\ mgr \in {"stop_recv", "wait_recv", "finish", "done"} => sender = "ended"
    /\ mgr \in {"finish", "done"} => receiver = "ended"

TaskInv == TaskTypeOK /\ StopOrder

(***************************************************************************)
(* The channels, tasks and signals of a connection keep their types        *)
(* through every step of the manager, of the socket tasks and of any       *)
(* handler.                                                                *)
(***************************************************************************)
LEMMA TaskTypeStep == TaskTypeOK /\ [TaskNext]_taskVars => TaskTypeOK'
<1> SUFFICES ASSUME TaskTypeOK, [TaskNext]_taskVars
             PROVE  TaskTypeOK'
  OBVIOUS
<1> USE FrameAssumption DEF TaskTypeOK, MgrEnded
<1>1. CASE UNCHANGED taskVars
  BY <1>1 DEF taskVars, mgrVars, sendVars, recvVars, netVars
<1>2. ASSUME NEW c \in Cmd, SendCommand(c)
      PROVE  TaskTypeOK'
  BY <1>2 DEF SendCommand, mgrVars, sendVars, recvVars, netVars
<1>3. CASE DropHandles
  <2>1. handles' \in BOOLEAN
    BY <1>3, Zenon DEF DropHandles
  <2> QED
    BY <1>3, <2>1 DEF DropHandles, mgrVars, sendVars, recvVars, netVars
<1>4. ASSUME NEW m \in Inbound \cup {CloseFrame}, PeerSend(m)
      PROVE  TaskTypeOK'
  BY <1>4 DEF PeerSend, mgrVars, sendVars, recvVars, netVars
<1>5. CASE Disconnect
  BY <1>5 DEF Disconnect, mgrVars, sendVars, recvVars, netVars
<1>6. CASE SendTask
  <2>1. CASE SendSignal
    BY <2>1 DEF SendSignal, mgrVars, recvVars, netVars
  <2>2. CASE SendTake
    <3>1. Head(send_q) \in Frame /\ Tail(send_q) \in Seq(Frame)
      BY <2>2, HeadTailProperties DEF SendTake
    <3> QED
      BY <2>2, <3>1 DEF SendTake, mgrVars, recvVars, netVars
  <2>3. CASE SendDone
    BY <2>3 DEF SendDone, mgrVars, recvVars
  <2>4. CASE SendFail
    BY <2>4 DEF SendFail, mgrVars, recvVars, netVars
  <2>5. CASE SendElse
    BY <2>5 DEF SendElse, mgrVars, recvVars, netVars
  <2> QED
    BY <1>6, <2>1, <2>2, <2>3, <2>4, <2>5 DEF SendTask
<1>7. CASE RecvTask
  <2>1. CASE RecvSignal
    BY <2>1 DEF RecvSignal, mgrVars, sendVars, netVars
  <2>2. CASE RecvTake
    BY <2>2 DEF RecvTake, mgrVars, sendVars
  <2>3. CASE RecvFail
    BY <2>3 DEF RecvFail, mgrVars, sendVars, netVars
  <2>4. CASE RecvElse
    BY <2>4 DEF RecvElse, mgrVars, sendVars, netVars
  <2> QED
    BY <1>7, <2>1, <2>2, <2>3, <2>4 DEF RecvTask
<1>8. CASE Manage
  <2>1. CASE Check
    BY <2>1 DEF Check, sendVars, recvVars, netVars
  <2>2. CASE TakeCmd
    BY <2>2 DEF TakeCmd, sendVars, recvVars, netVars
  <2>3. CASE TakeFrame
    BY <2>3 DEF TakeFrame, sendVars, netVars
  <2>4. CASE TakeClose
    <3>1. active' \in BOOLEAN
      BY <2>4, Zenon DEF TakeClose
    <3> QED
      BY <2>4, <3>1 DEF TakeClose, sendVars, netVars
  <2>5. CASE TakeElse
    BY <2>5 DEF TakeElse, sendVars, recvVars, netVars
  <2>6. CASE StopSend
    BY <2>6 DEF StopSend, recvVars, netVars
  <2>7. CASE SendStopped
    BY <2>7 DEF SendStopped, sendVars, recvVars, netVars
  <2>8. CASE StopRecv
    BY <2>8 DEF StopRecv, sendVars, netVars
  <2>9. CASE RecvStopped
    BY <2>9 DEF RecvStopped, sendVars, recvVars, netVars
  <2>10. CASE Finish
    BY <2>10 DEF Finish, sendVars, netVars
  <2> QED
    BY <1>8, <2>1, <2>2, <2>3, <2>4, <2>5, <2>6, <2>7, <2>8, <2>9, <2>10 DEF Manage
<1>9. CASE Handle
  <2>1. ASSUME NEW c \in Cmd, EndCmd(c)
        PROVE  TaskTypeOK'
    BY <2>1 DEF EndCmd, mgrVars, sendVars, recvVars, netVars
  <2>2. ASSUME NEW c \in Cmd, EndCmdClosing(c)
        PROVE  TaskTypeOK'
    <3>1. active' \in BOOLEAN
      BY <2>2, Zenon DEF EndCmdClosing
    <3> QED
      BY <2>2, <3>1 DEF EndCmdClosing, sendVars, recvVars, netVars
  <2>3. ASSUME NEW c \in Cmd, NEW f \in Frame, EndCmdSending(c, f)
        PROVE  TaskTypeOK'
    BY <2>3 DEF EndCmdSending, mgrVars, recvVars, netVars
  <2>4. ASSUME NEW m \in Inbound, EndRecv(m)
        PROVE  TaskTypeOK'
    BY <2>4 DEF EndRecv, mgrVars, sendVars, recvVars, netVars
  <2> QED
    BY <1>9, <2>1, <2>2, <2>3, <2>4 DEF Handle
<1> QED
  BY <1>1, <1>2, <1>3, <1>4, <1>5, <1>6, <1>7, <1>8, <1>9 DEF TaskNext

\* No step lets the manager get ahead of a socket task that still runs.
LEMMA StopOrderStep == TaskInv /\ [TaskNext]_taskVars => StopOrder'
<1> SUFFICES ASSUME TaskTypeOK, StopOrder, [TaskNext]_taskVars
             PROVE  StopOrder'
  BY DEF TaskInv
<1> USE DEF StopOrder
<1>1. CASE UNCHANGED taskVars
  BY <1>1 DEF taskVars, mgrVars, sendVars, recvVars
<1>2. ASSUME NEW c \in Cmd, SendCommand(c)
      PROVE  StopOrder'
  BY <1>2 DEF SendCommand, mgrVars, sendVars, recvVars
<1>3. CASE DropHandles
  BY <1>3 DEF DropHandles, mgrVars, sendVars, recvVars
<1>4. ASSUME NEW m \in Inbound \cup {CloseFrame}, PeerSend(m)
      PROVE  StopOrder'
  BY <1>4 DEF PeerSend, mgrVars, sendVars, recvVars
<1>5. CASE Disconnect
  BY <1>5 DEF Disconnect, mgrVars, sendVars, recvVars
<1>6. CASE SendTask
  BY <1>6 DEF SendTask, SendSignal, SendTake, SendDone, SendFail, SendElse, mgrVars, recvVars
<1>7. CASE RecvTask
  BY <1>7 DEF RecvTask, RecvSignal, RecvTake, RecvFail, RecvElse, MgrEnded, mgrVars, sendVars
<1>8. CASE Manage
  <2>1. CASE Check \/ TakeCmd \/ TakeFrame \/ TakeClose \/ TakeElse
    BY <2>1 DEF Check, TakeCmd, TakeFrame, TakeClose, TakeElse, sendVars, recvVars
  <2>2. CASE StopSend \/ SendStopped \/ StopRecv \/ RecvStopped \/ Finish
    BY <2>2 DEF StopSend, SendStopped, StopRecv, RecvStopped, Finish, sendVars, recvVars
  <2> QED
    BY <1>8, <2>1, <2>2 DEF Manage
<1>9. CASE Handle
  BY <1>9 DEF Handle, EndCmd, EndCmdClosing, EndCmdSending, EndRecv,
              mgrVars, sendVars, recvVars
<1> QED
  BY <1>1, <1>2, <1>3, <1>4, <1>5, <1>6, <1>7, <1>8, <1>9 DEF TaskNext

(***************************************************************************)
(* TaskInv is an inductive invariant of every connection.                  *)
(***************************************************************************)
THEOREM TaskInvariant == TaskSpec => []TaskInv
<1>1. TaskInit => TaskInv
  BY FrameAssumption DEF TaskInit, TaskInv, TaskTypeOK, StopOrder
<1>2. TaskInv /\ [TaskNext]_taskVars => TaskInv'
  BY TaskTypeStep, StopOrderStep DEF TaskInv
<1> QED
  BY <1>1, <1>2, PTL DEF TaskSpec

\* A step of a connection whose manager has returned normally changes none of
\* what QuietOnceClosed names.
LEMMA QuietStep ==
    ASSUME TaskInv, [TaskNext]_taskVars, mgr = "done"
    PROVE  /\ peer_got' = peer_got
           /\ cmd_tasks' \subseteq cmd_tasks
           /\ recv_tasks' \subseteq recv_tasks
<1> USE DEF TaskInv, StopOrder
<1>1. CASE UNCHANGED taskVars
  BY <1>1 DEF taskVars, netVars
<1>2. ASSUME NEW c \in Cmd, SendCommand(c)
      PROVE  UNCHANGED <<peer_got, cmd_tasks, recv_tasks>>
  BY <1>2 DEF SendCommand, netVars
<1>3. CASE DropHandles \/ Disconnect
  BY <1>3 DEF DropHandles, Disconnect, netVars
<1>4. ASSUME NEW m \in Inbound \cup {CloseFrame}, PeerSend(m)
      PROVE  UNCHANGED <<peer_got, cmd_tasks, recv_tasks>>
  BY <1>4 DEF PeerSend
<1>5. CASE SendTask
  BY <1>5 DEF SendTask, SendSignal, SendTake, SendDone, SendFail, SendElse
<1>6. CASE RecvTask
  BY <1>6 DEF RecvTask, RecvSignal, RecvTake, RecvFail, RecvElse
<1>7. CASE Manage
  BY <1>7 DEF Manage, Check, TakeCmd, TakeFrame, TakeClose, TakeElse, StopSend, SendStopped,
              StopRecv, RecvStopped, Finish
<1>8. CASE Handle
  BY <1>8 DEF Handle, EndCmd, EndCmdClosing, EndCmdSending, EndRecv, netVars
<1> QED
  BY <1>1, <1>2, <1>3, <1>4, <1>5, <1>6, <1>7, <1>8 DEF TaskNext

(***************************************************************************)
(* After manage_task has returned through its close sequence nothing more  *)
(* is written to the peer and no handler starts, whatever the handlers are *)
(* and however many commands and frames there are.                         *)
(***************************************************************************)
THEOREM QuietTheorem == TaskSpec => QuietOnceClosed
<1>1. TaskInv /\ [TaskNext]_taskVars
        => [mgr = "done" => /\ peer_got' = peer_got
                            /\ cmd_tasks' \subseteq cmd_tasks
                            /\ recv_tasks' \subseteq recv_tasks]_taskVars
  BY QuietStep
<1> QED
  BY <1>1, TaskInvariant, PTL DEF TaskSpec, QuietOnceClosed
=============================================================================
