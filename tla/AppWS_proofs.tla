---------------------------- MODULE AppWS_proofs ----------------------------
(***************************************************************************)
(* Proofs about the application's connections, AppWS and CompatWS, for any *)
(* numbers of calls, events and echoes.  What is proved of AppWS cites     *)
(* nothing of CompatWS, whose assumption any constants of AppWS meet with  *)
(* no reply event.                                                         *)
(***************************************************************************)
EXTENDS CompatWS, WSTask_proofs

-----------------------------------------------------------------------------
(* The application's connection is one of WSTask's connections *)

\* Every step of the application is a step of the connection or leaves it alone.
LEMMA AppStep == [Next]_vars => [TaskNext]_taskVars
<1> SUFFICES ASSUME [Next]_vars
             PROVE  TaskNext \/ UNCHANGED taskVars
  OBVIOUS
<1> USE AppAssumption DEF TaskNext
<1>1. CASE UNCHANGED vars
  BY <1>1 DEF vars
<1>2. ASSUME NEW c \in Cmd, Issue(c)
      PROVE  TaskNext
  BY <1>2 DEF Issue
<1>3. ASSUME NEW c \in Cmd, CmdHandler(c)
      PROVE  TaskNext \/ UNCHANGED taskVars
  BY <1>3 DEF CmdHandler, GenerateEcho, SendRequest, HandleConfig, HandleClose, Handle
<1>4. ASSUME NEW c \in Call, SerializeFails(c) \/ PeerRespond(c)
      PROVE  TaskNext
  BY <1>4 DEF SerializeFails, PeerRespond, Handle
<1>5. ASSUME NEW m \in Inbound, RecvHandler(m)
      PROVE  TaskNext
  BY <1>5 DEF RecvHandler, HandleEvent, HandleGarbage, HandleResponse, Handle
<1>6. ASSUME NEW m \in Event \cup {CloseFrame}, PeerMessage(m)
      PROVE  TaskNext
  BY <1>6 DEF PeerMessage
<1>7. CASE DropClients \/ LoseLink \/ ReleaseMap
  BY <1>7 DEF DropClients, LoseLink, ReleaseMap
<1>8. CASE ManageApp \/ SendTaskApp \/ RecvTaskApp
  BY <1>8 DEF ManageApp, FinishApp, SendTaskApp, RecvTaskApp, Manage
<1> QED
  BY <1>1, <1>2, <1>3, <1>4, <1>5, <1>6, <1>7, <1>8 DEF Next

(***************************************************************************)
(* The application's connection implements the connection with any         *)
(* handler, so every theorem of WSTask_proofs holds of it.                 *)
(***************************************************************************)
THEOREM AppIsTask == Spec => TaskSpec
<1>1. Init => TaskInit
  BY DEF Init
<1> QED
  BY <1>1, AppStep, PTL DEF Spec, TaskSpec

(***************************************************************************)
(* After the application was told that its connection is closed, nothing   *)
(* more is written to the peer and no handler starts.                      *)
(***************************************************************************)
THEOREM AppQuiet == Spec => QuietOnceClosed
BY AppIsTask, QuietTheorem, PTL

-----------------------------------------------------------------------------
(* Types *)

AppTypeOK == /\ issued \subseteq Cmd
             /\ echo \in [Call -> Echo \cup {None}]
             /\ map \in [Echo -> Call \cup {None}]
             /\ result \in [Caller -> Caller \cup {Failed, None}]
             /\ msg_q \in Seq(Event \cup {Notice})

LEMMA AppTypeStep == TypeOK /\ [Next]_vars => AppTypeOK'
<1> SUFFICES ASSUME TaskTypeOK, AppTypeOK, [Next]_vars
             PROVE  AppTypeOK'
  BY DEF TypeOK, AppTypeOK
<1> USE AppAssumption DEF AppTypeOK, FailAll, Caller
<1>1. CASE UNCHANGED vars
  BY <1>1 DEF vars, appVars
<1>2. ASSUME NEW c \in Cmd, Issue(c)
      PROVE  AppTypeOK'
  BY <1>2 DEF Issue
<1>3. ASSUME NEW c \in Cmd, CmdHandler(c)
      PROVE  AppTypeOK'
  <2>1. ASSUME c \in Call, GenerateEcho(c)
        PROVE  AppTypeOK'
    BY <2>1 DEF GenerateEcho
  <2>2. ASSUME c \in Call, SendRequest(c)
        PROVE  AppTypeOK'
    BY <2>2 DEF SendRequest
  <2>3. ASSUME c \in Config, HandleConfig(c)
        PROVE  AppTypeOK'
    BY <2>3 DEF HandleConfig
  <2>4. ASSUME c \in Closer, HandleClose(c)
        PROVE  AppTypeOK'
    BY <2>4 DEF HandleClose, appVars
  <2> QED
    BY <1>3, <2>1, <2>2, <2>3, <2>4 DEF CmdHandler
<1>4. ASSUME NEW c \in Call, SerializeFails(c) \/ PeerRespond(c)
      PROVE  AppTypeOK'
  BY <1>4 DEF SerializeFails, PeerRespond, appVars
<1>5. ASSUME NEW m \in Inbound, RecvHandler(m)
      PROVE  AppTypeOK'
  <2>1. ASSUME m \in Event, HandleEvent(m) \/ HandleGarbage(m)
        PROVE  AppTypeOK'
    BY <2>1 DEF HandleEvent, HandleGarbage, appVars
  <2>2. ASSUME m \in Call, HandleResponse(m)
        PROVE  AppTypeOK'
    BY <2>2 DEF HandleResponse
  <2> QED
    BY <1>5, <2>1, <2>2 DEF RecvHandler
<1>6. ASSUME NEW m \in Event \cup {CloseFrame}, PeerMessage(m)
      PROVE  AppTypeOK'
  BY <1>6 DEF PeerMessage, appVars
<1>7. CASE DropClients \/ LoseLink
  BY <1>7 DEF DropClients, LoseLink, appVars
<1>8. CASE ReleaseMap
  BY <1>8 DEF ReleaseMap
<1>9. CASE ManageApp
  <2>1. CASE FinishApp
    BY <2>1 DEF FinishApp
  <2>2. CASE UNCHANGED appVars
    BY <2>2 DEF appVars
  <2> QED
    BY <1>9, <2>1, <2>2 DEF ManageApp
<1>10. CASE SendTaskApp \/ RecvTaskApp
  BY <1>10 DEF SendTaskApp, RecvTaskApp, appVars
<1> QED
  BY <1>1, <1>2, <1>3, <1>4, <1>5, <1>6, <1>7, <1>8, <1>9, <1>10 DEF Next

(***************************************************************************)
(* Every variable keeps its type.                                          *)
(***************************************************************************)
THEOREM Typing == Spec => []TypeOK
<1>1. Init => AppTypeOK
  BY DEF Init, AppTypeOK, Caller
<1>2. TypeOK <=> TaskTypeOK /\ AppTypeOK
  BY DEF TypeOK, AppTypeOK
<1>3. TaskTypeOK /\ AppTypeOK /\ [Next]_vars => AppTypeOK'
  BY <1>2, AppTypeStep
<1>4. TaskInv => TaskTypeOK
  BY DEF TaskInv
<1>5. TaskTypeOK /\ AppTypeOK => TypeOK
  BY <1>2
<1> QED
  BY <1>1, <1>3, <1>4, <1>5, AppIsTask, TaskInvariant, PTL DEF Spec

-----------------------------------------------------------------------------
(* What channels hold *)

LEMMA ItemsEmpty == Items(<< >>) = {}
  BY DEF Items

LEMMA ItemsIn ==
    ASSUME NEW S, NEW q \in Seq(S)
    PROVE  Items(q) \subseteq S
  BY DEF Items

LEMMA ItemsAppend ==
    ASSUME NEW S, NEW q \in Seq(S), NEW x
    PROVE  Items(Append(q, x)) = Items(q) \cup {x}
<1>1. \A i \in DOMAIN Append(q, x) : Append(q, x)[i] \in Items(q) \cup {x}
  BY DEF Items
<1>2. Append(q, x)[Len(q) + 1] = x /\ Len(q) + 1 \in DOMAIN Append(q, x)
  OBVIOUS
<1>3. \A i \in DOMAIN q : i \in DOMAIN Append(q, x) /\ Append(q, x)[i] = q[i]
  OBVIOUS
<1> QED
  BY <1>1, <1>2, <1>3, Zenon DEF Items

LEMMA ItemsTail ==
    ASSUME NEW S, NEW q \in Seq(S), q # << >>
    PROVE  Items(q) = {Head(q)} \cup Items(Tail(q))
<1>1. Head(q) = q[1] /\ 1 \in DOMAIN q
  OBVIOUS
<1>2. \A i \in DOMAIN Tail(q) : i + 1 \in DOMAIN q /\ Tail(q)[i] = q[i + 1]
  OBVIOUS
<1>3. \A i \in DOMAIN q : i # 1 => i - 1 \in DOMAIN Tail(q) /\ Tail(q)[i - 1] = q[i]
  OBVIOUS
<1>4. Items(q) \subseteq {Head(q)} \cup Items(Tail(q))
  BY <1>1, <1>3, Zenon DEF Items
<1>5. {Head(q)} \cup Items(Tail(q)) \subseteq Items(q)
  <2>1. Head(q) \in Items(q)
    BY <1>1, Zenon DEF Items
  <2>2. \A i \in DOMAIN Tail(q) : Tail(q)[i] \in Items(q)
    BY <1>2, Zenon DEF Items
  <2> QED
    BY <2>1, <2>2, Zenon DEF Items
<1> QED
  BY <1>4, <1>5

-----------------------------------------------------------------------------
(* A waiting caller's responder is alive *)

LEMMA HeldStep ==
    ASSUME TypeOK, WaitingIsHeld, [Next]_vars
    PROVE  WaitingIsHeld'
<1> USE AppAssumption DEF WaitingIsHeld, Caller, Mapped
<1>t. /\ cmd_q \in Seq(Cmd) /\ cmd_tasks \subseteq Cmd /\ echo \in [Call -> Echo \cup {None}]
      /\ map \in [Echo -> Call \cup {None}]
      /\ result \in [Caller -> Caller \cup {Failed, None}]
      /\ issued \subseteq Cmd
  BY DEF TypeOK, TaskTypeOK
<1>a. ASSUME UNCHANGED <<issued, result, cmd_q, cmd_tasks, map>>
      PROVE  WaitingIsHeld'
  BY <1>a DEF Items
<1>1. CASE UNCHANGED vars
  BY <1>1, <1>a DEF vars, taskVars, appVars
<1>2. ASSUME NEW c \in Cmd, Issue(c)
      PROVE  WaitingIsHeld'
  <2>1. CASE MgrEnded
    BY <1>2, <1>t, <2>1 DEF Issue, SendCommand, FailAll, Items
  <2>2. CASE ~MgrEnded
    <3>1. Items(cmd_q)' = Items(cmd_q) \cup {c}
      BY <1>2, <1>t, <2>2, ItemsAppend DEF Issue, SendCommand
    <3>2. UNCHANGED <<cmd_tasks, map, result>> /\ issued' = issued \cup {c}
      BY <1>2, <1>t, <2>2 DEF Issue, SendCommand, FailAll
    <3> QED
      BY <3>1, <3>2
  <2> QED
    BY <2>1, <2>2
<1>3. ASSUME NEW c \in Call, GenerateEcho(c)
      PROVE  WaitingIsHeld'
  BY <1>3, <1>a DEF GenerateEcho, taskVars
<1>4. ASSUME NEW c \in Call, SendRequest(c)
      PROVE  WaitingIsHeld'
  <2>1. UNCHANGED <<issued, cmd_q>> /\ cmd_tasks' = cmd_tasks \ {c} /\ echo[c] \in Echo
    BY <1>4, <1>t DEF SendRequest, EndCmdSending, Drawn
  <2>2. map' = [map EXCEPT ![echo[c]] = c] /\ FailAll({map[echo[c]]})
    BY <1>4 DEF SendRequest
  <2>3. c # None /\ Failed # None
    BY <1>t
  <2>4. \A d \in Caller : result'[d] = None => result[d] = None /\ d # map[echo[c]]
    BY <2>2, <2>3, <1>t DEF FailAll
  <2>5. Mapped \ {map[echo[c]]} \subseteq Mapped' /\ c \in Mapped'
    BY <2>1, <2>2, <2>3, <1>t
  <2> QED
    BY <2>1, <2>4, <2>5 DEF Items
<1>5. ASSUME NEW c \in Config, HandleConfig(c)
      PROVE  WaitingIsHeld'
  BY <1>5, <1>t DEF HandleConfig, EndCmd, Items
<1>6. ASSUME NEW c \in Closer, HandleClose(c)
      PROVE  WaitingIsHeld'
  BY <1>6, <1>t DEF HandleClose, EndCmdClosing, appVars, Items
<1>7. ASSUME NEW c \in Call, SerializeFails(c)
      PROVE  WaitingIsHeld'
  BY <1>7, <1>t DEF SerializeFails, EndCmd, FailAll, Items
<1>8. ASSUME NEW m \in Inbound, RecvHandler(m)
      PROVE  WaitingIsHeld'
  <2>1. CASE HandleEvent(m) \/ HandleGarbage(m)
    BY <1>a, <2>1 DEF HandleEvent, HandleGarbage, EndRecv, appVars
  <2>2. ASSUME m \in Call, HandleResponse(m)
        PROVE  WaitingIsHeld'
    <3>1. UNCHANGED <<issued, cmd_q, cmd_tasks>> /\ map' = [map EXCEPT ![echo[m]] = None]
      BY <2>2 DEF HandleResponse, EndRecv
    <3>2. result' = [d \in Caller |-> IF d = map[echo[m]] THEN m ELSE result[d]]
      BY <2>2 DEF HandleResponse
    <3>3. m # None
      BY <2>2
    <3>4. \A d \in Caller : result'[d] = None => result[d] = None /\ d # map[echo[m]]
      BY <3>2, <3>3, <1>t
    <3>5. Mapped \ {map[echo[m]]} \subseteq Mapped'
      BY <3>1, <1>t
    <3> QED
      BY <3>1, <3>4, <3>5 DEF Items
  <2> QED
    BY <1>8, <2>1, <2>2 DEF RecvHandler
<1>9. ASSUME NEW m \in Inbound \cup {CloseFrame}, PeerSend(m) /\ UNCHANGED appVars
      PROVE  WaitingIsHeld'
  BY <1>9, <1>a DEF PeerSend, appVars
<1>10. CASE DropClients \/ LoseLink
  BY <1>10, <1>a DEF DropClients, DropHandles, LoseLink, Disconnect, appVars
<1>11. CASE ReleaseMap
  BY <1>11, <1>t DEF ReleaseMap, FailAll, taskVars, Items
<1>12. CASE TakeCmd /\ UNCHANGED appVars
  <2>1. Items(cmd_q) = {Head(cmd_q)} \cup Items(cmd_q)'
    BY <1>12, <1>t, ItemsTail DEF TakeCmd
  <2>2. cmd_tasks' = cmd_tasks \cup {Head(cmd_q)} /\ UNCHANGED <<issued, result, map>>
    BY <1>12 DEF TakeCmd, appVars
  <2> QED
    BY <2>1, <2>2
<1>13. CASE FinishApp
  <2>1. UNCHANGED <<issued, cmd_tasks, map>> /\ FailAll(Items(cmd_q))
    BY <1>13 DEF FinishApp, Finish
  <2>2. \A d \in Caller : result'[d] = None => result[d] = None /\ d \notin Items(cmd_q)
    BY <2>1, <1>t DEF FailAll
  <2> QED
    BY <2>1, <2>2
<1>14. CASE ManageApp
  <2>1. ASSUME \/ Check \/ TakeFrame \/ TakeClose \/ TakeElse
               \/ StopSend \/ SendStopped \/ StopRecv \/ RecvStopped,
               UNCHANGED appVars
        PROVE  WaitingIsHeld'
    BY <1>a, <2>1 DEF Check, TakeFrame, TakeClose, TakeElse, StopSend, SendStopped, StopRecv,
                      RecvStopped, appVars
  <2> QED
    BY <1>12, <1>13, <1>14, <2>1 DEF ManageApp
<1>15. CASE SendTaskApp
  BY <1>15, <1>a DEF SendTaskApp, SendTask, SendSignal, SendTake, SendDone, SendFail, SendElse,
                     appVars
<1>16. CASE RecvTaskApp
  BY <1>16, <1>a DEF RecvTaskApp, RecvTask, RecvSignal, RecvTake, RecvFail, RecvElse, appVars
<1> QED
  BY <1>1, <1>2, <1>3, <1>4, <1>5, <1>6, <1>7, <1>8, <1>9, <1>10, <1>11, <1>14, <1>15, <1>16
     DEF Next, CmdHandler, PeerRespond, PeerMessage

(***************************************************************************)
(* However handler tasks are scheduled (Parallel or not, with any number   *)
(* of echoes), a caller that waits can still be answered or failed.        *)
(***************************************************************************)
THEOREM Held == Spec => []WaitingIsHeld
<1>1. Init => WaitingIsHeld
  BY DEF Init, WaitingIsHeld
<1>2. TypeOK /\ WaitingIsHeld /\ [Next]_vars => WaitingIsHeld'
  BY HeldStep
<1> QED
  BY <1>1, <1>2, Typing, PTL DEF Spec

-----------------------------------------------------------------------------
(* The close notice *)

LEMMA NoticeStep ==
    ASSUME TypeOK, TaskInv, NoticeMeansStopped, [Next]_vars
    PROVE  NoticeMeansStopped'
<1> USE AppAssumption DEF NoticeMeansStopped
<1>t. msg_q \in Seq(Event \cup {Notice})
  BY DEF TypeOK
<1>1. ASSUME NEW i \in DOMAIN msg_q, msg_q[i] = Notice
      PROVE  UNCHANGED <<mgr, sender, receiver>>
  <2>1. mgr = "done" /\ sender = "ended" /\ receiver = "ended"
    BY <1>1
  <2>2. [TaskNext]_taskVars
    BY AppStep
  <2>3. CASE SendTask \/ RecvTask
    BY <2>1, <2>3 DEF SendTask, SendSignal, SendTake, SendDone, SendFail, SendElse,
                      RecvTask, RecvSignal, RecvTake, RecvFail, RecvElse
  <2>4. CASE Manage
    BY <2>1, <2>4 DEF Manage, Check, TakeCmd, TakeFrame, TakeClose, TakeElse, StopSend,
                      SendStopped, StopRecv, RecvStopped, Finish
  <2>5. CASE Handle
    BY <2>5 DEF Handle, EndCmd, EndCmdClosing, EndCmdSending, EndRecv, mgrVars, sendVars,
                recvVars
  <2>6. CASE UNCHANGED taskVars
    BY <2>6 DEF taskVars, mgrVars, sendVars, recvVars
  <2>7. CASE \/ \E c \in Cmd : SendCommand(c)
             \/ DropHandles
             \/ \E m \in Inbound \cup {CloseFrame} : PeerSend(m)
             \/ Disconnect
    BY <2>7 DEF SendCommand, DropHandles, PeerSend, Disconnect, mgrVars, sendVars, recvVars
  <2> QED
    BY <2>2, <2>3, <2>4, <2>5, <2>6, <2>7 DEF TaskNext
<1>2. CASE UNCHANGED msg_q
  BY <1>1, <1>2
<1>3. ASSUME NEW m \in Event, HandleEvent(m)
      PROVE  NoticeMeansStopped'
  <2>1. msg_q' = Append(msg_q, m) /\ m # Notice
    BY <1>3 DEF HandleEvent
  <2>2. \A i \in DOMAIN msg_q' : msg_q'[i] = Notice
                                 => i \in DOMAIN msg_q /\ msg_q[i] = Notice
    BY <2>1, <1>t
  <2> QED
    BY <1>1, <2>2
<1>4. CASE FinishApp
  <2>1. /\ mgr = "finish" /\ mgr' = "done"
        /\ UNCHANGED <<sender, receiver>>
        /\ msg_q' = Append(msg_q, Notice)
    BY <1>4 DEF FinishApp, Finish, sendVars
  <2>2. \A i \in DOMAIN msg_q : msg_q[i] # Notice
    BY <2>1
  <2>3. sender = "ended" /\ receiver = "ended"
    BY <2>1 DEF TaskInv, StopOrder
  <2>4. \A i \in DOMAIN msg_q' : msg_q'[i] = Notice => i = Len(msg_q) + 1
    BY <2>1, <2>2, <1>t
  <2> QED
    BY <2>1, <2>3, <2>4
<1>5. ASSUME NEW c \in Cmd, Issue(c) \/ CmdHandler(c)
      PROVE  UNCHANGED msg_q
  BY <1>5 DEF Issue, CmdHandler, GenerateEcho, SendRequest, HandleConfig, HandleClose, appVars
<1>6. ASSUME NEW c \in Call, SerializeFails(c) \/ PeerRespond(c)
      PROVE  UNCHANGED msg_q
  BY <1>6 DEF SerializeFails, PeerRespond, appVars
<1>7. ASSUME NEW m \in Inbound, RecvHandler(m)
      PROVE  NoticeMeansStopped'
  BY <1>2, <1>3, <1>7 DEF RecvHandler, HandleGarbage, HandleResponse, appVars
<1>8. CASE \/ UNCHANGED vars
           \/ \E m \in Event \cup {CloseFrame} : PeerMessage(m)
           \/ DropClients \/ LoseLink \/ ReleaseMap \/ SendTaskApp \/ RecvTaskApp
  BY <1>2, <1>8 DEF vars, appVars, PeerMessage, DropClients, LoseLink, ReleaseMap,
                    SendTaskApp, RecvTaskApp
<1>9. CASE ManageApp
  BY <1>2, <1>4, <1>9 DEF ManageApp, appVars
<1> QED
  BY <1>2, <1>5, <1>6, <1>7, <1>8, <1>9 DEF Next

(***************************************************************************)
(* The application hears of the end of its connection once, after both     *)
(* socket tasks have ended.                                                *)
(***************************************************************************)
THEOREM NoticeTheorem == Spec => []NoticeMeansStopped
<1>1. Init => NoticeMeansStopped
  BY DEF Init, NoticeMeansStopped
<1>2. TypeOK /\ TaskInv /\ NoticeMeansStopped /\ [Next]_vars => NoticeMeansStopped'
  BY NoticeStep
<1> QED
  BY <1>1, <1>2, Typing, AppIsTask, TaskInvariant, PTL DEF Spec

-----------------------------------------------------------------------------
(***************************************************************************)
(* Responses reach their own callers, when handler tasks do not interleave *)
(* between the draw of an echo and its insertion.  The argument: a request *)
(* exists once and its response exists once (Once); while either is on its *)
(* way the echo it carries leads to its own caller (Led); an echo that is  *)
(* about to be inserted leads to nobody (Fresh).                           *)
(***************************************************************************)

Distinct(q) == \A i, j \in DOMAIN q : q[i] = q[j] => i = j

LEMMA DistinctAppend ==
    ASSUME NEW S, NEW q \in Seq(S), NEW x, Distinct(q), x \notin Items(q)
    PROVE  Distinct(Append(q, x))
<1>1. \A i \in DOMAIN Append(q, x) :
        \/ i \in DOMAIN q /\ Append(q, x)[i] = q[i]
        \/ i = Len(q) + 1 /\ Append(q, x)[i] = x
  OBVIOUS
<1>2. \A i \in DOMAIN q : q[i] # x
  BY DEF Items
<1> QED
  BY <1>1, <1>2, Zenon DEF Distinct

LEMMA DistinctTail ==
    ASSUME NEW S, NEW q \in Seq(S), q # << >>, Distinct(q)
    PROVE  Distinct(Tail(q)) /\ Head(q) \notin Items(Tail(q))
<1>1. \A i \in DOMAIN Tail(q) : /\ i \in Nat /\ i + 1 \in DOMAIN q /\ i + 1 # 1
                                /\ Tail(q)[i] = q[i + 1]
  OBVIOUS
<1>2. Head(q) = q[1] /\ 1 \in DOMAIN q
  OBVIOUS
<1>3. Distinct(Tail(q))
  <2> SUFFICES ASSUME NEW i \in DOMAIN Tail(q), NEW j \in DOMAIN Tail(q),
                      Tail(q)[i] = Tail(q)[j]
               PROVE  i = j
    BY DEF Distinct
  <2>1. i + 1 = j + 1
    BY <1>1, Zenon DEF Distinct
  <2> QED
    BY <1>1, <2>1
<1>4. Head(q) \notin Items(Tail(q))
  <2> SUFFICES ASSUME NEW i \in DOMAIN Tail(q), Tail(q)[i] = Head(q)
               PROVE  FALSE
    BY DEF Items
  <2> QED
    BY <1>1, <1>2, Zenon DEF Distinct
<1> QED
  BY <1>3, <1>4

-----------------------------------------------------------------------------
(* Every request and every response exists once *)

OnceCmd ==
    /\ Distinct(cmd_q)
    /\ Items(cmd_q) \cap cmd_tasks = {}
    /\ Items(cmd_q) \cup cmd_tasks \subseteq issued

OnceRequest ==
    LET before == Items(cmd_q) \cup cmd_tasks IN
    /\ Distinct(send_q)
    /\ Items(send_q) \cap before = {}
    /\ sink \notin before \cup Items(send_q)
    /\ peer_got \cap (before \cup Items(send_q) \cup {sink}) = {}
    /\ Items(send_q) \cup peer_got \subseteq issued
    /\ sink \in issued \cup {None}

OnceResponse ==
    /\ peer_sent \cap Call \subseteq peer_got
    /\ Distinct(wire)
    /\ Distinct(recv_q)
    /\ Items(wire) \cup Items(recv_q) \cup recv_tasks \subseteq peer_sent
    /\ Items(wire) \cap Items(recv_q) = {}
    /\ Items(wire) \cap recv_tasks = {}
    /\ Items(recv_q) \cap recv_tasks = {}

Once == OnceCmd /\ OnceRequest /\ OnceResponse

\* Calls whose request or response is on its way.
InFlight ==
    Call \cap (Items(send_q) \cup {sink} \cup (peer_got \ peer_sent)
               \cup Items(wire) \cup Items(recv_q) \cup recv_tasks)

LEMMA OnceTypes ==
    ASSUME TypeOK
    PROVE  /\ cmd_q \in Seq(Cmd) /\ cmd_tasks \subseteq Cmd /\ issued \subseteq Cmd
           /\ send_q \in Seq(Call) /\ sink \in Call \cup {None} /\ peer_got \subseteq Call
           /\ wire \in Seq(Inbound \cup {CloseFrame}) /\ recv_q \in Seq(Inbound \cup {CloseFrame})
           /\ recv_tasks \subseteq Inbound /\ peer_sent \subseteq Inbound \cup {CloseFrame}
           /\ None \notin Cmd /\ CloseFrame \notin Call
           /\ Call \subseteq Cmd /\ Call \subseteq Inbound
BY AppAssumption, FrameAssumption DEF TypeOK, TaskTypeOK

\* What a command handler does to the channels.
LEMMA OnceCmdHandler ==
    ASSUME TypeOK, Once, NEW c \in Cmd, NEW f \in Call,
           EndCmd(c) \/ EndCmdClosing(c) \/ (c = f /\ EndCmdSending(c, f)),
           UNCHANGED issued
    PROVE  Once' /\ InFlight' \subseteq InFlight \cup {c}
<1> USE DEF Once, OnceCmd, OnceRequest, OnceResponse, InFlight
<1>1. CASE EndCmd(c) \/ EndCmdClosing(c)
  BY <1>1, OnceTypes DEF EndCmd, EndCmdClosing, sendVars, recvVars, netVars
<1>2. CASE c = f /\ EndCmdSending(c, f)
  <2>1. /\ UNCHANGED <<cmd_q, sink, peer_got, peer_sent, wire, recv_q, recv_tasks>>
        /\ cmd_tasks' = cmd_tasks \ {c} /\ c \in cmd_tasks
    BY <1>2 DEF EndCmdSending, recvVars, netVars
  <2>2. c \notin Items(send_q)
    BY <2>1
  <2>3. CASE send_q' = send_q
    BY <2>1, <2>3, OnceTypes
  <2>4. CASE send_q' = Append(send_q, c)
    <3>1. Items(send_q)' = Items(send_q) \cup {c} /\ Distinct(send_q)'
      BY <2>2, <2>4, OnceTypes, ItemsAppend, DistinctAppend
    <3>2. c \notin peer_got /\ c # sink /\ c \in issued /\ c \notin Items(cmd_q)
      BY <2>1
    <3> QED
      BY <2>1, <3>1, <3>2, OnceTypes
  <2> QED
    BY <1>2, <2>3, <2>4 DEF EndCmdSending
<1> QED
  BY <1>1, <1>2

\* What a frame handler does to the channels: it takes its frame out of flight.
LEMMA OnceEndRecv ==
    ASSUME TypeOK, Once, NEW m \in Inbound, EndRecv(m), UNCHANGED issued
    PROVE  Once' /\ InFlight' \subseteq InFlight \ {m}
<1>1. /\ UNCHANGED <<cmd_q, cmd_tasks, send_q, sink, peer_got, peer_sent, wire, recv_q>>
      /\ recv_tasks' = recv_tasks \ {m} /\ m \in recv_tasks
  BY DEF EndRecv, sendVars, recvVars, netVars
<1>2. Once'
  BY <1>1 DEF Once, OnceCmd, OnceRequest, OnceResponse
<1>3. m \in peer_sent /\ m \notin Items(wire) /\ m \notin Items(recv_q)
  BY <1>1 DEF Once, OnceResponse
<1>4. m \in Call => m \in peer_got /\ m \notin Items(send_q) /\ m # sink
  BY <1>3 DEF Once, OnceResponse, OnceRequest
<1> QED
  BY <1>1, <1>2, <1>3, <1>4 DEF InFlight

\* What send_task does to the channels.
LEMMA OnceSendTask ==
    ASSUME TypeOK, Once, SendTask, UNCHANGED issued
    PROVE  Once' /\ InFlight' \subseteq InFlight
<1> USE DEF Once, OnceCmd, OnceRequest, OnceResponse, InFlight
<1>1. CASE SendSignal \/ SendFail
  <2>1. /\ UNCHANGED <<cmd_q, cmd_tasks, peer_got, peer_sent, wire, recv_q, recv_tasks>>
        /\ send_q' = << >> /\ sink' \in {sink, None}
    BY <1>1 DEF SendSignal, SendFail, recvVars, netVars
  <2>2. Items(send_q)' = {} /\ Distinct(send_q)'
    BY <2>1, ItemsEmpty DEF Distinct
  <2>3. Items(cmd_q) \subseteq Cmd
    BY OnceTypes, ItemsIn
  <2> QED
    BY <2>1, <2>2, <2>3, OnceTypes
<1>2. CASE SendTake
  <2>1. /\ UNCHANGED <<cmd_q, cmd_tasks, peer_got, peer_sent, wire, recv_q, recv_tasks>>
        /\ send_q # << >> /\ send_q' = Tail(send_q) /\ sink' = Head(send_q)
    BY <1>2 DEF SendTake, recvVars, netVars
  <2>2. Items(send_q) = {sink'} \cup Items(send_q)'
    BY <2>1, OnceTypes, ItemsTail
  <2>3. Distinct(send_q)' /\ sink' \notin Items(send_q)'
    BY <2>1, OnceTypes, DistinctTail
  <2> QED
    BY <2>1, <2>2, <2>3, OnceTypes
<1>3. CASE SendDone
  <2>1. /\ UNCHANGED <<cmd_q, cmd_tasks, send_q, peer_sent, wire, recv_q, recv_tasks>>
        /\ peer_got' = peer_got \cup {sink} /\ sink' = None /\ sink # None
    BY <1>3 DEF SendDone, recvVars, TypeOK, TaskTypeOK
  <2>2. None \notin Items(cmd_q) \cup cmd_tasks \cup Items(send_q) \cup peer_got \cup {sink}
    <3>1. Items(cmd_q) \subseteq Cmd /\ Items(send_q) \subseteq Call
      BY OnceTypes, ItemsIn
    <3> QED
      BY <3>1, <2>1, OnceTypes
  <2> QED
    BY <2>1, <2>2, OnceTypes
<1>4. CASE SendElse
  BY <1>4 DEF SendElse, recvVars, netVars
<1> QED
  BY <1>1, <1>2, <1>3, <1>4 DEF SendTask

\* What the peer does to the channels.
LEMMA OncePeer ==
    ASSUME TypeOK, Once, NEW m \in Inbound \cup {CloseFrame}, PeerSend(m),
           m \in Call => m \in peer_got, UNCHANGED issued
    PROVE  Once' /\ InFlight' \subseteq InFlight
<1> USE DEF Once, OnceCmd, OnceRequest, OnceResponse, InFlight
<1>1. /\ UNCHANGED <<cmd_q, cmd_tasks, send_q, sink, peer_got, recv_q, recv_tasks>>
      /\ peer_sent' = peer_sent \cup {m} /\ wire' = Append(wire, m) /\ m \notin peer_sent
  BY DEF PeerSend, sendVars, recvVars
<1>2. Items(wire)' = Items(wire) \cup {m} /\ Distinct(wire)'
  BY <1>1, OnceTypes, ItemsAppend, DistinctAppend
<1> QED
  BY <1>1, <1>2, OnceTypes

\* What recv_task does to the channels.
LEMMA OnceRecvTask ==
    ASSUME TypeOK, Once, RecvTask, UNCHANGED issued
    PROVE  Once' /\ InFlight' \subseteq InFlight
<1> USE DEF Once, OnceCmd, OnceRequest, OnceResponse, InFlight
<1>1. CASE RecvTake
  <2>1. /\ UNCHANGED <<cmd_q, cmd_tasks, send_q, sink, peer_got, peer_sent, recv_tasks>>
        /\ wire # << >> /\ wire' = Tail(wire)
        /\ recv_q' = recv_q \/ recv_q' = Append(recv_q, Head(wire))
    BY <1>1 DEF RecvTake, sendVars
  <2>2. Items(wire) = {Head(wire)} \cup Items(wire)'
    BY <2>1, OnceTypes, ItemsTail
  <2>3. Distinct(wire)' /\ Head(wire) \notin Items(wire)'
    BY <2>1, OnceTypes, DistinctTail
  <2>4. CASE recv_q' = recv_q
    BY <2>1, <2>2, <2>3, <2>4, OnceTypes
  <2>5. CASE recv_q' = Append(recv_q, Head(wire))
    <3>1. Items(recv_q)' = Items(recv_q) \cup {Head(wire)} /\ Distinct(recv_q)'
      BY <2>2, <2>5, OnceTypes, ItemsAppend, DistinctAppend
    <3> QED
      BY <2>1, <2>2, <2>3, <3>1, OnceTypes
  <2> QED
    BY <2>1, <2>4, <2>5
<1>2. CASE RecvSignal \/ RecvFail \/ RecvElse
  BY <1>2 DEF RecvSignal, RecvFail, RecvElse, sendVars, netVars
<1> QED
  BY <1>1, <1>2 DEF RecvTask

\* What the manager does to the channels.
LEMMA OnceManage ==
    ASSUME TypeOK, Once, Manage, UNCHANGED issued
    PROVE  Once' /\ InFlight' \subseteq InFlight
<1> USE DEF Once, OnceCmd, OnceRequest, OnceResponse, InFlight
<1>1. CASE TakeCmd
  <2>1. /\ UNCHANGED <<send_q, sink, peer_got, peer_sent, wire, recv_q, recv_tasks>>
        /\ cmd_q # << >> /\ cmd_q' = Tail(cmd_q)
        /\ cmd_tasks' = cmd_tasks \cup {Head(cmd_q)}
    BY <1>1 DEF TakeCmd, sendVars, recvVars, netVars
  <2>2. Items(cmd_q) = {Head(cmd_q)} \cup Items(cmd_q)'
    BY <2>1, OnceTypes, ItemsTail
  <2>3. Distinct(cmd_q)' /\ Head(cmd_q) \notin Items(cmd_q)'
    BY <2>1, OnceTypes, DistinctTail
  <2> QED
    BY <2>1, <2>2, <2>3, OnceTypes
<1>2. CASE TakeFrame \/ TakeClose
  <2>1. /\ UNCHANGED <<cmd_q, cmd_tasks, send_q, sink, peer_got, peer_sent, wire>>
        /\ recv_q # << >> /\ recv_q' = Tail(recv_q)
        /\ recv_tasks' = recv_tasks \/ recv_tasks' = recv_tasks \cup {Head(recv_q)}
    BY <1>2 DEF TakeFrame, TakeClose, sendVars, netVars
  <2>2. Items(recv_q) = {Head(recv_q)} \cup Items(recv_q)'
    BY <2>1, OnceTypes, ItemsTail
  <2>3. Distinct(recv_q)' /\ Head(recv_q) \notin Items(recv_q)'
    BY <2>1, OnceTypes, DistinctTail
  <2> QED
    BY <2>1, <2>2, <2>3, OnceTypes
<1>3. CASE Finish
  <2>1. /\ UNCHANGED <<cmd_tasks, send_q, sink, peer_got, peer_sent, wire, recv_tasks>>
        /\ cmd_q' = << >> /\ recv_q' = << >>
    BY <1>3 DEF Finish, sendVars, netVars
  <2>2. /\ Items(cmd_q)' = {} /\ Distinct(cmd_q)'
        /\ Items(recv_q)' = {} /\ Distinct(recv_q)'
    BY <2>1, ItemsEmpty DEF Distinct
  <2> QED
    BY <2>1, <2>2, OnceTypes
<1>4. CASE Check \/ TakeElse \/ StopSend \/ SendStopped \/ StopRecv \/ RecvStopped
  BY <1>4 DEF Check, TakeElse, StopSend, SendStopped, StopRecv, RecvStopped, sendVars,
              recvVars, netVars
<1> QED
  BY <1>1, <1>2, <1>3, <1>4 DEF Manage

\* What issuing a command does to the channels.
LEMMA OnceIssue ==
    ASSUME TypeOK, Once, NEW c \in Cmd, Issue(c)
    PROVE  Once' /\ InFlight' \subseteq InFlight
<1> USE DEF Once, OnceCmd, OnceRequest, OnceResponse, InFlight
<1>1. /\ UNCHANGED <<cmd_tasks, send_q, sink, peer_got, peer_sent, wire, recv_q, recv_tasks>>
      /\ issued' = issued \cup {c} /\ c \notin issued
      /\ cmd_q' = cmd_q \/ cmd_q' = Append(cmd_q, c)
  BY DEF Issue, SendCommand, sendVars, recvVars, netVars
<1>2. CASE cmd_q' = cmd_q
  BY <1>1, <1>2, OnceTypes
<1>3. CASE cmd_q' = Append(cmd_q, c)
  <2>1. Items(cmd_q)' = Items(cmd_q) \cup {c} /\ Distinct(cmd_q)'
    BY <1>1, <1>3, OnceTypes, ItemsAppend, DistinctAppend
  <2> QED
    BY <1>1, <2>1, OnceTypes
<1> QED
  BY <1>1, <1>2, <1>3
\* The map was dropped: no handler runs any more, and none will.
Released == MgrEnded /\ cmd_tasks = {} /\ recv_tasks = {} /\ Mapped = {}

\* The echo of a request or response on its way leads to its own caller.
Led == \A c \in InFlight : echo[c] \in Echo /\ (map[echo[c]] = c \/ Released)

\* At most one handler stands between the draw of an echo and its insertion,
\* and that echo leads to nobody yet.
Fresh ==
    /\ \A c, d \in Drawn : c = d
    /\ \A c \in Drawn : map[echo[c]] = None
    /\ \A c \in Call : echo[c] # None => c \in issued /\ c \notin Items(cmd_q)

EchoInv == Once /\ Led /\ Fresh /\ Correlated

-----------------------------------------------------------------------------
(* Echoes on their way lead to their own callers *)

\* Once the map is dropped no handler runs again.
LEMMA ReleasedStable ==
    ASSUME Released, [TaskNext]_taskVars
    PROVE  MgrEnded' /\ cmd_tasks' = {} /\ recv_tasks' = {}
<1> USE DEF Released, MgrEnded
<1>1. CASE UNCHANGED taskVars
  BY <1>1 DEF taskVars, mgrVars
<1>2. CASE \/ \E c \in Cmd : SendCommand(c)
           \/ DropHandles
           \/ \E m \in Inbound \cup {CloseFrame} : PeerSend(m)
           \/ Disconnect
  BY <1>2 DEF SendCommand, DropHandles, PeerSend, Disconnect, mgrVars
<1>3. CASE SendTask \/ RecvTask
  BY <1>3 DEF SendTask, SendSignal, SendTake, SendDone, SendFail, SendElse,
              RecvTask, RecvSignal, RecvTake, RecvFail, RecvElse, mgrVars
<1>4. CASE Manage
  BY <1>4 DEF Manage, Check, TakeCmd, TakeFrame, TakeClose, TakeElse, StopSend, SendStopped,
              StopRecv, RecvStopped, Finish
<1>5. CASE Handle
  BY <1>5 DEF Handle, EndCmd, EndCmdClosing, EndCmdSending, EndRecv
<1> QED
  BY <1>1, <1>2, <1>3, <1>4, <1>5 DEF TaskNext

\* A step that leaves echoes and map alone and puts nothing new in flight.
LEMMA EchoStable ==
    ASSUME TypeOK, EchoInv, [TaskNext]_taskVars, UNCHANGED <<echo, map>>,
           issued \subseteq issued', Once', Correlated',
           InFlight' \subseteq InFlight,
           cmd_tasks' \subseteq cmd_tasks \cup Items(cmd_q),
           \A c \in Items(cmd_q)' : c \in Items(cmd_q) \/ c \notin issued
    PROVE  EchoInv'
<1>1. Led'
  <2>1. Released => Released'
    BY ReleasedStable DEF Released, Mapped
  <2> QED
    BY <2>1 DEF EchoInv, Led
<1>2. Fresh'
  <2>1. Drawn' \subseteq Drawn
    BY DEF Drawn, EchoInv, Fresh
  <2> QED
    BY <2>1 DEF EchoInv, Fresh
<1> QED
  BY <1>1, <1>2 DEF EchoInv

\* Steps of the connection that the handlers have no part in.
LEMMA EchoConnection ==
    ASSUME TypeOK, EchoInv, UNCHANGED appVars,
           \/ SendTask \/ RecvTask \/ (Manage /\ ~Finish) \/ DropHandles \/ Disconnect
           \/ \E m \in Inbound \cup {CloseFrame} : PeerSend(m) /\ (m \in Call => m \in peer_got)
    PROVE  EchoInv'
<1>1. [TaskNext]_taskVars
  BY DEF TaskNext
<1>2. UNCHANGED <<issued, echo, map, result>>
  BY DEF appVars
<1>3. Once
  BY DEF EchoInv
<1>4. Once' /\ InFlight' \subseteq InFlight
  <2>1. CASE DropHandles \/ Disconnect
    BY <1>2, <1>3, <2>1
       DEF DropHandles, Disconnect, sendVars, recvVars, netVars, Once, OnceCmd, OnceRequest,
           OnceResponse, InFlight
  <2> QED
    BY <1>2, <1>3, <2>1, OnceSendTask, OnceRecvTask, OnceManage, OncePeer
<1>5. /\ cmd_tasks' \subseteq cmd_tasks \cup Items(cmd_q)
      /\ Items(cmd_q)' \subseteq Items(cmd_q)
  <2>1. CASE TakeCmd
    BY <2>1, OnceTypes, ItemsTail DEF TakeCmd
  <2>2. ASSUME Manage, ~Finish, ~TakeCmd
        PROVE  UNCHANGED <<cmd_tasks, cmd_q>>
    BY <2>2 DEF Manage, Check, TakeFrame, TakeClose, TakeElse, StopSend, SendStopped, StopRecv,
                RecvStopped
  <2>3. CASE SendTask \/ RecvTask \/ DropHandles \/ Disconnect
    BY <2>3 DEF SendTask, SendSignal, SendTake, SendDone, SendFail, SendElse,
                RecvTask, RecvSignal, RecvTake, RecvFail, RecvElse, DropHandles, Disconnect
  <2>4. ASSUME NEW m \in Inbound \cup {CloseFrame}, PeerSend(m)
        PROVE  UNCHANGED <<cmd_tasks, cmd_q>>
    BY <2>4 DEF PeerSend
  <2> QED
    BY <2>1, <2>2, <2>3, <2>4
<1>6. Correlated'
  BY <1>2 DEF EchoInv, Correlated
<1> QED
  BY <1>1, <1>2, <1>4, <1>5, <1>6, EchoStable

LEMMA EchoIssue ==
    ASSUME TypeOK, EchoInv, NEW c \in Cmd, Issue(c)
    PROVE  EchoInv'
<1>1. [TaskNext]_taskVars
  BY DEF Issue, TaskNext
<1>2. Once' /\ InFlight' \subseteq InFlight
  BY OnceIssue DEF EchoInv
<1>3. /\ UNCHANGED <<echo, map, cmd_tasks>> /\ issued' = issued \cup {c} /\ c \notin issued
      /\ cmd_q' = cmd_q \/ cmd_q' = Append(cmd_q, c)
      /\ \E S : FailAll(S)
  BY DEF Issue, SendCommand
<1>4. Items(cmd_q)' \subseteq Items(cmd_q) \cup {c}
  BY <1>3, OnceTypes, ItemsAppend
<1>5. Correlated'
  BY <1>3, AppAssumption DEF EchoInv, Correlated, FailAll, Caller
<1> QED
  BY <1>1, <1>2, <1>3, <1>4, <1>5, EchoStable

\* Handlers that end without touching echoes or map: everything but a request
\* and a response.
LEMMA EchoOther ==
    ASSUME TypeOK, EchoInv, UNCHANGED <<issued, echo, map>>, Correlated',
           \/ \E c \in Cmd : EndCmd(c) \/ EndCmdClosing(c)
           \/ \E m \in Inbound : EndRecv(m)
           \/ Finish
    PROVE  EchoInv'
<1>1. [TaskNext]_taskVars
  BY DEF TaskNext, Handle, Manage
<1>2. Once
  BY DEF EchoInv
<1> DEFINE Shrinks == /\ Once' /\ InFlight' \subseteq InFlight
                      /\ cmd_tasks' \subseteq cmd_tasks
                      /\ Items(cmd_q)' \subseteq Items(cmd_q)
<1>3. Shrinks
  <2>1. ASSUME NEW c \in Cmd, EndCmd(c) \/ EndCmdClosing(c)
        PROVE  Shrinks
    <3>1. UNCHANGED <<cmd_q, send_q, sink, peer_got, peer_sent, wire, recv_q, recv_tasks>>
          /\ cmd_tasks' \subseteq cmd_tasks
      BY <2>1 DEF EndCmd, EndCmdClosing, sendVars, recvVars, netVars
    <3> QED
      BY <1>2, <3>1 DEF Once, OnceCmd, OnceRequest, OnceResponse, InFlight
  <2>2. ASSUME NEW m \in Inbound, EndRecv(m)
        PROVE  Shrinks
    BY <1>2, <2>2, OnceEndRecv DEF EndRecv
  <2>3. ASSUME Finish
        PROVE  Shrinks
    BY <1>2, <2>3, OnceManage, ItemsEmpty DEF Manage, Finish
  <2> QED
    BY <2>1, <2>2, <2>3
<1> QED
  BY <1>1, <1>3, EchoStable

\* The draw: no other handler holds an echo, and the drawn one leads to nobody.
LEMMA EchoGenerate ==
    ASSUME ~Parallel, TypeOK, EchoInv, NEW c \in Call, GenerateEcho(c)
    PROVE  EchoInv'
<1>1. /\ UNCHANGED <<taskVars, issued, map, result>>
      /\ c \in cmd_tasks /\ c \in issued /\ Drawn = {}
  BY DEF GenerateEcho, EchoInv, Once, OnceCmd
<1>2. PICK e \in Echo : map[e] = None /\ echo' = [echo EXCEPT ![c] = e]
  BY DEF GenerateEcho, FreeEcho
<1>3. echo'[c] = e /\ \A d \in Call \ {c} : echo'[d] = echo[d]
  BY <1>2 DEF TypeOK
<1>4. UNCHANGED <<cmd_q, cmd_tasks, mgr, send_q, sink, peer_got, peer_sent, wire, recv_q,
                  recv_tasks>>
  BY <1>1 DEF taskVars, mgrVars, sendVars, recvVars, netVars
<1>5. Once' /\ InFlight' = InFlight
  BY <1>1, <1>4 DEF EchoInv, Once, OnceCmd, OnceRequest, OnceResponse, InFlight
<1>6. c \notin InFlight
  <2>1. c \notin peer_got /\ c \notin Items(send_q) /\ c # sink
    BY <1>1 DEF EchoInv, Once, OnceRequest
  <2>2. c \notin peer_sent
    BY <2>1 DEF EchoInv, Once, OnceResponse
  <2> QED
    BY <2>1, <2>2 DEF EchoInv, Once, OnceResponse, InFlight
<1>7. Led'
  <2>1. Released' <=> Released
    BY <1>1, <1>4 DEF Released, MgrEnded, Mapped
  <2>2. InFlight \subseteq Call \ {c}
    BY <1>6 DEF InFlight
  <2> QED
    BY <1>1, <1>3, <1>5, <2>1, <2>2 DEF EchoInv, Led
<1>8. Fresh'
  <2>1. Drawn' \subseteq {c}
    BY <1>1, <1>3, <1>4 DEF Drawn
  <2>2. c \notin Items(cmd_q)'
    BY <1>1, <1>4 DEF EchoInv, Once, OnceCmd
  <2> QED
    BY <1>1, <1>2, <1>3, <1>4, <2>1, <2>2 DEF EchoInv, Fresh
<1>9. Correlated'
  BY <1>1 DEF EchoInv, Correlated
<1> QED
  BY <1>5, <1>7, <1>8, <1>9 DEF EchoInv

\* The insertion: nobody's echo is taken over, and the request is in flight.
LEMMA EchoRequest ==
    ASSUME TypeOK, EchoInv, NEW c \in Call, SendRequest(c)
    PROVE  EchoInv'
<1>1. /\ UNCHANGED <<issued, echo, cmd_q>>
      /\ EndCmdSending(c, c) /\ cmd_tasks' = cmd_tasks \ {c}
      /\ map' = [map EXCEPT ![echo[c]] = c]
      /\ FailAll({map[echo[c]]})
  BY DEF SendRequest, EndCmdSending
<1>2. c \in Drawn /\ map[echo[c]] = None /\ echo[c] \in Echo /\ c # None
  BY OnceTypes DEF SendRequest, EchoInv, Fresh, Drawn, TypeOK
<1>3. Once' /\ InFlight' \subseteq InFlight \cup {c}
  BY <1>1, OnceTypes, OnceCmdHandler DEF EchoInv
<1>4. map'[echo[c]] = c /\ \A e \in Echo \ {echo[c]} : map'[e] = map[e]
  BY <1>1, <1>2 DEF TypeOK
<1>5. ~Released
  BY <1>2 DEF Released, Drawn
<1>6. Led'
  <2> SUFFICES ASSUME NEW d \in InFlight'
               PROVE  echo[d] \in Echo /\ map'[echo[d]] = d
    BY <1>1 DEF Led
  <2>1. CASE d = c
    BY <1>2, <1>4, <2>1
  <2>2. CASE d # c
    <3>1. d \in InFlight /\ d # None
      BY <1>3, <2>2, OnceTypes DEF InFlight
    <3> QED
      BY <1>2, <1>4, <1>5, <3>1 DEF EchoInv, Led
  <2> QED
    BY <2>1, <2>2
<1>7. Fresh'
  <2>1. Drawn' = {}
    BY <1>1, <1>2 DEF Drawn, EchoInv, Fresh
  <2> QED
    BY <1>1, <2>1 DEF EchoInv, Fresh
<1>8. Correlated'
  BY <1>1, AppAssumption DEF EchoInv, Correlated, FailAll, Caller
<1> QED
  BY <1>3, <1>6, <1>7, <1>8 DEF EchoInv

\* A response's echo leads to its own caller, and is free afterwards.
LEMMA EchoTaken ==
    ASSUME TypeOK, EchoInv, NEW c \in Call, EndRecv(c), UNCHANGED <<issued, echo>>,
           map' = [map EXCEPT ![echo[c]] = None],
           NEW o \in {c, Failed},
           result' = [d \in Caller |-> IF d = map[echo[c]] THEN o ELSE result[d]]
    PROVE  EchoInv'
<1>1. /\ UNCHANGED <<cmd_q, cmd_tasks, mgr>>
      /\ c \in recv_tasks /\ recv_tasks' = recv_tasks \ {c}
  BY DEF EndRecv, mgrVars
<1>2. echo[c] \in Echo /\ map[echo[c]] = c
  BY <1>1 DEF EchoInv, Led, InFlight, Released
<1>3. Once' /\ InFlight' \subseteq InFlight \ {c}
  BY <1>1, OnceTypes, OnceEndRecv DEF EchoInv
<1>4. map'[echo[c]] = None /\ \A e \in Echo \ {echo[c]} : map'[e] = map[e]
  BY <1>1, <1>2 DEF TypeOK
<1>5. ~Released
  BY <1>1 DEF Released
<1>6. Led'
  BY <1>1, <1>2, <1>3, <1>4, <1>5 DEF EchoInv, Led
<1>7. Fresh'
  <2>1. Drawn' = Drawn
    BY <1>1 DEF Drawn
  <2>2. \A d \in Drawn : echo[d] \in Echo
    BY DEF Drawn, TypeOK
  <2> QED
    BY <1>1, <1>4, <2>1, <2>2 DEF EchoInv, Fresh
<1>8. Correlated'
  BY <1>1, <1>2, AppAssumption DEF EchoInv, Correlated, Caller
<1> QED
  BY <1>3, <1>6, <1>7, <1>8 DEF EchoInv

LEMMA EchoResponse ==
    ASSUME TypeOK, EchoInv, NEW c \in Call, HandleResponse(c)
    PROVE  EchoInv'
BY EchoTaken DEF HandleResponse

\* The drop of the map.
LEMMA EchoRelease ==
    ASSUME TypeOK, EchoInv, ReleaseMap
    PROVE  EchoInv'
<1>1. /\ UNCHANGED <<taskVars, issued, echo>>
      /\ MgrEnded /\ cmd_tasks = {} /\ recv_tasks = {}
      /\ map' = [e \in Echo |-> None]
      /\ FailAll(Mapped)
  BY DEF ReleaseMap
<1>2. UNCHANGED <<cmd_q, cmd_tasks, mgr, send_q, sink, peer_got, peer_sent, wire, recv_q,
                  recv_tasks>>
  BY <1>1 DEF taskVars, mgrVars, sendVars, recvVars, netVars
<1>3. Once' /\ InFlight' = InFlight
  BY <1>1, <1>2 DEF EchoInv, Once, OnceCmd, OnceRequest, OnceResponse, InFlight
<1>4. Released'
  BY <1>1, <1>2 DEF Released, MgrEnded, Mapped
<1>5. Led'
  BY <1>1, <1>3, <1>4 DEF EchoInv, Led
<1>6. Fresh'
  BY <1>1, <1>2 DEF EchoInv, Fresh, Drawn
<1>7. Correlated'
  BY <1>1, AppAssumption DEF EchoInv, Correlated, FailAll, Caller
<1> QED
  BY <1>3, <1>5, <1>6, <1>7 DEF EchoInv

LEMMA EchoStep ==
    ASSUME ~Parallel, TypeOK, EchoInv, [Next]_vars
    PROVE  EchoInv'
<1> USE AppAssumption, OnceTypes
<1>1. CASE UNCHANGED vars
  <2>1. UNCHANGED <<cmd_q, cmd_tasks, mgr, send_q, sink, peer_got, peer_sent, wire, recv_q,
                    recv_tasks, issued, echo, map, result>>
    BY <1>1 DEF vars, taskVars, appVars, mgrVars, sendVars, recvVars, netVars
  <2>2. Once' /\ InFlight' = InFlight
    BY <2>1 DEF EchoInv, Once, OnceCmd, OnceRequest, OnceResponse, InFlight
  <2>3. Released' = Released /\ Drawn' = Drawn
    BY <2>1 DEF Released, MgrEnded, Mapped, Drawn
  <2> QED
    BY <2>1, <2>2, <2>3 DEF EchoInv, Led, Fresh, Correlated
<1>2. ASSUME NEW c \in Cmd, CmdHandler(c)
      PROVE  EchoInv'
  <2>1. ASSUME c \in Config, HandleConfig(c)
        PROVE  EchoInv'
    <3>1. Correlated'
      BY <2>1 DEF HandleConfig, EchoInv, Correlated, TypeOK, Caller
    <3> QED
      BY <2>1, <3>1, EchoOther DEF HandleConfig
  <2>2. ASSUME c \in Closer, HandleClose(c)
        PROVE  EchoInv'
    <3>1. Correlated' /\ UNCHANGED <<issued, echo, map>>
      BY <2>2 DEF HandleClose, EchoInv, Correlated, appVars
    <3> QED
      BY <2>2, <3>1, EchoOther DEF HandleClose
  <2> QED
    BY <1>2, <2>1, <2>2, EchoGenerate, EchoRequest DEF CmdHandler
<1>3. ASSUME NEW c \in Call, SerializeFails(c)
      PROVE  EchoInv'
  <2>1. Correlated'
    BY <1>3 DEF SerializeFails, FailAll, EchoInv, Correlated, Caller
  <2> QED
    BY <1>3, <2>1, EchoOther DEF SerializeFails
<1>4. ASSUME NEW m \in Inbound, RecvHandler(m)
      PROVE  EchoInv'
  <2>1. CASE HandleEvent(m) \/ HandleGarbage(m)
    <3>1. Correlated' /\ UNCHANGED <<issued, echo, map>> /\ EndRecv(m)
      BY <2>1 DEF HandleEvent, HandleGarbage, EchoInv, Correlated, appVars
    <3> QED
      BY <3>1, EchoOther
  <2> QED
    BY <1>4, <2>1, EchoResponse DEF RecvHandler
<1>5. CASE FinishApp
  <2>1. Correlated'
    BY <1>5 DEF FinishApp, FailAll, EchoInv, Correlated, Caller
  <2> QED
    BY <1>5, <2>1, EchoOther DEF FinishApp
<1>6. CASE ManageApp /\ ~FinishApp
  <2>1. Manage /\ ~Finish /\ UNCHANGED appVars
    BY <1>6 DEF ManageApp, Manage, Check, TakeCmd, TakeFrame, TakeClose, TakeElse, StopSend,
                SendStopped, StopRecv, RecvStopped, Finish
  <2> QED
    BY <2>1, EchoConnection
<1>7. CASE SendTaskApp \/ RecvTaskApp \/ DropClients \/ LoseLink
  BY <1>7, EchoConnection DEF SendTaskApp, RecvTaskApp, DropClients, LoseLink
<1>8. ASSUME NEW m \in Inbound \cup {CloseFrame}, PeerSend(m), m \in Call => m \in peer_got,
             UNCHANGED appVars
      PROVE  EchoInv'
  BY <1>8, EchoConnection
<1> QED
  BY <1>1, <1>2, <1>3, <1>4, <1>5, <1>6, <1>7, <1>8, EchoIssue, EchoRelease
     DEF Next, PeerRespond, PeerMessage

LEMMA EchoInit == Init => EchoInv
BY ItemsEmpty, AppAssumption
   DEF Init, TaskInit, EchoInv, Once, OnceCmd, OnceRequest, OnceResponse, InFlight, Led,
       Fresh, Drawn, Correlated, Distinct, Caller

(***************************************************************************)
(* Where handler tasks share one thread, whatever the numbers of calls,    *)
(* events and echoes, a caller never gets the response to another call.    *)
(***************************************************************************)
THEOREM CorrelatedTheorem == ~Parallel /\ Spec => []Correlated
<1>1. Init => EchoInv
  BY EchoInit
<1>2. ~Parallel /\ TypeOK /\ EchoInv /\ [Next]_vars => EchoInv'
  BY EchoStep
<1>3. EchoInv => Correlated
  BY DEF EchoInv
<1>4. CASE Parallel
  BY <1>4
<1>5. CASE ~Parallel
  <2>1. TypeOK /\ EchoInv /\ [Next]_vars => EchoInv'
    BY <1>2, <1>5
  <2> QED
    BY <1>1, <1>3, <2>1, Typing, PTL DEF Spec
<1> QED
  BY <1>4, <1>5

-----------------------------------------------------------------------------
(* The connection implements the abstract calls *)

\* Places from which a responder can still be used.
Responders == Items(cmd_q) \cup cmd_tasks \cup Mapped

\* Who is held was not answered yet, and who did not call was not either.
Waiting == /\ \A c \in Caller \cap Responders : c \in issued /\ result[c] = None
           /\ \A c \in Caller \ issued : result[c] = None

\* A call is in the map once, under its own echo, and then nowhere before it.
Sorted == \A e \in Echo : map[e] # None =>
              /\ echo[map[e]] = e
              /\ map[e] \notin Items(cmd_q) \cup cmd_tasks

Awaited == Waiting /\ Sorted

\* What the client sees of a step.
Seen == <<issued \cap Call, peer_sent \cap Call, [c \in Call |-> result[c]]>>

LEMMA AwaitedInit == Init => Awaited
BY ItemsEmpty, AppAssumption
   DEF Init, TaskInit, Awaited, Waiting, Sorted, Responders, Mapped, Caller

LEMMA MappedTypes ==
    ASSUME TypeOK
    PROVE  /\ Mapped \subseteq Call
           /\ \A e \in Echo : map[e] # None => map[e] \in Mapped /\ map[e] \in Call
           /\ Call \subseteq Caller /\ Caller \subseteq Cmd /\ None \notin Caller
           /\ Call \cap Config = {} /\ Caller \cap Closer = {}
BY AppAssumption DEF TypeOK, Mapped, Caller

\* A step of the connection that takes nothing from a caller's place.
LEMMA AwaitedStable ==
    ASSUME TypeOK, Awaited, UNCHANGED <<issued, echo, map, result>>,
           Items(cmd_q)' \cup cmd_tasks' \subseteq (Items(cmd_q) \cup cmd_tasks)
    PROVE  Awaited'
<1>1. Responders' \subseteq Responders
  BY DEF Responders, Mapped
<1> QED
  BY <1>1 DEF Awaited, Waiting, Sorted

\* The tasks of the connection move commands on, and show nothing to the client.
LEMMA AwaitedConnection ==
    ASSUME TypeOK, Awaited, UNCHANGED appVars,
           SendTask \/ RecvTask \/ (Manage /\ ~Finish) \/ DropHandles \/ Disconnect
    PROVE  Awaited' /\ UNCHANGED Seen
<1>1. UNCHANGED <<issued, echo, map, result>>
  BY DEF appVars
<1>2. UNCHANGED peer_sent /\ Items(cmd_q)' \cup cmd_tasks' \subseteq Items(cmd_q) \cup cmd_tasks
  <2>1. CASE TakeCmd
    BY <2>1, OnceTypes, ItemsTail DEF TakeCmd, netVars
  <2>2. ASSUME Manage, ~Finish, ~TakeCmd
        PROVE  UNCHANGED <<cmd_tasks, cmd_q, peer_sent>>
    BY <2>2 DEF Manage, Check, TakeFrame, TakeClose, TakeElse, StopSend, SendStopped, StopRecv,
                RecvStopped, netVars
  <2>3. CASE SendTask \/ RecvTask \/ DropHandles \/ Disconnect
    BY <2>3 DEF SendTask, SendSignal, SendTake, SendDone, SendFail, SendElse,
                RecvTask, RecvSignal, RecvTake, RecvFail, RecvElse, DropHandles, Disconnect,
                netVars
  <2> QED
    BY <2>1, <2>2, <2>3
<1> QED
  BY <1>1, <1>2, AwaitedStable DEF Seen

\* A call is asked, or fails as it is made.
LEMMA CallsIssue ==
    ASSUME TypeOK, Awaited, NEW c \in Cmd, Issue(c)
    PROVE  Awaited' /\ [Calls!CallsNext]_Seen
<1>1. /\ UNCHANGED <<echo, map, cmd_tasks, peer_sent>>
      /\ issued' = issued \cup {c} /\ c \notin issued
      /\ cmd_q' = IF MgrEnded THEN cmd_q ELSE Append(cmd_q, c)
      /\ FailAll({c} \cap IF MgrEnded THEN Caller ELSE {})
  BY DEF Issue, SendCommand, netVars
<1>2. c \in Caller => c \notin Responders /\ result[c] = None
  BY <1>1 DEF Awaited, Waiting
<1>3. Mapped' = Mapped /\ c \notin Mapped
  BY <1>1, <1>2, MappedTypes DEF Mapped, Responders
<1>4. CASE ~MgrEnded
  <2>1. Items(cmd_q)' = Items(cmd_q) \cup {c}
    BY <1>1, <1>4, OnceTypes, ItemsAppend
  <2>2. \A d \in Caller : result'[d] = result[d]
    BY <1>1, <1>4 DEF FailAll
  <2>3. Waiting'
    BY <1>1, <1>2, <1>3, <2>1, <2>2 DEF Awaited, Waiting, Responders
  <2>4. Sorted'
    BY <1>1, <1>3, <2>1, MappedTypes DEF Awaited, Sorted
  <2>5. UNCHANGED <<peer_sent, [d \in Call |-> result[d]]>>
    BY <1>1, <2>2, MappedTypes
  <2>6. c \in Call => Calls!Ask(c)
    BY <1>1, <2>5 DEF Calls!Ask
  <2>7. c \notin Call => UNCHANGED Seen
    BY <1>1, <2>5 DEF Seen
  <2> QED
    BY <2>3, <2>4, <2>6, <2>7 DEF Awaited, Calls!CallsNext
<1>5. CASE MgrEnded
  <2>1. UNCHANGED cmd_q
    BY <1>1, <1>5
  <2>2. \A d \in Caller : result'[d] = IF d = c THEN Failed ELSE result[d]
    BY <1>1, <1>5 DEF FailAll
  <2>3. Waiting'
    BY <1>1, <1>2, <1>3, <2>1, <2>2 DEF Awaited, Waiting, Responders
  <2>4. Sorted'
    BY <1>1, <1>3, <2>1, MappedTypes DEF Awaited, Sorted
  <2>5. [d \in Call |-> result[d]]' = [[d \in Call |-> result[d]] EXCEPT ![c] = Failed]
    BY <2>2, MappedTypes
  <2>6. c \in Call => Calls!AskFailing(c)
    BY <1>1, <2>5 DEF Calls!AskFailing
  <2>7. c \notin Call => UNCHANGED Seen
    BY <1>1, <2>2, MappedTypes DEF Seen
  <2> QED
    BY <2>3, <2>4, <2>6, <2>7 DEF Awaited, Calls!CallsNext
<1> QED
  BY <1>4, <1>5

\* The peer answers what it was asked.
LEMMA CallsPeer ==
    ASSUME TypeOK, EchoInv, Awaited, NEW m \in Inbound \cup {CloseFrame}, PeerSend(m),
           m \in Call => m \in peer_got, UNCHANGED appVars
    PROVE  Awaited' /\ [Calls!CallsNext]_Seen
<1>1. /\ UNCHANGED <<issued, echo, map, result, cmd_q, cmd_tasks>>
      /\ peer_sent' = peer_sent \cup {m} /\ m \notin peer_sent
  BY DEF PeerSend, appVars
<1>2. m \in Call => m \in issued
  BY DEF EchoInv, Once, OnceRequest
<1>3. m \in Call => Calls!Serve(m)
  BY <1>1, <1>2 DEF Calls!Serve
<1>4. m \notin Call => UNCHANGED Seen
  BY <1>1 DEF Seen
<1> QED
  BY <1>1, <1>3, <1>4, AwaitedStable DEF Calls!CallsNext

\* Responders that are dropped where only they are: their callers fail.
LEMMA CallsFail ==
    ASSUME TypeOK, Awaited, NEW S, S \subseteq Responders, FailAll(S),
           UNCHANGED <<issued, echo, peer_sent>>,
           Responders' \subseteq Responders \ S,
           Items(cmd_q)' \cup cmd_tasks' \subseteq Items(cmd_q) \cup cmd_tasks,
           \A e \in Echo : map'[e] # None => map'[e] = map[e]
    PROVE  Awaited' /\ [Calls!CallsNext]_Seen
<1>1. \A c \in Caller : result'[c] = IF c \in S THEN Failed ELSE result[c]
  BY DEF FailAll
<1>2. Awaited'
  BY <1>1 DEF Awaited, Waiting, Sorted
<1>3. CASE S \cap Call = {}
  <2>1. [d \in Call |-> result[d]]' = [d \in Call |-> result[d]]
    BY <1>1, <1>3, MappedTypes
  <2> QED
    BY <1>2, <2>1 DEF Seen
<1>4. CASE S \cap Call # {}
  <2>1. \A c \in S \cap Call : c \in issued \cap Call /\ [d \in Call |-> result[d]][c] = None
    BY MappedTypes DEF Awaited, Waiting
  <2>2. [d \in Call |-> result[d]]' = [d \in Call |-> IF d \in S \cap Call THEN Failed
                                                   ELSE [x \in Call |-> result[x]][d]]
    BY <1>1, MappedTypes
  <2>3. Calls!Fail(S \cap Call)
    BY <1>4, <2>1, <2>2 DEF Calls!Fail
  <2> QED
    BY <1>2, <2>3 DEF Calls!CallsNext
<1> QED
  BY <1>2, <1>3, <1>4

\* The draw of an echo shows nothing.
LEMMA CallsGenerate ==
    ASSUME TypeOK, Awaited, NEW c \in Call, GenerateEcho(c)
    PROVE  Awaited' /\ UNCHANGED Seen
<1>1. /\ UNCHANGED <<issued, map, result, cmd_q, cmd_tasks, peer_sent>>
      /\ c \in cmd_tasks /\ \E e \in Echo : echo' = [echo EXCEPT ![c] = e]
  BY DEF GenerateEcho, taskVars, netVars
<1>2. \A d \in Call \ {c} : echo'[d] = echo[d]
  BY <1>1 DEF TypeOK
<1>3. Sorted'
  BY <1>1, <1>2, MappedTypes DEF Awaited, Sorted
<1>4. Waiting'
  BY <1>1 DEF Awaited, Waiting, Responders, Mapped
<1> QED
  BY <1>1, <1>3, <1>4 DEF Awaited, Seen

\* The insertion moves the responder from the handler to the map.
LEMMA CallsRequest ==
    ASSUME TypeOK, EchoInv, Awaited, NEW c \in Call, SendRequest(c)
    PROVE  Awaited' /\ UNCHANGED Seen
<1>1. /\ UNCHANGED <<issued, echo, cmd_q, peer_sent>>
      /\ c \in cmd_tasks /\ cmd_tasks' = cmd_tasks \ {c}
      /\ map' = [map EXCEPT ![echo[c]] = c]
      /\ FailAll({map[echo[c]]})
  BY DEF SendRequest, EndCmdSending, netVars
<1>2. map[echo[c]] = None /\ echo[c] \in Echo /\ c \notin Items(cmd_q)
  BY <1>1 DEF SendRequest, EchoInv, Fresh, Drawn, TypeOK, Once, OnceCmd
<1>3. map'[echo[c]] = c /\ \A e \in Echo \ {echo[c]} : map'[e] = map[e]
  BY <1>1, <1>2 DEF TypeOK
<1>4. \A d \in Caller : result'[d] = result[d]
  BY <1>1, <1>2, MappedTypes DEF FailAll
<1>5. Responders' \subseteq Responders
  BY <1>1, <1>3 DEF Responders, Mapped
<1>6. Waiting'
  BY <1>1, <1>4, <1>5 DEF Awaited, Waiting
<1>7. Sorted'
  BY <1>1, <1>2, <1>3 DEF Awaited, Sorted
<1>8. [d \in Call |-> result[d]]' = [d \in Call |-> result[d]]
  BY <1>4, MappedTypes
<1> QED
  BY <1>1, <1>6, <1>7, <1>8 DEF Awaited, Seen

\* The response answers the caller it is for, who has no answer yet.
LEMMA CallsResponse ==
    ASSUME TypeOK, EchoInv, Awaited, NEW c \in Call, HandleResponse(c)
    PROVE  Awaited' /\ [Calls!CallsNext]_Seen
<1>1. /\ UNCHANGED <<issued, echo, cmd_q, cmd_tasks, peer_sent>>
      /\ c \in recv_tasks
      /\ map' = [map EXCEPT ![echo[c]] = None]
      /\ result' = [d \in Caller |-> IF d = map[echo[c]] THEN c ELSE result[d]]
  BY DEF HandleResponse, EndRecv, netVars
<1>2. echo[c] \in Echo /\ map[echo[c]] = c /\ c \in peer_sent
  BY <1>1 DEF EchoInv, Led, InFlight, Released, Once, OnceResponse
<1>3. map'[echo[c]] = None /\ \A e \in Echo \ {echo[c]} : map'[e] = map[e]
  BY <1>1, <1>2 DEF TypeOK
<1>4. c \in Responders /\ c \in Caller /\ c # None
  BY <1>2, MappedTypes DEF Responders, Mapped
<1>5. Responders' \subseteq Responders \ {c}
  <2>1. c \notin Items(cmd_q) \cup cmd_tasks
    BY <1>2, <1>4 DEF Awaited, Sorted
  <2>2. \A e \in Echo : map'[e] # None => map'[e] = map[e] /\ map[e] # c
    BY <1>2, <1>3 DEF Awaited, Sorted
  <2>3. Mapped' \subseteq Mapped \ {c}
    BY <2>2 DEF Mapped
  <2> QED
    BY <1>1, <2>1, <2>3 DEF Responders
<1>6. \A d \in Caller : result'[d] = IF d = c THEN c ELSE result[d]
  BY <1>1, <1>2
<1>7. Waiting'
  BY <1>1, <1>4, <1>5, <1>6 DEF Awaited, Waiting
<1>8. Sorted'
  BY <1>1, <1>3 DEF Awaited, Sorted
<1>9. result[c] = None
  BY <1>4 DEF Awaited, Waiting
<1>10. [d \in Call |-> result[d]]' = [[d \in Call |-> result[d]] EXCEPT ![c] = c]
  BY <1>6, MappedTypes
<1>11. Calls!Answer(c)
  BY <1>1, <1>2, <1>9, <1>10 DEF Calls!Answer
<1> QED
  BY <1>7, <1>8, <1>11 DEF Awaited, Calls!CallsNext

\* Config calls are answered without the peer, and are not calls of ActionCalls.
LEMMA CallsConfig ==
    ASSUME TypeOK, EchoInv, Awaited, NEW c \in Config, HandleConfig(c)
    PROVE  Awaited' /\ UNCHANGED Seen
<1>1. /\ UNCHANGED <<issued, echo, map, cmd_q, peer_sent>>
      /\ c \in cmd_tasks /\ cmd_tasks' = cmd_tasks \ {c}
      /\ result' = [result EXCEPT ![c] = c]
  BY DEF HandleConfig, EndCmd, netVars
<1>2. c \in Caller /\ c \notin Call
  BY MappedTypes DEF Caller
<1>3. \A d \in Caller \ {c} : result'[d] = result[d]
  BY <1>1 DEF TypeOK
<1>4. c \in issued /\ c \notin Responders'
  BY <1>1, <1>2, MappedTypes DEF EchoInv, Once, OnceCmd, Responders, Mapped
<1>5. Responders' \subseteq Responders
  BY <1>1 DEF Responders, Mapped
<1>6. Waiting'
  BY <1>1, <1>3, <1>4, <1>5 DEF Awaited, Waiting
<1>7. Sorted'
  BY <1>1 DEF Awaited, Sorted
<1>8. [d \in Call |-> result[d]]' = [d \in Call |-> result[d]]
  BY <1>2, <1>3, MappedTypes
<1> QED
  BY <1>1, <1>6, <1>7, <1>8 DEF Awaited, Seen

LEMMA CallsStep ==
    ASSUME TypeOK, EchoInv, Awaited, [Next]_vars
    PROVE  Awaited' /\ [Calls!CallsNext]_Seen
<1> USE AppAssumption, OnceTypes, MappedTypes
<1>1. CASE UNCHANGED vars
  BY <1>1, AwaitedStable
     DEF vars, taskVars, appVars, mgrVars, netVars, Items, Seen
<1>2. ASSUME NEW c \in Cmd, CmdHandler(c)
      PROVE  Awaited' /\ [Calls!CallsNext]_Seen
  <2>1. ASSUME c \in Closer, HandleClose(c)
        PROVE  Awaited' /\ UNCHANGED Seen
    <3>1. /\ UNCHANGED <<issued, echo, map, result, cmd_q, peer_sent>>
          /\ cmd_tasks' \subseteq cmd_tasks
      BY <2>1 DEF HandleClose, EndCmdClosing, appVars, netVars
    <3> QED
      BY <3>1, AwaitedStable DEF Seen
  <2> QED
    BY <1>2, <2>1, CallsGenerate, CallsRequest, CallsConfig DEF CmdHandler
<1>3. ASSUME NEW c \in Call, SerializeFails(c)
      PROVE  Awaited' /\ [Calls!CallsNext]_Seen
  <2>1. /\ UNCHANGED <<issued, echo, map, cmd_q, peer_sent>> /\ FailAll({c})
        /\ c \in cmd_tasks /\ cmd_tasks' = cmd_tasks \ {c}
    BY <1>3 DEF SerializeFails, EndCmd, netVars
  <2>2. c \notin Items(cmd_q) /\ c \notin Mapped
    BY <2>1 DEF EchoInv, Once, OnceCmd, Awaited, Sorted, Mapped
  <2>3. Responders' \subseteq Responders \ {c} /\ {c} \subseteq Responders
    BY <2>1, <2>2 DEF Responders, Mapped
  <2> QED
    BY <2>1, <2>3, CallsFail
<1>4. ASSUME NEW m \in Inbound, RecvHandler(m)
      PROVE  Awaited' /\ [Calls!CallsNext]_Seen
  <2>1. CASE HandleEvent(m) \/ HandleGarbage(m)
    <3>1. UNCHANGED <<issued, echo, map, result, cmd_q, cmd_tasks, peer_sent>>
      BY <2>1 DEF HandleEvent, HandleGarbage, EndRecv, appVars, netVars
    <3> QED
      BY <3>1, AwaitedStable DEF Seen
  <2> QED
    BY <1>4, <2>1, CallsResponse DEF RecvHandler
<1>5. CASE FinishApp
  <2>1. /\ UNCHANGED <<issued, echo, map, cmd_tasks, peer_sent>> /\ FailAll(Items(cmd_q))
        /\ cmd_q' = << >>
    BY <1>5 DEF FinishApp, Finish, netVars
  <2>2. Items(cmd_q)' = {}
    BY <2>1, ItemsEmpty
  <2>3. Items(cmd_q) \cap (cmd_tasks \cup Mapped) = {}
    BY DEF EchoInv, Once, OnceCmd, Awaited, Sorted, Mapped
  <2>4. Responders' \subseteq Responders \ Items(cmd_q) /\ Items(cmd_q) \subseteq Responders
    BY <2>1, <2>2, <2>3 DEF Responders, Mapped
  <2> QED
    BY <2>1, <2>2, <2>4, CallsFail
<1>6. CASE ReleaseMap
  <2>1. /\ UNCHANGED <<issued, echo, cmd_q, cmd_tasks, peer_sent>> /\ FailAll(Mapped)
        /\ map' = [e \in Echo |-> None]
    BY <1>6 DEF ReleaseMap, taskVars, netVars
  <2>2. Mapped \cap (Items(cmd_q) \cup cmd_tasks) = {}
    BY DEF Awaited, Sorted, Mapped
  <2>3. Mapped' = {} /\ UNCHANGED Items(cmd_q)
    BY <2>1 DEF Mapped, Items
  <2>4. Responders' \subseteq Responders \ Mapped /\ Mapped \subseteq Responders
    BY <2>1, <2>2, <2>3 DEF Responders
  <2> QED
    BY <2>1, <2>3, <2>4, CallsFail
<1>7. CASE ManageApp /\ ~FinishApp
  <2>1. Manage /\ ~Finish /\ UNCHANGED appVars
    BY <1>7 DEF ManageApp, Manage, Check, TakeCmd, TakeFrame, TakeClose, TakeElse, StopSend,
                SendStopped, StopRecv, RecvStopped, Finish
  <2> QED
    BY <2>1, AwaitedConnection
<1>8. CASE SendTaskApp \/ RecvTaskApp \/ DropClients \/ LoseLink
  BY <1>8, AwaitedConnection DEF SendTaskApp, RecvTaskApp, DropClients, LoseLink
<1>9. ASSUME NEW m \in Inbound \cup {CloseFrame}, PeerSend(m), m \in Call => m \in peer_got,
             UNCHANGED appVars
      PROVE  Awaited' /\ [Calls!CallsNext]_Seen
  BY <1>9, CallsPeer
<1> QED
  BY <1>1, <1>2, <1>3, <1>4, <1>5, <1>6, <1>7, <1>8, <1>9, CallsIssue
     DEF Next, PeerRespond, PeerMessage

(***************************************************************************)
(* Where handler tasks share one thread the connection implements the      *)
(* abstract calls: an action is answered at most once, after the peer      *)
(* responded to that very action, or it fails, and never both.             *)
(***************************************************************************)
THEOREM CallsTheorem == ~Parallel /\ Spec => ImplementsCalls
<1>1. Init => EchoInv
  BY EchoInit
<1>2. Init => Awaited /\ Calls!CallsInit
  BY AwaitedInit, AppAssumption DEF Init, TaskInit, Calls!CallsInit, Caller
<1>3. TypeOK /\ EchoInv /\ Awaited /\ [Next]_vars
      => Awaited' /\ [Calls!CallsNext]_Calls!callVars
  BY CallsStep DEF Seen, Calls!callVars
<1>4. CASE Parallel
  BY <1>4
<1>5. CASE ~Parallel
  <2>1. TypeOK /\ EchoInv /\ [Next]_vars => EchoInv'
    BY <1>5, EchoStep
  <2> QED
    BY <1>1, <1>2, <1>3, <2>1, Typing, PTL DEF Spec, ImplementsCalls, Calls!CallsSpec
<1> QED
  BY <1>4, <1>5
-----------------------------------------------------------------------------
(***************************************************************************)
(* CompatWS: the same connection with another handler.  Its steps are      *)
(* AppWS's, a query being one more call, but for three: an action that is  *)
(* answered or fails while it is converted, and the response whose data is *)
(* converted.  The lemmas above cover the rest.                            *)
(***************************************************************************)

Convert == \/ \E c \in Call \ Drawn : ConvertFails(c) \/ RespondLocally(c)
           \/ \E c \in Call : CompatResponse(c)

LEMMA CompatStep == [CompatNext]_vars => [Next]_vars \/ Convert
<1> SUFFICES ASSUME CompatNext
             PROVE  Next \/ Convert
  OBVIOUS
<1> USE AppAssumption, CompatAssumption DEF Next, Convert
<1>1. ASSUME NEW c \in Cmd, IssueUser(c) \/ CompatCmd(c)
      PROVE  Next \/ Convert
  BY <1>1 DEF IssueUser, CompatCmd
<1>2. ASSUME NEW m \in Inbound, CompatRecv(m)
      PROVE  Next \/ Convert
  <2>1. ASSUME m \in Reply, AskMessage(m)
        PROVE  Next
    <3>1. QueryOf[m] \in Cmd /\ Issue(QueryOf[m])
      BY <2>1 DEF AskMessage
    <3> QED
      BY <3>1
  <2>2. ASSUME m \in Event, DeliverEvent(m) \/ DropEvent(m)
        PROVE  RecvHandler(m)
    BY <2>2 DEF DeliverEvent, DropEvent, RecvHandler
  <2> QED
    BY <1>2, <2>1, <2>2 DEF CompatRecv
<1> QED
  BY <1>1, <1>2 DEF CompatNext

\* What the steps of CompatWS's own do to the tasks.
LEMMA ConvertTask == Convert => TaskNext
BY AppAssumption DEF Convert, ConvertFails, RespondLocally, CompatResponse, TaskNext, Handle

(***************************************************************************)
(* The OneBot 11 connection implements the connection with any handler,    *)
(* although its handlers call the connection they run on.                  *)
(***************************************************************************)
THEOREM CompatIsTask == CompatSpec => TaskSpec
<1>1. Init => TaskInit
  BY DEF Init
<1> QED
  BY <1>1, CompatStep, ConvertTask, AppStep, PTL DEF CompatSpec, TaskSpec

(***************************************************************************)
(* After the application was told that its OneBot 11 connection is closed, *)
(* nothing more is written to the peer and no handler starts: a query that *)
(* a handler makes then is not sent.                                       *)
(***************************************************************************)
THEOREM CompatQuiet == CompatSpec => QuietOnceClosed
BY CompatIsTask, QuietTheorem, PTL

LEMMA ConvertTypes == TypeOK /\ Convert => AppTypeOK'
<1> SUFFICES ASSUME TypeOK, Convert
             PROVE  AppTypeOK'
  OBVIOUS
<1> USE AppAssumption DEF TypeOK, AppTypeOK, FailAll, Caller
<1>1. ASSUME NEW c \in Call, ConvertFails(c) \/ RespondLocally(c)
      PROVE  AppTypeOK'
  BY <1>1 DEF ConvertFails, RespondLocally
<1>2. ASSUME NEW c \in Call, CompatResponse(c)
      PROVE  AppTypeOK'
  <2>1. PICK o \in {c, Failed} :
          result' = [d \in Caller |-> IF d = map[echo[c]] THEN o ELSE result[d]]
    BY <1>2 DEF CompatResponse, ConvertRespData
  <2>2. o \in Caller \cup {Failed, None}
    BY <2>1
  <2>3. result' \in [Caller -> Caller \cup {Failed, None}]
    BY <2>1, <2>2
  <2> QED
    BY <1>2, <2>3 DEF CompatResponse
<1> QED
  BY <1>1, <1>2 DEF Convert

(***************************************************************************)
(* Every variable of the OneBot 11 connection keeps its type.              *)
(***************************************************************************)
THEOREM CompatTyping == CompatSpec => []TypeOK
<1>1. Init => AppTypeOK
  BY DEF Init, AppTypeOK, Caller
<1>2. TypeOK <=> TaskTypeOK /\ AppTypeOK
  BY DEF TypeOK, AppTypeOK
<1>3. TaskTypeOK /\ AppTypeOK /\ [CompatNext]_vars => AppTypeOK'
  BY <1>2, CompatStep, AppTypeStep, ConvertTypes
<1>4. TaskInv => TaskTypeOK
  BY DEF TaskInv
<1>5. TaskTypeOK /\ AppTypeOK => TypeOK
  BY <1>2
<1> QED
  BY <1>1, <1>3, <1>4, <1>5, CompatIsTask, TaskInvariant, PTL DEF CompatSpec

LEMMA ConvertHeld ==
    ASSUME TypeOK, WaitingIsHeld, Convert
    PROVE  WaitingIsHeld'
<1> USE AppAssumption DEF WaitingIsHeld, Caller, Mapped
<1>t. /\ cmd_tasks \subseteq Cmd
      /\ map \in [Echo -> Call \cup {None}]
      /\ result \in [Caller -> Caller \cup {Failed, None}]
  BY DEF TypeOK, TaskTypeOK
<1>1. ASSUME NEW c \in Call, ConvertFails(c) \/ RespondLocally(c)
      PROVE  WaitingIsHeld'
  BY <1>1, <1>t DEF ConvertFails, RespondLocally, EndCmd, FailAll, Items
<1>2. ASSUME NEW c \in Call, CompatResponse(c)
      PROVE  WaitingIsHeld'
  <2>1. UNCHANGED <<issued, cmd_q, cmd_tasks>> /\ map' = [map EXCEPT ![echo[c]] = None]
    BY <1>2 DEF CompatResponse, EndRecv
  <2>2. \E o \in {c, Failed} :
          result' = [d \in Caller |-> IF d = map[echo[c]] THEN o ELSE result[d]]
    BY <1>2 DEF CompatResponse, ConvertRespData
  <2>3. c # None /\ Failed # None
    OBVIOUS
  <2>4. \A d \in Caller : result'[d] = None => result[d] = None /\ d # map[echo[c]]
    BY <2>2, <2>3, <1>t
  <2>5. Mapped \ {map[echo[c]]} \subseteq Mapped'
    BY <2>1, <1>t
  <2> QED
    BY <2>1, <2>4, <2>5 DEF Items
<1> QED
  BY <1>1, <1>2 DEF Convert

(***************************************************************************)
(* A caller of the OneBot 11 connection that waits, a handler's query      *)
(* included, can still be answered or failed, whatever does not convert.   *)
(***************************************************************************)
THEOREM CompatHeld == CompatSpec => []WaitingIsHeld
<1>1. Init => WaitingIsHeld
  BY DEF Init, WaitingIsHeld
<1>2. TypeOK /\ WaitingIsHeld /\ [CompatNext]_vars => WaitingIsHeld'
  BY CompatStep, HeldStep, ConvertHeld
<1> QED
  BY <1>1, <1>2, CompatTyping, PTL DEF CompatSpec

(***************************************************************************)
(* The application hears of the end of its OneBot 11 connection once,      *)
(* after both socket tasks have ended.                                     *)
(***************************************************************************)
THEOREM CompatNotice == CompatSpec => []NoticeMeansStopped
<1>1. Init => NoticeMeansStopped
  BY DEF Init, NoticeMeansStopped
<1>2. ASSUME TypeOK, TaskInv, NoticeMeansStopped, Convert
      PROVE  NoticeMeansStopped'
  BY <1>2 DEF Convert, ConvertFails, RespondLocally, CompatResponse, EndCmd, EndRecv,
              mgrVars, sendVars, recvVars, NoticeMeansStopped
<1>3. TypeOK /\ TaskInv /\ NoticeMeansStopped /\ [CompatNext]_vars => NoticeMeansStopped'
  BY <1>2, CompatStep, NoticeStep
<1> QED
  BY <1>1, <1>3, CompatTyping, CompatIsTask, TaskInvariant, PTL DEF CompatSpec

-----------------------------------------------------------------------------
(***************************************************************************)
(* Where handler tasks share one thread: what was proved of AppWS's echoes *)
(* (EchoInv) and responders (Awaited) survives CompatWS's own steps.       *)
(***************************************************************************)

LEMMA ConvertEcho ==
    ASSUME TypeOK, EchoInv, Convert
    PROVE  EchoInv'
<1> USE AppAssumption
<1>1. ASSUME NEW c \in Call, ConvertFails(c) \/ RespondLocally(c)
      PROVE  EchoInv'
  <2>1. EndCmd(c) /\ UNCHANGED <<issued, echo, map>> /\ c \in Cmd
    BY <1>1 DEF ConvertFails, RespondLocally
  <2>2. Correlated'
    BY <1>1 DEF ConvertFails, RespondLocally, FailAll, EchoInv, Correlated, TypeOK, Caller
  <2> QED
    BY <2>1, <2>2, EchoOther
<1>2. ASSUME NEW c \in Call, CompatResponse(c)
      PROVE  EchoInv'
  <2>1. PICK o \in {c, Failed} :
          result' = [d \in Caller |-> IF d = map[echo[c]] THEN o ELSE result[d]]
    BY <1>2 DEF CompatResponse, ConvertRespData
  <2>2. /\ EndRecv(c) /\ UNCHANGED <<issued, echo>>
        /\ map' = [map EXCEPT ![echo[c]] = None]
    BY <1>2 DEF CompatResponse
  <2> QED
    BY <2>1, <2>2, EchoTaken
<1> QED
  BY <1>1, <1>2 DEF Convert

\* What a caller got it keeps.
Kept == \A c \in Call : result[c] # None => result'[c] = result[c]

\* One caller's responder is used up, and nobody else's result changes.
LEMMA AwaitedUsed ==
    ASSUME TypeOK, Awaited, NEW c \in Caller \cap Responders,
           UNCHANGED <<issued, echo>>,
           Responders' \subseteq Responders \ {c},
           Items(cmd_q)' \cup cmd_tasks' \subseteq Items(cmd_q) \cup cmd_tasks,
           \A e \in Echo : map'[e] # None => map'[e] = map[e],
           \A d \in Caller \ {c} : result'[d] = result[d]
    PROVE  Awaited' /\ Kept
<1>1. c \in issued /\ result[c] = None
  BY DEF Awaited, Waiting
<1>2. Waiting'
  BY <1>1 DEF Awaited, Waiting
<1>3. Sorted'
  BY DEF Awaited, Sorted
<1> QED
  BY <1>1, <1>2, <1>3, MappedTypes DEF Awaited, Kept

LEMMA ConvertAwaited ==
    ASSUME TypeOK, EchoInv, Awaited, Convert
    PROVE  Awaited' /\ Kept
<1> USE MappedTypes
<1>1. ASSUME NEW c \in Call, ConvertFails(c) \/ RespondLocally(c)
      PROVE  Awaited' /\ Kept
  <2>1. /\ UNCHANGED <<issued, echo, map, cmd_q>>
        /\ c \in cmd_tasks /\ cmd_tasks' = cmd_tasks \ {c}
    BY <1>1 DEF ConvertFails, RespondLocally, EndCmd
  <2>2. c \notin Items(cmd_q) /\ c \notin Mapped
    BY <2>1 DEF EchoInv, Once, OnceCmd, Awaited, Sorted, Mapped
  <2>3. c \in Responders /\ Responders' \subseteq Responders \ {c}
    BY <2>1, <2>2 DEF Responders, Mapped
  <2>4. \A d \in Caller \ {c} : result'[d] = result[d]
    BY <1>1 DEF ConvertFails, RespondLocally, FailAll, TypeOK
  <2> QED
    BY <2>1, <2>3, <2>4, AwaitedUsed
<1>2. ASSUME NEW c \in Call, CompatResponse(c)
      PROVE  Awaited' /\ Kept
  <2>1. /\ UNCHANGED <<issued, echo, cmd_q, cmd_tasks>> /\ c \in recv_tasks
        /\ map' = [map EXCEPT ![echo[c]] = None]
        /\ \E o : result' = [d \in Caller |-> IF d = map[echo[c]] THEN o ELSE result[d]]
    BY <1>2 DEF CompatResponse, EndRecv
  <2>2. echo[c] \in Echo /\ map[echo[c]] = c
    BY <2>1 DEF EchoInv, Led, InFlight, Released
  <2>3. map'[echo[c]] = None /\ \A e \in Echo \ {echo[c]} : map'[e] = map[e]
    BY <2>1, <2>2 DEF TypeOK
  <2>4. c \in Responders /\ c \notin Items(cmd_q) \cup cmd_tasks
    BY <2>2 DEF Responders, Mapped, Awaited, Sorted
  <2>5. \A e \in Echo : map'[e] # None => map'[e] = map[e] /\ map[e] # c
    BY <2>2, <2>3 DEF Awaited, Sorted
  <2>6. Mapped' \subseteq Mapped \ {c}
    BY <2>5 DEF Mapped
  <2>7. Responders' \subseteq Responders \ {c}
    BY <2>1, <2>4, <2>6 DEF Responders
  <2>8. \A d \in Caller \ {c} : result'[d] = result[d]
    BY <2>1, <2>2
  <2> QED
    BY <2>1, <2>4, <2>5, <2>7, <2>8, AwaitedUsed
<1> QED
  BY <1>1, <1>2 DEF Convert

\* The abstract calls keep results, and so does AppWS.
LEMMA CallsKept ==
    ASSUME TypeOK, EchoInv, Awaited, [Next]_vars
    PROVE  Awaited' /\ Kept
<1>1. Awaited' /\ [Calls!CallsNext]_Seen
  BY CallsStep
<1> DEFINE outcome == [c \in Call |-> result[c]]
<1>2. \A c \in Call \ issued : result[c] = None
  BY MappedTypes DEF Awaited, Waiting
<1>3. ASSUME NEW c \in Call, result[c] # None
      PROVE  outcome'[c] = outcome[c]
  <2>1. CASE UNCHANGED Seen
    BY <2>1 DEF Seen
  <2>2. ASSUME NEW d \in Call, Calls!Ask(d) \/ Calls!Serve(d)
        PROVE  outcome'[c] = outcome[c]
    BY <2>2 DEF Calls!Ask, Calls!Serve
  <2>3. ASSUME NEW d \in Call, Calls!AskFailing(d)
        PROVE  outcome'[c] = outcome[c]
    <3>1. d # c /\ outcome' = [outcome EXCEPT ![d] = Failed]
      BY <1>2, <1>3, <2>3 DEF Calls!AskFailing
    <3> QED
      BY <3>1
  <2>4. ASSUME NEW d \in Call, Calls!Answer(d)
        PROVE  outcome'[c] = outcome[c]
    <3>1. d # c /\ outcome' = [outcome EXCEPT ![d] = d]
      BY <1>3, <2>4 DEF Calls!Answer
    <3> QED
      BY <3>1
  <2>5. ASSUME NEW S \in SUBSET Call, Calls!Fail(S)
        PROVE  outcome'[c] = outcome[c]
    <3>1. c \notin S /\ outcome' = [d \in Call |-> IF d \in S THEN Failed ELSE outcome[d]]
      BY <1>3, <2>5 DEF Calls!Fail
    <3> QED
      BY <3>1
  <2> QED
    BY <1>1, <2>1, <2>2, <2>3, <2>4, <2>5 DEF Calls!CallsNext
<1> QED
  BY <1>1, <1>3 DEF Kept

LEMMA CompatSerial ==
    ASSUME ~Parallel
    PROVE  CompatSpec => []EchoInv /\ []Awaited /\ [][Kept]_vars
<1>1. Init => EchoInv /\ Awaited
  BY EchoInit, AwaitedInit
<1>2. TypeOK /\ EchoInv /\ [CompatNext]_vars => EchoInv'
  BY CompatStep, EchoStep, ConvertEcho
<1>3. TypeOK /\ EchoInv /\ Awaited /\ [CompatNext]_vars => Awaited' /\ Kept
  BY CompatStep, CallsKept, ConvertAwaited
<1> QED
  BY <1>1, <1>2, <1>3, CompatTyping, PTL DEF CompatSpec

(***************************************************************************)
(* Over OneBot 11 too, where handler tasks share one thread, a caller - a  *)
(* user or a handler with its query - never gets the response to another   *)
(* call.                                                                   *)
(***************************************************************************)
THEOREM CompatCorrelated == ~Parallel /\ CompatSpec => []Correlated
<1>1. EchoInv => Correlated
  BY DEF EchoInv
<1>2. CASE Parallel
  BY <1>2
<1>3. CASE ~Parallel
  <2>1. CompatSpec => []EchoInv
    BY <1>3, CompatSerial, PTL
  <2> QED
    BY <1>1, <2>1, PTL
<1> QED
  BY <1>2, <1>3

-----------------------------------------------------------------------------
\* A reply the application has comes with the message it replies to: the answer
\* to its own handler's query, not a failure and not another call's.
MessageFound == \A m \in Reply : m \in Items(msg_q) => result[QueryOf[m]] = QueryOf[m]

\* What reaches the application: the notice, or an event its handler delivers.
LEMMA Delivered ==
    ASSUME TypeOK, [CompatNext]_vars
    PROVE  \A m \in Reply : m \in Items(msg_q)' => m \in Items(msg_q) \/ DeliverEvent(m)
<1> USE AppAssumption, CompatAssumption
<1>t. msg_q \in Seq(Event \cup {Notice})
  BY DEF TypeOK
<1>a. UNCHANGED msg_q => Items(msg_q)' = Items(msg_q)
  BY DEF Items
<1>1. ASSUME NEW c \in Cmd, IssueUser(c) \/ CompatCmd(c)
      PROVE  UNCHANGED msg_q
  BY <1>1 DEF IssueUser, Issue, CompatCmd, CmdHandler, GenerateEcho, SendRequest, HandleConfig,
              HandleClose, ConvertFails, RespondLocally, SerializeFails, appVars
<1>2. ASSUME NEW m \in Inbound, CompatRecv(m)
      PROVE  \/ UNCHANGED msg_q
             \/ DeliverEvent(m) /\ Items(msg_q)' = Items(msg_q) \cup {m}
  <2>1. CASE DeliverEvent(m)
    BY <1>t, <2>1, ItemsAppend DEF DeliverEvent, HandleEvent
  <2>2. CASE CompatResponse(m) \/ AskMessage(m) \/ DropEvent(m)
    BY <2>2 DEF CompatResponse, AskMessage, Issue, DropEvent, HandleGarbage, appVars
  <2> QED
    BY <1>2, <2>1, <2>2 DEF CompatRecv
<1>3. CASE FinishApp
  <2>1. Items(msg_q)' = Items(msg_q) \cup {Notice}
    BY <1>t, <1>3, ItemsAppend DEF FinishApp
  <2> QED
    BY <2>1
<1>4. CASE \/ UNCHANGED vars \/ LoseLink \/ ReleaseMap \/ SendTaskApp \/ RecvTaskApp
           \/ ManageApp /\ ~FinishApp
           \/ \E c \in Call : PeerRespond(c)
           \/ \E m \in Event \cup {CloseFrame} : PeerMessage(m)
  BY <1>4, <1>a DEF vars, LoseLink, ReleaseMap, SendTaskApp, RecvTaskApp, ManageApp,
                    PeerRespond, PeerMessage, appVars
<1> QED
  BY <1>a, <1>1, <1>2, <1>3, <1>4 DEF CompatNext

(***************************************************************************)
(* Where handler tasks share one thread, a reply event reaches the         *)
(* application only with the message it replies to, although its handler   *)
(* waited for that answer among all the other calls, responses and         *)
(* conversions.                                                            *)
(***************************************************************************)
THEOREM MessageTheorem == ~Parallel /\ CompatSpec => []MessageFound
<1>1. Init => MessageFound
  BY ItemsEmpty DEF Init, MessageFound
<1>2. ASSUME TypeOK, EchoInv, MessageFound, Kept, [CompatNext]_vars
      PROVE  MessageFound'
  <2> SUFFICES ASSUME NEW m \in Reply, m \in Items(msg_q)'
               PROVE  result'[QueryOf[m]] = QueryOf[m]
    BY DEF MessageFound
  <2>1. QueryOf[m] \in Call /\ QueryOf[m] # None
    BY CompatAssumption, AppAssumption
  <2>2. m \in Items(msg_q) \/ DeliverEvent(m)
    BY <1>2, Delivered
  <2>3. result[QueryOf[m]] = QueryOf[m]
    BY <1>2, <2>1, <2>2 DEF MessageFound, DeliverEvent, Asked, EchoInv, Correlated
  <2> QED
    BY <1>2, <2>1, <2>3 DEF Kept
<1>3. TypeOK /\ EchoInv /\ MessageFound /\ Kept /\ [CompatNext]_vars => MessageFound'
  BY <1>2
<1>4. CASE Parallel
  BY <1>4
<1>5. CASE ~Parallel
  <2>1. CompatSpec => []EchoInv /\ [][Kept]_vars
    BY <1>5, CompatSerial, PTL
  <2>2. UNCHANGED vars => Kept
    BY DEF vars, appVars, Kept
  <2> QED
    BY <1>1, <1>3, <2>1, <2>2, CompatTyping, PTL DEF CompatSpec
<1> QED
  BY <1>4, <1>5

-----------------------------------------------------------------------------
(***************************************************************************)
(* The end of a connection.  That the end comes is liveness, and left to   *)
(* TLC; what holds at the end is not.                                      *)
(***************************************************************************)

\* A manager that has returned left no command behind, and takes none.
Drained == MgrEnded => cmd_q = << >>

LEMMA DrainedStep == Drained /\ [TaskNext]_taskVars => Drained'
<1> SUFFICES ASSUME Drained, [TaskNext]_taskVars
             PROVE  Drained'
  OBVIOUS
<1> USE DEF Drained, MgrEnded
<1>1. CASE UNCHANGED taskVars
  BY <1>1 DEF taskVars, mgrVars
<1>2. CASE \/ \E c \in Cmd : SendCommand(c)
           \/ DropHandles
           \/ \E m \in Inbound \cup {CloseFrame} : PeerSend(m)
           \/ Disconnect
  BY <1>2 DEF SendCommand, DropHandles, PeerSend, Disconnect, mgrVars
<1>3. CASE SendTask \/ RecvTask
  BY <1>3 DEF SendTask, SendSignal, SendTake, SendDone, SendFail, SendElse,
              RecvTask, RecvSignal, RecvTake, RecvFail, RecvElse, mgrVars
<1>4. CASE Manage
  BY <1>4 DEF Manage, Check, TakeCmd, TakeFrame, TakeClose, TakeElse, StopSend, SendStopped,
              StopRecv, RecvStopped, Finish
<1>5. CASE Handle
  BY <1>5 DEF Handle, EndCmd, EndCmdClosing, EndCmdSending, EndRecv, mgrVars
<1> QED
  BY <1>1, <1>2, <1>3, <1>4, <1>5 DEF TaskNext

LEMMA DrainedInvariant == TaskSpec => []Drained
<1>1. TaskInit => Drained
  BY DEF TaskInit, Drained, MgrEnded
<1> QED
  BY <1>1, DrainedStep, PTL DEF TaskSpec

\* Where NoCallerLeftBehind leads: once the map is dropped nobody waits.
NobodyWaits == Released => \A c \in issued \cap Caller : result[c] # None

LEMMA HeldByNothing == Drained /\ WaitingIsHeld => NobodyWaits
BY ItemsEmpty DEF Drained, WaitingIsHeld, NobodyWaits, Released

(***************************************************************************)
(* When manager and handlers have ended and their map is dropped, every    *)
(* caller of the application's connection was answered or failed, those    *)
(* included that called after the end.                                     *)
(***************************************************************************)
THEOREM NobodyTheorem == Spec => []NobodyWaits
BY HeldByNothing, Held, AppIsTask, DrainedInvariant, PTL

(***************************************************************************)
(* And every caller of the OneBot 11 connection: only a handler that has   *)
(* not ended, and keeps the map, can leave callers waiting.                *)
(***************************************************************************)
THEOREM CompatNobody == CompatSpec => []NobodyWaits
BY HeldByNothing, CompatHeld, CompatIsTask, DrainedInvariant, PTL

=============================================================================
