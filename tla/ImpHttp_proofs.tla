--------------------------- MODULE ImpHttp_proofs ---------------------------
(***************************************************************************)
(* Proofs about ImpHttp, for any clients, events, echoes and limits.       *)
(***************************************************************************)
EXTENDS ImpHttp, SequenceTheorems, TLAPS

-----------------------------------------------------------------------------
(* Lemmas about sequences *)

LEMMA ItemsAppend ==
    ASSUME NEW S, NEW q \in Seq(S), NEW x \in S
    PROVE  Append(q, x) \in Seq(S) /\ Items(Append(q, x)) = Items(q) \cup {x}
<1>1. \A i \in DOMAIN Append(q, x) : Append(q, x)[i] \in Items(q) \cup {x}
  BY DEF Items
<1>2. Append(q, x)[Len(q) + 1] = x /\ Len(q) + 1 \in DOMAIN Append(q, x)
  OBVIOUS
<1>3. \A i \in DOMAIN q : i \in DOMAIN Append(q, x) /\ Append(q, x)[i] = q[i]
  OBVIOUS
<1>4. Items(Append(q, x)) = Items(q) \cup {x}
  BY <1>1, <1>2, <1>3, Zenon DEF Items
<1> QED
  BY <1>4

LEMMA ItemsTail ==
    ASSUME NEW S, NEW q \in Seq(S), q # << >>
    PROVE  /\ Items(q) = {Head(q)} \cup Items(Tail(q))
           /\ Head(q) \in S /\ Tail(q) \in Seq(S)
<1>1. Head(q) = q[1] /\ 1 \in DOMAIN q
  OBVIOUS
<1>2. \A i \in DOMAIN Tail(q) : i + 1 \in DOMAIN q /\ Tail(q)[i] = q[i + 1]
  OBVIOUS
<1>3. \A i \in DOMAIN q : i # 1 => i - 1 \in DOMAIN Tail(q) /\ Tail(q)[i - 1] = q[i]
  OBVIOUS
<1>4. Items(q) \subseteq {Head(q)} \cup Items(Tail(q))
  <2> SUFFICES ASSUME NEW i \in DOMAIN q
               PROVE  q[i] \in {Head(q)} \cup Items(Tail(q))
    BY Zenon DEF Items
  <2>1. CASE i = 1
    BY <1>1, <2>1
  <2>2. CASE i # 1
    BY <1>3, <2>2, Zenon DEF Items
  <2> QED
    BY <2>1, <2>2
<1>5. {Head(q)} \cup Items(Tail(q)) \subseteq Items(q)
  <2>1. Head(q) \in Items(q)
    BY <1>1, Zenon DEF Items
  <2>2. \A i \in DOMAIN Tail(q) : Tail(q)[i] \in Items(q)
    BY <1>2, Zenon DEF Items
  <2> QED
    BY <2>1, <2>2, Zenon DEF Items
<1> QED
  BY <1>1, <1>4, <1>5

Distinct(q) == \A i, j \in DOMAIN q : q[i] = q[j] => i = j

LEMMA DistinctAppend ==
    ASSUME NEW S, NEW q \in Seq(S), NEW x \in S, Distinct(q), x \notin Items(q)
    PROVE  Distinct(Append(q, x))
<1> DEFINE p == Append(q, x)
<1>1. /\ DOMAIN p = 1..(Len(q) + 1) /\ DOMAIN q = 1..Len(q) /\ Len(q) \in Nat
      /\ p[Len(q) + 1] = x
      /\ \A i \in DOMAIN q : p[i] = q[i]
  OBVIOUS
<1> HIDE DEF p
<1>2. \A i \in DOMAIN q : p[i] # x
  BY <1>1, Zenon DEF Items
<1> SUFFICES ASSUME NEW i \in DOMAIN p, NEW j \in DOMAIN p, p[i] = p[j]
             PROVE  i = j
  BY Zenon DEF Distinct, p
<1>3. CASE i \in DOMAIN q /\ j \in DOMAIN q
  BY <1>1, <1>3, Zenon DEF Distinct
<1>4. CASE i \notin DOMAIN q \/ j \notin DOMAIN q
  BY <1>1, <1>2, <1>4
<1> QED
  BY <1>3, <1>4

LEMMA DistinctTail ==
    ASSUME NEW S, NEW q \in Seq(S), q # << >>, Distinct(q)
    PROVE  Distinct(Tail(q)) /\ Head(q) \notin Items(Tail(q))
<1> DEFINE p == Tail(q)
<1>1. /\ Head(q) = q[1] /\ 1 \in DOMAIN q
      /\ \A i \in DOMAIN p : i \in Nat \ {0} /\ i + 1 \in DOMAIN q /\ p[i] = q[i + 1]
  OBVIOUS
<1> HIDE DEF p
<1>2. \A i, j \in DOMAIN p : p[i] = p[j] => i = j
  BY <1>1 DEF Distinct
<1>3. \A i \in DOMAIN p : p[i] # Head(q)
  BY <1>1 DEF Distinct
<1> QED
  BY <1>2, <1>3, Zenon DEF Distinct, Items, p

-----------------------------------------------------------------------------
(* Types of the task *)

\* The manager, server_task, connections and the bodies they pass on.
LEMMA TaskTypes ==
    ASSUME TaskTypeOK,
           Working \/ ServerSignal \/ Finish \/ \E r \in Req : PassBody(r) \/ Connection(r)
    PROVE  TaskTypeOK'
<1> USE DEF TaskTypeOK, Final
<1>1. CASE TakeBody
  BY <1>1, ItemsTail DEF TakeBody
<1>2. CASE TakeCmd
  BY <1>2, ItemsTail DEF TakeCmd
<1>3. CASE Check \/ StopServer \/ ServerStopped \/ ServerSignal
  BY <1>3 DEF Check, StopServer, ServerStopped, ServerSignal
<1>4. CASE Finish
  BY <1>4 DEF Finish, Failing
<1>5. ASSUME NEW r \in Req, PassBody(r)
      PROVE  TaskTypeOK'
  BY <1>5 DEF PassBody
<1>6. ASSUME NEW r \in Req, Connection(r)
      PROVE  TaskTypeOK'
  <2>1. UNCHANGED <<cmd_q, body_q, active, mgr, cmd_tasks, recv_tasks, server>>
    BY <1>6 DEF Connection, Accept, Refuse, HangUp, KeepAlive
  <2>2. http' \in [Req -> {"none", "open", "waiting"} \cup Final]
    <3>1. CASE Accept(r)
      BY <3>1 DEF Accept
    <3>2. CASE Refuse(r)
      BY <3>2 DEF Refuse
    <3>3. CASE HangUp(r)
      BY <3>3 DEF HangUp
    <3>4. ASSUME NEW p \in Req, KeepAlive(p, r)
          PROVE  <2>2
      BY <3>4 DEF KeepAlive
    <3> QED
      BY <1>6, <3>1, <3>2, <3>3, <3>4 DEF Connection
  <2> QED
    BY <2>1, <2>2
<1> QED
  BY <1>1, <1>2, <1>3, <1>4, <1>5, <1>6 DEF Working

USE ImpAssumption

-----------------------------------------------------------------------------
(* The order of the end *)

\* Where the manager is in its close sequence tells how far the server task is.
StopOrder == /\ mgr \in {"check", "select", "stop"} => server = "accept"
             /\ mgr \in {"finish", "done"} => server = "ended"

LEMMA OrderStep == StopOrder /\ [Next]_vars => StopOrder'
<1> SUFFICES ASSUME StopOrder, [Next]_vars
             PROVE  StopOrder'
  OBVIOUS
<1> USE DEF StopOrder
<1>1. ASSUME UNCHANGED <<mgr, server>>
      PROVE  StopOrder'
  BY <1>1
<1>2. ASSUME NEW r \in Req, RecvHandler(r)
      PROVE  UNCHANGED <<mgr, server>>
  BY <1>2 DEF RecvHandler, Register, HandOver, GiveUp, TakeEvents, DrainPanics, AwaitEvents,
              TimeOut, RespondEvents, SendCommand
<1>3. ASSUME NEW r \in Req, PassBodyImp(r) \/ Client(r)
      PROVE  UNCHANGED <<mgr, server>>
  BY <1>3 DEF PassBodyImp, PassBody, Client, Connection, Accept, Refuse, HangUp, KeepAlive
<1>4. ASSUME NEW c \in Cmd, CmdHandler(c)
      PROVE  UNCHANGED <<mgr, server>>
  BY <1>4 DEF CmdHandler, HandleRespond, HandleClose, EndCmd
<1>5. ASSUME NEW c \in Cmd, Issue(c)
      PROVE  UNCHANGED <<mgr, server>>
  BY <1>5 DEF Issue, SendCommand
<1>6. CASE (\E e \in Event : SendEvent(e)) \/ ReleaseMap \/ UNCHANGED vars
  BY <1>6 DEF SendEvent, ReleaseMap, vars, taskVars
<1>7. CASE Serve \/ FinishImp
  BY <1>7 DEF Serve, Working, Check, TakeBody, TakeCmd, StopServer, ServerStopped, ServerSignal,
              FinishImp, Finish
<1> QED
  BY <1>1, <1>2, <1>3, <1>4, <1>5, <1>6, <1>7 DEF Next

\* After the manager's return tasks end only.
Quiet == mgr = "done" => /\ cmd_tasks' \subseteq cmd_tasks
                         /\ recv_tasks' \subseteq recv_tasks
                         /\ server = "ended"

LEMMA QuietStep == StopOrder /\ [Next]_vars => Quiet
<1> SUFFICES ASSUME StopOrder, mgr = "done", [Next]_vars
             PROVE  cmd_tasks' \subseteq cmd_tasks /\ recv_tasks' \subseteq recv_tasks
  BY DEF Quiet, StopOrder
<1>1. ASSUME NEW r \in Req, RecvHandler(r)
      PROVE  cmd_tasks' = cmd_tasks /\ recv_tasks' \subseteq recv_tasks
  BY <1>1 DEF RecvHandler, Register, HandOver, GiveUp, TakeEvents, DrainPanics, AwaitEvents,
              TimeOut, RespondEvents, SendCommand, Goto, EndRecv
<1>2. ASSUME NEW r \in Req, PassBodyImp(r) \/ Client(r)
      PROVE  UNCHANGED <<cmd_tasks, recv_tasks>>
  BY <1>2 DEF PassBodyImp, PassBody, Client, Connection, Accept, Refuse, HangUp, KeepAlive
<1>3. ASSUME NEW c \in Cmd, CmdHandler(c)
      PROVE  cmd_tasks' \subseteq cmd_tasks /\ recv_tasks' = recv_tasks
  BY <1>3 DEF CmdHandler, HandleRespond, HandleClose, EndCmd
<1>4. ASSUME NEW c \in Cmd, Issue(c)
      PROVE  UNCHANGED <<cmd_tasks, recv_tasks>>
  BY <1>4 DEF Issue, SendCommand
<1>5. CASE (\E e \in Event : SendEvent(e)) \/ ReleaseMap \/ UNCHANGED vars
  BY <1>5 DEF SendEvent, ReleaseMap, vars, taskVars
<1>6. CASE Serve \/ FinishImp
  BY <1>6 DEF Serve, Working, Check, TakeBody, TakeCmd, StopServer, ServerStopped, ServerSignal,
              FinishImp, Finish
<1> QED
  BY <1>1, <1>2, <1>3, <1>4, <1>5, <1>6 DEF Next

(***************************************************************************)
(* Once the server's manager has returned no request and no command is     *)
(* handed to a handler and the server task has ended.                      *)
(***************************************************************************)
THEOREM QuietTheorem == Spec => QuietOnceClosed
<1>1. Init => StopOrder
  BY DEF Init, TaskInit, StopOrder
<1>2. StopOrder /\ [Next]_vars => [Quiet]_taskVars
  BY QuietStep
<1> QED
  BY <1>1, <1>2, OrderStep, PTL DEF Spec, QuietOnceClosed, Quiet

-----------------------------------------------------------------------------
(* Types *)

LEMMA TypeStep == TypeOK /\ [Next]_vars => TypeOK'
<1> SUFFICES ASSUME TypeOK, [Next]_vars
             PROVE  TypeOK'
  OBVIOUS
<1> USE DEF TypeOK, TaskTypeOK, Failing, Echo, Final
<1>1. CASE UNCHANGED vars
  BY <1>1 DEF vars, taskVars, impVars
<1>2. ASSUME NEW e \in Event, SendEvent(e)
      PROVE  TypeOK'
  BY <1>2 DEF SendEvent, taskVars
<1>3. ASSUME NEW c \in Cmd, Issue(c)
      PROVE  TypeOK'
  BY <1>3 DEF Issue, SendCommand
<1>4. ASSUME NEW c \in Req, HandleRespond(c)
      PROVE  TypeOK'
  <2>1. /\ UNCHANGED <<cmd_q, body_q, active, mgr, recv_tasks, server, issued, pc, echo, queue,
                       poisoned, batch, sent, msg_q>>
        /\ cmd_tasks' \subseteq Cmd
    BY <1>4 DEF HandleRespond, EndCmd
  <2>2. /\ http' \in [Req -> {"none", "open", "waiting"} \cup Final]
        /\ answer' \in [Req -> Req \cup {None}]
    <3>1. CASE UNCHANGED <<http, answer>>
      BY <3>1
    <3>2. ASSUME NEW r, http' = [http EXCEPT ![r] = "answered"], answer' = [answer EXCEPT ![r] = c]
          PROVE  <2>2!1 /\ <2>2!2
      BY <3>2
    <3> QED
      BY <1>4, <3>1, <3>2 DEF HandleRespond
  <2>3. resp_map' \in [Echo -> Req \cup {None}]
    BY <1>4 DEF HandleRespond
  <2> QED
    BY <2>1, <2>2, <2>3
<1>5. ASSUME NEW c \in Closer, HandleClose(c)
      PROVE  TypeOK'
  BY <1>5 DEF HandleClose, EndCmd, impVars
<1>6. ASSUME NEW r \in Req, Register(r), r \in recv_tasks
      PROVE  TypeOK'
  BY <1>6 DEF Register, Goto, FreeEcho
<1>7. ASSUME NEW r \in Req, HandOver(r) \/ GiveUp(r) \/ DrainPanics(r), r \in recv_tasks
      PROVE  TypeOK'
  <2>1. CASE HandOver(r)
    BY <2>1 DEF HandOver, Goto, EndRecv
  <2>2. CASE GiveUp(r)
    BY <2>2 DEF GiveUp, Goto, EndRecv
  <2>3. CASE DrainPanics(r)
    BY <2>3 DEF DrainPanics, Goto, EndRecv
  <2> QED
    BY <1>7, <2>1, <2>2, <2>3
<1>8. ASSUME NEW r \in Req, AwaitEvents(r) \/ TimeOut(r), r \in recv_tasks
      PROVE  TypeOK'
  <2>1. CASE AwaitEvents(r)
    BY <2>1 DEF AwaitEvents, Goto
  <2>2. CASE TimeOut(r)
    BY <2>2 DEF TimeOut, Goto
  <2> QED
    BY <1>8, <2>1, <2>2
<1>9. ASSUME NEW r \in Req, TakeEvents(r), r \in recv_tasks
      PROVE  TypeOK'
  BY <1>9 DEF TakeEvents, Goto, Drain
<1>10. ASSUME NEW r \in Req, RespondEvents(r), r \in recv_tasks
       PROVE  TypeOK'
  BY <1>10 DEF RespondEvents, Goto, EndRecv, SendCommand
<1>11. ASSUME NEW r \in Req, PassBodyImp(r)
       PROVE  TypeOK'
  BY <1>11 DEF PassBodyImp, PassBody, impVars
<1>12. ASSUME NEW r \in Req, Client(r)
       PROVE  TypeOK'
  <2>1. TaskTypeOK'
    BY <1>12, TaskTypes DEF Client
  <2> QED
    BY <1>12, <2>1 DEF Client, Connection, Accept, Refuse, HangUp, KeepAlive, impVars
<1>13. CASE Serve
  <2>1. TaskTypeOK'
    BY <1>13, TaskTypes DEF Serve
  <2>2. recv_tasks \subseteq recv_tasks'
    BY <1>13 DEF Serve, Working, TakeBody, TakeCmd, Check, StopServer, ServerStopped,
                 ServerSignal
  <2> QED
    BY <1>13, <2>1, <2>2 DEF Serve, impVars
<1>14. CASE FinishImp
  BY <1>14 DEF FinishImp, Finish
<1>15. CASE ReleaseMap
  BY <1>15 DEF ReleaseMap
<1> QED
  BY <1>1, <1>2, <1>3, <1>4, <1>5, <1>6, <1>7, <1>8, <1>9, <1>10, <1>11, <1>12, <1>13, <1>14,
     <1>15 DEF Next, CmdHandler, RecvHandler

(***************************************************************************)
(* Types, among them that a request in the midst of its handling has a     *)
(* task and an echo.                                                       *)
(***************************************************************************)
THEOREM Typing == Spec => []TypeOK
<1>1. ASSUME Init
      PROVE  TypeOK
  <2>1. \A S : << >> \in Seq(S)
    OBVIOUS
  <2>2. TaskTypeOK
    BY <1>1, <2>1 DEF Init, TaskInit, TaskTypeOK
  <2>3. /\ batch \in [Req -> Seq(Event)] /\ queue \in Seq(Event) /\ sent \in Seq(Event)
        /\ msg_q \in Seq(Req \cup {Notice})
    BY <1>1, <2>1 DEF Init
  <2>4. /\ echo \in [Req -> Echo \cup {None}] /\ resp_map \in [Echo -> Req \cup {None}]
        /\ answer \in [Req -> Req \cup {None}] /\ issued = {} /\ poisoned = FALSE
        /\ pc = [r \in Req |-> "start"]
    BY <1>1 DEF Init
  <2> QED
    BY <2>2, <2>3, <2>4 DEF TypeOK
<1> QED
  BY <1>1, TypeStep, PTL DEF Spec

-----------------------------------------------------------------------------
(* A waiting client's responder is alive *)

\* A request is passed on once, and its handler starts where its body left off.
Placed ==
    /\ \A r \in Req : http[r] \in {"none", "open"}
                         => pc[r] = "start" /\ r \notin Items(body_q) /\ r \notin recv_tasks
    /\ \A r \in Items(body_q) : pc[r] = "start" /\ r \notin recv_tasks
    /\ Distinct(body_q)

HeldInv == Placed /\ WaitingIsHeld

Types == /\ cmd_q \in Seq(Cmd) /\ body_q \in Seq(Req)
         /\ cmd_tasks \subseteq Cmd /\ recv_tasks \subseteq Req
         /\ http \in [Req -> {"none", "open", "waiting"} \cup Final]
         /\ pc \in [Req -> {"start", "registered", "waiting", "respond", "ended"}]
         /\ echo \in [Req -> Echo \cup {None}]
         /\ resp_map \in [Echo -> Req \cup {None}]

LEMMA TypesOfTypeOK == TypeOK => Types
BY DEF TypeOK, TaskTypeOK, Types

LEMMA HeldGoto ==
    ASSUME Types, HeldInv, NEW r \in recv_tasks, pc[r] # "start", NEW at, at # "start",
           Goto(r, at), UNCHANGED <<body_q, http, resp_map>>
    PROVE  HeldInv'
<1> USE DEF Types, HeldInv, Placed, WaitingIsHeld, Mapped
<1>1. /\ pc' = [pc EXCEPT ![r] = at]
      /\ recv_tasks' = recv_tasks \/ recv_tasks' = recv_tasks \ {r}
      /\ r \in Req /\ r \notin Items(body_q) /\ Items(body_q)' = Items(body_q)
      /\ http[r] \notin {"none", "open"}
  BY DEF Goto, EndRecv, Items
<1>2. Placed'
  <2>1. Distinct(body_q)'
    BY DEF Distinct
  <2> QED
    BY <1>1, <2>1
<1>3. WaitingIsHeld'
  BY <1>1
<1> QED
  BY <1>2, <1>3

LEMMA HeldRegister ==
    ASSUME Types, HeldInv, NEW r \in recv_tasks, Register(r)
    PROVE  HeldInv'
<1> USE DEF Types, HeldInv, Placed, WaitingIsHeld
<1>1. PICK e \in FreeEcho : /\ http' = Failing({resp_map[e]})
                            /\ resp_map' = [resp_map EXCEPT ![e] = r]
  BY DEF Register
<1>2. /\ pc' = [pc EXCEPT ![r] = "registered"] /\ UNCHANGED <<recv_tasks, body_q>>
      /\ r \in Req /\ r \notin Items(body_q) /\ Items(body_q)' = Items(body_q)
      /\ http[r] \notin {"none", "open"} /\ e \in Echo /\ r # None
  BY DEF Register, Goto, Items, FreeEcho, Echo
<1>3. \A q \in Req : /\ http'[q] = http[q] \/ (http[q] = "waiting" /\ http'[q] = "failed")
                     /\ http'[q] = "waiting" => http[q] = "waiting" /\ q # resp_map[e]
  BY <1>1 DEF Failing
<1>4. Mapped \ {resp_map[e]} \subseteq Mapped' /\ r \in Mapped'
  BY <1>1, <1>2 DEF Mapped
<1>5. Placed'
  <2>1. Distinct(body_q)'
    BY <1>2 DEF Distinct
  <2> QED
    BY <1>2, <1>3, <2>1
<1>6. WaitingIsHeld'
  BY <1>2, <1>3, <1>4
<1> QED
  BY <1>5, <1>6

LEMMA HeldRespond ==
    ASSUME Types, HeldInv, NEW c \in Req, HandleRespond(c)
    PROVE  HeldInv'
<1> USE DEF Types, HeldInv, Placed, WaitingIsHeld
<1> DEFINE r == resp_map[echo[c]]
<1>1. /\ UNCHANGED <<recv_tasks, body_q, pc>> /\ Items(body_q)' = Items(body_q)
      /\ resp_map' = [resp_map EXCEPT ![echo[c]] = None]
  BY DEF HandleRespond, EndCmd, Items
<1>2. \A q \in Req : http'[q] = http[q] \/ (http[q] = "waiting" /\ http'[q] = "answered")
  <2>1. CASE r # None /\ http[r] = "waiting"
    BY <2>1 DEF HandleRespond
  <2>2. CASE ~(r # None /\ http[r] = "waiting")
    BY <2>2 DEF HandleRespond
  <2> QED
    BY <2>1, <2>2
<1>3. ASSUME NEW q \in Req, http'[q] = "waiting"
      PROVE  http[q] = "waiting" /\ q # r
  <2>1. http[q] = "waiting"
    BY <1>2, <1>3
  <2>2. ASSUME q = r
        PROVE  FALSE
    <3>1. http' = [http EXCEPT ![r] = "answered"]
      BY <2>1, <2>2 DEF HandleRespond
    <3> QED
      BY <1>3, <2>2, <3>1
  <2> QED
    BY <2>1, <2>2
<1>4. Mapped \ {r} \subseteq Mapped'
  BY <1>1 DEF Mapped
<1>5. Placed'
  <2>1. Distinct(body_q)'
    BY <1>1 DEF Distinct
  <2> QED
    BY <1>1, <1>2, <2>1
<1> HIDE DEF r
<1>6. WaitingIsHeld'
  BY <1>1, <1>3, <1>4
<1> QED
  BY <1>5, <1>6

LEMMA HeldPass ==
    ASSUME Types, HeldInv, NEW r \in Req, PassBody(r), UNCHANGED <<pc, resp_map>>
    PROVE  HeldInv'
<1> USE DEF Types, HeldInv, Placed, WaitingIsHeld, Mapped
<1>1. /\ http[r] = "open" /\ pc[r] = "start" /\ r \notin Items(body_q) /\ r \notin recv_tasks
      /\ UNCHANGED recv_tasks
  BY DEF PassBody
<1>2. CASE MgrEnded
  <2>1. body_q' = body_q /\ http' = [http EXCEPT ![r] = "cut"] /\ Items(body_q)' = Items(body_q)
    BY <1>2 DEF PassBody, Items
  <2>2. Distinct(body_q)'
    BY <2>1 DEF Distinct
  <2> QED
    BY <1>1, <2>1, <2>2
<1>3. CASE ~MgrEnded
  <2>1. body_q' = Append(body_q, r) /\ http' = [http EXCEPT ![r] = "waiting"]
    BY <1>3 DEF PassBody
  <2>2. Items(body_q)' = Items(body_q) \cup {r}
    BY <2>1, ItemsAppend
  <2>3. Distinct(body_q)'
    BY <1>1, <2>1, DistinctAppend
  <2>4. Placed'
    BY <1>1, <2>1, <2>2, <2>3
  <2> QED
    BY <1>1, <2>1, <2>2, <2>4
<1> QED
  BY <1>2, <1>3

LEMMA HeldTake ==
    ASSUME Types, HeldInv, TakeBody, UNCHANGED <<pc, resp_map>>
    PROVE  HeldInv'
<1> USE DEF Types, HeldInv, Placed, WaitingIsHeld, Mapped
<1>1. /\ body_q # << >> /\ body_q' = Tail(body_q)
      /\ recv_tasks' = recv_tasks \cup {Head(body_q)} /\ UNCHANGED http
  BY DEF TakeBody
<1>2. Items(body_q) = {Head(body_q)} \cup Items(body_q)' /\ Head(body_q) \in Req
  BY <1>1, ItemsTail
<1>3. Distinct(body_q)' /\ Head(body_q) \notin Items(body_q)'
  BY <1>1, DistinctTail
<1> QED
  BY <1>1, <1>2, <1>3

LEMMA HeldStep == TypeOK /\ HeldInv /\ [Next]_vars => HeldInv'
<1> SUFFICES ASSUME Types, HeldInv, [Next]_vars
             PROVE  HeldInv'
  BY TypesOfTypeOK
<1>1. ASSUME UNCHANGED <<body_q, recv_tasks, pc, http, resp_map>>
      PROVE  HeldInv'
  BY <1>1 DEF HeldInv, Placed, WaitingIsHeld, Mapped, Items, Distinct
<1>2. CASE UNCHANGED vars \/ \E e \in Event : SendEvent(e)
  BY <1>1, <1>2 DEF vars, taskVars, impVars, SendEvent
<1>3. ASSUME NEW c \in Cmd, Issue(c) \/ HandleClose(c)
      PROVE  HeldInv'
  BY <1>1, <1>3 DEF Issue, SendCommand, HandleClose, EndCmd, impVars
<1>4. ASSUME NEW r \in recv_tasks, RecvHandler(r)
      PROVE  HeldInv'
  <2>1. CASE Register(r)
    BY <2>1, HeldRegister
  <2>2. CASE HandOver(r) \/ GiveUp(r)
    BY <2>2, HeldGoto DEF HandOver, GiveUp
  <2>3. CASE TakeEvents(r) \/ DrainPanics(r)
    BY <2>3, HeldGoto DEF TakeEvents, DrainPanics
  <2>4. CASE AwaitEvents(r) \/ TimeOut(r)
    BY <2>4, HeldGoto DEF AwaitEvents, TimeOut
  <2>5. CASE RespondEvents(r)
    BY <2>5, HeldGoto DEF RespondEvents, SendCommand
  <2> QED
    BY <1>4, <2>1, <2>2, <2>3, <2>4, <2>5 DEF RecvHandler
<1>5. ASSUME NEW r \in Req, PassBodyImp(r)
      PROVE  HeldInv'
  BY <1>5, HeldPass DEF PassBodyImp, impVars
<1>6. ASSUME NEW r \in Req, Client(r)
      PROVE  HeldInv'
  <2> USE DEF Types, HeldInv, Placed, WaitingIsHeld, Mapped
  <2>1. /\ UNCHANGED <<body_q, recv_tasks, pc, resp_map>> /\ Items(body_q)' = Items(body_q)
        /\ Distinct(body_q)'
    BY <1>6 DEF Client, Connection, Accept, Refuse, HangUp, KeepAlive, impVars, Items, Distinct
  <2>2. ASSUME NEW q \in Req
        PROVE  /\ http'[q] \in {"none", "open"} => http[q] \in {"none", "open"}
               /\ http'[q] = "waiting" => http[q] = "waiting"
    <3>1. CASE Accept(r) \/ Refuse(r) \/ HangUp(r)
      BY <3>1 DEF Accept, Refuse, HangUp
    <3>2. ASSUME NEW p \in Req, KeepAlive(p, r)
          PROVE  <2>2!2
      BY <3>2 DEF KeepAlive
    <3> QED
      BY <1>6, <3>1, <3>2 DEF Client, Connection
  <2> QED
    BY <2>1, <2>2
<1>7. CASE Serve
  <2>1. CASE TakeBody
    BY <1>7, <2>1, HeldTake DEF Serve, impVars
  <2>2. CASE Check \/ TakeCmd \/ StopServer \/ ServerStopped \/ ServerSignal
    BY <1>1, <1>7, <2>2 DEF Serve, Check, TakeCmd, StopServer, ServerStopped, ServerSignal, impVars
  <2> QED
    BY <1>7, <2>1, <2>2 DEF Serve, Working
<1>8. CASE FinishImp
  <2>1. /\ body_q' = << >> /\ http' = Failing(Items(body_q))
        /\ UNCHANGED <<recv_tasks, pc, resp_map>>
    BY <1>8 DEF FinishImp, Finish
  <2>2. Items(body_q)' = {} /\ Distinct(body_q)'
    BY <2>1 DEF Items, Distinct
  <2> QED
    BY <2>1, <2>2 DEF Types, HeldInv, Placed, WaitingIsHeld, Mapped, Failing
<1>9. CASE ReleaseMap
  <2>1. /\ http' = Failing(Mapped) /\ UNCHANGED <<body_q, recv_tasks, pc>>
        /\ Items(body_q)' = Items(body_q) /\ Distinct(body_q)' = Distinct(body_q)
    BY <1>9 DEF ReleaseMap, Items, Distinct
  <2> QED
    BY <2>1 DEF Types, HeldInv, Placed, WaitingIsHeld, Failing
<1> QED
  BY <1>2, <1>3, <1>4, <1>5, <1>6, <1>7, <1>8, <1>9, HeldRespond DEF Next, CmdHandler, RecvHandler

LEMMA HeldInvariant == Spec => []HeldInv
<1>1. Init => HeldInv
  BY DEF Init, TaskInit, HeldInv, Placed, WaitingIsHeld, Items, Distinct
<1> QED
  BY <1>1, HeldStep, Typing, PTL DEF Spec

(***************************************************************************)
(* A client that waits for its response has its responder in the body      *)
(* queue, in a handler that starts, or in the map, whatever echoes clients *)
(* choose and whichever handlers fail.                                     *)
(***************************************************************************)
THEOREM Held == Spec => []WaitingIsHeld
<1>1. HeldInv => WaitingIsHeld
  BY DEF HeldInv
<1> QED
  BY <1>1, HeldInvariant, PTL

-----------------------------------------------------------------------------
(* The event queue: every event is in one place *)

\* A piece of the events in the order they were sent, which ends with event n.
Run(q, n) == q \in Seq(Nat) /\ \A j \in 1..Len(q) : q[j] = n - Len(q) + j

LEMMA RunItems ==
    ASSUME NEW n \in Int, NEW q, Run(q, n)
    PROVE  Items(q) = (n - Len(q) + 1)..n
<1>1. q \in Seq(Nat) /\ Len(q) \in Nat /\ DOMAIN q = 1..Len(q)
      /\ \A j \in 1..Len(q) : q[j] = n - Len(q) + j
  BY DEF Run
<1>2. Items(q) \subseteq (n - Len(q) + 1)..n
  <2> SUFFICES ASSUME NEW j \in 1..Len(q)
               PROVE  q[j] \in (n - Len(q) + 1)..n
    BY <1>1, Zenon DEF Items
  <2> QED
    BY <1>1
<1>3. ASSUME NEW e \in (n - Len(q) + 1)..n
      PROVE  e \in Items(q)
  <2> DEFINE j == e - (n - Len(q))
  <2>1. j \in 1..Len(q)
    BY <1>1
  <2>2. q[j] = e
    BY <1>1, <2>1
  <2> QED
    BY <1>1, <2>1, <2>2 DEF Items
<1> QED
  BY <1>2, <1>3

LEMMA AppendRun ==
    ASSUME NEW n \in Nat, NEW q, Run(q, n)
    PROVE  Run(Append(q, n + 1), n + 1) /\ Len(Append(q, n + 1)) = Len(q) + 1
<1> DEFINE r == Append(q, n + 1)
<1>1. q \in Seq(Nat) /\ n + 1 \in Nat
  BY DEF Run
<1>2. /\ r \in Seq(Nat) /\ Len(r) = Len(q) + 1 /\ Len(q) \in Nat
      /\ r[Len(q) + 1] = n + 1
      /\ \A j \in 1..Len(q) : r[j] = q[j]
  BY <1>1, AppendProperties
<1> HIDE DEF r
<1>3. ASSUME NEW j \in 1..Len(r)
      PROVE  r[j] = (n + 1) - Len(r) + j
  <2>1. CASE j = Len(r)
    BY <1>2, <2>1
  <2>2. CASE j # Len(r)
    <3>1. j \in 1..Len(q) /\ r[j] = q[j] /\ q[j] = n - Len(q) + j
      BY <1>2, <2>2 DEF Run
    <3> QED
      BY <1>2, <3>1
  <2> QED
    BY <2>1, <2>2
<1>4. Run(r, n + 1)
  BY <1>2, <1>3 DEF Run
<1> QED
  BY <1>2, <1>4 DEF r

\* drain takes the oldest events and leaves the others.
LEMMA SplitRun ==
    ASSUME NEW n \in Nat, NEW q, Run(q, n), NEW k \in 0..Len(q)
    PROVE  /\ Run(SubSeq(q, 1, k), n - Len(q) + k)
           /\ Len(SubSeq(q, 1, k)) = k
           /\ Run(SubSeq(q, k + 1, Len(q)), n)
           /\ Len(SubSeq(q, k + 1, Len(q))) = Len(q) - k
<1>1. q \in Seq(Nat) /\ Len(q) \in Nat /\ k \in Nat /\ k =< Len(q)
      /\ \A j \in 1..Len(q) : q[j] \in Nat /\ q[j] = n - Len(q) + j
  BY DEF Run
<1> DEFINE a == SubSeq(q, 1, k)
<1> DEFINE b == SubSeq(q, k + 1, Len(q))
<1>2. /\ a \in Seq(Nat) /\ Len(a) = k
      /\ \A i \in 1..k : a[i] = q[i]
  <2>1. \A i \in 1..k : q[i] \in Nat
    BY <1>1
  <2>2. /\ a \in Seq(Nat) /\ Len(a) = IF 1 =< k THEN k - 1 + 1 ELSE 0
        /\ \A i \in 1..(k - 1 + 1) : a[i] = q[1 + i - 1]
    BY <1>1, <2>1, SubSeqProperties
  <2> HIDE DEF a
  <2> QED
    BY <1>1, <2>2
<1>3. /\ b \in Seq(Nat) /\ Len(b) = Len(q) - k
      /\ \A i \in 1..(Len(q) - k) : b[i] = q[k + i]
  <2>1. \A i \in (k + 1)..Len(q) : q[i] \in Nat
    BY <1>1
  <2>2. k + 1 \in Int /\ Len(q) \in Int
    BY <1>1
  <2>3. /\ b \in Seq(Nat) /\ Len(b) = IF k + 1 =< Len(q) THEN Len(q) - (k + 1) + 1 ELSE 0
        /\ \A i \in 1..(Len(q) - (k + 1) + 1) : b[i] = q[(k + 1) + i - 1]
    BY <2>1, <2>2, SubSeqProperties
  <2> HIDE DEF b
  <2> QED
    BY <1>1, <2>3
<1> HIDE DEF a, b
<1>4. ASSUME NEW j \in 1..Len(a)
      PROVE  a[j] = (n - Len(q) + k) - Len(a) + j
  <2>1. j \in 1..Len(q) /\ a[j] = q[j]
    BY <1>1, <1>2
  <2>2. q[j] = n - Len(q) + j
    BY <1>1, <2>1
  <2> QED
    BY <1>1, <1>2, <2>1, <2>2
<1>5. ASSUME NEW j \in 1..Len(b)
      PROVE  b[j] = n - Len(b) + j
  <2>1. j \in 1..(Len(q) - k) /\ b[j] = q[k + j]
    BY <1>1, <1>3
  <2>2. k + j \in 1..Len(q)
    BY <1>1, <2>1
  <2>3. q[k + j] = n - Len(q) + (k + j)
    BY <1>1, <2>2
  <2> QED
    BY <1>1, <1>3, <2>1, <2>3
<1> QED
  BY <1>2, <1>3, <1>4, <1>5 DEF Run, a, b

-----------------------------------------------------------------------------
(* Every event is in one place *)

\* How many events have left the queue.
Gone == Len(sent) - Len(queue)

\* Events are numbered as they are sent, and the queue holds the last of them.
Numbered == Run(sent, Len(sent)) /\ Run(queue, Len(sent)) /\ Len(queue) =< Len(sent)

\* A request is handed events once.
HandedOnce == \A r \in Poll : pc[r] \in {"start", "registered", "waiting"} => batch[r] = << >>

\* What left the queue is in one batch each.
Parted == /\ \A r \in Poll : Items(batch[r]) \subseteq 1..Gone
          /\ \A r, q \in Poll : r # q => Items(batch[r]) \cap Items(batch[q]) = {}
          /\ \A e \in 1..Gone : \E r \in Poll : e \in Items(batch[r])

\* What a request was handed is a piece of the events in their order.
Batched == \A r \in Poll : \E n \in Nat : Run(batch[r], n)

OnceInv == Numbered /\ HandedOnce /\ Parted /\ Batched

LEMMA OnceMeans == OnceInv => EventOnce
<1> SUFFICES ASSUME OnceInv, NEW e \in Items(sent)
             PROVE  LET readers == {r \in Poll : e \in Items(batch[r])} IN
                      IF e \in Items(queue) THEN readers = {} ELSE \E r \in Poll : readers = {r}
  BY DEF EventOnce
<1>1. /\ Len(sent) \in Nat /\ Len(queue) \in Nat /\ Len(queue) =< Len(sent)
      /\ Items(sent) = 1..Len(sent) /\ Items(queue) = (Gone + 1)..Len(sent)
  <2>1. sent \in Seq(Nat) /\ queue \in Seq(Nat) /\ Len(queue) =< Len(sent)
    BY DEF OnceInv, Numbered, Run
  <2>2. Len(sent) \in Nat /\ Len(queue) \in Nat
    BY <2>1
  <2>3. Items(sent) = (Len(sent) - Len(sent) + 1)..Len(sent)
    BY <2>2, RunItems DEF OnceInv, Numbered
  <2>4. Items(queue) = (Len(sent) - Len(queue) + 1)..Len(sent)
    BY <2>2, RunItems DEF OnceInv, Numbered
  <2>5. Len(sent) - Len(sent) + 1 = 1
    BY <2>2
  <2> QED
    BY <2>1, <2>2, <2>3, <2>4, <2>5 DEF Gone
<1>2. Gone \in Nat
  BY <1>1 DEF Gone
<1>3. CASE e \in Items(queue)
  <2>1. e \notin 1..Gone
    BY <1>1, <1>2, <1>3
  <2> QED
    BY <1>3, <2>1 DEF OnceInv, Parted
<1>4. CASE e \notin Items(queue)
  <2>1. e \in 1..Gone
    BY <1>1, <1>2, <1>4
  <2>2. PICK r \in Poll : e \in Items(batch[r])
    BY <2>1 DEF OnceInv, Parted
  <2>3. {q \in Poll : e \in Items(batch[q])} = {r}
    BY <2>2 DEF OnceInv, Parted
  <2> QED
    BY <1>4, <2>3
<1> QED
  BY <1>3, <1>4

LEMMA OnceSend ==
    ASSUME TypeOK, OnceInv, NEW e \in Event, SendEvent(e)
    PROVE  OnceInv'
<1>1. /\ sent \in Seq(Event) /\ queue \in Seq(Event)
      /\ Len(sent) \in Nat /\ Len(queue) \in Nat /\ Len(queue) =< Len(sent)
  BY DEF TypeOK, OnceInv, Numbered
<1>2. /\ e = Len(sent) + 1 /\ sent' = Append(sent, e) /\ queue' = Append(queue, e)
      /\ UNCHANGED <<pc, batch>>
  BY DEF SendEvent
<1>3. Run(sent, Len(sent)) /\ Run(queue, Len(sent))
  BY DEF OnceInv, Numbered
<1>4. /\ Run(sent', Len(sent) + 1) /\ Len(sent') = Len(sent) + 1
      /\ Run(queue', Len(sent) + 1) /\ Len(queue') = Len(queue) + 1
  BY <1>1, <1>2, <1>3, AppendRun
<1>5. Numbered'
  BY <1>1, <1>4 DEF Numbered
<1>6. Gone' = Gone
  BY <1>1, <1>4 DEF Gone
<1>7. HandedOnce' /\ Parted' /\ Batched'
  BY <1>2, <1>6 DEF OnceInv, HandedOnce, Parted, Batched
<1> QED
  BY <1>5, <1>7 DEF OnceInv

LEMMA OnceTake ==
    ASSUME TypeOK, OnceInv, NEW r \in Req, TakeEvents(r)
    PROVE  OnceInv'
<1>1. /\ sent \in Seq(Event) /\ queue \in Seq(Event) /\ r \in Poll
      /\ Len(sent) \in Nat /\ Len(queue) \in Nat /\ Len(queue) =< Len(sent)
      /\ batch \in [Req -> Seq(Event)]
      /\ pc \in [Req -> {"start", "registered", "waiting", "respond", "ended"}]
  BY DEF TypeOK, OnceInv, Numbered, TakeEvents
<1>2. Run(queue, Len(sent))
  BY DEF OnceInv, Numbered
<1>3. /\ pc[r] = "registered" /\ pc' = [pc EXCEPT ![r] = "respond"] /\ UNCHANGED sent
      /\ batch[r] = << >>
  BY <1>1 DEF TakeEvents, Goto, OnceInv, HandedOnce
<1>4. PICK l \in Limit : l =< Len(queue) /\ Drain(r, l)
  BY DEF TakeEvents
<1>5. PICK k \in 0..Len(queue) :
           /\ batch' = [batch EXCEPT ![r] = SubSeq(queue, 1, k)]
           /\ queue' = SubSeq(queue, k + 1, Len(queue))
  <2>1. CASE l = 0
    <3>1. SubSeq(queue, 1, Len(queue)) = queue
      BY <1>1, SubSeqFull
    <3>2. SubSeq(queue, Len(queue) + 1, Len(queue)) = << >>
      BY <1>1, SubSeqEmpty
    <3>3. Len(queue) \in 0..Len(queue)
      BY <1>1
    <3> QED
      BY <1>4, <2>1, <3>1, <3>2, <3>3 DEF Drain
  <2>2. CASE l # 0
    <3>1. l \in 0..Len(queue)
      <4>1. l \in Nat
        OBVIOUS
      <4> QED
        BY <1>1, <1>4, <4>1
    <3> QED
      BY <1>4, <2>2, <3>1 DEF Drain
  <2> QED
    BY <2>1, <2>2
<1>6. /\ Run(SubSeq(queue, 1, k), Gone + k) /\ Len(SubSeq(queue, 1, k)) = k
      /\ Run(queue', Len(sent)) /\ Len(queue') = Len(queue) - k
  BY <1>1, <1>2, <1>5, SplitRun DEF Gone
<1>7. Gone \in Nat /\ k \in Nat /\ Gone' = Gone + k
  BY <1>1, <1>3, <1>6 DEF Gone
<1>8. Items(batch'[r]) = (Gone + 1)..(Gone + k)
  <2>1. Items(SubSeq(queue, 1, k)) = (Gone + 1)..(Gone + k)
    <3> DEFINE n == Gone + k
    <3>1. n \in Int
      BY <1>7
    <3>2. Run(SubSeq(queue, 1, k), n)
      BY <1>6
    <3> HIDE DEF n
    <3>3. Items(SubSeq(queue, 1, k)) = (n - Len(SubSeq(queue, 1, k)) + 1)..n
      BY <3>1, <3>2, RunItems
    <3>4. n = Gone + k
      BY DEF n
    <3>5. n - Len(SubSeq(queue, 1, k)) + 1 = Gone + 1
      BY <1>6, <1>7, <3>4
    <3> QED
      BY <3>3, <3>4, <3>5, Zenon
  <2>2. batch'[r] = SubSeq(queue, 1, k)
    BY <1>1, <1>5
  <2> QED
    BY <2>1, <2>2
<1>9. \A q \in Poll \ {r} : batch'[q] = batch[q]
  BY <1>1, <1>5
<1>10. Items(batch[r]) = {}
  BY <1>3 DEF Items
<1>11. Numbered'
  BY <1>1, <1>3, <1>6 DEF OnceInv, Numbered
<1>12. HandedOnce'
  BY <1>1, <1>3, <1>9 DEF OnceInv, HandedOnce
<1>13. Parted'
  <2>1. ASSUME NEW q \in Poll
        PROVE  Items(batch'[q]) \subseteq 1..(Gone + k)
    <3>1. CASE q = r
      BY <1>7, <1>8, <3>1
    <3>2. CASE q # r
      <4>1. Items(batch'[q]) \subseteq 1..Gone
        BY <1>9, <3>2 DEF OnceInv, Parted
      <4> QED
        BY <1>7, <4>1
    <3> QED
      BY <3>1, <3>2
  <2>2. \A p, q \in Poll : p # q => Items(batch'[p]) \cap Items(batch'[q]) = {}
    <3>1. \A q \in Poll \ {r} : Items(batch'[q]) \cap Items(batch'[r]) = {}
      BY <1>7, <1>8, <1>9 DEF OnceInv, Parted
    <3> QED
      BY <1>9, <3>1 DEF OnceInv, Parted
  <2>3. ASSUME NEW e \in 1..(Gone + k)
        PROVE  \E q \in Poll : e \in Items(batch'[q])
    <3>1. CASE e \in 1..Gone
      <4>1. PICK q \in Poll : e \in Items(batch[q])
        BY <3>1 DEF OnceInv, Parted
      <4> QED
        BY <1>9, <1>10, <4>1
    <3>2. CASE e \notin 1..Gone
      BY <1>1, <1>7, <1>8, <3>2
    <3> QED
      BY <3>1, <3>2
  <2> QED
    BY <1>7, <2>1, <2>2, <2>3 DEF Parted
<1>14. Batched'
  <2>1. Gone + k \in Nat /\ Run(batch'[r], Gone + k)
    BY <1>1, <1>5, <1>6, <1>7
  <2> QED
    BY <1>9, <2>1 DEF OnceInv, Batched
<1> QED
  BY <1>11, <1>12, <1>13, <1>14 DEF OnceInv

LEMMA OnceGoto ==
    ASSUME TypeOK, OnceInv, NEW r \in Req, NEW at, Goto(r, at),
           UNCHANGED <<sent, queue, batch>>,
           pc[r] \in {"start", "registered", "waiting"} \/ at \in {"respond", "ended"}
    PROVE  OnceInv'
<1>1. /\ pc' = [pc EXCEPT ![r] = at]
      /\ pc \in [Req -> {"start", "registered", "waiting", "respond", "ended"}]
  BY DEF Goto, TypeOK
<1>2. HandedOnce'
  BY <1>1 DEF OnceInv, HandedOnce
<1>3. Numbered' /\ Parted' /\ Batched'
  BY DEF OnceInv, Numbered, Parted, Gone, Batched
<1> QED
  BY <1>2, <1>3 DEF OnceInv

LEMMA OnceStep == TypeOK /\ OnceInv /\ [Next]_vars => OnceInv'
<1> SUFFICES ASSUME TypeOK, OnceInv, [Next]_vars
             PROVE  OnceInv'
  OBVIOUS
<1>1. ASSUME UNCHANGED <<sent, queue, batch, pc>>
      PROVE  OnceInv'
  BY <1>1 DEF OnceInv, Numbered, HandedOnce, Parted, Gone, Batched
<1>2. ASSUME NEW r \in Req, RecvHandler(r)
      PROVE  OnceInv'
  <2>1. CASE TakeEvents(r)
    BY <2>1, OnceTake
  <2>2. CASE Register(r) \/ HandOver(r) \/ GiveUp(r)
    BY <2>2, OnceGoto DEF Register, HandOver, GiveUp
  <2>3. CASE DrainPanics(r) \/ AwaitEvents(r)
    BY <2>3, OnceGoto DEF DrainPanics, AwaitEvents
  <2>4. CASE TimeOut(r) \/ RespondEvents(r)
    BY <2>4, OnceGoto DEF TimeOut, RespondEvents
  <2> QED
    BY <1>2, <2>1, <2>2, <2>3, <2>4 DEF RecvHandler
<1>3. ASSUME NEW c \in Cmd, Issue(c) \/ CmdHandler(c)
      PROVE  OnceInv'
  BY <1>1, <1>3 DEF Issue, CmdHandler, HandleRespond, HandleClose, impVars
<1>4. ASSUME NEW r \in Req, PassBodyImp(r) \/ Client(r)
      PROVE  OnceInv'
  BY <1>1, <1>4 DEF PassBodyImp, Client, impVars
<1>5. CASE Serve \/ FinishImp \/ ReleaseMap \/ UNCHANGED vars
  BY <1>1, <1>5 DEF Serve, FinishImp, ReleaseMap, vars, impVars
<1>6. ASSUME NEW e \in Event, SendEvent(e)
      PROVE  OnceInv'
  BY <1>6, OnceSend
<1> QED
  BY <1>2, <1>3, <1>4, <1>5, <1>6 DEF Next

LEMMA OnceInvariant == Spec => []OnceInv
<1>1. ASSUME Init
      PROVE  OnceInv
  <2>1. Run(<< >>, 0) /\ Items(<< >>) = {} /\ Len(<< >>) = 0
    <3>1. << >> \in Seq(Nat) /\ Len(<< >>) = 0 /\ DOMAIN << >> = {}
      OBVIOUS
    <3>2. Items(<< >>) = {}
      BY <3>1, Zenon DEF Items
    <3> QED
      BY <3>1, <3>2 DEF Run
  <2>2. sent = << >> /\ queue = << >> /\ \A r \in Poll : batch[r] = << >>
    BY <1>1 DEF Init
  <2>3. Gone = 0
    BY <2>1, <2>2 DEF Gone
  <2> QED
    BY <2>1, <2>2, <2>3 DEF OnceInv, Numbered, HandedOnce, Parted, Batched
<1> QED
  BY <1>1, OnceStep, Typing, PTL DEF Spec

(***************************************************************************)
(* However many requests drain the queue at once and whatever limits they  *)
(* carry, an event is in the queue or was handed to exactly one request.   *)
(***************************************************************************)
THEOREM OnceTheorem == Spec => []EventOnce
BY OnceMeans, OnceInvariant, PTL

-----------------------------------------------------------------------------
(* Responses go by echo *)

\* A command is on its way once, after the handler of its request has ended.
Tracked ==
    /\ Items(cmd_q) \cup cmd_tasks \subseteq issued
    /\ Items(cmd_q) \cap cmd_tasks = {}
    /\ Distinct(cmd_q)
    /\ \A c \in issued \cap Req : pc[c] = "ended"
    /\ \A c \in Action \cap Items(msg_q) : pc[c] = "ended"
    /\ \A c \in Req : pc[c] # "start" => echo[c] \in Echo

\* An echo in the map leads to a request that came with it or drew it.
Led == \A e \in Echo : resp_map[e] # None => /\ echo[resp_map[e]] = e
                                             /\ pc[resp_map[e]] # "start"

\* The request may still be responded to.
Pending(c) == \/ pc[c] \in {"registered", "waiting", "respond"}
              \/ c \in Action /\ pc[c] = "ended" /\ c \notin issued
              \/ c \in Items(cmd_q) \cup cmd_tasks

\* Nothing reads the map any more.
Over == MgrEnded /\ recv_tasks = {} /\ cmd_tasks = {}

\* A number that was drawn leads to its request until that is responded to, so
\* it is not drawn again meanwhile.
Reserved == Over \/ \A c \in Req : Pending(c) /\ echo[c] \in Inner => resp_map[echo[c]] = c

\* Who was answered, or answered somebody, keeps its echo.
Settled == \A r \in Req : answer[r] # None => /\ pc[r] # "start"
                                              /\ answer[r] \in Req /\ pc[answer[r]] # "start"

EchoInv == Tracked /\ Led /\ Reserved /\ Settled /\ Correlated

AllTypes == /\ Types
            /\ issued \subseteq Cmd
            /\ answer \in [Req -> Req \cup {None}]
            /\ msg_q \in Seq(Req \cup {Notice})

LEMMA AllTypesOfTypeOK == TypeOK => AllTypes
BY TypesOfTypeOK DEF TypeOK, AllTypes

-----------------------------------------------------------------------------
(* Handlers of requests *)

LEMMA EchoRegister ==
    ASSUME AllTypes, EchoInv, NEW r \in recv_tasks, Register(r)
    PROVE  EchoInv'
<1> USE DEF AllTypes, Types, EchoInv
<1>1. PICK e \in FreeEcho : /\ echo' = [echo EXCEPT ![r] = e]
                            /\ resp_map' = [resp_map EXCEPT ![e] = r]
  BY DEF Register
<1>2. /\ pc[r] = "start" /\ pc' = [pc EXCEPT ![r] = "registered"] /\ r \in Req /\ r # None
      /\ UNCHANGED <<cmd_q, cmd_tasks, recv_tasks, issued, answer, msg_q, mgr>>
      /\ e \in Echo /\ (e \in Inner => resp_map[e] = None)
  BY DEF Register, Goto, FreeEcho, Echo
<1>3. r \notin issued /\ r \notin Items(cmd_q) /\ r \notin cmd_tasks
  BY <1>2 DEF Tracked
<1>4. Tracked'
  <2>1. Items(cmd_q)' = Items(cmd_q) /\ Items(msg_q)' = Items(msg_q)
        /\ Distinct(cmd_q)' = Distinct(cmd_q)
    BY <1>2 DEF Items, Distinct
  <2> QED
    BY <1>1, <1>2, <1>3, <2>1 DEF Tracked
<1>5. Led'
  BY <1>1, <1>2 DEF Led
<1>6. Reserved'
  <2>1. ASSUME NEW c \in Req, Pending(c)', echo'[c] \in Inner
        PROVE  resp_map'[echo'[c]] = c
    <3>1. CASE c = r
      BY <1>1, <1>2, <3>1
    <3>2. CASE c # r
      <4>1. Pending(c) /\ echo[c] \in Inner /\ echo'[c] = echo[c]
        BY <1>1, <1>2, <2>1, <3>2 DEF Pending, Items
      <4>2. resp_map[echo[c]] = c
        BY <1>2, <4>1 DEF Reserved, Over
      <4>3. echo[c] # e
        BY <1>2, <4>1, <4>2
      <4> QED
        BY <1>1, <4>1, <4>2, <4>3 DEF Echo
    <3> QED
      BY <3>1, <3>2
  <2> QED
    BY <2>1 DEF Reserved
<1>7. Settled'
  BY <1>2 DEF Settled
<1>8. Correlated'
  BY <1>1, <1>2 DEF Settled, Correlated
<1> QED
  BY <1>4, <1>5, <1>6, <1>7, <1>8

\* A handler that goes on, or ends without a response to come.
LEMMA EchoGoto ==
    ASSUME AllTypes, EchoInv, NEW r \in recv_tasks, NEW at, Goto(r, at),
           pc[r] \in {"registered", "waiting"},
           at \in {"waiting", "respond"} \/ (at = "ended" /\ r \notin Action),
           UNCHANGED <<cmd_q, cmd_tasks, issued, echo, resp_map, answer, msg_q, mgr>>
    PROVE  EchoInv'
<1> USE DEF AllTypes, Types, EchoInv
<1>1. /\ pc' = [pc EXCEPT ![r] = at] /\ r \in Req /\ recv_tasks' \subseteq recv_tasks
      /\ Items(cmd_q)' = Items(cmd_q) /\ Items(msg_q)' = Items(msg_q)
      /\ Distinct(cmd_q)' = Distinct(cmd_q)
  BY DEF Goto, EndRecv, Items, Distinct
<1>2. r \notin issued
  BY DEF Tracked
<1>3. Tracked'
  BY <1>1, <1>2 DEF Tracked
<1>4. Led' /\ Settled' /\ Correlated'
  BY <1>1 DEF Led, Settled, Correlated
<1>5. Reserved'
  <2>1. \A c \in Req : Pending(c)' => Pending(c)
    BY <1>1 DEF Pending
  <2>2. \A c \in Req : Pending(c) /\ echo[c] \in Inner => resp_map[echo[c]] = c
    BY DEF Reserved, Over
  <2> QED
    BY <2>1, <2>2 DEF Reserved
<1> QED
  BY <1>3, <1>4, <1>5

LEMMA EchoHandOver ==
    ASSUME AllTypes, EchoInv, NEW r \in recv_tasks, HandOver(r)
    PROVE  EchoInv'
<1> USE DEF AllTypes, Types, EchoInv
<1>1. /\ pc[r] = "registered" /\ pc' = [pc EXCEPT ![r] = "ended"] /\ r \in Action
      /\ msg_q' = Append(msg_q, r)
      /\ UNCHANGED <<cmd_q, cmd_tasks, issued, echo, resp_map, answer>>
      /\ Items(cmd_q)' = Items(cmd_q) /\ Distinct(cmd_q)' = Distinct(cmd_q)
  BY DEF HandOver, Goto, Items, Distinct
<1>2. Items(msg_q)' = Items(msg_q) \cup {r}
  BY <1>1, ItemsAppend
<1>3. r \notin issued
  BY <1>1 DEF Tracked
<1>4. Tracked'
  BY <1>1, <1>2, <1>3 DEF Tracked
<1>5. Led' /\ Settled' /\ Correlated'
  BY <1>1 DEF Led, Settled, Correlated
<1>6. Reserved'
  <2>1. \A c \in Req : Pending(c)' => Pending(c)
    BY <1>1 DEF Pending
  <2>2. \A c \in Req : Pending(c) /\ echo[c] \in Inner => resp_map[echo[c]] = c
    BY DEF Reserved, Over
  <2> QED
    BY <1>1, <2>1, <2>2 DEF Reserved
<1> QED
  BY <1>4, <1>5, <1>6

\* A command is sent: of a request whose handler ends with it, of an action
\* that was handed over, or a close.
LEMMA EchoSend ==
    ASSUME AllTypes, EchoInv, NEW c \in Cmd, c \notin issued, SendCommand(c),
           issued' = issued \cup {c}, c \in Req => Pending(c) /\ pc'[c] = "ended",
           pc' = pc \/ (c \in Req /\ pc[c] # "start" /\ pc' = [pc EXCEPT ![c] = "ended"]),
           recv_tasks' \subseteq recv_tasks,
           UNCHANGED <<echo, resp_map, answer, msg_q>>
    PROVE  EchoInv'
<1> USE DEF AllTypes, Types, EchoInv
<1>1. /\ UNCHANGED <<cmd_tasks, mgr>> /\ Items(msg_q)' = Items(msg_q)
      /\ cmd_q' = IF MgrEnded THEN cmd_q ELSE Append(cmd_q, c)
  BY DEF SendCommand, Items
<1>2. c \notin Items(cmd_q) /\ c \notin cmd_tasks
  BY DEF Tracked
<1>3. /\ Items(cmd_q)' \subseteq Items(cmd_q) \cup {c}
      /\ Distinct(cmd_q)'
  <2>1. CASE MgrEnded
    <3>1. cmd_q' = cmd_q
      BY <1>1, <2>1
    <3> QED
      BY <3>1 DEF Tracked, Items, Distinct
  <2>2. CASE ~MgrEnded
    <3>1. cmd_q' = Append(cmd_q, c)
      BY <1>1, <2>2
    <3> QED
      BY <1>2, <3>1, ItemsAppend, DistinctAppend DEF Tracked
  <2> QED
    BY <2>1, <2>2
<1>4. \A d \in Req : pc[d] # "start" <=> pc'[d] # "start"
  OBVIOUS
<1>5. Tracked'
  <2>1. \A d \in Req : pc[d] = "ended" => pc'[d] = "ended"
    OBVIOUS
  <2> QED
    BY <1>1, <1>2, <1>3, <1>4, <2>1 DEF Tracked
<1>6. Led' /\ Settled' /\ Correlated'
  BY <1>4 DEF Led, Settled, Correlated
<1>7. Reserved'
  <2>1. \A d \in Req : Pending(d)' => Pending(d)
    BY <1>1, <1>3 DEF Pending
  <2> QED
    BY <1>1, <2>1 DEF Reserved, Over, MgrEnded
<1> QED
  BY <1>5, <1>6, <1>7

-----------------------------------------------------------------------------
(* Handlers of commands *)

LEMMA EchoRespond ==
    ASSUME AllTypes, EchoInv, NEW c \in Req, HandleRespond(c)
    PROVE  EchoInv'
<1> USE DEF AllTypes, Types, EchoInv
<1> DEFINE r == resp_map[echo[c]]
<1>1. /\ UNCHANGED <<cmd_q, recv_tasks, issued, pc, echo, msg_q>>
      /\ c \in cmd_tasks /\ cmd_tasks' = cmd_tasks \ {c}
      /\ resp_map' = [resp_map EXCEPT ![echo[c]] = None]
      /\ Items(cmd_q)' = Items(cmd_q) /\ Items(msg_q)' = Items(msg_q)
      /\ Distinct(cmd_q)' = Distinct(cmd_q)
  BY DEF HandleRespond, EndCmd, Items, Distinct
<1>2. c \in issued /\ c \notin Items(cmd_q) /\ pc[c] = "ended" /\ echo[c] \in Echo
  BY <1>1 DEF Tracked
<1>3. \A d \in Req : Pending(d) /\ echo[d] \in Inner => resp_map[echo[d]] = d
  BY <1>1 DEF Reserved, Over
<1>4. Pending(c)
  BY <1>1 DEF Pending
<1>5. Tracked'
  BY <1>1 DEF Tracked
<1>6. Led'
  BY <1>1 DEF Led
<1>7. Reserved'
  <2>1. ASSUME NEW d \in Req, Pending(d)', echo[d] \in Inner
        PROVE  resp_map'[echo[d]] = d
    <3>1. Pending(d) /\ d # c
      BY <1>1, <1>2, <2>1 DEF Pending
    <3>2. resp_map[echo[d]] = d /\ echo[d] # echo[c]
      BY <1>3, <1>4, <2>1, <3>1
    <3> QED
      BY <1>1, <2>1, <3>2 DEF Echo
  <2> QED
    BY <1>1, <2>1 DEF Reserved
<1>8. /\ \/ answer' = answer
         \/ r \in Req /\ answer' = [answer EXCEPT ![r] = c]
  BY <1>2 DEF HandleRespond
<1>9. r \in Req => /\ pc[r] # "start" /\ echo[r] = echo[c]
                   /\ echo[c] \in Inner => r = c
  BY <1>2, <1>3, <1>4 DEF Led
<1> HIDE DEF r
<1>10. Settled'
  BY <1>1, <1>2, <1>8, <1>9 DEF Settled
<1>11. Correlated'
  <2>1. CASE answer' = answer
    BY <1>1, <2>1 DEF Correlated
  <2>2. CASE r \in Req /\ answer' = [answer EXCEPT ![r] = c]
    BY <1>1, <1>2, <1>9, <2>2 DEF Correlated, Echo
  <2> QED
    BY <1>8, <2>1, <2>2
<1> QED
  BY <1>5, <1>6, <1>7, <1>10, <1>11

\* Everything else leaves the echoes and the map alone.
LEMMA EchoFrame ==
    ASSUME AllTypes, EchoInv, UNCHANGED <<issued, pc, echo, resp_map, answer>>,
           Items(cmd_q)' \cup cmd_tasks' \subseteq Items(cmd_q) \cup cmd_tasks,
           Items(cmd_q)' \cap cmd_tasks' = {}, Distinct(cmd_q)',
           Items(msg_q)' \cap Req \subseteq Items(msg_q), Over => Over'
    PROVE  EchoInv'
<1> USE DEF AllTypes, Types, EchoInv
<1>1. Tracked'
  BY DEF Tracked
<1>2. Led' /\ Settled' /\ Correlated'
  BY DEF Led, Settled, Correlated
<1>3. \A d \in Req : Pending(d)' => Pending(d)
  BY DEF Pending
<1>4. Reserved'
  BY <1>3 DEF Reserved
<1> QED
  BY <1>1, <1>2, <1>4

LEMMA EchoServe ==
    ASSUME AllTypes, EchoInv, Serve
    PROVE  EchoInv'
<1> USE DEF AllTypes, Types
<1>1. UNCHANGED <<issued, pc, echo, resp_map, answer, msg_q>> /\ Items(msg_q)' = Items(msg_q)
  BY DEF Serve, impVars, Items
<1>2. Items(cmd_q) \cap cmd_tasks = {} /\ Distinct(cmd_q)
  BY DEF EchoInv, Tracked
<1>3. CASE TakeCmd
  <2>1. /\ cmd_q # << >> /\ cmd_q' = Tail(cmd_q) /\ cmd_tasks' = cmd_tasks \cup {Head(cmd_q)}
        /\ mgr = "select"
    BY <1>3 DEF TakeCmd
  <2>2. Items(cmd_q) = {Head(cmd_q)} \cup Items(cmd_q)'
    BY <2>1, ItemsTail
  <2>3. Distinct(cmd_q)' /\ Head(cmd_q) \notin Items(cmd_q)'
    BY <1>2, <2>1, DistinctTail
  <2> QED
    BY <1>1, <1>2, <2>1, <2>2, <2>3, EchoFrame DEF Over, MgrEnded
<1>4. CASE TakeBody \/ Check \/ StopServer \/ ServerStopped \/ ServerSignal
  <2>1. UNCHANGED <<cmd_q, cmd_tasks>> /\ (Over => Over')
    BY <1>4 DEF TakeBody, Check, StopServer, ServerStopped, ServerSignal, Over, MgrEnded
  <2>2. Items(cmd_q)' = Items(cmd_q) /\ Distinct(cmd_q)'
    BY <1>2, <2>1 DEF Items, Distinct
  <2> QED
    BY <1>1, <1>2, <2>1, <2>2, EchoFrame
<1> QED
  BY <1>3, <1>4 DEF Serve, Working

LEMMA EchoStep == TypeOK /\ EchoInv /\ [Next]_vars => EchoInv'
<1> SUFFICES ASSUME AllTypes, EchoInv, [Next]_vars
             PROVE  EchoInv'
  BY AllTypesOfTypeOK
<1> USE DEF AllTypes, Types
<1>1. Items(cmd_q) \cap cmd_tasks = {} /\ Distinct(cmd_q)
  BY DEF EchoInv, Tracked
<1>2. ASSUME UNCHANGED <<cmd_q, cmd_tasks, recv_tasks, mgr, issued, pc, echo, resp_map, answer, msg_q>>
      PROVE  EchoInv'
  <2>1. /\ Items(cmd_q)' = Items(cmd_q) /\ Items(msg_q)' = Items(msg_q) /\ Distinct(cmd_q)'
        /\ Over' = Over
    BY <1>1, <1>2 DEF Items, Distinct, Over, MgrEnded
  <2> QED
    BY <1>1, <1>2, <2>1, EchoFrame
<1>3. CASE UNCHANGED vars \/ \E e \in Event : SendEvent(e)
  BY <1>2, <1>3 DEF vars, taskVars, impVars, SendEvent
<1>4. ASSUME NEW c \in Action \cup Closer, Issue(c)
      PROVE  EchoInv'
  <2>1. /\ c \in Cmd /\ c \notin issued /\ SendCommand(c) /\ issued' = issued \cup {c}
        /\ UNCHANGED <<recv_tasks, pc, echo, resp_map, answer, msg_q>>
    BY <1>4 DEF Issue
  <2>2. c \in Req => Pending(c) /\ pc'[c] = "ended"
    BY <1>4, <2>1 DEF Issue, EchoInv, Tracked, Pending
  <2> QED
    BY <2>1, <2>2, EchoSend
<1>5. ASSUME NEW c \in Closer, HandleClose(c)
      PROVE  EchoInv'
  <2>1. /\ cmd_tasks' = cmd_tasks \ {c}
        /\ UNCHANGED <<cmd_q, recv_tasks, mgr, issued, pc, echo, resp_map, answer, msg_q>>
    BY <1>5 DEF HandleClose, EndCmd, impVars
  <2>2. Items(cmd_q)' = Items(cmd_q) /\ Items(msg_q)' = Items(msg_q) /\ Distinct(cmd_q)'
        /\ (Over => Over')
    BY <1>1, <2>1 DEF Items, Distinct, Over, MgrEnded
  <2> QED
    BY <1>1, <2>1, <2>2, EchoFrame
<1>6. ASSUME NEW r \in recv_tasks, RecvHandler(r)
      PROVE  EchoInv'
  <2>1. CASE Register(r)
    BY <2>1, EchoRegister
  <2>2. CASE HandOver(r)
    BY <2>2, EchoHandOver
  <2>3. CASE GiveUp(r)
    BY <2>3, EchoGoto DEF GiveUp
  <2>4. CASE TakeEvents(r) \/ DrainPanics(r)
    BY <2>4, EchoGoto DEF TakeEvents, DrainPanics
  <2>5. CASE AwaitEvents(r) \/ TimeOut(r)
    BY <2>5, EchoGoto DEF AwaitEvents, TimeOut
  <2>6. CASE RespondEvents(r)
    <3>1. /\ pc[r] = "respond" /\ pc' = [pc EXCEPT ![r] = "ended"] /\ SendCommand(r)
          /\ issued' = issued \cup {r} /\ recv_tasks' \subseteq recv_tasks
          /\ UNCHANGED <<echo, resp_map, answer, msg_q>>
      BY <2>6 DEF RespondEvents, Goto, EndRecv
    <3>2. r \in Req /\ r \in Cmd /\ r \notin issued /\ Pending(r) /\ pc'[r] = "ended"
      BY <3>1 DEF EchoInv, Tracked, Pending
    <3> QED
      BY <3>1, <3>2, EchoSend
  <2> QED
    BY <1>6, <2>1, <2>2, <2>3, <2>4, <2>5, <2>6 DEF RecvHandler
<1>7. ASSUME NEW r \in Req, PassBodyImp(r) \/ Client(r)
      PROVE  EchoInv'
  BY <1>2, <1>7 DEF PassBodyImp, PassBody, Client, Connection, Accept, Refuse, HangUp, KeepAlive,
                    impVars
<1>8. CASE FinishImp
  <2>1. /\ cmd_q' = << >> /\ msg_q' = Append(msg_q, Notice) /\ mgr = "finish"
        /\ UNCHANGED <<cmd_tasks, issued, pc, echo, resp_map, answer>>
    BY <1>8 DEF FinishImp, Finish
  <2>2. Items(cmd_q)' = {} /\ Distinct(cmd_q)'
    BY <2>1 DEF Items, Distinct
  <2>3. Items(msg_q)' \cap Req \subseteq Items(msg_q)
    <3>1. msg_q \in Seq(Req \cup {Notice}) /\ Notice \in Req \cup {Notice}
      OBVIOUS
    <3>2. Items(msg_q)' = Items(Append(msg_q, Notice))
      BY <2>1 DEF Items
    <3>3. Items(Append(msg_q, Notice)) = Items(msg_q) \cup {Notice}
      BY <3>1, ItemsAppend
    <3>4. Notice \notin Req
      BY ImpAssumption
    <3> QED
      BY <3>2, <3>3, <3>4
  <2> QED
    BY <2>1, <2>2, <2>3, EchoFrame DEF Over, MgrEnded
<1>9. CASE ReleaseMap
  <2>1. /\ UNCHANGED <<cmd_q, cmd_tasks, recv_tasks, mgr, issued, pc, echo, answer, msg_q>>
        /\ Over /\ resp_map' = [e \in Echo |-> None]
        /\ Items(cmd_q)' = Items(cmd_q) /\ Items(msg_q)' = Items(msg_q) /\ Distinct(cmd_q)'
    BY <1>1, <1>9 DEF ReleaseMap, Over, MgrEnded, Items, Distinct
  <2>2. Over'
    BY <2>1 DEF Over, MgrEnded
  <2>3. Led'
    BY <2>1 DEF Led
  <2>4. Tracked' /\ Settled' /\ Correlated'
    BY <2>1 DEF EchoInv, Tracked, Settled, Correlated
  <2> QED
    BY <2>2, <2>3, <2>4 DEF EchoInv, Reserved
<1>10. ASSUME NEW c \in Req, HandleRespond(c)
       PROVE  EchoInv'
  BY <1>10, EchoRespond
<1> QED
  BY <1>3, <1>4, <1>5, <1>6, <1>7, <1>8, <1>9, <1>10, EchoServe DEF Next, CmdHandler, RecvHandler

LEMMA EchoInvariant == Spec => []EchoInv
<1>1. ASSUME Init
      PROVE  EchoInv
  <2>1. /\ cmd_q = << >> /\ msg_q = << >> /\ cmd_tasks = {} /\ issued = {}
        /\ \A r \in Req : pc[r] = "start" /\ answer[r] = None
        /\ \A e \in Echo : resp_map[e] = None
    BY <1>1 DEF Init, TaskInit
  <2>2. Items(cmd_q) = {} /\ Items(msg_q) = {} /\ Distinct(cmd_q)
    BY <2>1 DEF Items, Distinct
  <2>3. \A c \in Req : ~Pending(c)
    BY <2>1, <2>2 DEF Pending
  <2> QED
    BY <2>1, <2>2, <2>3 DEF EchoInv, Tracked, Led, Reserved, Settled, Correlated
<1> QED
  BY <1>1, EchoStep, Typing, PTL DEF Spec

(***************************************************************************)
(* A response reaches the client whose request it answers, or one that     *)
(* chose the same echo; a number the server drew leads to one client only, *)
(* whatever handlers run at once and whenever the server is closed.        *)
(***************************************************************************)
THEOREM CorrelatedTheorem == Spec => []Correlated
<1>1. EchoInv => Correlated
  BY DEF EchoInv
<1> QED
  BY <1>1, EchoInvariant, PTL

-----------------------------------------------------------------------------
(* The abstract calls *)

\* A response reaches a client that waits, and stays with it.
Answered ==
    \A r \in Req :
        /\ answer[r] # None => answer[r] \in issued /\ http[r] \in {"answered", "over"}
        /\ http[r] = "answered" => answer[r] # None

LEMMA AnsweredStep == TypeOK /\ EchoInv /\ Answered /\ [Next]_vars => Answered'
<1> SUFFICES ASSUME AllTypes, EchoInv, Answered, [Next]_vars
             PROVE  Answered'
  BY AllTypesOfTypeOK
<1> USE DEF AllTypes, Types, Answered
<1>1. ASSUME UNCHANGED answer, issued \subseteq issued',
             \A r \in Req : \/ http'[r] = http[r]
                            \/ http[r] = "answered" /\ http'[r] = "over"
                            \/ http[r] \notin {"answered", "over"} /\ http'[r] # "answered"
      PROVE  Answered'
  BY <1>1
<1>2. ASSUME NEW c \in Cmd, Issue(c)
      PROVE  Answered'
  BY <1>1, <1>2 DEF Issue
<1>3. ASSUME NEW c \in Req, HandleRespond(c)
      PROVE  Answered'
  <2>1. c \in issued /\ UNCHANGED issued /\ c # None
    BY <1>3 DEF HandleRespond, EndCmd, EchoInv, Tracked
  <2>2. CASE UNCHANGED <<http, answer>>
    BY <2>1, <2>2
  <2>3. ASSUME NEW r, http[r] = "waiting", http' = [http EXCEPT ![r] = "answered"],
               answer' = [answer EXCEPT ![r] = c]
        PROVE  Answered'
    BY <2>1, <2>3
  <2> QED
    BY <1>3, <2>2, <2>3 DEF HandleRespond
<1>4. ASSUME NEW r \in Req, RecvHandler(r)
      PROVE  Answered'
  <2>1. CASE Register(r)
    BY <1>1, <2>1 DEF Register, Failing
  <2>2. CASE HandOver(r) \/ GiveUp(r) \/ TakeEvents(r) \/ DrainPanics(r)
    BY <1>1, <2>2 DEF HandOver, GiveUp, TakeEvents, DrainPanics
  <2>3. CASE AwaitEvents(r) \/ TimeOut(r) \/ RespondEvents(r)
    BY <1>1, <2>3 DEF AwaitEvents, TimeOut, RespondEvents
  <2> QED
    BY <1>4, <2>1, <2>2, <2>3 DEF RecvHandler
<1>5. ASSUME NEW r \in Req, PassBodyImp(r)
      PROVE  Answered'
  BY <1>1, <1>5 DEF PassBodyImp, PassBody, impVars
<1>6. ASSUME NEW r \in Req, Client(r)
      PROVE  Answered'
  <2>1. UNCHANGED impVars
    BY <1>6 DEF Client
  <2>2. CASE Accept(r) \/ Refuse(r) \/ HangUp(r)
    BY <1>1, <2>1, <2>2 DEF Accept, Refuse, HangUp, impVars
  <2>3. ASSUME NEW p \in Req, KeepAlive(p, r)
        PROVE  Answered'
    BY <1>1, <2>1, <2>3 DEF KeepAlive, impVars
  <2> QED
    BY <1>6, <2>2, <2>3 DEF Client, Connection
<1>7. CASE FinishImp \/ ReleaseMap
  BY <1>1, <1>7 DEF FinishImp, Finish, ReleaseMap, Failing
<1>8. CASE Serve \/ UNCHANGED vars \/ \E e \in Event : SendEvent(e)
  BY <1>1, <1>8 DEF Serve, Working, TakeBody, TakeCmd, Check, StopServer, ServerStopped,
                    ServerSignal, SendEvent, vars, impVars, taskVars
<1>9. ASSUME NEW c \in Closer, HandleClose(c)
      PROVE  Answered'
  BY <1>1, <1>9 DEF HandleClose, impVars
<1> QED
  BY <1>2, <1>3, <1>4, <1>5, <1>6, <1>7, <1>8, <1>9 DEF Next, CmdHandler

LEMMA AnsweredInvariant == Spec => []Answered
<1>1. Init => Answered
  BY DEF Init, TaskInit, Answered
<1> QED
  BY <1>1, AnsweredStep, Typing, EchoInvariant, PTL DEF Spec

\* A client asks; what becomes of other requests is the same.
LEMMA CallsAsk ==
    ASSUME AllTypes, Answered, NEW r \in Req, http[r] = "none", http'[r] = "open",
           \A q \in Req \ {r} : http'[q] = http[q] \/ {http[q], http'[q]} \subseteq Final,
           UNCHANGED <<issued, answer>>
    PROVE  Calls!Ask(r)
<1> USE DEF AllTypes, Types, Answered, Final
<1>1. answer[r] = None
  OBVIOUS
<1>2. {q \in Req : http[q] # "none"}' = {q \in Req : http[q] # "none"} \cup {r}
  OBVIOUS
<1> QED
  BY <1>1, <1>2 DEF Calls!Ask

\* Requests end, without an answer or after it.
LEMMA CallsFail ==
    ASSUME AllTypes, Answered, UNCHANGED <<issued, answer>>,
           \A r \in Req : /\ http[r] = "none" <=> http'[r] = "none"
                          /\ http[r] \in Final => http'[r] \in Final
    PROVE  [Calls!CallsNext]_Calls!callVars
<1>0. PICK S \in SUBSET Req : S = {r \in Req : http[r] \notin Final /\ http'[r] \in Final}
  OBVIOUS
<1>1. {q \in Req : http[q] # "none"}' = {q \in Req : http[q] # "none"}
  OBVIOUS
<1>2. \A r \in Req : http[r] \notin Final => answer[r] = None
  BY DEF Answered, Final
<1>3. \A r \in S : http[r] # "none"
  BY <1>0 DEF Final
<1>4. CASE S = {}
  <2>1. \A r \in Req : http'[r] \in Final <=> http[r] \in Final
    BY <1>0, <1>4
  <2> QED
    BY <1>1, <2>1 DEF Calls!callVars
<1>5. CASE S # {}
  <2> DEFINE Result(r) == IF answer[r] # None THEN answer[r]
                          ELSE IF http[r] \in Final THEN "failed" ELSE None
  <2>1. \A c \in S : Result(c) = None
    BY <1>0, <1>2
  <2>2. \A c \in Req : Result(c)' = IF c \in S THEN "failed" ELSE Result(c)
    BY <1>0, <1>2
  <2>3. [c \in Req |-> Result(c)]'
            = [c \in Req |-> IF c \in S THEN "failed" ELSE [q \in Req |-> Result(q)][c]]
    BY <2>2
  <2>4. Calls!Fail(S)
    BY <1>1, <1>3, <1>5, <2>1, <2>3 DEF Calls!Fail
  <2> QED
    BY <2>4 DEF Calls!CallsNext
<1> QED
  BY <1>4, <1>5

\* A response is on its way.
LEMMA CallsServe ==
    ASSUME NEW c \in Req, http[c] # "none", c \notin issued, issued' = issued \cup {c},
           UNCHANGED <<http, answer>>
    PROVE  Calls!Serve(c)
BY DEF Calls!Serve

\* The response arrives, or its client is not there any more.
LEMMA CallsAnswer ==
    ASSUME Outer = {}, AllTypes, EchoInv, Answered, NEW c \in Req, HandleRespond(c)
    PROVE  [Calls!CallsNext]_Calls!callVars
<1> USE DEF AllTypes, Types
<1>1. c \in cmd_tasks /\ UNCHANGED issued
  BY DEF HandleRespond, EndCmd
<1>2. resp_map[echo[c]] = c /\ c \in issued
  <2>1. echo[c] \in Inner /\ c \in issued
    BY <1>1 DEF EchoInv, Tracked, Echo
  <2> QED
    BY <1>1, <2>1 DEF EchoInv, Reserved, Over, Pending
<1>3. CASE http[c] = "waiting"
  <2>1. /\ http' = [http EXCEPT ![c] = "answered"] /\ answer' = [answer EXCEPT ![c] = c]
        /\ c # None
    BY <1>2, <1>3 DEF HandleRespond
  <2>2. answer[c] = None
    BY <1>3 DEF Answered
  <2>3. {q \in Req : http[q] # "none"}' = {q \in Req : http[q] # "none"}
    BY <1>3, <2>1
  <2>4. Calls!Answer(c)
    BY <1>1, <1>2, <1>3, <2>1, <2>2, <2>3 DEF Calls!Answer, Final
  <2> QED
    BY <2>4 DEF Calls!CallsNext
<1>4. CASE http[c] # "waiting"
  BY <1>1, <1>2, <1>4 DEF HandleRespond, Calls!callVars
<1> QED
  BY <1>3, <1>4

LEMMA CallsStep ==
    Outer = {} /\ TypeOK /\ HeldInv /\ EchoInv /\ Answered /\ [Next]_vars
        => [Calls!CallsNext]_Calls!callVars
<1> SUFFICES ASSUME Outer = {}, AllTypes, HeldInv, EchoInv, Answered, [Next]_vars
             PROVE  [Calls!CallsNext]_Calls!callVars
  BY AllTypesOfTypeOK
<1>1. ASSUME UNCHANGED <<http, issued, answer>>
      PROVE  UNCHANGED Calls!callVars
  BY <1>1 DEF Calls!callVars
<1>2. \A r \in Req : pc[r] # "start" => http[r] # "none"
  BY DEF HeldInv, Placed
<1>3. ASSUME NEW c \in Action \cup Closer, Issue(c)
      PROVE  [Calls!CallsNext]_Calls!callVars
  <2>1. /\ c \notin issued /\ issued' = issued \cup {c} /\ UNCHANGED <<http, answer>>
        /\ c \in Action => c \in Items(msg_q)
    BY <1>3 DEF Issue
  <2>2. CASE c \in Action
    <3>1. c \in Req /\ pc[c] # "start"
      BY <2>1, <2>2 DEF EchoInv, Tracked
    <3> QED
      BY <1>2, <2>1, <3>1, CallsServe DEF Calls!CallsNext
  <2>3. CASE c \in Closer
    <3>1. (issued \cap Req)' = issued \cap Req
      BY <2>1, <2>3
    <3> QED
      BY <2>1, <3>1 DEF Calls!callVars
  <2> QED
    BY <2>2, <2>3
<1>4. ASSUME NEW r \in Req, RecvHandler(r)
      PROVE  [Calls!CallsNext]_Calls!callVars
  <2>1. CASE Register(r)
    <3>1. UNCHANGED <<issued, answer>>
      BY <2>1 DEF Register
    <3>2. \A q \in Req : http'[q] = http[q] \/ (http[q] = "waiting" /\ http'[q] = "failed")
      BY <2>1 DEF Register, Failing
    <3> QED
      BY <3>1, <3>2, CallsFail DEF Final
  <2>2. CASE HandOver(r) \/ GiveUp(r) \/ TakeEvents(r) \/ DrainPanics(r)
    BY <1>1, <2>2 DEF HandOver, GiveUp, TakeEvents, DrainPanics
  <2>3. CASE AwaitEvents(r) \/ TimeOut(r)
    BY <1>1, <2>3 DEF AwaitEvents, TimeOut
  <2>4. CASE RespondEvents(r)
    <3>1. /\ pc[r] = "respond" /\ issued' = issued \cup {r} /\ UNCHANGED <<http, answer>>
      BY <2>4 DEF RespondEvents
    <3>2. r \notin issued
      BY <3>1 DEF EchoInv, Tracked
    <3> QED
      BY <1>2, <3>1, <3>2, CallsServe DEF Calls!CallsNext
  <2> QED
    BY <1>4, <2>1, <2>2, <2>3, <2>4 DEF RecvHandler
<1>5. ASSUME NEW r \in Req, PassBodyImp(r)
      PROVE  [Calls!CallsNext]_Calls!callVars
  <2>1. /\ http[r] = "open" /\ http' = [http EXCEPT ![r] = IF MgrEnded THEN "cut" ELSE "waiting"]
        /\ UNCHANGED <<issued, answer>>
    BY <1>5 DEF PassBodyImp, PassBody, impVars
  <2>2. \A q \in Req : http'[q] = http[q] \/ (http[q] = "open" /\ http'[q] \in {"cut", "waiting"})
    BY <2>1 DEF AllTypes, Types
  <2> QED
    BY <2>1, <2>2, CallsFail DEF Final
<1>6. ASSUME NEW r \in Req, Client(r)
      PROVE  [Calls!CallsNext]_Calls!callVars
  <2>1. UNCHANGED <<issued, answer>>
    BY <1>6 DEF Client, impVars
  <2>2. CASE Accept(r)
    <3>1. http[r] = "none" /\ http' = [http EXCEPT ![r] = "open"]
      BY <2>2 DEF Accept
    <3>2. Calls!Ask(r)
      BY <2>1, <3>1, CallsAsk DEF AllTypes, Types
    <3> QED
      BY <3>2 DEF Calls!CallsNext
  <2>3. ASSUME NEW p \in Req, KeepAlive(p, r)
        PROVE  [Calls!CallsNext]_Calls!callVars
    <3>1. /\ http[p] \in {"answered", "refused", "failed"} /\ http[r] = "none"
          /\ http' = [http EXCEPT ![p] = "over", ![r] = "open"]
      BY <2>3 DEF KeepAlive
    <3>2. /\ http'[r] = "open"
          /\ \A q \in Req \ {r} : http'[q] = http[q] \/ {http[q], http'[q]} \subseteq Final
      BY <3>1 DEF AllTypes, Types, Final
    <3>3. Calls!Ask(r)
      BY <2>1, <3>1, <3>2, CallsAsk
    <3> QED
      BY <3>3 DEF Calls!CallsNext
  <2>4. CASE Refuse(r) \/ HangUp(r)
    <3>1. \A q \in Req : \/ http'[q] = http[q]
                         \/ http[q] \in {"open", "waiting"} /\ http'[q] \in {"refused", "gone"}
      BY <2>4 DEF Refuse, HangUp, AllTypes, Types
    <3> QED
      BY <2>1, <3>1, CallsFail DEF Final
  <2> QED
    BY <1>6, <2>2, <2>3, <2>4 DEF Client, Connection
<1>7. CASE FinishImp \/ ReleaseMap
  <2>1. UNCHANGED <<issued, answer>>
    BY <1>7 DEF FinishImp, ReleaseMap
  <2>2. \A q \in Req : http'[q] = http[q] \/ (http[q] = "waiting" /\ http'[q] = "failed")
    BY <1>7 DEF FinishImp, Finish, ReleaseMap, Failing
  <2> QED
    BY <2>1, <2>2, CallsFail DEF Final
<1>8. CASE Serve \/ UNCHANGED vars \/ \E e \in Event : SendEvent(e)
  BY <1>1, <1>8 DEF Serve, Working, TakeBody, TakeCmd, Check, StopServer, ServerStopped,
                    ServerSignal, SendEvent, vars, impVars, taskVars
<1>9. ASSUME NEW c \in Closer, HandleClose(c)
      PROVE  [Calls!CallsNext]_Calls!callVars
  BY <1>1, <1>9 DEF HandleClose, impVars
<1> QED
  BY <1>3, <1>4, <1>5, <1>6, <1>7, <1>8, <1>9, CallsAnswer DEF Next, CmdHandler

(***************************************************************************)
(* Where no client chooses an echo the server, with all its tasks, its map *)
(* and its event queue, implements the abstract calls: each request gets   *)
(* the response to it, or fails, at most once.                             *)
(***************************************************************************)
THEOREM CallsTheorem == Outer = {} => (Spec => ImplementsCalls)
<1> SUFFICES ASSUME Outer = {}
             PROVE  Spec => ImplementsCalls
  OBVIOUS
<1>1. Init => Calls!CallsInit
  BY DEF Init, TaskInit, Calls!CallsInit, Final
<1>2. TypeOK /\ HeldInv /\ EchoInv /\ Answered /\ [Next]_vars
          => [Calls!CallsNext]_Calls!callVars
  BY CallsStep
<1> QED
  BY <1>1, <1>2, Typing, HeldInvariant, EchoInvariant, AnsweredInvariant, PTL
     DEF Spec, ImplementsCalls, Calls!CallsSpec
=============================================================================
