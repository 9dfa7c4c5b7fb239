--------------------------- MODULE Webhook_proofs ---------------------------
(***************************************************************************)
(* Proofs about Webhook, for any requests, events, actions and numbers of  *)
(* releases.                                                               *)
(***************************************************************************)
EXTENDS Webhook, SequenceTheorems, TLAPS

-----------------------------------------------------------------------------
(* Lemmas about sequences *)

LEMMA ItemsAppend ==
    ASSUME NEW S, NEW q \in Seq(S), NEW x \in S
    PROVE  Append(q, x) \in Seq(S) /\ Items(Append(q, x)) = Items(q) \cup {x}
<1>1. \A i \in DOMAIN Append(q, x) : Append(q, x)[i] \in Items(q) \cup {x}
  BY DEF Items
<1>2. Append(q, x)[Len(q) + 1] = x /\ Len(q) + 1 \in DOMAIN Append(q, x)
  OBVIOUS
<1>3. \A i \in DOMAIN q : i \in DOMAIN Append(q, x) /\ Append(q, x)[i] = q[i]
  OBVIOUS
<1>4. Items(Append(q, x)) = Items(q) \cup {x}
  BY <1>1, <1>2, <1>3, Zenon DEF Items
<1> QED
  BY <1>4

LEMMA ItemsTail ==
    ASSUME NEW S, NEW q \in Seq(S), q # << >>
    PROVE  /\ Items(q) = {Head(q)} \cup Items(Tail(q))
           /\ Head(q) \in S /\ Tail(q) \in Seq(S)
<1>1. Head(q) = q[1] /\ 1 \in DOMAIN q
  OBVIOUS
<1>2. \A i \in DOMAIN Tail(q) : i + 1 \in DOMAIN q /\ Tail(q)[i] = q[i + 1]
  OBVIOUS
<1>3. \A i \in DOMAIN q : i # 1 => i - 1 \in DOMAIN Tail(q) /\ Tail(q)[i - 1] = q[i]
  OBVIOUS
<1>4. Items(q) \subseteq {Head(q)} \cup Items(Tail(q))
  <2> SUFFICES ASSUME NEW i \in DOMAIN q
               PROVE  q[i] \in {Head(q)} \cup Items(Tail(q))
    BY Zenon DEF Items
  <2>1. CASE i = 1
    BY <1>1, <2>1
  <2>2. CASE i # 1
    BY <1>3, <2>2, Zenon DEF Items
  <2> QED
    BY <2>1, <2>2
<1>5. {Head(q)} \cup Items(Tail(q)) \subseteq Items(q)
  <2>1. Head(q) \in Items(q)
    BY <1>1, Zenon DEF Items
  <2>2. \A i \in DOMAIN Tail(q) : Tail(q)[i] \in Items(q)
    BY <1>2, Zenon DEF Items
  <2> QED
    BY <2>1, <2>2, Zenon DEF Items
<1> QED
  BY <1>1, <1>4, <1>5

Distinct(q) == \A i, j \in DOMAIN q : q[i] = q[j] => i = j

LEMMA DistinctAppend ==
    ASSUME NEW S, NEW q \in Seq(S), NEW x \in S, Distinct(q), x \notin Items(q)
    PROVE  Distinct(Append(q, x))
<1> DEFINE p == Append(q, x)
<1>1. /\ DOMAIN p = 1..(Len(q) + 1) /\ DOMAIN q = 1..Len(q) /\ Len(q) \in Nat
      /\ p[Len(q) + 1] = x
      /\ \A i \in DOMAIN q : p[i] = q[i]
  OBVIOUS
<1> HIDE DEF p
<1>2. \A i \in DOMAIN q : p[i] # x
  BY <1>1, Zenon DEF Items
<1> SUFFICES ASSUME NEW i \in DOMAIN p, NEW j \in DOMAIN p, p[i] = p[j]
             PROVE  i = j
  BY Zenon DEF Distinct, p
<1>3. CASE i \in DOMAIN q /\ j \in DOMAIN q
  BY <1>1, <1>3, Zenon DEF Distinct
<1>4. CASE i \notin DOMAIN q \/ j \notin DOMAIN q
  BY <1>1, <1>2, <1>4
<1> QED
  BY <1>3, <1>4

LEMMA DistinctTail ==
    ASSUME NEW S, NEW q \in Seq(S), q # << >>, Distinct(q)
    PROVE  Distinct(Tail(q)) /\ Head(q) \notin Items(Tail(q))
<1> DEFINE p == Tail(q)
<1>1. /\ Head(q) = q[1] /\ 1 \in DOMAIN q
      /\ \A i \in DOMAIN p : i \in Nat \ {0} /\ i + 1 \in DOMAIN q /\ p[i] = q[i + 1]
  OBVIOUS
<1> HIDE DEF p
<1>2. \A i, j \in DOMAIN p : p[i] = p[j] => i = j
  BY <1>1 DEF Distinct
<1>3. \A i \in DOMAIN p : p[i] # Head(q)
  BY <1>1 DEF Distinct
<1> QED
  BY <1>2, <1>3, Zenon DEF Distinct, Items, p

-----------------------------------------------------------------------------
(* Types of the task *)

\* The manager, server_task, connections and the bodies they pass on.
LEMMA TaskTypes ==
    ASSUME TaskTypeOK,
           Working \/ ServerSignal \/ Finish \/ \E r \in Req : PassBody(r) \/ Connection(r)
    PROVE  TaskTypeOK'
<1> USE DEF TaskTypeOK, Final
<1>1. CASE TakeBody
  BY <1>1, ItemsTail DEF TakeBody
<1>2. CASE TakeCmd
  BY <1>2, ItemsTail DEF TakeCmd
<1>3. CASE Check \/ StopServer \/ ServerStopped \/ ServerSignal
  BY <1>3 DEF Check, StopServer, ServerStopped, ServerSignal
<1>4. CASE Finish
  BY <1>4 DEF Finish, Failing
<1>5. ASSUME NEW r \in Req, PassBody(r)
      PROVE  TaskTypeOK'
  BY <1>5 DEF PassBody
<1>6. ASSUME NEW r \in Req, Connection(r)
      PROVE  TaskTypeOK'
  <2>1. UNCHANGED <<cmd_q, body_q, active, mgr, cmd_tasks, recv_tasks, server>>
    BY <1>6 DEF Connection, Accept, Refuse, HangUp, KeepAlive
  <2>2. http' \in [Req -> {"none", "open", "waiting"} \cup Final]
    <3>1. CASE Accept(r)
      BY <3>1 DEF Accept
    <3>2. CASE Refuse(r)
      BY <3>2 DEF Refuse
    <3>3. CASE HangUp(r)
      BY <3>3 DEF HangUp
    <3>4. ASSUME NEW p \in Req, KeepAlive(p, r)
          PROVE  <2>2
      BY <3>4 DEF KeepAlive
    <3> QED
      BY <1>6, <3>1, <3>2, <3>3, <3>4 DEF Connection
  <2> QED
    BY <2>1, <2>2
<1> QED
  BY <1>1, <1>2, <1>3, <1>4, <1>5, <1>6 DEF Working

USE WebhookAssumption

-----------------------------------------------------------------------------
(* Types *)

\* A release on its way has been made.
Made == \A c \in (Items(cmd_q) \cup cmd_tasks) \cap Release : c[2] =< released[c[1]]

\* The conjuncts of TypeOK that are about one variable.
Types ==
    /\ event \in [Req -> Id]
    /\ closing \subseteq Closer
    /\ pc \in [Req -> {"start", "registered", "ended"}]
    /\ actions_map \in [Id -> Req \cup {None}]
    /\ msgs \subseteq Req \cup {Notice}
    /\ owner \subseteq msgs \cap Req
    /\ actions \in [Req -> Seq(Act)]
    /\ released \in [Req -> 0..MaxRelease]
    /\ taken \in [Release -> Seq(Act)]
    /\ answer \in [Req -> Release \cup {None}]

\* Those that relate several.
Related ==
    \A r \in Req : /\ pc[r] = "registered" => r \in recv_tasks
                   /\ released[r] > 0 => r \in owner
                   /\ answer[r] # None => answer[r][2] =< released[answer[r][1]]

TypeInv == TypeOK /\ Made

LEMMA TypeParts == TypeOK <=> TaskTypeOK /\ Types /\ Related
BY DEF TypeOK, Types, Related

LEMMA ReleaseParts ==
    ASSUME NEW c \in Release
    PROVE  c[1] \in Req /\ c[2] \in 1..MaxRelease /\ c = <<c[1], c[2]>> /\ c \in Cmd
BY DEF Release

\* A command is sent, or nobody is left to receive it.
LEMMA SendTypes ==
    ASSUME TaskTypeOK, NEW c \in Cmd, SendCommand(c), UNCHANGED <<recv_tasks, http>>
    PROVE  TaskTypeOK' /\ Items(cmd_q)' \subseteq Items(cmd_q) \cup {c}
                       /\ UNCHANGED <<body_q, cmd_tasks, mgr>>
<1>1. CASE MgrEnded
  BY <1>1 DEF SendCommand, TaskTypeOK, Final, Items
<1>2. CASE ~MgrEnded
  <2>1. cmd_q' = Append(cmd_q, c) /\ cmd_q \in Seq(Cmd)
    BY <1>2 DEF SendCommand, TaskTypeOK
  <2>2. cmd_q' \in Seq(Cmd)
    BY <2>1
  <2>3. Items(cmd_q)' = Items(cmd_q) \cup {c}
    BY <2>1, ItemsAppend
  <2> QED
    BY <1>2, <2>2, <2>3 DEF SendCommand, TaskTypeOK, Final
<1> QED
  BY <1>1, <1>2

\* The steps of the server and its clients: no command is made of nothing.
LEMMA TaskSteps ==
    ASSUME TaskTypeOK, (Working \/ ServerSignal) \/ Finish \/ \E r \in Req : PassBody(r) \/ Connection(r)
    PROVE  /\ TaskTypeOK'
           /\ recv_tasks \subseteq recv_tasks'
           /\ Items(cmd_q)' \cup cmd_tasks' \subseteq Items(cmd_q) \cup cmd_tasks
<1>1. TaskTypeOK'
  BY TaskTypes
<1>2. CASE TakeCmd
  BY <1>1, <1>2, ItemsTail DEF TakeCmd, TaskTypeOK
<1>3. CASE Finish
  BY <1>1, <1>3 DEF Finish, Items
<1>4. ASSUME UNCHANGED <<cmd_q, cmd_tasks>>, recv_tasks \subseteq recv_tasks'
      PROVE  recv_tasks \subseteq recv_tasks'
             /\ Items(cmd_q)' \cup cmd_tasks' \subseteq Items(cmd_q) \cup cmd_tasks
  BY <1>4 DEF Items
<1>5. CASE TakeBody \/ Check \/ StopServer \/ ServerStopped \/ ServerSignal
  BY <1>1, <1>4, <1>5 DEF TakeBody, Check, StopServer, ServerStopped, ServerSignal
<1>6. ASSUME NEW r \in Req, PassBody(r) \/ Connection(r)
      PROVE  UNCHANGED <<cmd_q, cmd_tasks, recv_tasks>>
  BY <1>6 DEF PassBody, Connection, Accept, Refuse, HangUp, KeepAlive
<1> QED
  BY <1>1, <1>2, <1>3, <1>4, <1>5, <1>6 DEF Working

LEMMA TypeStep == TypeInv /\ [Next]_vars => TypeInv'
<1> SUFFICES ASSUME TaskTypeOK, Types, Related, Made, [Next]_vars
             PROVE  TaskTypeOK' /\ Types' /\ Related' /\ Made'
  BY DEF TypeInv, TypeOK, Types, Related
<1> DEFINE Inv == TaskTypeOK /\ Types /\ Related /\ Made
<1> USE DEF Types, Related, Made
<1>1. CASE UNCHANGED vars
  BY <1>1 DEF vars, taskVars, hookVars, TaskTypeOK, Items, Final
<1>2. ASSUME UNCHANGED hookVars, TaskTypeOK', recv_tasks \subseteq recv_tasks',
             Items(cmd_q)' \cup cmd_tasks' \subseteq Items(cmd_q) \cup cmd_tasks
      PROVE  Inv'
  BY <1>2 DEF hookVars
<1>3. ASSUME NEW r \in Req, Provide(r)
      PROVE  Inv'
  BY <1>3 DEF Provide, taskVars, TaskTypeOK, Items, Final
<1>4. ASSUME NEW r \in Req, NEW a \in Act, SendAction(r, a)
      PROVE  Inv'
  BY <1>4 DEF SendAction, taskVars, TaskTypeOK, Items, Final
<1>5. ASSUME NEW r \in Req, ReleaseApp(r)
      PROVE  Inv'
  <2> DEFINE c == <<r, released[r] + 1>>
  <2>1. c \in Release /\ c \in Cmd /\ released[r] + 1 \in 0..MaxRelease /\ r \in owner
    BY <1>5 DEF ReleaseApp, Release
  <2>2. /\ SendCommand(c) /\ UNCHANGED <<recv_tasks, http>>
        /\ released' = [released EXCEPT ![r] = @ + 1]
        /\ taken' = [taken EXCEPT ![c] = actions[r]]
        /\ actions' = [actions EXCEPT ![r] = << >>]
        /\ UNCHANGED <<event, closing, pc, actions_map, msgs, owner, answer>>
    BY <1>5 DEF ReleaseApp, TakeActions
  <2>3. TaskTypeOK' /\ Items(cmd_q)' \subseteq Items(cmd_q) \cup {c} /\ cmd_tasks' = cmd_tasks
    BY <2>1, <2>2, SendTypes
  <2>4. \A q \in Req : released'[q] >= released[q] /\ released'[q] \in 0..MaxRelease
    BY <2>1, <2>2
  <2>5. released'[r] = released[r] + 1
    BY <2>2
  <2>6. Made'
    <3> SUFFICES ASSUME NEW d \in (Items(cmd_q)' \cup cmd_tasks') \cap Release
                 PROVE  d[2] =< released'[d[1]]
      OBVIOUS
    <3>1. CASE d = c
      BY <2>5, <3>1
    <3>2. CASE d # c
      BY <2>3, <2>4, <3>2, ReleaseParts
    <3> QED
      BY <3>1, <3>2
  <2>7. Types'
    <3>1. << >> \in Seq(Act) /\ actions[r] \in Seq(Act)
      OBVIOUS
    <3>2. actions' \in [Req -> Seq(Act)] /\ taken' \in [Release -> Seq(Act)]
      BY <2>2, <3>1
    <3>3. released' \in [Req -> 0..MaxRelease]
      BY <2>1, <2>2
    <3> QED
      BY <2>2, <3>2, <3>3
  <2>8. Related'
    <3> SUFFICES ASSUME NEW q \in Req
                 PROVE  /\ pc'[q] = "registered" => q \in recv_tasks'
                        /\ released'[q] > 0 => q \in owner'
                        /\ answer'[q] # None => answer'[q][2] =< released'[answer'[q][1]]
      OBVIOUS
    <3>1. released'[q] > 0 => q \in owner'
      BY <2>1, <2>2
    <3>2. answer[q] # None => answer[q] \in Release /\ answer[q][2] =< released[answer[q][1]]
      OBVIOUS
    <3>3. answer'[q] # None => answer'[q][2] =< released'[answer'[q][1]]
      BY <2>2, <2>4, <3>2, ReleaseParts
    <3> QED
      BY <2>2, <3>1, <3>3
  <2> QED
    BY <2>3, <2>6, <2>7, <2>8
<1>6. ASSUME NEW c \in Closer, CloseApp(c)
      PROVE  Inv'
  <2>1. c \in Cmd /\ c \notin Release /\ SendCommand(c) /\ UNCHANGED <<recv_tasks, http>>
    BY <1>6 DEF CloseApp
  <2>2. TaskTypeOK' /\ Items(cmd_q)' \subseteq Items(cmd_q) \cup {c} /\ cmd_tasks' = cmd_tasks
    BY <2>1, SendTypes
  <2> QED
    BY <1>6, <2>1, <2>2 DEF CloseApp
<1>7. ASSUME NEW r \in Req, Register(r)
      PROVE  Inv'
  <2>1. actions_map' \in [Id -> Req \cup {None}] /\ event[r] \in Id
    BY <1>7 DEF Register
  <2>2. http' \in [Req -> {"none", "open", "waiting"} \cup Final]
    BY <1>7 DEF Register, Failing, Final, TaskTypeOK
  <2>3. pc' = [pc EXCEPT ![r] = "registered"] /\ r \in recv_tasks
    BY <1>7 DEF Register
  <2>4. /\ UNCHANGED <<cmd_q, body_q, active, mgr, cmd_tasks, recv_tasks, server>>
        /\ UNCHANGED <<event, closing, msgs, owner, actions, released, taken, answer>>
    BY <1>7 DEF Register
  <2>5. TaskTypeOK'
    BY <2>2, <2>4 DEF TaskTypeOK
  <2>6. Types' /\ Related'
    BY <2>1, <2>3, <2>4
  <2>7. Made'
    BY <2>4 DEF Items
  <2> QED
    BY <2>5, <2>6, <2>7
<1>8. ASSUME NEW r \in Req, Deliver(r)
      PROVE  Inv'
  BY <1>8 DEF Deliver, EndRecv, TaskTypeOK, Items, Final
<1>9. ASSUME NEW c \in Release, HandleRespond(c)
      PROVE  Inv'
  <2>1. /\ c \in cmd_tasks /\ cmd_tasks' \subseteq cmd_tasks /\ c[1] \in Req
        /\ UNCHANGED <<cmd_q, body_q, mgr, active, recv_tasks, server>>
        /\ UNCHANGED <<event, closing, pc, msgs, owner, actions, released, taken>>
        /\ actions_map' = [actions_map EXCEPT ![event[c[1]]] = None]
    BY <1>9, ReleaseParts DEF HandleRespond, EndCmd
  <2>2. \/ UNCHANGED <<http, answer>>
        \/ \E r \in Req : /\ http' = [http EXCEPT ![r] = "answered"]
                          /\ answer' = [answer EXCEPT ![r] = c]
    BY <1>9, <2>1 DEF HandleRespond
  <2>3. TaskTypeOK'
    <3>1. http' \in [Req -> {"none", "open", "waiting"} \cup Final]
      BY <2>2 DEF TaskTypeOK, Final
    <3> QED
      BY <2>1, <3>1 DEF TaskTypeOK
  <2>4. Types'
    <3>1. answer' \in [Req -> Release \cup {None}]
      <4>1. ASSUME NEW r \in Req, answer' = [answer EXCEPT ![r] = c]
            PROVE  <3>1
        BY <4>1
      <4> QED
        BY <2>2, <4>1
    <3>2. actions_map' \in [Id -> Req \cup {None}]
      BY <2>1
    <3> QED
      BY <2>1, <3>1, <3>2
  <2>5. c[2] =< released[c[1]]
    BY <2>1
  <2>6. Related'
    BY <2>1, <2>2, <2>5
  <2>7. Made'
    BY <2>1 DEF Items
  <2> QED
    BY <2>3, <2>4, <2>6, <2>7
<1>10. ASSUME NEW c \in Closer, HandleClose(c)
       PROVE  Inv'
  <2>1. /\ active' = FALSE /\ cmd_tasks' \subseteq cmd_tasks
        /\ UNCHANGED <<cmd_q, body_q, mgr, recv_tasks, server, http, hookVars>>
    BY <1>10 DEF HandleClose, EndCmd
  <2>2. TaskTypeOK'
    BY <2>1 DEF TaskTypeOK, Final
  <2> QED
    BY <1>2, <2>1, <2>2 DEF Items
<1>11. ASSUME Serve \/ \E r \in Req : PassBodyHook(r) \/ Client(r)
       PROVE  Inv'
  BY <1>2, <1>11, TaskSteps DEF Serve, PassBodyHook, Client
<1>12. CASE FinishHook
  BY <1>12, TaskSteps DEF FinishHook
<1>13. CASE ReleaseMap
  <2>1. http' \in [Req -> {"none", "open", "waiting"} \cup Final]
    BY <1>13 DEF ReleaseMap, Failing, Final, TaskTypeOK
  <2> QED
    BY <1>13, <2>1 DEF ReleaseMap, TaskTypeOK, Items
<1> QED
  BY <1>1, <1>3, <1>4, <1>5, <1>6, <1>7, <1>8, <1>9, <1>10, <1>11, <1>12, <1>13
     DEF Next, User, CmdHandler, RecvHandler

LEMMA TypeInvTheorem == Spec => []TypeInv
<1>1. ASSUME Init
      PROVE  TypeInv
  <2>1. \A S : << >> \in Seq(S)
    OBVIOUS
  <2>2. TaskTypeOK /\ Made
    BY <1>1, <2>1 DEF Init, TaskInit, TaskTypeOK, Made, Items
  <2>3. Types /\ Related
    BY <1>1, <2>1 DEF Init, TaskInit, Types, Related
  <2> QED
    BY <2>2, <2>3, TypeParts DEF TypeInv
<1> QED
  BY <1>1, TypeStep, PTL DEF Spec

(***************************************************************************)
(* The types; an event's app is owned after its delivery, only owners      *)
(* release, and a client was answered by a release that was made.          *)
(***************************************************************************)
THEOREM Typing == Spec => []TypeOK
BY TypeInvTheorem, PTL DEF TypeInv
-----------------------------------------------------------------------------
(* A waiting client's responder is alive *)

\* A post is passed on once, and its handler starts where its body left off.
Placed ==
    /\ \A r \in Req : http[r] \in {"none", "open"}
                         => pc[r] = "start" /\ r \notin Items(body_q) /\ r \notin recv_tasks
    /\ \A r \in Items(body_q) : pc[r] = "start" /\ r \notin recv_tasks
    /\ Distinct(body_q)

HeldInv == Placed /\ WaitingIsHeld

\* What the steps below need of the types.
HeldTypes == /\ body_q \in Seq(Req) /\ recv_tasks \subseteq Req
             /\ http \in [Req -> {"none", "open", "waiting"} \cup Final]
             /\ pc \in [Req -> {"start", "registered", "ended"}]
             /\ event \in [Req -> Id]
             /\ actions_map \in [Id -> Req \cup {None}]

LEMMA HeldTypesOfTypeOK == TypeOK => HeldTypes
BY DEF TypeOK, TaskTypeOK, HeldTypes

\* No post moves, and one that still waits keeps its place in the map.
LEMMA HeldFrame ==
    ASSUME HeldInv, UNCHANGED <<body_q, recv_tasks, pc, event>>,
           \A q \in Req : http'[q] \in {"none", "open"} => http[q] \in {"none", "open"},
           \A q \in Req : http'[q] = "waiting" =>
               /\ http[q] = "waiting"
               /\ actions_map[event[q]] = q => actions_map'[event[q]] = q
    PROVE  HeldInv'
<1>1. Items(body_q)' = Items(body_q) /\ Distinct(body_q)' = Distinct(body_q)
  BY DEF Items, Distinct
<1> QED
  BY <1>1 DEF HeldInv, Placed, WaitingIsHeld

LEMMA HeldRegister ==
    ASSUME HeldTypes, HeldInv, NEW r \in Req, Register(r)
    PROVE  HeldInv'
<1> USE DEF HeldTypes, HeldInv, Placed, WaitingIsHeld
<1>1. /\ r \in recv_tasks /\ pc' = [pc EXCEPT ![r] = "registered"]
      /\ http' = Failing({actions_map[event[r]]})
      /\ actions_map' = [actions_map EXCEPT ![event[r]] = r]
      /\ UNCHANGED <<recv_tasks, body_q, event>>
      /\ Items(body_q)' = Items(body_q) /\ Distinct(body_q)' = Distinct(body_q)
  BY DEF Register, Items, Distinct
<1>2. r \notin Items(body_q) /\ http[r] \notin {"none", "open"}
  BY <1>1
<1>3. \A q \in Req : /\ http'[q] = http[q] \/ (http[q] = "waiting" /\ http'[q] = "failed")
                     /\ http'[q] = "waiting" => http[q] = "waiting" /\ q # actions_map[event[r]]
  BY <1>1 DEF Failing
<1>4. Placed'
  <2>1. ASSUME NEW q \in Req, http'[q] \in {"none", "open"}
        PROVE  http[q] \in {"none", "open"} /\ pc'[q] = pc[q]
    <3>1. http[q] \in {"none", "open"}
      BY <1>3, <2>1
    <3> QED
      BY <1>1, <1>2, <3>1
  <2>2. \A q \in Items(body_q) : q # r /\ pc'[q] = pc[q]
    <3>1. Items(body_q) \subseteq Req
      BY DEF Items
    <3> QED
      BY <1>1, <1>2, <3>1
  <2> QED
    BY <1>1, <2>1, <2>2
<1>5. ASSUME NEW q \in Req, http'[q] = "waiting", q # r
      PROVE  actions_map[event[q]] = q => actions_map'[event[q]] = q
  BY <1>1, <1>3, <1>5
<1>6. actions_map'[event'[r]] = r
  BY <1>1
<1>7. WaitingIsHeld'
  BY <1>1, <1>3, <1>5, <1>6
<1> QED
  BY <1>4, <1>7

LEMMA HeldDeliver ==
    ASSUME HeldTypes, HeldInv, NEW r \in Req, Deliver(r)
    PROVE  HeldInv'
<1> USE DEF HeldTypes, HeldInv, Placed, WaitingIsHeld
<1>1. /\ pc[r] = "registered" /\ pc' = [pc EXCEPT ![r] = "ended"]
      /\ recv_tasks' = recv_tasks \ {r}
      /\ UNCHANGED <<http, actions_map, body_q, event>>
      /\ Items(body_q)' = Items(body_q) /\ Distinct(body_q)' = Distinct(body_q)
  BY DEF Deliver, EndRecv, Items, Distinct
<1>2. r \notin Items(body_q) /\ http[r] \notin {"none", "open"}
  BY <1>1
<1> QED
  BY <1>1, <1>2

LEMMA HeldRespond ==
    ASSUME HeldTypes, HeldInv, NEW c \in Release, HandleRespond(c)
    PROVE  HeldInv'
<1> USE DEF HeldTypes
<1> DEFINE i == event[c[1]]
<1> DEFINE r == actions_map[i]
<1>1. /\ UNCHANGED <<recv_tasks, body_q, pc, event>>
      /\ actions_map' = [actions_map EXCEPT ![i] = None]
      /\ i \in Id
  BY ReleaseParts DEF HandleRespond, EndCmd
<1>2. \A q \in Req : http'[q] = http[q] \/ (http[q] = "waiting" /\ http'[q] = "answered")
  <2>1. CASE r # None /\ http[r] = "waiting"
    BY <1>1, <2>1 DEF HandleRespond
  <2>2. CASE ~(r # None /\ http[r] = "waiting")
    BY <2>2 DEF HandleRespond
  <2> QED
    BY <2>1, <2>2
<1>3. ASSUME NEW q \in Req, http'[q] = "waiting"
      PROVE  http[q] = "waiting" /\ q # r
  <2>1. http[q] = "waiting"
    BY <1>2, <1>3
  <2>2. ASSUME q = r
        PROVE  FALSE
    <3>1. http' = [http EXCEPT ![r] = "answered"]
      BY <2>1, <2>2 DEF HandleRespond
    <3> QED
      BY <1>3, <2>2, <3>1
  <2> QED
    BY <2>1, <2>2
<1>4. ASSUME NEW q \in Req, http'[q] = "waiting", actions_map[event[q]] = q
      PROVE  actions_map'[event[q]] = q
  BY <1>1, <1>3, <1>4
<1> HIDE DEF r
<1> QED
  BY <1>1, <1>2, <1>3, <1>4, HeldFrame

LEMMA HeldPass ==
    ASSUME HeldTypes, HeldInv, NEW r \in Req, PassBody(r), UNCHANGED <<pc, event, actions_map>>
    PROVE  HeldInv'
<1> USE DEF HeldTypes, HeldInv, Placed, WaitingIsHeld
<1>1. /\ http[r] = "open" /\ pc[r] = "start" /\ r \notin Items(body_q) /\ r \notin recv_tasks
      /\ UNCHANGED recv_tasks
  BY DEF PassBody
<1>2. CASE MgrEnded
  <2>1. /\ body_q' = body_q /\ http' = [http EXCEPT ![r] = "cut"]
        /\ Items(body_q)' = Items(body_q) /\ Distinct(body_q)'
    BY <1>2 DEF PassBody, Items, Distinct
  <2> QED
    BY <1>1, <2>1
<1>3. CASE ~MgrEnded
  <2>1. body_q' = Append(body_q, r) /\ http' = [http EXCEPT ![r] = "waiting"]
    BY <1>3 DEF PassBody
  <2>2. Items(body_q)' = Items(body_q) \cup {r}
    BY <2>1, ItemsAppend
  <2>3. Distinct(body_q)'
    BY <1>1, <2>1, DistinctAppend
  <2>4. Placed'
    BY <1>1, <2>1, <2>2, <2>3
  <2> QED
    BY <1>1, <2>1, <2>2, <2>4
<1> QED
  BY <1>2, <1>3

LEMMA HeldTake ==
    ASSUME HeldTypes, HeldInv, TakeBody, UNCHANGED <<pc, event, actions_map>>
    PROVE  HeldInv'
<1> USE DEF HeldTypes, HeldInv, Placed, WaitingIsHeld
<1>1. /\ body_q # << >> /\ body_q' = Tail(body_q)
      /\ recv_tasks' = recv_tasks \cup {Head(body_q)} /\ UNCHANGED http
  BY DEF TakeBody
<1>2. Items(body_q) = {Head(body_q)} \cup Items(body_q)' /\ Head(body_q) \in Req
  BY <1>1, ItemsTail
<1>3. Distinct(body_q)' /\ Head(body_q) \notin Items(body_q)'
  BY <1>1, DistinctTail
<1> QED
  BY <1>1, <1>2, <1>3

LEMMA HeldStep == TypeOK /\ HeldInv /\ [Next]_vars => HeldInv'
<1> SUFFICES ASSUME HeldTypes, HeldInv, [Next]_vars
             PROVE  HeldInv'
  BY HeldTypesOfTypeOK
<1>1. ASSUME UNCHANGED <<body_q, recv_tasks, pc, event, http, actions_map>>
      PROVE  HeldInv'
  BY <1>1, HeldFrame
<1>2. CASE UNCHANGED vars
  BY <1>1, <1>2 DEF vars, taskVars, hookVars
<1>3. CASE User
  BY <1>1, <1>3 DEF User, Provide, SendAction, ReleaseApp, CloseApp, SendCommand, taskVars
<1>4. ASSUME NEW c \in Closer, HandleClose(c)
      PROVE  HeldInv'
  BY <1>1, <1>4 DEF HandleClose, EndCmd, hookVars
<1>5. ASSUME NEW r \in Req, PassBodyHook(r)
      PROVE  HeldInv'
  BY <1>5, HeldPass DEF PassBodyHook, hookVars
<1>6. ASSUME NEW r \in Req, Client(r)
      PROVE  HeldInv'
  <2>1. UNCHANGED <<body_q, recv_tasks, pc, event, actions_map>>
    BY <1>6 DEF Client, Connection, Accept, Refuse, HangUp, KeepAlive, hookVars
  <2>2. ASSUME NEW q \in Req
        PROVE  /\ http'[q] \in {"none", "open"} => http[q] \in {"none", "open"}
               /\ http'[q] = "waiting" => http[q] = "waiting"
    <3>1. CASE Accept(r) \/ Refuse(r) \/ HangUp(r)
      BY <3>1 DEF Accept, Refuse, HangUp, HeldTypes
    <3>2. ASSUME NEW p \in Req, KeepAlive(p, r)
          PROVE  <2>2!2
      BY <3>2 DEF KeepAlive, HeldTypes
    <3> QED
      BY <1>6, <3>1, <3>2 DEF Client, Connection
  <2> QED
    BY <2>1, <2>2, HeldFrame
<1>7. CASE Serve
  <2>1. CASE TakeBody
    BY <1>7, <2>1, HeldTake DEF Serve, hookVars
  <2>2. CASE Check \/ TakeCmd \/ StopServer \/ ServerStopped \/ ServerSignal
    BY <1>1, <1>7, <2>2 DEF Serve, Check, TakeCmd, StopServer, ServerStopped, ServerSignal,
                            hookVars
  <2> QED
    BY <1>7, <2>1, <2>2 DEF Serve, Working
<1>8. CASE FinishHook
  <2>1. /\ body_q' = << >> /\ http' = Failing(Items(body_q))
        /\ UNCHANGED <<recv_tasks, pc, event, actions_map>>
    BY <1>8 DEF FinishHook, Finish
  <2>2. Items(body_q)' = {} /\ Distinct(body_q)'
    BY <2>1 DEF Items, Distinct
  <2> QED
    BY <2>1, <2>2 DEF HeldTypes, HeldInv, Placed, WaitingIsHeld, Failing
<1>9. CASE ReleaseMap
  <2>1. http' = Failing(Mapped) /\ UNCHANGED <<body_q, recv_tasks, pc, event>>
    BY <1>9 DEF ReleaseMap
  <2>2. \A q \in Req : actions_map[event[q]] = q => q \in Mapped
    BY DEF Mapped, HeldTypes
  <2>3. \A q \in Req : /\ http'[q] \in {"none", "open"} => http[q] \in {"none", "open"}
                       /\ http'[q] = "waiting" => http[q] = "waiting" /\ q \notin Mapped
    BY <2>1 DEF Failing
  <2> QED
    BY <2>1, <2>2, <2>3, HeldFrame
<1> QED
  BY <1>2, <1>3, <1>4, <1>5, <1>6, <1>7, <1>8, <1>9, HeldRegister, HeldDeliver, HeldRespond
     DEF Next, CmdHandler, RecvHandler

(***************************************************************************)
(* A client that waits for its post has its responder in the body queue,   *)
(* in a handler that starts, or in the map under its event, however often  *)
(* events are posted and apps released.                                    *)
(***************************************************************************)
THEOREM Held == Spec => []WaitingIsHeld
<1>1. Init => HeldInv
  BY DEF Init, TaskInit, HeldInv, Placed, WaitingIsHeld, Items, Distinct
<1>2. HeldInv => WaitingIsHeld
  BY DEF HeldInv
<1> QED
  BY <1>1, <1>2, HeldStep, Typing, PTL DEF Spec
-----------------------------------------------------------------------------
(* Actions and releases *)

\* An action is with one app or in one release.
Kept ==
    /\ \A r, q \in Req : r # q => Items(actions[r]) \cap Items(actions[q]) = {}
    /\ \A c, d \in Release : Items(taken[c]) \cap Items(taken[d]) # {} => c = d
    /\ \A r \in Req, c \in Release : Items(actions[r]) \cap Items(taken[c]) = {}

LEMMA KeptStep == Types /\ Kept /\ [Next]_vars => Kept'
<1> SUFFICES ASSUME Types, Kept, [Next]_vars
             PROVE  Kept'
  OBVIOUS
<1>1. ASSUME UNCHANGED <<actions, taken>>
      PROVE  Kept'
  BY <1>1 DEF Kept
<1>2. ASSUME NEW r \in Req, NEW a \in Act, SendAction(r, a)
      PROVE  Kept'
  <2>1. /\ \A q \in Req : a \notin Items(actions[q])
        /\ \A c \in Release : a \notin Items(taken[c])
        /\ actions' = [actions EXCEPT ![r] = Append(@, a)] /\ taken' = taken
    BY <1>2 DEF SendAction
  <2>2. Items(Append(actions[r], a)) = Items(actions[r]) \cup {a}
    BY ItemsAppend DEF Types
  <2>3. \A q \in Req : Items(actions'[q]) = IF q = r THEN Items(actions[r]) \cup {a}
                                            ELSE Items(actions[q])
    BY <2>1, <2>2 DEF Types
  <2>4. ASSUME NEW p \in Req, NEW q \in Req, p # q
        PROVE  Items(actions'[p]) \cap Items(actions'[q]) = {}
    <3>1. Items(actions[p]) \cap Items(actions[q]) = {}
      BY <2>4 DEF Kept
    <3> QED
      BY <2>1, <2>3, <2>4, <3>1
  <2>5. ASSUME NEW q \in Req, NEW c \in Release
        PROVE  Items(actions'[q]) \cap Items(taken'[c]) = {}
    <3>1. Items(actions[q]) \cap Items(taken[c]) = {}
      BY DEF Kept
    <3> QED
      BY <2>1, <2>3, <3>1
  <2> QED
    BY <2>1, <2>4, <2>5 DEF Kept
<1>3. ASSUME NEW r \in Req, ReleaseApp(r)
      PROVE  Kept'
  <2> DEFINE c == <<r, released[r] + 1>>
  <2>1. /\ actions' = [actions EXCEPT ![r] = << >>]
        /\ taken' = [taken EXCEPT ![c] = actions[r]]
    BY <1>3 DEF ReleaseApp, TakeActions
  <2> HIDE DEF c
  <2>2. Items(<< >>) = {}
    BY DEF Items
  <2>3. /\ \A q \in Req : Items(actions'[q]) = IF q = r THEN {} ELSE Items(actions[q])
        /\ \A d \in Release : Items(taken'[d]) = IF d = c THEN Items(actions[r]) ELSE Items(taken[d])
    BY <2>1, <2>2 DEF Types
  <2>4. ASSUME NEW p \in Req, NEW q \in Req, p # q
        PROVE  Items(actions'[p]) \cap Items(actions'[q]) = {}
    <3>1. Items(actions[p]) \cap Items(actions[q]) = {}
      BY <2>4 DEF Kept
    <3> QED
      BY <2>3, <3>1
  <2>5. ASSUME NEW d \in Release, NEW e \in Release, d # e
        PROVE  Items(taken'[d]) \cap Items(taken'[e]) = {}
    <3>1. /\ Items(taken[d]) \cap Items(taken[e]) = {}
          /\ Items(actions[r]) \cap Items(taken[d]) = {}
          /\ Items(actions[r]) \cap Items(taken[e]) = {}
      BY <2>5 DEF Kept
    <3> QED
      BY <2>3, <2>5, <3>1
  <2>6. ASSUME NEW q \in Req, NEW d \in Release
        PROVE  Items(actions'[q]) \cap Items(taken'[d]) = {}
    <3>1. /\ Items(actions[q]) \cap Items(taken[d]) = {}
          /\ q # r => Items(actions[q]) \cap Items(actions[r]) = {}
      BY DEF Kept
    <3> QED
      BY <2>3, <3>1
  <2> QED
    BY <2>4, <2>5, <2>6 DEF Kept
<1> QED
  BY <1>1, <1>2, <1>3 DEF Next, User, Provide, CloseApp, CmdHandler, HandleRespond, HandleClose,
     RecvHandler, Register, Deliver, PassBodyHook, Client, Serve, FinishHook, ReleaseMap, hookVars,
     vars

\* A command is on its way once, and an answer came of one that is not any more.
OnItsWay == Items(cmd_q) \cup cmd_tasks

Sole ==
    /\ Distinct(cmd_q)
    /\ Items(cmd_q) \cap cmd_tasks = {}
    /\ OnItsWay \cap Closer \subseteq closing
    /\ \A r \in Req : answer[r] # None => answer[r] \notin OnItsWay
    /\ \A r, q \in Req : r # q /\ answer[r] # None => answer[r] # answer[q]

\* Commands only go on, and nobody is answered.
LEMMA SoleFrame ==
    ASSUME Sole, Distinct(cmd_q)', Items(cmd_q)' \cap cmd_tasks' = {}, OnItsWay' \subseteq OnItsWay,
           UNCHANGED <<closing, answer>>
    PROVE  Sole'
BY DEF Sole

LEMMA SoleSend ==
    ASSUME TaskTypeOK, Sole, NEW c \in Cmd, c \notin OnItsWay,
           \A r \in Req : answer[r] # None => answer[r] # c,
           SendCommand(c), answer' = answer, closing \subseteq closing', c \in Closer => c \in closing'
    PROVE  Sole'
<1>1. cmd_tasks' = cmd_tasks
  BY DEF SendCommand
<1>2. CASE MgrEnded
  BY <1>1, <1>2 DEF SendCommand, Sole, OnItsWay, Items, Distinct
<1>3. CASE ~MgrEnded
  <2>1. cmd_q' = Append(cmd_q, c) /\ cmd_q \in Seq(Cmd)
    BY <1>3 DEF SendCommand, TaskTypeOK
  <2>2. Items(cmd_q)' = Items(cmd_q) \cup {c}
    BY <2>1, ItemsAppend
  <2>3. Distinct(cmd_q)'
    BY <2>1, DistinctAppend DEF Sole, OnItsWay
  <2>4. OnItsWay' = OnItsWay \cup {c}
    BY <1>1, <2>2 DEF OnItsWay
  <2> QED
    BY <1>1, <2>2, <2>3, <2>4 DEF Sole, OnItsWay
<1> QED
  BY <1>2, <1>3

LEMMA SoleRespond ==
    ASSUME Types, Sole, NEW c \in Release, HandleRespond(c)
    PROVE  Sole'
<1>1. /\ c \in cmd_tasks /\ cmd_tasks' = cmd_tasks \ {c} /\ UNCHANGED <<cmd_q, closing>>
      /\ Items(cmd_q)' = Items(cmd_q) /\ Distinct(cmd_q)' = Distinct(cmd_q)
  BY DEF HandleRespond, EndCmd, Items, Distinct
<1>2. OnItsWay' \subseteq OnItsWay /\ c \in OnItsWay /\ c \notin OnItsWay'
  BY <1>1 DEF Sole, OnItsWay
<1>3. CASE answer' = answer
  BY <1>1, <1>2, <1>3 DEF Sole
<1>4. ASSUME NEW r \in Req, answer' = [answer EXCEPT ![r] = c]
      PROVE  Sole'
  <2>1. \A q \in Req : answer'[q] = IF q = r THEN c ELSE answer[q]
    BY <1>4 DEF Types
  <2>2. \A q \in Req : answer[q] # None => answer[q] # c
    BY <1>2 DEF Sole
  <2>3. c # None
    OBVIOUS
  <2> QED
    BY <1>1, <1>2, <2>1, <2>2, <2>3 DEF Sole
<1>5. \/ answer' = answer
      \/ \E r \in Req : answer' = [answer EXCEPT ![r] = c]
  BY ReleaseParts DEF HandleRespond, Types
<1> QED
  BY <1>3, <1>4, <1>5

LEMMA SoleStep == TypeInv /\ Sole /\ [Next]_vars => Sole'
<1> SUFFICES ASSUME TaskTypeOK, Types, Related, Made, Sole, [Next]_vars
             PROVE  Sole'
  BY TypeParts DEF TypeInv
<1>1. ASSUME UNCHANGED <<cmd_q, closing, answer>>, cmd_tasks' \subseteq cmd_tasks
      PROVE  Sole'
  BY <1>1, SoleFrame DEF Sole, OnItsWay, Items, Distinct
<1>2. ASSUME NEW r \in Req, ReleaseApp(r)
      PROVE  Sole'
  <2> DEFINE c == <<r, released[r] + 1>>
  <2>1. c \in Release /\ c \in Cmd /\ c \notin Closer
    BY <1>2 DEF ReleaseApp, Release, Types
  <2>2. SendCommand(c) /\ UNCHANGED <<answer, closing>>
    BY <1>2 DEF ReleaseApp
  <2>3. ~(c[2] =< released[c[1]])
    BY DEF Types
  <2>4. c \notin OnItsWay
    BY <2>1, <2>3 DEF OnItsWay, Made
  <2>5. \A q \in Req : answer[q] # None => answer[q] # c
    BY <2>3 DEF Related
  <2> HIDE DEF c
  <2> QED
    BY <2>1, <2>2, <2>4, <2>5, SoleSend
<1>3. ASSUME NEW c \in Closer, CloseApp(c)
      PROVE  Sole'
  <2>1. c \in Cmd /\ c \notin Release /\ c \notin closing
    BY <1>3 DEF CloseApp
  <2>2. SendCommand(c) /\ closing' = closing \cup {c} /\ answer' = answer
    BY <1>3 DEF CloseApp
  <2>3. c \notin OnItsWay
    BY <2>1 DEF Sole
  <2>4. \A q \in Req : answer[q] # None => answer[q] # c
    BY <2>1 DEF Types
  <2> QED
    BY <2>1, <2>2, <2>3, <2>4, SoleSend
<1>4. CASE TakeCmd /\ UNCHANGED hookVars
  <2>1. /\ cmd_q # << >> /\ cmd_q \in Seq(Cmd) /\ cmd_q' = Tail(cmd_q)
        /\ cmd_tasks' = cmd_tasks \cup {Head(cmd_q)} /\ UNCHANGED <<closing, answer>>
    BY <1>4 DEF TakeCmd, TaskTypeOK, hookVars
  <2>2. Items(cmd_q) = {Head(cmd_q)} \cup Items(cmd_q)'
    BY <2>1, ItemsTail
  <2>3. Distinct(cmd_q)' /\ Head(cmd_q) \notin Items(cmd_q)'
    BY <2>1, DistinctTail DEF Sole
  <2> QED
    BY <2>1, <2>2, <2>3, SoleFrame DEF Sole, OnItsWay
<1>5. CASE FinishHook
  <2>1. cmd_q' = << >> /\ UNCHANGED <<cmd_tasks, closing, answer>>
    BY <1>5 DEF FinishHook, Finish
  <2>2. Items(cmd_q)' = {} /\ Distinct(cmd_q)'
    BY <2>1 DEF Items, Distinct
  <2> QED
    BY <2>1, <2>2, SoleFrame DEF OnItsWay
<1>6. CASE Serve
  <2>1. CASE TakeBody \/ Check \/ StopServer \/ ServerStopped \/ ServerSignal
    BY <1>1, <1>6, <2>1 DEF Serve, TakeBody, Check, StopServer, ServerStopped, ServerSignal,
                            hookVars
  <2> QED
    BY <1>4, <1>6, <2>1 DEF Serve, Working
<1>7. ASSUME NEW r \in Req, NEW a \in Act, Provide(r) \/ SendAction(r, a)
      PROVE  Sole'
  BY <1>1, <1>7 DEF Provide, SendAction, taskVars
<1>8. ASSUME NEW r \in Req, Provide(r) \/ RecvHandler(r)
      PROVE  Sole'
  BY <1>1, <1>8 DEF Provide, RecvHandler, Register, Deliver, taskVars
<1>9. ASSUME NEW r \in Req, PassBodyHook(r) \/ Client(r)
      PROVE  Sole'
  BY <1>1, <1>9 DEF PassBodyHook, PassBody, Client, Connection, Accept, Refuse, HangUp, KeepAlive,
                    hookVars
<1>10. ASSUME NEW c \in Closer, HandleClose(c)
       PROVE  Sole'
  BY <1>1, <1>10 DEF HandleClose, EndCmd, hookVars
<1>11. CASE ReleaseMap \/ UNCHANGED vars
  BY <1>1, <1>11 DEF ReleaseMap, vars, taskVars, hookVars
<1> QED
  BY <1>2, <1>3, <1>5, <1>6, <1>7, <1>8, <1>9, <1>10, <1>11, SoleRespond
     DEF Next, User, CmdHandler

\* The map leads from an event to posts of it, and so did the map that a release
\* found the post it answered in.
Matched ==
    /\ \A i \in Id : actions_map[i] # None => event[actions_map[i]] = i
    /\ \A r \in Req : answer[r] # None => event[answer[r][1]] = event[r]
    /\ \A r \in Req : http[r] = "answered" => answer[r] # None

LEMMA MatchedFrame ==
    ASSUME Matched, UNCHANGED <<event, actions_map, answer>>,
           \A r \in Req : http'[r] = "answered" => http[r] = "answered"
    PROVE  Matched'
BY DEF Matched

LEMMA MatchedRespond ==
    ASSUME HeldTypes, Types, Matched, NEW c \in Release, HandleRespond(c)
    PROVE  Matched'
<1> USE DEF Matched, HeldTypes, Types
<1> DEFINE i == event[c[1]]
<1> DEFINE q == actions_map[i]
<1>1. event' = event /\ actions_map' = [actions_map EXCEPT ![i] = None] /\ c[1] \in Req /\ i \in Id
  BY ReleaseParts DEF HandleRespond
<1>2. \A j \in Id : actions_map'[j] # None => event'[actions_map'[j]] = j
  BY <1>1
<1>3. CASE q # None /\ http[q] = "waiting"
  <2>1. http' = [http EXCEPT ![q] = "answered"] /\ answer' = [answer EXCEPT ![q] = c] /\ q \in Req
    BY <1>1, <1>3 DEF HandleRespond
  <2>2. event[q] = event[c[1]]
    BY <1>1, <1>3
  <2>3. c # None
    OBVIOUS
  <2> HIDE DEF q
  <2> QED
    BY <1>1, <1>2, <2>1, <2>2, <2>3
<1>4. CASE ~(q # None /\ http[q] = "waiting")
  <2>1. UNCHANGED <<http, answer>>
    BY <1>4 DEF HandleRespond
  <2> QED
    BY <1>1, <1>2, <2>1
<1> QED
  BY <1>3, <1>4

LEMMA MatchedStep == TypeOK /\ Matched /\ [Next]_vars => Matched'
<1> SUFFICES ASSUME HeldTypes, Types, Matched, [Next]_vars
             PROVE  Matched'
  BY HeldTypesOfTypeOK, TypeParts
<1>1. ASSUME UNCHANGED <<event, actions_map, answer, http>>
      PROVE  Matched'
  BY <1>1, MatchedFrame
<1>2. CASE UNCHANGED vars \/ User
  BY <1>1, <1>2 DEF vars, taskVars, hookVars, User, Provide, SendAction, ReleaseApp, CloseApp
<1>3. ASSUME NEW r \in Req, Register(r)
      PROVE  Matched'
  <2>1. /\ actions_map' = [actions_map EXCEPT ![event[r]] = r]
        /\ http' = Failing({actions_map[event[r]]}) /\ UNCHANGED <<event, answer>>
    BY <1>3 DEF Register
  <2>2. \A q \in Req : http'[q] = "answered" => http[q] = "answered"
    BY <2>1 DEF Failing
  <2> QED
    BY <2>1, <2>2 DEF Matched, HeldTypes
<1>4. ASSUME NEW r \in Req, Deliver(r)
      PROVE  Matched'
  BY <1>1, <1>4 DEF Deliver
<1>5. ASSUME NEW c \in Closer, HandleClose(c)
      PROVE  Matched'
  BY <1>1, <1>5 DEF HandleClose, hookVars
<1>6. ASSUME NEW r \in Req, PassBodyHook(r) \/ Client(r)
      PROVE  Matched'
  <2>1. UNCHANGED <<event, actions_map, answer>>
    BY <1>6 DEF PassBodyHook, Client, hookVars
  <2>2. ASSUME NEW q \in Req, http'[q] = "answered"
        PROVE  http[q] = "answered"
    <3>1. CASE PassBody(r) \/ Accept(r) \/ Refuse(r) \/ HangUp(r)
      BY <2>2, <3>1 DEF PassBody, Accept, Refuse, HangUp, HeldTypes
    <3>2. ASSUME NEW p \in Req, KeepAlive(p, r)
          PROVE  http[q] = "answered"
      BY <2>2, <3>2 DEF KeepAlive, HeldTypes
    <3> QED
      BY <1>6, <3>1, <3>2 DEF PassBodyHook, Client, Connection
  <2> QED
    BY <2>1, <2>2, MatchedFrame
<1>7. CASE Serve
  BY <1>1, <1>7 DEF Serve, Working, Check, TakeBody, TakeCmd, StopServer, ServerStopped,
                    ServerSignal, hookVars
<1>8. CASE FinishHook
  <2>1. http' = Failing(Items(body_q)) /\ UNCHANGED <<event, actions_map, answer>>
    BY <1>8 DEF FinishHook, Finish
  <2> QED
    BY <2>1, MatchedFrame DEF Failing
<1>9. CASE ReleaseMap
  <2>1. /\ http' = Failing(Mapped) /\ UNCHANGED <<event, answer>>
        /\ actions_map' = [i \in Id |-> None]
    BY <1>9 DEF ReleaseMap
  <2>2. \A q \in Req : http'[q] = "answered" => http[q] = "answered"
    BY <2>1 DEF Failing
  <2> QED
    BY <2>1, <2>2 DEF Matched
<1> QED
  BY <1>2, <1>3, <1>4, <1>5, <1>6, <1>7, <1>8, <1>9, MatchedRespond
     DEF Next, CmdHandler, RecvHandler

LEMMA OnceMeans == TypeOK /\ Kept /\ Sole /\ Matched => ActionOnce
<1> SUFFICES ASSUME Types, Related, Kept, Sole, Matched
             PROVE  ActionOnce
  BY TypeParts
<1>1. ASSUME NEW r \in Req, SendEventResult(r) = "ok"
      PROVE  \E q \in owner : /\ event[q] = event[r]
                              /\ \E k \in 1..released[q] : taken[<<q, k>>] = << >>
  <2>1. http[r] = "answered" /\ taken[answer[r]] = << >>
    BY <1>1 DEF SendEventResult
  <2>2. answer[r] # None /\ answer[r] \in Release /\ event[answer[r][1]] = event[r]
    BY <2>1 DEF Matched, Types
  <2> DEFINE q == answer[r][1]
             k == answer[r][2]
  <2>3. q \in Req /\ k \in 1..MaxRelease /\ answer[r] = <<q, k>>
    BY <2>2, ReleaseParts
  <2>4. k =< released[q]
    BY <2>2 DEF Related
  <2>5. released[q] \in Nat /\ k \in 1..released[q]
    BY <2>3, <2>4 DEF Types
  <2>6. q \in owner
    BY <2>3, <2>5 DEF Related
  <2> HIDE DEF q, k
  <2> QED
    BY <2>1, <2>2, <2>3, <2>5, <2>6 DEF q
<1> QED
  BY <1>1 DEF ActionOnce, Kept, Sole, Matched

(***************************************************************************)
(* No action reaches two clients or another event's, and a post that       *)
(* succeeds was released with no action, for any posts, apps and releases. *)
(***************************************************************************)
THEOREM OnceTheorem == Spec => []ActionOnce
<1>1. Init => Kept /\ Sole /\ Matched
  BY DEF Init, TaskInit, Kept, Sole, OnItsWay, Matched, Items, Distinct
<1>2. TypeInv => TypeOK /\ Types
  BY TypeParts DEF TypeInv
<1> QED
  BY <1>1, <1>2, KeptStep, SoleStep, MatchedStep, OnceMeans, TypeInvTheorem, PTL DEF Spec
=============================================================================
