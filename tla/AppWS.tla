-------------------------------- MODULE AppWS --------------------------------
(***************************************************************************)
(* An application's WebSocket connection: app/ws.rs's WSHandler and the    *)
(* TxAppSide client of app/mod.rs over the connection of WSTask.           *)
(*                                                                         *)
(* A call is at once the command, the frame and the response of one        *)
(* send_action: the frame carries echo[c], and so does the response.       *)
(* A oneshot responder is where the state says the call is: in the command *)
(* queue, in its handler task, or in the action map; dropping it fails the *)
(* call.                                                                   *)
(***************************************************************************)
EXTENDS WSTask

CONSTANTS
    Call,      \* actions sent by the application
    Config,    \* get_config and set_config calls
    Closer,    \* calls of OBApp::close
    Event,     \* events of the peer
    Echo,      \* the strings generate_echo draws from
    Notice,    \* RecvMessage::Close
    Failed,    \* the outcome of a call whose responder was dropped
    Parallel   \* TRUE: handler tasks run on several threads

ASSUME AppAssumption ==
    /\ Cmd = Call \cup Config \cup Closer
    /\ Frame = Call
    /\ Inbound = Call \cup Event
    /\ Call \cap (Config \cup Closer \cup Event) = {}
    /\ Config \cap Closer = {}
    /\ {None, Failed} \cap Cmd = {}
    /\ None \notin Echo
    /\ None # Failed
    /\ Notice \notin Event
    /\ Parallel \in BOOLEAN

VARIABLES
    issued,   \* commands issued so far
    echo,     \* the echo generated for each call
    map,      \* WSHandler.map: the call whose responder an echo leads to
    result,   \* what the caller got: the call that was answered, Failed, or None
    msg_q     \* every RecvMessage delivered to the application

appVars == <<issued, echo, map, result, msg_q>>
vars == <<taskVars, appVars>>

Caller == Call \cup Config

TypeOK == /\ TaskTypeOK
          /\ issued \subseteq Cmd
          /\ echo \in [Call -> Echo \cup {None}]
          /\ map \in [Echo -> Call \cup {None}]
          /\ result \in [Caller -> Caller \cup {Failed, None}]
          /\ msg_q \in Seq(Event \cup {Notice})

Init == /\ TaskInit
        /\ issued = {}
        /\ echo = [c \in Call |-> None]
        /\ map = [e \in Echo |-> None]
        /\ result = [c \in Caller |-> None]
        /\ msg_q = << >>

\* The responders of these callers are dropped.
FailAll(S) == result' = [c \in Caller |-> IF c \in S THEN Failed ELSE result[c]]

Mapped == {map[e] : e \in Echo} \ {None}

-----------------------------------------------------------------------------
(* The application *)

\* send_action_impl, get_config, set_config and close: the command is sent, or
\* the call fails because cmd_rx is gone.
Issue(c) ==
    /\ c \notin issued
    /\ SendCommand(c)
    /\ issued' = issued \cup {c}
    /\ FailAll({c} \cap IF MgrEnded THEN Caller ELSE {})
    /\ UNCHANGED <<echo, map, msg_q>>

\* A caller that waits borrows its client, so handles live as long as it does.
DropClients ==
    /\ \A c \in issued \cap Caller : result[c] # None
    /\ DropHandles
    /\ UNCHANGED appVars

-----------------------------------------------------------------------------
(* handle_cmd *)

\* Handlers that have drawn an echo and not yet inserted it.
Drawn == {c \in cmd_tasks \cap Call : echo[c] # None}

\* Mutant: the draw is not compared with the map.
AnyEcho(e) == e \in Echo

\* The test of generate_echo's loop.
FreeEcho(e) == map[e] = None

\* generate_echo draws until the map does not hold the echo.  On one thread no
\* other handler runs between the draw and the insertion.
GenerateEcho(c) ==
    /\ c \in cmd_tasks \ Drawn
    /\ Parallel \/ Drawn = {}
    /\ \E e \in Echo : FreeEcho(e) /\ echo' = [echo EXCEPT ![c] = e]
    /\ UNCHANGED <<taskVars, issued, map, result, msg_q>>

\* The responder goes to the map, over the one that may be there, and the frame
\* to send_task; the entry stays even if send_task has ended.
SendRequest(c) ==
    /\ c \in Drawn
    /\ EndCmdSending(c, c)
    /\ FailAll({map[echo[c]]})
    /\ map' = [map EXCEPT ![echo[c]] = c]
    /\ UNCHANGED <<issued, echo, msg_q>>

\* serde_json cannot serialize the action: the caller is told.
SerializeFails(c) ==
    /\ c \in Drawn
    /\ EndCmd(c)
    /\ FailAll({c})
    /\ UNCHANGED <<issued, echo, map, msg_q>>

\* GetConfig and SetConfig are answered on the spot: None and UnknownKey.
HandleConfig(c) ==
    /\ EndCmd(c)
    /\ result' = [result EXCEPT ![c] = c]
    /\ UNCHANGED <<issued, echo, map, msg_q>>

HandleClose(c) == EndCmdClosing(c) /\ UNCHANGED appVars

-----------------------------------------------------------------------------
(* handle_recv *)

HandleEvent(m) ==
    /\ EndRecv(m)
    /\ msg_q' = Append(msg_q, m)
    /\ UNCHANGED <<issued, echo, map, result>>

\* A message that is no OneBot data is logged and dropped.
HandleGarbage(m) == EndRecv(m) /\ UNCHANGED appVars

\* The response leads to the responder under its echo; without one it is ignored.
HandleResponse(c) ==
    /\ EndRecv(c)
    /\ map' = [map EXCEPT ![echo[c]] = None]
    /\ result' = [d \in Caller |-> IF d = map[echo[c]] THEN c ELSE result[d]]
    /\ UNCHANGED <<issued, echo, msg_q>>

-----------------------------------------------------------------------------
(* The manager, with handle_close and the drops of its return *)

\* Mutant: cmd_rx outlives the manager, with the responders it holds.
FinishLeaking ==
    /\ Finish
    /\ msg_q' = Append(msg_q, Notice)
    /\ UNCHANGED <<issued, echo, map, result>>

FinishApp ==
    /\ Finish
    /\ FailAll(Items(cmd_q))
    /\ msg_q' = Append(msg_q, Notice)
    /\ UNCHANGED <<issued, echo, map>>

ManageApp == \/ /\ Check \/ TakeCmd \/ TakeFrame \/ TakeClose \/ TakeElse
                   \/ StopSend \/ SendStopped \/ StopRecv \/ RecvStopped
                /\ UNCHANGED appVars
             \/ FinishApp

\* Mutant: callers that have their answer already are failed too.
ReleaseEverything ==
    /\ MgrEnded
    /\ cmd_tasks = {} /\ recv_tasks = {}
    /\ Mapped # {}
    /\ FailAll(Caller)
    /\ map' = [e \in Echo |-> None]
    /\ UNCHANGED <<taskVars, issued, echo, msg_q>>

\* The manager and all handler tasks are gone, and the shared map with them.
ReleaseMap ==
    /\ MgrEnded
    /\ cmd_tasks = {} /\ recv_tasks = {}
    /\ Mapped # {}
    /\ FailAll(Mapped)
    /\ map' = [e \in Echo |-> None]
    /\ UNCHANGED <<taskVars, issued, echo, msg_q>>

-----------------------------------------------------------------------------
(* The peer answers a request it received, emits events, and may close *)

PeerRespond(c) == c \in peer_got /\ PeerSend(c) /\ UNCHANGED appVars

PeerMessage(m) == PeerSend(m) /\ UNCHANGED appVars

LoseLink == Disconnect /\ UNCHANGED appVars

-----------------------------------------------------------------------------
SendTaskApp == SendTask /\ UNCHANGED appVars
RecvTaskApp == RecvTask /\ UNCHANGED appVars

CmdHandler(c) == \/ /\ c \in Call
                    /\ GenerateEcho(c) \/ SendRequest(c)
                 \/ c \in Config /\ HandleConfig(c)
                 \/ c \in Closer /\ HandleClose(c)

\* Mutant: a response is delivered as if it were an event.
RecvHandlerUnrouted(m) == HandleEvent(m)

RecvHandler(m) == \/ m \in Event /\ (HandleEvent(m) \/ HandleGarbage(m))
                  \/ m \in Call /\ HandleResponse(m)

Next == \/ \E c \in Cmd : Issue(c) \/ CmdHandler(c)
        \/ \E c \in Call : SerializeFails(c) \/ PeerRespond(c)
        \/ \E m \in Inbound : RecvHandler(m)
        \/ \E m \in Event \cup {CloseFrame} : PeerMessage(m)
        \/ DropClients \/ LoseLink \/ ReleaseMap
        \/ ManageApp \/ SendTaskApp \/ RecvTaskApp

Spec == Init /\ [][Next]_vars

\* What send_task does of itself.  A write that is pending goes on when the peer
\* reads, which it need not, and ends with an error when the link breaks.
SendOnward == /\ SendSignal \/ SendTake \/ SendElse \/ (link = "down" /\ SendFail)
              /\ UNCHANGED appVars

\* tokio runs every task that can make progress.  The environment owes nothing:
\* no user issues a command, no peer reads or sends and no link breaks by
\* obligation.
Fairness == /\ WF_vars(ManageApp)
            /\ WF_vars(SendOnward)
            /\ WF_vars(RecvTaskApp)
            /\ WF_vars(ReleaseMap)
            /\ \A c \in Cmd : WF_vars(CmdHandler(c))
            /\ \A m \in Inbound : WF_vars(RecvHandler(m))

FairSpec == Spec /\ Fairness

-----------------------------------------------------------------------------
(* A caller is answered with the response the peer gave to its own action, *)
(* never with another call's: echoes in flight lead to their own callers   *)
(* however requests, responses and handler tasks are interleaved.          *)
Correlated == \A c \in Call : result[c] \in {c, Failed, None}

(* A caller that still waits has its responder somewhere it can still be   *)
(* answered or dropped from: the command queue, its handler task or the    *)
(* action map.  No interleaving leaves a caller waiting on nothing.        *)
WaitingIsHeld ==
    \A c \in issued \cap Caller :
        result[c] = None => c \in Items(cmd_q) \cup cmd_tasks \cup Mapped

(* The application is told once, and only after both socket tasks have     *)
(* ended, that the connection is closed.                                   *)
NoticeMeansStopped ==
    \A i \in DOMAIN msg_q : msg_q[i] = Notice =>
        /\ mgr = "done" /\ sender = "ended" /\ receiver = "ended"
        /\ \A j \in DOMAIN msg_q : msg_q[j] = Notice => j = i

(* Responses and events that the peer sent before its Close frame are      *)
(* handled although the connection is being torn down: unless the          *)
(* application closes or the link breaks, a call the peer has answered is  *)
(* answered.                                                               *)
AnswerReachesCaller ==
    \A c \in Call :
        c \in peer_sent ~> result[c] = c \/ issued \cap Closer # {} \/ link = "down"

(* The close sequence itself terminates: both signals are acknowledged or  *)
(* found dropped, even by a task that fails while it is being signalled.   *)
(* The one exception is a peer that stops reading on a link that holds:    *)
(* send_task serves no signal while a write is pending, and the manager    *)
(* waits for it without a limit.                                           *)
ClosingTerminates ==
    (mgr = "stop_send") ~> (mgr = "done" \/ [](sender = "sending" /\ link # "down"))

(* Once the manager has returned no caller waits forever: the command      *)
(* queue and the action map are dropped, and every responder with them.    *)
NoCallerLeftBehind ==
    \A c \in Caller : (MgrEnded /\ c \in issued) ~> result[c] # None

(* The interface documents RecvMessage::Close as the response to the Close *)
(* command (app/traits.rs).  The manager reads the state between two       *)
(* iterations of its loop only, so this needs one more command or frame.   *)
CloseIsAnswered == (active = FALSE) ~> (MgrEnded \/ link # "up")

(* The connection implements the abstract calls. *)
Calls == INSTANCE ActionCalls WITH
    asked   <- issued \cap Call,
    served  <- peer_sent \cap Call,
    outcome <- [c \in Call |-> result[c]]

ImplementsCalls == Calls!CallsSpec
=============================================================================
