------------------------------ MODULE Webhook ------------------------------
(***************************************************************************)
(* An application's webhook: app/webhook.rs's WHandler, its provider and   *)
(* WebhookApp over the server of HttpTask, posted to by the                *)
(* implementation's WebhookImpl (imp/webhook.rs).                          *)
(*                                                                         *)
(* A request is one post of an event.  Its delivery lets the application   *)
(* make a WebhookApp that owns the event's context: the actions sent       *)
(* through it and its clones are kept and travel in the response when the  *)
(* owner releases.  Two posts of one event id share an entry of the map.   *)
(* An application that asks for a second app of one post gets one with     *)
(* actions of its own; here each post has one owner.                       *)
(*                                                                         *)
(* WebhookApp sends Respond and Close alone: the other arms of handle_cmd  *)
(* are never run.  An owner inside a Box<dyn AppDyn> releases nothing,     *)
(* because deref_impl! does not forward release: it is an owner that never *)
(* releases here.                                                          *)
(***************************************************************************)
EXTENDS HttpTask

CONSTANTS
    Id,          \* ids of events
    Posts,       \* which events the requests post: functions from Req to Id
    Act,         \* actions the application sends, each once
    MaxRelease,  \* how often one owner may call release
    Closer,      \* calls of WebhookApp::close
    Notice,      \* RecvMessage::Close
    None         \* no request, no release

\* The k-th release of the app that owns the event of request r.
Release == Req \X (1..MaxRelease)

ASSUME WebhookAssumption ==
    /\ MaxRelease \in Nat
    /\ Posts \subseteq [Req -> Id]
    /\ Cmd = Release \cup Closer
    /\ Release \cap Closer = {}
    /\ Notice \notin Req
    /\ None \notin Req \cup Release

VARIABLES
    event,        \* the id of the event a request posts
    closing,      \* Close commands issued
    pc,           \* where the handle_recv task of each request is
    actions_map,  \* WHandler.actions_map: the request whose responder an id leads to
    msgs,         \* every RecvMessage delivered to the application
    owner,        \* requests for whose event a WebhookApp was provided
    actions,      \* WebhookAppInner.actions of each owner
    released,     \* how often each owner released
    taken,        \* the actions each release carries
    answer        \* the release whose actions each client got

hookVars == <<event, closing, pc, actions_map, msgs, owner, actions, released, taken, answer>>
vars == <<taskVars, hookVars>>

TypeOK ==
    /\ TaskTypeOK
    /\ event \in [Req -> Id]
    /\ closing \subseteq Closer
    /\ pc \in [Req -> {"start", "registered", "ended"}]
    /\ actions_map \in [Id -> Req \cup {None}]
    /\ msgs \subseteq Req \cup {Notice}
    /\ owner \subseteq msgs \cap Req
    /\ actions \in [Req -> Seq(Act)]
    /\ released \in [Req -> 0..MaxRelease]
    /\ taken \in [Release -> Seq(Act)]
    /\ answer \in [Req -> Release \cup {None}]
    /\ \A r \in Req : /\ pc[r] = "registered" => r \in recv_tasks
                      /\ released[r] > 0 => r \in owner
                      /\ answer[r] # None => answer[r][2] =< released[answer[r][1]]

Init ==
    /\ TaskInit
    /\ event \in Posts
    /\ closing = {}
    /\ pc = [r \in Req |-> "start"]
    /\ actions_map = [i \in Id |-> None]
    /\ msgs = {}
    /\ owner = {}
    /\ actions = [r \in Req |-> << >>]
    /\ released = [r \in Req |-> 0]
    /\ taken = [c \in Release |-> << >>]
    /\ answer = [r \in Req |-> None]

Mapped == {actions_map[i] : i \in Id} \ {None}

-----------------------------------------------------------------------------
(* WebhookAppProvider and WebhookApp *)

\* Mutant: the context may be any event's, delivered or not.
ProvideAny(r) ==
    /\ r \notin owner
    /\ owner' = owner \cup {r}
    /\ UNCHANGED <<event, taskVars, closing, pc, actions_map, msgs, actions, released, taken,
                   answer>>

\* set_event_context with a delivered event, then provide.
Provide(r) ==
    /\ r \in msgs \cap Req
    /\ r \notin owner
    /\ owner' = owner \cup {r}
    /\ UNCHANGED <<event, taskVars, closing, pc, actions_map, msgs, actions, released, taken,
                   answer>>

\* send_action_impl of the owner or of a clone, before or after a release.
SendAction(r, a) ==
    /\ r \in owner
    /\ \A q \in Req : a \notin Items(actions[q])
    /\ \A c \in Release : a \notin Items(taken[c])
    /\ actions' = [actions EXCEPT ![r] = Append(@, a)]
    /\ UNCHANGED <<event, taskVars, closing, pc, actions_map, msgs, owner, released, taken,
                   answer>>

\* Mutant: the actions are copied, not taken.
TakeNone(r) == UNCHANGED actions

\* The actions kept so far leave the app.
TakeActions(r) == actions' = [actions EXCEPT ![r] = << >>]

\* Mutant: nothing is sent when no actions are kept.
ReleaseIfAny(r) ==
    /\ r \in owner
    /\ released[r] < MaxRelease
    /\ LET c == <<r, released[r] + 1>> IN
         /\ taken' = [taken EXCEPT ![c] = actions[r]]
         /\ IF actions[r] = << >> THEN UNCHANGED <<cmd_q, body_q, active, mgr, cmd_tasks, server>>
            ELSE SendCommand(c)
    /\ released' = [released EXCEPT ![r] = @ + 1]
    /\ TakeActions(r)
    /\ UNCHANGED <<event, recv_tasks, http, closing, pc, actions_map, msgs, owner, answer>>

\* release of the owner; it may be called again.
ReleaseApp(r) ==
    /\ r \in owner
    /\ released[r] < MaxRelease
    /\ LET c == <<r, released[r] + 1>> IN
         /\ taken' = [taken EXCEPT ![c] = actions[r]]
         /\ SendCommand(c)
    /\ released' = [released EXCEPT ![r] = @ + 1]
    /\ TakeActions(r)
    /\ UNCHANGED <<event, recv_tasks, http, closing, pc, actions_map, msgs, owner, answer>>

\* close needs an app, and an app needs an event.
CloseApp(c) ==
    /\ owner # {}
    /\ c \notin closing
    /\ closing' = closing \cup {c}
    /\ SendCommand(c)
    /\ UNCHANGED <<event, recv_tasks, http, pc, actions_map, msgs, owner, actions, released, taken,
                   answer>>

User == \/ \E r \in Req : \/ Provide(r) \/ ReleaseApp(r)
                          \/ \E a \in Act : SendAction(r, a)
        \/ \E c \in Closer : CloseApp(c)

-----------------------------------------------------------------------------
(* WHandler *)

\* Mutant: an entry that is there is kept and the new responder forgotten.
RegisterOnce(r) ==
    /\ r \in recv_tasks
    /\ pc[r] = "start"
    /\ pc' = [pc EXCEPT ![r] = "registered"]
    /\ actions_map' = [actions_map EXCEPT ![event[r]] = IF @ = None THEN r ELSE @]
    /\ UNCHANGED <<event, taskVars, closing, msgs, owner, actions, released, taken, answer>>

\* The responder goes to the map; that of an earlier post of the event is
\* dropped.
Register(r) ==
    /\ r \in recv_tasks
    /\ pc[r] = "start"
    /\ pc' = [pc EXCEPT ![r] = "registered"]
    /\ http' = Failing({actions_map[event[r]]})
    /\ actions_map' = [actions_map EXCEPT ![event[r]] = r]
    /\ UNCHANGED <<event, cmd_q, body_q, active, mgr, cmd_tasks, recv_tasks, server, closing, msgs,
                   owner, actions, released, taken, answer>>

\* The event is handed to the application.
Deliver(r) ==
    /\ pc[r] = "registered"
    /\ pc' = [pc EXCEPT ![r] = "ended"]
    /\ EndRecv(r)
    /\ msgs' = msgs \cup {r}
    /\ UNCHANGED <<event, cmd_q, body_q, active, mgr, cmd_tasks, server, http, closing, actions_map,
                   owner, actions, released, taken, answer>>

RecvHandler(r) == Register(r) \/ Deliver(r)

\* Respond: the responder under the id, whoever put it there, is removed and
\* gets the actions, if its client is still there; if not, or without a
\* responder, they are lost and an error is logged.
HandleRespond(c) ==
    /\ EndCmd(c)
    /\ LET r == actions_map[event[c[1]]] IN
         IF r # None /\ http[r] = "waiting"
         THEN /\ http' = [http EXCEPT ![r] = "answered"]
              /\ answer' = [answer EXCEPT ![r] = c]
         ELSE UNCHANGED <<http, answer>>
    /\ actions_map' = [actions_map EXCEPT ![event[c[1]]] = None]
    /\ UNCHANGED <<event, active, recv_tasks, closing, pc, msgs, owner, actions, released, taken>>

HandleClose(c) == EndCmd(c) /\ active' = FALSE /\ UNCHANGED <<http, hookVars>>

CmdHandler(c) == \/ c \in Release /\ HandleRespond(c)
                 \/ c \in Closer /\ HandleClose(c)

-----------------------------------------------------------------------------
(* WebhookImpl::send_event_impl *)

\* How the post of r returned to the implementation.  The internal Action the
\* response is parsed into has an echo that no webhook application sends: only
\* an empty list of actions parses.
SendEventResult(r) ==
    CASE http[r] = "answered" -> IF taken[answer[r]] = << >> THEN "ok" ELSE "err"
      [] http[r] \in {"refused", "failed", "cut"} -> "err"
      [] OTHER -> "pending"

-----------------------------------------------------------------------------
(* The server, and the end of the map *)

FinishHook ==
    /\ Finish
    /\ msgs' = msgs \cup {Notice}
    /\ UNCHANGED <<event, closing, pc, actions_map, owner, actions, released, taken, answer>>

\* The manager and all handler tasks are gone, and the shared map with them.
ReleaseMap ==
    /\ MgrEnded
    /\ cmd_tasks = {} /\ recv_tasks = {}
    /\ Mapped # {}
    /\ http' = Failing(Mapped)
    /\ actions_map' = [i \in Id |-> None]
    /\ UNCHANGED <<event, cmd_q, body_q, active, mgr, cmd_tasks, recv_tasks, server, closing, pc,
                   msgs, owner, actions, released, taken, answer>>

Serve == (Working \/ ServerSignal) /\ UNCHANGED hookVars

PassBodyHook(r) == PassBody(r) /\ UNCHANGED hookVars

Client(r) == Connection(r) /\ UNCHANGED hookVars

Next == \/ User
        \/ \E c \in Cmd : CmdHandler(c)
        \/ \E r \in Req : RecvHandler(r) \/ PassBodyHook(r) \/ Client(r)
        \/ Serve \/ FinishHook \/ ReleaseMap

Spec == Init /\ [][Next]_vars

\* tokio runs every task that can make progress.  Clients and the application
\* owe nothing: an app may never be released.
Fairness == /\ WF_vars(Serve)
            /\ WF_vars(FinishHook)
            /\ WF_vars(ReleaseMap)
            /\ \A c \in Cmd : WF_vars(CmdHandler(c))
            /\ \A r \in Req : WF_vars(RecvHandler(r))

FairSpec == Spec /\ Fairness

-----------------------------------------------------------------------------
\* Another post of the event of r.
Reposted(r) == \E q \in Req \ {r} : event[q] = event[r] /\ http[q] # "none"

(* A client that waits has its responder in the body queue, in a handler   *)
(* that has not registered it yet, or in the map under its event's id:     *)
(* second posts, second releases and the end of the server leave no client *)
(* with a responder nobody can reach.                                      *)
WaitingIsHeld ==
    \A r \in Req : http[r] = "waiting" =>
        \/ r \in Items(body_q)
        \/ r \in recv_tasks /\ pc[r] = "start"
        \/ actions_map[event[r]] = r

(* No action reaches two clients, nor a client that posted another event,  *)
(* although the entry of an id may be replaced between the delivery of an  *)
(* event and the release of its app: an action is kept by one app or went  *)
(* with one of its releases, and a release answers one post, of the same   *)
(* event id.  WebhookImpl is told that a post succeeded only when an       *)
(* application that was handed an event of that id released it with no     *)
(* action: actions lost on the way never look like a success.              *)
ActionOnce ==
    /\ \A r, q \in Req : r # q =>
         /\ Items(actions[r]) \cap Items(actions[q]) = {}
         /\ answer[r] # None => answer[r] # answer[q]
    /\ \A c, d \in Release : Items(taken[c]) \cap Items(taken[d]) # {} => c = d
    /\ \A r \in Req, c \in Release : Items(actions[r]) \cap Items(taken[c]) = {}
    /\ \A r \in Req : answer[r] # None => event[answer[r][1]] = event[r]
    /\ \A r \in Req : SendEventResult(r) = "ok" =>
         \E q \in owner : /\ event[q] = event[r]
                          /\ \E k \in 1..released[q] : taken[<<q, k>>] = << >>

(* An app that releases has the post it was made for answered - by that    *)
(* release or by a later one whose handler runs first, which then loses    *)
(* the actions of the earlier one - unless the client hangs up, the event  *)
(* is posted again or the server is closed.  Once the server is closed no  *)
(* client waits forever, released or not.                                  *)
ClientsSettle ==
    \A r \in Req :
        /\ released[r] > 0 ~>
             \/ answer[r] # None /\ answer[r][1] = r
             \/ http[r] \in {"gone", "over"}
             \/ Reposted(r)
             \/ ~active
        /\ (MgrEnded /\ http[r] = "waiting") ~> http[r] # "waiting"
=============================================================================
