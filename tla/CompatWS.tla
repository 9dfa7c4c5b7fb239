------------------------------ MODULE CompatWS ------------------------------
(***************************************************************************)
(* An application connected to a OneBot 11 implementation over WebSocket:  *)
(* the handler of app/compat/ws.rs over the connection of WSTask.  Its     *)
(* state is that of AppWS's handler; actions and responses are converted   *)
(* on the way (app/compat/data.rs), which may fail, and an action may be   *)
(* answered on the spot.                                                   *)
(*                                                                         *)
(* A message event with a reply segment needs the message replied to:      *)
(* while it is converted, its handler calls GetMsg on the connection it is *)
(* a handler of.  For this WSHandler keeps a client of its own, so that    *)
(* the command channel never closes: handles stays TRUE, manage_task never *)
(* takes its else branch, and a user that drops its clients changes        *)
(* nothing.  Bot status and storage are in AppData.                        *)
(***************************************************************************)
EXTENDS AppWS

CONSTANTS
    Reply,   \* events with a reply segment
    QueryOf  \* the GetMsg call that the handler of each of these makes

Query == {QueryOf[m] : m \in Reply}

ASSUME CompatAssumption ==
    /\ Reply \subseteq Event
    /\ QueryOf \in [Reply -> Call]
    /\ \A m, n \in Reply : QueryOf[m] = QueryOf[n] => m = n

-----------------------------------------------------------------------------
(* The application calls; a query is called by a handler alone *)

IssueUser(c) == c \notin Query /\ Issue(c)

-----------------------------------------------------------------------------
(* handle_cmd *)

\* What becomes of an action: it is sent on, in the words of OneBot 11, it is
\* answered on the spot - status, supported actions, files - or it is not
\* supported or does not convert.  A query is an action of OneBot 11 already.
ConvertAction(c) == IF c \in Query THEN {"send", "error"} ELSE {"send", "respond", "error"}

\* A responder is dropped with the error.
ConvertFails(c) ==
    /\ "error" \in ConvertAction(c)
    /\ EndCmd(c)
    /\ FailAll({c})
    /\ UNCHANGED <<issued, echo, map, msg_q>>

RespondLocally(c) ==
    /\ "respond" \in ConvertAction(c)
    /\ EndCmd(c)
    /\ result' = [result EXCEPT ![c] = c]
    /\ UNCHANGED <<issued, echo, map, msg_q>>

\* An action that is sent on draws its echo first; one that already has gets no
\* further than CmdHandler.
CompatCmd(c) == \/ CmdHandler(c)
                \/ c \in Call \ Drawn /\ (ConvertFails(c) \/ RespondLocally(c))
                \/ c \in Call /\ SerializeFails(c)

-----------------------------------------------------------------------------
(* handle_recv *)

\* What a caller gets from the data of its response: the answer, converted, or
\* an error.
ConvertRespData(c) == {c, Failed}

\* Mutant: a caller whose response fails to convert is not told.
CompatResponseKeeping(c) ==
    /\ EndRecv(c)
    /\ map' = [map EXCEPT ![echo[c]] = None]
    /\ \E o \in {c, None} :
         result' = [d \in Caller |-> IF d = map[echo[c]] THEN o ELSE result[d]]
    /\ UNCHANGED <<issued, echo, msg_q>>

\* The responder leaves the map; it gets the converted response, or is dropped
\* when the response reports a failure or does not convert.
CompatResponse(c) ==
    /\ EndRecv(c)
    /\ map' = [map EXCEPT ![echo[c]] = None]
    /\ \E o \in ConvertRespData(c) \cup {Failed} :
         result' = [d \in Caller |-> IF d = map[echo[c]] THEN o ELSE result[d]]
    /\ UNCHANGED <<issued, echo, msg_q>>

\* The handler of a reply calls GetMsg and waits for its own call's answer.
AskMessage(m) ==
    /\ m \in recv_tasks \cap Reply
    /\ Issue(QueryOf[m])

Asked(m) == QueryOf[m] \in issued /\ result[QueryOf[m]] # None

\* An event that converts is delivered; for a reply the message must be there.
DeliverEvent(m) ==
    /\ m \in Reply => Asked(m) /\ result[QueryOf[m]] # Failed
    /\ HandleEvent(m)

\* An event that does not convert is dropped, in a reply before or after the
\* query, and so is a reply whose query failed.
DropEvent(m) ==
    /\ m \in Reply /\ QueryOf[m] \in issued => Asked(m)
    /\ HandleGarbage(m)

CompatRecv(m) == \/ m \in Call /\ CompatResponse(m)
                 \/ m \in Reply /\ AskMessage(m)
                 \/ m \in Event /\ (DeliverEvent(m) \/ DropEvent(m))

-----------------------------------------------------------------------------
CompatNext ==
    \/ \E c \in Cmd : IssueUser(c) \/ CompatCmd(c)
    \/ \E c \in Call : PeerRespond(c)
    \/ \E m \in Inbound : CompatRecv(m)
    \/ \E m \in Event \cup {CloseFrame} : PeerMessage(m)
    \/ LoseLink \/ ReleaseMap
    \/ ManageApp \/ SendTaskApp \/ RecvTaskApp

CompatSpec == Init /\ [][CompatNext]_vars

\* As on AppWS: tokio runs every task that can make progress, and the
\* environment owes nothing, the reading of a pending write included.
CompatFairness ==
    /\ WF_vars(ManageApp)
    /\ WF_vars(SendOnward)
    /\ WF_vars(RecvTaskApp)
    /\ WF_vars(ReleaseMap)
    /\ \A c \in Cmd : WF_vars(CompatCmd(c))
    /\ \A m \in Inbound : WF_vars(CompatRecv(m))

CompatFairSpec == CompatSpec /\ CompatFairness

-----------------------------------------------------------------------------
\* A handler waits for a query that was sent and not answered.
QueryPending == \E m \in Reply \cap recv_tasks : QueryOf[m] \in Mapped

(* Calling the connection from within one of its handlers does not block   *)
(* it: once the peer has answered the query the handler ends, unless the   *)
(* application closes or the link breaks.                                  *)
QuerySettles ==
    \A m \in Reply :
        QueryOf[m] \in peer_sent ~>
            m \notin recv_tasks \/ issued \cap Closer # {} \/ link = "down"

(* Once the manager has returned, callers are left waiting only by a query *)
(* that is never answered: its handler keeps the map it waits to be        *)
(* dropped from, with every caller that is in it.                          *)
LeftOnlyByQuery ==
    \A c \in Caller :
        (MgrEnded /\ c \in issued) ~> (result[c] # None \/ []QueryPending)
=============================================================================
