------------------------------- MODULE AppHttp -------------------------------
(***************************************************************************)
(* An application's HTTP client: app/http.rs's HttpMessageSource and       *)
(* HttpApp, talking to the implementation's server of ImpHttp.             *)
(*                                                                         *)
(* A source polls for events one request after another: it hands out what  *)
(* it has buffered first, then asks again, after a pause when it got       *)
(* nothing.  poll_message may be dropped at any await, in a select for     *)
(* instance, and called again.  Its requests carry no echo and parameters  *)
(* that deserialize.  Each may carry another limit here, which includes    *)
(* the source's fixed one.  The source is the server's only client, and    *)
(* makes no more requests than there are in Poll.                          *)
(***************************************************************************)
EXTENDS ImpHttp

ASSUME AppAssumption == Action = {} /\ Bad = {} /\ Outer = {}

VARIABLES
    source,  \* where poll_message is
    cur,     \* the request it made last
    events,  \* HttpMessageSource.events
    got,     \* history: the events poll_message returned, in order
    missed   \* history: requests that were dropped, or whose response was lost

sourceVars == <<source, cur, events, got, missed>>
allVars == <<vars, sourceVars>>

SourceInit ==
    /\ Init
    /\ source = "idle"
    /\ cur = None
    /\ events = << >>
    /\ got = << >>
    /\ missed = {}

-----------------------------------------------------------------------------
(* poll_message *)

\* An event of an earlier response.
PollBuffered ==
    /\ source = "idle"
    /\ events # << >>
    /\ got' = Append(got, Head(events))
    /\ events' = Tail(events)
    /\ UNCHANGED <<vars, source, cur, missed>>

\* The loop is entered, or goes on after the pause.
MayAsk == source = "sleeping" \/ (source = "idle" /\ events = << >>)

\* get_latest_events, on a new connection or one that is kept alive.
Ask(r) ==
    /\ MayAsk
    /\ Accept(r) \/ \E p \in Poll : KeepAlive(p, r)
    /\ source' = "asking"
    /\ cur' = r
    /\ UNCHANGED <<impVars, events, got, missed>>

\* Nobody accepts the connection any more.
AskNobody ==
    /\ MayAsk
    /\ server = "ended"
    /\ source' = "sleeping"
    /\ UNCHANGED <<vars, cur, events, got, missed>>

\* Mutant: the events after the first are forgotten.
TakeFirst(b) == got' = Append(got, Head(b)) /\ UNCHANGED events

\* The first event is returned, the others are buffered.
TakeBatch(b) == got' = Append(got, Head(b)) /\ events' = Tail(b)

\* The response arrives; without events the loop goes on.
Reply ==
    /\ source = "asking"
    /\ http[cur] = "answered"
    /\ LET b == batch[answer[cur]] IN
         IF b = << >> THEN source' = "sleeping" /\ UNCHANGED <<events, got>>
                      ELSE source' = "idle" /\ TakeBatch(b)
    /\ UNCHANGED <<vars, cur, missed>>

\* An error is logged: the status is not a success, or the connection broke,
\* before the response or while it was on its way.
ReplyFails ==
    /\ source = "asking"
    /\ http[cur] \in {"answered", "refused", "failed", "cut"}
    /\ source' = "sleeping"
    /\ missed' = IF http[cur] = "answered" THEN missed \cup {cur} ELSE missed
    /\ UNCHANGED <<vars, cur, events, got>>

\* poll_message is dropped, and its request with it.
Cancel ==
    /\ source \in {"asking", "sleeping"}
    /\ source' = "idle"
    /\ IF source = "asking"
       THEN /\ missed' = missed \cup {cur}
            /\ IF http[cur] \in {"open", "waiting"} THEN HangUp(cur) ELSE UNCHANGED taskVars
       ELSE UNCHANGED <<missed, taskVars>>
    /\ UNCHANGED <<impVars, cur, events, got>>

Source == \/ PollBuffered \/ AskNobody \/ Reply \/ ReplyFails \/ Cancel
          \/ \E r \in Poll : Ask(r)

-----------------------------------------------------------------------------
(* The server, as in ImpHttp *)

\* The server refuses a request of the source, or it is on its way.
Send(r) == (PassBody(r) \/ Refuse(r)) /\ UNCHANGED impVars

ServerNext ==
    \/ \E e \in Event : SendEvent(e)
    \/ \E c \in Closer : Issue(c)
    \/ \E c \in Cmd : CmdHandler(c)
    \/ \E r \in Poll : Send(r) \/ RecvHandler(r)
    \/ Serve \/ FinishImp \/ ReleaseMap

SourceNext == Source \/ (ServerNext /\ UNCHANGED sourceVars)

SourceSpec == SourceInit /\ [][SourceNext]_allVars

\* The manager, from one step to the next, to the end of the map.
Manager == (Serve \/ FinishImp \/ ReleaseMap) /\ UNCHANGED sourceVars

\* The source goes on by itself.
GoOn == PollBuffered \/ Reply \/ ReplyFails \/ \E r \in Poll : Ask(r)

\* The server's tasks run as in ImpHttp, and so does a request of the source.
\* The application polls again and again, as OBridge's app_task does.
SourceFairness ==
    /\ WF_allVars(Manager)
    /\ \A c \in Cmd : WF_allVars(CmdHandler(c) /\ UNCHANGED sourceVars)
    /\ \A r \in Poll : WF_allVars((Send(r) \/ RecvHandler(r)) /\ UNCHANGED sourceVars)
    /\ WF_allVars(GoOn)

SourceFairSpec == SourceSpec /\ SourceFairness

-----------------------------------------------------------------------------
(* The application sees events in the order the implementation sent them   *)
(* and none twice, although requests that were dropped or failed may still *)
(* be handled while later ones are; and of the responses it got it loses   *)
(* nothing, although they are buffered across calls that are dropped.      *)
(* Events are numbered in the order they are sent (SendEvent).             *)
PolledInOrder ==
    /\ LET seen == got \o events IN
         /\ Items(seen) \subseteq Items(sent)
         /\ \A i, j \in DOMAIN seen : i < j => seen[i] < seen[j]
    /\ \A r \in Poll \ missed :
         answer[r] # None /\ (r # cur \/ source # "asking") =>
             Items(batch[r]) \subseteq Items(got) \cup Items(events)

\* The response e went with was lost on its way, or its request dropped.
Lost(e) == \E r \in missed : e \in Items(batch[r])

\* The request e was taken for was cut off without an answer by the close.
CutOff(e) ==
    ~active /\ \E r \in Poll : e \in Items(batch[r]) /\ answer[r] = None /\ http[r] \in Final

\* Nothing takes events from the queue any more; Poll is the model's bound.
Unasked == poisoned \/ ~active \/ \A r \in Poll : http[r] # "none"

(* An event that was sent reaches the application that polls, over failed  *)
(* and dropped polls.  What a request takes from the queue is never lost   *)
(* by a server that runs: it is in the response, which is lost on its way  *)
(* only or because the application dropped the poll.  An event that does   *)
(* not get there otherwise is still in the queue, for good: the queue is   *)
(* poisoned, the server closed, or nobody polls.                           *)
EventsArrive ==
    \A e \in Event :
        e \in Items(sent) ~>
            \/ e \in Items(got)
            \/ Lost(e)
            \/ CutOff(e)
            \/ [](e \in Items(queue) /\ Unasked)
=============================================================================
