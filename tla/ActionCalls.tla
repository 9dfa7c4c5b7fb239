----------------------------- MODULE ActionCalls -----------------------------
(***************************************************************************)
(* What OBApp::send_action promises its callers: an action is answered at  *)
(* most once, with the response the peer gave to that very action, or it   *)
(* fails.  The channels, tasks and echo strings in between do not show.    *)
(***************************************************************************)
CONSTANTS Call, None, Failed

VARIABLES
    asked,    \* calls made
    served,   \* calls the peer has responded to
    outcome   \* what each caller got: the call whose response it is, Failed or None

callVars == <<asked, served, outcome>>

CallsInit == /\ asked = {}
             /\ served = {}
             /\ outcome = [c \in Call |-> None]

Ask(c) == /\ c \notin asked
          /\ asked' = asked \cup {c}
          /\ UNCHANGED <<served, outcome>>

\* The connection is gone already: the call fails as it is made.
AskFailing(c) == /\ c \notin asked
                 /\ asked' = asked \cup {c}
                 /\ outcome' = [outcome EXCEPT ![c] = Failed]
                 /\ UNCHANGED served

Serve(c) == /\ c \in asked \ served
            /\ served' = served \cup {c}
            /\ UNCHANGED <<asked, outcome>>

Answer(c) == /\ c \in served
             /\ outcome[c] = None
             /\ outcome' = [outcome EXCEPT ![c] = c]
             /\ UNCHANGED <<asked, served>>

\* A connection that ends fails all the calls it holds at once.
Fail(S) == /\ S # {}
           /\ \A c \in S : c \in asked /\ outcome[c] = None
           /\ outcome' = [c \in Call |-> IF c \in S THEN Failed ELSE outcome[c]]
           /\ UNCHANGED <<asked, served>>

CallsNext == \/ \E c \in Call : Ask(c) \/ AskFailing(c) \/ Serve(c) \/ Answer(c)
             \/ \E S \in SUBSET Call : Fail(S)

CallsSpec == CallsInit /\ [][CallsNext]_callVars
=============================================================================
