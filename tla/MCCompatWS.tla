----------------------------- MODULE MCCompatWS -----------------------------
(* A small instance of CompatWS for TLC: one reply event, one user's call. *)
EXTENDS CompatWS

CONSTANTS user, query, reply

MCCall == {user, query}
MCEvent == {reply}
MCQueryOf == [m \in {reply} |-> query]
MCCmd == MCCall \cup Config \cup Closer
MCInbound == MCCall \cup MCEvent
=============================================================================
