------------------------------- MODULE MCAppWS -------------------------------
(* Small instances of AppWS for TLC. *)
EXTENDS AppWS, TLC

MCCmd == Call \cup Config \cup Closer
MCFrame == Call
MCInbound == Call \cup Event

\* Calls, events and echoes are interchangeable (safety runs only).
Sym == Permutations(Call) \cup Permutations(Event) \cup Permutations(Echo)
=============================================================================
