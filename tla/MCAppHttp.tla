----------------------------- MODULE MCAppHttp -----------------------------
(* A small instance of AppHttp for TLC. *)
EXTENDS AppHttp

MCReq == Action \cup Poll \cup Bad
MCCmd == MCReq \cup Closer
=============================================================================
