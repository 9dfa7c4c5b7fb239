----------------------------- MODULE MCImpHttp -----------------------------
(* Small instances of ImpHttp for TLC. *)
EXTENDS ImpHttp

MCReq == Action \cup Poll \cup Bad
MCCmd == MCReq \cup Closer
============================================================================
