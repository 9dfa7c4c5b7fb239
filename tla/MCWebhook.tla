----------------------------- MODULE MCWebhook -----------------------------
(* A small instance of Webhook for TLC. *)
EXTENDS Webhook

CONSTANTS e1, e2

MCId == {e1, e2}
MCCmd == (Req \X (1..MaxRelease)) \cup Closer

\* Two posts of one event or of two; swapping e1 and e2 shows nothing new.
MCPosts == {f \in [Req -> MCId] : f[CHOOSE r \in Req : TRUE] = e1}
=============================================================================
