--------------------------- MODULE MCLossyChannel ---------------------------
(* Small instances of LossyChannel for TLC. *)
EXTENDS LossyChannel, TLC

\* Items are interchangeable (safety run only).
Sym == Permutations(Item)
=============================================================================
