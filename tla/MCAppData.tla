----------------------------- MODULE MCAppData -----------------------------
(* A small instance of AppData for TLC: two uploads whose ids share a shard, *)
(* the first one finished twice.                                             *)
EXTENDS AppData

CONSTANTS u1, u2, t1, t2, f1, f2, m1, m2

MCUpload == {u1, u2}
MCPart == {t1, t2}
MCFin == {f1, f2}
MCFileOf == [x \in MCPart \cup MCFin |-> u1]
MCShardOf == [u \in MCUpload |-> 1]
MCMeta == {m1, m2}
MCStatusOf == [m \in MCMeta |-> IF m = m1 THEN "good" ELSE "bad"]
=============================================================================
