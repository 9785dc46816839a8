----------------------------- MODULE MCWatcher -----------------------------
(* Two releases, and names for them that do not clash.                       *)
EXTENDS Watcher

Two      == {"v1", "v2"}
Distinct == [v \in Two |-> v]
=============================================================================
