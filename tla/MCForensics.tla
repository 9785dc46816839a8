---------------------------- MODULE MCForensics ----------------------------
(* Job names that differ, and names cut off before they differ.              *)
EXTENDS Forensics

OwnName  == [v \in Versions |-> v]
CutName  == [v \in Versions |-> 1]
Both     == {"handler", "ticker"}
One      == {"handler"}
=============================================================================
