--------------------------- MODULE MCTaskExecution ---------------------------
(* Instances of TaskExecution for TLC. *)
EXTENDS TaskExecution

TwoExecs == 1..2
ThreeExecs == 1..3
=============================================================================
