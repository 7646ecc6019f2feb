----------------------------- MODULE MCWorkbench -----------------------------
(* A task, one handler that creates, asks and proposes, and one that creates,  *)
(* adjusts, posts and confirms.                                                *)
EXTENDS Workbench

CONSTANTS h1, h2

MCCalls == [h \in {h1, h2} |->
              IF h = h1 THEN {"task", "turn", "propose"}
                        ELSE {"cli", "adjust", "message", "confirm"}]

MCClientPosts == {[role |-> "USER", kind |-> "TEXT", version |-> 0],
                  [role |-> "MENTOR", kind |-> "PROPOSAL", version |-> 1]}
=============================================================================
