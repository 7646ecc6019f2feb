--------------------------- MODULE MCWorkspaceLock ---------------------------
(* Instances of WorkspaceLock for TLC. *)
EXTENDS WorkspaceLock, TLC

\* Tasks and lock keys are only compared for equality.
LockSymmetry == Permutations(Tasks) \union Permutations(LockIds)

TwoTx == 1..2
=============================================================================
