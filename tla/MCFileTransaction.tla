-------------------------- MODULE MCFileTransaction --------------------------
(* Instances of FileTransaction for TLC. *)
EXTENDS FileTransaction, TLC

\* Paths and contents are only compared for equality.
FileSymmetry == Permutations(Paths) \union Permutations(Contents) \union Permutations(Tasks)
                \union Permutations(LockIds)

OneTx == 1..1
TwoTx == 1..2
=============================================================================
