------------------------------ MODULE MCSequence ------------------------------
(* Sequence with three transactions, which are interchangeable. *)
EXTENDS Sequence, TLC

CONSTANTS t1, t2, t3

MCTx == {t1, t2, t3}
Symmetry == Permutations(Tx)
=============================================================================
