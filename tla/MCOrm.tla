-------------------------------- MODULE MCOrm --------------------------------
(* Orm with two lines, two orders and two amounts, each interchangeable. *)
EXTENDS Orm, TLC

CONSTANTS l1, l2, o1, o2, a1, a2

MCLines == {l1, l2}
MCOrders == {o1, o2}
MCAmounts == {a1, a2}
Symmetry == Permutations(Lines) \cup Permutations(Orders) \cup Permutations(Amounts)
==============================================================================
