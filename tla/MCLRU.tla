--------------------------------- MODULE MCLRU ---------------------------------
(* LRU with three keys, of which two fit, and one walk at a time. *)
EXTENDS LRU, TLC

CONSTANTS k1, k2, k3, w1

ThreeKeys == {k1, k2, k3}
OneWalker == {w1}
=============================================================================
