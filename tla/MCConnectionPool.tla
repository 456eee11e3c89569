--------------------------- MODULE MCConnectionPool ---------------------------
(* ConnectionPool with three threads, two databases, one of which is a      *)
(* template whose connections are not kept, and one connection object more  *)
(* than the pool holds.                                                     *)
EXTENDS ConnectionPool, TLC

CONSTANTS c1, c2, c3, k1, k2, k3, app, tmpl

MCConn == {c1, c2, c3}
MCCursor == {k1, k2, k3}
MCOneDsn == {app}
MCDsn == {app, tmpl}
MCKept == {app}

Symmetry == Permutations(MCConn) \cup Permutations(MCCursor)
=============================================================================
