------------------------------- MODULE Sequence -------------------------------
(***************************************************************************)
(* The numbers drawn from one ir.sequence                                  *)
(* (odoo/addons/base/models/ir_sequence.py) by concurrent transactions,    *)
(* and the changes users make to it.                                       *)
(*                                                                         *)
(* A `standard` sequence is a PostgreSQL sequence: nextval() is not undone *)
(* by a rollback.  A `no_gap` one is the column number_next of its row,    *)
(* locked with FOR UPDATE NOWAIT and updated in the drawing transaction.   *)
(* Transactions read the row from their snapshot; an UPDATE or a lock on a *)
(* row that changed since fails (REPEATABLE READ), and the transaction is  *)
(* rolled back.                                                            *)
(***************************************************************************)
EXTENDS Naturals, FiniteSets

CONSTANTS Tx,         \* transactions
          NoTx,
          Switches,   \* implementations a user may change the sequence to
          MaxDraws,   \* bound on the numbers drawn
          MaxEdits    \* bound on the changes made to the sequence

ASSUME SequenceAssumption ==
    /\ NoTx \notin Tx
    /\ Switches \subseteq {"standard", "no_gap"}
    /\ MaxDraws \in Nat /\ MaxEdits \in Nat

(* Three fields are not in the database: base is the number the no_gap      *)
(* count started from, when the sequence was created or last changed; since *)
(* is the first draw after it last became no_gap; stamp tells the versions  *)
(* of the row apart.                                                        *)
Row == [impl : {"standard", "no_gap"}, next : Nat, base : Nat, since : Nat, stamp : Nat]

VARIABLES
    row,      \* the committed row
    pg,       \* what nextval() will return next
    rowLock,  \* the transaction that holds the row
    seqLock,  \* the one that created, dropped or restarted the PG sequence
    newPg,    \* its uncommitted position
    view,     \* the row as each transaction sees it
    active,   \* transactions that have begun
    drawers,  \* those that called nextval()
    got,      \* <<number, draw>> of the draws of the open transactions
    used,     \* those of the committed ones
    draws, edits   \* counters of the bounds; draws also names each draw

vars == <<row, pg, rowLock, seqLock, newPg, view, active, drawers, got, used, draws, edits>>

TypeOK ==
    /\ row \in Row
    /\ {pg, newPg, draws, edits} \subseteq Nat
    /\ rowLock \in Tx \cup {NoTx}
    /\ seqLock \in Tx \cup {NoTx}
    /\ view \in [Tx -> Row]
    /\ active \subseteq Tx
    /\ drawers \subseteq active
    /\ got \in [Tx -> SUBSET (Nat \X Nat)]
    /\ used \subseteq Nat \X Nat
    /\ rowLock # NoTx => rowLock \in active
    /\ seqLock # NoTx => seqLock \in active

Init ==
    /\ row \in { [impl |-> i, next |-> 1, base |-> 1, since |-> 0, stamp |-> 0] : i \in {"standard", "no_gap"} }
    /\ pg = 1
    /\ rowLock = NoTx
    /\ seqLock = NoTx
    /\ newPg = 1
    /\ view = [t \in Tx |-> row]
    /\ active = {}
    /\ drawers = {}
    /\ got = [t \in Tx |-> {}]
    /\ used = {}
    /\ draws = 0
    /\ edits = 0

Begin(t) ==
    /\ t \notin active
    /\ active' = active \cup {t}
    /\ view' = [view EXCEPT ![t] = row]
    /\ UNCHANGED <<row, pg, rowLock, seqLock, newPg, drawers, got, used, draws, edits>>

(* The row may be locked: nobody else has it, and nobody changed it since   *)
(* the snapshot.                                                            *)
Lockable_Stale(t) == rowLock = NoTx \/ rowLock = t

Lockable(t) ==
    \/ rowLock = t
    \/ rowLock = NoTx /\ row.stamp = view[t].stamp

Drawn(t, n) ==
    /\ got' = [got EXCEPT ![t] = @ \cup {<<n, draws>>}]
    /\ draws' = draws + 1

(* _select_nextval(): waits for a transaction that is changing the PG       *)
(* sequence, and fails if there is none any more.                           *)
DrawStandard(t) ==
    /\ t \in active
    /\ draws < MaxDraws
    /\ view[t].impl = "standard"
    /\ IF seqLock = t
       THEN /\ newPg' = newPg + 1
            /\ Drawn(t, newPg)
            /\ pg' = pg
       ELSE /\ seqLock = NoTx
            /\ row.impl = "standard"
            /\ pg' = pg + 1
            /\ Drawn(t, pg)
            /\ newPg' = newPg
    /\ drawers' = drawers \cup {t}
    /\ UNCHANGED <<row, rowLock, seqLock, view, active, used, edits>>

(* _update_nogap(): number_next is read before the row is locked. *)
DrawNoGap(t) ==
    /\ t \in active
    /\ draws < MaxDraws
    /\ view[t].impl = "no_gap"
    /\ Lockable(t)
    /\ rowLock' = t
    /\ view' = [view EXCEPT ![t].next = @ + 1]
    /\ Drawn(t, view[t].next)
    /\ UNCHANGED <<row, pg, seqLock, newPg, active, drawers, used, edits>>

(* CREATE, ALTER or DROP SEQUENCE: waits for every other transaction that   *)
(* drew from it.                                                            *)
Alterable(t) ==
    /\ seqLock \in {NoTx, t}
    /\ drawers \subseteq {t}

(* write({'implementation': ...}) *)
SwitchToNoGap(t) ==
    /\ t \in active
    /\ edits < MaxEdits
    /\ "no_gap" \in Switches /\ view[t].impl = "standard"
    /\ Alterable(t) /\ Lockable(t)
    /\ seqLock' = t /\ rowLock' = t
    /\ view' = [view EXCEPT ![t].impl = "no_gap", ![t].base = view[t].next, ![t].since = draws]
    /\ edits' = edits + 1
    /\ UNCHANGED <<row, pg, newPg, active, drawers, got, used, draws>>

SwitchToStandard(t) ==
    /\ t \in active
    /\ edits < MaxEdits
    /\ "standard" \in Switches /\ view[t].impl = "no_gap"
    /\ Alterable(t) /\ Lockable(t)
    /\ seqLock' = t /\ rowLock' = t
    /\ newPg' = view[t].next      \* START WITH
    /\ view' = [view EXCEPT ![t].impl = "standard"]
    /\ edits' = edits + 1
    /\ UNCHANGED <<row, pg, active, drawers, got, used, draws>>

(* write({'number_next': n}) by a user who moves the sequence forward *)
MoveForward(t) ==
    /\ t \in active
    /\ edits < MaxEdits
    /\ Lockable(t)
    /\ rowLock' = t
    /\ \E n \in {view[t].next + 1, pg + 1, newPg + 1} :
          /\ n > view[t].next
          /\ view' = [view EXCEPT ![t].next = n, ![t].base = n]
          /\ IF view[t].impl = "standard"
             THEN /\ Alterable(t)
                  /\ n >= IF seqLock = t THEN newPg ELSE pg
                  /\ seqLock' = t
                  /\ newPg' = n
             ELSE UNCHANGED <<seqLock, newPg>>
    /\ edits' = edits + 1
    /\ UNCHANGED <<row, pg, active, drawers, got, used, draws>>

Release(t) ==
    /\ active' = active \ {t}
    /\ drawers' = drawers \ {t}
    /\ got' = [got EXCEPT ![t] = {}]
    /\ rowLock' = IF rowLock = t THEN NoTx ELSE rowLock
    /\ seqLock' = IF seqLock = t THEN NoTx ELSE seqLock

Commit(t) ==
    /\ t \in active
    /\ used' = used \cup got[t]
    /\ row' = IF rowLock = t THEN [view[t] EXCEPT !.stamp = row.stamp + 1] ELSE row
    /\ pg' = IF seqLock = t THEN newPg ELSE pg
    /\ Release(t)
    /\ UNCHANGED <<newPg, view, draws, edits>>

RowAfterRollback_NotUndone(t) == IF rowLock = t THEN view[t] ELSE row

RowAfterRollback(t) == row

(* any failure, a lock that is not available and a deadlock included *)
Rollback(t) ==
    /\ t \in active
    /\ row' = RowAfterRollback(t)
    /\ Release(t)
    /\ UNCHANGED <<pg, newPg, view, used, draws, edits>>

Next ==
    \E t \in Tx :
        \/ Begin(t)
        \/ DrawStandard(t)
        \/ DrawNoGap(t)
        \/ SwitchToNoGap(t)
        \/ SwitchToStandard(t)
        \/ MoveForward(t)
        \/ Commit(t)
        \/ Rollback(t)

Spec == Init /\ [][Next]_vars

-----------------------------------------------------------------------------
(* "generate unique identifiers in a transaction-safe way": no number is    *)
(* handed out twice, in whatever order transactions draw, fail and commit.  *)
Unique == \A a, b \in used : a[1] = b[1] => a = b

(* The same between two changes to no_gap, the one change that forgets what *)
(* was handed out: drawing, moving the sequence forward and making it       *)
(* standard never repeat a number, whoever commits or fails in between.     *)
UniqueSinceSwitch ==
    \A a, b \in used :
        a[1] = b[1] /\ a[2] >= row.since /\ b[2] >= row.since => a = b

(* "ensures that each previous sequence number has been assigned already":  *)
(* committed no_gap numbers leave no hole below the next one.               *)
NoGap ==
    row.impl = "no_gap" =>
        \A n \in row.base..(row.next - 1) : \E a \in used : a[1] = n
=============================================================================
