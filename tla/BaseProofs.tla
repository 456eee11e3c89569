------------------------------ MODULE BaseProofs ------------------------------
(* What holds of two models of the base module, the sequences and the      *)
(* states of modules, for any number of transactions, modules and buttons.  *)
EXTENDS Sequence, ModuleStates, FiniteSetTheorems, WellFoundedInduction, TLAPS

-----------------------------------------------------------------------------
(* Sequences: no hole in a no_gap sequence, and no number twice, for any    *)
(* number of transactions and draws.                                        *)
(* The committed row says nothing of the numbers a transaction has drawn    *)
(* and not committed; what makes NoGap inductive is that the one            *)
(* transaction that holds the row holds the latest version of it and has    *)
(* drawn, itself, every number it counted beyond the committed ones.        *)

(* all the numbers r counts are among those of S *)
Covered(r, S) ==
    r.impl = "no_gap" =>
        \A n \in r.base..(r.next - 1) : \E a \in S : a[1] = n

HolderIsCurrent ==
    rowLock # NoTx => view[rowLock].stamp = row.stamp /\ Covered(view[rowLock], used \cup got[rowLock])

(* A view with the committed stamp is the committed row, unless its owner   *)
(* holds the row.                                                           *)
SameStampSameRow ==
    \A t \in active : t # rowLock => /\ view[t].stamp <= row.stamp
                                     /\ view[t].stamp = row.stamp => view[t] = row

IInv == TypeOK /\ HolderIsCurrent /\ SameStampSameRow /\ Covered(row, used)

(* The row a sequence is created with, and no transaction open.             *)
LEMMA TypeInit == Init => TypeOK
BY DEF Init, TypeOK, Row

(* Every draw, edit and end of a transaction keeps the types.               *)
LEMMA TypeStep == ASSUME TypeOK, [Next]_vars PROVE TypeOK'
<1> USE DEF TypeOK, Row
<1>1. ASSUME NEW t \in Tx, Begin(t) PROVE TypeOK'
  BY <1>1 DEF Begin
<1>2. ASSUME NEW t \in Tx, DrawStandard(t) PROVE TypeOK'
  <2>1. got' \in [Tx -> SUBSET (Nat \X Nat)] /\ draws' \in Nat /\ pg' \in Nat /\ newPg' \in Nat
    BY <1>2 DEF DrawStandard, Drawn
  <2> QED
    BY <1>2, <2>1 DEF DrawStandard
<1>3. ASSUME NEW t \in Tx, DrawNoGap(t) PROVE TypeOK'
  <2>1. got' \in [Tx -> SUBSET (Nat \X Nat)] /\ draws' \in Nat
    BY <1>3 DEF DrawNoGap, Drawn
  <2>2. view' \in [Tx -> Row]
    BY <1>3 DEF DrawNoGap
  <2> QED
    BY <1>3, <2>1, <2>2 DEF DrawNoGap
<1>4. ASSUME NEW t \in Tx, SwitchToNoGap(t) PROVE TypeOK'
  <2>1. view' \in [Tx -> Row]
    BY <1>4 DEF SwitchToNoGap
  <2> QED
    BY <1>4, <2>1 DEF SwitchToNoGap
<1>5. ASSUME NEW t \in Tx, SwitchToStandard(t) PROVE TypeOK'
  <2>1. view' \in [Tx -> Row] /\ newPg' \in Nat
    BY <1>5 DEF SwitchToStandard
  <2> QED
    BY <1>5, <2>1 DEF SwitchToStandard
<1>6. ASSUME NEW t \in Tx, MoveForward(t) PROVE TypeOK'
  <2> PICK n \in {view[t].next + 1, pg + 1, newPg + 1} :
          /\ view' = [view EXCEPT ![t].next = n, ![t].base = n]
          /\ IF view[t].impl = "standard"
             THEN seqLock' = t /\ newPg' = n
             ELSE UNCHANGED <<seqLock, newPg>>
    BY <1>6 DEF MoveForward
  <2>1. n \in Nat
    OBVIOUS
  <2>2. view' \in [Tx -> Row]
    BY <2>1
  <2> QED
    BY <1>6, <2>1, <2>2 DEF MoveForward
<1>7. ASSUME NEW t \in Tx, Commit(t) PROVE TypeOK'
  <2>1. row' \in Row /\ used' \subseteq Nat \X Nat /\ pg' \in Nat
    BY <1>7 DEF Commit
  <2>2. got' \in [Tx -> SUBSET (Nat \X Nat)]
    BY <1>7 DEF Commit, Release
  <2> QED
    BY <1>7, <2>1, <2>2 DEF Commit, Release
<1>8. ASSUME NEW t \in Tx, Rollback(t) PROVE TypeOK'
  <2>1. got' \in [Tx -> SUBSET (Nat \X Nat)]
    BY <1>8 DEF Rollback, Release
  <2> QED
    BY <1>8, <2>1 DEF Rollback, Release, RowAfterRollback
<1>9. CASE UNCHANGED vars
  BY <1>9 DEF vars
<1> QED
  BY <1>1, <1>2, <1>3, <1>4, <1>5, <1>6, <1>7, <1>8, <1>9 DEF Next

(* More numbers cover what fewer do.                                        *)
LEMMA CoveredMore ==
    ASSUME NEW r \in Row, NEW S, NEW T, S \subseteq T, Covered(r, S)
    PROVE  Covered(r, T)
BY DEF Covered

(* Every step keeps that the holder of the row is current and that what the *)
(* committed row counts was committed.                                      *)
LEMMA Preserved == ASSUME IInv, [Next]_vars PROVE IInv'
<1> USE DEF IInv
<1>0. TypeOK'
  BY TypeStep
<1>1. ASSUME NEW t \in Tx, Begin(t) PROVE IInv'
  BY <1>0, <1>1 DEF Begin, TypeOK, Row, HolderIsCurrent, SameStampSameRow
<1>2. ASSUME NEW t \in Tx, DrawStandard(t) PROVE IInv'
  <2>1. \A u \in Tx : got[u] \subseteq got'[u]
    BY <1>2 DEF DrawStandard, Drawn, TypeOK
  <2>2. HolderIsCurrent'
    <3>1. UNCHANGED <<row, rowLock, view, used>>
      BY <1>2 DEF DrawStandard
    <3> SUFFICES ASSUME rowLock # NoTx PROVE HolderIsCurrent'
      BY <3>1 DEF HolderIsCurrent
    <3>2. rowLock \in Tx /\ view[rowLock] \in Row
      BY DEF TypeOK
    <3>3. Covered(view[rowLock], used \cup got'[rowLock])
      BY <2>1, <3>2, CoveredMore DEF HolderIsCurrent
    <3> QED
      BY <3>1, <3>3 DEF HolderIsCurrent
  <2> QED
    BY <1>0, <1>2, <2>2 DEF DrawStandard, SameStampSameRow, Covered
<1>3. ASSUME NEW t \in Tx, DrawNoGap(t) PROVE IInv'
  <2>1. view[t].stamp = row.stamp /\ Covered(view[t], used \cup got[t])
    <3>1. CASE rowLock = t
      BY <3>1, SequenceAssumption DEF HolderIsCurrent
    <3>2. CASE rowLock # t
      <4>1. view[t].stamp = row.stamp /\ view[t] = row
        BY <1>3, <3>2 DEF DrawNoGap, Lockable, SameStampSameRow
      <4>2. Covered(view[t], used) /\ view[t] \in Row
        BY <4>1 DEF TypeOK
      <4> QED
        BY <4>1, <4>2, CoveredMore
    <3> QED
      BY <3>1, <3>2
  <2>2. /\ view'[t] = [view[t] EXCEPT !.next = @ + 1]
        /\ \A u \in Tx \ {t} : view'[u] = view[u]
        /\ got'[t] = got[t] \cup {<<view[t].next, draws>>}
    BY <1>3 DEF DrawNoGap, Drawn, TypeOK
  <2>3. Covered(view'[t], used \cup got'[t])
    <3> SUFFICES ASSUME view'[t].impl = "no_gap", NEW n \in view'[t].base..(view'[t].next - 1)
                 PROVE  \E a \in used \cup got'[t] : a[1] = n
      BY DEF Covered
    <3>1. view[t] \in Row /\ view[t].impl = "no_gap"
      BY <1>3 DEF TypeOK, DrawNoGap
    <3>2. view'[t].base = view[t].base /\ view'[t].next = view[t].next + 1
      BY <2>2, <3>1 DEF Row
    <3>3. CASE n = view[t].next
      <4>1. <<view[t].next, draws>> \in got'[t]
        BY <2>2
      <4> QED
        BY <3>3, <4>1
    <3>4. CASE n \in view[t].base..(view[t].next - 1)
      BY <2>1, <2>2, <3>1, <3>4 DEF Covered
    <3> QED
      BY <3>1, <3>2, <3>3, <3>4 DEF Row
  <2>4. HolderIsCurrent'
    BY <1>3, <2>1, <2>2, <2>3 DEF DrawNoGap, HolderIsCurrent, TypeOK, Row
  <2>5. SameStampSameRow'
    BY <1>3, <2>2, SequenceAssumption DEF DrawNoGap, SameStampSameRow, TypeOK, Lockable
  <2> QED
    BY <1>0, <1>3, <2>4, <2>5 DEF DrawNoGap, Covered
<1>4. ASSUME NEW t \in Tx, NEW r \in Row, t \in active, Lockable(t), rowLock' = t,
             view' = [view EXCEPT ![t] = r], r.stamp = view[t].stamp, Covered(r, {}),
             UNCHANGED <<row, active, got, used>>
      PROVE IInv'
  <2>1. view[t].stamp = row.stamp
    BY <1>4, SequenceAssumption DEF Lockable, HolderIsCurrent, TypeOK
  <2>2. view'[t] = r /\ \A u \in Tx \ {t} : view'[u] = view[u]
    BY <1>4 DEF TypeOK
  <2>3. HolderIsCurrent'
    BY <1>4, <2>1, <2>2, CoveredMore DEF HolderIsCurrent
  <2>4. SameStampSameRow'
    BY <1>4, <2>2, SequenceAssumption DEF SameStampSameRow, TypeOK, Lockable
  <2> QED
    BY <1>0, <1>4, <2>3, <2>4 DEF Covered
<1>5. ASSUME NEW t \in Tx, SwitchToNoGap(t) PROVE IInv'
  <2> DEFINE r == [view[t] EXCEPT !.impl = "no_gap", !.base = view[t].next, !.since = draws]
  <2>0. view[t] \in Row
    BY DEF TypeOK
  <2>1. r \in Row /\ r.stamp = view[t].stamp /\ Covered(r, {})
    <3>1. r \in Row /\ r.stamp = view[t].stamp /\ r.base = r.next
      BY <2>0 DEF Row, TypeOK
    <3> HIDE DEF r
    <3> QED
      BY <3>1 DEF Row, Covered
  <2>2. view' = [view EXCEPT ![t] = r]
    BY <1>5 DEF SwitchToNoGap, TypeOK, Row
  <2> QED
    BY <1>4, <1>5, <2>1, <2>2 DEF SwitchToNoGap
<1>6. ASSUME NEW t \in Tx, SwitchToStandard(t) PROVE IInv'
  <2> DEFINE r == [view[t] EXCEPT !.impl = "standard"]
  <2>1. r \in Row /\ r.stamp = view[t].stamp /\ Covered(r, {})
    BY DEF TypeOK, Row, Covered
  <2>2. view' = [view EXCEPT ![t] = r]
    BY <1>6 DEF SwitchToStandard, TypeOK, Row
  <2> QED
    BY <1>4, <1>6, <2>1, <2>2 DEF SwitchToStandard
<1>7. ASSUME NEW t \in Tx, MoveForward(t) PROVE IInv'
  <2>1. PICK n \in {view[t].next + 1, pg + 1, newPg + 1} :
            view' = [view EXCEPT ![t].next = n, ![t].base = n]
    BY <1>7 DEF MoveForward
  <2> DEFINE r == [view[t] EXCEPT !.next = n, !.base = n]
  <2>2. n \in Nat
    BY DEF TypeOK, Row
  <2>3. r \in Row /\ r.stamp = view[t].stamp /\ Covered(r, {})
    <3>1. view[t] \in Row
      BY DEF TypeOK
    <3>2. r \in Row /\ r.stamp = view[t].stamp /\ r.base = r.next
      BY <2>2, <3>1 DEF Row
    <3> HIDE DEF r
    <3> QED
      BY <3>2 DEF Row, Covered
  <2>4. view' = [view EXCEPT ![t] = r]
    BY <2>1 DEF TypeOK, Row
  <2> QED
    BY <1>4, <1>7, <2>3, <2>4 DEF MoveForward
<1>8. ASSUME NEW t \in Tx, Commit(t) PROVE IInv'
  <2>1. /\ view' = view /\ used' = used \cup got[t] /\ active' = active \ {t}
        /\ rowLock' = IF rowLock = t THEN NoTx ELSE rowLock
        /\ row' = IF rowLock = t THEN [view[t] EXCEPT !.stamp = row.stamp + 1] ELSE row
        /\ \A u \in Tx \ {t} : got'[u] = got[u]
    BY <1>8 DEF Commit, Release, TypeOK
  <2>2. CASE rowLock = t
    <3>1. rowLock # NoTx
      BY <2>2, SequenceAssumption
    <3>2. Covered(view[t], used')
      BY <2>1, <2>2, <3>1 DEF HolderIsCurrent
    <3>3. Covered(row', used')
      BY <2>1, <2>2, <3>2 DEF Covered, TypeOK, Row
    <3>4. SameStampSameRow'
      BY <2>1, <2>2 DEF SameStampSameRow, TypeOK, Row
    <3> QED
      BY <1>0, <2>1, <2>2, <3>3, <3>4 DEF HolderIsCurrent, Covered
  <2>3. CASE rowLock # t
    <3>1. Covered(row', used')
      BY <2>1, <2>3, CoveredMore DEF TypeOK
    <3>2. HolderIsCurrent'
      <4> SUFFICES ASSUME rowLock # NoTx PROVE HolderIsCurrent'
        BY <2>1, <2>3 DEF HolderIsCurrent
      <4>1. rowLock \in Tx \ {t} /\ view[rowLock] \in Row
        BY <2>3 DEF TypeOK
      <4>2. Covered(view[rowLock], used' \cup got'[rowLock])
        BY <2>1, <4>1, CoveredMore DEF HolderIsCurrent
      <4> QED
        BY <2>1, <2>3, <4>2 DEF HolderIsCurrent
    <3>3. SameStampSameRow'
      BY <2>1, <2>3 DEF SameStampSameRow
    <3> QED
      BY <1>0, <3>1, <3>2, <3>3 DEF Covered
  <2> QED
    BY <2>2, <2>3
<1>9. ASSUME NEW t \in Tx, Rollback(t) PROVE IInv'
  <2>1. /\ UNCHANGED <<row, view, used>> /\ active' = active \ {t}
        /\ rowLock' = IF rowLock = t THEN NoTx ELSE rowLock
        /\ \A u \in Tx \ {t} : got'[u] = got[u]
    BY <1>9 DEF Rollback, RowAfterRollback, Release, TypeOK
  <2>2. HolderIsCurrent'
    BY <2>1 DEF HolderIsCurrent, TypeOK
  <2>3. SameStampSameRow'
    <3> SUFFICES ASSUME NEW u \in active \ {t}, u # rowLock'
                 PROVE  view[u].stamp <= row.stamp /\ (view[u].stamp = row.stamp => view[u] = row)
      BY <2>1 DEF SameStampSameRow
    <3> QED
      BY <2>1 DEF SameStampSameRow
  <2> QED
    BY <1>0, <2>1, <2>2, <2>3 DEF Covered
<1>10. CASE UNCHANGED vars
  BY <1>0, <1>10 DEF vars, HolderIsCurrent, SameStampSameRow, Covered
<1> QED
  BY <1>1, <1>2, <1>3, <1>5, <1>6, <1>7, <1>8, <1>9, <1>10 DEF Next

(* TypeOK /\ HolderIsCurrent /\ SameStampSameRow /\ Covered(row, used) is  *)
(* inductive.                                                               *)
THEOREM Inductive == Spec => []IInv
<1>1. Init => IInv
  BY TypeInit DEF Init, IInv, HolderIsCurrent, SameStampSameRow, Covered
<1>2. IInv /\ [Next]_vars => IInv'
  BY Preserved
<1> QED
  BY <1>1, <1>2, PTL DEF Spec

(* A locked row, a snapshot and a drawn number are of the kind declared.    *)
THEOREM TypeCorrect == Spec => []TypeOK
<1>1. IInv => TypeOK
  BY DEF IInv
<1> QED
  BY <1>1, Inductive, PTL

(* The committed numbers of a no_gap sequence leave no hole, however        *)
(* transactions draw, fail, commit and change the sequence.                 *)
THEOREM NoHole == Spec => []NoGap
<1>1. IInv => NoGap
  BY DEF IInv, NoGap, Covered
<1> QED
  BY <1>1, Inductive, PTL

------------------------------------------------------------------------------
(* No number twice since the last change to no_gap.                         *)
(*                                                                          *)
(* A change of the row or of the PG sequence and a draw exclude each other  *)
(* by two locks only, and a no_gap draw takes one of them, a standard draw  *)
(* none.  Locks says what they come to: whoever holds the row is the only   *)
(* one with uncommitted numbers, and nobody has drawn from the PG sequence  *)
(* of a row that is committed as no_gap.                                    *)

Locks ==
    /\ seqLock # NoTx => rowLock = seqLock /\ drawers \subseteq {seqLock}
    /\ rowLock # NoTx /\ seqLock = NoTx => row.impl = "no_gap" /\ view[rowLock].impl = "no_gap"
    /\ row.impl = "no_gap" /\ seqLock = NoTx => drawers = {}
    /\ \A t \in Tx : got[t] # {} => t = rowLock \/ t \in drawers

(* the number the next draw from r takes, the PG sequence being at p *)
NextNumber(r, p) == IF r.impl = "standard" THEN p ELSE r.next

(* The draws of S since r became no_gap have numbers of their own, all      *)
(* below the next one.                                                      *)
Apart(r, p, S) ==
    /\ \A a \in S : a[2] >= r.since => a[1] < NextNumber(r, p)
    /\ \A a, b \in S : a[1] = b[1] /\ a[2] >= r.since /\ b[2] >= r.since => a = b

Drawing == UNION {got[t] : t \in Tx}

Distinct ==
    /\ \A a \in used \cup Drawing : a[2] < draws
    /\ Apart(row, pg, used)
    /\ rowLock = NoTx => Apart(row, pg, used \cup Drawing)
    /\ rowLock # NoTx => Apart(view[rowLock], newPg, used \cup got[rowLock])

IInvDistinct == IInv /\ Locks /\ Distinct

(* What is apart from more numbers is apart from fewer.                     *)
LEMMA ApartOnLess ==
    ASSUME NEW r, NEW p, NEW S, NEW T, S \subseteq T, Apart(r, p, T)
    PROVE  Apart(r, p, S)
BY DEF Apart

(* The next number may move up, and a draw takes it. *)
LEMMA ApartHigher ==
    ASSUME NEW r \in Row, NEW p \in Nat, NEW q \in Row, NEW o \in Nat, NEW S \in SUBSET (Nat \X Nat),
           q.since = r.since, NextNumber(r, p) <= NextNumber(q, o), Apart(r, p, S)
    PROVE  Apart(q, o, S)
<1>1. NextNumber(r, p) \in Nat /\ NextNumber(q, o) \in Nat
  BY DEF NextNumber, Row
<1>2. \A a \in S : a[1] \in Nat
  OBVIOUS
<1> QED
  BY <1>1, <1>2 DEF Apart

(* A draw moves the position past the number drawn.                         *)
LEMMA ApartDraw ==
    ASSUME NEW r \in Row, NEW p \in Nat, NEW q \in Row, NEW o \in Nat, NEW S \in SUBSET (Nat \X Nat),
           NEW d \in Nat, q.since = r.since, NextNumber(q, o) = NextNumber(r, p) + 1, Apart(r, p, S)
    PROVE  Apart(q, o, S \cup {<<NextNumber(r, p), d>>})
<1> DEFINE n == NextNumber(r, p)
<1>1. n \in Nat
  BY DEF NextNumber, Row
<1>2. \A a \in S : a[1] \in Nat
  OBVIOUS
<1>3. \A a \in S : a[2] >= r.since => a[1] < n
  BY DEF Apart
<1>4. <<n, d>>[1] = n
  OBVIOUS
<1> HIDE DEF n
<1>5. \A a \in S \cup {<<n, d>>} : a[2] >= r.since => a[1] < n + 1
  BY <1>1, <1>2, <1>3, <1>4
<1>6. \A a, b \in S \cup {<<n, d>>} : a[1] = b[1] /\ a[2] >= r.since /\ b[2] >= r.since => a = b
  BY <1>1, <1>2, <1>3, <1>4 DEF Apart
<1> QED
  BY <1>5, <1>6 DEF Apart, n

(* While a transaction holds the row, no other has uncommitted numbers.     *)
LEMMA OnlyTheHolderDraws ==
    ASSUME IInv, Locks
    PROVE  /\ rowLock = NoTx => seqLock = NoTx
           /\ rowLock # NoTx => \A t \in Tx \ {rowLock} : got[t] = {}
BY DEF Locks

(* Who may lock the row (FOR UPDATE NOWAIT, no serialization failure) sees  *)
(* the committed one.                                                       *)
LEMMA TakenIsLatest ==
    ASSUME IInv, NEW t \in active, Lockable(t)
    PROVE  rowLock # t => rowLock = NoTx /\ view[t] = row
BY DEF IInv, SameStampSameRow, Lockable

(* What a transaction sees that may lock the row is right for the numbers   *)
(* committed and its own.                                                   *)
LEMMA TakenIsApart ==
    ASSUME IInv, Locks, Distinct, NEW t \in active, Lockable(t)
    PROVE  Apart(view[t], IF seqLock = t THEN newPg ELSE pg, used \cup got[t])
<1>1. CASE rowLock = t
  <2>1. Apart(view[t], newPg, used \cup got[t])
    BY <1>1, SequenceAssumption DEF Distinct, IInv, TypeOK
  <2>2. CASE seqLock # t
    <3>1. view[t].impl = "no_gap"
      BY <1>1, <2>2, SequenceAssumption DEF Locks, IInv, TypeOK
    <3> QED
      BY <2>1, <2>2, <3>1 DEF Apart, NextNumber
  <2> QED
    BY <2>1, <2>2
<1>2. CASE rowLock # t
  <2>1. rowLock = NoTx /\ view[t] = row /\ seqLock # t
    BY <1>2, TakenIsLatest, OnlyTheHolderDraws, SequenceAssumption DEF IInv, TypeOK
  <2>2. used \cup got[t] \subseteq used \cup Drawing
    BY DEF Drawing, IInv, TypeOK
  <2> QED
    BY <2>1, <2>2, ApartOnLess DEF Distinct
<1> QED
  BY <1>1, <1>2

(* When a transaction takes the row, it is enough that what it counts from  *)
(* is apart from the committed numbers and its own.                         *)
LEMMA DistinctWhenTaken ==
    ASSUME IInv, Locks, Distinct, NEW t \in active, rowLock' = t, UNCHANGED <<row, pg, used>>,
           Apart(view'[t], newPg', used \cup got'[t]),
           \A a \in used \cup Drawing' : a[2] < draws'
    PROVE  Distinct'
<1>1. t # NoTx
  BY SequenceAssumption DEF IInv, TypeOK
<1> QED
  BY <1>1 DEF Distinct, Apart, NextNumber

(* A change to the row or the PG sequence that draws nothing. *)
LEMMA EditKeeps ==
    ASSUME IInv, Locks, Distinct, NEW t \in active, NEW r \in Row, Lockable(t),
           rowLock' = t, view' = [view EXCEPT ![t] = r],
           UNCHANGED <<row, pg, active, drawers, got, used, draws>>,
           Apart(r, newPg', used \cup got[t]),
           \/ seqLock' = t /\ Alterable(t)
           \/ seqLock' = seqLock /\ r.impl = "no_gap" /\ view[t].impl = "no_gap"
    PROVE  Locks' /\ Distinct'
<1>0. t # NoTx /\ t \in Tx /\ rowLock \in {NoTx, t} /\ view'[t] = r
  BY TakenIsLatest, SequenceAssumption DEF IInv, TypeOK
<1>1. Locks'
  <2>1. CASE seqLock' = t /\ Alterable(t)
    <3>1. \A u \in Tx : got[u] # {} => u = t \/ u \in drawers
      BY <1>0, SequenceAssumption DEF Locks
    <3> QED
      BY <1>0, <2>1, <3>1 DEF Locks, Alterable
  <2>2. CASE seqLock' = seqLock /\ r.impl = "no_gap" /\ view[t].impl = "no_gap"
    <3>1. seqLock = NoTx => row.impl = "no_gap"
      BY <1>0, <2>2, TakenIsLatest DEF Locks
    <3>2. seqLock # NoTx => seqLock = t /\ drawers \subseteq {t}
      BY <1>0 DEF Locks
    <3>3. \A u \in Tx : got[u] # {} => u = t \/ u \in drawers
      BY <1>0, SequenceAssumption DEF Locks
    <3> QED
      BY <1>0, <2>2, <3>1, <3>2, <3>3 DEF Locks
  <2> QED
    BY <2>1, <2>2
<1>2. Distinct'
  <2>1. Drawing' = Drawing
    BY DEF Drawing
  <2> QED
    BY <1>0, <2>1, DistinctWhenTaken DEF Distinct
<1> QED
  BY <1>1, <1>2

(* A draw from the PostgreSQL sequence gives a number not given before.     *)
LEMMA DrawStandardKeeps ==
    ASSUME IInv, Locks, Distinct, NEW t \in Tx, DrawStandard(t)
    PROVE  Locks' /\ Distinct'
<1>0. t \in active /\ t # NoTx /\ row \in Row /\ view[t] \in Row /\ pg \in Nat /\ newPg \in Nat /\ draws \in Nat
  BY SequenceAssumption DEF DrawStandard, IInv, TypeOK
<1>1. UNCHANGED <<row, rowLock, seqLock, view, active, used>> /\ drawers' = drawers \cup {t}
  BY DEF DrawStandard
<1>2. PICK n \in Nat : /\ got'[t] = got[t] \cup {<<n, draws>>}
                       /\ \A u \in Tx \ {t} : got'[u] = got[u]
                       /\ draws' = draws + 1
                       /\ IF seqLock = t THEN n = newPg /\ newPg' = n + 1 /\ pg' = pg
                          ELSE n = pg /\ pg' = n + 1 /\ newPg' = newPg /\ seqLock = NoTx /\ row.impl = "standard"
  BY <1>0 DEF DrawStandard, Drawn, IInv, TypeOK
<1>3. Locks'
  BY <1>0, <1>1, <1>2 DEF Locks
<1>4. Drawing' = Drawing \cup {<<n, draws>>}
  BY <1>2 DEF Drawing
<1>5. \A a \in used \cup Drawing' : a[2] < draws'
  <2>1. \A a \in used \cup Drawing : a[2] \in Nat /\ a[2] < draws
    BY DEF IInv, TypeOK, Drawing, Distinct
  <2>2. <<n, draws>>[2] = draws
    OBVIOUS
  <2> QED
    BY <1>0, <1>2, <1>4, <2>1, <2>2
<1>6. CASE seqLock = t
  <2>1. rowLock = t /\ view[t].impl = "standard"
    BY <1>0, <1>6 DEF Locks, DrawStandard
  <2>2. used \cup got[t] \in SUBSET (Nat \X Nat)
    BY DEF IInv, TypeOK
  <2>3. NextNumber(view[t], newPg) = n /\ NextNumber(view[t], newPg') = n + 1
    BY <1>2, <1>6, <2>1 DEF NextNumber
  <2>4. Apart(view[t], newPg', (used \cup got[t]) \cup {<<n, draws>>})
    BY <1>0, <1>2, <1>6, <2>1, <2>2, <2>3, ApartDraw DEF Distinct
  <2> QED
    BY <1>0, <1>1, <1>2, <1>3, <1>5, <1>6, <2>1, <2>4, DistinctWhenTaken
<1>7. CASE seqLock # t
  <2>1. row.impl = "standard" /\ rowLock = NoTx /\ n = pg /\ pg' = n + 1
    BY <1>2, <1>7 DEF Locks
  <2>2. used \cup Drawing \in SUBSET (Nat \X Nat)
    BY DEF IInv, TypeOK, Drawing
  <2>3. NextNumber(row, pg) = n /\ NextNumber(row, pg') = n + 1
    BY <2>1 DEF NextNumber
  <2>4. Apart(row, pg', (used \cup Drawing) \cup {<<n, draws>>})
    BY <1>0, <2>1, <2>2, <2>3, ApartDraw DEF Distinct
  <2>5. Apart(row, pg', used)
    BY <2>4, ApartOnLess
  <2> QED
    BY <1>1, <1>3, <1>4, <1>5, <2>1, <2>4, <2>5 DEF Distinct
<1> QED
  BY <1>3, <1>6, <1>7

(* So does a draw from number_next under the lock of the row.               *)
LEMMA DrawNoGapKeeps ==
    ASSUME IInv, Locks, Distinct, NEW t \in Tx, DrawNoGap(t)
    PROVE  Locks' /\ Distinct'
<1> DEFINE n == view[t].next
           p == IF seqLock = t THEN newPg ELSE pg
<1>0. t \in active /\ t # NoTx /\ view[t] \in Row /\ pg \in Nat /\ newPg \in Nat /\ draws \in Nat
  BY SequenceAssumption DEF DrawNoGap, IInv, TypeOK
<1>1. /\ UNCHANGED <<row, pg, seqLock, newPg, active, drawers, used>>
      /\ rowLock' = t /\ rowLock \in {NoTx, t} /\ (rowLock # t => view[t] = row)
      /\ got'[t] = got[t] \cup {<<n, draws>>} /\ draws' = draws + 1
      /\ \A u \in Tx \ {t} : got'[u] = got[u]
      /\ view[t].impl = "no_gap"
  BY <1>0, TakenIsLatest DEF DrawNoGap, Drawn, IInv, TypeOK
<1>2. /\ view'[t] \in Row /\ view'[t].impl = "no_gap" /\ view'[t].since = view[t].since
      /\ view'[t].next = n + 1
  BY <1>0, <1>1 DEF DrawNoGap, IInv, TypeOK, Row
<1>3. Locks'
  <2>1. seqLock # NoTx => seqLock = t /\ drawers \subseteq {t}
    BY <1>0, <1>1 DEF Locks
  <2>2. seqLock = NoTx => row.impl = "no_gap"
    BY <1>0, <1>1 DEF Locks
  <2>3. \A u \in Tx : got'[u] # {} => u = t \/ u \in drawers
    BY <1>1, SequenceAssumption DEF Locks
  <2> QED
    BY <1>0, <1>1, <1>2, <2>1, <2>2, <2>3 DEF Locks
<1>4. \A a \in used \cup Drawing' : a[2] < draws'
  <2>1. Drawing' = Drawing \cup {<<n, draws>>}
    BY <1>1 DEF Drawing
  <2>2. \A a \in used \cup Drawing : a[2] \in Nat /\ a[2] < draws
    BY DEF IInv, TypeOK, Drawing, Distinct
  <2>3. <<n, draws>>[2] = draws
    OBVIOUS
  <2> QED
    BY <1>0, <1>1, <2>1, <2>2, <2>3
<1>5. Apart(view'[t], newPg', used \cup got'[t])
  <2>1. used \cup got[t] \in SUBSET (Nat \X Nat)
    BY DEF IInv, TypeOK
  <2>2. NextNumber(view[t], p) = n /\ NextNumber(view'[t], newPg') = n + 1
    BY <1>1, <1>2 DEF NextNumber
  <2>3. Apart(view[t], p, used \cup got[t])
    BY <1>0, TakenIsApart DEF DrawNoGap
  <2>4. p \in Nat /\ newPg' \in Nat
    BY <1>0, <1>1
  <2> HIDE DEF n, p
  <2>5. Apart(view'[t], newPg', (used \cup got[t]) \cup {<<n, draws>>})
    BY <1>0, <1>2, <2>1, <2>2, <2>3, <2>4, ApartDraw
  <2> QED
    BY <1>1, <2>5 DEF n
<1> HIDE DEF n, p
<1>6. Distinct'
  BY <1>0, <1>1, <1>4, <1>5, DistinctWhenTaken
<1> QED
  BY <1>3, <1>6

(* A change of the implementation or a move forward leaves the next number  *)
(* beyond those drawn.                                                      *)
LEMMA EditsKeep ==
    ASSUME IInv, Locks, Distinct, NEW t \in Tx, SwitchToNoGap(t) \/ SwitchToStandard(t) \/ MoveForward(t)
    PROVE  Locks' /\ Distinct'
<1> DEFINE p == IF seqLock = t THEN newPg ELSE pg
           S == used \cup got[t]
<1>0. /\ t \in active /\ Lockable(t) /\ rowLock' = t
      /\ UNCHANGED <<row, pg, active, drawers, got, used, draws>>
  BY DEF SwitchToNoGap, SwitchToStandard, MoveForward
<1>1. view[t] \in Row /\ p \in Nat /\ newPg \in Nat /\ pg \in Nat /\ draws \in Nat /\ S \in SUBSET (Nat \X Nat)
  BY DEF IInv, TypeOK
<1>2. Apart(view[t], p, S)
  BY <1>0, TakenIsApart
<1>3. CASE SwitchToNoGap(t)
  <2> DEFINE r == [view[t] EXCEPT !.impl = "no_gap", !.base = view[t].next, !.since = draws]
  <2>1. r \in Row /\ r.since = draws
    BY <1>1 DEF Row
  <2>2. view' = [view EXCEPT ![t] = r]
    BY <1>3 DEF SwitchToNoGap, IInv, TypeOK, Row
  <2>3. \A a \in S : a[2] \in Nat /\ a[2] < draws
    BY DEF Distinct, Drawing, IInv, TypeOK
  <2> HIDE DEF r, S
  <2>4. Apart(r, newPg', S)
    BY <1>1, <2>1, <2>3 DEF Apart
  <2> QED
    BY <1>0, <1>3, <2>1, <2>2, <2>4, EditKeeps DEF SwitchToNoGap, S
<1>4. CASE SwitchToStandard(t)
  <2> DEFINE r == [view[t] EXCEPT !.impl = "standard"]
  <2>1. r \in Row /\ r.since = view[t].since /\ r.impl = "standard" /\ newPg' = view[t].next /\ newPg' \in Nat
    BY <1>1, <1>4 DEF Row, SwitchToStandard
  <2>2. view' = [view EXCEPT ![t] = r]
    BY <1>4 DEF SwitchToStandard, IInv, TypeOK, Row
  <2>3. view[t].impl = "no_gap"
    BY <1>4 DEF SwitchToStandard
  <2> HIDE DEF r, S, p
  <2>4. NextNumber(view[t], p) <= NextNumber(r, newPg')
    BY <2>1, <2>3 DEF NextNumber
  <2>5. Apart(r, newPg', S)
    BY <1>1, <1>2, <2>1, <2>4, ApartHigher
  <2> QED
    BY <1>0, <1>4, <2>1, <2>2, <2>5, EditKeeps DEF SwitchToStandard, S
<1>5. CASE MoveForward(t)
  <2>1. PICK n \in {view[t].next + 1, pg + 1, newPg + 1} :
            /\ n > view[t].next
            /\ view' = [view EXCEPT ![t].next = n, ![t].base = n]
            /\ IF view[t].impl = "standard"
               THEN Alterable(t) /\ n >= p /\ seqLock' = t /\ newPg' = n
               ELSE UNCHANGED <<seqLock, newPg>>
    BY <1>5 DEF MoveForward
  <2> DEFINE r == [view[t] EXCEPT !.next = n, !.base = n]
  <2>2. n \in Nat /\ newPg' \in Nat
    BY <1>1, <2>1 DEF Row
  <2>3. r \in Row /\ r.since = view[t].since /\ r.impl = view[t].impl /\ r.next = n
    BY <1>1, <2>2 DEF Row
  <2>4. view' = [view EXCEPT ![t] = r]
    BY <2>1 DEF IInv, TypeOK, Row
  <2>5. view[t].impl = "standard" \/ view[t].impl = "no_gap"
    BY <1>1 DEF Row
  <2> HIDE DEF r, S, p
  <2>6. NextNumber(view[t], p) <= NextNumber(r, newPg')
    BY <1>1, <2>1, <2>2, <2>3 DEF NextNumber, Row
  <2>7. Apart(r, newPg', S)
    BY <1>1, <1>2, <2>2, <2>3, <2>6, ApartHigher
  <2>8. \/ seqLock' = t /\ Alterable(t)
        \/ seqLock' = seqLock /\ r.impl = "no_gap" /\ view[t].impl = "no_gap"
    BY <2>1, <2>3, <2>5
  <2> QED
    BY <1>0, <2>3, <2>4, <2>7, <2>8, EditKeeps DEF S
<1> QED
  BY <1>3, <1>4, <1>5

(* A commit and a rollback leave the next number beyond those committed.    *)
LEMMA EndsKeep ==
    ASSUME IInv, Locks, Distinct, NEW t \in Tx, Commit(t) \/ Rollback(t)
    PROVE  Locks' /\ Distinct'
<1>0. t \in active /\ t # NoTx
  BY SequenceAssumption DEF Commit, Rollback, IInv, TypeOK
<1>1. /\ drawers' = drawers \ {t} /\ got'[t] = {} /\ draws' = draws /\ newPg' = newPg /\ view' = view
      /\ \A u \in Tx \ {t} : got'[u] = got[u]
      /\ rowLock' = IF rowLock = t THEN NoTx ELSE rowLock
      /\ seqLock' = IF seqLock = t THEN NoTx ELSE seqLock
  BY DEF Commit, Rollback, Release, IInv, TypeOK
<1>2. \/ /\ used' = used \cup got[t]
         /\ row' = IF rowLock = t THEN [view[t] EXCEPT !.stamp = row.stamp + 1] ELSE row
         /\ pg' = IF seqLock = t THEN newPg ELSE pg
      \/ used' = used /\ row' = row /\ pg' = pg
  BY DEF Commit, Rollback, RowAfterRollback
<1>3. \A a \in used' \cup Drawing' : a[2] < draws'
  <2>1. used' \cup Drawing' \subseteq used \cup Drawing
    BY <1>1, <1>2 DEF Drawing
  <2> QED
    BY <1>1, <2>1 DEF Distinct
<1>4. CASE rowLock = t
  <2>1. /\ rowLock' = NoTx /\ seqLock' = NoTx
        /\ \A u \in Tx : got'[u] = {}
        /\ Drawing' = {}
    <3>1. \A u \in Tx : got'[u] = {}
      BY <1>0, <1>1, <1>4, OnlyTheHolderDraws
    <3>2. seqLock \in {NoTx, t}
      BY <1>4 DEF Locks
    <3> QED
      BY <1>1, <1>4, <3>1, <3>2 DEF Drawing
  <2>2. seqLock = NoTx => row.impl = "no_gap" /\ view[t].impl = "no_gap"
    BY <1>0, <1>4 DEF Locks
  <2>3. drawers' = {}
    <3>1. seqLock = NoTx => drawers = {}
      BY <2>2 DEF Locks
    <3>2. seqLock # NoTx => drawers \subseteq {t}
      BY <1>4 DEF Locks
    <3> QED
      BY <1>1, <3>1, <3>2
  <2>4. Locks'
    BY <2>1, <2>3 DEF Locks
  <2>5. Apart(row', pg', used')
    <3>1. CASE used' = used /\ row' = row /\ pg' = pg
      BY <3>1 DEF Distinct
    <3>2. CASE /\ used' = used \cup got[t]
               /\ row' = IF rowLock = t THEN [view[t] EXCEPT !.stamp = row.stamp + 1] ELSE row
               /\ pg' = IF seqLock = t THEN newPg ELSE pg
      <4>1. /\ row'.impl = view[t].impl /\ row'.next = view[t].next
            /\ row'.since = view[t].since
        BY <1>4, <3>2 DEF IInv, TypeOK, Row
      <4>2. Apart(view[t], newPg, used')
        BY <1>0, <1>4, <3>2 DEF Distinct
      <4>3. seqLock # t => view[t].impl = "no_gap"
        BY <1>0, <1>4, <2>2 DEF Locks
      <4>4. NextNumber(row', pg') = NextNumber(view[t], newPg)
        BY <3>2, <4>1, <4>3 DEF NextNumber
      <4> QED
        BY <4>1, <4>2, <4>4 DEF Apart
    <3> QED
      BY <1>2, <3>1, <3>2
  <2> QED
    BY <1>3, <2>1, <2>4, <2>5 DEF Distinct
<1>5. CASE rowLock # t
  <2>1. seqLock # t /\ UNCHANGED <<row, rowLock, seqLock, pg>>
    BY <1>0, <1>1, <1>2, <1>5 DEF Locks
  <2>2. Locks'
    <3>1. \A u \in Tx : got'[u] # {} => u = rowLock \/ u \in drawers'
      BY <1>1 DEF Locks
    <3> QED
      BY <1>1, <2>1, <3>1 DEF Locks
  <2>3. used' \cup Drawing' \subseteq used \cup Drawing
    BY <1>1, <1>2 DEF Drawing
  <2>4. CASE rowLock = NoTx
    <3>1. Apart(row, pg, used' \cup Drawing')
      BY <2>3, <2>4, ApartOnLess DEF Distinct
    <3>2. Apart(row, pg, used')
      BY <3>1, ApartOnLess
    <3> QED
      BY <1>3, <2>1, <2>2, <2>4, <3>1, <3>2 DEF Distinct
  <2>5. CASE rowLock # NoTx
    <3>1. got[t] = {} /\ rowLock \in Tx \ {t}
      BY <1>5, <2>5, OnlyTheHolderDraws DEF IInv, TypeOK
    <3>2. used' = used /\ got'[rowLock] = got[rowLock]
      BY <1>1, <1>2, <3>1
    <3> QED
      BY <1>1, <1>3, <2>1, <2>2, <2>5, <3>2 DEF Distinct
  <2> QED
    BY <2>2, <2>4, <2>5
<1> QED
  BY <1>4, <1>5

(* Nothing is drawn at first.                                               *)
LEMMA DistinctInit == Init => Locks /\ Distinct
BY SequenceAssumption DEF Init, Locks, Distinct, Apart, Drawing

(* Locks and distinct numbers are kept by every step.                       *)
LEMMA DistinctStep == ASSUME IInvDistinct, [Next]_vars PROVE IInvDistinct'
<1> USE DEF IInvDistinct
<1>1. IInv'
  BY Preserved
<1>2. ASSUME NEW t \in Tx, Begin(t) PROVE Locks' /\ Distinct'
  <2>1. /\ UNCHANGED <<row, pg, rowLock, seqLock, newPg, drawers, got, used, draws>>
        /\ \A u \in Tx \ {t} : view'[u] = view[u]
        /\ rowLock # t
    BY <1>2, SequenceAssumption DEF Begin, IInv, TypeOK
  <2>2. rowLock # NoTx => rowLock \in Tx \ {t} /\ view'[rowLock] = view[rowLock]
    BY <2>1 DEF IInv, TypeOK
  <2>3. Locks'
    BY <2>1, <2>2 DEF Locks
  <2>4. Distinct'
    BY <2>1, <2>2 DEF Distinct, Drawing
  <2> QED
    BY <2>3, <2>4
<1>3. CASE UNCHANGED vars
  <2>1. Locks'
    BY <1>3 DEF vars, Locks
  <2>2. Distinct'
    BY <1>3 DEF vars, Distinct, Drawing, Apart, NextNumber
  <2> QED
    BY <1>1, <2>1, <2>2
<1>4. ASSUME NEW t \in Tx,
             \/ DrawStandard(t) \/ DrawNoGap(t)
             \/ SwitchToNoGap(t) \/ SwitchToStandard(t) \/ MoveForward(t)
             \/ Commit(t) \/ Rollback(t)
      PROVE  Locks' /\ Distinct'
  BY <1>4, DrawStandardKeeps, DrawNoGapKeeps, EditsKeep, EndsKeep
<1>5. Next \/ UNCHANGED vars
  OBVIOUS
<1>6. Locks' /\ Distinct'
  BY <1>2, <1>3, <1>4, <1>5 DEF Next
<1> QED
  BY <1>1, <1>6

(* No number is handed out twice as long as the sequence is not made no_gap *)
(* once more, whatever the transactions draw, fail, commit and change.      *)
THEOREM NoRepeat == Spec => []UniqueSinceSwitch
<1>1. Init => IInvDistinct
  BY TypeInit, DistinctInit DEF Init, IInv, HolderIsCurrent, SameStampSameRow, Covered, IInvDistinct
<1>2. IInvDistinct /\ [Next]_vars => IInvDistinct'
  BY DistinctStep
<1>3. IInvDistinct => UniqueSinceSwitch
  BY DEF IInvDistinct, Distinct, Apart, UniqueSinceSwitch
<1> QED
  BY <1>1, <1>2, <1>3, PTL DEF Spec

-----------------------------------------------------------------------------
(* The states of modules, for any modules and dependencies.  What a load    *)
(* does rests on its graph: with a module it has all that the module        *)
(* depends on, and what it has loaded has what it depends on loaded.  As    *)
(* long as no button comes in between, what it sees is what is committed,   *)
(* but for the module it has just installed.                                *)

Present == {"installed", "to upgrade", "to remove"}

Loadings == [at : {"idle", "select", "graph", "end"}, update : BOOLEAN, phase : {"old", "new"},
             graph : SUBSET Modules, package : [Modules -> States], loaded : SUBSET Modules,
             worked : BOOLEAN, again : BOOLEAN, first : [Modules -> States], pressed : 0..MaxButtons]

ModuleTypes ==
    /\ state \in [Modules -> States] /\ data \in SUBSET Modules /\ load \in Loadings
    /\ seen \in [Modules -> States] /\ pending \in SUBSET data /\ stale \in SUBSET Modules
    /\ buttons \in 0..MaxButtons /\ load.pressed <= buttons
    /\ \A m, n \in pending : m = n

GraphIsClosed ==
    /\ load.loaded \subseteq load.graph /\ pending \subseteq load.loaded
    /\ \A m \in load.graph : Deps[m] \subseteq load.graph
    /\ \A m \in load.loaded : Deps[m] \subseteq load.loaded
    /\ load.at \in {"select", "end"} => load.graph = load.loaded

Alone == load.at # "idle" /\ load.pressed = buttons

SeesAll == Alone =>
    /\ stale = {} /\ seen = Assign(state, pending, "installed")
    /\ \A m \in pending : state[m] \in {"to install", "to upgrade"}
    /\ \A m \in load.graph : load.package[m] = seen[m] /\ seen[m] # "uninstalled"
    /\ \A m \in load.loaded : seen[m] \in {"installed", "to remove"}

(* what a sound beginning makes of the graph *)
GraphIsFull == Alone /\ Sound(load.first) =>
    /\ Sound(seen)
    /\ load.phase = "new" \/ load.at = "graph" => In(seen, Present) \subseteq load.graph
    /\ load.phase = "new" /\ load.at \in {"graph", "end"} => In(seen, {"to install"}) \subseteq load.graph
    /\ load.at = "end" /\ load.update => load.phase = "new"

ModulesIInv == ModuleTypes /\ GraphIsClosed /\ SeesAll /\ GraphIsFull

-----------------------------------------------------------------------------
(* The operators                                                            *)

(* A nonempty set of numbers has a least one.                               *)
LEMMA FirstIsIn ==
    ASSUME NEW S \in SUBSET Nat, S # {}
    PROVE  Min(S) \in S /\ \A x \in S : Min(S) <= x
<1> DEFINE R == {ss \in Nat \X Nat : ss[1] < ss[2]}
<1>1. IsWellFoundedOn(R, Nat)
  BY NatLessThanWellFounded DEF OpToRel
<1>2. PICK x \in S : \A y \in S : ~(<<y, x>> \in R)
  <2> HIDE DEF R
  <2> QED
    BY <1>1, WFMin
<1>3. ASSUME NEW y \in S PROVE x =< y
  <2>1. x \in Nat /\ y \in Nat /\ ~(<<y, x>> \in R)
    BY <1>2
  <2> QED
    BY <2>1
<1> QED
  BY <1>3 DEF Min

(* Assign() writes st to the states of ms and no other.                        *)
LEMMA AssignIs ==
    ASSUME NEW s \in [Modules -> States], NEW ms, NEW st \in States
    PROVE  /\ Assign(s, ms, st) \in [Modules -> States]
           /\ \A m \in Modules : Assign(s, ms, st)[m] = IF m \in ms THEN st ELSE s[m]
BY DEF Assign

(* The modules whose state is one of those.                                 *)
LEMMA InIs ==
    ASSUME NEW s, NEW states
    PROVE  In(s, states) \subseteq Modules /\ \A m \in Modules : m \in In(s, states) <=> s[m] \in states
BY DEF In

(* downstream_dependencies(): all that depend on m and are there or to be.  *)
LEMMA DownstreamIs ==
    ASSUME NEW s \in [Modules -> States], NEW m \in Modules
    PROVE  /\ Downstream(s, m) \subseteq Modules /\ m \in Downstream(s, m)
           /\ \A n \in Modules : Deps[n] \cap Downstream(s, m) # {} /\ s[n] \notin {"uninstalled", "to remove"}
                                    => n \in Downstream(s, m)
           /\ \A n \in Downstream(s, m) : n = m \/ s[n] \notin {"uninstalled", "to remove"}
<1> DEFINE D == Downstream(s, m)
           Step(S) == Dependents(S) \ In(s, {"uninstalled", "to remove"})
<1>1. D = {n \in Modules : \A S \in SUBSET Modules : {m} \subseteq S /\ Step(S) \subseteq S => n \in S}
  BY DEF Downstream, Least
<1>2. \A n \in Modules : \A S : n \in Step(S) <=> Deps[n] \cap S # {} /\ s[n] \notin {"uninstalled", "to remove"}
  BY DEF Dependents, In
<1>3. \A S : Step(S) \subseteq Modules
  BY DEF Dependents
<1> HIDE DEF D, Step
<1>4. ASSUME NEW n \in Modules, NEW d \in Deps[n], d \in D, s[n] \notin {"uninstalled", "to remove"}
      PROVE  n \in D
  BY <1>1, <1>2, <1>4
<1>5. ASSUME NEW n \in D PROVE n = m \/ s[n] \notin {"uninstalled", "to remove"}
  <2> DEFINE S == {k \in Modules : k = m \/ s[k] \notin {"uninstalled", "to remove"}}
  <2>1. S \in SUBSET Modules /\ {m} \subseteq S /\ Step(S) \subseteq S
    BY <1>2, <1>3
  <2> QED
    BY <1>1, <1>5, <2>1
<1>6. D \subseteq Modules /\ m \in D
  BY <1>1
<1> QED
  BY <1>4, <1>5, <1>6 DEF D

(* button_install() marks modules that were uninstalled, those it is asked  *)
(* for and those that it or they depend on.                                 *)
LEMMA InstalledIs ==
    ASSUME NEW s \in [Modules -> States], NEW ms \in SUBSET Modules
    PROVE  /\ Installed(s, ms) \in [Modules -> States]
           /\ \A m \in Modules : \/ Installed(s, ms)[m] = s[m]
                                 \/ s[m] = "uninstalled" /\ Installed(s, ms)[m] = "to install"
           /\ \A m \in ms : Installed(s, ms)[m] # "uninstalled"
           /\ \A m \in Modules : s[m] = "uninstalled" /\ Installed(s, ms)[m] = "to install" =>
                 \A d \in Deps[m] : Installed(s, ms)[d] # "uninstalled"
<1> DEFINE Step(S) == ToUpdate(s, S) \cup MustInstall(StateUpdate(s, S))
           T == {m \in Modules : \A S \in SUBSET Modules : ms \subseteq S /\ Step(S) \subseteq S => m \in S}
<1>1. Installed(s, ms) = Assign(s, T \cap In(s, {"uninstalled"}), "to install")
  BY DEF Installed, StateUpdate, Least
<1>2. ASSUME NEW m \in T, NEW d \in Deps[m], s[d] # "to install"
      PROVE  d \in T
  <2>1. d \in Modules /\ m \in Modules
    BY ModuleStatesAssumption
  <2>2. ASSUME NEW S \in SUBSET Modules, ms \subseteq S, Step(S) \subseteq S
        PROVE  d \in S
    <3>1. m \in S
      BY <1>2, <2>2
    <3>2. d \in ToUpdate(s, S)
      BY <1>2, <2>1, <3>1 DEF ToUpdate
    <3> QED
      BY <2>2, <3>2
  <2> QED
    BY <2>1, <2>2
<1>3. ms \subseteq T
  OBVIOUS
<1> HIDE DEF T
<1>4. /\ Installed(s, ms) \in [Modules -> States]
      /\ \A m \in Modules : Installed(s, ms)[m] = IF m \in T /\ s[m] = "uninstalled" THEN "to install" ELSE s[m]
  <2>1. "to install" \in States
    BY DEF States, Marks
  <2>2. \A m \in Modules : m \in T \cap In(s, {"uninstalled"}) <=> m \in T /\ s[m] = "uninstalled"
    BY DEF In
  <2> QED
    BY <1>1, <2>1, <2>2 DEF Assign
<1> QED
  BY <1>2, <1>3, <1>4, ModuleStatesAssumption

(* button_upgrade(): the module and installed ones are to be upgraded, and  *)
(* what they lack is to be installed.                                       *)
LEMMA UpgradedIs ==
    ASSUME NEW s \in [Modules -> States], NEW m \in Modules, s[m] \in {"installed", "to upgrade"}
    PROVE  /\ Upgraded(s, m) \in [Modules -> States]
           /\ \A n \in Modules :
                 \/ Upgraded(s, m)[n] = s[n]
                 \/ s[n] = "installed" /\ Upgraded(s, m)[n] = "to upgrade"
                 \/ s[n] = "uninstalled" /\ Upgraded(s, m)[n] = "to install"
           /\ \A n \in Modules : s[n] = "uninstalled" /\ Upgraded(s, m)[n] = "to install" =>
                 \A d \in Deps[n] : Upgraded(s, m)[d] # "uninstalled"
<1> DEFINE Step(S) == Dependents(S) \cap In(s, {"installed"})
           todo == {n \in Modules : \A S \in SUBSET Modules : {m} \subseteq S /\ Step(S) \subseteq S => n \in S}
           marked == Assign(s, todo, "to upgrade")
           lacks == {d \in In(marked, {"uninstalled"}) : \E n \in todo : d \in Deps[n]}
<1>1. Upgraded(s, m) = Installed(marked, lacks)
  BY DEF Upgraded, Least
<1>2. ASSUME NEW n \in todo PROVE s[n] \in {"installed", "to upgrade"}
  <2> DEFINE S == {m} \cup In(s, {"installed"})
  <2>1. S \in SUBSET Modules /\ {m} \subseteq S /\ Step(S) \subseteq S
    BY InIs
  <2>2. n \in S
    BY <1>2, <2>1
  <2> QED
    BY <2>2 DEF In
<1>3. todo \subseteq Modules
  OBVIOUS
<1> HIDE DEF todo
<1>4. marked \in [Modules -> States] /\ \A n \in Modules : marked[n] = IF n \in todo THEN "to upgrade" ELSE s[n]
  <2>1. "to upgrade" \in States
    BY DEF States, Marks
  <2> QED
    BY <2>1 DEF Assign
<1>5. lacks \in SUBSET Modules
  BY InIs
<1> HIDE DEF marked, lacks
<1>6. /\ Installed(marked, lacks) \in [Modules -> States]
      /\ \A n \in Modules : \/ Installed(marked, lacks)[n] = marked[n]
                            \/ marked[n] = "uninstalled" /\ Installed(marked, lacks)[n] = "to install"
      /\ \A n \in Modules : marked[n] = "uninstalled" /\ Installed(marked, lacks)[n] = "to install" =>
            \A d \in Deps[n] : Installed(marked, lacks)[d] # "uninstalled"
  BY <1>4, <1>5, InstalledIs
<1> QED
  BY <1>1, <1>2, <1>4, <1>6

(* Graph.add_modules(): the graph keeps its dependencies, and a set of new  *)
(* modules that depend on each other and on the graph joins as a whole.     *)
LEMMA AddedIs ==
    ASSUME ModuleTypes, \A m \in load.graph : Deps[m] \subseteq load.graph
    PROVE  /\ load.graph \subseteq Added /\ Added \subseteq load.graph \cup NewNames
           /\ \A m \in Added : Deps[m] \subseteq Added
           /\ \A ms \in SUBSET Modules :
                 ms \subseteq load.graph \cup NewNames /\ (\A m \in ms : Deps[m] \subseteq ms \cup load.graph)
                    => ms \subseteq Added
<1> DEFINE Step(S) == {m \in NewNames : Deps[m] \subseteq S}
           A == {m \in Modules : \A S \in SUBSET Modules : load.graph \subseteq S /\ Step(S) \subseteq S => m \in S}
<1>1. Added = A /\ load.graph \in SUBSET Modules /\ NewNames \in SUBSET Modules
  BY DEF Added, Least, ModuleTypes, Loadings, NewNames, In
<1>2. load.graph \subseteq A /\ A \subseteq Modules
  BY <1>1
<1>3. ASSUME NEW m \in NewNames, Deps[m] \subseteq A PROVE m \in A
  BY <1>1, <1>3
<1>4. ASSUME NEW S \in SUBSET Modules, load.graph \subseteq S, Step(S) \subseteq S PROVE A \subseteq S
  BY <1>4
<1> HIDE DEF A
<1>5. A \subseteq load.graph \cup NewNames /\ \A m \in A : Deps[m] \subseteq A
  <2> DEFINE S == load.graph \cup {m \in NewNames \cap A : Deps[m] \subseteq A}
  <2>1. S \in SUBSET Modules /\ load.graph \subseteq S /\ S \subseteq A
    BY <1>1, <1>2
  <2>2. Step(S) \subseteq S
    BY <1>3, <2>1
  <2>3. A \subseteq S
    BY <1>4, <2>1, <2>2
  <2> QED
    BY <1>2, <2>3
<1>6. ASSUME NEW ms \in SUBSET Modules, ms \subseteq load.graph \cup NewNames,
             \A m \in ms : Deps[m] \subseteq ms \cup load.graph
      PROVE  ms \subseteq A
  <2> DEFINE rest == ms \ A
  <2>1. CASE rest # {}
    <3>1. rest \in SUBSET Nat
      BY ModuleStatesAssumption
    <3> DEFINE m == Min(rest)
    <3>2. m \in rest /\ \A x \in rest : m <= x
      BY <2>1, <3>1, FirstIsIn
    <3> HIDE DEF m
    <3>3. ASSUME NEW d \in Deps[m] PROVE d \in A
      <4>1. d < m /\ d \in Nat /\ m \in Nat
        BY <3>2, ModuleStatesAssumption
      <4>2. d \notin rest
        BY <3>2, <4>1
      <4> QED
        BY <1>2, <1>6, <3>2, <4>2
    <3> QED
      BY <1>2, <1>3, <1>6, <3>2, <3>3
  <2> QED
    BY <2>1
<1> QED
  BY <1>1, <1>2, <1>5, <1>6

(* What a sound marking is, module by module.                               *)
LEMMA SoundIs ==
    \A s : Sound(s) <=> \A m \in Modules : \A d \in Deps[m] :
        /\ s[m] = "to remove" => s[d] \in Present
        /\ s[m] \in {"installed", "to upgrade"} => s[d] \in {"installed", "to upgrade"}
        /\ s[m] = "to install" => s[d] \in Wanted
<1>1. \A m \in Modules : \A d \in Deps[m] : d \in Modules
  BY ModuleStatesAssumption
<1> QED
  BY <1>1 DEF Sound, In, Present, Wanted

(* The marks of a button: those of Install and Upgrade are sound when       *)
(* nothing is to be removed, those of Uninstall when nothing that it meets  *)
(* is only to be installed; none makes a module present but Uninstall.      *)
LEMMA InstallIs ==
    ASSUME ModuleTypes, NEW m \in Modules, Install(m)
    PROVE  /\ state' \in [Modules -> States]
           /\ \A n \in Modules : state'[n] \in Present => state[n] \in Present
           /\ In(state, {"to remove"}) = {} /\ Sound(state) => Sound(state')
<1> DEFINE s == Installed(state, {m})
<1>1. state' = s
  BY DEF Install, Press, Changes
<1> HIDE DEF s
<1>2. /\ s \in [Modules -> States]
      /\ \A n \in Modules : \/ s[n] = state[n]
                            \/ state[n] = "uninstalled" /\ s[n] = "to install"
      /\ \A n \in Modules : state[n] = "uninstalled" /\ s[n] = "to install" => \A d \in Deps[n] : s[d] # "uninstalled"
  <2>1. {m} \in SUBSET Modules /\ state \in [Modules -> States]
    BY DEF ModuleTypes
  <2> QED
    BY <2>1, InstalledIs DEF s
<1>3. ASSUME In(state, {"to remove"}) = {}, Sound(state) PROVE Sound(s)
  <2>1. \A n \in Modules : state[n] # "to remove"
    BY <1>3 DEF In
  <2>2. \A n \in Modules : \A d \in Deps[n] : d \in Modules
    BY ModuleStatesAssumption
  <2>3. ASSUME NEW n \in Modules, NEW d \in Deps[n]
        PROVE  /\ s[n] = "to remove" => s[d] \in Present
               /\ s[n] \in {"installed", "to upgrade"} => s[d] \in {"installed", "to upgrade"}
               /\ s[n] = "to install" => s[d] \in Wanted
    <3>1. /\ state[n] \in {"installed", "to upgrade"} => state[d] \in {"installed", "to upgrade"}
          /\ state[n] = "to install" => state[d] \in Wanted
      BY <1>3, SoundIs
    <3>2. s[d] \in States /\ s[d] # "to remove" /\ s[n] # "to remove" /\ state[n] \in States
      BY <1>2, <2>1, <2>2 DEF ModuleTypes
    <3> QED
      BY <1>2, <2>2, <3>1, <3>2 DEF States, Marks, Wanted
  <2> QED
    BY <2>3, SoundIs
<1> QED
  BY <1>1, <1>2, <1>3 DEF Present

(* Upgrading marks what is installed and what is missing; as above, what is *)
(* to be removed is what it may unsettle.                                   *)
LEMMA UpgradeIs ==
    ASSUME ModuleTypes, NEW m \in Modules, Upgrade(m)
    PROVE  /\ state' \in [Modules -> States]
           /\ \A n \in Modules : state'[n] \in Present => state[n] \in Present
           /\ In(state, {"to remove"}) = {} /\ Sound(state) => Sound(state')
<1> DEFINE s == Upgraded(state, m)
<1>1. state' = s /\ state[m] \in {"installed", "to upgrade"}
  BY DEF Upgrade, Press, Changes
<1> HIDE DEF s
<1>2. /\ s \in [Modules -> States]
      /\ \A n \in Modules : \/ s[n] = state[n]
                            \/ state[n] = "installed" /\ s[n] = "to upgrade"
                            \/ state[n] = "uninstalled" /\ s[n] = "to install"
      /\ \A n \in Modules : state[n] = "uninstalled" /\ s[n] = "to install" => \A d \in Deps[n] : s[d] # "uninstalled"
  BY <1>1, UpgradedIs DEF ModuleTypes, s
<1>3. ASSUME In(state, {"to remove"}) = {}, Sound(state) PROVE Sound(s)
  <2>1. \A n \in Modules : state[n] # "to remove"
    BY <1>3 DEF In
  <2>2. \A n \in Modules : \A d \in Deps[n] : d \in Modules
    BY ModuleStatesAssumption
  <2>3. ASSUME NEW n \in Modules, NEW d \in Deps[n]
        PROVE  /\ s[n] = "to remove" => s[d] \in Present
               /\ s[n] \in {"installed", "to upgrade"} => s[d] \in {"installed", "to upgrade"}
               /\ s[n] = "to install" => s[d] \in Wanted
    <3>1. /\ state[n] \in {"installed", "to upgrade"} => state[d] \in {"installed", "to upgrade"}
          /\ state[n] = "to install" => state[d] \in Wanted
      BY <1>3, SoundIs
    <3>2. s[d] \in States /\ s[d] # "to remove" /\ s[n] # "to remove" /\ state[n] \in States
      BY <1>2, <2>1, <2>2 DEF ModuleTypes
    <3> QED
      BY <1>2, <2>2, <3>1, <3>2 DEF States, Marks, Wanted
  <2> QED
    BY <2>3, SoundIs
<1> QED
  BY <1>1, <1>2, <1>3 DEF Present

(* Uninstalling marks the modules that depend on it: if all are installed,  *)
(* sound marks stay sound and nothing becomes present.                      *)
LEMMA UninstallIs ==
    ASSUME ModuleTypes, NEW m \in Modules, Uninstall(m)
    PROVE  /\ state' \in [Modules -> States]
           /\ \/ UninstallsTheNew
              \/ /\ \A n \in Modules : state'[n] \in Present => state[n] \in Present
                 /\ Sound(state) => Sound(state')
<1> DEFINE D == Downstream(state, m)
<1>1. state' = Assign(state, D, "to remove") /\ state[m] \in {"installed", "to upgrade"}
  BY DEF Uninstall, Press, Changes
<1> HIDE DEF D
<1>2. /\ D \subseteq Modules /\ m \in D
      /\ \A n \in Modules : Deps[n] \cap D # {} /\ state[n] \notin {"uninstalled", "to remove"} => n \in D
      /\ \A n \in D : n = m \/ state[n] \notin {"uninstalled", "to remove"}
  BY DownstreamIs DEF ModuleTypes, D
<1>3. \A n \in Modules : state'[n] = IF n \in D THEN "to remove" ELSE state[n]
  BY <1>1 DEF Assign
<1>4. state' \in [Modules -> States]
  BY <1>1 DEF Assign, ModuleTypes, States, Marks
<1>5. \A n \in Modules : state[n] \in States
  BY DEF ModuleTypes
<1>6. CASE \E n \in D : state[n] = "to install"
  BY <1>2, <1>3, <1>4, <1>6 DEF UninstallsTheNew
<1>7. CASE \A n \in D : state[n] # "to install"
  <2>1. \A n \in D : state[n] \in {"installed", "to upgrade"}
    BY <1>1, <1>2, <1>5, <1>7 DEF States, Marks
  <2>2. ASSUME Sound(state) PROVE Sound(state')
    <3>1. \A n \in Modules : \A d \in Deps[n] : d \in Modules
      BY ModuleStatesAssumption
    <3>2. ASSUME NEW n \in Modules, NEW d \in Deps[n]
          PROVE  /\ state'[n] = "to remove" => state'[d] \in Present
                 /\ state'[n] \in {"installed", "to upgrade"} => state'[d] \in {"installed", "to upgrade"}
                 /\ state'[n] = "to install" => state'[d] \in Wanted
      <4>1. d \in D /\ state[n] \notin {"uninstalled", "to remove"} => n \in D
        BY <1>2, <3>2
      <4>2. /\ state[n] = "to remove" => state[d] \in Present
            /\ state[n] \in {"installed", "to upgrade"} => state[d] \in {"installed", "to upgrade"}
            /\ state[n] = "to install" => state[d] \in Wanted
        BY <2>2, SoundIs
      <4> QED
        BY <1>3, <2>1, <3>1, <4>1, <4>2 DEF Present, Wanted
    <3> QED
      BY <3>2, SoundIs
  <2>3. \A n \in Modules : state'[n] \in Present => state[n] \in Present
    BY <1>3, <2>1 DEF Present
  <2> QED
    BY <1>4, <2>2, <2>3
<1> QED
  BY <1>6, <1>7

(* reset_modules_state() and the wizard's Cancel take the marks away.       *)
LEMMA RestoredIs ==
    ASSUME NEW s \in [Modules -> States]
    PROVE  /\ Restored(s) \in [Modules -> States]
           /\ \A n \in Modules : Restored(s)[n] \in Present => s[n] \in Present
           /\ Sound(s) => Sound(Restored(s))
<1>1. /\ Restored(s) \in [Modules -> States]
      /\ \A n \in Modules : /\ s[n] \in Present => Restored(s)[n] = "installed"
                            /\ s[n] \notin Present => Restored(s)[n] = "uninstalled"
  BY DEF Restored, Present, States, Marks
<1>2. \A n \in Modules : \A d \in Deps[n] : d \in Modules
  BY ModuleStatesAssumption
<1>3. Sound(s) => \A n \in Modules : \A d \in Deps[n] : s[n] \in Present => s[d] \in Present
  BY SoundIs DEF Present
<1> QED
  BY <1>1, <1>2, <1>3, SoundIs DEF Present

-----------------------------------------------------------------------------
(* The steps                                                                *)

(* A button leaves a load as it is, but no longer alone.                    *)
LEMMA PressKeeps ==
    ASSUME ModulesIInv, NEW s \in [Modules -> States], Press(s)
    PROVE  ModulesIInv'
<1>1. ModuleTypes /\ GraphIsClosed /\ load.pressed \in Nat /\ buttons \in Nat /\ MaxButtons \in Nat
  BY ModuleStatesAssumption DEF ModulesIInv, ModuleTypes, Loadings
<1>2. UNCHANGED <<data, load, seen, pending>> /\ state' = s /\ buttons' = buttons + 1 /\ buttons < MaxButtons
  BY DEF Press, Changes
<1>3. stale' \in SUBSET Modules
  BY <1>1 DEF Press, Changes, ModuleTypes
<1>4. ModuleTypes'
  BY <1>1, <1>2, <1>3 DEF ModuleTypes
<1>5. GraphIsClosed'
  BY <1>1, <1>2 DEF GraphIsClosed
<1>6. ~Alone'
  BY <1>1, <1>2 DEF Alone, ModuleTypes
<1> QED
  BY <1>4, <1>5, <1>6 DEF ModulesIInv, SeesAll, GraphIsFull

(* What a load is before it begins and after it ends.                       *)
LEMMA IdleIs == /\ Idle \in Loadings /\ Idle.at = "idle" /\ Idle.graph = {} /\ Idle.loaded = {}
                /\ Idle.pressed = 0 /\ Idle.phase = "old"
<1>1. None \in [Modules -> States] /\ MaxButtons \in Nat
  BY ModuleStatesAssumption DEF None, States
<1>2. Idle.package = None /\ Idle.first = None
  BY DEF Idle
<1> QED
  BY <1>1 DEF Idle, Loadings

(* A load that ends leaves nothing of itself.                               *)
LEMMA EndKeeps ==
    ASSUME ModulesIInv, Ends, state' \in [Modules -> States], data' = data, buttons' = buttons
    PROVE  ModulesIInv'
<1>1. /\ load' \in Loadings /\ load'.at = "idle" /\ load'.graph = {} /\ load'.loaded = {} /\ load'.pressed = 0
      /\ seen' = state' /\ pending' = {} /\ stale' = {}
  BY IdleIs DEF Ends, Loadings
<1>2. ModuleTypes'
  BY <1>1 DEF ModulesIInv, ModuleTypes
<1> QED
  BY <1>1, <1>2 DEF ModulesIInv, GraphIsClosed, SeesAll, GraphIsFull, Alone

(* A load that begins sees what is committed and has an empty graph.        *)
LEMMA BeginKeeps ==
    ASSUME ModulesIInv, NEW update \in BOOLEAN, Begins(update), state' \in [Modules -> States],
           data' \in SUBSET Modules, buttons' = buttons
    PROVE  ModulesIInv'
<1>1. buttons \in 0..MaxButtons
  BY DEF ModulesIInv, ModuleTypes
<1>2. /\ load' \in Loadings /\ load'.at = "select" /\ load'.graph = {} /\ load'.loaded = {}
      /\ load'.pressed = buttons /\ load'.phase = "old" /\ load'.first = state'
      /\ seen' = state' /\ pending' = {} /\ stale' = {}
  BY <1>1, IdleIs DEF Begins, Loadings
<1>3. ModuleTypes'
  BY <1>1, <1>2, ModuleStatesAssumption DEF ModuleTypes
<1>4. GraphIsClosed'
  BY <1>2 DEF GraphIsClosed
<1>5. Assign(state', {}, "installed") = state'
  BY DEF Assign
<1>6. SeesAll'
  BY <1>2, <1>5 DEF SeesAll
<1>7. GraphIsFull'
  BY <1>2 DEF GraphIsFull
<1> QED
  BY <1>3, <1>4, <1>6, <1>7 DEF ModulesIInv

(* What is left of one phase goes on with the next one.                     *)
LEMMA NextPhaseIs ==
    ASSUME NEW l \in Loadings
    PROVE  /\ NextPhase(l) \in Loadings
           /\ NextPhase(l).at \in {"select", "end"} /\ NextPhase(l).graph = l.graph
           /\ NextPhase(l).loaded = l.loaded /\ NextPhase(l).package = l.package
           /\ NextPhase(l).first = l.first /\ NextPhase(l).pressed = l.pressed
           /\ NextPhase(l).update = l.update
           /\ NextPhase(l).phase = "new" => l.phase = "old" \/ NextPhase(l).at = "end"
           /\ NextPhase(l).at = "end" => NextPhase(l).phase = l.phase /\ ~(l.update /\ l.phase = "old")
BY DEF NextPhase, Loadings

(* All is in the graph that the next phase relies on.                       *)
LEMMA NextPhaseKeeps ==
    ASSUME ModulesIInv, load.at # "idle", load.graph = load.loaded, load' = NextPhase(load),
           UNCHANGED <<state, data, seen, pending, stale, buttons>>,
           Alone /\ Sound(load.first) =>
              /\ In(seen, Present) \subseteq load.graph
              /\ load.phase = "new" => In(seen, {"to install"}) \subseteq load.graph
    PROVE  ModulesIInv'
<1>1. /\ load' \in Loadings /\ load'.at \in {"select", "end"} /\ load'.graph = load.graph
      /\ load'.loaded = load.loaded /\ load'.package = load.package
      /\ load'.first = load.first /\ load'.pressed = load.pressed /\ load'.update = load.update
      /\ load'.at = "end" => load'.phase = load.phase /\ ~(load.update /\ load.phase = "old")
  BY NextPhaseIs DEF ModulesIInv, ModuleTypes
<1>2. load'.phase \in {"old", "new"} /\ load.phase \in {"old", "new"}
  BY <1>1 DEF ModulesIInv, ModuleTypes, Loadings
<1>3. ModuleTypes' /\ GraphIsClosed'
  BY <1>1 DEF ModulesIInv, ModuleTypes, GraphIsClosed
<1>4. Alone' <=> Alone
  BY <1>1 DEF Alone
<1>5. SeesAll'
  BY <1>1, <1>4 DEF ModulesIInv, SeesAll
<1>6. GraphIsFull'
  BY <1>1, <1>2, <1>4 DEF ModulesIInv, GraphIsFull, In
<1> QED
  BY <1>3, <1>5, <1>6 DEF ModulesIInv

(* A module whose dependencies are loaded may be called installed.          *)
LEMMA InstallingIsSound ==
    ASSUME NEW s \in [Modules -> States], NEW c \in Modules, s[c] \in {"to install", "to upgrade"},
           \A d \in Deps[c] : s[d] \in {"installed", "to remove"}, Sound(s)
    PROVE  Sound(Assign(s, {c}, "installed"))
<1> DEFINE t == Assign(s, {c}, "installed")
<1>1. \A n \in Modules : t[n] = IF n = c THEN "installed" ELSE s[n]
  BY DEF Assign
<1> HIDE DEF t
<1>2. ASSUME NEW n \in Modules, NEW d \in Deps[n]
      PROVE  /\ t[n] = "to remove" => t[d] \in Present
             /\ t[n] \in {"installed", "to upgrade"} => t[d] \in {"installed", "to upgrade"}
             /\ t[n] = "to install" => t[d] \in Wanted
  <2>1. d \in Modules
    BY ModuleStatesAssumption
  <2>2. /\ s[n] = "to remove" => s[d] \in Present
        /\ s[n] \in {"installed", "to upgrade"} => s[d] \in {"installed", "to upgrade"}
        /\ s[n] = "to install" => s[d] \in Wanted
    BY SoundIs
  <2> QED
    BY <1>1, <2>1, <2>2 DEF Present, Wanted
<1>3. Sound(t)
  BY <1>2, SoundIs
<1> QED
  BY <1>3 DEF t

(* What a load sees that is alone is as sound as what is committed.         *)
LEMMA SeenIsSound ==
    ASSUME ModulesIInv, Alone, Sound(state)
    PROVE  Sound(seen)
<1>1. seen = Assign(state, pending, "installed") /\ state \in [Modules -> States]
  BY DEF ModulesIInv, SeesAll, ModuleTypes
<1>2. CASE pending = {}
  <2>1. seen = state
    BY <1>1, <1>2 DEF Assign
  <2> QED
    BY <2>1
<1>3. CASE pending # {}
  <2>1. PICK c \in pending : TRUE
    BY <1>3
  <2>2. pending = {c} /\ c \in Modules /\ c \in load.loaded
    BY <2>1 DEF ModulesIInv, ModuleTypes, GraphIsClosed
  <2>3. state[c] \in {"to install", "to upgrade"}
    BY <2>1 DEF ModulesIInv, SeesAll
  <2>4. ASSUME NEW d \in Deps[c] PROVE state[d] \in {"installed", "to remove"}
    <3>1. d \in load.loaded /\ d \in Modules /\ d # c
      BY <2>2, ModuleStatesAssumption DEF ModulesIInv, GraphIsClosed
    <3>2. seen[d] \in {"installed", "to remove"}
      BY <3>1 DEF ModulesIInv, SeesAll
    <3> QED
      BY <1>1, <2>2, <3>1, <3>2 DEF Assign
  <2> QED
    BY <1>1, <2>2, <2>3, <2>4, InstallingIsSound
<1> QED
  BY <1>2, <1>3

(* The module at hand, and what it depends on.                              *)
LEMMA CurrentIs ==
    ASSUME ModulesIInv, load.graph # load.loaded
    PROVE  /\ Current \in load.graph \ load.loaded /\ Current \in Modules
           /\ Deps[Current] \subseteq load.loaded
<1>1. load.graph \in SUBSET Modules /\ Modules \subseteq Nat
  BY ModuleStatesAssumption DEF ModulesIInv, ModuleTypes, Loadings
<1>2. load.graph \ load.loaded \in SUBSET Nat /\ load.graph \ load.loaded # {}
  BY <1>1 DEF ModulesIInv, GraphIsClosed
<1>3. Current \in load.graph \ load.loaded /\ \A x \in load.graph \ load.loaded : Current <= x
  BY <1>2, FirstIsIn DEF Current
<1>4. ASSUME NEW d \in Deps[Current] PROVE d \in load.loaded
  <2>1. d \in load.graph /\ d < Current /\ d \in Nat /\ Current \in Nat
    BY <1>1, <1>3, ModuleStatesAssumption DEF ModulesIInv, GraphIsClosed
  <2> QED
    BY <1>3, <2>1
<1> QED
  BY <1>1, <1>3, <1>4

(* A module that is loaded as it was.                                       *)
LEMMA LoadModuleKeeps ==
    ASSUME ModulesIInv, LoadModule
    PROVE  ModulesIInv'
<1> DEFINE c == Current
<1>1. /\ c \in load.graph \ load.loaded /\ c \in Modules /\ Deps[c] \subseteq load.loaded
      /\ load.package[c] \notin {"to install", "to upgrade"} /\ load.at = "graph"
      /\ load' = [load EXCEPT !.loaded = @ \cup {c}]
      /\ UNCHANGED <<state, data, seen, pending, stale, buttons>>
  BY CurrentIs DEF LoadModule, Updates
<1> HIDE DEF c
<1>2. /\ load' \in Loadings /\ load'.loaded = load.loaded \cup {c} /\ load'.at = "graph"
      /\ load'.graph = load.graph /\ load'.package = load.package /\ load'.first = load.first
      /\ load'.pressed = load.pressed /\ load'.phase = load.phase /\ load'.update = load.update
  BY <1>1 DEF ModulesIInv, ModuleTypes, Loadings
<1>3. ModuleTypes' /\ GraphIsClosed'
  BY <1>1, <1>2 DEF ModulesIInv, ModuleTypes, GraphIsClosed
<1>4. Alone' <=> Alone
  BY <1>1, <1>2 DEF Alone
<1>5. GraphIsFull'
  BY <1>1, <1>2, <1>4 DEF ModulesIInv, GraphIsFull
<1>6. Alone => seen[c] \in {"installed", "to remove"}
  <2> SUFFICES ASSUME Alone PROVE seen[c] \in {"installed", "to remove"}
    OBVIOUS
  <2>1. seen[c] = load.package[c] /\ seen[c] # "uninstalled" /\ seen[c] \in States
    BY <1>1 DEF ModulesIInv, SeesAll, ModuleTypes
  <2> QED
    BY <1>1, <2>1 DEF States, Marks
<1>7. SeesAll'
  BY <1>1, <1>2, <1>4, <1>6 DEF ModulesIInv, SeesAll
<1> QED
  BY <1>3, <1>5, <1>7 DEF ModulesIInv

(* A module that is installed or upgraded.                                  *)
LEMMA UpdateModuleKeeps ==
    ASSUME ModulesIInv, UpdateModule
    PROVE  ModulesIInv'
<1> DEFINE c == Current
<1>1. /\ c \in load.graph \ load.loaded /\ c \in Modules /\ Deps[c] \subseteq load.loaded
      /\ load.package[c] \in {"to install", "to upgrade"} /\ load.at = "graph"
      /\ load' = [load EXCEPT !.loaded = @ \cup {c}, !.package[c] = "installed", !.worked = TRUE, !.again = TRUE]
      /\ data' = data \cup {c} /\ pending' = {c} /\ stale' = {} /\ buttons' = buttons
      /\ state' = Assign(state, pending, "installed") /\ seen' = Assign(state', {c}, "installed")
  BY CurrentIs DEF UpdateModule, Updates, LoadCommit
<1> HIDE DEF c
<1>2. /\ load' \in Loadings /\ load'.loaded = load.loaded \cup {c} /\ load'.at = "graph"
      /\ load'.graph = load.graph /\ load'.first = load.first
      /\ load'.pressed = load.pressed /\ load'.phase = load.phase /\ load'.update = load.update
      /\ \A m \in Modules : load'.package[m] = IF m = c THEN "installed" ELSE load.package[m]
  BY <1>1 DEF ModulesIInv, ModuleTypes, Loadings, States
<1>3. /\ state' \in [Modules -> States] /\ seen' \in [Modules -> States]
      /\ \A m \in Modules : seen'[m] = IF m = c THEN "installed" ELSE state'[m]
  BY <1>1 DEF ModulesIInv, ModuleTypes, Assign, States
<1>4. ModuleTypes'
  BY <1>1, <1>2, <1>3 DEF ModulesIInv, ModuleTypes
<1>5. GraphIsClosed'
  BY <1>1, <1>2 DEF ModulesIInv, ModuleTypes, GraphIsClosed
<1>6. Alone' <=> Alone
  BY <1>1, <1>2 DEF Alone
<1>7. ASSUME Alone PROVE /\ state' = seen /\ seen[c] \in {"to install", "to upgrade"}
                         /\ \A d \in load.loaded : d \in Modules /\ seen[d] \in {"installed", "to remove"}
                         /\ load.graph \subseteq Modules
  BY <1>1, <1>7 DEF ModulesIInv, SeesAll, ModuleTypes, Loadings, GraphIsClosed
<1>8. SeesAll'
  <2> SUFFICES ASSUME Alone
               PROVE  /\ \A m \in pending' : state'[m] \in {"to install", "to upgrade"}
                      /\ \A m \in load'.graph : load'.package[m] = seen'[m] /\ seen'[m] # "uninstalled"
                      /\ \A m \in load'.loaded : seen'[m] \in {"installed", "to remove"}
    BY <1>1, <1>6 DEF SeesAll
  <2>1. \A m \in load.graph : m \in Modules /\ load.package[m] = seen[m] /\ seen[m] # "uninstalled"
    BY <1>7 DEF ModulesIInv, SeesAll
  <2>2. \A m \in Modules : seen'[m] = IF m = c THEN "installed" ELSE seen[m]
    BY <1>3, <1>7
  <2>3. \A m \in load'.graph : load'.package[m] = seen'[m] /\ seen'[m] # "uninstalled"
    BY <1>2, <2>1, <2>2
  <2>4. \A m \in load'.loaded : seen'[m] \in {"installed", "to remove"}
    BY <1>1, <1>2, <1>7, <2>2
  <2> QED
    BY <1>1, <1>7, <2>3, <2>4
<1>9. ASSUME Alone, Sound(load.first) PROVE Sound(seen')
  <2>1. Sound(seen) /\ seen \in [Modules -> States]
    BY <1>9 DEF ModulesIInv, GraphIsFull, ModuleTypes
  <2>2. \A d \in Deps[c] : seen[d] \in {"installed", "to remove"}
    BY <1>1, <1>7, <1>9
  <2> QED
    BY <1>1, <1>7, <1>9, <2>1, <2>2, InstallingIsSound
<1>10. Alone => /\ In(seen', Present) \subseteq In(seen, Present) \cup load.graph
                /\ In(seen', {"to install"}) \subseteq In(seen, {"to install"})
  BY <1>1, <1>3, <1>7 DEF In, Present
<1>11. GraphIsFull'
  BY <1>1, <1>2, <1>6, <1>9, <1>10 DEF ModulesIInv, GraphIsFull
<1> QED
  BY <1>4, <1>5, <1>8, <1>11 DEF ModulesIInv

(* The graph takes what is selected and can be loaded.                      *)
LEMMA SelectKeeps ==
    ASSUME ModulesIInv, Select
    PROVE  ModulesIInv'
<1>1. load.at = "select" /\ UNCHANGED <<state, data, seen, pending, stale, buttons>> /\ load.graph = load.loaded
  BY DEF ModulesIInv, GraphIsClosed, Select
<1>2. load.graph \in SUBSET Modules /\ load.phase \in {"old", "new"} /\ load.at # "idle"
  BY <1>1 DEF ModulesIInv, ModuleTypes, Loadings
<1>3. /\ load.phase = "old" => In(seen, Present) \subseteq load.graph \cup NewNames
      /\ load.phase = "new" => In(seen, {"to install"}) \subseteq load.graph \cup NewNames
      /\ \A m \in NewNames : m \in Modules /\ seen[m] # "uninstalled"
  BY DEF NewNames, Selected, In, Present
<1>4. CASE NewNames = {}
  <2>1. Alone /\ Sound(load.first) =>
           /\ In(seen, Present) \subseteq load.graph
           /\ load.phase = "new" => In(seen, {"to install"}) \subseteq load.graph
    BY <1>1, <1>2, <1>3, <1>4 DEF ModulesIInv, GraphIsFull
  <2>2. load' = NextPhase(load)
    BY <1>4 DEF Select
  <2> QED
    BY <1>1, <1>2, <2>1, <2>2, NextPhaseKeeps
<1>5. CASE NewNames # {}
  <2> DEFINE A == Added
  <2>1. load' = [load EXCEPT !.at = "graph", !.graph = A, !.worked = FALSE,
                             !.package = [m \in Modules |-> IF m \in A THEN seen[m] ELSE @[m]]]
    BY <1>5 DEF Select
  <2>2. /\ load.graph \subseteq A /\ A \subseteq load.graph \cup NewNames
        /\ \A m \in A : Deps[m] \subseteq A
        /\ \A ms \in SUBSET Modules :
              ms \subseteq load.graph \cup NewNames /\ (\A m \in ms : Deps[m] \subseteq ms \cup load.graph)
                 => ms \subseteq A
    BY AddedIs DEF ModulesIInv, GraphIsClosed
  <2> HIDE DEF A
  <2>3. A \in SUBSET Modules
    BY <1>2, <1>3, <2>2
  <2>4. /\ load' \in Loadings /\ load'.loaded = load.loaded /\ load'.at = "graph"
        /\ load'.graph = A /\ load'.first = load.first
        /\ load'.pressed = load.pressed /\ load'.phase = load.phase /\ load'.update = load.update
        /\ \A m \in A : load'.package[m] = seen[m]
    BY <2>1, <2>3 DEF ModulesIInv, ModuleTypes, Loadings
  <2>5. ModuleTypes' /\ GraphIsClosed'
    BY <1>1, <2>2, <2>4 DEF ModulesIInv, ModuleTypes, GraphIsClosed
  <2>6. Alone' <=> Alone
    BY <1>1, <2>4 DEF Alone
  <2>7. SeesAll'
    BY <1>1, <1>3, <2>2, <2>4, <2>6 DEF ModulesIInv, SeesAll
  <2>8. ASSUME Alone, Sound(load.first)
        PROVE  /\ Sound(seen) /\ In(seen, Present) \subseteq A
               /\ load.phase = "new" => In(seen, {"to install"}) \subseteq A
    <3>1. Sound(seen) /\ (load.phase = "new" => In(seen, Present) \subseteq load.graph)
      BY <2>8 DEF ModulesIInv, GraphIsFull
    <3>2. In(seen, Present) \in SUBSET Modules /\ In(seen, {"to install"}) \in SUBSET Modules
      BY DEF In
    <3>3. \A m \in In(seen, Present) : Deps[m] \subseteq In(seen, Present)
      BY <3>1, SoundIs, ModuleStatesAssumption DEF In, Present
    <3>4. \A m \in In(seen, {"to install"}) : Deps[m] \subseteq In(seen, Present) \cup In(seen, {"to install"})
      BY <3>1, SoundIs, ModuleStatesAssumption DEF In, Present, Wanted
    <3>5. CASE load.phase = "old"
      BY <1>3, <2>2, <3>1, <3>2, <3>3, <3>5
    <3>6. CASE load.phase = "new"
      <4>1. \A m \in In(seen, {"to install"}) : Deps[m] \subseteq In(seen, {"to install"}) \cup load.graph
        BY <3>1, <3>4, <3>6
      <4>2. In(seen, {"to install"}) \subseteq A
        BY <1>3, <2>2, <3>2, <3>6, <4>1
      <4> QED
        BY <2>2, <3>1, <3>6, <4>2
    <3> QED
      BY <1>2, <3>5, <3>6
  <2>9. GraphIsFull'
    BY <1>1, <2>4, <2>6, <2>8 DEF GraphIsFull
  <2> QED
    BY <2>5, <2>7, <2>9 DEF ModulesIInv
<1> QED
  BY <1>4, <1>5

(* A graph whose modules are all loaded: once more, or the next phase.      *)
LEMMA GraphLoadedKeeps ==
    ASSUME ModulesIInv, GraphLoaded
    PROVE  ModulesIInv'
<1>1. load.at = "graph" /\ UNCHANGED <<state, data, seen, pending, stale, buttons>> /\ load.graph = load.loaded
  BY DEF GraphLoaded
<1>2. Alone /\ Sound(load.first) =>
         /\ Sound(seen) /\ In(seen, Present) \subseteq load.graph
         /\ load.phase = "new" => In(seen, {"to install"}) \subseteq load.graph
  BY <1>1 DEF ModulesIInv, GraphIsFull
<1>3. CASE load.worked
  <2>1. load' = [load EXCEPT !.at = "select"]
    BY <1>3 DEF GraphLoaded
  <2>2. /\ load' \in Loadings /\ load'.at = "select" /\ load'.graph = load.graph /\ load'.loaded = load.loaded
        /\ load'.package = load.package /\ load'.first = load.first /\ load'.pressed = load.pressed
    BY <2>1 DEF ModulesIInv, ModuleTypes, Loadings
  <2>3. ModuleTypes' /\ GraphIsClosed' /\ (Alone' <=> Alone)
    BY <1>1, <2>2 DEF ModulesIInv, ModuleTypes, GraphIsClosed, Alone
  <2>4. SeesAll'
    BY <1>1, <2>2, <2>3 DEF ModulesIInv, SeesAll
  <2>5. GraphIsFull'
    BY <1>1, <1>2, <2>2, <2>3 DEF GraphIsFull
  <2> QED
    BY <2>3, <2>4, <2>5 DEF ModulesIInv
<1>4. CASE ~load.worked
  <2>1. load' = NextPhase(load)
    BY <1>4 DEF GraphLoaded
  <2> QED
    BY <1>1, <1>2, <2>1, NextPhaseKeeps
<1> QED
  BY <1>3, <1>4

(* Restored() and the other ways to write states.                           *)
LEMMA WritesAreStates ==
    ASSUME ModuleTypes
    PROVE  /\ Restored(state) \in [Modules -> States]
           /\ Assign(state, pending, "installed") \in [Modules -> States]
           /\ Assign(Assign(state, pending, "installed"), ToRemove, "uninstalled") \in [Modules -> States]
BY DEF ModuleTypes, Restored, Assign, States, Marks

(* No load is under way at first.                                           *)
LEMMA ModulesIInvInit ==
    ASSUME ModulesInit
    PROVE  ModulesIInv
<1>1. state \in [Modules -> States] /\ data \in SUBSET Modules /\ MaxButtons \in Nat
  BY ModuleStatesAssumption DEF ModulesInit, In, States
<1>2. /\ load \in Loadings /\ load.at = "idle" /\ load.graph = {} /\ load.loaded = {} /\ load.pressed = 0
      /\ seen \in [Modules -> States] /\ pending = {} /\ stale = {} /\ buttons = 0
  BY IdleIs DEF ModulesInit, None, States
<1>3. ModuleTypes
  BY <1>1, <1>2 DEF ModuleTypes
<1> QED
  BY <1>2, <1>3 DEF ModulesIInv, GraphIsClosed, SeesAll, GraphIsFull, Alone

(* Every button and every step of a load keeps the invariant.               *)
LEMMA ModulesIInvNext ==
    ASSUME ModulesIInv, [ModulesNext]_moduleVars
    PROVE  ModulesIInv'
<1> USE DEF ModulesIInv
<1>1. CASE CancelAll
  <2>1. Press(Restored(state)) /\ Restored(state) \in [Modules -> States]
    BY <1>1, WritesAreStates DEF CancelAll
  <2> QED
    BY <2>1, PressKeeps
<1>2. CASE \E m \in Modules : Button(m)
  <2>1. PICK m \in Modules : Button(m)
    BY <1>2
  <2>2. CASE Install(m)
    <3>1. Press(Installed(state, {m})) /\ Installed(state, {m}) \in [Modules -> States]
      BY <2>2, InstallIs DEF Install, Press, Changes
    <3> QED
      BY <3>1, PressKeeps
  <2>3. CASE Uninstall(m)
    <3>1. Press(Assign(state, Downstream(state, m), "to remove")) /\ Assign(state, Downstream(state, m), "to remove") \in [Modules -> States]
      BY <2>3, UninstallIs DEF Uninstall, Press, Changes
    <3> QED
      BY <3>1, PressKeeps
  <2>4. CASE Upgrade(m)
    <3>1. Press(Upgraded(state, m)) /\ Upgraded(state, m) \in [Modules -> States]
      BY <2>4, UpgradeIs DEF Upgrade, Press, Changes
    <3> QED
      BY <3>1, PressKeeps
  <2>5. CASE Cancel(m)
    <3>1. Press(Assign(state, {m}, Restored(state)[m]))
      BY <2>5 DEF Cancel
    <3>2. Restored(state)[m] \in States /\ state \in [Modules -> States]
      BY <2>1, WritesAreStates DEF ModuleTypes
    <3>3. Assign(state, {m}, Restored(state)[m]) \in [Modules -> States]
      BY <3>2 DEF Assign
    <3> QED
      BY <3>1, <3>3, PressKeeps
  <2> QED
    BY <2>1, <2>2, <2>3, <2>4, <2>5 DEF Button
<1>3. CASE \E update \in BOOLEAN : Load(update)
  <2>1. PICK update \in BOOLEAN : Load(update)
    BY <1>3
  <2>2. Begins(update) /\ state' \in [Modules -> States] /\ data' \in SUBSET Modules /\ buttons' = buttons
    BY <2>1 DEF Load, ModuleTypes
  <2> QED
    BY <2>2, BeginKeeps
<1>4. CASE Remove
  <2>1. Begins(TRUE) /\ state' \in [Modules -> States] /\ data' \in SUBSET Modules /\ buttons' = buttons
    BY <1>4, WritesAreStates DEF Remove, ModuleTypes
  <2> QED
    BY <2>1, BeginKeeps
<1>5. CASE Loaded \/ LoadFails \/ Crash \/ CronReset
  <2>1. Ends /\ state' \in [Modules -> States] /\ data' = data /\ buttons' = buttons
    BY <1>5, WritesAreStates DEF Loaded, LoadCommit, LoadFails, Crash, CronReset, ModuleTypes
  <2> QED
    BY <2>1, EndKeeps
<1>6. CASE UNCHANGED moduleVars
  BY <1>6 DEF moduleVars, ModuleTypes, GraphIsClosed, SeesAll, GraphIsFull, Alone
<1> USE DEF ModulesIInv
<1> QED
  BY <1>1, <1>2, <1>3, <1>4, <1>5, <1>6, SelectKeeps, LoadModuleKeeps, UpdateModuleKeeps, GraphLoadedKeeps
  DEF ModulesNext, LoadStep

(* The types of the states, the data and the load.                          *)
THEOREM ModulesTypeCorrect == ModulesSpec => []ModulesTypeOK
<1>1. ModulesIInv => ModulesTypeOK
  <2> SUFFICES ASSUME ModulesIInv PROVE ModulesTypeOK
    OBVIOUS
  <2>1. Cardinality(pending) <= 1
    <3>1. CASE pending = {}
      BY <3>1, FS_EmptySet
    <3>2. CASE pending # {}
      <4>1. PICK m \in pending : TRUE
        BY <3>2
      <4>2. pending = {m}
        BY <4>1 DEF ModulesIInv, ModuleTypes
      <4> QED
        BY <4>2, FS_Singleton
    <3> QED
      BY <3>1, <3>2
  <2> QED
    BY <2>1 DEF ModulesIInv, ModuleTypes, GraphIsClosed, Loadings, ModulesTypeOK
<1> QED
  BY <1>1, ModulesIInvInit, ModulesIInvNext, PTL DEF ModulesSpec

(* No step but one takes the data of a module away that is to have them:    *)
(* the commits of a load write the data with or before the state, also when *)
(* it fails half-way.                                                       *)
THEOREM DataKept == ModulesSpec => DataIsKept
<1>1. ASSUME ModulesIInv, [ModulesNext]_moduleVars, HaveData
      PROVE  HaveData' \/ UninstallsTheNew
  <2>1. ModuleTypes /\ \A m \in Modules : state[m] \in Present => m \in data
    BY <1>1 DEF ModulesIInv, HaveData, In, Present
  <2>2. SUFFICES \/ UninstallsTheNew
                 \/ \A m \in Modules : state'[m] \in Present => m \in data'
    BY DEF HaveData, In, Present
  <2>3. /\ \A m \in Modules : Restored(state)[m] \in Present => state[m] \in Present
        /\ \A m \in Modules : Assign(state, pending, "installed")[m] \in Present => m \in data
    BY <2>1, RestoredIs DEF ModuleTypes, Assign
  <2>4. CASE CancelAll \/ LoadFails \/ CronReset
    BY <2>1, <2>3, <2>4 DEF CancelAll, Press, Changes, LoadFails, CronReset
  <2>5. CASE \E m \in Modules : Button(m)
    <3>1. PICK m \in Modules : Button(m)
      BY <2>5
    <3>2. data' = data
      BY <3>1 DEF Button, Install, Uninstall, Upgrade, Cancel, Press
    <3>3. CASE Install(m) \/ Upgrade(m) \/ Uninstall(m)
      BY <2>1, <3>2, <3>3, InstallIs, UpgradeIs, UninstallIs
    <3>4. CASE Cancel(m)
      <4>1. state' = Assign(state, {m}, Restored(state)[m])
        BY <3>4 DEF Cancel, Press, Changes
      <4> QED
        BY <2>1, <2>3, <3>2, <4>1 DEF Assign
    <3> QED
      BY <3>1, <3>3, <3>4 DEF Button
  <2>6. CASE UpdateModule \/ Loaded
    BY <2>3, <2>6 DEF UpdateModule, Loaded, LoadCommit
  <2>7. CASE Remove
    <3>1. /\ state' = Assign(Assign(state, pending, "installed"), ToRemove, "uninstalled")
          /\ data' = data \ ToRemove
      BY <2>7 DEF Remove
    <3>2. \A m \in Modules : state'[m] \in Present =>
             m \notin ToRemove /\ Assign(state, pending, "installed")[m] \in Present
      BY <3>1 DEF Assign, Present
    <3> QED
      BY <2>3, <3>1, <3>2
  <2>8. CASE (\E update \in BOOLEAN : Load(update)) \/ Select \/ LoadModule \/ GraphLoaded \/ Crash
             \/ UNCHANGED moduleVars
    BY <2>1, <2>8 DEF Load, Select, LoadModule, GraphLoaded, Crash, moduleVars
  <2> QED
    BY <1>1, <2>4, <2>5, <2>6, <2>7, <2>8 DEF ModulesNext, LoadStep
<1> QED
  BY <1>1, ModulesIInvInit, ModulesIInvNext, PTL DEF ModulesSpec, DataIsKept

(* What a load commits when no button came in between: what it sees, and    *)
(* that without the modules it has removed.                                 *)
LEMMA CommitsAreSound ==
    ASSUME ModulesIInv, Alone, Sound(state)
    PROVE  /\ Sound(Assign(state, pending, "installed"))
           /\ Sound(Assign(Assign(state, pending, "installed"), ToRemove, "uninstalled"))
<1>1. Sound(seen) /\ seen = Assign(state, pending, "installed") /\ seen \in [Modules -> States]
  BY SeenIsSound DEF ModulesIInv, SeesAll, ModuleTypes
<1> DEFINE t == Assign(seen, ToRemove, "uninstalled")
<1>2. \A m \in Modules : t[m] = IF seen[m] = "to remove" THEN "uninstalled" ELSE seen[m]
  BY DEF Assign, ToRemove, In
<1> HIDE DEF t
<1>3. \A m \in Modules : \A d \in Deps[m] : d \in Modules
  BY ModuleStatesAssumption
<1>4. ASSUME NEW m \in Modules, NEW d \in Deps[m]
      PROVE  /\ t[m] = "to remove" => t[d] \in Present
             /\ t[m] \in {"installed", "to upgrade"} => t[d] \in {"installed", "to upgrade"}
             /\ t[m] = "to install" => t[d] \in Wanted
  <2>1. /\ seen[m] \in {"installed", "to upgrade"} => seen[d] \in {"installed", "to upgrade"}
        /\ seen[m] = "to install" => seen[d] \in Wanted
    BY <1>1, SoundIs
  <2> QED
    BY <1>2, <1>3, <2>1 DEF Wanted
<1>5. Sound(t)
  BY <1>4, SoundIs
<1> QED
  BY <1>1, <1>5 DEF t

(* Sound marks stay sound, but for the four ways to disturb them.           *)
THEOREM DependenciesKept == ModulesSpec => DependenciesAreKept
<1>1. ASSUME ModulesIInv, [ModulesNext]_moduleVars, Sound(state)
      PROVE  \/ Sound(state')
             \/ UninstallsTheNew
             \/ Disturbed /\ buttons' = buttons
             \/ \E m \in Modules : \/ Cancel(m)
                                   \/ (Install(m) \/ Upgrade(m)) /\ In(state, {"to remove"}) # {}
  <2>1. ModuleTypes /\ Sound(Restored(state))
    BY <1>1, RestoredIs DEF ModulesIInv, ModuleTypes
  <2>2. CASE CancelAll \/ LoadFails \/ CronReset
    BY <2>1, <2>2 DEF CancelAll, Press, Changes, LoadFails, CronReset
  <2>3. CASE \E m \in Modules : Button(m)
    <3>1. PICK m \in Modules : Install(m) \/ Upgrade(m) \/ Uninstall(m) \/ Cancel(m)
      BY <2>3 DEF Button
    <3>2. CASE Install(m) \/ Upgrade(m)
      BY <1>1, <2>1, <3>2, InstallIs, UpgradeIs
    <3>3. CASE Uninstall(m)
      BY <1>1, <2>1, <3>3, UninstallIs
    <3> QED
      BY <3>1, <3>2, <3>3
  <2>4. CASE UpdateModule \/ Loaded \/ Remove
    <3>1. /\ \/ state' = Assign(state, pending, "installed")
             \/ state' = Assign(Assign(state, pending, "installed"), ToRemove, "uninstalled")
          /\ load.at # "idle" /\ buttons' = buttons
      BY <2>4 DEF UpdateModule, Loaded, Remove, LoadCommit
    <3>2. CASE Alone
      BY <1>1, <3>1, <3>2, CommitsAreSound
    <3>3. CASE ~Alone
      <4>1. load.pressed < buttons
        BY <2>1, <3>1, <3>3, ModuleStatesAssumption DEF Alone, ModuleTypes, Loadings
      <4> QED
        BY <3>1, <4>1 DEF Disturbed
    <3> QED
      BY <3>2, <3>3
  <2>5. CASE (\E update \in BOOLEAN : Load(update)) \/ Select \/ LoadModule \/ GraphLoaded \/ Crash
             \/ UNCHANGED moduleVars
    BY <1>1, <2>5 DEF Load, Select, LoadModule, GraphLoaded, Crash, moduleVars
  <2> QED
    BY <1>1, <2>2, <2>3, <2>4, <2>5 DEF ModulesNext, LoadStep
<1> QED
  BY <1>1, ModulesIInvInit, ModulesIInvNext, PTL DEF ModulesSpec, DependenciesAreKept

(* A load with the updates that starts from sound marks and that no button  *)
(* disturbs has done everything that was marked when it ends.               *)
THEOREM Settles == ModulesSpec => LoadSettles
<1>1. ASSUME ModulesIInv, [ModulesNext]_moduleVars, Loaded, load.update, load.pressed = buttons, Sound(load.first)
      PROVE  In(state', Marks) = {}
  <2>1. load.at = "end" /\ ToRemove = {} /\ state' = Assign(state, pending, "installed") /\ Alone
    BY <1>1 DEF Loaded, LoadCommit, Alone
  <2>2. /\ In(seen, Present) \subseteq load.loaded /\ In(seen, {"to install"}) \subseteq load.loaded
        /\ state' = seen
        /\ \A m \in load.loaded : seen[m] \in {"installed", "to remove"}
    BY <1>1, <2>1 DEF ModulesIInv, GraphIsFull, GraphIsClosed, SeesAll
  <2>3. ASSUME NEW m \in Modules, seen[m] \in Marks PROVE FALSE
    <3>1. m \in In(seen, Present) \cup In(seen, {"to install"})
      BY <2>3 DEF In, Present, Marks
    <3>2. seen[m] = "to remove"
      BY <2>2, <2>3, <3>1 DEF Marks
    <3> QED
      BY <2>1, <3>2 DEF ToRemove, In
  <2> QED
    BY <2>2, <2>3 DEF In
<1> QED
  BY <1>1, ModulesIInvInit, ModulesIInvNext, PTL DEF ModulesSpec, LoadSettles
==============================================================================
