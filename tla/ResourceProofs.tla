---------------------------- MODULE ResourceProofs ----------------------------
(* What belongs to no transaction: the connections of the pool and the      *)
(* files of attachments, each for any values of its constants.              *)
EXTENDS ConnectionPool, Filestore, FiniteSetTheorems, TLAPS

-------------------------------------------------------------------------------
(* ConnectionPool for every number of connections, databases and threads.   *)
(* No single property is inductive: that a swept connection has no owner    *)
(* rests on LentStaysLent, which rests on ExclusiveLending, and both need   *)
(* inUse \subseteq slots from TypeOK.  They are proved together.            *)
(* A cursor between its rollback and its give_back() has nothing open. *)
ClosingIsClean == \A k \in Cursor : cur[k] = "closing" => held[k] \notin dirty

OwnInv ==
    /\ ExclusiveLending
    /\ LentStaysLent
    /\ ClosingIsClean
    /\ NoIdleTransaction
    /\ NoOrphanSlot

BoundInv == IsFiniteSet(slots) /\ PoolBounded

IInv == TypeOK /\ OwnInv /\ BoundInv

(* Type correctness is preserved by every step of borrow(), of the cursors, *)
(* of close_all() and of the server.                                        *)
LEMMA TypeStep == ASSUME TypeOK, [Next]_vars PROVE TypeOK'
<1> USE DEF TypeOK, CursorState
<1>1. ASSUME NEW k \in Cursor, NEW d \in Dsn, Reuse(k, d) PROVE TypeOK'
  BY <1>1 DEF Reuse, IdleFor, Idle, SweptUsed, SweptLeaked, Alive, Swept,
              AppendedTo, Without, Lend
<1>2. ASSUME NEW k \in Cursor, NEW d \in Dsn, Connect(k, d) PROVE TypeOK'
  <2> PICK out \in SUBSET Idle, c \in Conn :
          /\ c \notin Alive \ out
          /\ slots' = (Alive \ out) \cup {c}
          /\ inUse' = (SweptUsed \ {c}) \cup {c}
          /\ before' = AppendedTo(Without(Swept, out), Alive \ out, c)
          /\ closed' = (closed \cup IdleFor(d) \cup out) \ {c}
          /\ broken' = broken \ {c}
          /\ leaked' = SweptLeaked \ {c}
          /\ dirty' = dirty \ (out \cup IdleFor(d) \cup {c})
          /\ dsnOf' = [dsnOf EXCEPT ![c] = d]
          /\ Lend(k, c)
    BY <1>2 DEF Connect
  <2>1. inUse' \subseteq slots'
    BY DEF SweptUsed, Idle
  <2>2. before' \subseteq slots' \X slots'
    BY DEF AppendedTo, Without, Swept
  <2>3. slots' \subseteq Conn /\ closed' \subseteq Conn /\ leaked' \subseteq Conn
    BY DEF Alive, Idle, IdleFor, SweptLeaked
  <2>4. /\ cur' \in [Cursor -> CursorState]
        /\ held' \in [Cursor -> Conn \cup {NoConn}]
        /\ \A l \in Cursor : cur'[l] # "none" => held'[l] \in Conn
    BY DEF Lend
  <2> QED
    BY <2>1, <2>2, <2>3, <2>4
<1>3. ASSUME NEW k \in Cursor, NEW d \in Dsn, ConnectFails(k, d) PROVE TypeOK'
  <2> PICK out \in SUBSET Idle :
          /\ slots' = Alive \ out
          /\ inUse' = SweptUsed
          /\ before' = Without(Swept, out)
          /\ closed' = closed \cup IdleFor(d) \cup out
          /\ leaked' = SweptLeaked
          /\ dirty' = dirty \ (out \cup IdleFor(d))
          /\ UNCHANGED <<dsnOf, broken, cur, held>>
    BY <1>3 DEF ConnectFails
  <2>1. inUse' \subseteq slots'
    BY DEF SweptUsed, Idle
  <2>2. before' \subseteq slots' \X slots'
    BY DEF Without, Swept
  <2> QED
    BY <2>1, <2>2 DEF Alive, Idle, IdleFor, SweptLeaked
<1>4. ASSUME NEW k \in Cursor, PoolFull(k) PROVE TypeOK'
  BY <1>4 DEF PoolFull, Alive, SweptUsed, SweptLeaked, Swept
<1>5. ASSUME NEW k \in Cursor, InitDone(k) PROVE TypeOK'
  BY <1>5 DEF InitDone
<1>6. ASSUME NEW k \in Cursor, Execute(k) PROVE TypeOK'
  BY <1>6 DEF Execute
<1>7. ASSUME NEW k \in Cursor, EndTransaction(k) PROVE TypeOK'
  BY <1>7 DEF EndTransaction
<1>8. ASSUME NEW k \in Cursor, ExitCommitRaises(k) PROVE TypeOK'
  BY <1>8 DEF ExitCommitRaises
<1>9. ASSUME NEW k \in Cursor, Forget(k) PROVE TypeOK'
  BY <1>9 DEF Forget
<1>10. ASSUME NEW k \in Cursor, CloseCursor(k) PROVE TypeOK'
  BY <1>10 DEF CloseCursor, AfterRollback
<1>11. ASSUME NEW k \in Cursor, GiveBack(k) PROVE TypeOK'
  <2>1. /\ inUse' \subseteq slots' /\ slots' \subseteq Conn /\ closed' \subseteq Conn
        /\ before' \subseteq slots' \X slots'
    BY <1>11 DEF GiveBack, AppendedTo, Without
  <2> QED
    BY <1>11, <2>1 DEF GiveBack
<1>12. ASSUME NEW k \in Cursor, Collect(k) PROVE TypeOK'
  BY <1>12 DEF Collect, AfterRollback
<1>13. ASSUME NEW D \in SUBSET Dsn, CloseAll(D) PROVE TypeOK'
  BY <1>13 DEF CloseAll, Without
<1>14. ASSUME NEW c \in Conn, ServerDrop(c) PROVE TypeOK'
  BY <1>14 DEF ServerDrop
<1>15. CASE UNCHANGED vars
  BY <1>15 DEF vars
<1> QED
  BY <1>1, <1>2, <1>3, <1>4, <1>5, <1>6, <1>7, <1>8, <1>9, <1>10, <1>11,
     <1>12, <1>13, <1>14, <1>15 DEF Next

(* The variables always have their types, and the list of the pool holds no *)
(* used mark and no position for a connection outside it.                   *)
THEOREM TypeCorrect == Spec => []TypeOK
<1>1. Init => TypeOK
  <2>1. (CHOOSE d \in Dsn : TRUE) \in Dsn
    BY PoolAssumption
  <2> QED
    BY <2>1 DEF Init, TypeOK, CursorState
<1>2. TypeOK /\ [Next]_vars => TypeOK'
  BY TypeStep
<1> QED
  BY <1>1, <1>2, PTL DEF Spec

-----------------------------------------------------------------------------
(* After the sweep, a connection that is not marked used has no owner. *)
LEMMA IdleHasNoOwner ==
  ASSUME TypeOK, LentStaysLent, NEW c \in Idle
  PROVE  \A k \in Cursor : Live(k) => held[k] # c
BY DEF TypeOK, LentStaysLent, Idle, SweptUsed, Freed, Alive

(* The used marks that survive the sweep still have their owner. *)
LEMMA SweptUsedHasOwner ==
  ASSUME TypeOK, NoOrphanSlot, NEW c \in SweptUsed
  PROVE  \E k \in Cursor : Live(k) /\ held[k] = c
BY DEF TypeOK, NoOrphanSlot, SweptUsed, Freed, Alive

(* Who owns a connection, who will return it and what it carries along is   *)
(* preserved by every step.                                                 *)
LEMMA OwnStep == ASSUME TypeOK, OwnInv, [Next]_vars PROVE OwnInv'
<1> USE DEF TypeOK, CursorState, Live
<1>1. ASSUME NEW k \in Cursor, NEW d \in Dsn, Reuse(k, d) PROVE OwnInv'
  <2> PICK c \in IdleFor(d) :
          /\ c \notin broken
          /\ closed' = closed \cup { b \in IdleFor(d) \cap broken : <<b, c>> \in Swept }
          /\ slots' = Alive
          /\ inUse' = SweptUsed \cup {c}
          /\ leaked' = SweptLeaked
          /\ dirty' = dirty \ {c}
          /\ Lend(k, c)
    BY <1>1 DEF Reuse, First
  <2>1. c \in Idle /\ c \in Alive /\ cur[k] = "none"
    BY <1>1 DEF IdleFor, Idle, Reuse
  <2>2. \A l \in Cursor : Live(l) => held[l] # c
    BY <2>1, IdleHasNoOwner DEF OwnInv
  <2>3. \A l \in Cursor \ {k} : cur'[l] = cur[l] /\ held'[l] = held[l]
    BY DEF Lend
  <2>4. cur'[k] = "opening" /\ held'[k] = c
    BY DEF Lend
  <2>5. ExclusiveLending'
    BY <2>2, <2>3, <2>4 DEF OwnInv, ExclusiveLending
  <2>6. LentStaysLent'
    BY <2>1, <2>3, <2>4 DEF OwnInv, LentStaysLent, SweptUsed, SweptLeaked, Freed, Alive
  <2>7. NoIdleTransaction'
    BY <2>1 DEF OwnInv, NoIdleTransaction, SweptUsed, SweptLeaked, Freed, Alive
  <2>8. NoOrphanSlot'
    <3>1. \A b \in SweptUsed : \E l \in Cursor \ {k} : Live(l) /\ held[l] = b
      BY <2>1, SweptUsedHasOwner DEF OwnInv
    <3> QED
      BY <2>3, <2>4, <3>1 DEF NoOrphanSlot
  <2>9. ClosingIsClean'
    BY <2>3, <2>4 DEF OwnInv, ClosingIsClean
  <2> QED
    BY <2>5, <2>6, <2>7, <2>8, <2>9 DEF OwnInv
<1>2. ASSUME NEW k \in Cursor, NEW d \in Dsn, Connect(k, d) PROVE OwnInv'
  <2> PICK out \in SUBSET Idle, c \in Conn :
          /\ c \notin Alive \ out
          /\ Fresh(c)
          /\ slots' = (Alive \ out) \cup {c}
          /\ inUse' = (SweptUsed \ {c}) \cup {c}
          /\ closed' = (closed \cup IdleFor(d) \cup out) \ {c}
          /\ leaked' = SweptLeaked \ {c}
          /\ dirty' = dirty \ (out \cup IdleFor(d) \cup {c})
          /\ Lend(k, c)
    BY <1>2 DEF Connect
  <2>1. cur[k] = "none"
    BY <1>2 DEF Connect
  <2>2. \A l \in Cursor : Live(l) => held[l] # c
    BY DEF Fresh
  <2>3. \A l \in Cursor \ {k} : cur'[l] = cur[l] /\ held'[l] = held[l]
    BY DEF Lend
  <2>4. cur'[k] = "opening" /\ held'[k] = c
    BY DEF Lend
  <2>5. ExclusiveLending'
    BY <2>2, <2>3, <2>4 DEF OwnInv, ExclusiveLending
  <2>6. LentStaysLent'
    BY <2>3, <2>4 DEF OwnInv, LentStaysLent, SweptUsed, SweptLeaked, Freed, Alive, Idle
  <2>7. NoIdleTransaction'
    BY DEF OwnInv, NoIdleTransaction, SweptUsed, SweptLeaked, Freed, Alive, Idle, IdleFor
  <2>8. NoOrphanSlot'
    <3>1. \A b \in SweptUsed : \E l \in Cursor \ {k} : Live(l) /\ held[l] = b
      BY <2>1, SweptUsedHasOwner DEF OwnInv
    <3> QED
      BY <2>3, <2>4, <3>1 DEF NoOrphanSlot
  <2>9. ClosingIsClean'
    BY <2>3, <2>4 DEF OwnInv, ClosingIsClean
  <2> QED
    BY <2>5, <2>6, <2>7, <2>8, <2>9 DEF OwnInv
<1>3. ASSUME NEW k \in Cursor, NEW d \in Dsn, ConnectFails(k, d) PROVE OwnInv'
  <2> PICK out \in SUBSET Idle :
          /\ slots' = Alive \ out
          /\ inUse' = SweptUsed
          /\ closed' = closed \cup IdleFor(d) \cup out
          /\ leaked' = SweptLeaked
          /\ dirty' = dirty \ (out \cup IdleFor(d))
          /\ UNCHANGED <<cur, held>>
    BY <1>3 DEF ConnectFails
  <2>1. ExclusiveLending'
    BY DEF OwnInv, ExclusiveLending
  <2>2. LentStaysLent'
    BY DEF OwnInv, LentStaysLent, SweptUsed, SweptLeaked, Freed, Alive, Idle
  <2>3. NoIdleTransaction'
    BY DEF OwnInv, NoIdleTransaction, SweptUsed, SweptLeaked, Freed, Alive, Idle, IdleFor
  <2>4. NoOrphanSlot'
    BY SweptUsedHasOwner DEF OwnInv, NoOrphanSlot
  <2>5. ClosingIsClean'
    BY DEF OwnInv, ClosingIsClean
  <2> QED
    BY <2>1, <2>2, <2>3, <2>4, <2>5 DEF OwnInv
<1>4. ASSUME NEW k \in Cursor, PoolFull(k) PROVE OwnInv'
  <2> USE <1>4 DEF PoolFull
  <2>1. ExclusiveLending'
    BY DEF OwnInv, ExclusiveLending
  <2>2. LentStaysLent'
    BY DEF OwnInv, LentStaysLent, SweptUsed, SweptLeaked, Freed, Alive
  <2>3. NoIdleTransaction'
    BY DEF OwnInv, NoIdleTransaction, SweptUsed, SweptLeaked, Freed, Alive
  <2>4. NoOrphanSlot'
    BY SweptUsedHasOwner DEF OwnInv, NoOrphanSlot
  <2>5. ClosingIsClean'
    BY DEF OwnInv, ClosingIsClean
  <2> QED
    BY <2>1, <2>2, <2>3, <2>4, <2>5 DEF OwnInv
<1> USE DEF OwnInv, ExclusiveLending, LentStaysLent, ClosingIsClean,
           NoIdleTransaction, NoOrphanSlot
<1>5. ASSUME NEW k \in Cursor, InitDone(k) PROVE OwnInv'
  BY <1>5 DEF InitDone
<1>6. ASSUME NEW k \in Cursor, Execute(k) PROVE OwnInv'
  BY <1>6 DEF Execute, Usable
<1>7. ASSUME NEW k \in Cursor, EndTransaction(k) PROVE OwnInv'
  BY <1>7 DEF EndTransaction
<1>8. ASSUME NEW k \in Cursor, ExitCommitRaises(k) PROVE OwnInv'
  BY <1>8 DEF ExitCommitRaises, Usable
<1>9. ASSUME NEW k \in Cursor, Forget(k) PROVE OwnInv'
  BY <1>9 DEF Forget
<1>10. ASSUME NEW k \in Cursor, CloseCursor(k) PROVE OwnInv'
  BY <1>10 DEF CloseCursor, AfterRollback, Usable
<1>11. ASSUME NEW k \in Cursor, GiveBack(k) PROVE OwnInv'
  BY <1>11 DEF GiveBack
<1>12. ASSUME NEW k \in Cursor, Collect(k) PROVE OwnInv'
  BY <1>12 DEF Collect, AfterRollback, Usable
<1>13. ASSUME NEW D \in SUBSET Dsn, CloseAll(D) PROVE OwnInv'
  BY <1>13 DEF CloseAll
<1>14. ASSUME NEW c \in Conn, ServerDrop(c) PROVE OwnInv'
  BY <1>14 DEF ServerDrop
<1>15. CASE UNCHANGED vars
  BY <1>15 DEF vars
<1> QED
  BY <1>1, <1>2, <1>3, <1>4, <1>5, <1>6, <1>7, <1>8, <1>9, <1>10, <1>11,
     <1>12, <1>13, <1>14, <1>15 DEF Next

-----------------------------------------------------------------------------
(* Removing elements keeps the list finite and within its bound. *)
LEMMA ShrinkBound ==
  ASSUME BoundInv, NEW S, S \subseteq slots
  PROVE  IsFiniteSet(S) /\ Cardinality(S) \in Nat /\ Cardinality(S) <= MaxConn
<1>1. IsFiniteSet(S) /\ Cardinality(S) <= Cardinality(slots)
  BY FS_Subset DEF BoundInv
<1>2. Cardinality(S) \in Nat /\ Cardinality(slots) \in Nat
  BY <1>1, FS_CardinalityType DEF BoundInv
<1> QED
  BY <1>1, <1>2, PoolAssumption DEF BoundInv, PoolBounded

(* A connection that appears among slots enters where borrow() made room. *)
LEMMA BoundStep == ASSUME TypeOK, BoundInv, [Next]_vars PROVE BoundInv'
<1>1. ASSUME slots' \subseteq slots PROVE BoundInv'
  BY <1>1, ShrinkBound DEF BoundInv, PoolBounded
<1>2. ASSUME NEW k \in Cursor, NEW d \in Dsn, Connect(k, d) PROVE BoundInv'
  <2> PICK out \in SUBSET Idle, c \in Conn :
          /\ MakesRoom(out)
          /\ c \notin Alive \ out
          /\ slots' = (Alive \ out) \cup {c}
    BY <1>2 DEF Connect
  <2>1. /\ IsFiniteSet(Alive) /\ Cardinality(Alive) \in Nat
        /\ Cardinality(Alive) <= MaxConn
    BY ShrinkBound DEF Alive
  <2>2. IsFiniteSet(Alive \ out)
    BY <2>1, FS_Subset
  <2>3. Cardinality(Alive \ out) \in Nat /\ Cardinality(Alive \ out) < MaxConn
    <3>1. CASE Cardinality(Alive) < MaxConn /\ out = {}
      <4>1. Alive \ out = Alive
        BY <3>1
      <4> QED
        BY <2>1, <3>1, <4>1
    <3>2. CASE \E v \in Idle : out = {v}
      <4> PICK v \in Idle : out = {v}
        BY <3>2
      <4>1. v \in Alive
        BY DEF Idle
      <4>2. Cardinality(Alive \ {v}) = Cardinality(Alive) - 1
        BY <2>1, <4>1, FS_RemoveElement
      <4>3. Cardinality(Alive \ {v}) \in Nat
        BY <2>2, FS_CardinalityType
      <4> QED
        BY <2>1, <4>2, <4>3, PoolAssumption
    <3> QED
      BY <3>1, <3>2 DEF MakesRoom
  <2>4. IsFiniteSet(slots') /\ Cardinality(slots') = Cardinality(Alive \ out) + 1
    BY <2>2, FS_AddElement
  <2> QED
    BY <2>3, <2>4, PoolAssumption DEF BoundInv, PoolBounded
<1>3. ASSUME NEW k \in Cursor, NEW d \in Dsn, Reuse(k, d) PROVE slots' \subseteq slots
  BY <1>3 DEF Reuse, Alive
<1>4. ASSUME NEW k \in Cursor, NEW d \in Dsn, ConnectFails(k, d)
      PROVE  slots' \subseteq slots
  BY <1>4 DEF ConnectFails, Alive
<1>5. ASSUME NEW k \in Cursor,
             \/ PoolFull(k) \/ InitDone(k) \/ Execute(k) \/ EndTransaction(k)
             \/ ExitCommitRaises(k) \/ Forget(k) \/ CloseCursor(k)
             \/ GiveBack(k) \/ Collect(k)
      PROVE  slots' \subseteq slots
  BY <1>5 DEF PoolFull, Alive, InitDone, Execute, EndTransaction,
              ExitCommitRaises, Forget, CloseCursor, GiveBack, Collect
<1>6. ASSUME NEW D \in SUBSET Dsn, CloseAll(D) PROVE slots' \subseteq slots
  BY <1>6 DEF CloseAll
<1>7. ASSUME NEW c \in Conn, ServerDrop(c) PROVE slots' \subseteq slots
  BY <1>7 DEF ServerDrop
<1>8. CASE UNCHANGED vars
  BY <1>1, <1>8 DEF vars
<1> QED
  BY <1>1, <1>2, <1>3, <1>4, <1>5, <1>6, <1>7, <1>8 DEF Next

(* The inductive invariant of the pool. *)
THEOREM Inductive == Spec => []IInv
<1>1. Init => IInv
  <2>1. ASSUME Init PROVE TypeOK
    <3>1. (CHOOSE d \in Dsn : TRUE) \in Dsn
      BY PoolAssumption
    <3> QED
      BY <2>1, <3>1 DEF Init, TypeOK, CursorState
  <2>2. ASSUME Init PROVE OwnInv
    BY <2>2 DEF Init, OwnInv, ExclusiveLending, LentStaysLent, ClosingIsClean,
                NoIdleTransaction, NoOrphanSlot, Live
  <2>3. ASSUME Init PROVE BoundInv
    BY <2>3, FS_EmptySet, PoolAssumption DEF Init, BoundInv, PoolBounded
  <2> QED
    BY <2>1, <2>2, <2>3 DEF IInv
<1>2. IInv /\ [Next]_vars => IInv'
  BY TypeStep, OwnStep, BoundStep DEF IInv
<1> QED
  BY <1>1, <1>2, PTL DEF Spec

(* No connection is ever in the hands of two live cursors. *)
THEOREM Exclusive == Spec => []ExclusiveLending
<1>1. IInv => ExclusiveLending
  BY DEF IInv, OwnInv
<1> QED
  BY <1>1, Inductive, PTL

(* What a live cursor holds is neither idle nor marked leaked in the list. *)
THEOREM StaysLent == Spec => []LentStaysLent
<1>1. IInv => LentStaysLent
  BY DEF IInv, OwnInv
<1> QED
  BY <1>1, Inductive, PTL

(* db_maxconn is never exceeded, whatever number of threads borrows. *)
THEOREM Bounded == Spec => []PoolBounded
<1>1. IInv => PoolBounded
  BY DEF IInv, BoundInv
<1> QED
  BY <1>1, Inductive, PTL

(* No transaction outlives the cursor that opened it. *)
THEOREM CleanWhenIdle == Spec => []NoIdleTransaction
<1>1. IInv => NoIdleTransaction
  BY DEF IInv, OwnInv
<1> QED
  BY <1>1, Inductive, PTL

(* A slot marked used has an owner or will be swept. *)
THEOREM NoSlotLost == Spec => []NoOrphanSlot
<1>1. IInv => NoOrphanSlot
  BY DEF IInv, OwnInv
<1> QED
  BY <1>1, Inductive, PTL

(* Connections that all have a live owner are not more than the owners.     *)
LEMMA OwnersAreAsMany ==
    ASSUME NEW S, \A c \in S : \E k \in Cursor : Live(k) /\ held[k] = c
    PROVE  Cardinality(S) <= Cardinality({k \in Cursor : Live(k)})
<1> DEFINE L == {k \in Cursor : Live(k)}
           T == {held[k] : k \in L}
           f == [k \in L |-> held[k]]
<1>1. IsFiniteSet(L)
  BY FS_Subset, CursorAssumption
<1>2. f \in Surjection(L, T)
  BY DEF Surjection
<1> HIDE DEF f
<1>3. IsFiniteSet(T) /\ Cardinality(T) <= Cardinality(L)
  BY <1>1, <1>2, FS_Surjection
<1>4. S \subseteq T
  OBVIOUS
<1>5. IsFiniteSet(S) /\ Cardinality(S) <= Cardinality(T)
  BY <1>3, <1>4, FS_Subset
<1> HIDE DEF T, L
<1>6. Cardinality(S) \in Nat /\ Cardinality(T) \in Nat /\ Cardinality(L) \in Nat
  BY <1>1, <1>3, <1>5, FS_CardinalityType
<1>7. Cardinality(S) <= Cardinality(L)
  BY <1>3, <1>5, <1>6
<1> QED
  BY <1>7 DEF L

(* PoolError is raised only when MaxConn cursors are still to give their    *)
(* connection back: the error is never one of the bookkeeping.              *)
THEOREM FullWhenBusy == Spec => []FullOnlyIfBusy
<1>1. ASSUME IInv, IsFull PROVE Cardinality({k \in Cursor : Live(k)}) >= MaxConn
  <2> DEFINE L == {k \in Cursor : Live(k)}
  <2>1. \A c \in Alive : \E k \in Cursor : Live(k) /\ held[k] = c
    BY <1>1, SweptUsedHasOwner DEF IInv, OwnInv, IsFull, Idle
  <2>2. Cardinality(Alive) <= Cardinality(L)
    BY <2>1, OwnersAreAsMany
  <2>3. IsFiniteSet(L) /\ IsFiniteSet(Alive)
    BY <1>1, FS_Subset, CursorAssumption DEF IInv, BoundInv, Alive
  <2>4. Cardinality(L) \in Nat /\ Cardinality(Alive) \in Nat /\ MaxConn \in Nat
    BY <2>3, FS_CardinalityType, PoolAssumption
  <2> HIDE DEF L
  <2>5. Cardinality(L) >= MaxConn
    BY <1>1, <2>2, <2>4 DEF IsFull
  <2> QED
    BY <2>5 DEF L
<1>2. IInv => FullOnlyIfBusy
  BY <1>1 DEF FullOnlyIfBusy
<1> QED
  BY <1>2, Inductive, PTL

(* As long as close_all() is not called, borrow() leaves alone what the     *)
(* other threads hold.                                                      *)
THEOREM NeverTaken == Spec => OnlyIdleEvicted
<1> DEFINE A == \A k \in Cursor, d \in Dsn :
                  Borrow(k, d) =>
                    \A l \in Cursor \ {k} :
                      Live(l) /\ held[l] \in slots \ closed
                        => held[l] \in slots' \ closed'
<1>1. IInv => A
  <2> SUFFICES ASSUME IInv, NEW k \in Cursor, NEW d \in Dsn, Borrow(k, d),
                      NEW l \in Cursor, Live(l), held[l] \in slots \ closed
               PROVE  held[l] \in slots' \ closed'
    OBVIOUS
  <2>1. held[l] \in Alive /\ held[l] \notin Idle
    BY IdleHasNoOwner DEF IInv, OwnInv, Alive
  <2>2. CASE Reuse(k, d)
    BY <2>1, <2>2 DEF Reuse, IdleFor, Alive
  <2>3. CASE Connect(k, d)
    BY <2>1, <2>3 DEF Connect, IdleFor, Alive
  <2>4. CASE ConnectFails(k, d)
    BY <2>1, <2>4 DEF ConnectFails, IdleFor, Alive
  <2> QED
    BY <2>2, <2>3, <2>4 DEF Borrow
<1> QED
  BY <1>1, Inductive, PTL DEF OnlyIdleEvicted

-------------------------------------------------------------------------------
(* The files of attachments, for any number of transactions, attachments   *)
(* and files.  All rests on the lock of the table: from the moment the     *)
(* collector has it, nobody has changed a row, so that the rows it selected *)
(* are those there are (SelectedIsAll); and who has changed a row keeps it  *)
(* out until the end of his transaction, with the files he has looked at    *)
(* (WritersHaveFiles, NewIsThere) and those he has marked (GoneByWriters).  *)

Locked == gc.at \in {"lock", "listed", "each", "entry"}

LockExcludes == Locked => Writers = {}

SelectedIsAll == gc.at \in {"each", "entry"} => \A a \in Attachments : rows[a] \in gc.keep

(* what an operation knows at each of its steps                             *)
OpsAreWhole == \A t \in Tx :
    /\ op[t].at # "none" => op[t].att \in Attachments
    /\ op[t].at = "written" => op[t].new # None
    /\ op[t].at \in {"mark", "deleted"} => op[t].old # None
    /\ op[t].at = "deleted" => t \in Writers /\ op[t].new = None

(* but for the file that is being replaced, which may have been a late one  *)
WritersHaveFiles == \A t \in Tx : \A a \in changed[t] \ late[t] :
    view[t][a] \in files \cup {None} \/ (op[t].att = a /\ op[t].new # None)

NewIsThere == \A t \in Tx :
    op[t].new # None /\ op[t].att \notin late[t] => t \in Writers /\ op[t].new \in files

GoneByWriters == \A t \in Tx : gone[t] # {} => t \in Writers

FilesIInv ==
    /\ FilesTypeOK /\ OpsAreWhole
    /\ LockExcludes /\ SelectedIsAll
    /\ WritersHaveFiles /\ NewIsThere /\ RowsHaveFiles
    /\ GoneByWriters /\ UnlinkedIsMarked

-----------------------------------------------------------------------------
(* What the collector does not touch.                                       *)
LEMMA GcLeaves ==
    ASSUME Gc
    PROVE  UNCHANGED <<rows, view, changed, stale, op, late, exposed, gone, Writers>>
BY DEF Gc, GcStart, GcLock, GcFails, GcList, GcSelect, GcFile, GcEntry, GcDone, Collector, Writers

(* The collector deletes files and checklist entries and adds none.         *)
LEMMA GcType == ASSUME FilesTypeOK, Gc PROVE gc' \in [at : {"idle", "wait", "lock", "listed", "each", "entry"},
                                                listed : SUBSET Files, keep : SUBSET Name, now : Name]
                                     /\ files' \subseteq files /\ checklist' \subseteq checklist
<1> USE DEF FilesTypeOK, Collector
<1>1. CASE GcStart \/ GcLock
  BY <1>1 DEF GcStart, GcLock
<1>2. CASE GcFails \/ GcDone
  BY <1>2 DEF GcFails, GcDone, GcIdle, Name
<1>3. CASE GcList
  BY <1>3 DEF GcList
<1>4. CASE GcSelect
  <2>1. {rows[a] : a \in Attachments} \subseteq Name
    OBVIOUS
  <2> QED
    BY <1>4, <2>1 DEF GcSelect
<1>5. CASE \E f \in Files : GcFile(f)
  BY <1>5 DEF GcFile, Name
<1>6. CASE GcEntry
  BY <1>6 DEF GcEntry, Name
<1> QED
  BY <1>1, <1>2, <1>3, <1>4, <1>5, <1>6 DEF Gc

(* The types at the start.                                                  *)
LEMMA FilesTypeInit == FilesInit => FilesTypeOK
BY DEF FilesInit, FilesTypeOK, GcIdle, NoOp, Name

(* Transactions and the collector keep the types, and operations have what  *)
(* their step needs.                                                        *)
LEMMA FilesTypeStep == ASSUME FilesTypeOK, OpsAreWhole, [FilesNext]_filesVars PROVE FilesTypeOK' /\ OpsAreWhole'
<1> DEFINE Op == [at : {"none", "written", "insert", "mark", "update", "deleted"},
                  att : Attachments \cup {None}, new : Name, old : Name]
<1>1. NoOp \in Op /\ NoOp.at = "none"
  BY DEF NoOp, Name
<1>2. ASSUME op' \in [Tx -> Op], UNCHANGED gc,
             files' \subseteq Files, checklist' \subseteq Files,
             rows' \in [Attachments -> Name], view' \in [Tx -> [Attachments -> Name]],
             changed' \in [Tx -> SUBSET Attachments], stale' \in [Tx -> SUBSET Attachments],
             late' \in [Tx -> SUBSET Attachments], exposed' \subseteq Attachments,
             gone' \in [Tx -> SUBSET Files]
      PROVE  FilesTypeOK'
  BY <1>2 DEF FilesTypeOK
<1>3. ASSUME NEW t \in Tx, NEW a \in Attachments, NEW f \in Name
      PROVE  Changes(t, a, f) => /\ view' \in [Tx -> [Attachments -> Name]]
                                 /\ changed' \in [Tx -> SUBSET Attachments]
                                 /\ \A u \in Tx : changed[u] \subseteq changed'[u]
                                 /\ changed'[t] # {}
  BY DEF Changes, FilesTypeOK
<1>4. ASSUME NEW t \in Tx, NEW o \in Op, op' = [op EXCEPT ![t] = o],
             \A u \in Tx \ {t} : u \in Writers => u \in Writers',
             /\ o.at # "none" => o.att \in Attachments
             /\ o.at = "written" => o.new # None
             /\ o.at \in {"mark", "deleted"} => o.old # None
             /\ o.at = "deleted" => t \in Writers' /\ o.new = None
      PROVE  op' \in [Tx -> Op] /\ OpsAreWhole'
  <2>1. op'[t] = o /\ \A u \in Tx \ {t} : op'[u] = op[u]
    BY <1>4 DEF FilesTypeOK
  <2> QED
    BY <1>4, <2>1 DEF OpsAreWhole, FilesTypeOK
<1>5. ASSUME changed' = changed PROVE Writers' = Writers
  BY <1>5 DEF Writers
<1> HIDE DEF Op
<1>6. op \in [Tx -> Op]
  BY DEF FilesTypeOK, Op
<1>7. CASE Gc
  <2>1. FilesTypeOK'
    BY <1>7, GcLeaves, GcType DEF FilesTypeOK
  <2> QED
    BY <1>7, <2>1, GcLeaves DEF OpsAreWhole
<1>8. ASSUME NEW t \in Tx, NEW a \in Attachments, NEW f \in Files, WriteFile(t, a, f)
      PROVE  FilesTypeOK' /\ OpsAreWhole'
  <2> DEFINE o == [at |-> IF f \in files THEN (IF view[t][a] = None THEN "insert" ELSE "mark") ELSE "written",
                   att |-> a, new |-> f, old |-> view[t][a]]
  <2>1. view[t][a] \in Name
    BY DEF FilesTypeOK
  <2>2. /\ o \in Op /\ o.att \in Attachments /\ o.new # None /\ o.at # "deleted"
        /\ o.at = "mark" => o.old # None
    BY <2>1, FilestoreAssumption DEF Op, Name
  <2> HIDE DEF o
  <2>3. op' = [op EXCEPT ![t] = o]
    BY <1>8 DEF WriteFile, o
  <2>4. op' \in [Tx -> Op] /\ OpsAreWhole'
    BY <1>4, <1>5, <1>8, <2>2, <2>3 DEF WriteFile
  <2>5. late' \in [Tx -> SUBSET Attachments] /\ files' \subseteq Files
    BY <1>8 DEF WriteFile, FilesTypeOK
  <2> QED
    BY <1>2, <1>8, <2>4, <2>5 DEF WriteFile, FilesTypeOK
<1>9. ASSUME NEW t \in Tx, MarkWritten(t) \/ MarkReplaced(t) PROVE FilesTypeOK' /\ OpsAreWhole'
  <2> PICK at \in {"insert", "mark", "update"} :
          /\ op' = [op EXCEPT ![t].at = at]
          /\ at = "mark" => op[t].old # None
    BY <1>9 DEF MarkWritten, MarkReplaced, Step
  <2>1. op[t] \in Op /\ op[t].att \in Attachments
    BY <1>6, <1>9 DEF OpsAreWhole, MarkWritten, MarkReplaced
  <2> DEFINE o == [op[t] EXCEPT !.at = at]
  <2>2. o \in Op /\ o.at = at /\ o.att = op[t].att /\ o.old = op[t].old
    BY <2>1 DEF Op
  <2>3. op' = [op EXCEPT ![t] = o]
    OBVIOUS
  <2> HIDE DEF o
  <2>4. op' \in [Tx -> Op] /\ OpsAreWhole'
    BY <1>4, <1>5, <1>9, <2>1, <2>2, <2>3 DEF MarkWritten, MarkReplaced
  <2>5. checklist' \subseteq Files
    BY <1>9 DEF MarkWritten, MarkReplaced, OpsAreWhole, FilesTypeOK, Name
  <2> QED
    BY <1>2, <1>9, <2>4, <2>5 DEF MarkWritten, MarkReplaced, FilesTypeOK
<1>10. ASSUME NEW t \in Tx, Insert(t) \/ Update(t) PROVE FilesTypeOK' /\ OpsAreWhole'
  <2>1. op[t].att \in Attachments /\ op[t].new \in Name
    BY <1>10 DEF Insert, Update, OpsAreWhole, FilesTypeOK
  <2>2. Changes(t, op[t].att, op[t].new) /\ op' = [op EXCEPT ![t] = NoOp]
    BY <1>10 DEF Insert, Update
  <2>3. \A u \in Tx : u \in Writers => u \in Writers'
    BY <1>3, <2>1, <2>2 DEF Writers
  <2>4. op' \in [Tx -> Op] /\ OpsAreWhole'
    BY <1>1, <1>4, <2>2, <2>3
  <2> QED
    BY <1>2, <1>3, <1>10, <2>1, <2>2, <2>4 DEF Insert, Update, FilesTypeOK
<1>11. ASSUME NEW t \in Tx, NEW a \in Attachments, Delete(t, a) PROVE FilesTypeOK' /\ OpsAreWhole'
  <2> DEFINE o == [at |-> "deleted", att |-> a, new |-> None, old |-> view[t][a]]
  <2>1. Changes(t, a, None) /\ op' = [op EXCEPT ![t] = o]
    BY <1>11 DEF Delete
  <2>2. None \in Name /\ view[t][a] \in Name /\ view[t][a] # None
    BY <1>11 DEF Delete, FilesTypeOK, Name
  <2>3. \A u \in Tx : u \in Writers => u \in Writers'
    BY <1>3, <2>1, <2>2 DEF Writers
  <2>4. t \in Writers'
    BY <1>3, <2>1, <2>2 DEF Writers
  <2>5. o \in Op /\ o.att = a /\ o.at = "deleted" /\ o.old # None /\ o.new = None
    BY <2>2 DEF Op
  <2> HIDE DEF o
  <2>6. op' \in [Tx -> Op] /\ OpsAreWhole'
    BY <1>4, <2>1, <2>3, <2>4, <2>5
  <2> QED
    BY <1>2, <1>3, <1>11, <2>1, <2>2, <2>6 DEF Delete, FilesTypeOK
<1>12. ASSUME NEW t \in Tx, MarkUnlinked(t) PROVE FilesTypeOK' /\ OpsAreWhole'
  <2>1. op' \in [Tx -> Op] /\ OpsAreWhole'
    BY <1>1, <1>4, <1>5, <1>12 DEF MarkUnlinked
  <2>2. op[t].old \in Files
    BY <1>12 DEF MarkUnlinked, OpsAreWhole, FilesTypeOK, Name
  <2>3. checklist' \subseteq Files /\ gone' \in [Tx -> SUBSET Files]
    BY <1>12, <2>2 DEF MarkUnlinked, FilesTypeOK
  <2> QED
    BY <1>2, <1>12, <2>1, <2>3 DEF MarkUnlinked, FilesTypeOK
<1>13. ASSUME NEW t \in Tx, Commit(t) PROVE FilesTypeOK' /\ OpsAreWhole'
  <2>1. rows' \in [Attachments -> Name]
    BY <1>13 DEF Commit, FilesTypeOK
  <2>2. view' \in [Tx -> [Attachments -> Name]]
    BY <1>13, <2>1 DEF Commit, FilesTypeOK
  <2>3. /\ stale' \in [Tx -> SUBSET Attachments] /\ changed' \in [Tx -> SUBSET Attachments]
        /\ late' \in [Tx -> SUBSET Attachments] /\ gone' \in [Tx -> SUBSET Files]
        /\ exposed' \subseteq Attachments
    BY <1>13 DEF Commit, FilesTypeOK
  <2>4. \A u \in Tx : u # t => changed'[u] = changed[u]
    BY <1>13 DEF Commit, FilesTypeOK
  <2>5. OpsAreWhole'
    BY <1>1, <1>13, <2>4 DEF Commit, OpsAreWhole, Writers
  <2> QED
    BY <1>2, <1>6, <1>13, <2>1, <2>2, <2>3, <2>5 DEF Commit, FilesTypeOK
<1>14. ASSUME NEW t \in Tx, Rollback(t) PROVE FilesTypeOK' /\ OpsAreWhole'
  <2>1. \A u \in Tx : u # t => changed'[u] = changed[u]
    BY <1>14 DEF Rollback, FilesTypeOK
  <2>2. \A u \in Tx \ {t} : u \in Writers => u \in Writers'
    BY <2>1 DEF Writers
  <2>3. op' \in [Tx -> Op] /\ OpsAreWhole'
    BY <1>1, <1>4, <1>14, <2>2 DEF Rollback
  <2> QED
    BY <1>2, <1>14, <2>3 DEF Rollback, FilesTypeOK
<1>15. CASE UNCHANGED filesVars
  BY <1>15 DEF filesVars, FilesTypeOK, OpsAreWhole, Writers
<1> QED
  BY <1>7, <1>8, <1>9, <1>10, <1>11, <1>12, <1>13, <1>14, <1>15 DEF FilesNext, TxNext

-----------------------------------------------------------------------------

(* Transactions leave the collector's variables alone.                      *)
LEMMA TxLeavesGc == ASSUME NEW t \in Tx, TxNext(t) PROVE gc' = gc
BY DEF TxNext, Delete, WriteFile, MarkWritten, Insert, MarkReplaced, Update, MarkUnlinked, Commit, Rollback

(* Who has changed a row has done so until he ends his transaction; while   *)
(* the table is locked nobody begins to.                                    *)
LEMMA WritersStep ==
    ASSUME FilesTypeOK, OpsAreWhole, NEW t \in Tx, TxNext(t)
    PROVE  /\ \A u \in Tx \ {t} : changed'[u] = changed[u]
           /\ t \in Writers /\ ~Commit(t) /\ ~Rollback(t) => t \in Writers'
           /\ t \in Writers' => t \in Writers \/ gc.at = "idle"
<1> USE DEF FilesTypeOK
<1>1. CASE \E a \in Attachments, f \in Files : WriteFile(t, a, f)
  BY <1>1 DEF WriteFile, Writers
<1>2. CASE MarkWritten(t) \/ MarkReplaced(t) \/ MarkUnlinked(t)
  BY <1>2 DEF MarkWritten, MarkReplaced, MarkUnlinked, Writers
<1>3. ASSUME NEW a \in Attachments, NEW f, Changes(t, a, f), MayChange(t, a)
      PROVE  /\ \A u \in Tx \ {t} : changed'[u] = changed[u]
             /\ t \in Writers'
             /\ t \in Writers \/ gc.at = "idle"
  BY <1>3 DEF Changes, MayChange, Writers
<1>4. CASE Insert(t) \/ Update(t)
  BY <1>3, <1>4 DEF Insert, Update, OpsAreWhole
<1>5. CASE \E a \in Attachments : Delete(t, a)
  BY <1>3, <1>5 DEF Delete
<1>6. CASE Commit(t) \/ Rollback(t)
  BY <1>6 DEF Commit, Rollback, Writers
<1> QED
  BY <1>1, <1>2, <1>4, <1>5, <1>6 DEF TxNext

(* Under the collector's lock of the table no transaction writes a row.     *)
LEMMA LockedStep ==
    ASSUME FilesTypeOK, OpsAreWhole, LockExcludes, Locked, NEW t \in Tx, TxNext(t)
    PROVE  Writers' = {} /\ rows' = rows
<1>1. Writers = {}
  BY DEF LockExcludes
<1>2. Writers' = {}
  BY <1>1, WritersStep DEF Locked, Writers
<1>3. rows' = rows
  <2>1. CASE Commit(t)
    BY <1>1, <2>1 DEF Commit, Writers, FilesTypeOK
  <2>2. CASE ~Commit(t)
    BY <2>2 DEF TxNext, Delete, WriteFile, MarkWritten, Insert, MarkReplaced, Update, MarkUnlinked, Rollback
  <2> QED
    BY <2>1, <2>2
<1> QED
  BY <1>2, <1>3

(* So what the collector has selected stays all there is.                   *)
LEMMA LockStep == ASSUME FilesIInv, [FilesNext]_filesVars PROVE LockExcludes' /\ SelectedIsAll'
<1> USE DEF FilesIInv, LockExcludes, SelectedIsAll, Locked
<1>1. CASE Gc
  <2>1. /\ Writers' = Writers /\ rows' = rows
    BY <1>1, GcLeaves
  <2> USE DEF FilesTypeOK, Collector
  <2>2. CASE GcStart \/ GcFails \/ GcDone
    BY <2>1, <2>2 DEF GcStart, GcFails, GcDone, GcIdle
  <2>3. CASE GcLock \/ GcList
    BY <2>1, <2>3 DEF GcLock, GcList
  <2>4. CASE GcSelect
    BY <2>1, <2>4 DEF GcSelect
  <2>5. CASE GcEntry \/ \E f \in Files : GcFile(f)
    BY <2>1, <2>5 DEF GcEntry, GcFile
  <2> QED
    BY <1>1, <2>2, <2>3, <2>4, <2>5 DEF Gc
<1>2. ASSUME NEW t \in Tx, TxNext(t) PROVE LockExcludes' /\ SelectedIsAll'
  <2>1. gc' = gc
    BY <1>2, TxLeavesGc
  <2>2. CASE Locked
    BY <1>2, <2>1, <2>2, LockedStep
  <2>3. CASE ~Locked
    BY <2>1, <2>3
  <2> QED
    BY <2>2, <2>3
<1>3. CASE UNCHANGED filesVars
  BY <1>3 DEF filesVars, Writers
<1> QED
  BY <1>1, <1>2, <1>3 DEF FilesNext

-----------------------------------------------------------------------------
(* The collector removes no file that a row it excluded may need.           *)
LEMMA GcKeeps ==
    ASSUME FilesIInv, Gc
    PROVE  /\ Writers # {} => files' = files /\ checklist' = checklist
           /\ \A a \in Attachments : rows[a] \in files => rows[a] \in files'
<1> USE DEF FilesIInv, LockExcludes, Locked, Collector
<1>1. CASE GcStart \/ GcLock \/ GcFails \/ GcList \/ GcSelect \/ GcDone
  BY <1>1 DEF GcStart, GcLock, GcFails, GcList, GcSelect, GcDone
<1>2. CASE GcEntry
  BY <1>2 DEF GcEntry
<1>3. CASE \E f \in Files : GcFile(f)
  BY <1>3 DEF GcFile, SelectedIsAll
<1> QED
  BY <1>1, <1>2, <1>3 DEF Gc

(* An operation of one transaction leaves those of the others.              *)
LEMMA OpStep ==
    ASSUME FilesTypeOK, NEW t \in Tx, NEW o, op' = [op EXCEPT ![t] = o]
    PROVE  op'[t] = o /\ \A u \in Tx \ {t} : op'[u] = op[u]
BY DEF FilesTypeOK

(* A change of a row in one transaction is nothing to the others.           *)
LEMMA Others ==
    ASSUME WritersHaveFiles, NewIsThere, RowsHaveFiles, NEW t \in Tx,
           UNCHANGED <<rows, late, exposed, files>>,
           \A u \in Tx \ {t} : op'[u] = op[u] /\ view'[u] = view[u] /\ changed'[u] = changed[u],
           op'[t].new = None, \A b \in changed'[t] \ late'[t] : view'[t][b] \in files \cup {None}
    PROVE  WritersHaveFiles' /\ NewIsThere' /\ RowsHaveFiles'
<1>1. WritersHaveFiles'
  BY DEF WritersHaveFiles
<1>2. \A u \in Tx \ {t} : u \in Writers => u \in Writers'
  BY DEF Writers
<1>3. NewIsThere'
  BY <1>2 DEF NewIsThere
<1> QED
  BY <1>1, <1>3 DEF RowsHaveFiles

Had == WritersHaveFiles /\ NewIsThere /\ RowsHaveFiles

(* Every step keeps that the file that a row or an operation needs is       *)
(* there.                                                                   *)
LEMMA FilesStep == ASSUME FilesIInv, [FilesNext]_filesVars PROVE Had'
<1> USE DEF Had
<1>0. FilesTypeOK /\ OpsAreWhole /\ FilesTypeOK'
  BY FilesTypeStep DEF FilesIInv
<1>1. CASE Gc
  <2>1. UNCHANGED <<rows, view, changed, op, late, exposed, Writers>>
    BY <1>1, GcLeaves
  <2>2. \A t \in Tx : changed[t] # {} => t \in Writers
    BY DEF Writers
  <2> QED
    BY <1>1, <2>1, <2>2, GcKeeps DEF FilesIInv, WritersHaveFiles, NewIsThere, RowsHaveFiles
<1>2. ASSUME NEW t \in Tx, NEW a \in Attachments, NEW f \in Files, WriteFile(t, a, f) PROVE Had'
  <2>1. /\ UNCHANGED <<rows, view, changed, exposed>> /\ files \subseteq files' /\ f \in files'
        /\ Writers' = Writers
    BY <1>2 DEF WriteFile, Writers
  <2>2. /\ \A u \in Tx \ {t} : op'[u] = op[u] /\ late'[u] = late[u]
        /\ op'[t].att = a /\ op'[t].new = f
        /\ late'[t] = IF t \in Writers THEN late[t] \ {a} ELSE late[t] \cup {a}
    BY <1>0, <1>2 DEF WriteFile, FilesTypeOK
  <2>3. op[t].new = None /\ f # None
    BY <1>2, FilestoreAssumption DEF WriteFile, NoOp
  <2>4. ASSUME NEW b \in changed[t] \ late'[t], b # a PROVE view[t][b] \in files \cup {None}
    BY <2>2, <2>3, <2>4 DEF FilesIInv, WritersHaveFiles
  <2>5. WritersHaveFiles'
    BY <2>1, <2>2, <2>3, <2>4 DEF FilesIInv, WritersHaveFiles
  <2> QED
    BY <2>1, <2>2, <2>5 DEF FilesIInv, NewIsThere, RowsHaveFiles
<1>3. ASSUME NEW t \in Tx, MarkWritten(t) \/ MarkReplaced(t) \/ MarkUnlinked(t) PROVE Had'
  <2>1. UNCHANGED <<rows, view, changed, late, exposed, files, Writers>>
    BY <1>3 DEF MarkWritten, MarkReplaced, MarkUnlinked, Writers
  <2>2. /\ \A u \in Tx \ {t} : op'[u] = op[u]
        /\ op'[t] = NoOp \/ (op'[t].att = op[t].att /\ op'[t].new = op[t].new)
    <3>1. CASE MarkWritten(t) \/ MarkReplaced(t)
      <4>1. PICK at : op' = [op EXCEPT ![t].at = at]
        BY <3>1 DEF MarkWritten, MarkReplaced, Step
      <4> QED
        BY <1>0, <4>1 DEF FilesTypeOK
    <3>2. CASE MarkUnlinked(t)
      <4>1. op' = [op EXCEPT ![t] = NoOp]
        BY <3>2 DEF MarkUnlinked
      <4>2. op'[t] = NoOp /\ \A u \in Tx \ {t} : op'[u] = op[u]
        BY <1>0, <4>1, OpStep
      <4> QED
        BY <4>2
    <3> QED
      BY <1>3, <3>1, <3>2
  <2>3. MarkUnlinked(t) => op[t].new = None
    BY DEF MarkUnlinked, FilesIInv, OpsAreWhole
  <2>4. op'[t] = NoOp => op[t].new = None
    BY <1>0, <1>3, <2>2, <2>3 DEF MarkWritten, MarkReplaced, Step, NoOp, FilesTypeOK
  <2> QED
    BY <2>1, <2>2, <2>4 DEF FilesIInv, WritersHaveFiles, NewIsThere, RowsHaveFiles, NoOp
<1>4. ASSUME NEW t \in Tx, Insert(t) \/ Update(t) PROVE Had'
  <2> DEFINE a == op[t].att
  <2>1. a \in Attachments /\ UNCHANGED <<rows, late, exposed, files>>
    BY <1>0, <1>4 DEF Insert, Update, OpsAreWhole
  <2>2. /\ \A u \in Tx \ {t} : op'[u] = op[u] /\ view'[u] = view[u] /\ changed'[u] = changed[u]
        /\ op'[t] = NoOp /\ changed'[t] = changed[t] \cup {a}
        /\ view'[t] = [view[t] EXCEPT ![a] = op[t].new]
    BY <1>0, <1>4 DEF Insert, Update, Changes, FilesTypeOK
  <2>3. op[t].new # None /\ a \notin late[t] => op[t].new \in files
    BY DEF FilesIInv, NewIsThere
  <2>4. ASSUME NEW b \in changed'[t] \ late'[t] PROVE view'[t][b] \in files \cup {None}
    <3>1. view[t] \in [Attachments -> Name] /\ b \in Attachments
      BY <1>0 DEF FilesTypeOK
    <3>2. CASE b = a
      BY <2>1, <2>2, <2>3, <2>4, <3>1, <3>2
    <3>3. CASE b # a
      BY <2>1, <2>2, <2>4, <3>1, <3>3 DEF FilesIInv, WritersHaveFiles
    <3> QED
      BY <3>2, <3>3
  <2>5. op'[t].new = None
    BY <2>2 DEF NoOp
  <2> HIDE DEF a
  <2> QED
    BY <2>1, <2>2, <2>4, <2>5, Others DEF FilesIInv
<1>5. ASSUME NEW t \in Tx, NEW a \in Attachments, Delete(t, a) PROVE Had'
  <2>1. UNCHANGED <<rows, late, exposed, files>>
    BY <1>5 DEF Delete
  <2>2. /\ \A u \in Tx \ {t} : op'[u] = op[u] /\ view'[u] = view[u] /\ changed'[u] = changed[u]
        /\ op'[t].new = None /\ changed'[t] = changed[t] \cup {a}
        /\ view'[t] = [view[t] EXCEPT ![a] = None]
    BY <1>0, <1>5 DEF Delete, Changes, FilesTypeOK
  <2>3. ASSUME NEW b \in changed'[t] \ late'[t] PROVE view'[t][b] \in files \cup {None}
    <3>1. view[t] \in [Attachments -> Name] /\ b \in Attachments
      BY <1>0 DEF FilesTypeOK
    <3>2. op[t].new = None
      BY <1>5 DEF Delete, NoOp
    <3> QED
      BY <2>1, <2>2, <2>3, <3>1, <3>2 DEF FilesIInv, WritersHaveFiles
  <2> QED
    BY <2>1, <2>2, <2>3, Others DEF FilesIInv
<1>6. ASSUME NEW t \in Tx, Commit(t) PROVE Had'
  <2>1. /\ op[t].new = None /\ UNCHANGED <<op, files>>
        /\ changed'[t] = {} /\ late'[t] = {}
        /\ \A u \in Tx \ {t} : changed'[u] = changed[u] /\ late'[u] = late[u]
        /\ \A u \in Tx \ {t} : changed[u] # {} => view'[u] = view[u]
    BY <1>0, <1>6 DEF Commit, FilesTypeOK, NoOp
  <2>2. \A u \in Tx \ {t} : u \in Writers => u \in Writers'
    BY <2>1 DEF Writers
  <2>3. WritersHaveFiles' /\ NewIsThere'
    BY <2>1, <2>2 DEF FilesIInv, WritersHaveFiles, NewIsThere
  <2>4. ASSUME NEW a \in Attachments, a \notin exposed' PROVE rows'[a] \in files' \cup {None}
    <3>1. rows'[a] = IF a \in changed[t] THEN view[t][a] ELSE rows[a]
      BY <1>6 DEF Commit
    <3>2. a \in changed[t] => a \notin late[t]
      BY <1>6, <2>4 DEF Commit
    <3>3. a \notin changed[t] => a \notin exposed
      BY <1>6, <2>4 DEF Commit
    <3> QED
      BY <2>1, <3>1, <3>2, <3>3 DEF FilesIInv, WritersHaveFiles, RowsHaveFiles
  <2> QED
    BY <2>3, <2>4 DEF RowsHaveFiles
<1>7. ASSUME NEW t \in Tx, Rollback(t) PROVE Had'
  <2>1. /\ UNCHANGED <<rows, exposed, files>> /\ op'[t].new = None /\ changed'[t] = {}
        /\ \A u \in Tx \ {t} : /\ op'[u] = op[u] /\ changed'[u] = changed[u]
                               /\ view'[u] = view[u] /\ late'[u] = late[u]
    BY <1>0, <1>7 DEF Rollback, FilesTypeOK, NoOp
  <2>2. \A u \in Tx \ {t} : u \in Writers => u \in Writers'
    BY <2>1 DEF Writers
  <2> QED
    BY <2>1, <2>2 DEF FilesIInv, WritersHaveFiles, NewIsThere, RowsHaveFiles
<1>8. CASE UNCHANGED filesVars
  BY <1>8 DEF filesVars, FilesIInv, WritersHaveFiles, NewIsThere, RowsHaveFiles, Writers
<1> QED
  BY <1>1, <1>2, <1>3, <1>4, <1>5, <1>6, <1>7, <1>8 DEF FilesNext, TxNext

(* Every step keeps that what a transaction has unlinked is on the          *)
(* checklist.                                                               *)
LEMMA MarksStep == ASSUME FilesIInv, [FilesNext]_filesVars PROVE GoneByWriters' /\ UnlinkedIsMarked'
<1> USE DEF FilesIInv, GoneByWriters, UnlinkedIsMarked
<1>1. CASE Gc
  <2>1. UNCHANGED <<gone, Writers>>
    BY <1>1, GcLeaves
  <2> QED
    BY <1>1, <2>1, GcKeeps
<1>2. ASSUME NEW t \in Tx, Commit(t) \/ Rollback(t) PROVE GoneByWriters' /\ UnlinkedIsMarked'
  <2>1. /\ gone'[t] = {} /\ UNCHANGED checklist
        /\ \A u \in Tx \ {t} : gone'[u] = gone[u] /\ changed'[u] = changed[u]
    BY <1>2 DEF Commit, Rollback, FilesTypeOK
  <2> QED
    BY <2>1 DEF Writers
<1>3. ASSUME NEW t \in Tx, MarkUnlinked(t) PROVE GoneByWriters' /\ UnlinkedIsMarked'
  <2>1. t \in Writers /\ Writers' = Writers
    BY <1>3 DEF MarkUnlinked, OpsAreWhole, Writers
  <2>2. /\ gone'[t] = gone[t] \cup {op[t].old} /\ checklist' = checklist \cup {op[t].old}
        /\ \A u \in Tx \ {t} : gone'[u] = gone[u]
    BY <1>3 DEF MarkUnlinked, FilesTypeOK
  <2> QED
    BY <2>1, <2>2
<1>4. ASSUME NEW t \in Tx, TxNext(t), ~Commit(t), ~Rollback(t), ~MarkUnlinked(t)
      PROVE  GoneByWriters' /\ UnlinkedIsMarked'
  <2>1. gone' = gone /\ checklist \subseteq checklist'
    BY <1>4 DEF TxNext, Delete, WriteFile, MarkWritten, Insert, MarkReplaced, Update
  <2>2. \A u \in Tx : u \in Writers => u \in Writers'
    BY <1>4, WritersStep DEF Writers
  <2> QED
    BY <2>1, <2>2
<1>5. CASE UNCHANGED filesVars
  BY <1>5 DEF filesVars, Writers
<1> QED
  BY <1>1, <1>2, <1>3, <1>4, <1>5 DEF FilesNext

-----------------------------------------------------------------------------

(* The invariant at the start.                                              *)
LEMMA FilesInitIInv == FilesInit => FilesIInv
<1> SUFFICES ASSUME FilesInit PROVE FilesIInv
  OBVIOUS
<1>1. Writers = {} /\ gc.at = "idle" /\ \A t \in Tx : op[t].at = "none" /\ op[t].new = None
  BY DEF FilesInit, GcIdle, NoOp, Writers
<1> QED
  BY <1>1, FilesTypeInit DEF FilesInit, FilesIInv, OpsAreWhole, LockExcludes, Locked, SelectedIsAll, WritersHaveFiles,
                        NewIsThere, RowsHaveFiles, GoneByWriters, UnlinkedIsMarked

(* The parts of the invariant, together.                                    *)
LEMMA FilesNextIInv == FilesIInv /\ [FilesNext]_filesVars => FilesIInv'
<1> SUFFICES ASSUME FilesIInv, [FilesNext]_filesVars PROVE FilesIInv'
  OBVIOUS
<1>1. FilesTypeOK' /\ OpsAreWhole'
  BY FilesTypeStep DEF FilesIInv
<1> QED
  BY <1>1, LockStep, FilesStep, MarksStep DEF FilesIInv, Had

(* The invariant holds in every reachable state, for any transactions,      *)
(* names and contents.                                                      *)
THEOREM FilesInductive == FilesSpec => []FilesIInv
BY FilesInitIInv, FilesNextIInv, PTL DEF FilesSpec

(* Every variable keeps its type, at each step of each operation.           *)
THEOREM FilesTypeCorrect == FilesSpec => []FilesTypeOK
<1>1. FilesIInv => FilesTypeOK
  BY DEF FilesIInv
<1> QED
  BY <1>1, FilesInductive, PTL

(* The collector takes no file from a row it could have seen.               *)
THEOREM FilesStay == FilesSpec => []RowsHaveFiles
<1>1. FilesIInv => RowsHaveFiles
  BY DEF FilesIInv
<1> QED
  BY <1>1, FilesInductive, PTL

(* The collector does not come between an unlink() and its commit.          *)
THEOREM MarksStay == FilesSpec => []UnlinkedIsMarked
<1>1. FilesIInv => UnlinkedIsMarked
  BY DEF FilesIInv
<1> QED
  BY <1>1, FilesInductive, PTL

(* While the collector has the table no committed row changes: what it      *)
(* selected is what there is.                                               *)
LockFreezesRows == [][ Locked => rows' = rows ]_filesVars

(* No committed row changes while the collector holds the lock of the       *)
(* table.                                                                   *)
THEOREM RowsFrozen == FilesSpec => LockFreezesRows
<1>1. ASSUME FilesIInv, [FilesNext]_filesVars PROVE Locked => rows' = rows
  <2>1. CASE Gc
    BY <2>1, GcLeaves
  <2>2. CASE UNCHANGED filesVars
    BY <2>2 DEF filesVars
  <2> QED
    BY <1>1, <2>1, <2>2, LockedStep DEF FilesNext, FilesIInv
<1> QED
  BY <1>1, FilesInductive, PTL DEF FilesSpec, LockFreezesRows
===============================================================================
