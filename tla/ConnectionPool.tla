---------------------------- MODULE ConnectionPool ----------------------------
(***************************************************************************)
(* The pool of PostgreSQL connections and the cursors that borrow from it  *)
(* (odoo/sql_db.py, classes Cursor and ConnectionPool).                    *)
(*                                                                         *)
(* ConnectionPool's methods run under one lock, so each is one step.  The  *)
(* cursor's own code does not: between the rollback of _close() and the    *)
(* give_back() it ends with, another thread may run close_all(), the       *)
(* server may drop the connection, or the garbage collector may run the    *)
(* __del__ of a cursor nobody closed.                                      *)
(*                                                                         *)
(* A definition named X_Variant is X with a mistake in it: the checks       *)
(* replace X by it to see that the property it is there for notices.       *)
(*                                                                         *)
(* The list _connections of pairs (cnx, used) is kept as the set `slots`,  *)
(* the set `inUse` of those whose second component is True, and the        *)
(* relation `before` that orders them as in the list.                      *)
(***************************************************************************)
EXTENDS Naturals, FiniteSets

CONSTANTS Conn,     \* connection objects (psycopg2 connections)
          Dsn,      \* connection parameters, one value per database
          Kept,     \* the databases whose connections are kept once given back
          Cursor,   \* threads, each with at most one cursor at a time
          MaxConn,  \* db_maxconn
          NoConn    \* "no connection"

ASSUME PoolAssumption ==
    /\ MaxConn \in Nat \ {0}        \* max(maxconn, 1)
    /\ Kept \subseteq Dsn /\ Dsn # {}
    /\ NoConn \notin Conn

ASSUME CursorAssumption == IsFiniteSet(Cursor)   \* the threads of a process

VARIABLES
    slots,    \* connections in _connections
    inUse,    \* those marked as used
    before,   \* <<a, b>> : a is before b in _connections
    dsnOf,    \* cnx._original_dsn
    closed,   \* connections whose client side is closed (cnx.closed)
    broken,   \* connections the server dropped, the client does not know yet
    leaked,   \* connections with the attribute `leaked`
    dirty,    \* connections with an open transaction
    cur,      \* what became of each thread's cursor
    held      \* the connection of each cursor object (_cnx)

vars == <<slots, inUse, before, dsnOf, closed, broken, leaked, dirty, cur, held>>

(* none: no cursor object that will still act on the pool.  opening:        *)
(* borrow() returned, __init__ goes on.  closing: _close() did its          *)
(* rollback and is about to give back.  exited: a with block was left by an *)
(* exception of its commit.  lost: no reference left, not collected yet.    *)
CursorState == {"none", "opening", "open", "closing", "exited", "lost"}

TypeOK ==
    /\ slots \subseteq Conn
    /\ inUse \subseteq slots
    /\ before \subseteq slots \X slots
    /\ dsnOf \in [Conn -> Dsn]
    /\ closed \subseteq Conn
    /\ broken \subseteq Conn
    /\ leaked \subseteq Conn
    /\ dirty \subseteq Conn
    /\ cur \in [Cursor -> CursorState]
    /\ held \in [Cursor -> Conn \cup {NoConn}]
    /\ \A k \in Cursor : cur[k] # "none" => held[k] \in Conn

Init ==
    /\ slots = {}
    /\ inUse = {}
    /\ before = {}
    /\ dsnOf = [c \in Conn |-> CHOOSE d \in Dsn : TRUE]
    /\ closed = Conn
    /\ broken = {}
    /\ leaked = {}
    /\ dirty = {}
    /\ cur = [k \in Cursor |-> "none"]
    /\ held = [k \in Cursor |-> NoConn]

Live(k) == cur[k] # "none"

Usable(c) == c \notin closed /\ c \notin broken

-----------------------------------------------------------------------------
(* borrow() starts by a sweep: closed connections leave the list, leaked    *)
(* ones lose their mark and are appended again, unused.  The sweep walks    *)
(* the list backwards, so freed connections end up in reverse order.        *)

Alive_ClosedStay == slots

Alive == slots \ closed

Freed == Alive \cap leaked

SweptUsed_StillUsed == inUse \cap Alive

SweptUsed == (inUse \cap Alive) \ Freed

SweptLeaked_MarkStays == leaked

SweptLeaked == leaked \ Freed

Swept ==
    { p \in Alive \X Alive :
        \/ p \in before /\ p[1] \notin Freed /\ p[2] \notin Freed
        \/ p[1] \notin Freed /\ p[2] \in Freed
        \/ <<p[2], p[1]>> \in before /\ p[1] \in Freed /\ p[2] \in Freed }

Idle_UsedToo == Alive

Idle == Alive \ SweptUsed

IdleFor(d) == { c \in Idle : dsnOf[c] = d }

(* c is the first element of S in the list after the sweep *)
First(c, S) == c \in S /\ \A b \in S \ {c} : <<c, b>> \in Swept

(* the order once c has been popped, or appended at the end *)
Without(order, S) == { p \in order : p[1] \notin S /\ p[2] \notin S }

AppendedTo(order, S, c) == Without(order, {c}) \cup ((S \ {c}) \X {c})

(* A connection object nobody refers to: psycopg2.connect() makes a new one. *)
Fresh(c) ==
    /\ c \in Conn
    /\ \A k \in Cursor : Live(k) => held[k] # c

Lend(k, c) ==
    /\ cur' = [cur EXCEPT ![k] = "opening"]
    /\ held' = [held EXCEPT ![k] = c]

(* An unused connection to the same database: those whose reset() fails are *)
(* closed on the way and stay in the list.                                  *)
Reuse(k, d) ==
    /\ cur[k] = "none"
    /\ \E c \in IdleFor(d) :
          /\ First(c, IdleFor(d) \ broken)
          /\ LET failed == { b \in IdleFor(d) \cap broken : <<b, c>> \in Swept }
             IN  closed' = closed \cup failed
          /\ slots' = Alive
          /\ inUse' = SweptUsed \cup {c}
          /\ before' = AppendedTo(Swept, Alive, c)
          /\ leaked' = SweptLeaked
          /\ dirty' = dirty \ {c}
          /\ Lend(k, c)
    /\ UNCHANGED <<dsnOf, broken>>

(* Room for one more: nothing to do below the limit, otherwise the oldest   *)
(* unused connection is removed and closed.                                 *)
MakesRoom_OffByOne(out) ==
    \/ /\ Cardinality(Alive) <= MaxConn
       /\ out = {}
    \/ /\ Cardinality(Alive) > MaxConn
       /\ \E v \in Idle : First(v, Idle) /\ out = {v}

MakesRoom(out) ==
    \/ /\ Cardinality(Alive) < MaxConn
       /\ out = {}
    \/ /\ Cardinality(Alive) >= MaxConn
       /\ \E v \in Idle : First(v, Idle) /\ out = {v}

NoReuse(d) == IdleFor(d) \subseteq broken

Connect(k, d) ==
    /\ cur[k] = "none"
    /\ NoReuse(d)
    /\ \E out \in SUBSET Idle, c \in Conn :
          /\ MakesRoom(out)
          /\ c \notin Alive \ out
          /\ Fresh(c)
          /\ slots' = (Alive \ out) \cup {c}
          /\ inUse' = (SweptUsed \ {c}) \cup {c}
          /\ before' = AppendedTo(Without(Swept, out), Alive \ out, c)
          /\ closed' = (closed \cup IdleFor(d) \cup out) \ {c}
          /\ broken' = broken \ {c}
          /\ leaked' = SweptLeaked \ {c}
          /\ dirty' = dirty \ (out \cup IdleFor(d) \cup {c})
          /\ dsnOf' = [dsnOf EXCEPT ![c] = d]
          /\ Lend(k, c)

(* psycopg2.connect() raises: the sweep and the eviction have been done. *)
ConnectFails(k, d) ==
    /\ cur[k] = "none"
    /\ NoReuse(d)
    /\ \E out \in SUBSET Idle :
          /\ MakesRoom(out)
          /\ slots' = Alive \ out
          /\ inUse' = SweptUsed
          /\ before' = Without(Swept, out)
          /\ closed' = closed \cup IdleFor(d) \cup out
          /\ leaked' = SweptLeaked
          /\ dirty' = dirty \ (out \cup IdleFor(d))
    /\ UNCHANGED <<dsnOf, broken, cur, held>>

(* PoolError('The Connection Pool Is Full') *)
IsFull == Cardinality(Alive) >= MaxConn /\ Idle = {}

PoolFull(k) ==
    /\ cur[k] = "none"
    /\ IsFull
    /\ slots' = Alive
    /\ inUse' = SweptUsed
    /\ before' = Swept
    /\ leaked' = SweptLeaked
    /\ UNCHANGED <<dsnOf, closed, broken, dirty, cur, held>>

Borrow(k, d) == Reuse(k, d) \/ Connect(k, d) \/ ConnectFails(k, d)

-----------------------------------------------------------------------------
AfterRollback_Skipped(c) == dirty

(* _cnx.rollback() in _close() *)
AfterRollback(c) == dirty \ {c}

(* Cursor.__init__ after borrow(): _cnx.cursor() raises when close_all()    *)
(* got there first; the half-made cursor is then dropped with _closed True, *)
(* so that __del__ does nothing.                                            *)
InitDone(k) ==
    /\ cur[k] = "opening"
    /\ cur' = [cur EXCEPT ![k] = IF held[k] \in closed THEN "none" ELSE "open"]
    /\ UNCHANGED <<slots, inUse, before, dsnOf, closed, broken, leaked, dirty, held>>

(* Any use of a connection the server dropped raises and closes it; on a    *)
(* usable one it opens a transaction (isolation is never autocommit here).  *)
Execute(k) ==
    /\ cur[k] = "open"
    /\ IF Usable(held[k])
       THEN dirty' = dirty \cup {held[k]} /\ closed' = closed
       ELSE dirty' = dirty /\ closed' = closed \cup {held[k]}
    /\ UNCHANGED <<slots, inUse, before, dsnOf, broken, leaked, cur, held>>

(* commit() or rollback(), both of which end the transaction *)
EndTransaction(k) ==
    /\ cur[k] = "open"
    /\ Usable(held[k])
    /\ dirty' = dirty \ {held[k]}
    /\ UNCHANGED <<slots, inUse, before, dsnOf, closed, broken, leaked, cur, held>>

(* __exit__ of a block left normally calls commit() and, if that raises     *)
(* (a flush, the COMMIT itself or a commit hook, which runs after it), does *)
(* not reach close().                                                       *)
ExitCommitRaises(k) ==
    /\ cur[k] = "open"
    /\ cur' = [cur EXCEPT ![k] = "exited"]
    /\ IF Usable(held[k])
       THEN dirty' \in {dirty, dirty \ {held[k]}} /\ closed' = closed
       ELSE dirty' = dirty /\ closed' = closed \cup {held[k]}
    /\ UNCHANGED <<slots, inUse, before, dsnOf, broken, leaked, held>>

(* The last reference to a cursor goes away without close(). *)
Forget(k) ==
    /\ cur[k] \in {"open", "exited"}
    /\ cur' = [cur EXCEPT ![k] = "lost"]
    /\ UNCHANGED <<slots, inUse, before, dsnOf, closed, broken, leaked, dirty, held>>

(* _close(): the cursor is marked closed, then the connection is rolled     *)
(* back.  When the rollback raises, give_back() is not reached.             *)
CloseCursor(k) ==
    /\ cur[k] = "open"
    /\ IF Usable(held[k])
       THEN /\ cur' = [cur EXCEPT ![k] = "closing"]
            /\ dirty' = AfterRollback(held[k])
            /\ closed' = closed
       ELSE /\ cur' = [cur EXCEPT ![k] = "none"]
            /\ closed' = closed \cup {held[k]}
            /\ dirty' = dirty
    /\ UNCHANGED <<slots, inUse, before, dsnOf, broken, leaked, held>>

(* give_back(): by identity; PoolError when close_all() removed it. *)
GiveBack(k) ==
    /\ cur[k] = "closing"
    /\ cur' = [cur EXCEPT ![k] = "none"]
    /\ LET c == held[k] IN
       \/ /\ c \in slots /\ dsnOf[c] \in Kept
          /\ inUse' = inUse \ {c}
          /\ before' = AppendedTo(before, slots, c)
          /\ UNCHANGED <<slots, closed>>
       \/ /\ c \in slots /\ dsnOf[c] \notin Kept
          /\ slots' = slots \ {c}
          /\ inUse' = inUse \ {c}
          /\ before' = Without(before, {c})
          /\ closed' = closed \cup {c}
       \/ /\ c \notin slots
          /\ UNCHANGED <<slots, inUse, before, closed>>
    /\ UNCHANGED <<dsnOf, broken, leaked, dirty, held>>

(* __del__ of a cursor that was not closed: rollback, then the mark.  The   *)
(* collector takes no lock.                                                 *)
Collect(k) ==
    /\ cur[k] = "lost"
    /\ cur' = [cur EXCEPT ![k] = "none"]
    /\ IF Usable(held[k])
       THEN /\ leaked' = leaked \cup {held[k]}
            /\ dirty' = AfterRollback(held[k])
            /\ closed' = closed
       ELSE /\ closed' = closed \cup {held[k]}
            /\ UNCHANGED <<leaked, dirty>>
    /\ UNCHANGED <<slots, inUse, before, dsnOf, broken, held>>

(* close_db(name) and close_all(): used or not, every connection to the     *)
(* databases D is closed and removed.                                       *)
CloseAll(D) ==
    LET S == { c \in slots : dsnOf[c] \in D } IN
    /\ S # {}
    /\ slots' = slots \ S
    /\ inUse' = inUse \ S
    /\ before' = Without(before, S)
    /\ closed' = closed \cup S
    /\ dirty' = dirty \ S
    /\ UNCHANGED <<dsnOf, broken, leaked, cur, held>>

(* The server restarts or terminates a backend; its transaction is gone. *)
ServerDrop(c) ==
    /\ c \notin closed
    /\ c \notin broken
    /\ broken' = broken \cup {c}
    /\ dirty' = dirty \ {c}
    /\ UNCHANGED <<slots, inUse, before, dsnOf, closed, leaked, cur, held>>

Next ==
    \/ \E k \in Cursor :
         \/ \E d \in Dsn : Reuse(k, d) \/ Connect(k, d) \/ ConnectFails(k, d)
         \/ PoolFull(k)
         \/ InitDone(k)
         \/ Execute(k)
         \/ EndTransaction(k)
         \/ ExitCommitRaises(k)
         \/ Forget(k)
         \/ CloseCursor(k)
         \/ GiveBack(k)
         \/ Collect(k)
    \/ \E d \in Dsn : CloseAll({d})
    \/ CloseAll(Dsn)
    \/ \E c \in Conn : ServerDrop(c)

Spec == Init /\ [][Next]_vars

-----------------------------------------------------------------------------
(* Two cursors that are still going to use their connection never have the  *)
(* same one, whatever the order of sweeps, drops and collections.           *)
ExclusiveLending ==
    \A k, l \in Cursor : k # l /\ Live(k) /\ Live(l) => held[k] # held[l]

(* A connection that a cursor still owns is, as long as it is in the list,  *)
(* marked used and not leaked: the next borrow() can neither lend it nor    *)
(* evict it.                                                                *)
LentStaysLent ==
    \A k \in Cursor :
        Live(k) /\ held[k] \in slots => held[k] \in inUse /\ held[k] \notin leaked

(* The list never grows beyond db_maxconn. *)
PoolBounded == Cardinality(slots) <= MaxConn

(* A connection waiting in the pool, or about to be put back there by the   *)
(* sweep, is not inside a transaction: no lock and no snapshot outlives the *)
(* cursor that opened it.                                                   *)
NoIdleTransaction ==
    \A c \in slots : c \notin closed /\ (c \notin inUse \/ c \in leaked) => c \notin dirty

(* No slot is lost for good: one marked used has a cursor that will return  *)
(* it, or the next borrow() will take it back.                              *)
NoOrphanSlot ==
    \A c \in inUse :
        \/ c \in closed \cup leaked
        \/ \E k \in Cursor : Live(k) /\ held[k] = c

(* "The Connection Pool Is Full" is raised only when MaxConn cursors are    *)
(* still to give their connection back.                                     *)
FullOnlyIfBusy ==
    IsFull => Cardinality({k \in Cursor : Live(k)}) >= MaxConn

(* borrow() never takes a connection from its cursor: as long as nobody     *)
(* calls close_all(), a live cursor's slot stays.                           *)
OnlyIdleEvicted ==
    [][ \A k \in Cursor, d \in Dsn :
          Borrow(k, d) =>
            \A l \in Cursor \ {k} :
              Live(l) /\ held[l] \in slots \ closed
                => held[l] \in slots' \ closed' ]_vars

(* A comment of __exit__: the cursor of a with block is closed in any case. *)
ClosedInAnyCase == \A k \in Cursor : cur[k] # "exited"
=============================================================================
