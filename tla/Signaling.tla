------------------------------- MODULE Signaling -------------------------------
(***************************************************************************)
(* How worker processes keep their in-memory copies of the database up to  *)
(* date (odoo/modules/registry.py): each process has a Registry with the   *)
(* model definitions and an ormcache.  Two PostgreSQL sequences count the  *)
(* changes of the one and of the other; a request compares them with the   *)
(* numbers its process recorded (check_signaling), and a request that      *)
(* changed something increments one and records the result                 *)
(* (signal_changes).                                                       *)
(*                                                                         *)
(* The three callers finish in different orders: an HTTP request commits   *)
(* and then signals (http.py, WebRequest.__exit__), an RPC call does the   *)
(* same under manage_changes() (service/model.py, dispatch), a cron job    *)
(* signals first and its cursor is committed later (ir_cron.py).           *)
(*                                                                         *)
(* Transactions read from a snapshot (REPEATABLE READ).  Every write has a *)
(* number of its own, so that an aborted value is told from a later one.   *)
(***************************************************************************)
EXTENDS Naturals, FiniteSets

CONSTANTS Proc,       \* processes, one Registry each
          Thread,     \* threads that handle requests
          procOf,     \* the process of each thread
          Key,        \* data cached by the ormcache
          Def,        \* the model definitions, held by the registry itself
          MayModify,  \* what the requests of each thread may change
          Callers,    \* whom the threads may work for: http, rpc or cron
          Faults,     \* the faults that occur: retry, commit
          MaxWrites   \* bound on the number of writes

Item == Key \cup {Def}

(* A request keeps using the Registry object it started with when another   *)
(* thread reloads it; that is modelled for processes with one thread only.  *)
ASSUME SignalingAssumption ==
    /\ procOf \in [Thread -> Proc]
    /\ Def \notin Key
    /\ MayModify \in [Thread -> SUBSET Item]
    /\ Callers \subseteq [Thread -> {"http", "rpc", "cron"}]
    /\ Faults \subseteq {"retry", "commit"}
    /\ MaxWrites \in Nat
    /\ (\E t, u \in Thread : t # u /\ procOf[t] = procOf[u])
         => \A t \in Thread : Def \notin MayModify[t]

VARIABLES
    db,      \* the committed version of each item
    stamp,   \* number of the latest write
    signal,  \* last_value of base_registry_signaling and base_cache_signaling
    own,     \* registry_sequence and cache_sequence of each process
    local,   \* what each process holds of each item, 0 when not cached
    pc,      \* where each thread is in its request
    seen,    \* the sequences check_signaling() read
    snap,    \* the snapshot of the open transaction
    wrote,   \* its uncommitted writes
    flag,    \* registry_invalidated, cache_invalidated (thread-local)
    caller   \* whom each thread works for, always the same

vars == <<db, stamp, signal, own, local, pc, seen, snap, wrote, flag, caller>>

Ver == 0..(MaxWrites + 1)

Signals == [reg : Nat, cache : Nat]

Nothing == [i \in Item |-> 0]

TypeOK ==
    /\ db \in [Item -> Ver \ {0}]
    /\ stamp \in Ver \ {0}
    /\ signal \in Signals
    /\ own \in [Proc -> Signals]
    /\ local \in [Proc -> [Item -> Ver]]
    /\ \A p \in Proc : local[p][Def] # 0
    /\ pc \in [Thread -> {"idle", "begun", "checking", "running", "committed", "signalled"}]
    /\ seen \in [Thread -> Signals]
    /\ snap \in [Thread -> [Item -> Ver]]
    /\ wrote \in [Thread -> [Item -> Ver]]
    /\ flag \in [Thread -> SUBSET {"reg", "cache"}]
    /\ caller \in Callers

Start == [reg |-> 1, cache |-> 1]

Init ==
    /\ db = [i \in Item |-> 1]
    /\ stamp = 1
    /\ signal = Start
    /\ own = [p \in Proc |-> Start]
    /\ local = [p \in Proc |-> [i \in Item |-> IF i = Def THEN 1 ELSE 0]]
    /\ pc = [t \in Thread |-> "idle"]
    /\ seen = [t \in Thread |-> Start]
    /\ snap = [t \in Thread |-> Nothing]
    /\ wrote = [t \in Thread |-> Nothing]
    /\ flag = [t \in Thread |-> {}]
    /\ caller \in Callers

Goto(t, here, there) == pc[t] = here /\ pc' = [pc EXCEPT ![t] = there]

InTransaction(t) == snap[t] # Nothing

(* what t's transaction reads *)
View(t, i) == IF wrote[t][i] # 0 THEN wrote[t][i] ELSE snap[t][i]

(* the cache emptied, with the definitions at version v *)
Emptied(v) == [i \in Item |-> IF i = Def THEN v ELSE 0]

EndTransaction(t) ==
    /\ snap' = [snap EXCEPT ![t] = Nothing]
    /\ wrote' = [wrote EXCEPT ![t] = Nothing]

-----------------------------------------------------------------------------
(* A request starts.  _process_job() reads the time zone of the job's user  *)
(* with the job's cursor: a cron transaction has its snapshot before         *)
(* check_signaling() is called.                                             *)
StartRequest(t) ==
    /\ Goto(t, "idle", "begun")
    /\ snap' = [snap EXCEPT ![t] = IF caller[t] = "cron" THEN db ELSE Nothing]
    /\ UNCHANGED <<db, stamp, signal, own, local, seen, wrote, flag>>

(* check_signaling(): the SELECT, which sees the sequences as they are now *)
Check(t) ==
    /\ Goto(t, "begun", "checking")
    /\ seen' = [seen EXCEPT ![t] = signal]
    /\ UNCHANGED <<db, stamp, signal, own, local, snap, wrote, flag>>

(* the flags after a cache clear that bypasses clear_caches() *)
Unflagged_AsClearCaches(t) == [flag EXCEPT ![t] = @ \cup {"cache"}]

Unflagged(t) == flag

(* check_signaling(): a new Registry, whose flags nobody has set, or an     *)
(* empty cache; then the numbers that were read.                            *)
Apply(t) ==
    LET p == procOf[t] IN
    /\ Goto(t, "checking", "running")
    /\ \/ /\ own[p].reg # seen[t].reg
          /\ local' = [local EXCEPT ![p] = Emptied(db[Def])]
          /\ flag' = [u \in Thread |-> IF procOf[u] = p THEN {} ELSE flag[u]]
       \/ /\ own[p].reg = seen[t].reg /\ own[p].cache # seen[t].cache
          /\ local' = [local EXCEPT ![p] = Emptied(@[Def])]
          /\ flag' = Unflagged(t)
       \/ /\ own[p] = seen[t]
          /\ UNCHANGED <<local, flag>>
    /\ own' = [own EXCEPT ![p] = seen[t]]
    /\ seen' = [seen EXCEPT ![t] = Start]    \* local variables, dead from here
    /\ UNCHANGED <<db, stamp, signal, snap, wrote>>

(* The first statement of the transaction takes its snapshot. *)
Begin(t) ==
    /\ pc[t] = "running"
    /\ ~InTransaction(t)
    /\ snap' = [snap EXCEPT ![t] = db]
    /\ UNCHANGED <<db, stamp, signal, own, local, pc, seen, wrote, flag>>

(* ormcache lookup of a missing key *)
Load(t, i) ==
    /\ pc[t] = "running"
    /\ InTransaction(t)
    /\ local[procOf[t]][i] = 0
    /\ local' = [local EXCEPT ![procOf[t]][i] = View(t, i)]
    /\ UNCHANGED <<db, stamp, signal, own, pc, seen, snap, wrote, flag>>

(* An UPDATE with what the models do with it: clear_caches() for cached     *)
(* data, setup_models() for definitions.  It waits for the row lock of      *)
(* another writer and fails when the row changed since the snapshot.        *)
Modify(t, i) ==
    /\ pc[t] = "running"
    /\ InTransaction(t)
    /\ stamp <= MaxWrites
    /\ \A u \in Thread \ {t} : wrote[u][i] = 0
    /\ snap[t][i] = db[i]
    /\ stamp' = stamp + 1
    /\ wrote' = [wrote EXCEPT ![t][i] = stamp + 1]
    /\ local' = [local EXCEPT ![procOf[t]] =
                    Emptied(IF i = Def THEN stamp + 1 ELSE @[Def])]
    /\ flag' = [flag EXCEPT ![t] = @ \cup {IF i = Def THEN "reg" ELSE "cache"}]
    /\ UNCHANGED <<db, signal, own, pc, seen, snap>>

Commit(t) ==
    /\ IF caller[t] = "cron" THEN Goto(t, "signalled", "idle") ELSE Goto(t, "running", "committed")
    /\ db' = [i \in Item |-> IF wrote[t][i] # 0 THEN wrote[t][i] ELSE db[i]]
    /\ EndTransaction(t)
    /\ UNCHANGED <<stamp, signal, own, local, seen, flag>>

(* which sequence signal_changes() increments: at most one *)
Bumped_CacheFirst(t) ==
    IF "cache" \in flag[t] THEN {"cache"} ELSE flag[t]

Bumped(t) == IF "reg" \in flag[t] THEN {"reg"} ELSE flag[t]

Signal(t) ==
    /\ IF caller[t] = "cron" THEN Goto(t, "running", "signalled") ELSE Goto(t, "committed", "idle")
    /\ signal' = [s \in {"reg", "cache"} |->
                    IF s \in Bumped(t) THEN signal[s] + 1 ELSE signal[s]]
    /\ own' = [own EXCEPT ![procOf[t]] =
                    [s \in {"reg", "cache"} |-> IF s \in Bumped(t) THEN signal'[s] ELSE @[s]]]
    /\ flag' = [flag EXCEPT ![t] = {}]
    /\ UNCHANGED <<db, stamp, local, seen, snap, wrote>>

(* _process_job(): a missed call is made up for in the same transaction *)
NextCallback(t) ==
    /\ caller[t] = "cron"
    /\ Goto(t, "signalled", "begun")
    /\ UNCHANGED <<db, stamp, signal, own, local, seen, snap, wrote, flag>>

(* reset_changes() *)
Reset(t) ==
    LET p == procOf[t] IN
    /\ local' = [local EXCEPT ![p] =
                    IF "reg" \in flag[t] THEN Emptied(db[Def])
                    ELSE IF "cache" \in flag[t] THEN Emptied(@[Def])
                    ELSE @]
    /\ flag' = [flag EXCEPT ![t] = {}]

(* The handler raises: everything is undone.  A cron job is then done with  *)
(* this call, and its cursor is committed as after a successful one.        *)
Abort(t) ==
    /\ Goto(t, "running", IF caller[t] = "cron" THEN "signalled" ELSE "idle")
    /\ Reset(t)
    /\ EndTransaction(t)
    /\ UNCHANGED <<db, stamp, signal, own, seen>>

(* The COMMIT raises.  manage_changes() is around the commit of an RPC      *)
(* call; the other two have nothing around theirs.                          *)
CommitRaises(t) ==
    /\ "commit" \in Faults
    /\ IF caller[t] = "cron" THEN Goto(t, "signalled", "idle") ELSE Goto(t, "running", "idle")
    /\ IF caller[t] = "rpc" THEN Reset(t) ELSE UNCHANGED <<local, flag>>
    /\ EndTransaction(t)
    /\ UNCHANGED <<db, stamp, signal, own, seen>>

(* check(): a serialization failure, a deadlock or a lock that is not       *)
(* available starts the call over in a new transaction.                     *)
Retry(t) ==
    /\ "retry" \in Faults
    /\ pc[t] = "running"
    /\ caller[t] # "cron"
    /\ InTransaction(t)
    /\ EndTransaction(t)
    /\ UNCHANGED <<db, stamp, signal, own, local, pc, seen, flag>>

Next == UNCHANGED caller /\
    \E t \in Thread :
        \/ StartRequest(t)
        \/ Check(t)
        \/ Apply(t)
        \/ Begin(t)
        \/ \E i \in Key : Load(t, i)
        \/ \E i \in MayModify[t] : Modify(t, i)
        \/ Commit(t)
        \/ Signal(t)
        \/ NextCallback(t)
        \/ Abort(t)
        \/ CommitRaises(t)
        \/ Retry(t)

Spec == Init /\ [][Next]_vars

-----------------------------------------------------------------------------
Fresh(p) ==
    /\ local[p][Def] = db[Def]
    /\ \A i \in Key : local[p][i] \in {0, db[i]}

(* Processes that never signal themselves, and whose transactions start     *)
(* after the check. *)
Readers == { p \in Proc : \A t \in Thread : procOf[t] = p => MayModify[t] = {} /\ caller[t] # "cron" }

(* A process that only reads, and has recorded the current numbers, holds   *)
(* nothing older than what was committed: whatever the writers' retries,    *)
(* aborts and interleavings, as long as none is between COMMIT and signal.  *)
ReadersFresh ==
    (\A t \in Thread : pc[t] # "committed")
        => \A p \in Readers : own[p] = signal => Fresh(p)

(* check_signaling() "Return[s] an up-to-date registry": between requests,  *)
(* a process that would find nothing to do holds nothing but what was       *)
(* committed.                                                               *)
UpToDate ==
    (\A t \in Thread : pc[t] = "idle")
        => \A p \in Proc : own[p] = signal => Fresh(p)

(* No invalidation causes another one: there are never more signals than    *)
(* writes (the comment in check_signaling() on invalidation loops).         *)
NoInvalidationLoop == signal.reg + signal.cache - 2 <= stamp - 1
=============================================================================
