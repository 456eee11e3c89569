--------------------------------- MODULE Cron ---------------------------------
(***************************************************************************)
(* Scheduled actions (odoo/addons/base/models/ir_cron.py): cron threads or *)
(* processes poll the table ir_cron for the jobs that are due, and then,   *)
(* job by job, lock the row (FOR UPDATE NOWAIT), run the missed calls in a *)
(* transaction of their own, and update and unlock the row in the end.     *)
(*                                                                         *)
(* A worker keeps the rows as its poll read them: the locked row decides   *)
(* whether the job still runs, the old one what is run and written.        *)
(*                                                                         *)
(* Time is counted in intervals of the jobs.  A call is known by its slot, *)
(* the nextcall it was due at.                                             *)
(***************************************************************************)
EXTENDS Integers, FiniteSets

CONSTANTS Worker,     \* cron threads and processes
          Job,
          NoOne,      \* no lock
          Priority,   \* priority of each job, lowest first
          MayDoAll,   \* the jobs that may have doall
          Number,     \* initial numbercall, -1 for no limit
          MaxFail,    \* MAX_FAIL_TIME
          MaxTime,    \* bound on the clock
          MaxCrashes, \* bound on the crashes, failed commits and failed flushes
          MaxToggles, \* bound on the number of edits by users
          MaxOps      \* bound on the number of module operations

ASSUME CronAssumption ==
    /\ NoOne \notin Worker \cup Job
    /\ Priority \in [Job -> Nat]
    /\ MayDoAll \subseteq Job
    /\ Number \in [Job -> Int]
    /\ \A j \in Job : Number[j] >= -1 /\ Number[j] # 0
    /\ {MaxFail, MaxTime, MaxCrashes, MaxToggles, MaxOps} \subseteq Nat

VARIABLES
    now,      \* the clock of the database and of the workers
    row,      \* the committed rows: nextcall, numbercall, active, doall
    holder,   \* who holds the lock of each row
    todo,     \* jobs each worker has still to look at
    read,     \* the rows as its poll read them
    pc,       \* poll, next (between jobs), run, save
    mine,     \* local variables of _process_job()
    work,     \* slots whose effects are in the job's open transaction
    kept,     \* slots whose effects were committed
    tried,    \* slots whose call was made
    raised,   \* slots whose latest call raised
    calls,    \* committed calls of each job
    states,   \* whether some module is to install, upgrade or remove
    op,       \* what became of the latest module operation
    crashes, toggles, ops   \* counters of the bounds

jobs == <<row, holder, todo, read, pc, mine, work, kept, tried, raised, calls>>
modules == <<states, op, ops>>
vars == <<now, jobs, modules, crashes, toggles>>

Slot == 0..(MaxTime + 1)
Row == [next : Slot, left : Int, active : BOOLEAN, doall : BOOLEAN]
Locals == [now : 0..MaxTime, next : Slot, left : Int, doall : BOOLEAN, ok : BOOLEAN, job : Job \cup {NoOne}]
Idling == [now |-> 0, next |-> 0, left |-> 0, doall |-> FALSE, ok |-> FALSE, job |-> NoOne]

TypeOK ==
    /\ now \in 0..MaxTime
    /\ row \in [Job -> Row]
    /\ holder \in [Job -> Worker \cup {NoOne}]
    /\ todo \in [Worker -> SUBSET Job]
    /\ read \in [Worker -> [Job -> Row]]
    /\ pc \in [Worker -> {"poll", "next", "run", "save"}]
    /\ mine \in [Worker -> Locals]
    /\ work \in [Worker -> SUBSET Slot]
    /\ {kept, tried, raised} \subseteq [Job -> SUBSET Slot]
    /\ calls \in [Job -> Nat]
    /\ states \in {"settled", "pending"}
    /\ op \in {"none", "loading", "failed"}
    /\ {crashes, toggles, ops} \subseteq Nat
    /\ \A w \in Worker : pc[w] \in {"run", "save"} <=> mine[w].job # NoOne
    /\ \A w \in Worker : todo[w] = {} => pc[w] = "poll"

FirstRow(all) ==
    [j \in Job |-> [next |-> 0, left |-> Number[j], active |-> TRUE, doall |-> j \in all]]

Init ==
    /\ now = 0
    /\ \E all \in SUBSET MayDoAll : row = FirstRow(all)
    /\ holder = [j \in Job |-> NoOne]
    /\ todo = [w \in Worker |-> {}]
    /\ read = [w \in Worker |-> row]
    /\ pc = [w \in Worker |-> "poll"]
    /\ mine = [w \in Worker |-> Idling]
    /\ work = [w \in Worker |-> {}]
    /\ kept = [j \in Job |-> {}]
    /\ tried = [j \in Job |-> {}]
    /\ raised = [j \in Job |-> {}]
    /\ calls = [j \in Job |-> 0]
    /\ states = "settled"
    /\ op = "none"
    /\ crashes = 0 /\ toggles = 0 /\ ops = 0

-----------------------------------------------------------------------------
(* WHERE numbercall != 0 AND active AND nextcall <= now *)
Due_AnyState(j) == row[j].left # 0 /\ row[j].next <= now

Due(j) == row[j].left # 0 /\ row[j].active /\ row[j].next <= now

DueJobs == { j \in Job : Due(j) }

(* the oldest nextcall, taken as the sign of a module operation that failed *)
Stuck == \E j \in DueJobs : now - row[j].next > MaxFail

(* After a job, or without one: on to the next. *)
Leave(w, j) ==
    /\ todo' = [todo EXCEPT ![w] = @ \ {j}]
    /\ pc' = [pc EXCEPT ![w] = IF todo[w] \subseteq {j} THEN "poll" ELSE "next"]
    /\ mine' = [mine EXCEPT ![w] = Idling]
    /\ work' = [work EXCEPT ![w] = {}]

(* The poll.  While modules are to be changed it gives up, unless jobs have *)
(* been due for so long that the states are taken for leftovers and reset.  *)
Poll(w) ==
    /\ pc[w] = "poll"
    /\ DueJobs # {}
    /\ states = "settled" \/ Stuck
    /\ states' = "settled"
    /\ todo' = [todo EXCEPT ![w] = DueJobs]
    /\ read' = [read EXCEPT ![w] = row]
    /\ pc' = [pc EXCEPT ![w] = "next"]
    /\ UNCHANGED <<now, row, holder, mine, work, kept, tried, raised, calls, op, ops, crashes, toggles>>

(* ORDER BY priority *)
NextJob(w, j) == j \in todo[w] /\ \A i \in todo[w] : Priority[j] <= Priority[i]

(* The row is locked by someone else (55P03), or does not qualify any more. *)
Busy_NotChecked(j) == FALSE

Busy(j) == holder[j] # NoOne

Skip(w, j) ==
    /\ pc[w] = "next"
    /\ NextJob(w, j)
    /\ ~Due(j) \/ Busy(j)
    /\ Leave(w, j)
    /\ UNCHANGED <<now, row, holder, read, kept, tried, raised, calls, modules, crashes, toggles>>

Lock(w, j) ==
    /\ pc[w] = "next"
    /\ NextJob(w, j)
    /\ Due(j) /\ ~Busy(j)
    /\ holder' = [holder EXCEPT ![j] = w]
    /\ pc' = [pc EXCEPT ![w] = "run"]
    /\ mine' = [mine EXCEPT ![w] = [now |-> now, next |-> read[w][j].next,
                                    left |-> read[w][j].left, doall |-> read[w][j].doall,
                                    ok |-> FALSE, job |-> j]]
    /\ UNCHANGED <<now, row, todo, read, work, kept, tried, raised, calls, modules, crashes, toggles>>

(* while nextcall < now and numbercall *)
MoreCalls(w) == mine[w].next < mine[w].now /\ mine[w].left # 0

(* one turn of the loop: the first, and with doall each one, makes a call *)
Turn_NeverDoAll(m) == ~m.ok

Turn(m) == ~m.ok \/ m.doall

Turned(m) ==
    LET left == IF m.left > 0 THEN m.left - 1 ELSE m.left IN
    [m EXCEPT !.left = left, !.ok = TRUE, !.next = IF left = 0 THEN @ ELSE @ + 1]

(* The call returns, or raises and its transaction, which the calls before  *)
(* it share, is rolled back.                                                *)
Callback(w) ==
    LET m == mine[w] IN
    /\ pc[w] = "run" /\ MoreCalls(w) /\ Turn(m)
    /\ mine' = [mine EXCEPT ![w] = Turned(m)]
    /\ tried' = [tried EXCEPT ![m.job] = @ \cup {m.next}]
    /\ \/ /\ work' = [work EXCEPT ![w] = @ \cup {m.next}]
          /\ raised' = [raised EXCEPT ![m.job] = @ \ {m.next}]
       \/ /\ work' = [work EXCEPT ![w] = {}]
          /\ raised' = [raised EXCEPT ![m.job] = @ \cup {m.next}]
    /\ UNCHANGED <<now, row, holder, todo, read, pc, kept, calls, modules, crashes, toggles>>

PassOver(w) ==
    LET m == mine[w] IN
    /\ pc[w] = "run" /\ MoreCalls(w) /\ ~Turn(m)
    /\ mine' = [mine EXCEPT ![w] = Turned(m)]
    /\ UNCHANGED <<now, row, holder, todo, read, pc, work, kept, tried, raised, calls, modules, crashes, toggles>>

(* job_cr.commit(), after the UPDATE of the row has been executed in the    *)
(* other transaction                                                        *)
CommitJob(w) ==
    LET j == mine[w].job IN
    /\ pc[w] = "run" /\ ~MoreCalls(w)
    /\ pc' = [pc EXCEPT ![w] = "save"]
    /\ kept' = [kept EXCEPT ![j] = @ \cup work[w]]
    /\ calls' = [calls EXCEPT ![j] = @ + Cardinality(work[w])]
    /\ work' = [work EXCEPT ![w] = {}]
    /\ UNCHANGED <<now, row, holder, todo, read, mine, tried, raised, modules, crashes, toggles>>

(* cron.flush() raises on a pending write of the job: PostgreSQL turns the  *)
(* COMMIT of the finally clause into a rollback, and the row's is done.     *)
FlushRaises(w) ==
    /\ pc[w] = "run" /\ ~MoreCalls(w)
    /\ crashes < MaxCrashes
    /\ crashes' = crashes + 1
    /\ pc' = [pc EXCEPT ![w] = "save"]
    /\ work' = [work EXCEPT ![w] = {}]
    /\ UNCHANGED <<now, row, holder, todo, read, mine, kept, tried, raised, calls, modules, toggles>>

(* It raises: the row's transaction is not committed, its cursor is closed. *)
CommitJobRaises(w) ==
    LET j == mine[w].job IN
    /\ pc[w] = "run" /\ ~MoreCalls(w)
    /\ crashes < MaxCrashes
    /\ crashes' = crashes + 1
    /\ holder' = [holder EXCEPT ![j] = NoOne]
    /\ Leave(w, j)
    /\ UNCHANGED <<now, row, read, kept, tried, raised, calls, modules, toggles>>

(* the row as the UPDATE leaves it *)
Saved_StaleNext(r, m) == [r EXCEPT !.left = m.left, !.active = r.active /\ m.left # 0]

Saved(r, m) == [r EXCEPT !.next = m.next, !.left = m.left, !.active = @ /\ m.left # 0]

(* cron_cr.commit() *)
CommitRow(w) ==
    LET j == mine[w].job IN
    /\ pc[w] = "save"
    /\ row' = [row EXCEPT ![j] = Saved(@, mine[w])]
    /\ holder' = [holder EXCEPT ![j] = NoOne]
    /\ Leave(w, j)
    /\ UNCHANGED <<now, read, kept, tried, raised, calls, modules, crashes, toggles>>

(* The worker dies; PostgreSQL rolls back its transactions.  The server     *)
(* starts another in its place.  Between two jobs, this is also an error    *)
(* other than 55P03 while locking a row, which ends the poll.               *)
Crash(w) ==
    /\ pc[w] # "poll"
    /\ crashes < MaxCrashes
    /\ crashes' = crashes + 1
    /\ holder' = [j \in Job |-> IF holder[j] = w THEN NoOne ELSE holder[j]]
    /\ todo' = [todo EXCEPT ![w] = {}]
    /\ pc' = [pc EXCEPT ![w] = "poll"]
    /\ mine' = [mine EXCEPT ![w] = Idling]
    /\ work' = [work EXCEPT ![w] = {}]
    /\ UNCHANGED <<now, row, read, kept, tried, raised, calls, modules, toggles>>

(* write() and toggle(): refused while the job runs. *)
Toggle(j) ==
    /\ ~Busy(j)
    /\ toggles < MaxToggles
    /\ toggles' = toggles + 1
    /\ row' = [row EXCEPT ![j].active = ~@]
    /\ UNCHANGED <<now, holder, todo, read, pc, mine, work, kept, tried, raised, calls, modules, crashes>>

(* _button_immediate_function(): refused while any job runs; the locks are  *)
(* released by the commit that makes the states visible, before the new     *)
(* registry is loaded.                                                      *)
StartModuleOp ==
    /\ ops < MaxOps
    /\ op # "loading"
    /\ \A j \in Job : ~Busy(j)
    /\ ops' = ops + 1
    /\ op' = "loading"
    /\ states' = "pending"
    /\ UNCHANGED <<now, jobs, crashes, toggles>>

(* The load ends, its own failure included, and leaves no state pending; or *)
(* its process dies and leaves them.                                        *)
EndModuleOp ==
    /\ op = "loading"
    /\ \/ op' = "none" /\ states' = "settled"
       \/ op' = "failed" /\ UNCHANGED states
    /\ UNCHANGED <<now, jobs, ops, crashes, toggles>>

Tick ==
    /\ now < MaxTime
    /\ now' = now + 1
    /\ UNCHANGED <<jobs, modules, crashes, toggles>>

Step(w) ==
    \/ Poll(w)
    \/ \E j \in Job : Skip(w, j) \/ Lock(w, j)
    \/ Callback(w)
    \/ PassOver(w)
    \/ CommitJob(w)
    \/ CommitRow(w)

Next ==
    \/ \E w \in Worker : Step(w) \/ FlushRaises(w) \/ CommitJobRaises(w) \/ Crash(w)
    \/ \E j \in Job : Toggle(j)
    \/ StartModuleOp
    \/ EndModuleOp
    \/ Tick

Spec == Init /\ [][Next]_vars

(* Each cron thread loops for ever (cron_thread, WorkerCron), and a module  *)
(* operation ends.                                                          *)
Fairness ==
    /\ \A w \in Worker : WF_vars(Step(w))
    /\ WF_vars(EndModuleOp)
    /\ WF_vars(Tick)

FairSpec == Spec /\ Fairness

-----------------------------------------------------------------------------
Running(w, j) == pc[w] \in {"run", "save"} /\ mine[w].job = j

(* "the job was already locked to be taken care of by another thread": no   *)
(* job is run by two workers at once.                                       *)
OneRunner ==
    \A j \in Job, v, w \in Worker : Running(v, j) /\ Running(w, j) => v = w

(* A job a user deactivated is not run, even when a worker had read it as   *)
(* active; and it cannot be deactivated under the feet of its worker.       *)
InactiveNeverRuns ==
    \A j \in Job, w \in Worker : Running(w, j) => row[j].active

(* doall: each missed occurrence was given its call before nextcall moved   *)
(* past it, whatever crashed and whoever else ran the job.                  *)
MissedAreTried ==
    \A j \in Job : \A s \in Slot : row[j].doall /\ s < row[j].next => s \in tried[j]

(* Working from an old copy of the row never moves a schedule back.         *)
ScheduleAdvances == [][ \A j \in Job : row'[j].next >= row[j].next ]_row

(* A call that is due does not stay due: its job is rescheduled, even after *)
(* a module operation that died and left its states behind ("cron jobs have *)
(* been locked for a long time (stuck)").                                   *)
DueIsServed ==
    \A j \in Job, s \in 0..(MaxTime - MaxFail - 1) :
        Due(j) /\ row[j].next = s ~> row[j].next > s \/ ~row[j].active

(* numbercall: "How many times the method is called"; a call that was lost  *)
(* in a crash before it was recorded is made again.                         *)
CallsWithinNumber ==
    \A j \in Job : Number[j] > 0 => calls[j] <= Number[j] + crashes

(* doall: a call that returned normally has had its effect by the time the  *)
(* schedule moved past it.                                                  *)
MissedAreExecuted ==
    \A j \in Job : \A s \in Slot :
        row[j].doall /\ s < row[j].next => s \in kept[j] \cup raised[j]

(* reset_modules_state() is "to be called ONLY when module                  *)
(* installation/upgrade/uninstallation fails".                              *)
ResetOnlyAfterFailure ==
    [][ op = "loading" /\ op' = "loading" /\ states = "pending" => states' = "pending" ]_vars

(* "no module must be installed/upgraded/removed" while a job runs *)
NoJobDuringModuleOp ==
    op = "loading" => \A w \in Worker, j \in Job : ~Running(w, j)
=============================================================================
