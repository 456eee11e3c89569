----------------------------- MODULE WorkerProofs -----------------------------
(* What holds of the processes of a server, for any number of workers, and *)
(* of the scheduled jobs they run, for any number of jobs.                 *)
EXTENDS Cron, Prefork, FiniteSetTheorems, SequenceTheorems, WellFoundedInduction, TLAPS

-----------------------------------------------------------------------------
(* Scheduled actions.                                                       *)
(* The lock of a row and the worker that runs the job are the same thing    *)
(* (LocksAreRuns).  The copies of a row, in the poll of a worker and in its *)
(* local variables, may be old, but they are states the job has gone        *)
(* through: each call before their nextcall was tried, and with a limited   *)
(* numbercall each repetition moved nextcall on (OnSchedule).               *)

LocksAreRuns == \A j \in Job, w \in Worker : holder[j] = w <=> Running(w, j)

(* Each turn takes one call of those that are left and moves nextcall, but  *)
(* for the last one.                                                        *)
OnSchedule(j, r) ==
    IF Number[j] = -1 THEN r.left = -1
    ELSE r.left >= 0 /\ r.next = Number[j] - (IF r.left = 0 THEN 1 ELSE r.left)

TriedBefore(j, next) == \A s \in Slot : s < next => s \in tried[j]

(* a state the job has gone through, or that its worker has got to *)
Copies(j, r) ==
    /\ r.doall = row[j].doall
    /\ r.doall => TriedBefore(j, r.next)
    /\ OnSchedule(j, r)

History == \A j \in Job :
    /\ Copies(j, row[j])
    /\ \A w \in Worker : /\ Copies(j, read[w][j])
                         /\ Running(w, j) => Copies(j, mine[w])

(* Who runs a job has locked a row that was due, and saves it when there is *)
(* nothing left to do.                                                      *)
RunsTheDue == \A j \in Job, w \in Worker : Running(w, j) =>
    /\ row[j].active /\ row[j].left # 0 /\ row[j].next <= mine[w].now
    /\ pc[w] = "save" => ~MoreCalls(w)

IInv == TypeOK /\ LocksAreRuns /\ History /\ RunsTheDue

-----------------------------------------------------------------------------

(* The jobs and workers at the start.                                       *)
LEMMA TypeInit == Init => TypeOK
<1> SUFFICES ASSUME Init PROVE TypeOK
  OBVIOUS
<1>1. PICK all \in SUBSET MayDoAll : row = FirstRow(all)
  BY DEF Init
<1>2. row \in [Job -> Row]
  BY <1>1, CronAssumption DEF FirstRow, Row, Slot
<1> QED
  BY <1>2, CronAssumption DEF Init, TypeOK, Locals, Idling, Slot

(* Leaving a job keeps the types of the variables of the worker.            *)
LEMMA LeaveType ==
    ASSUME TypeOK, NEW w \in Worker, NEW j \in Job, Leave(w, j)
    PROVE  /\ todo' \in [Worker -> SUBSET Job]
           /\ pc' \in [Worker -> {"poll", "next", "run", "save"}]
           /\ mine' \in [Worker -> Locals]
           /\ work' \in [Worker -> SUBSET Slot]
           /\ \A v \in Worker : pc'[v] \in {"run", "save"} <=> mine'[v].job # NoOne
           /\ \A v \in Worker : todo'[v] = {} => pc'[v] = "poll"
<1>1. Idling \in Locals /\ Idling.job = NoOne
  BY CronAssumption DEF Idling, Locals, Slot
<1>2. /\ mine' = [mine EXCEPT ![w] = Idling]
      /\ todo' = [todo EXCEPT ![w] = @ \ {j}]
      /\ pc' = [pc EXCEPT ![w] = IF todo[w] \subseteq {j} THEN "poll" ELSE "next"]
      /\ work' = [work EXCEPT ![w] = {}]
  BY DEF Leave
<1> QED
  BY <1>1, <1>2 DEF TypeOK

(* One more call keeps the local variables of a worker what they are.       *)
LEMMA TurnedType ==
    ASSUME TypeOK, NEW w \in Worker, MoreCalls(w)
    PROVE  /\ Turned(mine[w]) \in Locals
           /\ Turned(mine[w]).job = mine[w].job /\ Turned(mine[w]).now = mine[w].now
           /\ Turned(mine[w]).doall = mine[w].doall
           /\ mine[w].next \in Slot
<1> DEFINE m == mine[w]
<1>1. m \in Locals /\ m.next < m.now
  BY DEF TypeOK, MoreCalls
<1>2. m.next \in Slot /\ m.next + 1 \in Slot
  BY <1>1, CronAssumption DEF Locals, Slot
<1> HIDE DEF m
<1> DEFINE left == IF m.left > 0 THEN m.left - 1 ELSE m.left
           next == IF left = 0 THEN m.next ELSE m.next + 1
<1>3. left \in Int /\ next \in Slot
  BY <1>1, <1>2 DEF Locals
<1>4. Turned(m) = [m EXCEPT !.left = left, !.ok = TRUE, !.next = next]
  BY DEF Turned
<1> HIDE DEF left, next
<1>5. Turned(m) \in Locals /\ Turned(m).job = m.job /\ Turned(m).now = m.now /\ Turned(m).doall = m.doall
  BY <1>1, <1>3, <1>4 DEF Locals
<1> QED
  BY <1>2, <1>5 DEF m

(* A change of active gives a row.                                          *)
LEMMA Activated == ASSUME NEW r \in Row PROVE [r EXCEPT !.active = ~@] \in Row
<1>1. ASSUME NEW b \in BOOLEAN PROVE [r EXCEPT !.active = b] \in Row
  BY DEF Row
<1>2. (~r.active) \in BOOLEAN
  BY Zenon
<1> QED
  BY <1>1, <1>2

(* Every step of a worker, a user or a module operation keeps the types.    *)
LEMMA TypeStep == ASSUME TypeOK, [Next]_vars PROVE TypeOK'
<1> USE DEF TypeOK, modules, jobs
<1>1. ASSUME NEW w \in Worker, Poll(w) PROVE TypeOK'
  BY <1>1 DEF Poll, DueJobs
<1>2. ASSUME NEW w \in Worker, NEW j \in Job, Skip(w, j) PROVE TypeOK'
  BY <1>2, LeaveType DEF Skip
<1>3. ASSUME NEW w \in Worker, NEW j \in Job, Lock(w, j) PROVE TypeOK'
  <2>1. mine' = [mine EXCEPT ![w] = [now |-> now, next |-> read[w][j].next, left |-> read[w][j].left,
                                     doall |-> read[w][j].doall, ok |-> FALSE, job |-> j]]
    BY <1>3 DEF Lock
  <2>2. read[w][j] \in Row
    OBVIOUS
  <2>3. mine'[w] \in Locals /\ mine'[w].job = j
    BY <2>1, <2>2 DEF Row, Locals
  <2>4. mine' \in [Worker -> Locals]
    BY <2>1, <2>3
  <2>5. \A v \in Worker : pc'[v] \in {"run", "save"} <=> mine'[v].job # NoOne
    BY <1>3, <2>1, <2>3, CronAssumption DEF Lock
  <2>6. \A v \in Worker : todo'[v] = {} => pc'[v] = "poll"
    BY <1>3 DEF Lock, NextJob
  <2> QED
    BY <1>3, <2>4, <2>5, <2>6 DEF Lock
<1>4. ASSUME NEW w \in Worker, Callback(w) PROVE TypeOK'
  <2>1. Turned(mine[w]) \in Locals /\ Turned(mine[w]).job = mine[w].job /\ mine[w].next \in Slot
    BY <1>4, TurnedType DEF Callback
  <2>2. mine' \in [Worker -> Locals] /\ \A v \in Worker : mine'[v].job = mine[v].job
    BY <1>4, <2>1 DEF Callback
  <2>3. work' \in [Worker -> SUBSET Slot]
    BY <1>4, <2>1 DEF Callback
  <2>4. tried' \in [Job -> SUBSET Slot]
    BY <1>4, <2>1 DEF Callback
  <2>5. raised' \in [Job -> SUBSET Slot]
    BY <1>4, <2>1 DEF Callback
  <2> QED
    BY <1>4, <2>2, <2>3, <2>4, <2>5 DEF Callback
<1>5. ASSUME NEW w \in Worker, PassOver(w) PROVE TypeOK'
  <2>1. Turned(mine[w]) \in Locals /\ Turned(mine[w]).job = mine[w].job
    BY <1>5, TurnedType DEF PassOver
  <2>2. mine' \in [Worker -> Locals] /\ \A v \in Worker : mine'[v].job = mine[v].job
    BY <1>5, <2>1 DEF PassOver
  <2> QED
    BY <1>5, <2>2 DEF PassOver
<1>6. ASSUME NEW w \in Worker, CommitJob(w) PROVE TypeOK'
  <2>1. Cardinality(work[w]) \in Nat
    <3>1. IsFiniteSet(Slot)
      BY CronAssumption, FS_Interval DEF Slot
    <3>2. IsFiniteSet(work[w])
      BY <3>1, FS_Subset
    <3> QED
      BY <3>2, FS_CardinalityType
  <2>2. mine[w].job \in Job \cup {NoOne}
    BY DEF Locals
  <2>3. calls' \in [Job -> Nat] /\ kept' \in [Job -> SUBSET Slot]
    BY <1>6, <2>1, <2>2 DEF CommitJob
  <2> QED
    BY <1>6, <2>3 DEF CommitJob
<1>7. ASSUME NEW w \in Worker, FlushRaises(w) PROVE TypeOK'
  BY <1>7 DEF FlushRaises
<1>8. ASSUME NEW w \in Worker, CommitJobRaises(w) PROVE TypeOK'
  <2>1. mine[w].job \in Job
    BY <1>8 DEF CommitJobRaises, Locals
  <2> QED
    BY <1>8, <2>1, LeaveType DEF CommitJobRaises
<1>9. ASSUME NEW w \in Worker, CommitRow(w) PROVE TypeOK'
  <2>1. mine[w] \in Locals /\ mine[w].job \in Job
    BY <1>9 DEF CommitRow, Locals
  <2>2. Saved(row[mine[w].job], mine[w]) \in Row
    <3> DEFINE r == row[mine[w].job]  m == mine[w]  active == r.active /\ m.left # 0
    <3>1. r \in Row /\ m.next \in Slot /\ m.left \in Int
      BY <2>1 DEF Locals
    <3>2. active \in BOOLEAN
      BY Zenon
    <3>3. Saved(r, m) = [r EXCEPT !.next = m.next, !.left = m.left, !.active = active]
      BY Zenon DEF Saved
    <3> HIDE DEF r, m, active
    <3>4. [r EXCEPT !.next = m.next, !.left = m.left, !.active = active] \in Row
      BY <3>1, <3>2 DEF Row
    <3> QED
      BY <3>3, <3>4 DEF r, m
  <2> QED
    BY <1>9, <2>1, <2>2, LeaveType DEF CommitRow
<1>10. ASSUME NEW w \in Worker, Crash(w) PROVE TypeOK'
  <2>1. Idling \in Locals /\ Idling.job = NoOne
    BY CronAssumption DEF Idling, Locals, Slot
  <2> QED
    BY <1>10, <2>1 DEF Crash
<1>11. ASSUME NEW j \in Job, Toggle(j) PROVE TypeOK'
  <2>1. [row[j] EXCEPT !.active = ~@] \in Row
    <3>1. row[j] \in Row
      OBVIOUS
    <3> QED
      BY <3>1, Activated
  <2>2. row' \in [Job -> Row]
    BY <1>11, <2>1 DEF Toggle
  <2> QED
    BY <1>11, <2>2 DEF Toggle
<1>12. CASE StartModuleOp
  BY <1>12 DEF StartModuleOp
<1>13. CASE EndModuleOp
  BY <1>13 DEF EndModuleOp
<1>14. CASE Tick
  BY <1>14, CronAssumption DEF Tick
<1>15. CASE UNCHANGED vars
  BY <1>15 DEF vars
<1> QED
  BY <1>1, <1>2, <1>3, <1>4, <1>5, <1>6, <1>7, <1>8, <1>9, <1>10, <1>11, <1>12, <1>13, <1>14, <1>15 DEF Next, Step

-----------------------------------------------------------------------------
(* Leaving a job is not running it; the others go on as before.             *)
LEMMA LeaveRuns ==
    ASSUME TypeOK, NEW w \in Worker, NEW j \in Job, Leave(w, j)
    PROVE  /\ \A i \in Job : ~Running(w, i)'
           /\ \A v \in Worker \ {w} : pc'[v] = pc[v] /\ mine'[v] = mine[v]
           /\ \A v \in Worker \ {w}, i \in Job : Running(v, i)' <=> Running(v, i)
BY DEF Leave, Running, TypeOK

(* A row is locked by who runs its job, and by nobody else.                 *)
LEMMA LocksStep == ASSUME IInv, [Next]_vars PROVE LocksAreRuns'
<1> USE DEF IInv, modules, jobs, LocksAreRuns, Running
<1>0. TypeOK /\ TypeOK'
  BY TypeStep
<1>1. ASSUME NEW w \in Worker, Poll(w) PROVE LocksAreRuns'
  BY <1>0, <1>1 DEF Poll, TypeOK
<1>2. ASSUME NEW w \in Worker, NEW j \in Job, Skip(w, j) PROVE LocksAreRuns'
  BY <1>0, <1>2, LeaveRuns DEF Skip
<1>3. ASSUME NEW w \in Worker, NEW j \in Job, Lock(w, j) PROVE LocksAreRuns'
  <2>1. holder[j] = NoOne /\ pc[w] = "next"
    BY <1>3 DEF Lock, Busy
  <2>2. /\ holder'[j] = w /\ pc'[w] = "run" /\ mine'[w].job = j
        /\ \A v \in Worker \ {w} : pc'[v] = pc[v] /\ mine'[v] = mine[v]
        /\ \A i \in Job \ {j} : holder'[i] = holder[i]
    BY <1>0, <1>3 DEF Lock, TypeOK
  <2>3. ASSUME NEW v \in Worker PROVE holder'[j] = v <=> Running(v, j)'
    <3>1. ~Running(v, j)
      BY <2>1, CronAssumption
    <3> QED
      BY <2>1, <2>2, <3>1
  <2>4. ASSUME NEW v \in Worker, NEW i \in Job \ {j} PROVE holder'[i] = v <=> Running(v, i)'
    BY <2>1, <2>2
  <2> QED
    BY <2>3, <2>4
<1>4. ASSUME NEW w \in Worker, Callback(w) \/ PassOver(w) PROVE LocksAreRuns'
  <2>1. Turned(mine[w]).job = mine[w].job
    BY <1>0, <1>4, TurnedType DEF Callback, PassOver
  <2>2. \A v \in Worker : mine'[v].job = mine[v].job
    <3>1. mine' = [mine EXCEPT ![w] = Turned(mine[w])] /\ mine \in [Worker -> Locals]
      BY <1>0, <1>4 DEF Callback, PassOver, TypeOK
    <3> QED
      BY <2>1, <3>1
  <2> QED
    BY <1>4, <2>2 DEF Callback, PassOver
<1>5. ASSUME NEW w \in Worker, CommitJob(w) \/ FlushRaises(w) PROVE LocksAreRuns'
  BY <1>0, <1>5 DEF CommitJob, FlushRaises, TypeOK
<1>6. ASSUME NEW w \in Worker, CommitJobRaises(w) \/ CommitRow(w) PROVE LocksAreRuns'
  <2> DEFINE j == mine[w].job
  <2>1. j \in Job /\ Running(w, j) /\ Leave(w, j) /\ holder' = [holder EXCEPT ![j] = NoOne]
    BY <1>0, <1>6 DEF CommitJobRaises, CommitRow, TypeOK, Locals
  <2>2. \A i \in Job \ {j} : ~Running(w, i)
    BY <2>1
  <2> HIDE DEF j
  <2> QED
    BY <1>0, <2>1, <2>2, LeaveRuns, CronAssumption DEF TypeOK
<1>7. ASSUME NEW w \in Worker, Crash(w) PROVE LocksAreRuns'
  BY <1>0, <1>7, CronAssumption DEF Crash, TypeOK
<1>8. ASSUME NEW j \in Job, Toggle(j) PROVE LocksAreRuns'
  BY <1>8 DEF Toggle
<1>9. CASE StartModuleOp \/ EndModuleOp \/ Tick \/ UNCHANGED vars
  BY <1>9 DEF StartModuleOp, EndModuleOp, Tick, vars
<1> QED
  BY <1>1, <1>2, <1>3, <1>4, <1>5, <1>6, <1>7, <1>8, <1>9 DEF Next, Step

(* A copy stays one as long as doall is what it was: what was tried is      *)
(* never forgotten.                                                         *)
LEMMA CopiesStay ==
    ASSUME NEW j \in Job, NEW r, Copies(j, r), row'[j].doall = row[j].doall, tried[j] \subseteq tried'[j]
    PROVE  Copies(j, r)'
BY DEF Copies, TriedBefore, OnSchedule

(* A turn of the loop that made its call, or had not to make it.            *)
LEMMA TurnedCopies ==
    ASSUME TypeOK, NEW w \in Worker, NEW j \in Job, MoreCalls(w), Copies(j, mine[w]),
           tried[j] \subseteq tried'[j], mine[w].doall => mine[w].next \in tried'[j],
           row'[j].doall = row[j].doall
    PROVE  /\ mine[w].doall = row[j].doall
           /\ mine[w].doall => \A s \in Slot : s < Turned(mine[w]).next => s \in tried'[j]
           /\ OnSchedule(j, Turned(mine[w]))
<1> DEFINE m == mine[w]
<1>1. m \in Locals /\ m.left # 0
  BY DEF TypeOK, MoreCalls
<1>2. /\ Turned(m).left = IF m.left > 0 THEN m.left - 1 ELSE m.left
      /\ Turned(m).next = IF Turned(m).left = 0 THEN m.next ELSE m.next + 1
  BY <1>1 DEF Turned, Locals
<1>3. m.next \in Int /\ m.left \in Int /\ Number[j] \in Int /\ Number[j] >= -1 /\ Number[j] # 0
  BY <1>1, CronAssumption DEF Locals, Slot
<1> HIDE DEF m
<1>4. OnSchedule(j, m) => OnSchedule(j, Turned(m))
  BY <1>1, <1>2, <1>3 DEF OnSchedule
<1>5. ASSUME m.doall, NEW s \in Slot, s < Turned(m).next PROVE s < m.next \/ s = m.next
  BY <1>2, <1>3, <1>5 DEF Slot
<1> QED
  BY <1>4, <1>5 DEF Copies, TriedBefore, m

(* The copies of a row stay states that the job has gone through.           *)
LEMMA HistoryStep == ASSUME IInv, [Next]_vars PROVE History'
<1> USE DEF IInv, modules, jobs
<1>0. TypeOK /\ TypeOK'
  BY TypeStep
<1>1. ASSUME NEW w \in Worker, Poll(w) PROVE History'
  BY <1>0, <1>1, CopiesStay DEF Poll, TypeOK, History, Running
<1>2. ASSUME NEW w \in Worker, NEW j \in Job, Skip(w, j) PROVE History'
  BY <1>0, <1>2, LeaveRuns, CopiesStay DEF Skip, History
<1>3. ASSUME NEW w \in Worker, NEW j \in Job, Lock(w, j) PROVE History'
  <2>1. /\ UNCHANGED <<row, read, tried>>
        /\ pc'[w] = "run" /\ mine'[w].job = j
        /\ mine'[w].next = read[w][j].next /\ mine'[w].left = read[w][j].left
        /\ mine'[w].doall = read[w][j].doall
        /\ \A v \in Worker \ {w} : pc'[v] = pc[v] /\ mine'[v] = mine[v]
    BY <1>0, <1>3 DEF Lock, TypeOK
  <2>2. \A i \in Job : Running(w, i)' => Copies(i, mine'[w])
    BY <2>1 DEF History, Copies, TriedBefore, OnSchedule, Running
  <2> QED
    BY <2>1, <2>2, CopiesStay DEF History, Running
<1>4. ASSUME NEW w \in Worker, Callback(w) \/ PassOver(w) PROVE History'
  <2> PICK j \in Job : j = mine[w].job
    BY <1>0, <1>4 DEF Callback, PassOver, TypeOK, Locals
  <2>1. j \in Job /\ Running(w, j) /\ MoreCalls(w) /\ UNCHANGED <<row, read, pc>>
    BY <1>0, <1>4 DEF Callback, PassOver, TypeOK, Locals, Running
  <2>2. /\ \A i \in Job : tried[i] \subseteq tried'[i]
        /\ mine[w].doall => mine[w].next \in tried'[j]
    BY <1>0, <1>4, <2>1 DEF Callback, PassOver, Turn, TypeOK
  <2>3. /\ mine'[w] = Turned(mine[w]) /\ mine'[w].job = j /\ mine'[w].doall = mine[w].doall
        /\ \A v \in Worker \ {w} : mine'[v] = mine[v]
    BY <1>0, <1>4, TurnedType DEF Callback, PassOver, TypeOK
  <2>4. Copies(j, mine[w])
    BY <2>1 DEF History
  <2>5. Copies(j, mine[w])'
    <3>1. row'[j].doall = row[j].doall /\ tried[j] \subseteq tried'[j] /\ MoreCalls(w)
      BY <2>1, <2>2
    <3>2. /\ mine[w].doall = row[j].doall
          /\ mine[w].doall => \A s \in Slot : s < Turned(mine[w]).next => s \in tried'[j]
          /\ OnSchedule(j, Turned(mine[w]))
      BY <1>0, <2>1, <2>2, <2>4, <3>1, TurnedCopies
    <3>3. mine'[w].doall = row'[j].doall
      BY <2>3, <3>1, <3>2
    <3>4. mine'[w].doall => \A s \in Slot : s < mine'[w].next => s \in tried'[j]
      BY <2>3, <3>2
    <3>5. OnSchedule(j, mine'[w])
      BY <2>3, <3>2
    <3> QED
      BY <3>3, <3>4, <3>5 DEF Copies, OnSchedule, TriedBefore
  <2>6. \A i \in Job : Running(w, i)' => i = j
    BY <2>3 DEF Running
  <2> QED
    <3>1. ASSUME NEW i \in Job, NEW r, Copies(i, r) PROVE Copies(i, r)'
      BY <2>1, <2>2, <3>1, CopiesStay
    <3>2. ASSUME NEW i \in Job, NEW v \in Worker, Running(v, i)' PROVE Copies(i, mine[v])'
      <4>1. CASE v = w
        BY <2>5, <2>6, <3>2, <4>1
      <4>2. CASE v # w
        <5>1. Running(v, i) /\ mine'[v] = mine[v]
          BY <2>1, <2>3, <3>2, <4>2 DEF Running
        <5> QED
          BY <3>1, <5>1 DEF History
      <4> QED
        BY <4>1, <4>2
    <3> QED
      BY <2>1, <3>1, <3>2 DEF History
<1>5. ASSUME NEW w \in Worker, CommitJob(w) \/ FlushRaises(w) PROVE History'
  BY <1>0, <1>5, CopiesStay DEF CommitJob, FlushRaises, TypeOK, History, Running
<1>6. ASSUME NEW w \in Worker, CommitJobRaises(w) PROVE History'
  <2>1. mine[w].job \in Job /\ Leave(w, mine[w].job)
    BY <1>0, <1>6 DEF CommitJobRaises, TypeOK, Locals
  <2> QED
    BY <1>0, <1>6, <2>1, LeaveRuns, CopiesStay DEF CommitJobRaises, History
<1>7. ASSUME NEW w \in Worker, CommitRow(w) PROVE History'
  <2> PICK j \in Job : j = mine[w].job
    BY <1>0, <1>7 DEF CommitRow, TypeOK, Locals
  <2>1. j \in Job /\ Leave(w, j) /\ Running(w, j) /\ UNCHANGED <<read, tried>>
    BY <1>0, <1>7 DEF CommitRow, TypeOK, Locals, Running
  <2>2. row' = [row EXCEPT ![j] = Saved(row[j], mine[w])]
    BY <1>7 DEF CommitRow
  <2>3. row'[j] = Saved(row[j], mine[w]) /\ \A i \in Job \ {j} : row'[i] = row[i]
    BY <1>0, <2>1, <2>2 DEF TypeOK
  <2>4. Copies(j, mine[w])
    BY <2>1 DEF History
  <2>5. row[j] \in Row
    BY <1>0, <2>1 DEF TypeOK
  <2>6. row'[j].doall = row[j].doall /\ row'[j].next = mine[w].next /\ row'[j].left = mine[w].left
    BY <2>3, <2>5 DEF Saved, Row
  <2>7. Copies(j, row[j])'
    <3>1. row'[j].doall => TriedBefore(j, row'[j].next)
      BY <2>4, <2>6 DEF Copies
    <3>2. OnSchedule(j, row'[j])
      BY <2>4, <2>6 DEF Copies, OnSchedule
    <3> QED
      BY <2>1, <3>1, <3>2 DEF Copies, TriedBefore, OnSchedule
  <2>8. \A i \in Job : row'[i].doall = row[i].doall
    BY <2>3, <2>6
  <2> QED
    <3>1. ASSUME NEW i \in Job, NEW r, Copies(i, r) PROVE Copies(i, r)'
      BY <2>1, <2>8, <3>1, CopiesStay
    <3>2. ASSUME NEW i \in Job, NEW v \in Worker, Running(v, i)'
          PROVE  Running(v, i) /\ mine'[v] = mine[v]
      BY <1>0, <2>1, <3>2, LeaveRuns
    <3>3. \A i \in Job : Copies(i, row[i])'
      BY <2>3, <2>7, <3>1 DEF History
    <3> QED
      BY <2>1, <3>1, <3>2, <3>3 DEF History
<1>8. ASSUME NEW w \in Worker, Crash(w) PROVE History'
  BY <1>0, <1>8, CopiesStay DEF Crash, TypeOK, History, Running
<1>9. ASSUME NEW j \in Job, Toggle(j) PROVE History'
  <2>1. \A i \in Job : /\ row'[i].doall = row[i].doall
                       /\ row'[i].next = row[i].next /\ row'[i].left = row[i].left
    BY <1>0, <1>9 DEF Toggle, TypeOK, Row
  <2>2. \A i \in Job : Copies(i, row[i])'
    BY <1>9, <2>1 DEF Toggle, History, Copies, TriedBefore, OnSchedule
  <2> QED
    BY <1>9, <2>1, <2>2, CopiesStay DEF Toggle, History, Running
<1>10. CASE StartModuleOp \/ EndModuleOp \/ Tick \/ UNCHANGED vars
  <2>1. UNCHANGED <<row, read, mine, pc, tried>>
    BY <1>10 DEF StartModuleOp, EndModuleOp, Tick, vars
  <2> QED
    BY <2>1 DEF History, Running, Copies, TriedBefore, OnSchedule
<1> QED
  BY <1>1, <1>2, <1>3, <1>4, <1>5, <1>6, <1>7, <1>8, <1>9, <1>10 DEF Next, Step

(* One worker at a time: the lock has one holder.                           *)
LEMMA OneHolder == LocksAreRuns => OneRunner
BY DEF LocksAreRuns, OneRunner

(* Who runs a job goes on running one that was due.                         *)
LEMMA RunsStep == ASSUME IInv, [Next]_vars PROVE RunsTheDue'
<1> USE DEF IInv, modules, jobs
<1>0. TypeOK /\ TypeOK'
  BY TypeStep
<1>1. ASSUME NEW w \in Worker, Poll(w) PROVE RunsTheDue'
  BY <1>0, <1>1 DEF Poll, TypeOK, RunsTheDue, Running, MoreCalls
<1>2. ASSUME NEW w \in Worker, NEW j \in Job, Skip(w, j) PROVE RunsTheDue'
  BY <1>0, <1>2, LeaveRuns DEF Skip, RunsTheDue, MoreCalls
<1>3. ASSUME NEW w \in Worker, NEW j \in Job, Lock(w, j) PROVE RunsTheDue'
  <2>1. /\ row[j].active /\ row[j].left # 0 /\ row[j].next <= now
        /\ pc'[w] = "run" /\ mine'[w].job = j /\ mine'[w].now = now /\ row' = row
        /\ \A v \in Worker \ {w} : pc'[v] = pc[v] /\ mine'[v] = mine[v]
    BY <1>0, <1>3 DEF Lock, Due, TypeOK
  <2> QED
    BY <2>1 DEF RunsTheDue, Running, MoreCalls
<1>4. ASSUME NEW w \in Worker, Callback(w) \/ PassOver(w) PROVE RunsTheDue'
  <2>1. Turned(mine[w]).job = mine[w].job /\ Turned(mine[w]).now = mine[w].now
    BY <1>0, <1>4, TurnedType DEF Callback, PassOver
  <2>2. mine' = [mine EXCEPT ![w] = Turned(mine[w])] /\ pc[w] = "run" /\ UNCHANGED <<row, pc>>
    BY <1>4 DEF Callback, PassOver
  <2>3. /\ mine'[w].job = mine[w].job /\ mine'[w].now = mine[w].now
        /\ \A v \in Worker \ {w} : mine'[v] = mine[v]
    BY <1>0, <2>1, <2>2 DEF TypeOK
  <2> QED
    BY <2>2, <2>3 DEF RunsTheDue, Running, MoreCalls
<1>5. ASSUME NEW w \in Worker, CommitJob(w) \/ FlushRaises(w) PROVE RunsTheDue'
  <2>1. /\ UNCHANGED <<row, mine>> /\ pc[w] = "run" /\ ~MoreCalls(w)
        /\ pc'[w] = "save" /\ \A v \in Worker \ {w} : pc'[v] = pc[v]
    BY <1>0, <1>5 DEF CommitJob, FlushRaises, TypeOK
  <2> QED
    BY <2>1 DEF RunsTheDue, Running, MoreCalls
<1>6. ASSUME NEW w \in Worker, CommitJobRaises(w) PROVE RunsTheDue'
  <2>1. mine[w].job \in Job /\ Leave(w, mine[w].job) /\ row' = row
    BY <1>0, <1>6 DEF CommitJobRaises, TypeOK, Locals
  <2> QED
    BY <1>0, <2>1, LeaveRuns DEF RunsTheDue, MoreCalls
<1>7. ASSUME NEW w \in Worker, CommitRow(w) PROVE RunsTheDue'
  <2> PICK j \in Job : j = mine[w].job
    BY <1>0, <1>7 DEF CommitRow, TypeOK, Locals
  <2>1. Leave(w, j) /\ Running(w, j) /\ \A i \in Job \ {j} : row'[i] = row[i]
    BY <1>0, <1>7 DEF CommitRow, Running, TypeOK
  <2>2. ASSUME NEW v \in Worker, NEW i \in Job, Running(v, i)'
        PROVE  Running(v, i) /\ i # j /\ pc'[v] = pc[v] /\ mine'[v] = mine[v]
    <3>1. v # w /\ Running(v, i) /\ pc'[v] = pc[v] /\ mine'[v] = mine[v]
      BY <1>0, <2>1, <2>2, LeaveRuns
    <3> QED
      BY <2>1, <3>1, OneHolder DEF OneRunner
  <2> QED
    BY <2>1, <2>2 DEF RunsTheDue, MoreCalls
<1>8. ASSUME NEW w \in Worker, Crash(w) PROVE RunsTheDue'
  BY <1>0, <1>8 DEF Crash, TypeOK, RunsTheDue, Running, MoreCalls
<1>9. ASSUME NEW j \in Job, Toggle(j) PROVE RunsTheDue'
  <2>1. \A w \in Worker : ~Running(w, j)
    BY <1>9, CronAssumption DEF Toggle, Busy, LocksAreRuns
  <2>2. UNCHANGED <<pc, mine>> /\ \A i \in Job \ {j} : row'[i] = row[i]
    BY <1>0, <1>9 DEF Toggle, TypeOK
  <2> QED
    BY <2>1, <2>2 DEF RunsTheDue, Running, MoreCalls
<1>10. CASE StartModuleOp \/ EndModuleOp \/ Tick \/ UNCHANGED vars
  <2>1. UNCHANGED <<row, mine, pc>>
    BY <1>10 DEF StartModuleOp, EndModuleOp, Tick, vars
  <2> QED
    BY <2>1 DEF RunsTheDue, Running, MoreCalls
<1> QED
  BY <1>1, <1>2, <1>3, <1>4, <1>5, <1>6, <1>7, <1>8, <1>9, <1>10 DEF Next, Step

-----------------------------------------------------------------------------

(* The copies are those of the rows at the start.                           *)
LEMMA InitIInv == Init => IInv
<1> SUFFICES ASSUME Init PROVE IInv
  OBVIOUS
<1>1. PICK all \in SUBSET MayDoAll : row = FirstRow(all)
  BY DEF Init
<1>2. \A j \in Job : row[j].next = 0 /\ row[j].left = Number[j]
  BY <1>1 DEF FirstRow
<1>3. \A j \in Job : Copies(j, row[j])
  BY <1>2, CronAssumption DEF Copies, TriedBefore, OnSchedule, Slot
<1>4. \A w \in Worker, j \in Job : ~Running(w, j) /\ read[w] = row /\ holder[j] # w
  BY CronAssumption DEF Init, Running
<1> QED
  BY <1>3, <1>4, TypeInit DEF IInv, LocksAreRuns, History, RunsTheDue

(* The three parts of the invariant and the types, together.                *)
LEMMA NextIInv == IInv /\ [Next]_vars => IInv'
BY TypeStep, LocksStep, HistoryStep, RunsStep DEF IInv

(* Locks, copies and runs are what they should be in every reachable state, *)
(* for any workers and jobs.                                                *)
THEOREM Inductive == Spec => []IInv
BY InitIInv, NextIInv, PTL DEF Spec

(* Every variable keeps its type, whatever the workers and the users do.    *)
THEOREM TypeCorrect == Spec => []TypeOK
<1>1. IInv => TypeOK
  BY DEF IInv
<1> QED
  BY <1>1, Inductive, PTL

(* A job is never run by two workers at once.                               *)
THEOREM OneRunnerEver == Spec => []OneRunner
<1>1. IInv => OneRunner
  BY OneHolder DEF IInv
<1> QED
  BY <1>1, Inductive, PTL

(* No worker runs a job that a user deactivated.                            *)
THEOREM InactiveJobsRest == Spec => []InactiveNeverRuns
<1>1. IInv => InactiveNeverRuns
  BY DEF IInv, RunsTheDue, InactiveNeverRuns
<1> QED
  BY <1>1, Inductive, PTL

(* With doall, nextcall never passes an occurrence that was not tried.      *)
THEOREM NoneIsMissed == Spec => []MissedAreTried
<1>1. IInv => MissedAreTried
  BY DEF IInv, History, Copies, TriedBefore, MissedAreTried
<1> QED
  BY <1>1, Inductive, PTL

(* What a worker writes from its old copy of the row: if there are calls    *)
(* left, it went on to its own poll's date, and the row was due then; if    *)
(* none are, the last call is the last of the schedule.                     *)
LEMMA SavedAdvances ==
    ASSUME IInv, NEW w \in Worker, NEW j \in Job, Running(w, j), pc[w] = "save"
    PROVE  mine[w].next >= row[j].next
<1>1. /\ OnSchedule(j, row[j]) /\ OnSchedule(j, mine[w])
      /\ row[j].left # 0 /\ row[j].next <= mine[w].now
      /\ mine[w].next >= mine[w].now \/ mine[w].left = 0
  <2>1. mine[w].next \in Int /\ mine[w].now \in Int
    BY CronAssumption DEF IInv, TypeOK, Locals, Slot
  <2> QED
    BY <2>1 DEF IInv, History, Copies, RunsTheDue, MoreCalls
<1>2. /\ row[j].next \in Int /\ row[j].left \in Int
      /\ mine[w].next \in Int /\ mine[w].now \in Int /\ mine[w].left \in Int
  BY CronAssumption DEF IInv, TypeOK, Locals, Row, Slot
<1>3. Number[j] \in Int
  BY CronAssumption
<1> QED
  BY <1>1, <1>2, <1>3 DEF OnSchedule

(* No step moves a nextcall back.                                           *)
THEOREM Advances == Spec => ScheduleAdvances
<1>1. ASSUME IInv, [Next]_vars PROVE \/ \A j \in Job : row'[j].next >= row[j].next
                                     \/ UNCHANGED row
  <2>0. \A j \in Job : row[j] \in Row /\ row[j].next \in Int
    BY <1>1, CronAssumption DEF IInv, TypeOK, Row, Slot
  <2>1. ASSUME NEW w \in Worker, CommitRow(w) PROVE \A j \in Job : row'[j].next >= row[j].next
    <3> PICK j \in Job : j = mine[w].job
      BY <1>1, <2>1 DEF CommitRow, IInv, TypeOK, Locals
    <3>1. row'[j] = Saved(row[j], mine[w]) /\ \A i \in Job \ {j} : row'[i] = row[i]
      BY <1>1, <2>1 DEF CommitRow, IInv, TypeOK
    <3>2. row'[j].next = mine[w].next
      BY <2>0, <3>1 DEF Saved, Row
    <3>3. mine[w].next >= row[j].next
      BY <1>1, <2>1, SavedAdvances DEF CommitRow, Running
    <3> QED
      BY <2>0, <3>1, <3>2, <3>3
  <2>2. ASSUME NEW j \in Job, Toggle(j) PROVE \A i \in Job : row'[i].next >= row[i].next
    BY <1>1, <2>0, <2>2 DEF Toggle, IInv, TypeOK, Row
  <2> QED
    BY <1>1, <2>1, <2>2 DEF Next, Step, Poll, Skip, Lock, Callback, PassOver, CommitJob, FlushRaises,
                            CommitJobRaises, Crash, StartModuleOp, EndModuleOp, Tick, vars, jobs
<1> QED
  BY <1>1, Inductive, PTL DEF Spec, ScheduleAdvances

-----------------------------------------------------------------------------
(* The server with workers, for any numbers of processes and workers.  A    *)
(* stop takes the longpolling server from the master first, so what lives   *)
(* when it is executed anew are workers that missed its signals.            *)

StoppedLongpolling == master \in Stopping \cup {"exec"} => lp = NoPid
LeftAreDeaf == master = "exec" => \A p \in Pid : Live(p) => child[p].deaf

ServerIInv == ServerTypeOK /\ ChildrenAreKnown /\ StoppedLongpolling /\ LeftAreDeaf

Process == [kind : {"http", "cron", "longpolling"},
            at : {"free", "boot", "sleep", "work", "stuck", "serve", "blind", "zombie"},
            alive : BOOLEAN, deaf : BOOLEAN]
Signals == {"TERM", "HUP", "TTIN", "TTOU", "CHLD"}

(* A nonempty set of numbers has a least one.                               *)
LEMMA LeastIsIn ==
    ASSUME NEW S \in SUBSET Nat, S # {}
    PROVE  Min(S) \in S
<1> DEFINE R == {ss \in Nat \X Nat : ss[1] < ss[2]}
<1>1. IsWellFoundedOn(R, Nat)
  BY NatLessThanWellFounded DEF OpToRel
<1>2. PICK x \in S : \A y \in S : ~(<<y, x>> \in R)
  <2> HIDE DEF R
  <2> QED
    BY <1>1, WFMin
<1>3. ASSUME NEW y \in S PROVE x =< y
  <2>1. x \in Nat /\ y \in Nat /\ ~(<<y, x>> \in R)
    BY <1>2
  <2> QED
    BY <2>1
<1> QED
  BY <1>3 DEF Min

(* What the changes of a process make of it.                                *)
LEMMA ProcessesAre ==
    ASSUME ServerTypeOK, NEW p \in Pid
    PROVE  /\ child[p] \in Process /\ Free \in Process
           /\ Zombie(p) \in Process /\ Zombie(p).at = "zombie"
           /\ Missed(p) \in Process /\ Missed(p).at = child[p].at
           /\ Live(p) => Missed(p).deaf
           /\ child[p].deaf \in BOOLEAN
BY DEF ServerTypeOK, Process, Zombie, Free, Missed, Live

(* Of the processes of S only those that SIGTERM came too early for live.   *)
LEMMA SignalledAre ==
    ASSUME ServerTypeOK, NEW S
    PROVE  /\ Terminated(S) \in [Pid -> Process] /\ Interrupted(S) \in [Pid -> Process]
           /\ \A p \in Pid :
                 /\ p \notin S => Interrupted(S)[p] = child[p] /\ Terminated(S)[p] = child[p]
                 /\ Interrupted(S)[p].at = child[p].at
                 /\ p \in S /\ Terminated(S)[p].at \notin {"free", "zombie"} => Terminated(S)[p].deaf
<1>1. ASSUME NEW p \in Pid
      PROVE  /\ Interrupted(S)[p] \in Process /\ Terminated(S)[p] \in Process
             /\ p \notin S => Interrupted(S)[p] = child[p] /\ Terminated(S)[p] = child[p]
             /\ Interrupted(S)[p].at = child[p].at
             /\ p \in S /\ Terminated(S)[p].at \notin {"free", "zombie"} => Terminated(S)[p].deaf
  <2>1. CASE p \notin S
    BY <1>1, <2>1, ProcessesAre DEF Interrupted, Terminated
  <2>2. CASE p \in S /\ Handles(p)
    <3>1. /\ Interrupted(S)[p] = [child[p] EXCEPT !.alive = FALSE] /\ Terminated(S)[p] = Zombie(p)
      BY <1>1, <2>2 DEF Interrupted, Terminated
    <3> QED
      BY <1>1, <2>2, <3>1, ProcessesAre DEF Process
  <2>3. CASE p \in S /\ ~Handles(p)
    <3>1. /\ Interrupted(S)[p] = Missed(p) /\ Terminated(S)[p] = Missed(p)
      BY <1>1, <2>3 DEF Interrupted, Terminated
    <3> QED
      BY <1>1, <2>3, <3>1, ProcessesAre DEF Live
  <2> QED
    BY <2>1, <2>2, <2>3
<1> QED
  BY <1>1 DEF Interrupted, Terminated

(* The queue holds signals.                                                 *)
LEMMA QueueType ==
    ASSUME ServerTypeOK
    PROVE  /\ \A sig \in Signals : Queued(sig) \in Seq(Signals)
           /\ \A n \in Nat : queue \o [i \in 1..n |-> "CHLD"] \in Seq(Signals)
           /\ Awaited # {} => /\ Min(Awaited) \in DOMAIN queue /\ queue[Min(Awaited)] \in Signals
                              /\ SubSeq(queue, Min(Awaited) + 1, Len(queue)) \in Seq(Signals)
           /\ << >> \in Seq(Signals)
<1>1. queue \in Seq(Signals)
  BY DEF ServerTypeOK, Signals
<1>2. ASSUME NEW n \in Nat PROVE queue \o [i \in 1..n |-> "CHLD"] \in Seq(Signals)
  <2>1. [i \in 1..n |-> "CHLD"] \in Seq(Signals)
    BY IsASeq DEF Signals
  <2> QED
    BY <1>1, <2>1
<1>3. ASSUME Awaited # {}
      PROVE  /\ Min(Awaited) \in DOMAIN queue /\ queue[Min(Awaited)] \in Signals
             /\ SubSeq(queue, Min(Awaited) + 1, Len(queue)) \in Seq(Signals)
  <2>1. Awaited \in SUBSET Nat /\ Awaited \subseteq DOMAIN queue
    BY <1>1 DEF Awaited
  <2>2. Min(Awaited) \in DOMAIN queue
    BY <1>3, <2>1, LeastIsIn
  <2> QED
    BY <1>1, <2>2
<1> QED
  BY <1>1, <1>2, <1>3 DEF Queued, Signals

-----------------------------------------------------------------------------
(* The steps                                                                *)

(* The invariant, of any values of the variables.                           *)
LEMMA ServerIInvIs ==
    ServerIInv <=>
        /\ master \in Loop \cup Stopping \cup {"exec", "gone"}
        /\ queue \in Seq(Signals)
        /\ known \subseteq Pid /\ lp \in Pid \cup {NoPid} /\ lp \notin known
        /\ late \subseteq known /\ ping \subseteq Pid
        /\ population \in Int /\ phoenix \in BOOLEAN
        /\ child \in [Pid -> Process] /\ sent \in 0..MaxSignals
        /\ MasterRuns => \A p \in Pid : /\ Live(p) => p \in known \cup {lp} \/ child[p].deaf
                                        /\ p \in known \cup {lp} => child[p].at # "free"
        /\ StoppedLongpolling /\ LeftAreDeaf
BY PreforkAssumption DEF ServerIInv, ServerTypeOK, ChildrenAreKnown, Process, Signals

(* The same of the next state.                                              *)
LEMMA ServerIInvNext ==
    ASSUME master' \in Loop \cup Stopping \cup {"exec", "gone"},
           queue' \in Seq(Signals),
           known' \subseteq Pid, lp' \in Pid \cup {NoPid}, lp' \notin known',
           late' \subseteq known', ping' \subseteq Pid,
           population' \in Int, phoenix' \in BOOLEAN,
           child' \in [Pid -> Process], sent' \in 0..MaxSignals,
           master' \in Loop \cup Stopping =>
              \A p \in Pid :
                 /\ child'[p].at \notin {"free", "zombie"} => p \in known' \cup {lp'} \/ child'[p].deaf
                 /\ p \in known' \cup {lp'} => child'[p].at # "free",
           master' \in Stopping \cup {"exec"} => lp' = NoPid,
           master' = "exec" => \A p \in Pid : child'[p].at \notin {"free", "zombie"} => child'[p].deaf
    PROVE  ServerIInv'
BY PreforkAssumption DEF ServerIInv, ServerTypeOK, ChildrenAreKnown, Process, Signals, Live, MasterRuns,
                         StoppedLongpolling, LeftAreDeaf

(* process_zombie(): a child that is gone is forgotten.                     *)
LEMMA ReapKnows ==
    ASSUME ServerIInv, Reap, MasterRuns, queue' \in Seq(Signals),
           master' \in Loop \/ master' = master
    PROVE  ServerIInv'
<1> DEFINE dead == {p \in Pid : child[p].at = "zombie"}
<1>1. child' \in [Pid -> Process] /\ Free \in Process /\ Free.at = "free"
  BY ServerIInvIs DEF Reap, Free, Process
<1> QED
  BY <1>1, ServerIInvIs, ServerIInvNext, PreforkAssumption
     DEF Reap, Live, MasterRuns, StoppedLongpolling, LeftAreDeaf, Loop, Stopping

(* What _reexec() leaves of the master's variables.                         *)
LEMMA ForgetsIs ==
    ASSUME Forgets
    PROVE  /\ queue' \in Seq(Signals) /\ known' = {} /\ lp' = NoPid /\ late' = {} /\ ping' = {}
           /\ population' \in Int /\ phoenix' \in BOOLEAN
<1>1. Population \in Int /\ << >> \in Seq(Signals)
  BY PreforkAssumption
<1> QED
  BY <1>1 DEF Forgets

(* The death of the master, or its end.                                     *)
LEMMA GoneKnows ==
    ASSUME ServerIInv, NEW c \in [Pid -> Process], Gone(c)
    PROVE  ServerIInv'
<1>1. child' \in [Pid -> Process]
  BY ProcessesAre DEF ServerIInv, Gone
<1> QED
  BY <1>1, ServerIInvIs, ServerIInvNext, ForgetsIs DEF Gone, Loop, Stopping

(* stop() kills the longpolling server and knows the others still.          *)
LEMMA StopKnows ==
    ASSUME ServerIInv, NEW c \in [Pid -> Process],
           \A p \in Pid : c[p].at = child[p].at /\ (p \notin known => c[p] = child[p]),
           KillLongpolling(c), MasterRuns, master' \in Stopping, queue' \in Seq(Signals),
           population' \in Int, phoenix' \in BOOLEAN, UNCHANGED <<known, late, ping, sent>>
    PROVE  ServerIInv'
<1>1. child' \in [Pid -> Process]
  BY ProcessesAre DEF ServerIInv, KillLongpolling
<1>2. ASSUME NEW p \in Pid, p # lp \/ ~Live(p)
      PROVE  child'[p] = c[p]
  BY <1>2 DEF KillLongpolling, Live
<1>3. lp \in Pid /\ Live(lp) => child'[lp].at = "zombie"
  BY ProcessesAre DEF KillLongpolling, ServerIInv
<1>4. \A p \in Pid : /\ Live(p)' => p \in known \/ child'[p].deaf
                     /\ p \in known => child'[p].at # "free"
  BY <1>2, <1>3, ServerIInvIs DEF Live
<1> QED
  BY <1>1, <1>4, ServerIInvIs, ServerIInvNext, PreforkAssumption
     DEF KillLongpolling, MasterRuns, Live, StoppedLongpolling, LeftAreDeaf, Stopping

(* A step of the children, or a clock, while the master stays where it is.  *)
LEMMA ChildKnows ==
    ASSUME ServerIInv, NEW p \in Pid, NEW c \in Process, child' = [child EXCEPT ![p] = c],
           Live(p), c.at = "free" => master = "gone", c.at \notin {"free", "zombie"} => c.deaf = child[p].deaf,
           queue' \in Seq(Signals), ping' \subseteq Pid,
           UNCHANGED <<master, known, lp, late, population, phoenix, sent>>
    PROVE  ServerIInv'
<1>1. child' \in [Pid -> Process]
  BY ServerIInvIs
<1>2. MasterRuns' <=> MasterRuns
  BY DEF MasterRuns
<1> QED
  BY <1>1, <1>2, ServerIInvIs, ServerIInvNext DEF Live, StoppedLongpolling, LeftAreDeaf, MasterRuns, Loop, Stopping

-----------------------------------------------------------------------------

(* The master starts with no child.                                         *)
LEMMA ServerInitKnows == ServerInit => ServerIInv
<1> SUFFICES ASSUME ServerInit PROVE ServerIInv
  OBVIOUS
<1>1. queue \in Seq(Signals) /\ Free \in Process /\ child = [p \in Pid |-> Free] /\ Free.at = "free"
  BY DEF ServerInit, Free, Process
<1>2. child \in [Pid -> Process] /\ \A p \in Pid : child[p].at = "free"
  BY <1>1
<1>3. Population \in Int /\ 0 \in 0..MaxSignals
  BY PreforkAssumption
<1>4. /\ master = "signals" /\ known = {} /\ lp = NoPid /\ late = {} /\ ping = {} /\ population = Population
      /\ phoenix = FALSE /\ sent = 0
  BY DEF ServerInit
<1>5. StoppedLongpolling /\ LeftAreDeaf
  BY <1>4 DEF StoppedLongpolling, LeftAreDeaf, Stopping
<1>6. \A p \in Pid : ~Live(p) /\ p \notin known \cup {lp}
  BY <1>2, <1>4, PreforkAssumption DEF Live
<1> QED
  BY <1>1, <1>2, <1>3, <1>4, <1>5, <1>6, ServerIInvIs DEF Loop

(* The loop of the master.                                                  *)
LEMMA MasterKnows ==
    ASSUME ServerIInv, MasterStep
    PROVE  ServerIInv'
<1> USE ServerIInvIs, ServerIInvNext, PreforkAssumption
<1>1. CASE ProcessSignal
  <2>1. /\ queue' \in Seq(Signals) /\ population' \in Int /\ phoenix' \in BOOLEAN
        /\ UNCHANGED <<known, late, ping, sent>> /\ MasterRuns
    BY <1>1, QueueType DEF ProcessSignal, ServerIInv, MasterRuns, Loop, Stopping
  <2>2. CASE master = "signals" /\ StopGracefully
    <3>1. \A p \in Pid : /\ Interrupted(known)[p].at = child[p].at
                         /\ p \notin known => Interrupted(known)[p] = child[p]
      BY SignalledAre DEF ServerIInv
    <3>2. Interrupted(known) \in [Pid -> Process] /\ master' \in Stopping
      BY <2>2, SignalledAre DEF ServerIInv, StopGracefully, Stopping
    <3> QED
      BY <2>1, <2>2, <3>1, <3>2, StopKnows DEF StopGracefully
  <2>3. CASE master = "wait" /\ master' = "term" /\ UNCHANGED <<lp, child>>
    BY <2>1, <2>3 DEF Live, MasterRuns, StoppedLongpolling, Loop, Stopping
  <2>4. CASE UNCHANGED <<master, lp, child>>
    BY <2>1, <2>4 DEF Live, MasterRuns, StoppedLongpolling, LeftAreDeaf, Loop, Stopping
  <2> QED
    BY <1>1, <2>2, <2>3, <2>4 DEF ProcessSignal
<1>2. CASE SignalsDone
  BY <1>2, QueueType DEF SignalsDone, Goto, Live, MasterRuns, Loop, Stopping, ServerIInv
<1>3. CASE ProcessZombie
  BY <1>3, ReapKnows DEF ProcessZombie, Goto, MasterRuns, Loop
<1>4. CASE ProcessTimeout
  <2> DEFINE dead == {p \in late : Live(p)}
  <2>1. Cardinality(dead) \in Nat
    BY FS_Subset, FS_CardinalityType
  <2>2. queue' \in Seq(Signals)
    BY <1>4, <2>1, QueueType DEF ProcessTimeout, ServerIInv
  <2>3. child' \in [Pid -> Process] /\ \A p \in dead : child'[p].at = "zombie"
    BY <1>4, ProcessesAre DEF ProcessTimeout, ServerIInv
  <2>4. \A p \in Pid \ dead : child'[p] = child[p]
    BY <1>4 DEF ProcessTimeout
  <2> QED
    BY <1>4, <2>2, <2>3, <2>4 DEF ProcessTimeout, Goto, Live, MasterRuns, Loop, Stopping
<1>5. CASE Spawn
  <2> DEFINE free == {q \in Pid : child[q].at = "free"}
             p == Min(free)
  <2>1. p \in Pid /\ child[p].at = "free"
    <3>1. free \in SUBSET Nat /\ free # {}
      BY <1>5 DEF Spawn
    <3>2. p \in free
      BY <3>1, LeastIsIn
    <3> QED
      BY <3>2
  <2>2. [Free EXCEPT !.kind = Missing, !.at = "boot"] \in Process
    BY <1>5 DEF Free, Missing, Process, Spawn
  <2>3. child' = [child EXCEPT ![p] = [Free EXCEPT !.kind = Missing, !.at = "boot"]]
    BY <1>5 DEF Spawn
  <2>4. child'[p].at = "boot" /\ child' \in [Pid -> Process] /\ \A q \in Pid \ {p} : child'[q] = child[q]
    BY <2>1, <2>2, <2>3 DEF Free
  <2>5. /\ Missing = "longpolling" => lp = NoPid /\ lp' = p /\ known' = known
        /\ Missing # "longpolling" => known' = known \cup {p} /\ lp' = lp
        /\ UNCHANGED <<master, queue, late, population, phoenix, ping, sent>> /\ master = "spawn"
    BY <1>5 DEF Spawn, Missing
  <2>6. p \notin known \cup {lp}
    BY <2>1, <2>5 DEF MasterRuns, Loop
  <2> HIDE DEF p
  <2> QED
    BY <2>1, <2>4, <2>5, <2>6 DEF Live, MasterRuns, Loop, Stopping
<1>6. CASE SpawnFails
  BY <1>6, StopKnows DEF SpawnFails, StopForcefully, MasterRuns, Loop, Stopping
<1>7. CASE SpawnDone
  BY <1>7 DEF SpawnDone, Goto, memory, Live, MasterRuns, Loop, Stopping
<1>8. CASE Sleep
  BY <1>8 DEF Sleep, Goto, Live, MasterRuns, Loop, Stopping
<1>9. CASE WaitZombie
  BY <1>9, ReapKnows, QueueType DEF WaitZombie, MasterRuns, Stopping, ServerIInv
<1>10. CASE WaitEnds
  BY <1>10 DEF WaitEnds, memory, Live, MasterRuns, StoppedLongpolling, Loop, Stopping
<1>11. CASE Terminate
  <2>1. Terminated(known) \in [Pid -> Process]
    BY SignalledAre DEF ServerIInv
  <2>2. CASE Gone(Terminated(known))
    BY <2>1, <2>2, GoneKnows
  <2>3. CASE master' = "exec" /\ child' = Terminated(known) /\ UNCHANGED <<memory, ping, sent>>
    <3>1. lp = NoPid /\ \A p \in Pid : Live(p) => p \in known \/ child[p].deaf
      BY <1>11 DEF Terminate, StoppedLongpolling, MasterRuns, Stopping
    <3>2. \A p \in Pid : Terminated(known)[p].at \notin {"free", "zombie"} => Terminated(known)[p].deaf
      BY <3>1, SignalledAre DEF ServerIInv, Live
    <3> QED
      BY <2>1, <2>3, <3>1, <3>2 DEF memory, Loop, Stopping
  <2> QED
    BY <1>11, <2>2, <2>3 DEF Terminate
<1>12. CASE Reexec
  <2>1. CASE Gone(child)
    BY <2>1, GoneKnows
  <2>2. CASE master' = "signals" /\ Forgets /\ UNCHANGED <<child, sent>>
    BY <1>12, <2>2, ForgetsIs DEF Reexec, LeftAreDeaf, Live, Loop, Stopping
  <2> QED
    BY <1>12, <2>1, <2>2 DEF Reexec
<1> QED
  BY <1>1, <1>2, <1>3, <1>4, <1>5, <1>6, <1>7, <1>8, <1>9, <1>10, <1>11, <1>12 DEF MasterStep

(* The children, wherever the master is.                                    *)
LEMMA ChildrenKnow ==
    ASSUME ServerIInv, NEW p \in Pid, ChildStep(p) \/ GetsStuck(p) \/ Fails(p)
    PROVE  ServerIInv'
<1> USE ServerIInvIs, PreforkAssumption
<1>1. ASSUME Live(p), Dies(p) PROVE ServerIInv'
  <2>1. /\ Free \in Process /\ Free.at = "free" /\ Zombie(p) \in Process /\ Zombie(p).at = "zombie"
        /\ queue' \in Seq(Signals)
    BY <1>1, ProcessesAre, QueueType DEF Dies, Free, ServerIInv, Signals
  <2> QED
    BY <1>1, <2>1, ChildKnows DEF Dies
<1>2. ASSUME NEW c \in Process, Becomes(p, c), Live(p), c.at \notin {"free", "zombie"}, c.deaf = child[p].deaf,
             ping' \subseteq Pid
      PROVE  ServerIInv'
  BY <1>2, ChildKnows DEF Becomes, memory
<1>3. ASSUME Live(p), Check(p) PROVE ServerIInv'
  <2>1. PICK limit \in BOOLEAN : Becomes(p, [child[p] EXCEPT !.at = "sleep", !.alive = ~ParentChanged /\ ~limit])
    BY <1>3 DEF Check
  <2>2. [child[p] EXCEPT !.at = "sleep", !.alive = ~ParentChanged /\ ~limit] \in Process
    BY DEF Process, ParentChanged
  <2>3. ping' \subseteq Pid
    BY <1>3 DEF Check
  <2> QED
    BY <1>2, <1>3, <2>1, <2>2, <2>3 DEF Process
<1>4. CASE Boot(p)
  BY <1>2, <1>3, <1>4 DEF Boot, Live, Process
<1>5. CASE Wake(p) \/ GetsStuck(p)
  BY <1>2, <1>5 DEF Wake, GetsStuck, Live, Process
<1>6. CASE Work(p)
  BY <1>3, <1>6 DEF Work, Live
<1>7. CASE Quits(p) \/ LongpollingLeaves(p) \/ Fails(p)
  BY <1>1, <1>7 DEF Quits, LongpollingLeaves, Fails, Live
<1>8. CASE Late(p)
  BY <1>8, ServerIInvNext DEF Late, Live, MasterRuns, StoppedLongpolling, LeftAreDeaf, Loop, Stopping
<1> QED
  BY <1>4, <1>5, <1>6, <1>7, <1>8 DEF ChildStep

(* Every step of the master, of a child and of the system keeps the         *)
(* children known.                                                          *)
LEMMA ServerStepKnows == ServerIInv /\ [ServerNext]_serverVars => ServerIInv'
<1> SUFFICES ASSUME ServerIInv, [ServerNext]_serverVars PROVE ServerIInv'
  OBVIOUS
<1>1. CASE MasterStep
  BY <1>1, MasterKnows
<1>2. CASE MasterDies
  BY <1>2, GoneKnows, ServerIInvIs DEF MasterDies
<1>3. ASSUME NEW sig \in UserSignals, Send(sig) PROVE ServerIInv'
  <2>1. queue' \in Seq(Signals) /\ sent' \in 0..MaxSignals
    <3>1. sig \in Signals /\ queue' = Queued(sig) /\ sent \in 0..MaxSignals /\ sent < MaxSignals /\ sent' = sent + 1
      BY <1>3, PreforkAssumption, ServerIInvIs DEF Send, Signals
    <3>2. ServerTypeOK /\ MaxSignals \in Nat
      BY PreforkAssumption DEF ServerIInv
    <3> QED
      BY <3>1, <3>2, QueueType
  <2> QED
    BY <1>3, <2>1, ServerIInvIs, ServerIInvNext
       DEF Send, Live, MasterRuns, StoppedLongpolling, LeftAreDeaf, Loop, Stopping
<1>4. ASSUME NEW p \in Pid, ChildStep(p) \/ GetsStuck(p) \/ Fails(p) PROVE ServerIInv'
  BY <1>4, ChildrenKnow
<1>5. CASE UNCHANGED serverVars
  BY <1>5 DEF serverVars, memory, ServerIInv, ServerTypeOK, ChildrenAreKnown, StoppedLongpolling, LeftAreDeaf, Live,
              MasterRuns
<1> QED
  BY <1>1, <1>2, <1>3, <1>4, <1>5 DEF ServerNext

-----------------------------------------------------------------------------
(* The variables of the master and of its children keep their types.        *)
THEOREM ServerTypeCorrect == ServerSpec => []ServerTypeOK
<1>1. ServerIInv => ServerTypeOK
  BY DEF ServerIInv
<1> QED
  BY <1>1, ServerInitKnows, ServerStepKnows, PTL DEF ServerSpec

(* The master knows each child it has, for any number of workers, whatever  *)
(* dies, hangs, or is started, stopped or restarted.                        *)
THEOREM NoneForgotten == ServerSpec => []ChildrenAreKnown
<1>1. ServerIInv => ChildrenAreKnown
  BY DEF ServerIInv
<1> QED
  BY <1>1, ServerInitKnows, ServerStepKnows, PTL DEF ServerSpec
==============================================================================
