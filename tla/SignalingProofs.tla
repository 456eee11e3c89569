---------------------------- MODULE SignalingProofs ----------------------------
(* The signals between the registries, for any number of processes and      *)
(* threads.                                                                 *)
EXTENDS Signaling, FiniteSetTheorems, TLAPS

(* The types of the signals. *)
LEMMA SignalsAre ==
    ASSUME NEW f, f \in [{"reg", "cache"} -> Nat]
    PROVE  f \in Signals
BY DEF Signals

(* The values of the two sequences.                                         *)
LEMMA SignalsAreFunctions ==
    ASSUME NEW s \in Signals
    PROVE  s.reg \in Nat /\ s.cache \in Nat
BY DEF Signals

(* The types at the start.                                                  *)
LEMMA TypeInit == Init => TypeOK
<1> SUFFICES ASSUME Init PROVE TypeOK
  OBVIOUS
<1>1. Start \in Signals
  BY DEF Start, Signals
<1>2. 0 \in Ver /\ 1 \in Ver \ {0}
  BY SignalingAssumption DEF Ver
<1>3. Nothing \in [Item -> Ver] /\ Def \in Item
  BY <1>2 DEF Nothing, Item
<1> QED
  BY <1>1, <1>2, <1>3 DEF Init, TypeOK

(* An emptied cache has the definitions and no keys.                        *)
LEMMA EmptiedType == ASSUME NEW v \in Ver PROVE Emptied(v) \in [Item -> Ver] /\ Emptied(v)[Def] = v
BY SignalingAssumption DEF Emptied, Ver, Item

(* What threads and processes see.                                          *)
LEMMA SeesType ==
    ASSUME TypeOK
    PROVE  /\ Def \in Item
           /\ Nothing \in [Item -> Ver]
           /\ db[Def] \in Ver \ {0}
           /\ \A p \in Proc : local[p] \in [Item -> Ver] /\ local[p][Def] \in Ver \ {0}
           /\ \A t \in Thread : procOf[t] \in Proc
           /\ Start \in Signals
<1>1. Def \in Item /\ 0 \in Ver
  BY SignalingAssumption DEF Item, Ver
<1>2. Nothing \in [Item -> Ver]
  BY <1>1 DEF Nothing
<1>3. Start \in Signals
  BY DEF Start, Signals
<1> QED
  BY <1>1, <1>2, <1>3, SignalingAssumption DEF TypeOK

(* reset_changes() reloads the registry from the database or empties the    *)
(* cache.                                                                   *)
LEMMA ResetType ==
    ASSUME TypeOK, NEW t \in Thread, Reset(t)
    PROVE  /\ local' \in [Proc -> [Item -> Ver]]
           /\ \A p \in Proc : local'[p][Def] # 0
           /\ flag' \in [Thread -> SUBSET {"reg", "cache"}]
<1> DEFINE p == procOf[t]
           h == IF "reg" \in flag[t] THEN Emptied(db[Def])
                ELSE IF "cache" \in flag[t] THEN Emptied(local[p][Def])
                ELSE local[p]
<1>1. h \in [Item -> Ver] /\ h[Def] # 0
  BY SeesType, EmptiedType
<1>2. local' = [local EXCEPT ![p] = h]
  BY DEF Reset
<1>3. flag' \in [Thread -> SUBSET {"reg", "cache"}]
  BY DEF Reset, TypeOK
<1> HIDE DEF h
<1> QED
  BY <1>1, <1>2, <1>3 DEF TypeOK

(* The end of a transaction takes its snapshot and its writes.              *)
LEMMA EndType ==
    ASSUME TypeOK, NEW t \in Thread, EndTransaction(t)
    PROVE  snap' \in [Thread -> [Item -> Ver]] /\ wrote' \in [Thread -> [Item -> Ver]]
BY SeesType DEF EndTransaction, TypeOK

(* signal_changes() draws from the sequences.                               *)
LEMMA SignalType ==
    ASSUME TypeOK, NEW t \in Thread, Signal(t)
    PROVE  signal' \in Signals /\ own' \in [Proc -> Signals]
<1>1. signal.reg \in Nat /\ signal.cache \in Nat
  BY SignalsAreFunctions DEF TypeOK
<1>2. signal' \in Signals
  BY <1>1, SignalsAre DEF Signal
<1>3. own' \in [Proc -> Signals]
  <2> DEFINE n == [s \in {"reg", "cache"} |-> IF s \in Bumped(t) THEN signal'[s] ELSE own[procOf[t]][s]]
  <2>1. signal'.reg \in Nat /\ signal'.cache \in Nat /\ own[procOf[t]].reg \in Nat /\ own[procOf[t]].cache \in Nat
    BY <1>2, SeesType, SignalsAreFunctions DEF TypeOK
  <2>2. n \in Signals
    BY <2>1, SignalsAre
  <2>3. own' = [own EXCEPT ![procOf[t]] = n]
    BY DEF Signal
  <2> HIDE DEF n
  <2> QED
    BY <2>2, <2>3 DEF TypeOK
<1> QED
  BY <1>2, <1>3

(* Every step keeps the types.                                              *)
LEMMA TypeStep == ASSUME TypeOK, [Next]_vars PROVE TypeOK'
<1> DEFINE PC == {"idle", "begun", "checking", "running", "committed", "signalled"}
<1>0. \A t \in Thread, b \in PC : \A a : Goto(t, a, b) => pc' \in [Thread -> PC]
  BY DEF TypeOK, Goto
<1>1. ASSUME NEW t \in Thread, StartRequest(t), UNCHANGED caller PROVE TypeOK'
  <2>1. snap' \in [Thread -> [Item -> Ver]]
    BY <1>1, SeesType DEF StartRequest, TypeOK
  <2> QED
    BY <1>0, <1>1, <2>1 DEF StartRequest, TypeOK
<1>2. ASSUME NEW t \in Thread, Check(t), UNCHANGED caller PROVE TypeOK'
  BY <1>0, <1>2 DEF Check, TypeOK
<1>3. ASSUME NEW t \in Thread, Apply(t), UNCHANGED caller PROVE TypeOK'
  <2> DEFINE p == procOf[t]
  <2>1. p \in Proc
    BY SeesType
  <2>2. own' \in [Proc -> Signals] /\ seen' \in [Thread -> Signals]
    BY <1>3, SeesType DEF Apply, TypeOK
  <2>3. flag' \in [Thread -> SUBSET {"reg", "cache"}]
    BY <1>3 DEF Apply, TypeOK, Unflagged
  <2>4. PICK h \in [Item -> Ver] : h[Def] # 0 /\ local' = [local EXCEPT ![p] = h]
    <3>1. CASE local' = [local EXCEPT ![p] = Emptied(db[Def])]
      BY <3>1, SeesType, EmptiedType
    <3>2. CASE local' = [local EXCEPT ![p] = Emptied(local[p][Def])]
      BY <3>2, <2>1, SeesType, EmptiedType
    <3>3. CASE local' = local
      BY <3>3, <2>1, SeesType DEF TypeOK
    <3> QED
      BY <1>3, <3>1, <3>2, <3>3 DEF Apply
  <2>5. local' \in [Proc -> [Item -> Ver]] /\ \A q \in Proc : local'[q][Def] # 0
    BY <2>4 DEF TypeOK
  <2> QED
    BY <1>0, <1>3, <2>2, <2>3, <2>5 DEF Apply, TypeOK
<1>4. ASSUME NEW t \in Thread, Begin(t), UNCHANGED caller PROVE TypeOK'
  BY <1>4 DEF Begin, TypeOK
<1>5. ASSUME NEW t \in Thread, NEW i \in Key, Load(t, i), UNCHANGED caller PROVE TypeOK'
  <2>1. i \in Item /\ i # Def /\ View(t, i) \in Ver
    BY SignalingAssumption DEF View, TypeOK, Item
  <2>2. local' \in [Proc -> [Item -> Ver]] /\ \A p \in Proc : local'[p][Def] # 0
    BY <1>5, <2>1, SeesType DEF Load, TypeOK
  <2> QED
    BY <1>5, <2>2 DEF Load, TypeOK
<1>6. ASSUME NEW t \in Thread, NEW i \in MayModify[t], Modify(t, i), UNCHANGED caller PROVE TypeOK'
  <2>1. stamp + 1 \in Ver \ {0}
    BY <1>6, SignalingAssumption DEF Modify, TypeOK, Ver
  <2>0. i \in Item
    BY SignalingAssumption
  <2> DEFINE p == procOf[t]
             h == Emptied(IF i = Def THEN stamp + 1 ELSE local[p][Def])
  <2>2. h \in [Item -> Ver] /\ h[Def] # 0
    BY <2>0, <2>1, SeesType, EmptiedType
  <2>3. local' = [local EXCEPT ![p] = h]
    BY <1>6 DEF Modify
  <2> HIDE DEF h
  <2>4. local' \in [Proc -> [Item -> Ver]] /\ \A q \in Proc : local'[q][Def] # 0
    BY <2>2, <2>3 DEF TypeOK
  <2>5. wrote' \in [Thread -> [Item -> Ver]]
    BY <1>6, <2>0, <2>1 DEF Modify, TypeOK
  <2>6. flag' \in [Thread -> SUBSET {"reg", "cache"}]
    BY <1>6 DEF Modify, TypeOK
  <2> QED
    BY <1>6, <2>1, <2>4, <2>5, <2>6 DEF Modify, TypeOK
<1>7. ASSUME NEW t \in Thread, Commit(t), UNCHANGED caller PROVE TypeOK'
  <2>1. db' \in [Item -> Ver \ {0}]
    BY <1>7 DEF Commit, TypeOK
  <2>2. pc' \in [Thread -> PC]
    BY <1>0, <1>7 DEF Commit
  <2> QED
    BY <1>7, <2>1, <2>2, EndType DEF Commit, TypeOK
<1>8. ASSUME NEW t \in Thread, Signal(t), UNCHANGED caller PROVE TypeOK'
  <2>2. signal' \in Signals /\ own' \in [Proc -> Signals]
    BY <1>8, SignalType
  <2>4. pc' \in [Thread -> PC]
    BY <1>0, <1>8 DEF Signal
  <2>5. flag' \in [Thread -> SUBSET {"reg", "cache"}]
    BY <1>8 DEF Signal, TypeOK
  <2> QED
    BY <1>8, <2>2, <2>4, <2>5 DEF Signal, TypeOK
<1>9. ASSUME NEW t \in Thread, NextCallback(t), UNCHANGED caller PROVE TypeOK'
  BY <1>0, <1>9 DEF NextCallback, TypeOK
<1>10. ASSUME NEW t \in Thread, Abort(t), UNCHANGED caller PROVE TypeOK'
  <2>1. pc' \in [Thread -> PC]
    BY <1>0, <1>10 DEF Abort
  <2> QED
    BY <1>10, <2>1, ResetType, EndType DEF Abort, TypeOK
<1>11. ASSUME NEW t \in Thread, CommitRaises(t), UNCHANGED caller PROVE TypeOK'
  <2>1. pc' \in [Thread -> PC]
    BY <1>0, <1>11 DEF CommitRaises
  <2>2. CASE caller[t] = "rpc"
    BY <1>11, <2>1, <2>2, ResetType, EndType DEF CommitRaises, TypeOK
  <2>3. CASE caller[t] # "rpc"
    BY <1>11, <2>1, <2>3, EndType DEF CommitRaises, TypeOK
  <2> QED
    BY <2>2, <2>3
<1>12. ASSUME NEW t \in Thread, Retry(t), UNCHANGED caller PROVE TypeOK'
  BY <1>12, EndType DEF Retry, TypeOK
<1>13. CASE UNCHANGED vars
  BY <1>13 DEF vars, TypeOK
<1> QED
  BY <1>1, <1>2, <1>3, <1>4, <1>5, <1>6, <1>7, <1>8, <1>9, <1>10, <1>11, <1>12, <1>13 DEF Next

(* No invalidation causes another one: every signal sent and every set of   *)
(* flags that may still cause one has a write of its own.                   *)

Flags == {t \in Thread : flag[t] # {}}

Counted ==
    /\ IsFiniteSet(Flags)
    /\ signal.reg + signal.cache + Cardinality(Flags) <= stamp + 1

IInvCounted == TypeOK /\ Counted

(* Fewer flags need fewer signals.                                          *)
LEMMA FewerFlags ==
    ASSUME IInvCounted, UNCHANGED <<stamp, signal>>, \A t \in Thread : flag'[t] # {} => flag[t] # {}
    PROVE  Counted'
<1>1. Flags' \subseteq Flags
  BY DEF Flags
<1>2. IsFiniteSet(Flags') /\ Cardinality(Flags') <= Cardinality(Flags)
  BY <1>1, FS_Subset DEF IInvCounted, Counted
<1>3. Cardinality(Flags) \in Nat /\ Cardinality(Flags') \in Nat
  BY <1>2, FS_CardinalityType DEF IInvCounted, Counted
<1>4. signal.reg \in Nat /\ signal.cache \in Nat /\ stamp \in Nat
  BY SignalsAreFunctions DEF IInvCounted, TypeOK, Ver
<1> QED
  BY <1>2, <1>3, <1>4 DEF IInvCounted, Counted

(* A write takes a stamp of its own and flags its thread.                   *)
LEMMA ModifyCounts ==
    ASSUME IInvCounted, NEW t \in Thread, NEW i \in MayModify[t], Modify(t, i)
    PROVE  Counted'
<1>1. Flags' \subseteq Flags \cup {t}
  BY DEF Flags, Modify, IInvCounted, TypeOK
<1>2. /\ IsFiniteSet(Flags \cup {t})
      /\ Cardinality(Flags \cup {t}) <= Cardinality(Flags) + 1
      /\ Cardinality(Flags) \in Nat
  <2>1. IsFiniteSet(Flags) /\ Cardinality(Flags) \in Nat
    BY FS_CardinalityType DEF IInvCounted, Counted
  <2>2. /\ IsFiniteSet(Flags \cup {t})
        /\ \/ Cardinality(Flags \cup {t}) = Cardinality(Flags)
           \/ Cardinality(Flags \cup {t}) = Cardinality(Flags) + 1
    BY <2>1, FS_AddElement
  <2> QED
    BY <2>1, <2>2
<1>3. /\ IsFiniteSet(Flags') /\ Cardinality(Flags') \in Nat
      /\ Cardinality(Flags \cup {t}) \in Nat
      /\ Cardinality(Flags') <= Cardinality(Flags \cup {t})
  BY <1>1, <1>2, FS_Subset, FS_CardinalityType
<1>4. signal' = signal /\ stamp' = stamp + 1
  BY DEF Modify
<1>5. signal.reg \in Nat /\ signal.cache \in Nat /\ stamp \in Nat
  BY SignalsAreFunctions DEF IInvCounted, TypeOK, Ver
<1> QED
  BY <1>2, <1>3, <1>4, <1>5 DEF IInvCounted, Counted

(* A signal takes the flags it was sent for.                                *)
LEMMA SignalCounts ==
    ASSUME IInvCounted, NEW t \in Thread, Signal(t)
    PROVE  Counted'
<1>1. signal.reg \in Nat /\ signal.cache \in Nat /\ stamp \in Nat
  BY SignalsAreFunctions DEF IInvCounted, TypeOK, Ver
<1>2. flag[t] \subseteq {"reg", "cache"} /\ \A u \in Thread : flag'[u] = IF u = t THEN {} ELSE flag[u]
  BY DEF Signal, IInvCounted, TypeOK
<1>3. /\ signal'.reg = IF "reg" \in Bumped(t) THEN signal.reg + 1 ELSE signal.reg
      /\ signal'.cache = IF "cache" \in Bumped(t) THEN signal.cache + 1 ELSE signal.cache
      /\ stamp' = stamp
  BY DEF Signal
<1>4. CASE flag[t] = {}
  <2>1. Bumped(t) = {}
    BY <1>4 DEF Bumped
  <2>2. signal'.reg = signal.reg /\ signal'.cache = signal.cache
    BY <1>3, <2>1
  <2>3. Flags' = Flags
    BY <1>2, <1>4 DEF Flags
  <2> QED
    BY <1>3, <2>2, <2>3 DEF IInvCounted, Counted
<1>5. CASE flag[t] # {}
  <2>1. Bumped(t) = {"reg"} \/ Bumped(t) = {"cache"}
    BY <1>2, <1>5 DEF Bumped
  <2>2. signal'.reg + signal'.cache = signal.reg + signal.cache + 1
    BY <1>1, <1>3, <2>1
  <2>3. Flags' = Flags \ {t} /\ t \in Flags
    BY <1>2, <1>5 DEF Flags
  <2>4. /\ IsFiniteSet(Flags') /\ Cardinality(Flags') = Cardinality(Flags) - 1
        /\ Cardinality(Flags) \in Nat /\ Cardinality(Flags') \in Nat
    BY <2>3, FS_RemoveElement, FS_CardinalityType DEF IInvCounted, Counted
  <2>5. signal'.reg \in Nat /\ signal'.cache \in Nat
    BY <1>1, <1>3
  <2> QED
    BY <1>1, <1>3, <2>2, <2>4, <2>5 DEF IInvCounted, Counted
<1> QED
  BY <1>4, <1>5

(* Every step keeps that the signals sent and due are no more than the      *)
(* writes.                                                                  *)
LEMMA CountedStep == ASSUME IInvCounted, [Next]_vars PROVE IInvCounted'
<1>1. TypeOK'
  BY TypeStep DEF IInvCounted
<1>2. ASSUME NEW t \in Thread,
             \/ StartRequest(t) \/ Check(t) \/ Apply(t) \/ Begin(t) \/ Commit(t) \/ NextCallback(t)
             \/ Abort(t) \/ CommitRaises(t) \/ Retry(t)
             \/ \E i \in Key : Load(t, i)
      PROVE  Counted'
  <2>1. UNCHANGED <<stamp, signal>>
    BY <1>2 DEF StartRequest, Check, Apply, Begin, Commit, NextCallback, Abort, CommitRaises, Retry, Load
  <2>2. \A u \in Thread : flag'[u] # {} => flag[u] # {}
    BY <1>2 DEF StartRequest, Check, Apply, Begin, Commit, NextCallback, Abort, CommitRaises, Retry, Load,
                Reset, Unflagged, IInvCounted, TypeOK
  <2> QED
    BY <2>1, <2>2, FewerFlags
<1>3. ASSUME UNCHANGED vars PROVE Counted'
  BY <1>3, FewerFlags DEF vars
<1>4. Next \/ UNCHANGED vars
  OBVIOUS
<1>5. Counted'
  BY <1>2, <1>3, <1>4, ModifyCounts, SignalCounts DEF Next
<1> QED
  BY <1>1, <1>5 DEF IInvCounted

(* A registry, a snapshot, a flag and a sequence are of the kind declared.  *)
THEOREM TypeCorrect == Spec => []TypeOK
BY TypeInit, TypeStep, PTL DEF Spec

(* There are never more signals than writes: a process that reloads because *)
(* of a signal sends none.                                                  *)
THEOREM NoLoop == Spec => []NoInvalidationLoop
<1>1. Init => IInvCounted
  <2> SUFFICES ASSUME Init PROVE IInvCounted
    OBVIOUS
  <2>1. Flags = {}
    BY DEF Flags, Init
  <2>2. signal.reg = 1 /\ signal.cache = 1 /\ stamp = 1
    BY DEF Init, Start
  <2> QED
    BY <2>1, <2>2, TypeInit, FS_EmptySet DEF IInvCounted, Counted
<1>2. IInvCounted /\ [Next]_vars => IInvCounted'
  BY CountedStep
<1>3. IInvCounted => NoInvalidationLoop
  <2> SUFFICES ASSUME IInvCounted PROVE NoInvalidationLoop
    OBVIOUS
  <2>1. Cardinality(Flags) \in Nat
    BY FS_CardinalityType DEF IInvCounted, Counted
  <2>2. signal.reg \in Nat /\ signal.cache \in Nat /\ stamp \in Nat
    BY SignalsAreFunctions DEF IInvCounted, TypeOK, Ver
  <2> QED
    BY <2>1, <2>2 DEF IInvCounted, Counted, NoInvalidationLoop
<1> QED
  BY <1>1, <1>2, <1>3, PTL DEF Spec

------------------------------------------------------------------------------
(* What the reading processes hold.                                         *)

(* Cron jobs signal before their transaction is committed: a reader that    *)
(* loads in between keeps what it loaded.  What follows is about crons that *)
(* change nothing, and readers of one thread: another thread's transaction  *)
(* may be older than the check, too.                                        *)
CronsOnlyRead == \A c \in Callers : \A t \in Thread : c[t] = "cron" => MayModify[t] = {}

OneThreadReads ==
    \A t, u \in Thread : t # u /\ procOf[t] = procOf[u] => MayModify[t] \cup MayModify[u] # {}

(* A write is flagged, and no transaction is open outside the handler. *)
FlaggedAt(t) ==
    /\ \A i \in Item : wrote[t][i] # 0 => /\ i \in MayModify[t]
                                          /\ (IF i = Def THEN "reg" ELSE "cache") \in flag[t]
    /\ "reg" \in flag[t] => Def \in MayModify[t]
    /\ flag[t] # {} => MayModify[t] # {}
    /\ caller[t] # "cron" /\ pc[t] # "running" => snap[t] = Nothing /\ wrote[t] = Nothing

Flagged == \A t \in Thread : FlaggedAt(t)

NotAhead(s) == s.reg <= signal.reg /\ s.cache <= signal.cache

(* The registry is never reloaded where nobody changes the definitions. *)
Recorded ==
    /\ NotAhead(Start)
    /\ \A p \in Proc : NotAhead(own[p])
    /\ \A t \in Thread : NotAhead(seen[t])
    /\ (\A t \in Thread : Def \notin MayModify[t])
         => /\ signal.reg = 1
            /\ \A p \in Proc : own[p].reg = 1
            /\ \A t \in Thread : seen[t].reg = 1

(* committed, and the signal not yet sent *)
Pending(s) == \E t \in Thread : pc[t] = "committed" /\ s \in flag[t]

DefinitionsFresh(p) ==
    own[p].reg = signal.reg /\ ~Pending("reg") => local[p][Def] = db[Def]

KeysFresh(p) ==
    own[p] = signal /\ ~Pending("reg") /\ ~Pending("cache")
      => \A i \in Key :
            /\ local[p][i] \in {0, db[i]}
            /\ \A t \in Thread : procOf[t] = p /\ snap[t] # Nothing => snap[t][i] = db[i]

Reading == \A p \in Readers : DefinitionsFresh(p) /\ KeysFresh(p)

IInv == TypeOK /\ Flagged /\ Recorded /\ Reading

(* Cron threads only read.                                                  *)
LEMMA CronsWriteNothing == ASSUME TypeOK, CronsOnlyRead PROVE \A t \in Thread : caller[t] = "cron" => MayModify[t] = {}
BY DEF TypeOK, CronsOnlyRead

(* Nothing is written by a thread that is not in its handler, or by a cron. *)
LEMMA NothingWritten ==
    ASSUME TypeOK, Flagged, CronsOnlyRead, NEW t \in Thread,
           pc[t] # "running" \/ MayModify[t] = {} \/ flag[t] = {}
    PROVE  \A i \in Item : wrote[t][i] = 0
<1>1. FlaggedAt(t)
  BY DEF Flagged
<1>2. CASE caller[t] # "cron" /\ pc[t] # "running"
  BY <1>1, <1>2 DEF FlaggedAt, Nothing
<1>3. CASE MayModify[t] = {} \/ flag[t] = {}
  BY <1>1, <1>3 DEF FlaggedAt
<1> QED
  BY <1>2, <1>3, CronsWriteNothing

(* A step of one thread leaves what the others have flagged.                *)
LEMMA FlaggedByOne ==
    ASSUME Flagged, UNCHANGED caller, NEW t \in Thread, FlaggedAt(t)',
           \A u \in Thread \ {t} : /\ wrote'[u] = wrote[u] /\ flag'[u] = flag[u]
                                   /\ pc'[u] = pc[u] /\ snap'[u] = snap[u]
    PROVE  Flagged'
BY DEF Flagged, FlaggedAt

(* Where the registry is reloaded every process has one thread. *)
LEMMA AloneIfReloaded ==
    ASSUME TypeOK, Recorded, NEW t \in Thread, own[procOf[t]].reg # seen[t].reg
    PROVE  \A u \in Thread : procOf[u] = procOf[t] => u = t
<1>1. procOf[t] \in Proc
  BY SeesType
<1>2. ~ \A u \in Thread : Def \notin MayModify[u]
  BY <1>1 DEF Recorded
<1> QED
  BY <1>2, SignalingAssumption

(* The end of a transaction, thread by thread.                              *)
LEMMA EndsAt ==
    ASSUME TypeOK, NEW t \in Thread, EndTransaction(t)
    PROVE  /\ snap'[t] = Nothing /\ wrote'[t] = Nothing
           /\ \A u \in Thread \ {t} : snap'[u] = snap[u] /\ wrote'[u] = wrote[u]
BY DEF EndTransaction, TypeOK

(* Every step keeps that what a thread has written it has flagged.          *)
LEMMA FlaggedStep ==
    ASSUME TypeOK, Flagged, Recorded, CronsOnlyRead, Next
    PROVE  Flagged'
<1>0. UNCHANGED caller
  BY DEF Next
<1>1. ASSUME NEW t \in Thread, StartRequest(t) \/ Check(t) PROVE Flagged'
  <2>1. /\ wrote' = wrote /\ flag' = flag
        /\ caller[t] # "cron" => snap'[t] = snap[t] \/ snap'[t] = Nothing
        /\ pc[t] # "running"
        /\ \A u \in Thread \ {t} : pc'[u] = pc[u] /\ snap'[u] = snap[u]
    BY <1>1 DEF StartRequest, Check, Goto, TypeOK
  <2>2. FlaggedAt(t)
    BY DEF Flagged
  <2>3. FlaggedAt(t)'
    BY <1>0, <2>1, <2>2 DEF FlaggedAt
  <2> QED
    BY <1>0, <2>1, <2>3, FlaggedByOne
<1>2. ASSUME NEW t \in Thread, Apply(t) PROVE Flagged'
  <2>1. UNCHANGED <<wrote, snap>> /\ pc'[t] = "running" /\ pc[t] = "checking"
    BY <1>2 DEF Apply, Goto, TypeOK
  <2>2. \A u \in Thread \ {t} : pc'[u] = pc[u]
    BY <1>2 DEF Apply, Goto, TypeOK
  <2>3. flag'[t] \subseteq flag[t] /\ \A u \in Thread \ {t} : flag'[u] = flag[u]
    BY <1>2, AloneIfReloaded DEF Apply, Unflagged, TypeOK
  <2>4. \A i \in Item : wrote[t][i] = 0
    BY <2>1, NothingWritten
  <2>5. FlaggedAt(t)'
    BY <2>1, <2>3, <2>4 DEF FlaggedAt, Flagged
  <2> QED
    BY <1>0, <2>1, <2>2, <2>3, <2>5, FlaggedByOne
<1>3. ASSUME NEW t \in Thread, Begin(t) \/ \E i \in Key : Load(t, i) PROVE Flagged'
  <2>1. UNCHANGED <<pc, wrote, flag>> /\ pc[t] = "running"
    BY <1>3 DEF Begin, Load
  <2>2. \A u \in Thread \ {t} : snap'[u] = snap[u]
    BY <1>3 DEF Begin, Load, TypeOK
  <2>3. FlaggedAt(t)'
    BY <2>1 DEF FlaggedAt, Flagged
  <2> QED
    BY <1>0, <2>1, <2>2, <2>3, FlaggedByOne
<1>4. ASSUME NEW t \in Thread, NEW i \in MayModify[t], Modify(t, i) PROVE Flagged'
  <2>1. UNCHANGED <<pc, snap>> /\ pc[t] = "running"
    BY <1>4 DEF Modify
  <2>2. \A u \in Thread \ {t} : wrote'[u] = wrote[u] /\ flag'[u] = flag[u]
    BY <1>4 DEF Modify, TypeOK
  <2>3. flag'[t] = flag[t] \cup {IF i = Def THEN "reg" ELSE "cache"}
    BY <1>4 DEF Modify, TypeOK
  <2>4. \A j \in Item \ {i} : wrote'[t][j] = wrote[t][j]
    BY <1>4 DEF Modify, TypeOK
  <2>5. FlaggedAt(t)'
    BY <2>1, <2>3, <2>4 DEF FlaggedAt, Flagged
  <2> QED
    BY <1>0, <2>1, <2>2, <2>5, FlaggedByOne
<1>5. ASSUME NEW t \in Thread, Commit(t) \/ Abort(t) \/ CommitRaises(t) \/ Retry(t) PROVE Flagged'
  <2>1. /\ snap'[t] = Nothing /\ wrote'[t] = Nothing
        /\ \A u \in Thread \ {t} : snap'[u] = snap[u] /\ wrote'[u] = wrote[u]
    BY <1>5, EndsAt DEF Commit, Abort, CommitRaises, Retry
  <2>2. \A u \in Thread \ {t} : pc'[u] = pc[u] /\ flag'[u] = flag[u]
    BY <1>5 DEF Commit, Abort, CommitRaises, Retry, Reset, Goto, TypeOK
  <2>3. flag'[t] \subseteq flag[t]
    BY <1>5 DEF Commit, Abort, CommitRaises, Retry, Reset, TypeOK
  <2>4. FlaggedAt(t)'
    BY <2>1, <2>3 DEF FlaggedAt, Flagged, Nothing
  <2> QED
    BY <1>0, <2>1, <2>2, <2>4, FlaggedByOne
<1>6. ASSUME NEW t \in Thread, Signal(t) \/ NextCallback(t) PROVE Flagged'
  <2>1. UNCHANGED <<wrote, snap>> /\ (caller[t] = "cron" \/ pc[t] # "running")
    BY <1>6 DEF Signal, NextCallback, Goto
  <2>2. flag'[t] \subseteq flag[t] /\ \A u \in Thread \ {t} : pc'[u] = pc[u] /\ flag'[u] = flag[u]
    BY <1>6 DEF Signal, NextCallback, Goto, TypeOK
  <2>3. \A i \in Item : wrote[t][i] = 0
    BY <2>1, NothingWritten, CronsWriteNothing
  <2>4. FlaggedAt(t)'
    BY <1>0, <2>1, <2>2, <2>3 DEF FlaggedAt, Flagged
  <2> QED
    BY <1>0, <2>1, <2>2, <2>4, FlaggedByOne
<1> QED
  BY <1>1, <1>2, <1>3, <1>4, <1>5, <1>6 DEF Next

(* What signal_changes() makes of the sequences and of its process.         *)
LEMMA SignalTo ==
    ASSUME TypeOK, NEW t \in Thread, Signal(t)
    PROVE  /\ signal'.reg = IF "reg" \in Bumped(t) THEN signal.reg + 1 ELSE signal.reg
           /\ signal'.cache = IF "cache" \in Bumped(t) THEN signal.cache + 1 ELSE signal.cache
           /\ own'[procOf[t]].reg = IF "reg" \in Bumped(t) THEN signal'.reg ELSE own[procOf[t]].reg
           /\ own'[procOf[t]].cache = IF "cache" \in Bumped(t) THEN signal'.cache ELSE own[procOf[t]].cache
           /\ \A p \in Proc \ {procOf[t]} : own'[p] = own[p]
           /\ flag'[t] = {} /\ \A u \in Thread \ {t} : pc'[u] = pc[u] /\ flag'[u] = flag[u]
<1>1. procOf[t] \in Proc
  BY SeesType
<1>2. /\ signal'.reg = IF "reg" \in Bumped(t) THEN signal.reg + 1 ELSE signal.reg
      /\ signal'.cache = IF "cache" \in Bumped(t) THEN signal.cache + 1 ELSE signal.cache
  BY DEF Signal
<1> DEFINE n == [s \in {"reg", "cache"} |-> IF s \in Bumped(t) THEN signal'[s] ELSE own[procOf[t]][s]]
<1>3. own' = [own EXCEPT ![procOf[t]] = n]
  BY DEF Signal
<1>4. /\ n.reg = IF "reg" \in Bumped(t) THEN signal'.reg ELSE own[procOf[t]].reg
      /\ n.cache = IF "cache" \in Bumped(t) THEN signal'.cache ELSE own[procOf[t]].cache
  OBVIOUS
<1> HIDE DEF n
<1>5. own'[procOf[t]] = n /\ \A p \in Proc \ {procOf[t]} : own'[p] = own[p]
  BY <1>1, <1>3 DEF TypeOK
<1>6. flag'[t] = {} /\ \A u \in Thread \ {t} : pc'[u] = pc[u] /\ flag'[u] = flag[u]
  BY DEF Signal, Goto, TypeOK
<1> QED
  BY <1>2, <1>4, <1>5, <1>6

(* Every step keeps that no process is ahead of the sequences.              *)
LEMMA RecordedStep ==
    ASSUME TypeOK, Flagged, Recorded, Next
    PROVE  Recorded'
<1>0. /\ signal.reg \in Nat /\ signal.cache \in Nat
      /\ \A p \in Proc : own[p].reg \in Nat /\ own[p].cache \in Nat
      /\ \A t \in Thread : seen[t].reg \in Nat /\ seen[t].cache \in Nat
      /\ Start.reg = 1 /\ Start.cache = 1
  BY SignalsAreFunctions DEF TypeOK, Start
<1>1. ASSUME NEW t \in Thread, Signal(t) PROVE Recorded'
  <2>1. signal'.reg >= signal.reg /\ signal'.cache >= signal.cache /\ signal'.reg \in Nat /\ signal'.cache \in Nat
    BY <1>0, <1>1, SignalTo
  <2>2. ASSUME NEW p \in Proc PROVE NotAhead(own[p])'
    <3>1. CASE p = procOf[t]
      BY <1>0, <1>1, <2>1, <3>1, SignalTo DEF Recorded, NotAhead
    <3>2. CASE p # procOf[t]
      BY <1>0, <1>1, <2>1, <3>2, SignalTo DEF Recorded, NotAhead
    <3> QED
      BY <3>1, <3>2
  <2>3. seen' = seen /\ \A u \in Thread : NotAhead(seen[u])'
    BY <1>0, <1>1, <2>1 DEF Recorded, NotAhead, Signal
  <2>4. NotAhead(Start)'
    BY <1>0, <2>1 DEF Recorded, NotAhead, Start
  <2>5. ASSUME \A u \in Thread : Def \notin MayModify[u]
        PROVE  /\ signal'.reg = 1 /\ \A u \in Thread : seen'[u].reg = 1
               /\ \A p \in Proc : own'[p].reg = 1
    <3>1. "reg" \notin flag[t]
      BY <2>5 DEF Flagged, FlaggedAt
    <3>2. "reg" \notin Bumped(t)
      BY <3>1 DEF Bumped
    <3> QED
      BY <1>1, <2>3, <2>5, <3>2, SignalTo DEF Recorded
  <2> QED
    BY <2>2, <2>3, <2>4, <2>5 DEF Recorded
<1>2. ASSUME NEW t \in Thread, Check(t) \/ Apply(t) PROVE Recorded'
  <2>1. signal' = signal
    BY <1>2 DEF Check, Apply
  <2>2. \A p \in Proc : own'[p] = own[p] \/ \E u \in Thread : own'[p] = seen[u]
    BY <1>2 DEF Check, Apply, TypeOK
  <2>3. \A u \in Thread : seen'[u] \in {seen[u], signal, Start}
    BY <1>2 DEF Check, Apply, TypeOK
  <2>4. NotAhead(signal)
    BY <1>0 DEF NotAhead
  <2>5. (\A p \in Proc : NotAhead(own[p])') /\ (\A u \in Thread : NotAhead(seen[u])') /\ NotAhead(Start)'
    BY <2>1, <2>2, <2>3, <2>4 DEF Recorded, NotAhead, Start
  <2>6. ASSUME \A u \in Thread : Def \notin MayModify[u]
        PROVE  /\ signal'.reg = 1 /\ \A u \in Thread : seen'[u].reg = 1
               /\ \A p \in Proc : own'[p].reg = 1
    BY <1>0, <2>1, <2>2, <2>3, <2>6 DEF Recorded
  <2> QED
    BY <2>5, <2>6 DEF Recorded
<1>3. ASSUME UNCHANGED <<signal, own, seen>> PROVE Recorded'
  BY <1>3 DEF Recorded, NotAhead
<1>4. ASSUME NEW t \in Thread,
             \/ StartRequest(t) \/ Begin(t) \/ Commit(t) \/ NextCallback(t)
             \/ Abort(t) \/ CommitRaises(t) \/ Retry(t)
             \/ (\E i \in Key : Load(t, i)) \/ (\E i \in MayModify[t] : Modify(t, i))
      PROVE  UNCHANGED <<signal, own, seen>>
  BY <1>4 DEF StartRequest, Begin, Commit, NextCallback, Abort, CommitRaises, Retry, Load, Modify
<1> QED
  BY <1>1, <1>2, <1>3, <1>4 DEF Next


(* A reader has one thread, which writes and flags nothing. *)
LEMMA ReaderThread ==
    ASSUME TypeOK, Flagged, CronsOnlyRead, OneThreadReads, NEW p \in Readers
    PROVE  /\ p \in Proc
           /\ \A t \in Thread : procOf[t] = p =>
                 /\ MayModify[t] = {} /\ caller[t] # "cron" /\ flag[t] = {}
                 /\ \A i \in Item : wrote[t][i] = 0
                 /\ \A u \in Thread : procOf[u] = p => u = t
<1>1. \A t \in Thread : procOf[t] = p => MayModify[t] = {} /\ caller[t] # "cron"
  BY DEF Readers
<1>2. \A t, u \in Thread : procOf[t] = p /\ procOf[u] = p => u = t
  BY <1>1 DEF OneThreadReads
<1>3. \A t \in Thread : procOf[t] = p => flag[t] = {}
  BY <1>1 DEF Flagged, FlaggedAt
<1> QED
  BY <1>1, <1>2, <1>3, NothingWritten DEF Readers

(* A step that leaves alone what is compared may end transactions and take  *)
(* a new snapshot.                                                          *)
LEMMA Steady ==
    ASSUME NEW p, UNCHANGED <<db, signal>>, own'[p] = own[p], local'[p] = local[p],
           \A s : Pending(s) => Pending(s)',
           \A t \in Thread : procOf[t] = p => snap'[t] \in {snap[t], Nothing, db},
           DefinitionsFresh(p), KeysFresh(p)
    PROVE  DefinitionsFresh(p)' /\ KeysFresh(p)'
<1>1. DefinitionsFresh(p)'
  BY DEF DefinitionsFresh
<1>2. KeysFresh(p)'
  BY DEF KeysFresh
<1> QED
  BY <1>1, <1>2

(* Who was between COMMIT and signal stays there when others move. *)
LEMMA PendingStays ==
    ASSUME NEW t \in Thread, pc[t] # "committed" \/ flag[t] = {},
           \A u \in Thread \ {t} : pc'[u] = pc[u] /\ flag'[u] = flag[u]
    PROVE  \A s : Pending(s) => Pending(s)'
BY DEF Pending

(* The steps that commit and signal nothing leave a reading process as      *)
(* fresh as it was.                                                         *)
LEMMA QuietSteps ==
    ASSUME TypeOK, Flagged, CronsOnlyRead, OneThreadReads, NEW p \in Readers,
           DefinitionsFresh(p), KeysFresh(p), NEW t \in Thread,
           \/ StartRequest(t) \/ Check(t) \/ Begin(t) \/ NextCallback(t)
           \/ Abort(t) \/ CommitRaises(t) \/ Retry(t)
           \/ (\E i \in Key : Load(t, i)) /\ procOf[t] # p
           \/ \E i \in MayModify[t] : Modify(t, i)
    PROVE  DefinitionsFresh(p)' /\ KeysFresh(p)'
<1>1. UNCHANGED <<db, signal, own>> /\ pc[t] # "committed"
  BY DEF StartRequest, Check, Begin, NextCallback, Abort, CommitRaises, Retry, Load, Modify, Goto
<1>2. \A u \in Thread \ {t} : pc'[u] = pc[u] /\ flag'[u] = flag[u]
  BY DEF StartRequest, Check, Begin, NextCallback, Abort, CommitRaises, Retry, Load, Modify, Goto, Reset, TypeOK
<1>3. \A u \in Thread : snap'[u] \in {snap[u], Nothing, db}
  <2>1. CASE EndTransaction(t)
    BY <2>1, EndsAt
  <2>2. CASE UNCHANGED snap
    BY <2>2
  <2>3. CASE StartRequest(t) \/ Begin(t)
    BY <2>3 DEF StartRequest, Begin, TypeOK
  <2> QED
    BY <2>1, <2>2, <2>3 DEF Check, NextCallback, Abort, CommitRaises, Retry, Load, Modify
<1>4. local'[p] = local[p]
  <2>0. p \in Proc /\ (procOf[t] = p => flag[t] = {} /\ MayModify[t] = {})
    BY ReaderThread
  <2>1. CASE Reset(t)
    BY <2>0, <2>1 DEF Reset, TypeOK
  <2>2. CASE UNCHANGED local
    BY <2>2
  <2>3. ASSUME NEW i \in MayModify[t], Modify(t, i) PROVE local'[p] = local[p]
    BY <2>0, <2>3 DEF Modify, TypeOK
  <2>4. ASSUME NEW i \in Key, Load(t, i), procOf[t] # p PROVE local'[p] = local[p]
    BY <2>0, <2>4 DEF Load, TypeOK
  <2> QED
    BY <2>1, <2>2, <2>3, <2>4 DEF StartRequest, Check, Begin, NextCallback, Abort, CommitRaises, Retry
<1> QED
  BY <1>1, <1>2, <1>3, <1>4, PendingStays, Steady

(* The cache is filled from a transaction as recent as the last check. *)
LEMMA LoadKeepsFresh ==
    ASSUME TypeOK, Flagged, CronsOnlyRead, OneThreadReads, NEW p \in Readers,
           DefinitionsFresh(p), KeysFresh(p), NEW t \in Thread, NEW i \in Key, Load(t, i), procOf[t] = p
    PROVE  DefinitionsFresh(p)' /\ KeysFresh(p)'
<1>1. UNCHANGED <<db, signal, own, pc, flag, snap>> /\ i # Def /\ i \in Item /\ p \in Proc
  BY SignalingAssumption DEF Load, Item, Readers
<1>2. local'[p][i] = snap[t][i] /\ \A j \in Item \ {i} : local'[p][j] = local[p][j]
  <2>1. wrote[t][i] = 0
    BY <1>1, ReaderThread
  <2> QED
    BY <1>1, <2>1 DEF Load, View, TypeOK
<1>3. \A s : Pending(s)' = Pending(s)
  BY <1>1 DEF Pending
<1>4. DefinitionsFresh(p)'
  BY <1>1, <1>2, <1>3 DEF DefinitionsFresh, Item
<1>5. KeysFresh(p)'
  <2> SUFFICES ASSUME own[p] = signal, ~Pending("reg"), ~Pending("cache"), NEW j \in Key
               PROVE  /\ local'[p][j] \in {0, db[j]}
                      /\ \A u \in Thread : procOf[u] = p /\ snap[u] # Nothing => snap[u][j] = db[j]
    BY <1>1, <1>3 DEF KeysFresh
  <2>1. snap[t] # Nothing
    BY DEF Load, InTransaction
  <2> QED
    BY <1>1, <1>2, <2>1 DEF KeysFresh, Item
<1> QED
  BY <1>4, <1>5

(* check_signaling() makes a reading process that records the current       *)
(* numbers fresh.                                                           *)
LEMMA ApplyKeepsFresh ==
    ASSUME TypeOK, Flagged, Recorded, CronsOnlyRead, OneThreadReads, NEW p \in Readers,
           DefinitionsFresh(p), KeysFresh(p), NEW t \in Thread, Apply(t)
    PROVE  DefinitionsFresh(p)' /\ KeysFresh(p)'
<1>1. /\ UNCHANGED <<db, signal, snap>> /\ pc[t] = "checking"
      /\ \A u \in Thread \ {t} : pc'[u] = pc[u]
      /\ \A u \in Thread \ {t} : flag'[u] = flag[u]
  BY AloneIfReloaded DEF Apply, Goto, Unflagged, TypeOK
<1>2. \A s : Pending(s) => Pending(s)'
  BY <1>1, PendingStays
<1>3. CASE procOf[t] # p
  <2>1. own'[p] = own[p] /\ local'[p] = local[p]
    BY <1>3, ReaderThread DEF Apply, TypeOK
  <2> QED
    BY <1>1, <1>2, <2>1, Steady
<1>4. CASE procOf[t] = p
  <2>0. own'[p] = seen[t] /\ p \in Proc
    BY <1>4, ReaderThread DEF Apply, TypeOK
  <2>1. CASE own[p] = seen[t] /\ UNCHANGED local
    BY <1>1, <1>2, <2>0, <2>1, Steady
  <2>2. \A u \in Thread : procOf[u] = p => snap'[u] = Nothing
    BY <1>1, <1>4, ReaderThread DEF Flagged, FlaggedAt
  <2>3. ASSUME NEW v \in Ver, local' = [local EXCEPT ![p] = Emptied(v)],
               v = db[Def] \/ (v = local[p][Def] /\ own[p].reg = seen[t].reg)
        PROVE  DefinitionsFresh(p)' /\ KeysFresh(p)'
    <3>1. local'[p] = Emptied(v)
      BY <2>0, <2>3 DEF TypeOK
    <3>2. local'[p][Def] = v /\ \A i \in Key : local'[p][i] = 0
      BY <3>1, SignalingAssumption DEF Emptied, Item
    <3>3. DefinitionsFresh(p)'
      BY <1>1, <1>2, <2>0, <2>3, <3>2 DEF DefinitionsFresh
    <3>4. KeysFresh(p)'
      BY <2>2, <3>2 DEF KeysFresh
    <3> QED
      BY <3>3, <3>4
  <2>4. local[p][Def] \in Ver /\ db[Def] \in Ver
    BY <2>0, SeesType
  <2>5. \/ own[p] = seen[t] /\ UNCHANGED local
        \/ local' = [local EXCEPT ![p] = Emptied(db[Def])]
        \/ local' = [local EXCEPT ![p] = Emptied(local[p][Def])] /\ own[p].reg = seen[t].reg
    BY <1>4 DEF Apply
  <2> QED
    BY <2>1, <2>3, <2>4, <2>5
<1> QED
  BY <1>3, <1>4

(* A commit is flagged, so that it is pending. *)
LEMMA CommitKeepsFresh ==
    ASSUME TypeOK, Flagged, CronsOnlyRead, OneThreadReads, NEW p \in Readers,
           DefinitionsFresh(p), KeysFresh(p), NEW t \in Thread, Commit(t)
    PROVE  DefinitionsFresh(p)' /\ KeysFresh(p)'
<1>1. UNCHANGED <<signal, own, local, flag>> /\ \A u \in Thread \ {t} : pc'[u] = pc[u]
  BY DEF Commit, Goto, TypeOK
<1>2. \A u \in Thread : snap'[u] \in {snap[u], Nothing}
  BY EndsAt DEF Commit
<1>3. \A s : Pending(s) => Pending(s)'
  BY <1>1, PendingStays DEF Commit, Goto
<1>4. CASE flag[t] = {}
  <2>1. db' = db
    <3>1. \A i \in Item : wrote[t][i] = 0
      BY <1>4, NothingWritten
    <3> QED
      BY <3>1 DEF Commit, TypeOK
  <2> QED
    BY <1>1, <1>2, <1>3, <2>1, Steady
<1>5. CASE flag[t] # {}
  <2>1. pc'[t] = "committed"
    BY <1>5, CronsWriteNothing DEF Commit, Goto, Flagged, FlaggedAt, TypeOK
  <2>2. flag[t] \subseteq {"reg", "cache"}
    BY DEF TypeOK
  <2>3. Pending("reg")' \/ Pending("cache")'
    BY <1>1, <1>5, <2>1, <2>2 DEF Pending
  <2>4. KeysFresh(p)'
    BY <2>3 DEF KeysFresh
  <2>5. CASE "reg" \in flag[t]
    <3>1. Pending("reg")'
      BY <1>1, <2>1, <2>5 DEF Pending
    <3> QED
      BY <2>4, <3>1 DEF DefinitionsFresh
  <2>6. CASE "reg" \notin flag[t]
    <3>1. db'[Def] = db[Def]
      BY <2>6 DEF Commit, Flagged, FlaggedAt, Item, TypeOK
    <3>2. DefinitionsFresh(p)'
      BY <1>1, <1>3, <3>1 DEF DefinitionsFresh
    <3> QED
      BY <2>4, <3>2
  <2> QED
    BY <2>5, <2>6
<1> QED
  BY <1>4, <1>5

(* A signal takes the numbers past those the readers recorded. *)
LEMMA SignalKeepsFresh ==
    ASSUME TypeOK, Flagged, Recorded, CronsOnlyRead, OneThreadReads, NEW p \in Readers,
           DefinitionsFresh(p), KeysFresh(p), NEW t \in Thread, Signal(t)
    PROVE  DefinitionsFresh(p)' /\ KeysFresh(p)'
<1>0. /\ UNCHANGED <<db, local, snap>> /\ p \in Proc
      /\ signal \in Signals /\ signal' \in Signals /\ own[p] \in Signals /\ own'[p] \in Signals
  <2>1. signal' \in Signals /\ own' \in [Proc -> Signals]
    BY SignalType
  <2> QED
    BY <2>1 DEF Signal, Readers, TypeOK
<1>1. \A a, b \in Signals : a = b <=> a.reg = b.reg /\ a.cache = b.cache
  BY DEF Signals
<1>2. CASE flag[t] = {}
  <2>1. Bumped(t) = {}
    BY <1>2 DEF Bumped
  <2>2. signal' = signal /\ own'[p] = own[p]
    BY <1>0, <1>1, <2>1, SignalTo
  <2>3. \A s : Pending(s) => Pending(s)'
    BY <1>2, PendingStays, SignalTo
  <2> QED
    BY <1>0, <2>2, <2>3, Steady
<1>3. CASE flag[t] # {}
  <2>0. /\ signal.reg \in Nat /\ signal.cache \in Nat /\ own[p].reg \in Nat /\ own[p].cache \in Nat
        /\ own[p].reg <= signal.reg /\ own[p].cache <= signal.cache
    BY <1>0, SignalsAreFunctions DEF Recorded, NotAhead
  <2>1. procOf[t] # p /\ own'[p] = own[p]
    BY <1>0, <1>3, ReaderThread, SignalTo
  <2>2. CASE "reg" \in Bumped(t)
    <3>1. own'[p].reg # signal'.reg
      BY <2>0, <2>1, <2>2, SignalTo
    <3> QED
      BY <3>1 DEF DefinitionsFresh, KeysFresh
  <2>3. CASE "reg" \notin Bumped(t)
    <3>1. "reg" \notin flag[t] /\ "cache" \in Bumped(t)
      BY <1>3, <2>3 DEF Bumped, TypeOK
    <3>2. own'[p].cache # signal'.cache /\ signal'.reg = signal.reg
      BY <2>0, <2>1, <2>3, <3>1, SignalTo
    <3>3. Pending("reg") => Pending("reg")'
      BY <3>1, SignalTo DEF Pending
    <3>4. DefinitionsFresh(p)'
      BY <1>0, <2>1, <3>2, <3>3 DEF DefinitionsFresh
    <3>5. KeysFresh(p)'
      BY <3>2 DEF KeysFresh
    <3> QED
      BY <3>4, <3>5
  <2> QED
    BY <2>2, <2>3
<1> QED
  BY <1>2, <1>3

(* Every step keeps the definitions and the keys of the reading processes   *)
(* fresh.                                                                   *)
LEMMA ReadingStep ==
    ASSUME TypeOK, Flagged, Recorded, Reading, CronsOnlyRead, OneThreadReads, Next
    PROVE  Reading'
<1>1. Readers' = Readers
  BY DEF Next, Readers
<1>2. SUFFICES ASSUME NEW p \in Readers PROVE DefinitionsFresh(p)' /\ KeysFresh(p)'
  BY <1>1 DEF Reading
<1>3. DefinitionsFresh(p) /\ KeysFresh(p)
  BY DEF Reading
<1>4. ASSUME NEW t \in Thread, NEW i \in Key, Load(t, i) PROVE DefinitionsFresh(p)' /\ KeysFresh(p)'
  BY <1>3, <1>4, QuietSteps, LoadKeepsFresh
<1>5. ASSUME NEW t \in Thread, NEW i \in MayModify[t], Modify(t, i) PROVE DefinitionsFresh(p)' /\ KeysFresh(p)'
  BY <1>3, <1>5, QuietSteps
<1>6. ASSUME NEW t \in Thread,
             \/ StartRequest(t) \/ Check(t) \/ Begin(t) \/ NextCallback(t)
             \/ Abort(t) \/ CommitRaises(t) \/ Retry(t)
      PROVE  DefinitionsFresh(p)' /\ KeysFresh(p)'
  BY <1>3, <1>6, QuietSteps
<1>7. ASSUME NEW t \in Thread, Apply(t) \/ Commit(t) \/ Signal(t)
      PROVE  DefinitionsFresh(p)' /\ KeysFresh(p)'
  BY <1>3, <1>7, ApplyKeepsFresh, CommitKeepsFresh, SignalKeepsFresh
<1> QED
  BY <1>4, <1>5, <1>6, <1>7 DEF Next

(* The invariant at the start.                                              *)
LEMMA FreshInit == Init => IInv
<1> SUFFICES ASSUME Init PROVE IInv
  OBVIOUS
<1>1. TypeOK
  BY TypeInit
<1>2. Start.reg = 1 /\ Start.cache = 1
  BY DEF Start
<1>3. Flagged
  BY DEF Init, Flagged, FlaggedAt, Nothing
<1>4. Recorded
  BY <1>2 DEF Init, Recorded, NotAhead
<1>5. Reading
  <2>1. Def \in Item /\ \A i \in Key : i \in Item /\ i # Def
    BY SignalingAssumption DEF Item
  <2> QED
    BY <2>1 DEF Init, Reading, Readers, DefinitionsFresh, KeysFresh
<1> QED
  BY <1>1, <1>3, <1>4, <1>5 DEF IInv

(* The parts of the invariant, together.                                    *)
LEMMA FreshStep == ASSUME CronsOnlyRead, OneThreadReads, IInv, [Next]_vars PROVE IInv'
<1> USE DEF IInv
<1>1. TypeOK'
  BY TypeStep
<1>2. CASE Next
  BY <1>1, <1>2, FlaggedStep, RecordedStep, ReadingStep
<1>3. CASE UNCHANGED vars
  <2>1. Flagged' /\ Recorded'
    BY <1>3 DEF vars, Flagged, FlaggedAt, Recorded, NotAhead
  <2>2. Reading'
    BY <1>3 DEF vars, Reading, Readers, DefinitionsFresh, KeysFresh, Pending
  <2> QED
    BY <1>1, <2>1, <2>2
<1> QED
  BY <1>2, <1>3

(* A process that only reads, and finds its numbers up to date, holds what  *)
(* was committed, as long as no writer is between its COMMIT and its signal *)
(* and crons, which signal before they commit, change nothing.              *)
THEOREM ReadersStayFresh == ASSUME CronsOnlyRead, OneThreadReads PROVE Spec => []ReadersFresh
<1>1. IInv /\ [Next]_vars => IInv'
  BY FreshStep
<1>2. IInv => ReadersFresh
  BY DEF IInv, Reading, DefinitionsFresh, KeysFresh, Pending, ReadersFresh, Fresh
<1> QED
  BY <1>1, <1>2, FreshInit, PTL DEF Spec
================================================================================
