--------------------------- MODULE MailQueueProofs ---------------------------
(* The queue of outgoing mails, for any number of mails, recipients and     *)
(* overlapping runs.  Who delivers a mail saw it outgoing, and wrote its    *)
(* row before; either it is outgoing still, or the row is newer than his    *)
(* snapshot (FromOutgoing) and his commit fails.  The commit that succeeds  *)
(* makes it something else (KeptIsDone).                                    *)
EXTENDS MailQueue, FiniteSetTheorems, WellFoundedInduction, TLAPS

(* What is known of a run at each of its steps.                             *)
Tidy(r) ==
    /\ run[r].at = "idle" => ~run[r].snap
    /\ ~run[r].snap => wrote[r] = {} /\ sent[r] = {}
    /\ run[r].at \in {"next", "prepare", "send", "commit"} => run[r].batch # {}
    /\ run[r].at \in {"prepare", "send", "commit"} => run[r].snap
    /\ run[r].at \in {"idle", "connect", "next", "prepare"} => run[r].ok = {}
    /\ run[r].at \in {"send", "commit"} => <<"mail", First(r)>> \in wrote[r]
    /\ \A m \in sent[r] : <<"mail", m>> \in wrote[r]

(* A run sees what is committed, but for what it or others wrote since.     *)
Sees(r) == \A m \in Mails :
    /\ <<"mail", m>> \in wrote[r] => view[r].mail[m] \in {"exception", "sent", "gone"}
    /\ run[r].snap /\ <<"mail", m>> \notin wrote[r] \cup stale[r] => view[r].mail[m] = mail[m]

Takes(r, m) == m \in sent[r] \/ (run[r].at \in {"prepare", "send", "commit"} /\ m = First(r))
FromOutgoing(r) == \A m \in Mails :
    Takes(r, m) /\ <<"mail", m>> \notin stale[r] => mail[m] = "outgoing"

(* the recipients of the mail that is being sent                            *)
Progress(r) == run[r].at = "send" =>
    /\ run[r].ok \subseteq got[First(r)]
    /\ To[First(r)] \subseteq run[r].left \cup got[First(r)] \cup refused[First(r)]
    /\ ~run[r].failed => To[First(r)] \subseteq run[r].left \cup run[r].ok

(* StatusIsTrue, also of what is not committed yet                          *)
True(s) == \A m \in Mails :
    /\ s.mail[m] = "sent" => got[m] # {} /\ m \notin AutoDelete
    /\ m \in Notified => \A p \in To[m] : s.notif[m][p] = "sent" => p \in got[m]

(* who deletes a mail may                                                   *)
Served(m) == To[m] \subseteq got[m] \cup refused[m]
Deletes(r) == \A m \in Mails :
    view[r].mail[m] = "gone" /\ <<"mail", m>> \in wrote[r] \ stale[r] => mail[m] = "cancel" \/ Served(m)

RunIsRight(r) == Tidy(r) /\ Sees(r) /\ FromOutgoing(r) /\ Progress(r) /\ True(view[r]) /\ Deletes(r)

KeptIsDone == \A m \in Mails : kept[m] = 0 \/ (kept[m] = 1 /\ mail[m] # "outgoing")

IInv == TypeOK /\ KeptIsDone /\ True(Committed) /\ \A r \in Runs : RunIsRight(r)

-----------------------------------------------------------------------------
(* The operators of the model                                               *)

(* A nonempty set of numbers has a least one.                               *)
LEMMA MinIsIn ==
    ASSUME NEW S \in SUBSET Nat, S # {}
    PROVE  Min(S) \in S /\ \A x \in S : Min(S) =< x
<1> DEFINE R == {ss \in Nat \X Nat : ss[1] < ss[2]}
<1>1. IsWellFoundedOn(R, Nat)
  BY NatLessThanWellFounded DEF OpToRel
<1>2. PICK x \in S : \A y \in S : ~(<<y, x>> \in R)
  <2> HIDE DEF R
  <2> QED
    BY <1>1, WFMin
<1>3. ASSUME NEW y \in S PROVE x =< y
  <2>1. x \in Nat /\ y \in Nat /\ ~(<<y, x>> \in R)
    BY <1>2
  <2> QED
    BY <2>1
<1> QED
  BY <1>3 DEF Min

(* The mail at hand is one of the batch.                                    *)
LEMMA FirstIs ==
    ASSUME TypeOK, NEW r \in Runs, run[r].batch # {}
    PROVE  First(r) \in run[r].batch /\ First(r) \in Mails
<1>1. run[r].batch \subseteq Mails /\ run[r].batch \subseteq Nat
  BY MailQueueAssumption DEF TypeOK
<1> QED
  BY <1>1, MinIsIn DEF First

(* A batch is a part of what is left to send, and a part of something is    *)
(* something.                                                               *)
LEMMA BatchIs ==
    ASSUME TypeOK, NEW r \in Runs
    PROVE  Batch(r) \subseteq run[r].todo /\ Batch(r) \subseteq Mails
           /\ (run[r].todo # {} => Batch(r) # {})
<1>1. run[r].todo \subseteq Mails /\ run[r].todo \subseteq Nat
  BY MailQueueAssumption DEF TypeOK
<1>2. ASSUME run[r].todo # {} PROVE Batch(r) # {}
  <2> DEFINE m == Min(run[r].todo)
  <2>1. m \in run[r].todo /\ \A x \in run[r].todo : m =< x
    BY <1>1, <1>2, MinIsIn
  <2>2. {n \in run[r].todo : n < m} = {}
    BY <1>1, <2>1
  <2>3. Cardinality({n \in run[r].todo : n < m}) < BatchSize
    BY <2>2, FS_EmptySet, MailQueueAssumption
  <2> HIDE DEF m
  <2> QED
    BY <2>1, <2>3 DEF Batch
<1> QED
  BY <1>1, <1>2 DEF Batch

RunState == [at : {"idle", "connect", "next", "prepare", "send", "commit", "done"},
             todo : SUBSET Mails, batch : SUBSET Mails, left : SUBSET Partners,
             ok : SUBSET Partners, failed : BOOLEAN, snap : BOOLEAN]
View == [mail : MailState, notif : NotifState]

(* The types of what a run has.                                             *)
LEMMA RunTypes ==
    ASSUME TypeOK, NEW r \in Runs
    PROVE  /\ run[r] \in RunState /\ view[r] \in View /\ wrote[r] \in SUBSET Row /\ stale[r] \in SUBSET Row
           /\ locked[r] \in SUBSET Notified /\ sent[r] \in SUBSET Mails
           /\ Committed \in View /\ Seen(r) \in View /\ NoView \in View
BY DEF TypeOK, RunState, View, Committed, NoView, MailState, NotifState, Seen

(* The notifications that wait for a mail are those of its recipients.      *)
LEMMA PendingIs ==
    ASSUME NEW n, NEW m \in Mails
    PROVE  Pending(n, m) \subseteq Partners /\ (Pending(n, m) # {} => m \in Notified)
           /\ \A p \in Pending(n, m) : p \in To[m]
BY MailQueueAssumption DEF Pending

-----------------------------------------------------------------------------
(* What holds of a run is kept by what the others do: their deliveries add  *)
(* up, and the rows they change become newer than its snapshot.             *)
Grows == \A m \in Mails : got[m] \subseteq got'[m] /\ refused[m] \subseteq refused'[m]

(* The commit of another run changes nothing for this one, but that what it *)
(* sees of the written rows is stale.                                       *)
LEMMA OthersKeep ==
    ASSUME TypeOK, NEW u \in Runs, RunIsRight(u), Grows,
           run'[u] = run[u], view'[u] = view[u], wrote'[u] = wrote[u], sent'[u] = sent[u],
           run[u].snap => /\ stale[u] \subseteq stale'[u]
                          /\ \A m \in Mails : <<"mail", m>> \notin stale'[u] => mail'[m] = mail[m]
    PROVE  RunIsRight(u)'
<1>1. First(u)' = First(u)
  BY DEF First
<1>2. Tidy(u)'
  BY <1>1 DEF RunIsRight, Tidy
<1>3. Sees(u)'
  <2>1. Sees(u)
    BY DEF RunIsRight
  <2> SUFFICES ASSUME NEW m \in Mails
               PROVE  /\ <<"mail", m>> \in wrote'[u] => view'[u].mail[m] \in {"exception", "sent", "gone"}
                      /\ run'[u].snap /\ <<"mail", m>> \notin wrote'[u] \cup stale'[u] => view'[u].mail[m] = mail'[m]
    BY Zenon DEF Sees
  <2>2. CASE ~run[u].snap
    BY <2>1, <2>2 DEF Sees
  <2>3. CASE run[u].snap
    <3>1. stale[u] \subseteq stale'[u] /\ (<<"mail", m>> \notin stale'[u] => mail'[m] = mail[m])
      BY <2>3
    <3> QED
      BY <2>1, <2>3, <3>1 DEF Sees
  <2> QED
    BY <2>2, <2>3
<1>4. FromOutgoing(u)'
  <2>1. \A m \in Mails : Takes(u, m)' => Takes(u, m) /\ run[u].snap
    BY <1>1 DEF Takes, RunIsRight, Tidy
  <2> QED
    BY <2>1 DEF RunIsRight, FromOutgoing
<1>5. Progress(u)'
  <2> SUFFICES ASSUME run[u].at = "send" PROVE Progress(u)'
    BY DEF Progress
  <2>1. First(u) \in Mails
    BY FirstIs DEF RunIsRight, Tidy
  <2> QED
    BY <1>1, <2>1 DEF RunIsRight, Progress, Grows
<1>6. True(view[u])'
  BY DEF RunIsRight, True, Grows
<1>7. Deletes(u)'
  <2>1. \A m \in Mails : Served(m) => Served(m)'
    BY DEF Served, Grows
  <2>2. \A m \in Mails : <<"mail", m>> \in wrote[u] => run[u].snap
    BY DEF RunIsRight, Tidy
  <2> QED
    BY <2>1, <2>2 DEF RunIsRight, Deletes
<1> QED
  BY <1>2, <1>3, <1>4, <1>5, <1>6, <1>7 DEF RunIsRight

(* A step of the run r that does not commit.                                *)
Alone(r) ==
    /\ UNCHANGED db /\ Grows
    /\ \A u \in Runs \ {r} : /\ run'[u] = run[u] /\ view'[u] = view[u] /\ wrote'[u] = wrote[u]
                             /\ sent'[u] = sent[u] /\ stale'[u] = stale[u]

(* A step of one run that keeps its own part of the invariant keeps it      *)
(* whole.                                                                   *)
LEMMA AloneKeeps ==
    ASSUME IInv, NEW r \in Runs, Alone(r), TypeOK', RunIsRight(r)'
    PROVE  IInv'
<1>1. KeptIsDone'
  BY DEF IInv, KeptIsDone, Alone, db
<1>2. True(Committed)'
  BY DEF IInv, True, Committed, Alone, Grows, db
<1>3. \A u \in Runs \ {r} : RunIsRight(u)'
  BY OthersKeep DEF IInv, Alone, db
<1> QED
  BY <1>1, <1>2, <1>3 DEF IInv

(* What it takes to be one.                                                 *)
LEMMA AloneIs ==
    ASSUME TypeOK, NEW r \in Runs,
           run' \in [Runs -> RunState], view' \in [Runs -> View], wrote' \in [Runs -> SUBSET Row],
           stale' \in [Runs -> SUBSET Row], sent' \in [Runs -> SUBSET Mails],
           \A u \in Runs \ {r} : /\ run'[u] = run[u] /\ view'[u] = view[u] /\ wrote'[u] = wrote[u]
                                /\ sent'[u] = sent[u] /\ stale'[u] = stale[u],
           locked' \in [Runs -> SUBSET Notified],
           \A t \in Runs : \A u \in Runs \ {t} : locked'[t] \cap locked'[u] = {},
           got' \in [Mails -> SUBSET Partners], refused' \in [Mails -> SUBSET Partners], Grows,
           UNCHANGED <<db, retries>>
    PROVE  TypeOK' /\ Alone(r)
BY DEF TypeOK, RunState, View, db, Alone

(* The variables are functions on the runs.                                 *)
LEMMA Functions ==
    ASSUME TypeOK
    PROVE  /\ run \in [Runs -> RunState] /\ view \in [Runs -> View] /\ wrote \in [Runs -> SUBSET Row]
           /\ stale \in [Runs -> SUBSET Row] /\ sent \in [Runs -> SUBSET Mails]
BY DEF TypeOK, RunState, View

(* A step that delivers nothing and takes no rows.                          *)
LEMMA Quiet ==
    ASSUME TypeOK, UNCHANGED <<got, refused, locked>>
    PROVE  /\ locked' \in [Runs -> SUBSET Notified]
           /\ \A t \in Runs : \A u \in Runs \ {t} : locked'[t] \cap locked'[u] = {}
           /\ got' \in [Mails -> SUBSET Partners] /\ refused' \in [Mails -> SUBSET Partners] /\ Grows
BY DEF TypeOK, Grows

(* The first statement of a transaction looks at what is committed.         *)
Newer(r) == IF run[r].snap THEN stale[r] ELSE {}

(* What a run sees with its next statement: its snapshot and its own        *)
(* writes, or, when it has no snapshot yet, what is committed.              *)
LEMMA SeenIs ==
    ASSUME IInv, NEW r \in Runs
    PROVE  /\ Seen(r) \in View /\ Newer(r) \in SUBSET Row /\ True(Seen(r))
           /\ SeesStale(r) => stale' = [stale EXCEPT ![r] = Newer(r)]
           /\ \A m \in Mails :
                /\ <<"mail", m>> \in wrote[r] => Seen(r).mail[m] \in {"exception", "sent", "gone"}
                /\ <<"mail", m>> \notin wrote[r] \cup Newer(r) => Seen(r).mail[m] = mail[m]
                /\ Seen(r).mail[m] = "gone" /\ <<"mail", m>> \in wrote[r] \ Newer(r) => mail[m] = "cancel" \/ Served(m)
                /\ m \in sent[r] /\ <<"mail", m>> \notin Newer(r) => mail[m] = "outgoing"
<1>1. RunIsRight(r) /\ True(Committed) /\ TypeOK
  BY DEF IInv
<1>2. CASE run[r].snap
  <2>1. Seen(r) = view[r] /\ Newer(r) = stale[r]
    BY <1>2 DEF Seen, Newer
  <2>2. SeesStale(r) => stale' = [stale EXCEPT ![r] = stale[r]]
    BY <1>1, <1>2 DEF SeesStale, TypeOK
  <2> QED
    BY <1>1, <1>2, <2>1, <2>2, RunTypes DEF RunIsRight, Sees, Deletes, FromOutgoing, Takes
<1>3. CASE ~run[r].snap
  <2>1. Seen(r) = Committed /\ Newer(r) = {} /\ wrote[r] = {} /\ sent[r] = {}
    BY <1>1, <1>3 DEF Seen, Newer, RunIsRight, Tidy
  <2>2. SeesStale(r) => stale' = [stale EXCEPT ![r] = {}]
    BY <1>3 DEF SeesStale
  <2>3. Seen(r).mail = mail
    BY <2>1 DEF Committed
  <2> QED
    BY <1>1, <2>1, <2>2, <2>3, RunTypes
<1> QED
  BY <1>2, <1>3

-----------------------------------------------------------------------------
(* The steps of a run up to the delivery                                    *)

(* process_email_queue(): a run takes the outgoing mails it sees.           *)
LEMMA StartKeeps == ASSUME IInv, NEW r \in Runs, Start(r) PROVE IInv'
<1>1. TypeOK /\ RunIsRight(r) /\ True(Committed)
  BY DEF IInv
<1>2. PICK ids \in SUBSET Mails :
        run' = [run EXCEPT ![r] = [Idle EXCEPT !.at = "connect", !.todo = ids, !.snap = TRUE]]
  BY DEF Start
<1> DEFINE o == [Idle EXCEPT !.at = "connect", !.todo = ids, !.snap = TRUE]
<1>3. o \in RunState /\ o.at = "connect" /\ o.snap /\ o.ok = {}
  BY DEF RunState, Idle
<1> HIDE DEF o
<1>4. wrote[r] = {} /\ sent[r] = {}
  BY <1>1 DEF Start, RunIsRight, Tidy
<1>5. /\ TypeOK' /\ Alone(r) /\ run'[r] = o /\ view'[r] = Committed /\ wrote'[r] = {} /\ stale'[r] = {}
      /\ sent'[r] = {}
  <2>1. UNCHANGED <<db, got, refused, retries, wrote, locked, sent>>
    BY DEF Start
  <2>2. run' \in [Runs -> RunState] /\ run'[r] = o /\ \A u \in Runs \ {r} : run'[u] = run[u]
    BY <1>1, <1>2, <1>3, Functions DEF o
  <2>3. view' \in [Runs -> View] /\ view'[r] = Committed /\ \A u \in Runs \ {r} : view'[u] = view[u]
    BY <1>1, RunTypes, Functions DEF Start
  <2>4. stale' \in [Runs -> SUBSET Row] /\ stale'[r] = {} /\ \A u \in Runs \ {r} : stale'[u] = stale[u]
    BY <1>1, Functions DEF Start
  <2> QED
    BY <1>1, <1>4, <2>1, <2>2, <2>3, <2>4, AloneIs, Quiet, Functions
<1>6. RunIsRight(r)'
  <2>1. Committed.mail = mail'
    BY <1>5 DEF Committed, Alone, db
  <2>2. True(Committed)'
    BY <1>1, <1>5 DEF True, Committed, Alone, Grows, db
  <2>3. True(view[r])'
    BY <1>1, <1>5 DEF True, Alone, Grows
  <2> QED
    BY <1>3, <1>5, <2>1, <2>3 DEF RunIsRight, Tidy, Sees, FromOutgoing, Takes, Progress, Deletes
<1> QED
  BY <1>5, <1>6, AloneKeeps

(* A connection takes the next batch.                                       *)
LEMMA ConnectKeeps == ASSUME IInv, NEW r \in Runs, Connect(r) PROVE IInv'
<1>1. TypeOK /\ RunIsRight(r)
  BY DEF IInv
<1> DEFINE o == [run[r] EXCEPT !.at = "next", !.batch = Batch(r), !.todo = @ \ Batch(r), !.snap = TRUE]
<1>2. o \in RunState /\ o.at = "next" /\ o.snap /\ o.ok = {} /\ o.batch # {}
  BY <1>1, RunTypes, BatchIs DEF RunState, Connect, RunIsRight, Tidy
<1>3. run' = [run EXCEPT ![r] = o]
  BY DEF Connect
<1> HIDE DEF o
<1>4. /\ TypeOK' /\ Alone(r) /\ run'[r] = o /\ view'[r] = Seen(r) /\ wrote'[r] = wrote[r]
      /\ stale'[r] = Newer(r) /\ sent'[r] = sent[r]
  <2>1. UNCHANGED <<db, got, refused, retries, wrote, locked, sent>>
    BY DEF Connect
  <2>2. run' \in [Runs -> RunState] /\ run'[r] = o /\ \A u \in Runs \ {r} : run'[u] = run[u]
    BY <1>1, <1>2, <1>3, Functions
  <2>3. view' \in [Runs -> View] /\ view'[r] = Seen(r) /\ \A u \in Runs \ {r} : view'[u] = view[u]
    BY <1>1, SeenIs, Functions DEF Connect
  <2>4. stale' \in [Runs -> SUBSET Row] /\ stale'[r] = Newer(r) /\ \A u \in Runs \ {r} : stale'[u] = stale[u]
    BY <1>1, SeenIs, Functions DEF Connect
  <2> QED
    BY <1>1, <2>1, <2>2, <2>3, <2>4, AloneIs, Quiet, Functions
<1>5. RunIsRight(r)'
  <2>1. UNCHANGED <<mail, got, refused>>
    BY DEF Connect, db
  <2>2. Tidy(r)' /\ Progress(r)'
    BY <1>1, <1>2, <1>4 DEF RunIsRight, Tidy, Progress
  <2>3. Sees(r)' /\ FromOutgoing(r)' /\ True(view[r])' /\ Deletes(r)'
    BY <1>2, <1>4, <2>1, SeenIs DEF Sees, FromOutgoing, Takes, True, Deletes, Served
  <2> QED
    BY <2>2, <2>3 DEF RunIsRight
<1> QED
  BY <1>4, <1>5, AloneKeeps

(* A failed connection marks the mails of its batch as failures, without a  *)
(* commit.                                                                  *)
LEMMA ConnectFailsKeeps == ASSUME IInv, NEW r \in Runs, ConnectFails(r) PROVE IInv'
<1>1. TypeOK /\ RunIsRight(r)
  BY DEF IInv
<1> DEFINE o == [run[r] EXCEPT !.todo = @ \ Batch(r), !.snap = TRUE]
           s == Seen(r)
           v == [mail |-> [m \in Mails |-> IF m \in Batch(r) THEN "exception" ELSE s.mail[m]],
                 notif |-> [m \in Mails |-> [p \in Partners |->
                     IF m \in Batch(r) /\ p \in Pending(s.notif, m) THEN "exception" ELSE s.notif[m][p]]]]
           w == wrote[r] \cup {<<"mail", m>> : m \in Batch(r)}
                         \cup {<<"notif", m>> : m \in {n \in Batch(r) : Pending(s.notif, n) # {}}}
<1>2. o \in RunState /\ o.at = "connect" /\ o.snap /\ o.ok = {}
  BY <1>1, RunTypes, BatchIs DEF RunState, ConnectFails, RunIsRight, Tidy
<1>3. v \in View /\ w \in SUBSET Row
  <2>1. s \in View
    BY <1>1, RunTypes
  <2>2. v.mail \in MailState
    BY <2>1 DEF View, MailState
  <2>3. v.notif \in NotifState
    BY <2>1 DEF View, NotifState
  <2>4. v \in View
    BY <2>2, <2>3 DEF View
  <2>5. w \in SUBSET Row
    BY <1>1, RunTypes, BatchIs DEF Row
  <2> QED
    BY <2>4, <2>5
<1>4. \A m \in Mails : /\ <<"mail", m>> \in w <=> <<"mail", m>> \in wrote[r] \/ m \in Batch(r)
                       /\ v.mail[m] = IF m \in Batch(r) THEN "exception" ELSE s.mail[m]
  <2> SUFFICES ASSUME NEW m \in Mails PROVE <<"mail", m>> \in w <=> <<"mail", m>> \in wrote[r] \/ m \in Batch(r)
    OBVIOUS
  <2>1. \A n : <<"notif", n>> # <<"mail", m>>
    OBVIOUS
  <2> QED
    BY <2>1
<1>5. \A m \in Mails, p \in Partners : v.notif[m][p] = "sent" => s.notif[m][p] = "sent"
  OBVIOUS
<1>6. /\ TypeOK' /\ Alone(r) /\ run'[r] = o /\ view'[r] = v /\ wrote'[r] = w
      /\ stale'[r] = Newer(r) /\ sent'[r] = sent[r]
  <2>1. UNCHANGED <<db, got, refused, retries, locked, sent>>
    BY DEF ConnectFails
  <2>2. /\ run' = [run EXCEPT ![r] = o] /\ view' = [view EXCEPT ![r] = v] /\ wrote' = [wrote EXCEPT ![r] = w]
    BY DEF ConnectFails
  <2> HIDE DEF o, v, w
  <2>3. run' \in [Runs -> RunState] /\ run'[r] = o /\ \A u \in Runs \ {r} : run'[u] = run[u]
    BY <1>1, <1>2, <2>2, Functions
  <2>4. view' \in [Runs -> View] /\ view'[r] = v /\ \A u \in Runs \ {r} : view'[u] = view[u]
    BY <1>1, <1>3, <2>2, Functions
  <2>5. wrote' \in [Runs -> SUBSET Row] /\ wrote'[r] = w /\ \A u \in Runs \ {r} : wrote'[u] = wrote[u]
    BY <1>1, <1>3, <2>2, Functions
  <2>6. stale' \in [Runs -> SUBSET Row] /\ stale'[r] = Newer(r) /\ \A u \in Runs \ {r} : stale'[u] = stale[u]
    BY <1>1, SeenIs, Functions DEF ConnectFails
  <2> QED
    BY <1>1, <2>1, <2>3, <2>4, <2>5, <2>6, AloneIs, Quiet, Functions
<1> HIDE DEF o, v, w, s
<1>7. RunIsRight(r)'
  <2>1. UNCHANGED <<mail, got, refused>>
    BY DEF ConnectFails, db
  <2>2. Tidy(r)' /\ Progress(r)'
    BY <1>1, <1>2, <1>4, <1>6, RunTypes DEF RunIsRight, Tidy, Progress
  <2>3. Sees(r)'
    <3> SUFFICES ASSUME NEW m \in Mails
                 PROVE  /\ <<"mail", m>> \in w => v.mail[m] \in {"exception", "sent", "gone"}
                        /\ <<"mail", m>> \notin w \cup Newer(r) => v.mail[m] = mail'[m]
      BY <1>6 DEF Sees
    <3>1. /\ <<"mail", m>> \in wrote[r] => s.mail[m] \in {"exception", "sent", "gone"}
          /\ <<"mail", m>> \notin wrote[r] \cup Newer(r) => s.mail[m] = mail[m]
      BY SeenIs DEF s
    <3> QED
      BY <1>4, <2>1, <3>1
  <2>4. FromOutgoing(r)'
    BY <1>2, <1>6, <2>1, SeenIs DEF FromOutgoing, Takes
  <2>5. Deletes(r)'
    BY <1>4, <1>6, <2>1, SeenIs DEF Deletes, Served, s
  <2>6. True(view[r])'
    <3>1. True(s)
      BY SeenIs DEF s
    <3>2. \A m \in Mails : To[m] \subseteq Partners
      BY MailQueueAssumption
    <3>3. True(v)
      BY <1>4, <1>5, <3>1, <3>2 DEF True
    <3> QED
      BY <1>6, <2>1, <3>3 DEF True
  <2> QED
    BY <2>2, <2>3, <2>4, <2>5, <2>6 DEF RunIsRight
<1> QED
  BY <1>6, <1>7, AloneKeeps

(* What is left of a run after a mail.                                      *)
LEMMA PassedIs ==
    ASSUME TypeOK, NEW r \in Runs, run[r].batch # {}
    PROVE  /\ Passed(r) \in RunState /\ Passed(r).snap /\ Passed(r).ok = run[r].ok
           /\ Passed(r).at \in {"connect", "next"} /\ (Passed(r).at = "next" => Passed(r).batch # {})
<1>1. First(r) \in run[r].batch
  BY FirstIs
<1>2. run[r].batch \ {First(r)} = {} => run[r].batch = {First(r)}
  BY <1>1
<1> DEFINE at == IF run[r].batch = {First(r)} THEN "connect" ELSE "next"
<1>3. at \in {"connect", "next"} /\ (at = "next" => run[r].batch \ {First(r)} # {})
  BY <1>2
<1>4. Passed(r) = [run[r] EXCEPT !.batch = run[r].batch \ {First(r)}, !.snap = TRUE, !.at = at]
  BY DEF Passed
<1> HIDE DEF at
<1>5. run[r] \in RunState
  BY RunTypes
<1>6. /\ Passed(r).at = at /\ Passed(r).batch = run[r].batch \ {First(r)} /\ Passed(r).snap = TRUE
      /\ Passed(r).ok = run[r].ok
  BY <1>4, <1>5 DEF RunState
<1>7. Passed(r) \in RunState
  BY <1>3, <1>4, <1>5 DEF RunState
<1> QED
  BY <1>3, <1>6, <1>7

(* The next mail of the batch is taken, or passed over when it is not       *)
(* outgoing any more.                                                       *)
LEMMA NextMailKeeps == ASSUME IInv, NEW r \in Runs, NextMail(r) PROVE IInv'
<1>1. TypeOK /\ RunIsRight(r)
  BY DEF IInv
<1> DEFINE m == First(r)
           s == Seen(r)
           drop == s.mail[m] \in {"sent", "cancel"} /\ m \in AutoDelete
           o == IF s.mail[m] = "outgoing" THEN [run[r] EXCEPT !.at = "prepare", !.snap = TRUE] ELSE Passed(r)
           v == IF drop THEN [s EXCEPT !.mail[m] = "gone"] ELSE s
           w == IF drop THEN wrote[r] \cup {<<"mail", m>>} ELSE wrote[r]
<1>2. run[r].batch # {} /\ run[r].ok = {} /\ m \in Mails
  BY <1>1, FirstIs DEF NextMail, RunIsRight, Tidy
<1>3. /\ o \in RunState /\ o.snap /\ o.ok = {} /\ o.at \in {"connect", "next", "prepare"}
      /\ o.at # "connect" => o.batch # {}
      /\ o.at = "prepare" => s.mail[m] = "outgoing" /\ o.batch = run[r].batch
  <2>1. CASE s.mail[m] = "outgoing"
    BY <1>1, <1>2, <2>1, RunTypes DEF RunState
  <2>2. CASE s.mail[m] # "outgoing"
    <3>1. o = Passed(r)
      BY <2>2
    <3> QED
      BY <1>1, <1>2, <3>1, PassedIs
  <2> QED
    BY <2>1, <2>2
<1>4. s \in View
  BY <1>1, RunTypes
<1>5. /\ v \in View /\ v.notif = s.notif
      /\ \A n \in Mails : v.mail[n] = IF drop /\ n = m THEN "gone" ELSE s.mail[n]
  BY <1>2, <1>4 DEF View, MailState
<1>6. w \in SUBSET Row /\ \A n \in Mails : <<"mail", n>> \in w <=> <<"mail", n>> \in wrote[r] \/ (drop /\ n = m)
  BY <1>1, <1>2, RunTypes DEF Row
<1>7. /\ TypeOK' /\ Alone(r) /\ run'[r] = o /\ view'[r] = v /\ wrote'[r] = w
      /\ stale'[r] = Newer(r) /\ sent'[r] = sent[r]
  <2>1. UNCHANGED <<db, got, refused, retries, locked, sent>> /\ SeesStale(r)
    BY DEF NextMail
  <2>2. /\ run' = [run EXCEPT ![r] = o] /\ view' = [view EXCEPT ![r] = v] /\ wrote' = [wrote EXCEPT ![r] = w]
    BY DEF NextMail
  <2> HIDE DEF o, v, w
  <2>3. run' \in [Runs -> RunState] /\ run'[r] = o /\ \A u \in Runs \ {r} : run'[u] = run[u]
    BY <1>1, <1>3, <2>2, Functions
  <2>4. view' \in [Runs -> View] /\ view'[r] = v /\ \A u \in Runs \ {r} : view'[u] = view[u]
    BY <1>1, <1>5, <2>2, Functions
  <2>5. wrote' \in [Runs -> SUBSET Row] /\ wrote'[r] = w /\ \A u \in Runs \ {r} : wrote'[u] = wrote[u]
    BY <1>1, <1>6, <2>2, Functions
  <2>6. stale' \in [Runs -> SUBSET Row] /\ stale'[r] = Newer(r) /\ \A u \in Runs \ {r} : stale'[u] = stale[u]
    BY <1>1, <2>1, SeenIs, Functions
  <2> QED
    BY <1>1, <2>1, <2>3, <2>4, <2>5, <2>6, AloneIs, Quiet, Functions
<1>8. ASSUME NEW n \in Mails
      PROVE  /\ <<"mail", n>> \in wrote[r] => s.mail[n] \in {"exception", "sent", "gone"}
             /\ <<"mail", n>> \notin wrote[r] \cup Newer(r) => s.mail[n] = mail[n]
             /\ s.mail[n] = "gone" /\ <<"mail", n>> \in wrote[r] \ Newer(r) => mail[n] = "cancel" \/ Served(n)
             /\ n \in sent[r] /\ <<"mail", n>> \notin Newer(r) => mail[n] = "outgoing"
             /\ s.mail[n] = "sent" => n \notin AutoDelete
  BY <1>8, SeenIs DEF True
<1> HIDE DEF o, v, w, s
<1>9. UNCHANGED <<mail, got, refused>>
  BY DEF NextMail, db
<1>10. Tidy(r)' /\ Progress(r)'
  BY <1>1, <1>3, <1>6, <1>7, RunTypes DEF RunIsRight, Tidy, Progress
<1>11. Sees(r)'
  BY <1>3, <1>5, <1>6, <1>7, <1>8, <1>9 DEF Sees
<1>12. FromOutgoing(r)'
  <2> SUFFICES ASSUME NEW n \in Mails, n \in sent[r] \/ (o.at = "prepare" /\ n = m), <<"mail", n>> \notin Newer(r)
               PROVE  mail[n] = "outgoing"
    <3>1. o.at = "prepare" => First(r)' = m
      BY <1>3, <1>7 DEF First
    <3> QED
      BY <1>3, <1>7, <1>9, <3>1 DEF FromOutgoing, Takes
  <2> QED
    BY <1>3, <1>8
<1>13. True(view[r])'
  BY <1>5, <1>7, <1>9, SeenIs DEF True, s
<1>14. Deletes(r)'
  <2> SUFFICES ASSUME NEW n \in Mails, v.mail[n] = "gone", <<"mail", n>> \in w \ Newer(r)
               PROVE  mail[n] = "cancel" \/ Served(n)
    BY <1>7, <1>9 DEF Deletes, Served
  <2>1. CASE drop /\ n = m
    BY <1>8, <2>1
  <2>2. CASE ~(drop /\ n = m)
    BY <1>5, <1>6, <1>8, <2>2
  <2> QED
    BY <2>1, <2>2
<1>15. RunIsRight(r)'
  BY <1>10, <1>11, <1>12, <1>13, <1>14 DEF RunIsRight
<1> QED
  BY <1>7, <1>15, AloneKeeps

(* A step that only moves the run on, after a mail or to its end.           *)
LEMMA MovesOnKeeps ==
    ASSUME IInv, NEW r \in Runs, NEW o \in RunState, run' = [run EXCEPT ![r] = o],
           UNCHANGED <<db, got, refused, retries, tx, sent>>,
           o.at \in {"connect", "next", "done"}, o.at = "next" => o.batch # {},
           o.at # "done" => o.ok = {}, o.snap => run[r].snap, run[r].snap => o.snap
    PROVE  IInv'
<1>1. TypeOK /\ RunIsRight(r)
  BY DEF IInv
<1>2. run' \in [Runs -> RunState] /\ run'[r] = o /\ \A u \in Runs \ {r} : run'[u] = run[u]
  BY <1>1, Functions
<1>3. TypeOK' /\ Alone(r)
  BY <1>1, <1>2, AloneIs, Quiet, Functions DEF tx
<1>4. UNCHANGED <<mail, got, refused, view, wrote, stale, sent>>
  BY DEF tx, db
<1>5. Tidy(r)' /\ Progress(r)'
  BY <1>1, <1>2, <1>4 DEF RunIsRight, Tidy, Progress
<1>6. Sees(r)'
  BY <1>1, <1>2, <1>4 DEF RunIsRight, Sees
<1>7. FromOutgoing(r)'
  BY <1>1, <1>2, <1>4 DEF RunIsRight, FromOutgoing, Takes
<1>8. True(view[r])' /\ Deletes(r)'
  BY <1>1, <1>4 DEF RunIsRight, True, Deletes, Served
<1>9. RunIsRight(r)'
  BY <1>5, <1>6, <1>7, <1>8 DEF RunIsRight
<1> QED
  BY <1>3, <1>9, AloneKeeps

(* A mail that was deleted, and a session that is lost, end the run.        *)
LEMMA EndsEarlyKeeps == ASSUME IInv, NEW r \in Runs, Vanished(r) \/ Disconnect(r) PROVE IInv'
<1> DEFINE o == [run[r] EXCEPT !.at = "done"]
<1>1. o \in RunState /\ o.at = "done" /\ (o.snap => run[r].snap) /\ (run[r].snap => o.snap)
  BY RunTypes DEF IInv, RunState
<1>2. run' = [run EXCEPT ![r] = o] /\ UNCHANGED <<db, got, refused, retries, tx, sent>>
  BY DEF Vanished, Disconnect
<1> HIDE DEF o
<1> QED
  BY <1>1, <1>2, MovesOnKeeps

(* Without auto_commit the next mail comes in the same transaction.         *)
LEMMA NextWithoutCommitKeeps ==
    ASSUME IInv, NEW r \in Runs, run[r].at = "commit",
           run' = [run EXCEPT ![r] = [Passed(r) EXCEPT !.ok = {}, !.failed = FALSE]],
           UNCHANGED <<db, got, refused, retries, tx, sent>>
    PROVE  IInv'
<1> DEFINE o == [Passed(r) EXCEPT !.ok = {}, !.failed = FALSE]
<1>1. TypeOK /\ run[r].snap /\ run[r].batch # {}
  BY DEF IInv, RunIsRight, Tidy
<1>2. /\ o \in RunState /\ o.at \in {"connect", "next"} /\ (o.at = "next" => o.batch # {})
      /\ o.ok = {} /\ o.snap
  BY <1>1, PassedIs DEF RunState
<1> HIDE DEF o
<1> QED
  BY <1>1, <1>2, MovesOnKeeps DEF o

(* What a run makes of a mail and of its notifications.                     *)
Made(v, m, state, n) == [mail |-> [v.mail EXCEPT ![m] = state], notif |-> [v.notif EXCEPT ![m] = n]]

(* What a write to a mail and its notifications makes of what the           *)
(* transaction sees.                                                        *)
LEMMA MadeIs ==
    ASSUME NEW v \in View, NEW m \in Mails, NEW state, NEW n, NEW x, x = Made(v, m, state, n),
           state \in {"outgoing", "sent", "exception", "cancel", "gone"},
           n \in [Partners -> {"ready", "sent", "exception"}]
    PROVE  /\ x \in View
           /\ \A l \in Mails : /\ x.mail[l] = IF l = m THEN state ELSE v.mail[l]
                               /\ x.notif[l] = IF l = m THEN n ELSE v.notif[l]
<1>1. v.mail \in MailState /\ v.notif \in NotifState
  BY DEF View
<1>2. [v.mail EXCEPT ![m] = state] \in MailState /\ [v.notif EXCEPT ![m] = n] \in NotifState
  BY <1>1 DEF MailState, NotifState
<1>3. x \in View
  BY <1>2 DEF View, Made
<1>4. x.mail = [v.mail EXCEPT ![m] = state] /\ x.notif = [v.notif EXCEPT ![m] = n]
  BY DEF Made
<1>5. ASSUME NEW l \in Mails
      PROVE  /\ x.mail[l] = IF l = m THEN state ELSE v.mail[l]
             /\ x.notif[l] = IF l = m THEN n ELSE v.notif[l]
  BY <1>1, <1>4 DEF MailState, NotifState
<1> QED
  BY <1>3, <1>5

Edited(v, m, state, n) == [v EXCEPT !.mail[m] = state, !.notif[m] = n]

(* The model's Edited() is that.                                            *)
LEMMA MadeSo ==
    ASSUME NEW v \in View, NEW m, NEW state, NEW n
    PROVE  Edited(v, m, state, n) = Made(v, m, state, n)
<1>1. PICK a \in MailState, b \in NotifState : v = [mail |-> a, notif |-> b]
  BY DEF View
<1> DEFINE A == [a EXCEPT ![m] = state]
<1>2. [v EXCEPT !.mail[m] = state] = [mail |-> A, notif |-> b]
  BY <1>1
<1>3. Made(v, m, state, n) = [mail |-> A, notif |-> [b EXCEPT ![m] = n]]
  BY <1>1 DEF Made
<1>4. Edited(v, m, state, n) = [[v EXCEPT !.mail[m] = state] EXCEPT !.notif[m] = n]
  BY DEF Edited
<1> HIDE DEF A
<1>5. [[mail |-> A, notif |-> b] EXCEPT !.notif[m] = n] = [mail |-> A, notif |-> [b EXCEPT ![m] = n]]
  OBVIOUS
<1> QED
  BY <1>2, <1>3, <1>4, <1>5

(* _send() marks the mail and its notifications as failures before it       *)
(* sends.                                                                   *)
LEMMA PrepareKeeps == ASSUME IInv, NEW r \in Runs, Prepare(r) PROVE IInv'
<1>1. TypeOK /\ RunIsRight(r)
  BY DEF IInv
<1> DEFINE m == First(r)
           p == Pending(view[r].notif, m)
           n == [q \in Partners |-> IF q \in p THEN "exception" ELSE view[r].notif[m][q]]
           w == wrote[r] \cup {<<"mail", m>>} \cup (IF p = {} THEN {} ELSE {<<"notif", m>>})
           o == [run[r] EXCEPT !.at = "send", !.left = To[m]]
<1>2. /\ run[r].batch # {} /\ run[r].ok = {} /\ run[r].snap /\ m \in Mails /\ run[r].at = "prepare"
      /\ p \subseteq Partners /\ (p # {} => m \in Notified) /\ To[m] \subseteq Partners
  BY <1>1, FirstIs, PendingIs, MailQueueAssumption DEF Prepare, RunIsRight, Tidy
<1>3. /\ o \in RunState /\ o.at = "send" /\ o.batch = run[r].batch /\ o.ok = {}
      /\ (o.snap => run[r].snap) /\ (run[r].snap => o.snap) /\ o.left = To[m]
  BY <1>1, <1>2, RunTypes DEF RunState
<1>4. n \in [Partners -> {"ready", "sent", "exception"}] /\ \A q \in Partners : n[q] = "sent" => view[r].notif[m][q] = "sent"
  BY <1>1, <1>2, RunTypes DEF View, NotifState
<1>5. w \in SUBSET Row /\ \A l \in Mails : <<"mail", l>> \in w <=> <<"mail", l>> \in wrote[r] \/ l = m
  <2>1. \A l \in Mails : <<"notif", m>> # <<"mail", l>>
    OBVIOUS
  <2> QED
    BY <1>1, <1>2, <2>1, RunTypes DEF Row
<1>6. /\ UNCHANGED <<db, got, refused, retries, stale, sent>>
      /\ run' = [run EXCEPT ![r] = o] /\ wrote' = [wrote EXCEPT ![r] = w]
  BY DEF Prepare
<1>7. view' = [view EXCEPT ![r].mail[m] = "exception", ![r].notif[m] = n]
  BY DEF Prepare
<1>8. /\ locked' \in [Runs -> SUBSET Notified]
      /\ \A t \in Runs : \A u \in Runs \ {t} : locked'[t] \cap locked'[u] = {}
  <2>1. CASE p = {}
    <3>1. locked' = locked
      BY <1>1, <2>1 DEF Prepare, TypeOK
    <3> QED
      BY <1>1, <3>1 DEF TypeOK
  <2>2. CASE p # {}
    <3>1. locked' = [locked EXCEPT ![r] = @ \cup {m}] /\ \A u \in Runs \ {r} : m \notin locked[u]
      BY <2>2 DEF Prepare
    <3> HIDE DEF m, p
    <3> QED
      BY <1>1, <1>2, <2>2, <3>1 DEF TypeOK
  <2> QED
    BY <2>1, <2>2
<1> HIDE DEF o, w, n
<1>9. run' \in [Runs -> RunState] /\ run'[r] = o /\ \A u \in Runs \ {r} : run'[u] = run[u]
  BY <1>1, <1>3, <1>6, Functions
<1>10. wrote' \in [Runs -> SUBSET Row] /\ wrote'[r] = w /\ \A u \in Runs \ {r} : wrote'[u] = wrote[u]
  BY <1>1, <1>5, <1>6, Functions
<1>11. /\ view' \in [Runs -> View] /\ \A u \in Runs \ {r} : view'[u] = view[u]
       /\ \A l \in Mails : /\ view'[r].mail[l] = IF l = m THEN "exception" ELSE view[r].mail[l]
                           /\ view'[r].notif[l] = IF l = m THEN n ELSE view[r].notif[l]
  <2> HIDE DEF m
  <2> DEFINE v == Made(view[r], m, "exception", n)
  <2>1. /\ v \in View
        /\ \A l \in Mails : /\ v.mail[l] = IF l = m THEN "exception" ELSE view[r].mail[l]
                            /\ v.notif[l] = IF l = m THEN n ELSE view[r].notif[l]
    <3> HIDE DEF n
    <3>1. view[r] \in View
      BY <1>1, RunTypes
    <3> QED
      BY <1>2, <1>4, <3>1, MadeIs
  <2>2. view' = [view EXCEPT ![r] = v]
    <3>1. view[r] \in View /\ view \in [Runs -> View]
      BY <1>1, RunTypes, Functions
    <3>2. Edited(view[r], m, "exception", n) = v
      BY <3>1, MadeSo
    <3> HIDE DEF n
    <3> QED
      BY <1>7, <3>1, <3>2 DEF Edited
  <2> HIDE DEF v
  <2>3. view' \in [Runs -> View] /\ view'[r] = v /\ \A u \in Runs \ {r} : view'[u] = view[u]
    BY <1>1, <2>1, <2>2, Functions
  <2> QED
    BY <2>1, <2>3
<1>12. TypeOK' /\ Alone(r)
  <2>1. got' \in [Mails -> SUBSET Partners] /\ refused' \in [Mails -> SUBSET Partners] /\ Grows
    BY <1>1, <1>6 DEF TypeOK, Grows
  <2> QED
    BY <1>1, <1>6, <1>8, <1>9, <1>10, <1>11, <2>1, AloneIs, Functions
<1>13. First(r)' = m /\ UNCHANGED <<mail, got, refused>>
  BY <1>3, <1>6, <1>9 DEF First, db
<1>14. Tidy(r)'
  BY <1>1, <1>2, <1>3, <1>5, <1>6, <1>9, <1>10, <1>13, RunTypes DEF RunIsRight, Tidy
<1>15. Sees(r)'
  <2> SUFFICES ASSUME NEW l \in Mails
               PROVE  /\ <<"mail", l>> \in w => view'[r].mail[l] \in {"exception", "sent", "gone"}
                      /\ <<"mail", l>> \notin w \cup stale[r] => view'[r].mail[l] = mail[l]
    BY <1>6, <1>10, <1>13 DEF Sees
  <2> QED
    BY <1>1, <1>2, <1>5, <1>11 DEF RunIsRight, Sees
<1>16. FromOutgoing(r)'
  BY <1>1, <1>2, <1>6, <1>13 DEF RunIsRight, FromOutgoing, Takes
<1>17. Progress(r)'
  BY <1>3, <1>9, <1>13 DEF Progress
<1>18. True(view[r])'
  <2>1. \A l \in Mails : To[l] \subseteq Partners
    BY MailQueueAssumption
  <2> QED
    BY <1>1, <1>4, <1>11, <1>13, <2>1 DEF RunIsRight, True
<1>19. Deletes(r)'
  BY <1>1, <1>5, <1>6, <1>10, <1>11, <1>13 DEF RunIsRight, Deletes, Served
<1>20. RunIsRight(r)'
  BY <1>14, <1>15, <1>16, <1>17, <1>18, <1>19 DEF RunIsRight
<1> QED
  BY <1>12, <1>20, AloneKeeps

-----------------------------------------------------------------------------
(* The delivery and what follows                                            *)

(* While a mail is being sent its recipients are served, refused or left.   *)
LEMMA SendingIs ==
    ASSUME IInv, NEW r \in Runs, run[r].at = "send"
    PROVE  /\ TypeOK /\ RunIsRight(r) /\ run[r].snap /\ run[r].batch # {} /\ First(r) \in Mails
           /\ <<"mail", First(r)>> \in wrote[r]
           /\ run[r].ok \subseteq got[First(r)]
           /\ To[First(r)] \subseteq run[r].left \cup got[First(r)] \cup refused[First(r)]
           /\ ~run[r].failed => To[First(r)] \subseteq run[r].left \cup run[r].ok
BY FirstIs DEF IInv, RunIsRight, Tidy, Progress

(* what a delivery, or a refusal, leaves as it is                           *)
LEMMA DeliveryKeeps ==
    ASSUME IInv, NEW r \in Runs, run[r].at = "send",
           NEW o \in RunState, run' = [run EXCEPT ![r] = o], o.at = "send", o.batch = run[r].batch,
           o.snap => run[r].snap, run[r].snap => o.snap,
           UNCHANGED <<db, retries, tx>>,
           got' \in [Mails -> SUBSET Partners], refused' \in [Mails -> SUBSET Partners], Grows,
           \/ sent' = [sent EXCEPT ![r] = @ \cup {First(r)}]
           \/ sent' = sent,
           o.ok \subseteq got'[First(r)],
           To[First(r)] \subseteq o.left \cup got'[First(r)] \cup refused'[First(r)],
           ~o.failed => To[First(r)] \subseteq o.left \cup o.ok
    PROVE  IInv'
<1> DEFINE m == First(r)
<1>1. TypeOK /\ RunIsRight(r) /\ run[r].snap /\ m \in Mails /\ <<"mail", m>> \in wrote[r] /\ run[r].batch # {}
  BY SendingIs
<1>2. run' \in [Runs -> RunState] /\ run'[r] = o /\ \A u \in Runs \ {r} : run'[u] = run[u]
  BY <1>1, Functions
<1>3. /\ sent' \in [Runs -> SUBSET Mails] /\ sent'[r] \subseteq sent[r] \cup {m}
      /\ \A u \in Runs \ {r} : sent'[u] = sent[u]
  BY <1>1, Functions
<1>4. UNCHANGED <<mail, view, wrote, stale, locked>>
  BY DEF tx, db
<1>5. TypeOK' /\ Alone(r)
  <2>1. /\ locked' \in [Runs -> SUBSET Notified]
        /\ \A t \in Runs : \A u \in Runs \ {t} : locked'[t] \cap locked'[u] = {}
    BY <1>1, <1>4 DEF TypeOK
  <2> QED
    BY <1>1, <1>2, <1>3, <1>4, <2>1, AloneIs, Functions
<1>6. First(r)' = m
  BY <1>2 DEF First
<1>7. Tidy(r)'
  BY <1>1, <1>2, <1>3, <1>4, <1>6 DEF RunIsRight, Tidy
<1>8. Sees(r)'
  BY <1>1, <1>2, <1>4 DEF RunIsRight, Sees
<1>9. FromOutgoing(r)'
  BY <1>1, <1>2, <1>3, <1>4, <1>6 DEF RunIsRight, FromOutgoing, Takes
<1>10. Progress(r)'
  BY <1>2, <1>6 DEF Progress
<1>11. True(view[r])'
  BY <1>1, <1>4 DEF RunIsRight, True, Grows
<1>12. Deletes(r)'
  BY <1>1, <1>4 DEF RunIsRight, Deletes, Served, Grows
<1>13. RunIsRight(r)'
  BY <1>7, <1>8, <1>9, <1>10, <1>11, <1>12 DEF RunIsRight
<1> QED
  BY <1>5, <1>13, AloneKeeps

(* A recipient is served.                                                   *)
LEMMA DeliverKeeps == ASSUME IInv, NEW r \in Runs, NEW p \in Partners, Deliver(r, p) PROVE IInv'
<1> DEFINE m == First(r)
           o == [run[r] EXCEPT !.left = run[r].left \ {p}, !.ok = run[r].ok \cup {p}]
<1>1. TypeOK /\ m \in Mails /\ run[r].at = "send"
  BY SendingIs DEF Deliver, Sending
<1>2. run[r] \in RunState
  BY <1>1, RunTypes
<1>3. /\ o \in RunState /\ o.at = "send" /\ o.batch = run[r].batch
      /\ (o.snap => run[r].snap) /\ (run[r].snap => o.snap) /\ (~o.failed => ~run[r].failed)
      /\ o.left = run[r].left \ {p} /\ o.ok = run[r].ok \cup {p}
  BY <1>1, <1>2 DEF RunState
<1>4. run' = [run EXCEPT ![r] = o] /\ UNCHANGED <<db, refused, retries, tx>>
      /\ sent' = [sent EXCEPT ![r] = @ \cup {First(r)}]
  BY DEF Deliver
<1> HIDE DEF o
<1>5. got' = [got EXCEPT ![m] = @ \cup {p}]
  BY DEF Deliver
<1>6. got' \in [Mails -> SUBSET Partners] /\ Grows /\ got'[m] = got[m] \cup {p} /\ refused' \in [Mails -> SUBSET Partners]
  <2> HIDE DEF m
  <2> QED
    BY <1>1, <1>4, <1>5 DEF TypeOK, Grows
<1>7. /\ o.ok \subseteq got'[m] /\ To[m] \subseteq o.left \cup got'[m] \cup refused'[m]
      /\ ~o.failed => To[m] \subseteq o.left \cup o.ok
  BY <1>1, <1>3, <1>4, <1>6, SendingIs
<1> QED
  BY <1>1, <1>3, <1>4, <1>6, <1>7, DeliveryKeeps

(* A recipient is refused.                                                  *)
LEMMA RefuseKeeps == ASSUME IInv, NEW r \in Runs, NEW p \in Partners, Refuse(r, p) PROVE IInv'
<1> DEFINE m == First(r)
           o == [run[r] EXCEPT !.left = run[r].left \ {p}, !.failed = TRUE]
<1>1. TypeOK /\ m \in Mails /\ run[r].at = "send"
  BY SendingIs DEF Refuse, Sending
<1>2. run[r] \in RunState
  BY <1>1, RunTypes
<1>3. /\ o \in RunState /\ o.at = "send" /\ o.batch = run[r].batch
      /\ (o.snap => run[r].snap) /\ (run[r].snap => o.snap) /\ o.failed
      /\ o.left = run[r].left \ {p} /\ o.ok = run[r].ok
  BY <1>1, <1>2 DEF RunState
<1>4. run' = [run EXCEPT ![r] = o] /\ UNCHANGED <<db, got, retries, tx, sent>>
  BY DEF Refuse
<1> HIDE DEF o
<1>5. refused' = [refused EXCEPT ![m] = @ \cup {p}]
  BY DEF Refuse
<1>6. refused' \in [Mails -> SUBSET Partners] /\ Grows /\ refused'[m] = refused[m] \cup {p} /\ got' \in [Mails -> SUBSET Partners]
  <2> HIDE DEF m
  <2> QED
    BY <1>1, <1>4, <1>5 DEF TypeOK, Grows
<1>7. o.ok \subseteq got'[m] /\ To[m] \subseteq o.left \cup got'[m] \cup refused'[m]
  BY <1>1, <1>3, <1>4, <1>6, SendingIs
<1> QED
  BY <1>1, <1>3, <1>4, <1>6, <1>7, DeliveryKeeps

(* What is written after the last recipient is what became of the mail.     *)
LEMMA AfterKeeps ==
    ASSUME IInv, NEW r \in Runs, run[r].at = "send", NEW m \in Mails, m = First(r),
           NEW state \in {"exception", "sent", "gone"}, NEW failed \in BOOLEAN,
           After(r, m, state, failed),
           state = "sent" => m \notin AutoDelete /\ (run[r].ok # {} \/ view[r].mail[m] = "sent"),
           state = "gone" => run[r].left = {},
           ~failed => run[r].left = {} /\ ~run[r].failed
    PROVE  IInv'
<1> DEFINE p == Pending(view[r].notif, m)
           n == [q \in Partners |-> IF q \notin p THEN view[r].notif[m][q]
                                    ELSE IF failed /\ q \notin run[r].ok THEN "exception" ELSE "sent"]
           v == Made(view[r], m, state, n)
           o == [run[r] EXCEPT !.at = "commit"]
<1>1. TypeOK /\ RunIsRight(r) /\ run[r].snap /\ run[r].batch # {} /\ <<"mail", m>> \in wrote[r]
  BY SendingIs
<1>2. run[r] \in RunState /\ view[r] \in View
  BY <1>1, RunTypes
<1>3. o \in RunState /\ o.at = "commit" /\ o.batch = run[r].batch /\ o.snap
  BY <1>1, <1>2 DEF RunState
<1>4. n \in [Partners -> {"ready", "sent", "exception"}]
  BY <1>2 DEF View, NotifState
<1>5. ASSUME m \in Notified, NEW q \in To[m], n[q] = "sent" PROVE q \in got[m]
  <2>1. q \in Partners
    BY MailQueueAssumption
  <2>2. CASE q \in p
    BY <1>5, <2>1, <2>2, SendingIs
  <2>3. CASE q \notin p
    BY <1>1, <1>5, <2>1, <2>3 DEF RunIsRight, True
  <2> QED
    BY <2>2, <2>3
<1>6. /\ v \in View
      /\ \A l \in Mails : /\ v.mail[l] = IF l = m THEN state ELSE view[r].mail[l]
                          /\ v.notif[l] = IF l = m THEN n ELSE view[r].notif[l]
  <2> HIDE DEF n
  <2> QED
    BY <1>2, <1>4, MadeIs
<1>7. /\ run' = [run EXCEPT ![r] = o] /\ UNCHANGED <<db, got, refused, retries, wrote, stale, locked, sent>>
      /\ view' = [view EXCEPT ![r].mail[m] = state, ![r].notif[m] = n]
  BY DEF After
<1>8. view' = [view EXCEPT ![r] = v]
  <2> HIDE DEF n
  <2>1. Edited(view[r], m, state, n) = v
    BY <1>2, MadeSo
  <2> QED
    BY <1>1, <1>2, <1>7, <2>1, Functions DEF Edited
<1> HIDE DEF n, v, o
<1>9. run' \in [Runs -> RunState] /\ run'[r] = o /\ \A u \in Runs \ {r} : run'[u] = run[u]
  BY <1>1, <1>3, <1>7, Functions
<1>10. view' \in [Runs -> View] /\ view'[r] = v /\ \A u \in Runs \ {r} : view'[u] = view[u]
  BY <1>1, <1>6, <1>8, Functions
<1>11. TypeOK' /\ Alone(r)
  BY <1>1, <1>7, <1>9, <1>10, AloneIs, Quiet, Functions
<1>12. First(r)' = m /\ UNCHANGED <<mail, got, refused, wrote, stale, sent>>
  BY <1>3, <1>7, <1>9 DEF First, db
<1>13. Tidy(r)'
  BY <1>1, <1>3, <1>9, <1>12 DEF RunIsRight, Tidy
<1>14. Sees(r)'
  <2> SUFFICES ASSUME NEW l \in Mails
               PROVE  /\ <<"mail", l>> \in wrote[r] => v.mail[l] \in {"exception", "sent", "gone"}
                      /\ <<"mail", l>> \notin wrote[r] \cup stale[r] => v.mail[l] = mail[l]
    BY <1>10, <1>12 DEF Sees
  <2> QED
    BY <1>1, <1>6 DEF RunIsRight, Sees
<1>15. FromOutgoing(r)'
  BY <1>1, <1>12 DEF RunIsRight, FromOutgoing, Takes
<1>16. Progress(r)'
  BY <1>3, <1>9 DEF Progress
<1>17. True(view[r])'
  <2>1. state = "sent" => got[m] # {} /\ m \notin AutoDelete
    BY <1>1, SendingIs DEF RunIsRight, True
  <2>2. True(v)
    BY <1>1, <1>5, <1>6, <2>1 DEF RunIsRight, True
  <2> QED
    BY <1>10, <1>12, <2>2 DEF True
<1>18. Deletes(r)'
  <2>1. state = "gone" => Served(m)
    BY SendingIs DEF Served
  <2> QED
    BY <1>1, <1>6, <1>10, <1>12, <2>1 DEF RunIsRight, Deletes, Served
<1>19. RunIsRight(r)'
  BY <1>13, <1>14, <1>15, <1>16, <1>17, <1>18 DEF RunIsRight
<1> QED
  BY <1>11, <1>19, AloneKeeps

(* Another error for one recipient ends the sending, as a failure.          *)
LEMMA RaiseKeeps == ASSUME IInv, NEW r \in Runs, Raise(r) PROVE IInv'
<1>1. run[r].at = "send"
  BY DEF Raise
<1>2. PICK m \in Mails : m = First(r)
  BY <1>1, SendingIs
<1>3. After(r, m, "exception", TRUE)
  BY <1>2 DEF Raise, After
<1> QED
  BY <1>1, <1>2, <1>3, AfterKeeps

(* A mail is sent, or deleted, when nobody is left.                         *)
LEMMA FinishKeeps == ASSUME IInv, NEW r \in Runs, Finish(r) PROVE IInv'
<1>1. run[r].at = "send" /\ run[r].left = {}
  BY DEF Finish
<1>2. TypeOK /\ RunIsRight(r) /\ First(r) \in Mails /\ <<"mail", First(r)>> \in wrote[r]
  BY <1>1, SendingIs
<1>3. PICK m \in Mails : m = First(r)
  BY <1>2
<1>4. view[r].mail[m] \in {"exception", "sent", "gone"}
  BY <1>2, <1>3 DEF RunIsRight, Sees
<1>5. PICK state \in {"exception", "sent", "gone"} :
        state = IF m \in AutoDelete THEN "gone" ELSE IF run[r].ok = {} THEN view[r].mail[m] ELSE "sent"
  BY <1>4
<1>6. PICK failed \in BOOLEAN : failed = run[r].failed
  BY <1>2, RunTypes DEF RunState
<1>7. After(r, m, state, failed)
  BY <1>3, <1>5, <1>6 DEF Finish, After
<1>8. state = "sent" => m \notin AutoDelete /\ (run[r].ok # {} \/ view[r].mail[m] = "sent")
  BY <1>5
<1> QED
  BY <1>1, <1>3, <1>6, <1>7, <1>8, AfterKeeps

-----------------------------------------------------------------------------
(* Commits, rollbacks and the buttons                                       *)

(* The end of a transaction takes its snapshot, its writes and its locks.   *)
LEMMA EndsIs ==
    ASSUME TypeOK, NEW r \in Runs, NEW l \in RunState, Ends(r, l)
    PROVE  /\ run' \in [Runs -> RunState] /\ view' \in [Runs -> View] /\ wrote' \in [Runs -> SUBSET Row]
           /\ sent' \in [Runs -> SUBSET Mails] /\ locked' \in [Runs -> SUBSET Notified]
           /\ \A t \in Runs : \A u \in Runs \ {t} : locked'[t] \cap locked'[u] = {}
           /\ run'[r].at = l.at /\ run'[r].batch = l.batch /\ run'[r].ok = {} /\ ~run'[r].snap
           /\ view'[r] = NoView /\ wrote'[r] = {} /\ sent'[r] = {}
           /\ \A u \in Runs \ {r} : /\ run'[u] = run[u] /\ view'[u] = view[u] /\ wrote'[u] = wrote[u]
                                    /\ sent'[u] = sent[u]
<1> DEFINE o == [l EXCEPT !.left = {}, !.ok = {}, !.failed = FALSE, !.snap = FALSE]
<1>1. o \in RunState /\ o.at = l.at /\ o.batch = l.batch /\ o.ok = {} /\ ~o.snap
  BY DEF RunState
<1>2. run' = [run EXCEPT ![r] = o]
  BY DEF Ends
<1> HIDE DEF o
<1>3. /\ run' \in [Runs -> RunState] /\ run'[r] = o
      /\ \A u \in Runs \ {r} : run'[u] = run[u]
  BY <1>1, <1>2, Functions
<1>4. /\ view' \in [Runs -> View] /\ view'[r] = NoView
      /\ \A u \in Runs \ {r} : view'[u] = view[u]
  BY RunTypes, Functions DEF Ends
<1>5. /\ wrote' \in [Runs -> SUBSET Row] /\ sent' \in [Runs -> SUBSET Mails]
      /\ wrote'[r] = {} /\ sent'[r] = {}
      /\ \A u \in Runs \ {r} : wrote'[u] = wrote[u] /\ sent'[u] = sent[u]
  BY Functions DEF Ends
<1>6. /\ locked' \in [Runs -> SUBSET Notified]
      /\ \A t \in Runs : \A u \in Runs \ {t} : locked'[t] \cap locked'[u] = {}
  BY DEF Ends, TypeOK
<1> QED
  BY <1>1, <1>3, <1>4, <1>5, <1>6

(* A run whose transaction has ended is right as it is.                     *)
LEMMA EndedIsRight ==
    ASSUME TypeOK, NEW r \in Runs, NEW l \in RunState, Ends(r, l),
           l.at \in {"idle", "connect", "next"}, l.at = "next" => l.batch # {}
    PROVE  RunIsRight(r)'
<1>1. /\ run'[r].at = l.at /\ run'[r].batch = l.batch /\ run'[r].ok = {} /\ ~run'[r].snap
      /\ view'[r] = NoView /\ wrote'[r] = {} /\ sent'[r] = {}
  BY EndsIs
<1>2. Tidy(r)' /\ Progress(r)'
  BY <1>1 DEF Tidy, Progress
<1>3. Sees(r)' /\ FromOutgoing(r)' /\ Deletes(r)'
  BY <1>1 DEF Sees, FromOutgoing, Takes, Deletes
<1>4. True(NoView)'
  BY MailQueueAssumption DEF True, NoView
<1>5. True(view[r])'
  BY <1>1, <1>4 DEF True
<1> QED
  BY <1>2, <1>3, <1>5 DEF RunIsRight

(* A run that does nothing.                                                 *)
LEMMA IdleIs == Idle \in RunState /\ Idle.at = "idle"
BY DEF Idle, RunState

(* A rollback forgets what the run has written, but not what it has sent.   *)
LEMMA RollbackKeeps == ASSUME IInv, NEW r \in Runs, Rollback(r) PROVE IInv'
<1>1. TypeOK
  BY DEF IInv
<1>2. UNCHANGED <<db, got, refused, retries>> /\ stale' = [stale EXCEPT ![r] = {}] /\ Ends(r, Idle)
  BY DEF Rollback
<1>3. stale' \in [Runs -> SUBSET Row] /\ \A u \in Runs \ {r} : stale'[u] = stale[u]
  BY <1>1, <1>2, Functions
<1>4. got' \in [Mails -> SUBSET Partners] /\ refused' \in [Mails -> SUBSET Partners] /\ Grows
  BY <1>1, <1>2 DEF TypeOK, Grows
<1>5. TypeOK' /\ Alone(r)
  BY <1>1, <1>2, <1>3, <1>4, EndsIs, IdleIs, AloneIs
<1>6. RunIsRight(r)'
  BY <1>1, <1>2, EndedIsRight, IdleIs
<1> QED
  BY <1>5, <1>6, AloneKeeps

(* A commit writes what became of the mails, where nobody has written       *)
(* since.                                                                   *)
LEMMA CommitKeeps ==
    ASSUME IInv, NEW r \in Runs, NEW l \in RunState, Commit(r, l),
           l.at \in {"idle", "connect", "next"}, l.at = "next" => l.batch # {}
    PROVE  IInv'
<1>1. TypeOK /\ KeptIsDone /\ True(Committed) /\ RunIsRight(r)
  BY DEF IInv
<1>2. Ends(r, l) /\ UNCHANGED <<got, refused, retries>> /\ ~Conflict(r) /\ Spoils(Runs \ {r}, wrote[r])
  BY DEF Commit
<1>3. \A m \in Mails : /\ mail'[m] = IF <<"mail", m>> \in wrote[r] THEN view[r].mail[m] ELSE mail[m]
                       /\ notif'[m] = IF <<"notif", m>> \in wrote[r] THEN view[r].notif[m] ELSE notif[m]
                       /\ kept'[m] = IF m \in sent[r] THEN kept[m] + 1 ELSE kept[m]
  BY DEF Commit
<1>4. mail' \in MailState /\ notif' \in NotifState /\ kept' \in [Mails -> Nat]
  <2>1. view[r] \in View
    BY <1>1, RunTypes
  <2>2. mail' = [m \in Mails |-> IF <<"mail", m>> \in wrote[r] THEN view[r].mail[m] ELSE mail[m]]
    BY DEF Commit
  <2>3. notif' = [m \in Mails |-> IF <<"notif", m>> \in wrote[r] THEN view[r].notif[m] ELSE notif[m]]
    BY DEF Commit
  <2>4. kept' = [m \in Mails |-> IF m \in sent[r] THEN kept[m] + 1 ELSE kept[m]]
    BY DEF Commit
  <2>5. mail' \in MailState
    BY <1>1, <2>1, <2>2 DEF TypeOK, View, MailState
  <2>6. notif' \in NotifState
    BY <1>1, <2>1, <2>3 DEF TypeOK, View, NotifState
  <2>7. kept' \in [Mails -> Nat]
    BY <1>1, <2>4 DEF TypeOK
  <2> QED
    BY <2>5, <2>6, <2>7
<1>5. \A u \in Runs : stale'[u] = IF u # r /\ run[u].snap THEN stale[u] \cup wrote[r] ELSE {}
  BY <1>2 DEF Spoils
<1>6. stale' \in [Runs -> SUBSET Row]
  BY <1>1, <1>2, Functions DEF Spoils
<1>7. TypeOK'
  BY <1>1, <1>2, <1>4, <1>6, EndsIs DEF TypeOK, RunState, View
<1>8. KeptIsDone'
  <2> SUFFICES ASSUME NEW m \in Mails PROVE kept'[m] = 0 \/ (kept'[m] = 1 /\ mail'[m] # "outgoing")
    BY DEF KeptIsDone
  <2>1. <<"mail", m>> \in wrote[r] => mail'[m] # "outgoing"
    BY <1>1, <1>3 DEF RunIsRight, Sees
  <2>2. CASE m \in sent[r]
    <3>1. <<"mail", m>> \in wrote[r] \ stale[r]
      BY <1>1, <1>2, <2>2 DEF RunIsRight, Tidy, Conflict
    <3>2. mail[m] = "outgoing"
      BY <1>1, <2>2, <3>1 DEF RunIsRight, FromOutgoing, Takes
    <3>3. kept[m] = 0
      BY <1>1, <3>2 DEF KeptIsDone
    <3>4. kept'[m] = kept[m] + 1
      BY <1>3, <2>2
    <3> QED
      BY <2>1, <3>1, <3>3, <3>4
  <2>3. CASE m \notin sent[r]
    BY <1>1, <1>3, <2>1, <2>3 DEF KeptIsDone
  <2> QED
    BY <2>2, <2>3
<1>9. True(Committed)'
  <2> SUFFICES ASSUME NEW m \in Mails
               PROVE  /\ mail'[m] = "sent" => got[m] # {} /\ m \notin AutoDelete
                      /\ m \in Notified => \A p \in To[m] : notif'[m][p] = "sent" => p \in got[m]
    BY <1>2 DEF True, Committed
  <2>1. /\ mail[m] = "sent" => got[m] # {} /\ m \notin AutoDelete
        /\ m \in Notified => \A p \in To[m] : notif[m][p] = "sent" => p \in got[m]
    BY <1>1 DEF True, Committed
  <2>2. /\ view[r].mail[m] = "sent" => got[m] # {} /\ m \notin AutoDelete
        /\ m \in Notified => \A p \in To[m] : view[r].notif[m][p] = "sent" => p \in got[m]
    BY <1>1 DEF RunIsRight, True
  <2> QED
    BY <1>3, <2>1, <2>2
<1>10. ASSUME NEW u \in Runs \ {r} PROVE RunIsRight(u)'
  <2>1. /\ run'[u] = run[u] /\ view'[u] = view[u] /\ wrote'[u] = wrote[u] /\ sent'[u] = sent[u]
    BY <1>1, <1>2, EndsIs
  <2>2. run[u].snap => /\ stale[u] \subseteq stale'[u]
                       /\ \A m \in Mails : <<"mail", m>> \notin stale'[u] => mail'[m] = mail[m]
    BY <1>3, <1>5
  <2>3. Grows
    BY <1>2 DEF Grows
  <2>4. RunIsRight(u)
    BY DEF IInv
  <2> QED
    BY <1>1, <2>1, <2>2, <2>3, <2>4, OthersKeep
<1>11. RunIsRight(r)'
  BY <1>1, <1>2, EndedIsRight
<1> QED
  BY <1>7, <1>8, <1>9, <1>10, <1>11 DEF IInv

(* The buttons Retry and Cancel of a mail.                                  *)
LEMMA ButtonKeeps ==
    ASSUME IInv, NEW m \in Mails, MarkOutgoing(m) \/ Cancel(m)
    PROVE  IInv'
<1>1. TypeOK /\ KeptIsDone /\ True(Committed)
  BY DEF IInv
<1>2. PICK state \in {"outgoing", "cancel"} : Button(m, state) /\ (state = "cancel" => mail[m] = "outgoing" /\ kept' = kept)
                                              /\ (state = "outgoing" => kept' = [kept EXCEPT ![m] = 0])
  BY DEF MarkOutgoing, Cancel
<1>3. /\ mail' = [mail EXCEPT ![m] = state] /\ UNCHANGED <<notif, got, refused, run, view, wrote, locked, sent>>
      /\ \A u \in Runs : stale'[u] = IF run[u].snap THEN stale[u] \cup {<<"mail", m>>} ELSE {}
  BY <1>2 DEF Button, Spoils
<1>4. mail' \in MailState /\ \A n \in Mails : mail'[n] = IF n = m THEN state ELSE mail[n]
  BY <1>1, <1>3 DEF TypeOK, MailState
<1>5. stale' \in [Runs -> SUBSET Row]
  BY <1>1, <1>2, Functions DEF Button, Spoils, Row
<1>6. kept' \in [Mails -> Nat] /\ retries' \in 0..MaxRetries
  BY <1>1, MailQueueAssumption DEF MarkOutgoing, Cancel, TypeOK
<1>7. TypeOK'
  BY <1>1, <1>3, <1>4, <1>5, <1>6 DEF TypeOK
<1>8. KeptIsDone'
  BY <1>1, <1>2, <1>4 DEF KeptIsDone, TypeOK
<1>9. True(Committed)'
  BY <1>1, <1>3, <1>4 DEF True, Committed
<1>10. ASSUME NEW u \in Runs PROVE RunIsRight(u)'
  <2>1. run[u].snap => /\ stale[u] \subseteq stale'[u]
                       /\ \A n \in Mails : <<"mail", n>> \notin stale'[u] => mail'[n] = mail[n]
    BY <1>3, <1>4
  <2>2. Grows
    BY <1>3 DEF Grows
  <2>3. RunIsRight(u)
    BY DEF IInv
  <2> QED
    BY <1>1, <1>3, <2>1, <2>2, <2>3, OthersKeep
<1> QED
  BY <1>7, <1>8, <1>9, <1>10 DEF IInv

-----------------------------------------------------------------------------
(* The theorems                                                             *)

(* Done and, for the queue, EndMail are the steps that commit.              *)
LEMMA CommitsAre ==
    ASSUME IInv, NEW r \in Runs, Done(r) \/ (EndMail(r) /\ r \in Queue)
    PROVE  \E l \in RunState : /\ Commit(r, l) /\ l.at \in {"idle", "connect", "next"}
                               /\ l.at = "next" => l.batch # {}
<1>1. CASE Done(r)
  BY <1>1, IdleIs DEF Done
<1>2. CASE EndMail(r) /\ r \in Queue
  <2> DEFINE l == [Passed(r) EXCEPT !.ok = {}, !.failed = FALSE]
  <2>1. TypeOK /\ run[r].batch # {}
    BY <1>2 DEF IInv, RunIsRight, Tidy, EndMail
  <2>2. l \in RunState /\ l.at \in {"connect", "next"} /\ (l.at = "next" => l.batch # {})
    BY <2>1, PassedIs DEF RunState
  <2>3. Commit(r, l)
    BY <1>2 DEF EndMail
  <2> HIDE DEF l
  <2> QED
    BY <2>2, <2>3
<1> QED
  BY <1>1, <1>2

(* No run is under way at first.                                            *)
LEMMA Initially == Init => IInv
<1> SUFFICES ASSUME Init PROVE IInv
  OBVIOUS
<1>1. Idle \in RunState /\ NoView \in View
  BY DEF Idle, RunState, NoView, View, MailState, NotifState
<1>2. /\ run = [r \in Runs |-> Idle] /\ view = [r \in Runs |-> NoView]
      /\ wrote = [r \in Runs |-> {}] /\ stale = wrote /\ locked = wrote /\ sent = wrote
  BY DEF Init
<1>3. mail = NoView.mail /\ notif = NoView.notif /\ got = [m \in Mails |-> {}] /\ refused = got
      /\ kept = [m \in Mails |-> 0] /\ retries = 0
  BY DEF Init
<1>4. mail \in MailState /\ notif \in NotifState
  BY <1>3 DEF NoView, MailState, NotifState
<1>5. TypeOK
  BY <1>1, <1>2, <1>3, <1>4, MailQueueAssumption DEF TypeOK, RunState, View
<1>6. KeptIsDone
  BY <1>3 DEF KeptIsDone
<1>7. True(NoView)
  BY MailQueueAssumption DEF True, NoView
<1>8. True(Committed)
  BY <1>3, <1>7 DEF Committed, True
<1>9. ASSUME NEW r \in Runs PROVE RunIsRight(r)
  <2>1. run[r] = Idle /\ view[r] = NoView /\ wrote[r] = {} /\ sent[r] = {}
    BY <1>2
  <2> QED
    BY <1>7, <2>1
       DEF RunIsRight, Tidy, Sees, FromOutgoing, Takes, Progress, Deletes, Idle
<1> QED
  BY <1>5, <1>6, <1>8, <1>9 DEF IInv

(* Every step of a run and every button keeps the invariant.                *)
LEMMA Inductive == IInv /\ [Next]_vars => IInv'
<1> SUFFICES ASSUME IInv, [Next]_vars PROVE IInv'
  OBVIOUS
<1>1. ASSUME NEW r \in Runs, RunNext(r) PROVE IInv'
  <2>1. CASE Start(r)
    BY <2>1, StartKeeps
  <2>2. CASE Connect(r) \/ ConnectFails(r)
    BY <2>2, ConnectKeeps, ConnectFailsKeeps
  <2>3. CASE Done(r)
    <3>1. PICK l \in RunState : /\ Commit(r, l) /\ l.at \in {"idle", "connect", "next"}
                                /\ l.at = "next" => l.batch # {}
      BY <2>3, CommitsAre
    <3> QED
      BY <3>1, CommitKeeps
  <2>4. CASE WriteFails(r) \/ Crash(r)
    BY <2>4, RollbackKeeps DEF WriteFails, Crash
  <2>5. CASE NextMail(r) \/ Prepare(r)
    BY <2>5, NextMailKeeps, PrepareKeeps
  <2>6. CASE Vanished(r) \/ Disconnect(r)
    BY <2>6, EndsEarlyKeeps
  <2>7. CASE Raise(r) \/ Finish(r)
    BY <2>7, RaiseKeeps, FinishKeeps
  <2>8. CASE \E p \in Partners : Deliver(r, p) \/ Refuse(r, p)
    BY <2>8, DeliverKeeps, RefuseKeeps
  <2>9. CASE EndMail(r)
    <3>1. CASE r \in Queue
      <4>1. PICK l \in RunState : /\ Commit(r, l) /\ l.at \in {"idle", "connect", "next"}
                                  /\ l.at = "next" => l.batch # {}
        BY <2>9, <3>1, CommitsAre
      <4> QED
        BY <4>1, CommitKeeps
    <3>2. CASE r \notin Queue
      BY <2>9, <3>2, NextWithoutCommitKeeps DEF EndMail
    <3> QED
      BY <3>1, <3>2
  <2> QED
    BY <1>1, <2>1, <2>2, <2>3, <2>4, <2>5, <2>6, <2>7, <2>8, <2>9 DEF RunNext, Try
<1>2. ASSUME NEW m \in Mails, MarkOutgoing(m) \/ Cancel(m) PROVE IInv'
  BY <1>2, ButtonKeeps
<1>3. CASE UNCHANGED vars
  <2> USE <1>3 DEF vars
  <2>1. TypeOK' /\ KeptIsDone'
    BY DEF IInv, TypeOK, KeptIsDone
  <2>2. True(Committed)'
    BY DEF IInv, True, Committed
  <2>3. ASSUME NEW r \in Runs PROVE RunIsRight(r)'
    <3>1. Grows
      BY DEF Grows
    <3> QED
      BY <3>1, OthersKeep DEF IInv
  <2> QED
    BY <2>1, <2>2, <2>3 DEF IInv
<1> QED
  BY <1>1, <1>2, <1>3 DEF Next

(* The types of the state hold at all times: a run is at one of its steps   *)
(* with records of the right form, and no two runs hold the same            *)
(* notifications.                                                           *)
THEOREM TypeCorrect == Spec => []TypeOK
<1>1. IInv => TypeOK
  BY DEF IInv
<1> QED
  BY <1>1, Initially, Inductive, PTL DEF Spec

(* Of the runs that deliver a mail after it was queued one at most commits, *)
(* whatever the runs, their overlaps and their failures.                    *)
THEOREM OneKept == Spec => []OneDeliveryKept
<1>1. IInv => OneDeliveryKept
  BY DEF IInv, KeptIsDone, OneDeliveryKept
<1> QED
  BY <1>1, Initially, Inductive, PTL DEF Spec

(* A status 'sent' that is committed is that of a delivery.                 *)
THEOREM StatusesAreTrue == Spec => []StatusIsTrue
<1>1. IInv => StatusIsTrue
  BY DEF IInv, True, Committed, StatusIsTrue
<1> QED
  BY <1>1, Initially, Inductive, PTL DEF Spec

(* A mail that is deleted was cancelled, or each of its recipients was      *)
(* served or refused.                                                       *)
LEMMA DeletedByCommit ==
    ASSUME IInv, [Next]_vars, NEW m \in Mails, mail[m] # "gone", mail'[m] = "gone"
    PROVE  mail[m] = "cancel" \/ Served(m)
<1>1. ASSUME NEW r \in Runs, NEW l, Commit(r, l) PROVE mail[m] = "cancel" \/ Served(m)
  <2>1. <<"mail", m>> \in wrote[r] /\ view[r].mail[m] = "gone"
    BY <1>1 DEF Commit
  <2>2. <<"mail", m>> \notin stale[r]
    BY <1>1, <2>1 DEF Commit, Conflict
  <2> QED
    BY <2>1, <2>2 DEF IInv, RunIsRight, Deletes
<1>2. ASSUME NEW n \in Mails, MarkOutgoing(n) \/ Cancel(n) PROVE FALSE
  BY <1>2 DEF MarkOutgoing, Cancel, Button, IInv, TypeOK, MailState
<1>3. mail' # mail
  OBVIOUS
<1>4. ASSUME NEW r \in Runs, RunNext(r) PROVE \E l : Commit(r, l)
  BY <1>3, <1>4 DEF RunNext, Start, Connect, ConnectFails, Done, WriteFails, Crash, Rollback, NextMail,
     Vanished, Prepare, Try, Deliver, Refuse, Disconnect, Raise, Finish, After, EndMail, db
<1> QED
  BY <1>1, <1>2, <1>3, <1>4 DEF Next, vars

(* A mail is deleted only once it is served or was cancelled.               *)
THEOREM UndeliveredStays == Spec => UndeliveredIsKept
<1>1. IInv /\ [Next]_vars => [\A m \in Mails : mail[m] # "gone" /\ mail'[m] = "gone"
                                 => mail[m] = "cancel" \/ To[m] \subseteq got[m] \cup refused[m]]_vars
  BY DeletedByCommit DEF Served
<1> QED
  BY <1>1, Initially, Inductive, PTL DEF Spec, UndeliveredIsKept
==============================================================================
