------------------------------ MODULE MailQueue ------------------------------
(***************************************************************************)
(* Sending the outgoing mails (odoo/addons/mail/models/mail_mail.py).      *)
(*                                                                         *)
(* The queue's run, a scheduled action, commits after each mail.  Other    *)
(* runs (Send Now, the notifications sent after the commit of a message)   *)
(* commit once.  What was delivered is not undone by a rollback.  Writes   *)
(* are left to the flush before the commit, where a row that another       *)
(* transaction has changed since the snapshot fails; only the              *)
(* notifications of a mail are written before it is delivered.             *)
(***************************************************************************)
EXTENDS Naturals, FiniteSets, FiniteSetsExt

CONSTANTS
    Mails,       \* numbered as in the table
    Partners,    \* numbered as in the list of recipients
    To,          \* the recipients of a mail
    Notified,    \* mails with a notification for each recipient
    AutoDelete,  \* mails to delete once sent
    Runs, Queue, \* runs, and those of the queue among them
    BatchSize,   \* mails of an SMTP session (mail.session.batch.size)
    MaxRetries   \* bound: how often users queue a mail again

ASSUME MailQueueAssumption ==
    /\ Mails \subseteq Nat /\ Partners \subseteq Nat /\ To \in [Mails -> SUBSET Partners]
    /\ Notified \subseteq Mails /\ AutoDelete \subseteq Mails /\ Queue \subseteq Runs
    /\ BatchSize \in Nat \ {0} /\ MaxRetries \in Nat

VARIABLES
    mail,     \* the committed state of each mail
    notif,    \* the committed status of each notification
    got,      \* who was ever delivered a mail
    refused,  \* who was ever found to have no valid address
    kept,     \* committed runs that delivered the mail since it was last queued
    retries,
    run,      \* what each run is at
    view,     \* the mails and notifications as its transaction sees and changes them
    wrote,    \* the rows it has changed
    stale,    \* the rows others have changed since its snapshot
    locked,   \* the mails whose notifications it has flushed
    sent      \* the mails it has delivered and not committed

db == <<mail, notif, kept>>
tx == <<view, wrote, stale, locked>>
vars == <<mail, notif, got, refused, kept, retries, run, view, wrote, stale, locked, sent>>

Row == {"mail", "notif"} \X Mails
Idle == [at |-> "idle", todo |-> {}, batch |-> {}, left |-> {}, ok |-> {}, failed |-> FALSE, snap |-> FALSE]
Committed == [mail |-> mail, notif |-> notif]
NoView == [mail |-> [m \in Mails |-> "outgoing"], notif |-> [m \in Mails |-> [p \in Partners |-> "ready"]]]
First(r) == Min(run[r].batch)
Pending(n, m) == {p \in To[m] : m \in Notified /\ n[m][p] # "sent"}

MailState == [Mails -> {"outgoing", "sent", "exception", "cancel", "gone"}]
NotifState == [Mails -> [Partners -> {"ready", "sent", "exception"}]]

TypeOK ==
    /\ mail \in MailState /\ notif \in NotifState
    /\ got \in [Mails -> SUBSET Partners] /\ refused \in [Mails -> SUBSET Partners]
    /\ kept \in [Mails -> Nat] /\ retries \in 0..MaxRetries
    /\ run \in [Runs -> [at : {"idle", "connect", "next", "prepare", "send", "commit", "done"},
                         todo : SUBSET Mails, batch : SUBSET Mails, left : SUBSET Partners,
                         ok : SUBSET Partners, failed : BOOLEAN, snap : BOOLEAN]]
    /\ view \in [Runs -> [mail : MailState, notif : NotifState]]
    /\ wrote \in [Runs -> SUBSET Row] /\ stale \in [Runs -> SUBSET Row]
    /\ locked \in [Runs -> SUBSET Notified] /\ sent \in [Runs -> SUBSET Mails]
    /\ \A r \in Runs : \A u \in Runs \ {r} : locked[r] \cap locked[u] = {}

Init ==
    /\ mail = NoView.mail /\ notif = NoView.notif
    /\ got = [m \in Mails |-> {}] /\ refused = got
    /\ kept = [m \in Mails |-> 0] /\ retries = 0
    /\ run = [r \in Runs |-> Idle]
    /\ view = [r \in Runs |-> NoView]
    /\ wrote = [r \in Runs |-> {}] /\ stale = wrote /\ locked = wrote /\ sent = wrote

-----------------------------------------------------------------------------
(* Transactions                                                             *)

\* the snapshot of a transaction is that of its first statement
Seen(r) == IF run[r].snap THEN view[r] ELSE Committed
SeesStale(r) == stale' = [stale EXCEPT ![r] = IF run[r].snap THEN @ ELSE {}]

\* the transaction r ends with the run at l; the next one has no snapshot yet
Ends(r, l) ==
    /\ run' = [run EXCEPT ![r] = [l EXCEPT !.left = {}, !.ok = {}, !.failed = FALSE, !.snap = FALSE]]
    /\ view' = [view EXCEPT ![r] = NoView]
    /\ wrote' = [wrote EXCEPT ![r] = {}] /\ locked' = [locked EXCEPT ![r] = {}]
    /\ sent' = [sent EXCEPT ![r] = {}]

\* the rows are newer than the snapshots of those runs
Spoils(runs, rows) == stale' = [u \in Runs |-> IF u \in runs /\ run[u].snap THEN stale[u] \cup rows ELSE {}]

Conflict(r) == wrote[r] \cap stale[r] # {}

\* flush and commit: possible when no row is newer than the snapshot or locked
Commit(r, l) ==
    /\ ~Conflict(r)
    /\ \A u \in Runs \ {r} : \A m \in locked[u] : <<"notif", m>> \notin wrote[r]
    /\ mail' = [m \in Mails |-> IF <<"mail", m>> \in wrote[r] THEN view[r].mail[m] ELSE mail[m]]
    /\ notif' = [m \in Mails |-> IF <<"notif", m>> \in wrote[r] THEN view[r].notif[m] ELSE notif[m]]
    /\ kept' = [m \in Mails |-> IF m \in sent[r] THEN kept[m] + 1 ELSE kept[m]]
    /\ Spoils(Runs \ {r}, wrote[r])
    /\ Ends(r, l)
    /\ UNCHANGED <<got, refused, retries>>

\* all since the last commit is undone
Rollback(r) ==
    /\ UNCHANGED <<db, got, refused, retries>>
    /\ stale' = [stale EXCEPT ![r] = {}]
    /\ Ends(r, Idle)

\* a crash or a lost database connection, at any point
Crash(r) == run[r].at # "idle" /\ Rollback(r)

-----------------------------------------------------------------------------
(* process_email_queue(), send(), _split_by_server()                        *)

\* the queue takes all outgoing mails, others take those they are called with
Start(r) ==
    /\ run[r].at = "idle"
    /\ \E ids \in SUBSET {m \in Mails : mail[m] = "outgoing"} :
        /\ ids # {} /\ (r \in Queue => \A m \in Mails : mail[m] = "outgoing" => m \in ids)
        /\ run' = [run EXCEPT ![r] = [Idle EXCEPT !.at = "connect", !.todo = ids, !.snap = TRUE]]
    /\ view' = [view EXCEPT ![r] = Committed] /\ stale' = [stale EXCEPT ![r] = {}]
    /\ UNCHANGED <<db, got, refused, retries, wrote, locked, sent>>

Batch(r) == {m \in run[r].todo : Cardinality({n \in run[r].todo : n < m}) < BatchSize}

Connect(r) ==
    /\ run[r].at = "connect" /\ run[r].todo # {}
    /\ run' = [run EXCEPT ![r] = [run[r] EXCEPT !.at = "next", !.batch = Batch(r), !.todo = @ \ Batch(r),
                                                !.snap = TRUE]]
    /\ view' = [view EXCEPT ![r] = Seen(r)] /\ SeesStale(r)
    /\ UNCHANGED <<db, got, refused, retries, wrote, locked, sent>>

\* the mails of the batch and their notifications are failures; no commit yet
ConnectFails(r) ==
    /\ run[r].at = "connect" /\ run[r].todo # {}
    /\ run' = [run EXCEPT ![r] = [run[r] EXCEPT !.todo = @ \ Batch(r), !.snap = TRUE]]
    /\ LET s == Seen(r) IN
       /\ view' = [view EXCEPT ![r] =
              [mail |-> [m \in Mails |-> IF m \in Batch(r) THEN "exception" ELSE s.mail[m]],
               notif |-> [m \in Mails |-> [p \in Partners |->
                   IF m \in Batch(r) /\ p \in Pending(s.notif, m) THEN "exception" ELSE s.notif[m][p]]]]]
       /\ wrote' = [wrote EXCEPT ![r] = @ \cup {<<"mail", m>> : m \in Batch(r)}
                        \cup {<<"notif", m>> : m \in {n \in Batch(r) : Pending(s.notif, n) # {}}}]
    /\ SeesStale(r)
    /\ UNCHANGED <<db, got, refused, retries, locked, sent>>

\* the request or the scheduled action commits
Ending(r) == run[r].at = "done" \/ (run[r].at = "connect" /\ run[r].todo = {})
Done(r) == Ending(r) /\ Commit(r, Idle)

\* a write fails on a row that another transaction has changed, which ends the run
WriteFails(r) ==
    /\ \/ Conflict(r) /\ (Ending(r) \/ run[r].at = "commit")
       \/ run[r].at = "prepare" /\ <<"notif", First(r)>> \in stale[r] /\ Pending(view[r].notif, First(r)) # {}
    /\ Rollback(r)

-----------------------------------------------------------------------------
(* _send()                                                                  *)

\* on to the next mail of the batch, or to the next batch
Passed(r) == [run[r] EXCEPT !.batch = @ \ {First(r)}, !.snap = TRUE,
                            !.at = IF run[r].batch = {First(r)} THEN "connect" ELSE "next"]

\* one that is not outgoing any more is passed over, without a commit
NextMail_AnyState(r) ==
    /\ run[r].at = "next"
    /\ run' = [run EXCEPT ![r] = [run[r] EXCEPT !.at = "prepare", !.snap = TRUE]]
    /\ view' = [view EXCEPT ![r] = Seen(r)] /\ SeesStale(r)
    /\ UNCHANGED <<db, got, refused, retries, wrote, locked, sent>>
NextMail(r) ==
    /\ run[r].at = "next"
    /\ LET m == First(r)  s == Seen(r)  drop == s.mail[m] \in {"sent", "cancel"} /\ m \in AutoDelete IN
       /\ s.mail[m] # "gone"
       /\ run' = [run EXCEPT ![r] = IF s.mail[m] = "outgoing" THEN [run[r] EXCEPT !.at = "prepare", !.snap = TRUE]
                                    ELSE Passed(r)]
       /\ view' = [view EXCEPT ![r] = IF drop THEN [s EXCEPT !.mail[m] = "gone"] ELSE s]
       /\ wrote' = [wrote EXCEPT ![r] = IF drop THEN @ \cup {<<"mail", m>>} ELSE @]
    /\ SeesStale(r)
    /\ UNCHANGED <<db, got, refused, retries, locked, sent>>

\* the mail was deleted: the error handling fails on it and ends the run
Vanished(r) ==
    /\ run[r].at = "next"
    /\ Seen(r).mail[First(r)] = "gone"
    /\ run' = [run EXCEPT ![r].at = "done"]
    /\ UNCHANGED <<db, got, refused, retries, tx, sent>>

\* the mail and its notifications are failures for the time being; the UPDATE of the
\* notifications waits for a transaction that holds them and fails if they are newer
Prepare_NoException(r) ==
    /\ run[r].at = "prepare"
    /\ run' = [run EXCEPT ![r] = [run[r] EXCEPT !.at = "send", !.left = To[First(r)]]]
    /\ wrote' = [wrote EXCEPT ![r] = @ \cup {<<"mail", First(r)>>}]
    /\ UNCHANGED <<db, got, refused, retries, view, locked, stale, sent>>
Prepare(r) ==
    /\ run[r].at = "prepare"
    /\ LET m == First(r)  p == Pending(view[r].notif, m) IN
       /\ p # {} => \A u \in Runs \ {r} : m \notin locked[u]
       /\ p # {} => <<"notif", m>> \notin stale[r]
       /\ view' = [view EXCEPT ![r].mail[m] = "exception",
                               ![r].notif[m] = [q \in Partners |-> IF q \in p THEN "exception" ELSE @[q]]]
       /\ wrote' = [wrote EXCEPT ![r] = @ \cup {<<"mail", m>>} \cup (IF p = {} THEN {} ELSE {<<"notif", m>>})]
       /\ locked' = [locked EXCEPT ![r] = IF p = {} THEN @ ELSE @ \cup {m}]
       /\ run' = [run EXCEPT ![r] = [run[r] EXCEPT !.at = "send", !.left = To[m]]]
    /\ UNCHANGED <<db, got, refused, retries, stale, sent>>

Sending(r, p) == run[r].at = "send" /\ run[r].left # {} /\ p = Min(run[r].left)

Deliver(r, p) ==
    /\ Sending(r, p)
    /\ got' = [got EXCEPT ![First(r)] = @ \cup {p}]
    /\ sent' = [sent EXCEPT ![r] = @ \cup {First(r)}]
    /\ run' = [run EXCEPT ![r] = [run[r] EXCEPT !.left = @ \ {p}, !.ok = @ \cup {p}]]
    /\ UNCHANGED <<db, refused, retries, tx>>

\* no valid address: the others are delivered all the same
Refuse(r, p) ==
    /\ Sending(r, p)
    /\ refused' = [refused EXCEPT ![First(r)] = @ \cup {p}]
    /\ run' = [run EXCEPT ![r] = [run[r] EXCEPT !.left = @ \ {p}, !.failed = TRUE]]
    /\ UNCHANGED <<db, got, retries, tx, sent>>

\* the session is lost: the error ends the run; the queue's, which catches it, commits
Disconnect(r) ==
    /\ run[r].at = "send" /\ run[r].left # {} /\ r \in Queue
    /\ run' = [run EXCEPT ![r].at = "done"]
    /\ UNCHANGED <<db, got, refused, retries, tx, sent>>

(* _postprocess_sent_message() with the state of the mail                   *)

After(r, m, state, failed) ==
    LET p == Pending(view[r].notif, m) IN
    /\ view' = [view EXCEPT ![r].mail[m] = state,
                            ![r].notif[m] = [q \in Partners |-> IF q \notin p THEN @[q]
                                                ELSE IF failed /\ q \notin run[r].ok THEN "exception" ELSE "sent"]]
    /\ run' = [run EXCEPT ![r].at = "commit"]
    /\ UNCHANGED <<db, got, refused, retries, wrote, stale, locked, sent>>

\* another error for one recipient: the rest are not tried
Raise_Deleted(r) ==
    /\ run[r].at = "send" /\ run[r].left # {}
    /\ After(r, First(r), IF First(r) \in AutoDelete THEN "gone" ELSE "exception", TRUE)
Raise(r) ==
    /\ run[r].at = "send" /\ run[r].left # {}
    /\ After(r, First(r), "exception", TRUE)

Finish_FailuresForgotten(r) ==
    /\ run[r].at = "send" /\ run[r].left = {}
    /\ LET m == First(r)  state == IF run[r].ok = {} THEN view[r].mail[m] ELSE "sent" IN
       After(r, m, IF m \in AutoDelete THEN "gone" ELSE state, FALSE)
Finish(r) ==
    /\ run[r].at = "send" /\ run[r].left = {}
    /\ LET m == First(r)  state == IF run[r].ok = {} THEN view[r].mail[m] ELSE "sent" IN
       After(r, m, IF m \in AutoDelete THEN "gone" ELSE state, run[r].failed)

EndMail(r) ==
    LET l == [Passed(r) EXCEPT !.ok = {}, !.failed = FALSE] IN
    /\ run[r].at = "commit"
    /\ \/ r \in Queue /\ Commit(r, l)
       \/ r \notin Queue /\ run' = [run EXCEPT ![r] = l] /\ UNCHANGED <<db, got, refused, retries, tx, sent>>

-----------------------------------------------------------------------------
(* mark_outgoing(), cancel(): the buttons of the users                      *)

Button(m, state) ==
    /\ mail' = [mail EXCEPT ![m] = state]
    /\ Spoils(Runs, {<<"mail", m>>})
    /\ UNCHANGED <<notif, got, refused, run, view, wrote, locked, sent>>

MarkOutgoing(m) ==
    /\ mail[m] \in {"exception", "cancel"} /\ retries < MaxRetries
    /\ retries' = retries + 1 /\ kept' = [kept EXCEPT ![m] = 0]
    /\ Button(m, "outgoing")

Cancel(m) == mail[m] = "outgoing" /\ Button(m, "cancel") /\ UNCHANGED <<retries, kept>>

-----------------------------------------------------------------------------
Try(r) == Raise(r) \/ Disconnect(r) \/ \E p \in Partners : Deliver(r, p) \/ Refuse(r, p)

RunNext(r) ==
    \/ Start(r) \/ Connect(r) \/ ConnectFails(r) \/ Done(r) \/ WriteFails(r)
    \/ NextMail(r) \/ Vanished(r) \/ Prepare(r) \/ Try(r) \/ Finish(r) \/ EndMail(r)
    \/ Crash(r)

Next == (\E r \in Runs : RunNext(r)) \/ \E m \in Mails : MarkOutgoing(m) \/ Cancel(m)

Spec == Init /\ [][Next]_vars

(* The queue is a scheduled action whose runs stop crashing some day and    *)
(* get their turn at the rows other runs lock; these end somehow.           *)
Goes(r) == RunNext(r) /\ run'[r].at # "idle"
Fairness ==
    /\ \A r \in Runs \ Queue : WF_vars(Crash(r) \/ Done(r) \/ WriteFails(r))
    /\ \A r \in Queue : /\ WF_vars(Goes(r) \/ Done(r) \/ WriteFails(r))
                        /\ SF_vars(Prepare(r)) /\ SF_vars(EndMail(r)) /\ SF_vars(Done(r))
                        /\ <>[][~Crash(r)]_vars
FairSpec == Spec /\ Fairness

-----------------------------------------------------------------------------
(* Properties                                                               *)

(* Of the runs that deliver a mail after it was queued, one at most         *)
(* commits: whoever else sends it fails, however the runs overlap.          *)
OneDeliveryKept == \A m \in Mails : kept[m] <= 1

(* A mail that is 'sent' was delivered to somebody, and a notification that *)
(* is 'sent' belongs to a recipient who was.                                *)
StatusIsTrue == \A m \in Mails :
    /\ mail[m] = "sent" => got[m] # {}
    /\ m \in Notified => \A p \in To[m] : notif[m][p] = "sent" => p \in got[m]

(* A mail is deleted when each recipient was delivered or has no address,   *)
(* or was cancelled; never after another failure.                           *)
UndeliveredIsKept == [][\A m \in Mails : mail[m] # "gone" /\ mail'[m] = "gone"
                           => mail[m] = "cancel" \/ To[m] \subseteq got[m] \cup refused[m]]_vars

(* No mail stays outgoing for ever, whatever runs fail.                     *)
OutgoingSettles == \A m \in Mails : mail[m] = "outgoing" ~> mail[m] # "outgoing"

(* The comment before the first write: the failure that another             *)
(* transaction provokes comes before the mail is delivered.                 *)
FailsBeforeDelivery == \A r \in Runs : \A m \in sent[r] : <<"mail", m>> \notin stale[r]

(* The comment on transient errors: the mail stays outgoing.  Checked as:   *)
(* an error that ends a run of the queue leaves no mail a failure.          *)
LostSessionLeavesOutgoing == [][\A r \in Runs : run[r].at = "done" /\ run'[r].at = "idle"
                                  => \A m \in run[r].batch : mail[m] = "outgoing" => mail'[m] = "outgoing"]_vars

(* A mail that is 'sent' is not made a failure.                             *)
SentStays == [][\A m \in Mails : mail[m] = "sent" => mail'[m] # "exception"]_vars
==============================================================================
