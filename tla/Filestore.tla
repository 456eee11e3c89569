------------------------------ MODULE Filestore ------------------------------
(***************************************************************************)
(* The files of attachments and their collector                            *)
(* (odoo/addons/base/models/ir_attachment.py).                             *)
(*                                                                         *)
(* A file is named by its content, so rows share files.  The directory and *)
(* the checklist belong to no transaction: what is done to them is seen at *)
(* once and never undone.  The rows of ir_attachment are transactional;    *)
(* who changes them holds the table in ROW EXCLUSIVE mode to the end of    *)
(* the transaction, which the collector's SHARE mode excludes.             *)
(***************************************************************************)
EXTENDS FiniteSets

CONSTANTS Tx, Attachments, Files, None

ASSUME FilestoreAssumption == None \notin Files

VARIABLES
    files,      \* the files in the directory
    checklist,  \* the files the collector is to look at
    rows,       \* store_fname of the committed attachments, None for no attachment
    view,       \* as each transaction sees and changes them
    changed,    \* the attachments whose row a transaction has changed
    stale,      \* those that others have changed since its snapshot
    op,         \* the operation a transaction is in
    gc,         \* the collector: its step, what it listed and what it keeps
    late,       \* attachments whose new file a transaction looked at before it held the table
    exposed,    \* those of them that are committed
    gone        \* files of the attachments a transaction has unlinked

filesVars == <<files, checklist, rows, view, changed, stale, op, gc, late, exposed, gone>>

Name == Files \cup {None}
NoOp == [at |-> "none", att |-> None, new |-> None, old |-> None]
GcIdle == [at |-> "idle", listed |-> {}, keep |-> {}, now |-> None]

FilesTypeOK ==
    /\ files \subseteq Files /\ checklist \subseteq Files
    /\ rows \in [Attachments -> Name] /\ view \in [Tx -> [Attachments -> Name]]
    /\ changed \in [Tx -> SUBSET Attachments] /\ stale \in [Tx -> SUBSET Attachments]
    /\ op \in [Tx -> [at : {"none", "written", "insert", "mark", "update", "deleted"},
                      att : Attachments \cup {None}, new : Name, old : Name]]
    /\ gc \in [at : {"idle", "wait", "lock", "listed", "each", "entry"},
               listed : SUBSET Files, keep : SUBSET Name, now : Name]
    /\ late \in [Tx -> SUBSET Attachments] /\ exposed \subseteq Attachments
    /\ gone \in [Tx -> SUBSET Files]

FilesInit ==
    /\ files = {} /\ checklist = {} /\ gc = GcIdle /\ exposed = {}
    /\ rows = [a \in Attachments |-> None]
    /\ view = [t \in Tx |-> rows]
    /\ changed = [t \in Tx |-> {}] /\ stale = [t \in Tx |-> {}]
    /\ op = [t \in Tx |-> NoOp]
    /\ late = [t \in Tx |-> {}] /\ gone = [t \in Tx |-> {}]

-----------------------------------------------------------------------------
(* The table lock                                                           *)

Writers == {t \in Tx : changed[t] # {}}

\* a statement on the row of a waits for the collector, also while this waits for the
\* lock, and for the other transactions that changed the row; on a newer row it fails
MayChange(t, a) ==
    /\ t \in Writers \/ gc.at = "idle"
    /\ \A u \in Tx \ {t} : a \notin changed[u]
    /\ a \notin stale[t]

\* the row of a becomes f in the transaction
Changes(t, a, f) == /\ view' = [view EXCEPT ![t][a] = f]
                    /\ changed' = [changed EXCEPT ![t] = @ \cup {a}]

-----------------------------------------------------------------------------
(* _file_write(): a file that exists is neither written nor marked          *)

Step(t, at) == op' = [op EXCEPT ![t].at = at]

Free(a) == rows[a] = None /\ \A t \in Tx : view[t][a] = None /\ op[t].att # a

WriteFile(t, a, f) ==
    /\ op[t] = NoOp
    /\ view[t][a] # None \/ Free(a)
    /\ files' = files \cup {f}
    /\ op' = [op EXCEPT ![t] = [at |-> IF f \in files THEN (IF view[t][a] = None THEN "insert" ELSE "mark")
                                       ELSE "written",
                                att |-> a, new |-> f, old |-> view[t][a]]]
    /\ late' = [late EXCEPT ![t] = IF t \in Writers THEN @ \ {a} ELSE @ \cup {a}]
    /\ UNCHANGED <<checklist, rows, view, changed, stale, gc, exposed, gone>>

MarkWritten(t) ==
    /\ op[t].at = "written"
    /\ checklist' = checklist \cup {op[t].new}
    /\ Step(t, IF op[t].old = None THEN "insert" ELSE "mark")
    /\ UNCHANGED <<files, rows, view, changed, stale, gc, late, exposed, gone>>

\* create(): the INSERT
Insert(t) ==
    /\ op[t].at = "insert"
    /\ MayChange(t, op[t].att)
    /\ Changes(t, op[t].att, op[t].new)
    /\ op' = [op EXCEPT ![t] = NoOp]
    /\ UNCHANGED <<files, checklist, rows, stale, gc, late, exposed, gone>>

\* _inverse_datas(): the old file is marked, the UPDATE is left to the flush
MarkReplaced(t) ==
    /\ op[t].at = "mark"
    /\ checklist' = checklist \cup {op[t].old}
    /\ Step(t, "update")
    /\ UNCHANGED <<files, rows, view, changed, stale, gc, late, exposed, gone>>

Update(t) ==
    /\ op[t].at = "update"
    /\ MayChange(t, op[t].att)
    /\ Changes(t, op[t].att, op[t].new)
    /\ op' = [op EXCEPT ![t] = NoOp]
    /\ UNCHANGED <<files, checklist, rows, stale, gc, late, exposed, gone>>

\* unlink(): the DELETE first, then the mark
Delete_LeftToTheFlush(t, a) ==
    /\ op[t] = NoOp /\ view[t][a] # None
    /\ checklist' = checklist \cup {view[t][a]}
    /\ gone' = [gone EXCEPT ![t] = @ \cup {view[t][a]}]
    /\ op' = [op EXCEPT ![t] = [at |-> "update", att |-> a, new |-> None, old |-> view[t][a]]]
    /\ UNCHANGED <<files, rows, view, changed, stale, gc, late, exposed>>
Delete(t, a) ==
    /\ op[t] = NoOp /\ view[t][a] # None
    /\ MayChange(t, a)
    /\ Changes(t, a, None)
    /\ op' = [op EXCEPT ![t] = [at |-> "deleted", att |-> a, new |-> None, old |-> view[t][a]]]
    /\ UNCHANGED <<files, checklist, rows, stale, gc, late, exposed, gone>>

MarkUnlinked(t) ==
    /\ op[t].at = "deleted"
    /\ checklist' = checklist \cup {op[t].old}
    /\ gone' = [gone EXCEPT ![t] = @ \cup {op[t].old}]
    /\ op' = [op EXCEPT ![t] = NoOp]
    /\ UNCHANGED <<files, rows, view, changed, stale, gc, late, exposed>>

\* the next transaction of the thread sees the rows as they now are
Commit(t) ==
    /\ op[t] = NoOp
    /\ rows' = [a \in Attachments |-> IF a \in changed[t] THEN view[t][a] ELSE rows[a]]
    /\ view' = [u \in Tx |-> IF u = t \/ (changed[u] = {} /\ op[u] = NoOp) THEN rows' ELSE view[u]]
    /\ stale' = [u \in Tx |-> IF view'[u] = rows' THEN {} ELSE stale[u] \cup changed[t]]
    /\ changed' = [changed EXCEPT ![t] = {}]
    /\ exposed' = (exposed \ changed[t]) \cup (late[t] \cap changed[t])
    /\ late' = [late EXCEPT ![t] = {}] /\ gone' = [gone EXCEPT ![t] = {}]
    /\ UNCHANGED <<files, checklist, op, gc>>

\* an error, a crash of the process or a serialization failure, at any point
Rollback(t) ==
    /\ view' = [view EXCEPT ![t] = rows] /\ stale' = [stale EXCEPT ![t] = {}]
    /\ changed' = [changed EXCEPT ![t] = {}] /\ op' = [op EXCEPT ![t] = NoOp]
    /\ late' = [late EXCEPT ![t] = {}] /\ gone' = [gone EXCEPT ![t] = {}]
    /\ UNCHANGED <<files, checklist, rows, gc, exposed>>

-----------------------------------------------------------------------------
(* _file_gc(), in a transaction of its own                                  *)

Collector(at) == gc.at = at /\ UNCHANGED <<rows, view, changed, stale, op, late, exposed, gone>>

GcStart == Collector("idle") /\ gc' = [gc EXCEPT !.at = "wait"] /\ UNCHANGED <<files, checklist>>

\* LOCK ... IN SHARE MODE is granted when nobody has changed a row
GcLock_Shared == Collector("wait") /\ gc' = [gc EXCEPT !.at = "lock"] /\ UNCHANGED <<files, checklist>>
GcLock == /\ Collector("wait") /\ Writers = {}
          /\ gc' = [gc EXCEPT !.at = "lock"] /\ UNCHANGED <<files, checklist>>

\* lock_timeout, an error or a crash: the lock goes with the transaction
GcFails == /\ gc.at # "idle" /\ Collector(gc.at)
           /\ gc' = GcIdle /\ UNCHANGED <<files, checklist>>

GcList == /\ Collector("lock")
          /\ gc' = [gc EXCEPT !.at = "listed", !.listed = checklist]
          /\ UNCHANGED <<files, checklist>>

GcSelect == /\ Collector("listed")
            /\ gc' = [gc EXCEPT !.at = "each", !.keep = {rows[a] : a \in Attachments}]
            /\ UNCHANGED <<files, checklist>>

\* for each listed name: the file goes unless it is kept, then the entry goes
GcFile(f) == /\ Collector("each") /\ f \in gc.listed
             /\ files' = IF f \in gc.keep THEN files ELSE files \ {f}
             /\ gc' = [gc EXCEPT !.at = "entry", !.now = f]
             /\ UNCHANGED checklist
GcEntry == /\ Collector("entry")
           /\ checklist' = checklist \ {gc.now}
           /\ gc' = [gc EXCEPT !.at = "each", !.listed = @ \ {gc.now}, !.now = None]
           /\ UNCHANGED files

\* the commit releases the lock
GcDone_LockKept == Collector("each") /\ gc.listed = {} /\ UNCHANGED <<files, checklist, gc>>
GcDone == /\ Collector("each") /\ gc.listed = {}
          /\ gc' = GcIdle /\ UNCHANGED <<files, checklist>>

Gc == \/ GcStart \/ GcLock \/ GcFails \/ GcList \/ GcSelect \/ GcEntry \/ GcDone
      \/ \E f \in Files : GcFile(f)

TxNext(t) == \/ \E a \in Attachments : Delete(t, a) \/ \E f \in Files : WriteFile(t, a, f)
             \/ MarkWritten(t) \/ Insert(t) \/ MarkReplaced(t) \/ Update(t) \/ MarkUnlinked(t)
             \/ Commit(t) \/ Rollback(t)

FilesNext == Gc \/ \E t \in Tx : TxNext(t)

FilesSpec == FilesInit /\ [][FilesNext]_filesVars

(* Transactions end; the collector, which is called every day, is called    *)
(* some day when nobody holds the table and is not interrupted at the same  *)
(* step every time.                                                         *)
Fairness ==
    /\ \A t \in Tx : WF_filesVars(Commit(t) \/ Rollback(t))
    /\ SF_filesVars(GcStart /\ Writers = {}) /\ WF_filesVars(GcDone)
    /\ SF_filesVars(GcLock) /\ SF_filesVars(GcList) /\ SF_filesVars(GcSelect) /\ SF_filesVars(GcEntry)
    /\ \A f \in Files : SF_filesVars(GcFile(f))
FairSpec == FilesSpec /\ Fairness

-----------------------------------------------------------------------------
(* Properties                                                               *)

(* A committed attachment has its file, unless the transaction that wrote   *)
(* it looked at the file before it held the table: the collector never      *)
(* takes a file from a row it could have seen.                              *)
RowsHaveFiles == \A a \in Attachments \ exposed : rows[a] # None => rows[a] \in files

(* Once unlink() has returned, the file is on the checklist as long as the  *)
(* transaction may commit: the collector, which would strike it off as long *)
(* as the row is there, does not come in between.                           *)
UnlinkedIsMarked == \A t \in Tx : gone[t] \subseteq checklist

(* A file on the checklist that belongs to nobody goes in the end, whatever *)
(* timeouts, failures and writers the collector meets: it is removed, or    *)
(* somebody takes it over.  Not so the file that is written again while the *)
(* collector is between removing it and striking it off.                    *)
Wanted(f) == f \in {rows[a] : a \in Attachments} \/ \E t \in Tx : op[t].new = f \/ \E a \in changed[t] : view[t][a] = f
GarbageGoes == \A f \in Files : f \in (checklist \cap files) \ {gc.now} ~> (f \notin files \/ Wanted(f))

(* What the collector's comment promises, for every writer.                 *)
RowsAlwaysHaveFiles == \A a \in Attachments : rows[a] # None => rows[a] \in files
==============================================================================
