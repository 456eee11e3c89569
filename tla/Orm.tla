--------------------------------- MODULE Orm ---------------------------------
(***************************************************************************)
(* The records of one cursor: the cache, the pending updates (towrite) and *)
(* the pending recomputations (tocompute) of odoo/models.py,               *)
(* odoo/fields.py and odoo/api.py, and the database behind them.           *)
(*                                                                         *)
(* Two models stand for all: `line` has a stored amount and a many2one     *)
(* order (ondelete='set null'); `order` has the one2many lines, a stored   *)
(* total computed from lines.amount and a due computed from total that is  *)
(* not stored.  A total is the set of <<line, amount>> it adds up.         *)
(*                                                                         *)
(* An environment e is a value; each method is an operator from the        *)
(* environment it is called in to the one it leaves.  Caches and pending   *)
(* values are functions of the records they have an entry for.             *)
(***************************************************************************)
EXTENDS Naturals, FiniteSets, Functions

CONSTANTS Lines, Orders, Amounts, None,
          MaxWork      \* bound on the calls that write in a transaction, fewer with more lines

VARIABLES env,     \* db, cache, towrite and tocompute, as below
          saved,   \* the database when the open savepoint began, or None
          writes   \* calls that wrote since the transaction began, for the bound

vars == <<env, saved, writes>>

(* f where it is defined, g elsewhere *)
f ++ g == [x \in DOMAIN f \cup DOMAIN g |-> IF x \in DOMAIN f THEN f[x] ELSE g[x]]

Nothing == << >>
NoCache == [amount |-> Nothing, order |-> Nothing,
            lines |-> Nothing, total |-> Nothing, due |-> Nothing]
NoWrites == [amount |-> Nothing, order |-> Nothing, total |-> Nothing]

Clear(db) == [db |-> db, cache |-> NoCache, towrite |-> NoWrites, tocompute |-> {}]

Partial(S, T) == UNION {[D -> T] : D \in SUBSET S}
Totals == SUBSET (Lines \X Amounts)
Columns == [amount : Partial(Lines, Amounts), order : Partial(Lines, Orders \cup {None}),
            total : Partial(Orders, Totals)]
Caches == [amount : Partial(Lines, Amounts), order : Partial(Lines, Orders \cup {None}),
           lines : Partial(Orders, SUBSET Lines), total : Partial(Orders, Totals),
           due : Partial(Orders, Totals)]
Env == [db : Columns, cache : Caches, towrite : Columns, tocompute : SUBSET Orders]

ASSUME OrmAssumption ==
    None \notin Lines \cup Orders \cup Amounts \cup Columns /\ IsFiniteSet(Lines) /\ MaxWork \in Nat

\* a transaction begins with any database whose totals are those of its lines
Init == /\ saved = None /\ writes = 0
        /\ \E ls \in SUBSET Lines, os \in SUBSET Orders :
              \E amount \in [ls -> Amounts], order \in [ls -> os \cup {None}] :
                  env = Clear([amount |-> amount, order |-> order,
                               total |-> [o \in os |-> {<<l, amount[l]>> : l \in {k \in ls : order[k] = o}}]])

Without(f, S) == Restrict(f, DOMAIN f \ S)

TypeOK ==
    /\ env \in Env /\ env.tocompute \subseteq DOMAIN env.db.total
    /\ saved \in Columns \cup {None}
    /\ writes \in 0 .. MaxWork

-----------------------------------------------------------------------------
(* Pending updates: the towrite of a whole model is written or none of it.  *)

FlushLines(e) ==
    [e EXCEPT !.db.amount = e.towrite.amount ++ @, !.db.order = e.towrite.order ++ @,
              !.towrite.amount = Nothing, !.towrite.order = Nothing]
FlushTotals(e) == [e EXCEPT !.db.total = e.towrite.total ++ @, !.towrite.total = Nothing]

-----------------------------------------------------------------------------
(* Reading.  ls and os are the records a value is needed of, with those     *)
(* that are prefetched with them.                                           *)

\* _read() of the columns of lines, after the flush it needs
ReadLines(e, ls) ==
    LET f == IF ls \cap (DOMAIN e.towrite.amount \cup DOMAIN e.towrite.order) # {}
             THEN FlushLines(e) ELSE e
    IN  [f EXCEPT !.cache.amount = Restrict(f.db.amount, ls) ++ @,
                  !.cache.order = Restrict(f.db.order, ls) ++ @]

FetchAmounts(e, ls) == ReadLines(e, ls \ DOMAIN e.cache.amount)
FetchOrders(e, ls) == ReadLines(e, ls \ DOMAIN e.cache.order)

\* One2many.read(): a search, which flushes the inverse, and the inverse of what it found
FetchLines(e, os) ==
    LET missing == os \ DOMAIN e.cache.lines
        f == IF DOMAIN e.towrite.order # {} THEN FlushLines(e) ELSE e
        found == {l \in DOMAIN f.db.order : f.db.order[l] \in missing}
        order == f.cache.order ++ Restrict(f.db.order, found)
    IN  IF missing = {} THEN e
        ELSE [f EXCEPT !.cache.order = order,
                       !.cache.lines = [o \in missing |-> {l \in found : order[l] = o}] ++ @]

\* Field.write() of computed totals
WriteTotals(e, totals) ==
    LET same == {o \in DOMAIN totals \cap DOMAIN e.cache.total : e.cache.total[o] = totals[o]}
        new == Without(totals, same)
    IN  [e EXCEPT !.tocompute = @ \ DOMAIN totals,
                  !.cache.total = new ++ @, !.towrite.total = new ++ @]

\* compute_value() of total: marked as computed before it is computed
ComputeTotals(e, os) ==
    LET f == FetchLines([e EXCEPT !.tocompute = @ \ os], os)
        g == FetchAmounts(f, UNION {f.cache.lines[o] : o \in os})
    IN  WriteTotals(g, [o \in os |-> {<<l, g.cache.amount[l]>> : l \in g.cache.lines[o]}])

\* all that wait are computed when one of os does; the others are fetched
FetchTotals(e, os) ==
    LET f == IF os \cap e.tocompute # {} THEN ComputeTotals(e, e.tocompute) ELSE e
        missing == os \ DOMAIN f.cache.total
        g == IF missing \cap DOMAIN f.towrite.total # {} THEN FlushTotals(f) ELSE f
    IN  [g EXCEPT !.cache.total = Restrict(g.db.total, missing) ++ @]

\* compute_value() of due, which is not stored
FetchDues(e, os) ==
    LET missing == os \ DOMAIN e.cache.due
        f == FetchTotals(e, missing)
    IN  [f EXCEPT !.cache.due = Restrict(f.cache.total, missing) ++ @]

-----------------------------------------------------------------------------
(* Writing                                                                  *)

\* the end of modified(): totals to compute, dues to forget
Mark(e, os) == [e EXCEPT !.tocompute = @ \cup os, !.cache.due = Without(@, os)]

\* modified() of lines: what depends on them is found through their orders
ModifiedLines(e, ls) ==
    LET f == FetchOrders(e, ls) IN Mark(f, {f.cache.order[l] : l \in ls} \ {None})

WriteAmount(e, ls, a) ==
    LET new == [l \in {l \in ls : l \notin DOMAIN e.cache.amount \/ e.cache.amount[l] # a} |-> a]
    IN  [e EXCEPT !.cache.amount = new ++ @, !.towrite.amount = new ++ @]

\* Many2one.write(), with the cached one2many values on both sides
RemoveInverses(e, ls) ==
    LET olds == {e.cache.order[l] : l \in ls \cap DOMAIN e.cache.order}
    IN  [e EXCEPT !.cache.lines = [o \in DOMAIN @ |-> IF o \in olds THEN @[o] \ ls ELSE @[o]]]
UpdateInverses(e, ls, o) ==
    IF o \in DOMAIN e.cache.lines THEN [e EXCEPT !.cache.lines[o] = @ \cup ls] ELSE e
WriteOrder(e, ls, o) ==
    LET changed == {l \in ls : l \notin DOMAIN e.cache.order \/ e.cache.order[l] # o}
        new == [l \in changed |-> o]
        f == RemoveInverses(e, changed)
    IN  UpdateInverses([f EXCEPT !.cache.order = new ++ @, !.towrite.order = new ++ @], changed, o)

WriteLines_MarkedAfter(e, ls, vals) ==
    LET a == IF "amount" \in DOMAIN vals THEN WriteAmount(e, ls, vals.amount) ELSE e
        b == IF "order" \in DOMAIN vals THEN WriteOrder(a, ls, vals.order) ELSE a
    IN  IF ls = {} THEN e ELSE ModifiedLines(b, ls)

\* write(): what depends on a relation is marked before and after it changes
WriteLines(e, ls, vals) ==
    LET before == IF "order" \in DOMAIN vals THEN ModifiedLines(e, ls) ELSE e
        a == IF "amount" \in DOMAIN vals THEN WriteAmount(before, ls, vals.amount) ELSE before
        b == IF "order" \in DOMAIN vals THEN WriteOrder(a, ls, vals.order) ELSE a
    IN  IF ls = {} THEN e ELSE ModifiedLines(b, ls)

\* create() of a line: inserted at once
InsertLine(e, l, a, o) ==
    LET f == [e EXCEPT !.db.amount = [k \in {l} |-> a] ++ @, !.db.order = [k \in {l} |-> o] ++ @,
                       !.cache.amount = [k \in {l} |-> a] ++ @, !.cache.order = [k \in {l} |-> o] ++ @]
    IN  ModifiedLines(UpdateInverses(f, {l}, o), {l})

-----------------------------------------------------------------------------
(* flush(): computes all that waits, then writes all that is pending        *)

FlushAll_UpdatesFirst(e) == ComputeTotals(FlushLines(FlushTotals(e)), e.tocompute)
FlushAll(e) == FlushLines(FlushTotals(ComputeTotals(e, e.tocompute)))

\* unlink(): flushed, marked, deleted, forgotten, and flushed again
UnlinkLines(e, ls) ==
    LET f == ModifiedLines(FlushAll(e), ls)
    IN  FlushAll([f EXCEPT !.db.amount = Without(@, ls), !.db.order = Without(@, ls),
                           !.cache = NoCache])
UnlinkOrder(e, o) ==
    LET f == FlushAll(e)
    IN  FlushAll([f EXCEPT !.db.total = Without(@, {o}),
                           !.db.order = [l \in DOMAIN @ |-> IF @[l] = o THEN None ELSE @[l]],
                           !.cache = NoCache])

-----------------------------------------------------------------------------
(* One2many.write_real(): the commands on the lines of an order             *)

LinkLines(e, o, ls) ==
    LET f == FetchLines(e, {o})
        new == ls \ f.cache.lines[o]
    IN  WriteLines(FetchOrders(f, new), new, [order |-> o])

\* command 6: a search for the lines to take out, which flushes
ReplaceLines(e, o, ls) ==
    LET f == IF DOMAIN e.towrite.order # {} THEN FlushLines(e) ELSE e
        out == {l \in DOMAIN f.db.order : f.db.order[l] = o} \ ls
    IN  WriteLines(WriteLines(f, out, [order |-> None]), ls, [order |-> o])

\* create() of an order, with lines to link
InsertOrder(e, o, ls) ==
    LET f == Mark([e EXCEPT !.db.total = [k \in {o} |-> {}] ++ @, !.cache.lines = [k \in {o} |-> {}] ++ @], {o})
        g == Mark(LinkLines(f, o, ls), {o})
    IN  IF ls = {} THEN f
        ELSE [g EXCEPT !.cache.lines = IF @[o] = {} THEN Without(@, {o}) ELSE @]

-----------------------------------------------------------------------------
(* Searching: what the domain and the order mention is flushed first        *)

SearchByAmount(e) == IF DOMAIN e.towrite.amount # {} THEN FlushLines(e) ELSE e
SearchByOrder(e) == IF DOMAIN e.towrite.order # {} THEN FlushLines(e) ELSE e
SearchByLines_OwnColumns(e) == SearchByAmount(e)
\* a one2many in the domain stands for its inverse
SearchByLines(e) == SearchByAmount(SearchByOrder(e))
SearchByTotal(e) ==
    LET f == ComputeTotals(e, e.tocompute)
    IN  IF DOMAIN f.towrite.total # {} THEN FlushTotals(f) ELSE f

-----------------------------------------------------------------------------
(* The calls of the code that uses the records                              *)

Existing == DOMAIN env.db.amount
Open == DOMAIN env.db.total

Becomes(e) == env' = e /\ UNCHANGED <<saved, writes>>
Room == writes + Cardinality(Existing) < MaxWork /\ writes' = writes + 1
Writes(e) == Room /\ env' = e /\ UNCHANGED saved

Vals == [amount : Amounts] \cup [order : Open \cup {None}] \cup [amount : Amounts, order : Open \cup {None}]

Read == \/ \E ls \in SUBSET Existing : Becomes(FetchAmounts(env, ls)) \/ Becomes(FetchOrders(env, ls))
        \/ \E os \in SUBSET Open : \/ Becomes(FetchLines(env, os))
                                   \/ Becomes(FetchTotals(env, os))
                                   \/ Becomes(FetchDues(env, os))

Search == \/ Becomes(SearchByAmount(env)) \/ Becomes(SearchByOrder(env))
          \/ Becomes(SearchByLines(env)) \/ Becomes(SearchByTotal(env))

CreateLine == \E l \in Lines \ Existing, a \in Amounts, o \in Open \cup {None} :
                 Writes(InsertLine(env, l, a, o))
WriteLine == \E ls \in SUBSET Existing, vals \in Vals : Writes(WriteLines(env, ls, vals))
UnlinkLine == \E ls \in SUBSET Existing \ {{}} : Writes(UnlinkLines(env, ls))

CreateOrder == \E o \in Orders \ Open, ls \in SUBSET Existing : Writes(InsertOrder(env, o, ls))
DeleteOrder == \E o \in Open : Writes(UnlinkOrder(env, o))

\* write() of the lines of an order: marked before and after the command
WriteOrderLines ==
    \E o \in Open, ls \in SUBSET Existing :
        LET e == Mark(env, {o})
        IN  \/ Writes(Mark(LinkLines(e, o, ls), {o}))
            \/ Writes(Mark(WriteLines(e, ls, [order |-> None]), {o}))
            \/ Writes(Mark(ReplaceLines(e, o, ls), {o}))

\* invalidate_cache() of some records: their fields, and the fields these are the inverse of
Invalidate ==
    \/ \E ls \in SUBSET Existing :
          Becomes([env EXCEPT !.cache.amount = Without(@, ls), !.cache.order = Without(@, ls),
                              !.cache.lines = Nothing])
    \/ \E os \in SUBSET Open :
          Becomes([env EXCEPT !.cache.lines = Without(@, os), !.cache.total = Without(@, os),
                              !.cache.due = Without(@, os), !.cache.order = Nothing])
    \/ Becomes([env EXCEPT !.cache = NoCache])

Flush == Becomes(FlushAll(env))
Commit == saved = None /\ env' = Clear(FlushAll(env).db) /\ writes' = 0 /\ UNCHANGED saved

\* savepoint(): flushed before it begins and before it ends
Savepoint == /\ saved = None
             /\ Room /\ env' = FlushAll(env) /\ saved' = env'.db
Release == /\ saved # None
           /\ env' = FlushAll(env) /\ saved' = None /\ UNCHANGED writes
Fail_EnvKept == /\ saved # None
                /\ env' = [env EXCEPT !.db = saved]
                /\ saved' = None /\ UNCHANGED writes
\* an exception in it or in the flush that ends it: cleared, and the database goes back
Fail == /\ saved # None
        /\ env' = Clear(saved) /\ saved' = None /\ UNCHANGED writes

Next == \/ Read \/ Search \/ Invalidate \/ Flush \/ Commit
        \/ CreateLine \/ WriteLine \/ UnlinkLine
        \/ CreateOrder \/ DeleteOrder \/ WriteOrderLines
        \/ Savepoint \/ Release \/ Fail

Spec == Init /\ [][Next]_vars

-----------------------------------------------------------------------------
(* What the records are: what was last written, flushed or not              *)

Rows(db, towrite) ==
    LET amount == towrite.amount ++ db.amount
        order == towrite.order ++ db.order
    IN  [l \in DOMAIN db.amount |-> [amount |-> amount[l], order |-> order[l]]]

rows == Rows(env.db, env.towrite)
heads == Open
kept == IF saved = None THEN << >> ELSE <<Rows(saved, NoWrites), DOMAIN saved.total>>

LinesOf(o) == {l \in Existing : rows[l].order = o}
Total(o) == {<<l, rows[l].amount>> : l \in LinesOf(o)}

(* Whatever was cached, pending or invalidated before, each field of each   *)
(* record reads as what it now is: what was last written, the lines that    *)
(* refer to the order, their total.                                         *)
ReadsAreRight ==
    /\ \A l \in Existing : /\ FetchAmounts(env, {l}).cache.amount[l] = rows[l].amount
                           /\ FetchOrders(env, {l}).cache.order[l] = rows[l].order
    /\ \A o \in Open : /\ FetchLines(env, {o}).cache.lines[o] = LinesOf(o)
                       /\ FetchTotals(env, {o}).cache.total[o] = Total(o)
                       /\ FetchDues(env, {o}).cache.due[o] = Total(o)

(* A search, which the database answers, finds what reading would: the      *)
(* columns it looks at hold what is pending.                                *)
SearchesAreRight ==
    /\ \A l \in Existing : /\ SearchByAmount(env).db.amount[l] = rows[l].amount
                           /\ SearchByOrder(env).db.order[l] = rows[l].order
                           /\ LET db == SearchByLines(env).db
                              IN  <<db.amount[l], db.order[l]>> = <<rows[l].amount, rows[l].order>>
    /\ \A o \in Open : SearchByTotal(env).db.total[o] = Total(o)

(* What a savepoint or a commit finds after its flush is complete: every    *)
(* total in the database is the one of its lines, and nothing is pending.   *)
FlushSettles ==
    LET e == FlushAll(env)
    IN  /\ e.towrite = NoWrites /\ e.tocompute = {}
        /\ Rows(e.db, NoWrites) = rows
        /\ \A o \in Open : e.db.total[o] = Total(o)

Abstract == INSTANCE Records

(* The records behave as rows that change at once: reads, searches, flushes *)
(* and invalidations change none, and a failure in a savepoint gives back   *)
(* those there were when it began.                                          *)
BehavesAsRecords == Abstract!Spec
==============================================================================
