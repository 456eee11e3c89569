------------------------------- MODULE OrmProofs -------------------------------
(* The ORM for any sets of lines, orders and amounts.  A method is an       *)
(* operator on environments, so what is proved of each is what it makes of  *)
(* an environment that shows the rows R of lines and the orders H: it shows *)
(* the same rows, or those it writes.                                       *)
EXTENDS Orm, FiniteSetTheorems, TLAPS

LinesAt(R, o) == {l \in DOMAIN R : R[l].order = o}
TotalAt(R, o) == {<<l, R[l].amount>> : l \in LinesAt(R, o)}

Row(H) == [amount : Amounts, order : H \cup {None}]
RowsOf(H) == Partial(Lines, Row(H))

(* what a flush would make of the totals in the database                    *)
Written(e) == e.towrite.total ++ e.db.total

(* The database with the pending updates is R.                              *)
Stored(e, R, H) ==
    /\ e \in Env /\ H \in SUBSET Orders /\ R \in RowsOf(H)
    /\ H = DOMAIN e.db.total /\ DOMAIN e.towrite.total \subseteq H
    /\ DOMAIN R = DOMAIN e.db.amount /\ DOMAIN R = DOMAIN e.db.order
    /\ DOMAIN e.towrite.amount \subseteq DOMAIN R /\ DOMAIN e.towrite.order \subseteq DOMAIN R
    /\ \A l \in DOMAIN R :
          /\ R[l].amount = (e.towrite.amount ++ e.db.amount)[l]
          /\ R[l].order = (e.towrite.order ++ e.db.order)[l]

(* So is the cache; a cached total is the one that a flush would leave.     *)
Cached(c, R, H, totals) ==
    /\ DOMAIN c.amount \subseteq DOMAIN R /\ DOMAIN c.order \subseteq DOMAIN R
    /\ DOMAIN c.lines \subseteq H /\ DOMAIN c.total \subseteq H /\ DOMAIN c.due \subseteq H
    /\ \A l \in DOMAIN c.amount : c.amount[l] = R[l].amount
    /\ \A l \in DOMAIN c.order : c.order[l] = R[l].order
    /\ \A o \in DOMAIN c.lines : c.lines[o] = LinesAt(R, o)
    /\ \A o \in DOMAIN c.total : c.total[o] = totals[o]

(* Totals and dues are right but for those that wait for a recomputation,   *)
(* which have no due, and for those of X, that are still to be marked.      *)
Computed(e, R, H, X) ==
    /\ e.tocompute \subseteq H /\ e.tocompute \cap DOMAIN e.cache.due = {}
    /\ \A o \in H \ (e.tocompute \cup X) : Written(e)[o] = TotalAt(R, o)
    /\ \A o \in DOMAIN e.cache.due \ X : e.cache.due[o] = TotalAt(R, o)

Shows(e, R, H, X) == Stored(e, R, H) /\ Cached(e.cache, R, H, Written(e)) /\ Computed(e, R, H, X)

IInv ==
    /\ Shows(env, rows, heads, {})
    /\ saved # None => Shows(Clear(saved), Rows(saved, NoWrites), DOMAIN saved.total, {})
    /\ TypeOK
------------------------------------------------------------------------------
(* Functions on a part of a set                                             *)

(* What a function on a part of S is.                                       *)
LEMMA PartialIs == \A S, T, f :
    f \in Partial(S, T) <=> /\ f = [x \in DOMAIN f |-> f[x]]
                            /\ DOMAIN f \subseteq S /\ \A x \in DOMAIN f : f[x] \in T
BY DEF Partial

(* Nothing is defined nowhere.                                              *)
LEMMA NothingIs == DOMAIN Nothing = {} /\ \A S, T : Nothing \in Partial(S, T)
BY DEF Partial, Nothing

(* f ++ g is f where f is defined, and g elsewhere.                         *)
LEMMA OverIs == \A f, g :
    /\ \A x : x \in DOMAIN (f ++ g) <=> x \in DOMAIN f \/ x \in DOMAIN g
    /\ \A x : x \in DOMAIN f => (f ++ g)[x] = f[x]
    /\ \A x : x \in DOMAIN g /\ x \notin DOMAIN f => (f ++ g)[x] = g[x]
BY DEF ++

(* The same of a function restricted to D.                                  *)
LEMMA RestrictOverIs == \A f, D, g :
    /\ \A x : x \in DOMAIN (Restrict(f, D) ++ g) <=> x \in D \/ x \in DOMAIN g
    /\ \A x : x \in D => (Restrict(f, D) ++ g)[x] = f[x]
    /\ \A x : x \in DOMAIN g /\ x \notin D => (Restrict(f, D) ++ g)[x] = g[x]
BY DEF ++, Restrict

(* An update of a function on a part of S with another one is such a        *)
(* function.                                                                *)
LEMMA OverType ==
    ASSUME NEW S, NEW T, NEW f \in Partial(S, T), NEW g \in Partial(S, T)
    PROVE  f ++ g \in Partial(S, T)
BY PartialIs DEF ++

(* An update that defines nothing new.                                      *)
LEMMA OverMore ==
    ASSUME NEW f, NEW g, DOMAIN f \subseteq DOMAIN g
    PROVE  DOMAIN (f ++ g) = DOMAIN g
<1>1. DOMAIN f \cup DOMAIN g = DOMAIN g
  OBVIOUS
<1> QED
  BY <1>1 DEF ++

(* Nothing changes nothing.                                                 *)
LEMMA NothingOver == ASSUME NEW g, g = [x \in DOMAIN g |-> g[x]] PROVE Nothing ++ g = g
BY NothingIs DEF ++

(* Restrict(f, D) is f on D.                                                *)
LEMMA RestrictIs == \A f, D :
    /\ DOMAIN Restrict(f, D) = D
    /\ \A x : x \in D => Restrict(f, D)[x] = f[x]
BY DEF Restrict

(* What a restriction to a part of the domain is.                           *)
LEMMA RestrictType ==
    ASSUME NEW S, NEW T, NEW f \in Partial(S, T), NEW D \in SUBSET DOMAIN f
    PROVE  Restrict(f, D) \in Partial(S, T)
BY PartialIs DEF Restrict

(* Without(f, D) is f but on D.                                             *)
LEMMA WithoutIs == \A f, D :
    /\ \A x : x \in DOMAIN Without(f, D) <=> x \in DOMAIN f /\ x \notin D
    /\ \A x : x \in DOMAIN f /\ x \notin D => Without(f, D)[x] = f[x]
BY DEF Without, Restrict

(* What Without() leaves is of the same kind.                               *)
LEMMA WithoutType ==
    ASSUME NEW S, NEW T, NEW f \in Partial(S, T), NEW D
    PROVE  Without(f, D) \in Partial(S, T)
BY RestrictType DEF Without

------------------------------------------------------------------------------
(* What an update of one part of an environment leaves.                     *)

(* FlushLines(): the columns of lines, which _write() puts in the database  *)
(* together.                                                                *)
LEMMA FlushLinesShows ==
    ASSUME NEW e, NEW R, NEW H, NEW X, Shows(e, R, H, X)
    PROVE  /\ Shows(FlushLines(e), R, H, X)
           /\ FlushLines(e).cache = e.cache /\ FlushLines(e).tocompute = e.tocompute
           /\ FlushLines(e).db.total = e.db.total /\ FlushLines(e).towrite.total = e.towrite.total
           /\ FlushLines(e).towrite.amount = Nothing /\ FlushLines(e).towrite.order = Nothing
<1> DEFINE f == FlushLines(e)
           am == e.towrite.amount ++ e.db.amount
           or == e.towrite.order ++ e.db.order
<1>1. e \in Env
  BY DEF Shows, Stored
<1>2. am \in Partial(Lines, Amounts) /\ or \in Partial(Lines, Orders \cup {None})
  BY <1>1, OverType DEF Env, Columns
<1>3. /\ f.db = [amount |-> am, order |-> or, total |-> e.db.total]
      /\ f.towrite = [amount |-> Nothing, order |-> Nothing, total |-> e.towrite.total]
      /\ f.cache = e.cache /\ f.tocompute = e.tocompute
  BY <1>1 DEF FlushLines, Env, Columns
<1>4. f \in Env
  BY <1>1, <1>2, <1>3, NothingIs DEF FlushLines, Env, Columns
<1> HIDE DEF f
<1>5. Nothing ++ am = am /\ Nothing ++ or = or
  BY <1>2, PartialIs, NothingOver
<1>6. DOMAIN am = DOMAIN R /\ DOMAIN or = DOMAIN R
  BY OverMore DEF Shows, Stored
<1> HIDE DEF am, or
<1>7. Stored(f, R, H)
  BY <1>3, <1>4, <1>5, <1>6, NothingIs DEF Shows, Stored, am, or
<1>8. Written(f) = Written(e)
  BY <1>3 DEF Written
<1> QED
  BY <1>3, <1>7, <1>8 DEF Shows, Computed, f

(* FlushTotals(): a total in the database is then what Written() says.      *)
LEMMA FlushTotalsShows ==
    ASSUME NEW e, NEW R, NEW H, NEW X, Shows(e, R, H, X)
    PROVE  /\ Shows(FlushTotals(e), R, H, X)
           /\ FlushTotals(e).cache = e.cache /\ FlushTotals(e).tocompute = e.tocompute
           /\ FlushTotals(e).towrite = [e.towrite EXCEPT !.total = Nothing]
           /\ FlushTotals(e).towrite.total = Nothing
           /\ FlushTotals(e).db = [e.db EXCEPT !.total = Written(e)]
           /\ Written(FlushTotals(e)) = Written(e)
<1> DEFINE f == FlushTotals(e)
           tot == Written(e)
<1>1. e \in Env
  BY DEF Shows, Stored
<1>2. tot \in Partial(Orders, Totals)
  BY <1>1, OverType DEF Env, Columns, Written
<1>3. /\ f.db = [e.db EXCEPT !.total = tot] /\ f.towrite = [e.towrite EXCEPT !.total = Nothing]
      /\ f.cache = e.cache /\ f.tocompute = e.tocompute
  BY <1>1 DEF FlushTotals, Env, Columns, Written
<1>4. f \in Env
  BY <1>1, <1>2, <1>3, NothingIs DEF FlushTotals, Env, Columns, Written
<1>5. /\ f.db.amount = e.db.amount /\ f.db.order = e.db.order /\ f.db.total = tot
      /\ f.towrite.amount = e.towrite.amount /\ f.towrite.order = e.towrite.order
      /\ f.towrite.total = Nothing
  BY <1>1, <1>3 DEF Env, Columns
<1> HIDE DEF f
<1>6. Nothing ++ tot = tot
  BY <1>2, PartialIs, NothingOver
<1>7. DOMAIN tot = H
  BY OverMore DEF Shows, Stored, Written
<1>8. Written(f) = tot
  BY <1>5, <1>6 DEF Written
<1> HIDE DEF tot
<1>9. Stored(f, R, H)
  BY <1>4, <1>5, <1>7, NothingIs DEF Shows, Stored
<1> QED
  BY <1>3, <1>5, <1>8, <1>9 DEF Shows, Computed, f, tot

------------------------------------------------------------------------------
(* Reading                                                                  *)

(* f is e after a read of lines: no total has changed, and what was cached  *)
(* still is.                                                                *)
Reads(e, f) ==
    /\ f.tocompute = e.tocompute /\ f.towrite.total = e.towrite.total
    /\ f.cache.total = e.cache.total /\ f.cache.due = e.cache.due
    /\ DOMAIN e.cache.amount \subseteq DOMAIN f.cache.amount
    /\ DOMAIN e.cache.order \subseteq DOMAIN f.cache.order
    /\ DOMAIN e.cache.lines \subseteq DOMAIN f.cache.lines
    /\ DOMAIN f.towrite.amount \subseteq DOMAIN e.towrite.amount
    /\ DOMAIN f.towrite.order \subseteq DOMAIN e.towrite.order

(* A read that fills the cache with what the rows are shows the same rows.  *)
LEMMA Recached ==
    ASSUME NEW e, NEW R, NEW H, NEW X, Shows(e, R, H, X), NEW f \in Env,
           f.db = e.db, f.towrite = e.towrite, f.tocompute = e.tocompute, f.cache.due = e.cache.due,
           Cached(f.cache, R, H, Written(e))
    PROVE  Shows(f, R, H, X)
<1>1. Written(f) = Written(e)
  BY DEF Written
<1> QED
  BY <1>1 DEF Shows, Stored, Computed

(* What is not pending is in the database as it is.                         *)
LEMMA NotPending ==
    ASSUME NEW e, NEW R, NEW H, Stored(e, R, H), NEW l \in DOMAIN R
    PROVE  /\ l \notin DOMAIN e.towrite.amount => e.db.amount[l] = R[l].amount
           /\ l \notin DOMAIN e.towrite.order => e.db.order[l] = R[l].order
<1>1. /\ l \in DOMAIN e.db.amount /\ l \in DOMAIN e.db.order
      /\ R[l].amount = (e.towrite.amount ++ e.db.amount)[l]
      /\ R[l].order = (e.towrite.order ++ e.db.order)[l]
  BY DEF Stored
<1> QED
  BY <1>1, OverIs

(* _read(): pending columns are flushed before they are fetched, so nothing *)
(* older than what was written gets in the cache.                           *)
LEMMA ReadLinesShows ==
    ASSUME NEW e, NEW R, NEW H, NEW X, Shows(e, R, H, X), NEW ls \in SUBSET DOMAIN R
    PROVE  /\ Shows(ReadLines(e, ls), R, H, X) /\ Reads(e, ReadLines(e, ls))
           /\ ls \subseteq DOMAIN ReadLines(e, ls).cache.amount
           /\ ls \subseteq DOMAIN ReadLines(e, ls).cache.order
<1> DEFINE g == IF ls \cap (DOMAIN e.towrite.amount \cup DOMAIN e.towrite.order) # {}
                THEN FlushLines(e) ELSE e
           am == Restrict(g.db.amount, ls) ++ g.cache.amount
           or == Restrict(g.db.order, ls) ++ g.cache.order
           f == [g EXCEPT !.cache.amount = am, !.cache.order = or]
<1>1. /\ Shows(g, R, H, X) /\ g.cache = e.cache /\ g.tocompute = e.tocompute
      /\ g.towrite.total = e.towrite.total
      /\ DOMAIN g.towrite.amount \subseteq DOMAIN e.towrite.amount
      /\ DOMAIN g.towrite.order \subseteq DOMAIN e.towrite.order
      /\ \A l \in ls : l \notin DOMAIN g.towrite.amount /\ l \notin DOMAIN g.towrite.order
  BY FlushLinesShows, NothingIs
<1>2. ReadLines(e, ls) = f
  BY DEF ReadLines
<1> HIDE DEF g
<1>3. g \in Env /\ Stored(g, R, H) /\ Cached(g.cache, R, H, Written(g))
  BY <1>1 DEF Shows, Stored
<1>4. ls \subseteq DOMAIN g.db.amount /\ ls \subseteq DOMAIN g.db.order
  BY <1>3 DEF Stored
<1>5. am \in Partial(Lines, Amounts) /\ or \in Partial(Lines, Orders \cup {None})
  BY <1>3, <1>4, OverType, RestrictType DEF Env, Columns, Caches
<1>6. /\ \A l : l \in DOMAIN am <=> l \in ls \/ l \in DOMAIN g.cache.amount
      /\ \A l : l \in DOMAIN or <=> l \in ls \/ l \in DOMAIN g.cache.order
      /\ \A l \in ls : am[l] = R[l].amount /\ or[l] = R[l].order
      /\ \A l \in DOMAIN g.cache.amount \ ls : am[l] = g.cache.amount[l]
      /\ \A l \in DOMAIN g.cache.order \ ls : or[l] = g.cache.order[l]
  <2>1. \A l \in ls : g.db.amount[l] = R[l].amount /\ g.db.order[l] = R[l].order
    BY <1>1, <1>3, NotPending
  <2> QED
    BY <2>1, RestrictOverIs
<1> HIDE DEF am, or
<1>7. /\ f \in Env /\ f.db = g.db /\ f.towrite = g.towrite /\ f.tocompute = g.tocompute
      /\ f.cache.amount = am /\ f.cache.order = or /\ f.cache.lines = g.cache.lines
      /\ f.cache.total = g.cache.total /\ f.cache.due = g.cache.due
  BY <1>3, <1>5 DEF Env, Caches
<1> HIDE DEF f
<1>8. Cached(f.cache, R, H, Written(g))
  BY <1>3, <1>6, <1>7 DEF Cached
<1>9. Shows(f, R, H, X)
  BY <1>1, <1>7, <1>8, Recached
<1> QED
  BY <1>1, <1>2, <1>6, <1>7, <1>9 DEF Reads

(* What is cached is not fetched again.                                     *)
LEMMA FetchAmountsShows ==
    ASSUME NEW e, NEW R, NEW H, NEW X, Shows(e, R, H, X), NEW ls \in SUBSET DOMAIN R
    PROVE  /\ Shows(FetchAmounts(e, ls), R, H, X) /\ Reads(e, FetchAmounts(e, ls))
           /\ ls \subseteq DOMAIN FetchAmounts(e, ls).cache.amount
<1> DEFINE f == FetchAmounts(e, ls)
           missing == ls \ DOMAIN e.cache.amount
<1>1. f = ReadLines(e, missing) /\ missing \in SUBSET DOMAIN R
  BY DEF FetchAmounts
<1> HIDE DEF f
<1>2. Shows(f, R, H, X) /\ Reads(e, f) /\ missing \subseteq DOMAIN f.cache.amount
  BY <1>1, ReadLinesShows
<1> QED
  BY <1>2 DEF f, Reads

(* The same of the orders of lines.                                         *)
LEMMA FetchOrdersShows ==
    ASSUME NEW e, NEW R, NEW H, NEW X, Shows(e, R, H, X), NEW ls \in SUBSET DOMAIN R
    PROVE  /\ Shows(FetchOrders(e, ls), R, H, X) /\ Reads(e, FetchOrders(e, ls))
           /\ ls \subseteq DOMAIN FetchOrders(e, ls).cache.order
<1> DEFINE f == FetchOrders(e, ls)
           missing == ls \ DOMAIN e.cache.order
<1>1. f = ReadLines(e, missing) /\ missing \in SUBSET DOMAIN R
  BY DEF FetchOrders
<1> HIDE DEF f
<1>2. Shows(f, R, H, X) /\ Reads(e, f) /\ missing \subseteq DOMAIN f.cache.order
  BY <1>1, ReadLinesShows
<1> QED
  BY <1>2 DEF f, Reads

(* One2many.read(): the search for the lines of the orders, and the inverse *)
(* of what is found.                                                        *)
LEMMA FetchLinesShows ==
    ASSUME NEW e, NEW R, NEW H, NEW X, Shows(e, R, H, X), NEW os \in SUBSET H
    PROVE  /\ Shows(FetchLines(e, os), R, H, X) /\ Reads(e, FetchLines(e, os))
           /\ os \subseteq DOMAIN FetchLines(e, os).cache.lines
<1> DEFINE missing == os \ DOMAIN e.cache.lines
           g == IF DOMAIN e.towrite.order # {} THEN FlushLines(e) ELSE e
           found == {l \in DOMAIN g.db.order : g.db.order[l] \in missing}
           or == g.cache.order ++ Restrict(g.db.order, found)
           lines == [o \in missing |-> {l \in found : or[l] = o}] ++ g.cache.lines
           f == [g EXCEPT !.cache.order = or, !.cache.lines = lines]
<1>1. CASE missing = {}
  <2>1. FetchLines(e, os) = e
    BY <1>1 DEF FetchLines
  <2> QED
    BY <1>1, <2>1 DEF Reads
<1>2. CASE missing # {}
  <2>1. FetchLines(e, os) = f
    BY <1>2 DEF FetchLines
  <2>2. /\ Shows(g, R, H, X) /\ g.cache = e.cache /\ g.tocompute = e.tocompute
        /\ g.towrite.total = e.towrite.total
        /\ DOMAIN g.towrite.amount \subseteq DOMAIN e.towrite.amount
        /\ DOMAIN g.towrite.order \subseteq DOMAIN e.towrite.order
    BY FlushLinesShows, NothingIs
  <2>3. g \in Env /\ Stored(g, R, H) /\ Cached(g.cache, R, H, Written(g)) /\ R \in RowsOf(H)
    BY <2>2 DEF Shows, Stored
  <2>4. DOMAIN g.db.order = DOMAIN R /\ \A l \in DOMAIN R : g.db.order[l] = R[l].order
    <3>1. DOMAIN g.towrite.order = {}
      BY FlushLinesShows, NothingIs
    <3> QED
      BY <2>3, <3>1, NotPending DEF Stored
  <2> HIDE DEF g
  <2>5. found \subseteq DOMAIN R /\ \A l : l \in found <=> l \in DOMAIN R /\ R[l].order \in missing
    BY <2>4
  <2> HIDE DEF found
  <2>6. /\ \A l : l \in DOMAIN or <=> l \in DOMAIN g.cache.order \/ l \in found
        /\ \A l \in DOMAIN or : or[l] = R[l].order
    <3>1. \A l \in DOMAIN g.cache.order : g.cache.order[l] = R[l].order
      BY <2>3 DEF Cached
    <3>2. /\ DOMAIN Restrict(g.db.order, found) = found
          /\ \A l \in found : Restrict(g.db.order, found)[l] = R[l].order
      BY <2>4, <2>5, RestrictIs
    <3> QED
      BY <3>1, <3>2, OverIs
  <2>7. or \in Partial(Lines, Orders \cup {None})
    <3>1. found \in SUBSET DOMAIN g.db.order
      BY <2>4, <2>5
    <3> QED
      BY <2>3, <3>1, OverType, RestrictType DEF Env, Columns, Caches
  <2> HIDE DEF or
  <2>8. \A o \in missing : {l \in found : or[l] = o} = LinesAt(R, o)
    BY <2>5, <2>6 DEF LinesAt
  <2>9. /\ \A o : o \in DOMAIN lines <=> o \in missing \/ o \in DOMAIN g.cache.lines
        /\ \A o \in missing : lines[o] = LinesAt(R, o)
        /\ \A o \in DOMAIN g.cache.lines \ missing : lines[o] = g.cache.lines[o]
    <3> DEFINE new == [o \in missing |-> {l \in found : or[l] = o}]
    <3>1. DOMAIN new = missing /\ \A o \in missing : new[o] = LinesAt(R, o)
      BY <2>8
    <3> HIDE DEF new
    <3>2. DOMAIN new = missing => \A o : o \in DOMAIN (new ++ g.cache.lines) <=> o \in missing \/ o \in DOMAIN g.cache.lines
      BY OverIs
    <3>3. /\ \A o \in missing : (new ++ g.cache.lines)[o] = LinesAt(R, o)
          /\ \A o \in DOMAIN g.cache.lines \ missing : (new ++ g.cache.lines)[o] = g.cache.lines[o]
      BY <3>1, OverIs
    <3>4. lines = new ++ g.cache.lines
      BY DEF new
    <3> QED
      BY <3>1, <3>2, <3>3, <3>4
  <2>10. lines \in Partial(Orders, SUBSET Lines)
    <3>1. [o \in missing |-> {l \in found : or[l] = o}] \in Partial(Orders, SUBSET Lines)
      <4>1. missing \subseteq Orders /\ found \subseteq Lines
        BY <2>3, <2>5, PartialIs DEF Stored, RowsOf
      <4> QED
        BY <4>1, PartialIs
    <3> QED
      BY <2>3, <3>1, OverType DEF Env, Caches
  <2> HIDE DEF lines
  <2>11. /\ f \in Env /\ f.db = g.db /\ f.towrite = g.towrite /\ f.tocompute = g.tocompute
         /\ f.cache.amount = g.cache.amount /\ f.cache.order = or /\ f.cache.lines = lines
         /\ f.cache.total = g.cache.total /\ f.cache.due = g.cache.due
    BY <2>3, <2>7, <2>10 DEF Env, Caches
  <2> HIDE DEF f
  <2>12. Cached(f.cache, R, H, Written(g))
    BY <2>3, <2>5, <2>6, <2>9, <2>11 DEF Cached
  <2>13. Shows(f, R, H, X)
    BY <2>2, <2>11, <2>12, Recached
  <2> QED
    BY <2>1, <2>2, <2>6, <2>9, <2>11, <2>13 DEF Reads
<1> QED
  BY <1>1, <1>2

------------------------------------------------------------------------------
(* Computing                                                                *)

(* A pending total stands for the one in the database.                      *)
LEMMA WrittenIs == \A e :
    /\ \A o : o \in DOMAIN Written(e) <=> o \in DOMAIN e.towrite.total \/ o \in DOMAIN e.db.total
    /\ \A o : o \in DOMAIN e.towrite.total => Written(e)[o] = e.towrite.total[o]
    /\ \A o : o \in DOMAIN e.db.total /\ o \notin DOMAIN e.towrite.total => Written(e)[o] = e.db.total[o]
BY OverIs DEF Written

(* The columns of a row.                                                    *)
LEMMA RowIs ==
    ASSUME NEW H, NEW R \in RowsOf(H), NEW l \in DOMAIN R
    PROVE  l \in Lines /\ R[l].amount \in Amounts /\ R[l].order \in H \cup {None}
<1>1. l \in Lines /\ R[l] \in Row(H)
  BY PartialIs DEF RowsOf
<1> QED
  BY <1>1 DEF Row

(* A total is computed from lines that exist.                               *)
LEMMA TotalIs ==
    ASSUME NEW H, NEW R \in RowsOf(H), NEW o
    PROVE  TotalAt(R, o) \in Totals
BY RowIs DEF TotalAt, LinesAt, Totals

(* Field.write() of totals that are right: they wait and need a mark no     *)
(* more.                                                                    *)
LEMMA WriteTotalsShows ==
    ASSUME NEW e, NEW R, NEW H, NEW X, Shows(e, R, H, X), NEW totals \in Partial(Orders, Totals),
           DOMAIN totals \subseteq H, \A o \in DOMAIN totals : totals[o] = TotalAt(R, o),
           DOMAIN totals \cap DOMAIN e.cache.due = {}
    PROVE  /\ Shows(WriteTotals(e, totals), R, H, X \ DOMAIN totals)
           /\ WriteTotals(e, totals).tocompute = e.tocompute \ DOMAIN totals
           /\ WriteTotals(e, totals).cache.due = e.cache.due
           /\ DOMAIN totals \subseteq DOMAIN WriteTotals(e, totals).cache.total
<1> DEFINE same == {o \in DOMAIN totals \cap DOMAIN e.cache.total : e.cache.total[o] = totals[o]}
           new == Without(totals, same)
           cac == new ++ e.cache.total
           tow == new ++ e.towrite.total
           f == [e EXCEPT !.tocompute = @ \ DOMAIN totals, !.cache.total = cac, !.towrite.total = tow]
<1>1. WriteTotals(e, totals) = f
  BY DEF WriteTotals
<1>2. e \in Env /\ Stored(e, R, H) /\ Cached(e.cache, R, H, Written(e)) /\ Computed(e, R, H, X)
  BY DEF Shows, Stored
<1>5. \A o \in same : o \in DOMAIN e.cache.total /\ e.cache.total[o] = totals[o]
  OBVIOUS
<1>6. same \subseteq DOMAIN totals
  OBVIOUS
<1> HIDE DEF same
<1>3. new \in Partial(Orders, Totals)
  BY WithoutType
<1>4. /\ \A o : o \in DOMAIN new <=> o \in DOMAIN totals /\ o \notin same
      /\ \A o \in DOMAIN new : new[o] = totals[o]
  BY WithoutIs
<1> HIDE DEF new
<1>7. cac \in Partial(Orders, Totals) /\ tow \in Partial(Orders, Totals)
  BY <1>2, <1>3, OverType DEF Env, Columns, Caches
<1>8. /\ \A o : o \in DOMAIN cac <=> o \in DOMAIN new \/ o \in DOMAIN e.cache.total
      /\ \A o \in DOMAIN new : cac[o] = totals[o]
      /\ \A o \in DOMAIN e.cache.total \ DOMAIN new : cac[o] = e.cache.total[o]
  BY <1>4, OverIs
<1>9. /\ \A o : o \in DOMAIN tow <=> o \in DOMAIN new \/ o \in DOMAIN e.towrite.total
      /\ \A o \in DOMAIN new : tow[o] = totals[o]
      /\ \A o \in DOMAIN e.towrite.total \ DOMAIN new : tow[o] = e.towrite.total[o]
  BY <1>4, OverIs
<1> HIDE DEF cac, tow
<1>10. /\ f \in Env /\ f.db = e.db /\ f.tocompute = e.tocompute \ DOMAIN totals
       /\ f.towrite.amount = e.towrite.amount /\ f.towrite.order = e.towrite.order
       /\ f.towrite.total = tow
       /\ f.cache.amount = e.cache.amount /\ f.cache.order = e.cache.order
       /\ f.cache.lines = e.cache.lines /\ f.cache.total = cac /\ f.cache.due = e.cache.due
  BY <1>2, <1>7 DEF Env, Columns, Caches
<1> HIDE DEF f
<1>11. /\ \A o \in DOMAIN new : Written(f)[o] = totals[o]
       /\ \A o \in H \ DOMAIN new : Written(f)[o] = Written(e)[o]
  <2>1. H = DOMAIN e.db.total
    BY <1>2 DEF Stored
  <2>2. ASSUME NEW o \in DOMAIN new PROVE Written(f)[o] = totals[o]
    BY <1>9, <1>10, WrittenIs
  <2>3. ASSUME NEW o \in H, o \notin DOMAIN new PROVE Written(f)[o] = Written(e)[o]
    <3>1. CASE o \in DOMAIN e.towrite.total
      BY <1>9, <1>10, <2>3, <3>1, WrittenIs
    <3>2. CASE o \notin DOMAIN e.towrite.total
      BY <1>9, <1>10, <2>1, <2>3, <3>2, WrittenIs
    <3> QED
      BY <3>1, <3>2
  <2> QED
    BY <2>2, <2>3
<1>12. \A o \in same : Written(f)[o] = totals[o]
  BY <1>2, <1>4, <1>5, <1>6, <1>11 DEF Cached
<1>13. Stored(f, R, H)
  BY <1>2, <1>4, <1>9, <1>10 DEF Stored
<1>14. Cached(f.cache, R, H, Written(f))
  BY <1>2, <1>4, <1>8, <1>10, <1>11 DEF Cached
<1>15. Computed(f, R, H, X \ DOMAIN totals)
  BY <1>2, <1>4, <1>10, <1>11, <1>12 DEF Computed
<1>16. DOMAIN totals \subseteq DOMAIN cac
  BY <1>4, <1>5, <1>8
<1> QED
  BY <1>1, <1>10, <1>13, <1>14, <1>15, <1>16 DEF Shows

(* Totals are marked as computed before they are: until then they are among *)
(* those that may be wrong.                                                 *)
LEMMA ComputeTotalsShows ==
    ASSUME NEW e, NEW R, NEW H, Shows(e, R, H, {})
    PROVE  /\ Shows(ComputeTotals(e, e.tocompute), R, H, {})
           /\ ComputeTotals(e, e.tocompute).tocompute = {}
           /\ ComputeTotals(e, e.tocompute).cache.due = e.cache.due
           /\ e.tocompute \subseteq DOMAIN ComputeTotals(e, e.tocompute).cache.total
<1> DEFINE os == e.tocompute
           d == [e EXCEPT !.tocompute = @ \ os]
           f == FetchLines(d, os)
           ls == UNION {f.cache.lines[o] : o \in os}
           g == FetchAmounts(f, ls)
           totals == [o \in os |-> {<<l, g.cache.amount[l]>> : l \in g.cache.lines[o]}]
<1>1. ComputeTotals(e, e.tocompute) = WriteTotals(g, totals)
  BY DEF ComputeTotals
<1>2. /\ e \in Env /\ os \subseteq H /\ os \cap DOMAIN e.cache.due = {} /\ R \in RowsOf(H) /\ H \subseteq Orders
  BY DEF Shows, Stored, Computed
<1>3. /\ d \in Env /\ d.db = e.db /\ d.towrite = e.towrite /\ d.cache = e.cache /\ d.tocompute = {}
  BY <1>2 DEF Env
<1> HIDE DEF d
<1>4. Shows(d, R, H, os)
  <2>1. Written(d) = Written(e)
    BY <1>3 DEF Written
  <2> QED
    BY <1>3, <2>1 DEF Shows, Stored, Computed
<1>5. Shows(f, R, H, os) /\ Reads(d, f) /\ os \subseteq DOMAIN f.cache.lines
  BY <1>2, <1>4, FetchLinesShows
<1> HIDE DEF f
<1>6. \A o \in os : f.cache.lines[o] = LinesAt(R, o)
  BY <1>5 DEF Shows, Cached
<1>7. ls \in SUBSET DOMAIN R /\ \A o \in os : LinesAt(R, o) \subseteq ls
  BY <1>6 DEF LinesAt
<1> HIDE DEF ls
<1>8. Shows(g, R, H, os) /\ Reads(f, g) /\ ls \subseteq DOMAIN g.cache.amount
  BY <1>5, <1>7, FetchAmountsShows
<1> HIDE DEF g
<1>9. /\ \A o \in os : g.cache.lines[o] = LinesAt(R, o)
      /\ \A l \in ls : g.cache.amount[l] = R[l].amount
  BY <1>5, <1>8 DEF Shows, Cached, Reads
<1>10. ASSUME NEW o \in os PROVE totals[o] = TotalAt(R, o)
  BY <1>7, <1>9 DEF TotalAt
<1>11. totals \in Partial(Orders, Totals) /\ DOMAIN totals = os
  <2>1. \A o \in os : totals[o] \in Totals
    BY <1>2, <1>10, TotalIs
  <2>2. DOMAIN totals = os /\ totals = [o \in DOMAIN totals |-> totals[o]]
    OBVIOUS
  <2> HIDE DEF totals
  <2> QED
    BY <1>2, <2>1, <2>2, PartialIs
<1>12. g.tocompute = {} /\ g.cache.due = e.cache.due
  BY <1>3, <1>5, <1>8 DEF Reads
<1> HIDE DEF totals
<1>13. /\ Shows(WriteTotals(g, totals), R, H, os \ DOMAIN totals)
       /\ WriteTotals(g, totals).tocompute = g.tocompute \ DOMAIN totals
       /\ WriteTotals(g, totals).cache.due = g.cache.due
       /\ DOMAIN totals \subseteq DOMAIN WriteTotals(g, totals).cache.total
  <2>1. DOMAIN totals \cap DOMAIN g.cache.due = {}
    BY <1>2, <1>11, <1>12
  <2>2. \A o \in DOMAIN totals : totals[o] = TotalAt(R, o)
    BY <1>10, <1>11
  <2> QED
    BY <1>2, <1>8, <1>11, <2>1, <2>2, WriteTotalsShows
<1>14. os \ DOMAIN totals = {} /\ g.tocompute \ DOMAIN totals = {}
  BY <1>11, <1>12
<1> QED
  BY <1>1, <1>11, <1>12, <1>13, <1>14

(* Whatever os is, its totals no longer wait when they have been read.      *)
LEMMA FetchTotalsShows ==
    ASSUME NEW e, NEW R, NEW H, Shows(e, R, H, {}), NEW os \in SUBSET H
    PROVE  /\ Shows(FetchTotals(e, os), R, H, {})
           /\ os \subseteq DOMAIN FetchTotals(e, os).cache.total
           /\ os \cap FetchTotals(e, os).tocompute = {}
           /\ FetchTotals(e, os).cache.due = e.cache.due
           /\ \A o \in os : FetchTotals(e, os).cache.total[o] = TotalAt(R, o)
<1> DEFINE f == IF os \cap e.tocompute # {} THEN ComputeTotals(e, e.tocompute) ELSE e
           missing == os \ DOMAIN f.cache.total
           g == IF missing \cap DOMAIN f.towrite.total # {} THEN FlushTotals(f) ELSE f
           tot == Restrict(g.db.total, missing) ++ g.cache.total
           h == [g EXCEPT !.cache.total = tot]
<1>1. FetchTotals(e, os) = h
  BY DEF FetchTotals
<1>2. Shows(f, R, H, {}) /\ os \cap f.tocompute = {} /\ f.cache.due = e.cache.due
  BY ComputeTotalsShows
<1> HIDE DEF f
<1>3. /\ Shows(g, R, H, {}) /\ g.tocompute = f.tocompute /\ g.cache = f.cache
      /\ \A o \in missing : o \notin DOMAIN g.towrite.total
  <2>1. CASE missing \cap DOMAIN f.towrite.total # {}
    BY <1>2, <2>1, FlushTotalsShows, NothingIs
  <2>2. CASE missing \cap DOMAIN f.towrite.total = {}
    BY <1>2, <2>2
  <2> QED
    BY <2>1, <2>2
<1> HIDE DEF g
<1>4. /\ g \in Env /\ Cached(g.cache, R, H, Written(g)) /\ Computed(g, R, H, {})
      /\ H = DOMAIN g.db.total
  BY <1>3 DEF Shows, Stored
<1>5. missing \subseteq os /\ \A o \in os : o \in missing \/ o \in DOMAIN g.cache.total
  BY <1>3
<1> HIDE DEF missing
<1>6. /\ \A o : o \in DOMAIN tot <=> o \in missing \/ o \in DOMAIN g.cache.total
      /\ \A o \in missing : tot[o] = g.db.total[o]
      /\ \A o \in DOMAIN g.cache.total \ missing : tot[o] = g.cache.total[o]
  BY RestrictOverIs
<1>7. \A o \in missing : g.db.total[o] = Written(g)[o]
  BY <1>3, <1>4, <1>5, WrittenIs
<1>8. \A o \in DOMAIN tot : tot[o] = Written(g)[o]
  BY <1>4, <1>6, <1>7 DEF Cached
<1>9. tot \in Partial(Orders, Totals)
  <2>1. missing \in SUBSET DOMAIN g.db.total
    BY <1>4, <1>5
  <2> QED
    BY <1>4, <2>1, OverType, RestrictType DEF Env, Columns, Caches
<1> HIDE DEF tot
<1>10. /\ h \in Env /\ h.db = g.db /\ h.towrite = g.towrite /\ h.tocompute = g.tocompute
       /\ h.cache.amount = g.cache.amount /\ h.cache.order = g.cache.order
       /\ h.cache.lines = g.cache.lines /\ h.cache.total = tot /\ h.cache.due = g.cache.due
  BY <1>4, <1>9 DEF Env, Caches
<1> HIDE DEF h
<1>11. Cached(h.cache, R, H, Written(g))
  BY <1>4, <1>5, <1>6, <1>8, <1>10 DEF Cached
<1>12. Shows(h, R, H, {})
  BY <1>3, <1>10, <1>11, Recached
<1>13. \A o \in os : o \in DOMAIN tot /\ tot[o] = TotalAt(R, o)
  <2> SUFFICES ASSUME NEW o \in os PROVE o \in DOMAIN tot /\ tot[o] = TotalAt(R, o)
    OBVIOUS
  <2>1. o \in DOMAIN tot
    BY <1>5, <1>6
  <2>2. o \in H \ (g.tocompute \cup {})
    BY <1>2, <1>3
  <2>3. Written(g)[o] = TotalAt(R, o)
    BY <1>4, <2>2 DEF Computed
  <2> QED
    BY <1>8, <2>1, <2>3
<1>14. os \cap h.tocompute = {} /\ h.cache.due = e.cache.due
  BY <1>2, <1>3, <1>10
<1> QED
  BY <1>1, <1>10, <1>12, <1>13, <1>14

(* A due is cached from a total that is right, and which does not wait.     *)
LEMMA FetchDuesShows ==
    ASSUME NEW e, NEW R, NEW H, Shows(e, R, H, {}), NEW os \in SUBSET H
    PROVE  /\ Shows(FetchDues(e, os), R, H, {})
           /\ \A o \in os : FetchDues(e, os).cache.due[o] = TotalAt(R, o)
<1> DEFINE missing == os \ DOMAIN e.cache.due
           f == FetchTotals(e, missing)
           due == Restrict(f.cache.total, missing) ++ f.cache.due
           h == [f EXCEPT !.cache.due = due]
<1>1. FetchDues(e, os) = h
  BY DEF FetchDues
<1>2. missing \in SUBSET H /\ os \subseteq missing \cup DOMAIN e.cache.due
  OBVIOUS
<1> HIDE DEF missing
<1>3. /\ Shows(f, R, H, {}) /\ missing \in SUBSET DOMAIN f.cache.total /\ missing \cap f.tocompute = {}
      /\ f.cache.due = e.cache.due
      /\ \A o \in missing : f.cache.total[o] = TotalAt(R, o)
  BY <1>2, FetchTotalsShows
<1> HIDE DEF f
<1>4. f \in Env /\ Stored(f, R, H) /\ Cached(f.cache, R, H, Written(f)) /\ Computed(f, R, H, {})
  BY <1>3 DEF Shows, Stored
<1>5. /\ \A o : o \in DOMAIN due <=> o \in missing \/ o \in DOMAIN f.cache.due
      /\ \A o \in missing : due[o] = f.cache.total[o]
      /\ \A o \in DOMAIN f.cache.due \ missing : due[o] = f.cache.due[o]
  BY RestrictOverIs
<1>6. \A o \in DOMAIN due : due[o] = TotalAt(R, o)
  BY <1>3, <1>4, <1>5 DEF Computed
<1>7. due \in Partial(Orders, Totals)
  BY <1>3, <1>4, OverType, RestrictType DEF Env, Caches
<1> HIDE DEF due
<1>8. /\ h \in Env /\ h.db = f.db /\ h.towrite = f.towrite /\ h.tocompute = f.tocompute
      /\ h.cache.amount = f.cache.amount /\ h.cache.order = f.cache.order
      /\ h.cache.lines = f.cache.lines /\ h.cache.total = f.cache.total /\ h.cache.due = due
  BY <1>4, <1>7 DEF Env, Caches
<1> HIDE DEF h
<1>9. Written(h) = Written(f)
  BY <1>8 DEF Written
<1>10. Stored(h, R, H)
  BY <1>4, <1>8 DEF Stored
<1>11. Cached(h.cache, R, H, Written(h))
  BY <1>2, <1>4, <1>5, <1>8, <1>9 DEF Cached
<1>12. Computed(h, R, H, {})
  BY <1>3, <1>4, <1>5, <1>6, <1>8, <1>9 DEF Computed
<1>13. \A o \in os : h.cache.due[o] = TotalAt(R, o)
  BY <1>2, <1>3, <1>5, <1>6, <1>8
<1> QED
  BY <1>1, <1>10, <1>11, <1>12, <1>13 DEF Shows

------------------------------------------------------------------------------
(* Writing                                                                  *)

(* Only orders that are to be marked, and exist, need be in X.              *)
LEMMA FewerLeft ==
    ASSUME NEW e, NEW R, NEW H, NEW X, NEW Y, Shows(e, R, H, X), X \cap H \subseteq Y \cup e.tocompute
    PROVE  Shows(e, R, H, Y)
<1>1. Computed(e, R, H, Y)
  BY DEF Shows, Cached, Computed
<1> QED
  BY <1>1 DEF Shows

(* The end of modified(): what is marked waits, and has no due.             *)
LEMMA MarkShows ==
    ASSUME NEW e, NEW R, NEW H, NEW X, Shows(e, R, H, X), NEW S \in SUBSET H
    PROVE  /\ Shows(Mark(e, S), R, H, X \ S)
           /\ Mark(e, S).tocompute = e.tocompute \cup S
           /\ Mark(e, S).cache.order = e.cache.order /\ Mark(e, S).cache.lines = e.cache.lines
           /\ Mark(e, S).towrite = e.towrite /\ Mark(e, S).db = e.db
<1> DEFINE f == Mark(e, S)
           due == Without(e.cache.due, S)
<1>1. e \in Env /\ Stored(e, R, H) /\ Cached(e.cache, R, H, Written(e)) /\ Computed(e, R, H, X) /\ H \subseteq Orders
  BY DEF Shows, Stored
<1>2. due \in Partial(Orders, Totals)
  BY <1>1, WithoutType DEF Env, Caches
<1>3. /\ \A o : o \in DOMAIN due <=> o \in DOMAIN e.cache.due /\ o \notin S
      /\ \A o \in DOMAIN due : due[o] = e.cache.due[o]
  BY WithoutIs
<1>4. f = [e EXCEPT !.tocompute = @ \cup S, !.cache.due = due]
  BY DEF Mark
<1> HIDE DEF due, f
<1>5. /\ f \in Env /\ f.db = e.db /\ f.towrite = e.towrite /\ f.tocompute = e.tocompute \cup S
      /\ f.cache.amount = e.cache.amount /\ f.cache.order = e.cache.order
      /\ f.cache.lines = e.cache.lines /\ f.cache.total = e.cache.total /\ f.cache.due = due
  BY <1>1, <1>2, <1>4 DEF Env, Caches
<1>6. Written(f) = Written(e)
  BY <1>5 DEF Written
<1>7. Stored(f, R, H)
  BY <1>1, <1>5 DEF Stored
<1>8. Cached(f.cache, R, H, Written(f))
  BY <1>1, <1>3, <1>5, <1>6 DEF Cached
<1>9. Computed(f, R, H, X \ S)
  BY <1>1, <1>3, <1>5, <1>6 DEF Computed
<1> QED
  BY <1>5, <1>7, <1>8, <1>9 DEF Shows, f

(* The orders that the lines ls refer to.                                   *)
OrdersAt(R, ls) == {R[l].order : l \in ls} \ {None}

(* modified() of lines marks the orders they refer to when it is called.    *)
LEMMA ModifiedLinesShows ==
    ASSUME NEW e, NEW R, NEW H, NEW X, Shows(e, R, H, X), NEW ls \in SUBSET DOMAIN R
    PROVE  /\ Shows(ModifiedLines(e, ls), R, H, X \ OrdersAt(R, ls))
           /\ ModifiedLines(e, ls).tocompute = e.tocompute \cup OrdersAt(R, ls)
           /\ ls \subseteq DOMAIN ModifiedLines(e, ls).cache.order
           /\ DOMAIN ModifiedLines(e, ls).towrite.amount \subseteq DOMAIN e.towrite.amount
           /\ DOMAIN ModifiedLines(e, ls).towrite.order \subseteq DOMAIN e.towrite.order
           /\ ModifiedLines(e, ls).towrite.total = e.towrite.total
<1> DEFINE f == FetchOrders(e, ls)
           S == {f.cache.order[l] : l \in ls} \ {None}
<1>1. ModifiedLines(e, ls) = Mark(f, S)
  BY DEF ModifiedLines
<1>2. Shows(f, R, H, X) /\ Reads(e, f) /\ ls \subseteq DOMAIN f.cache.order
  BY FetchOrdersShows
<1> HIDE DEF f
<1>3. \A l \in ls : f.cache.order[l] = R[l].order
  BY <1>2 DEF Shows, Cached
<1>4. S = OrdersAt(R, ls)
  BY <1>3 DEF OrdersAt
<1>5. OrdersAt(R, ls) \subseteq H
  <2>1. R \in RowsOf(H)
    BY <1>2 DEF Shows, Stored
  <2>2. \A l \in ls : R[l].order \in H \cup {None}
    BY <2>1, RowIs
  <2> QED
    BY <2>2 DEF OrdersAt
<1> HIDE DEF S
<1>6. /\ Shows(Mark(f, S), R, H, X \ S) /\ Mark(f, S).tocompute = f.tocompute \cup S
      /\ Mark(f, S).cache.order = f.cache.order /\ Mark(f, S).towrite = f.towrite
  BY <1>2, <1>4, <1>5, MarkShows
<1> QED
  BY <1>1, <1>2, <1>4, <1>6 DEF Reads

(* The rows with the amount, or the order, of the lines ls written.         *)
WithAmount(R, ls, a) ==
    [l \in DOMAIN R |-> [amount |-> IF l \in ls THEN a ELSE R[l].amount, order |-> R[l].order]]
WithOrder(R, ls, o) ==
    [l \in DOMAIN R |-> [amount |-> R[l].amount, order |-> IF l \in ls THEN o ELSE R[l].order]]

(* An amount written: the totals of the orders of these lines are left to   *)
(* mark.                                                                    *)
LEMMA WriteAmountShows ==
    ASSUME NEW e, NEW R, NEW H, NEW X, Shows(e, R, H, X), NEW ls \in SUBSET DOMAIN R, NEW a \in Amounts
    PROVE  /\ Shows(WriteAmount(e, ls, a), WithAmount(R, ls, a), H, X \cup OrdersAt(R, ls))
           /\ WriteAmount(e, ls, a).tocompute = e.tocompute
           /\ WriteAmount(e, ls, a).cache.order = e.cache.order
<1> DEFINE changed == {l \in ls : l \notin DOMAIN e.cache.amount \/ e.cache.amount[l] # a}
           new == [l \in changed |-> a]
           cac == new ++ e.cache.amount
           tow == new ++ e.towrite.amount
           f == [e EXCEPT !.cache.amount = cac, !.towrite.amount = tow]
           Q == WithAmount(R, ls, a)
<1>1. WriteAmount(e, ls, a) = f
  BY DEF WriteAmount
<1>2. /\ e \in Env /\ Stored(e, R, H) /\ Cached(e.cache, R, H, Written(e)) /\ Computed(e, R, H, X)
      /\ R \in RowsOf(H) /\ DOMAIN R \subseteq Lines
  BY PartialIs DEF Shows, Stored, RowsOf
<1>3. /\ changed \subseteq ls /\ \A l \in ls \ changed : l \in DOMAIN e.cache.amount /\ e.cache.amount[l] = a
  OBVIOUS
<1> HIDE DEF changed
<1>4. DOMAIN new = changed /\ (\A l \in changed : new[l] = a) /\ new \in Partial(Lines, Amounts)
  <2>1. DOMAIN new = changed /\ (\A l \in changed : new[l] = a) /\ new = [l \in DOMAIN new |-> new[l]]
    OBVIOUS
  <2>2. changed \subseteq Lines
    BY <1>2, <1>3
  <2> HIDE DEF new
  <2> QED
    BY <2>1, <2>2, PartialIs
<1> HIDE DEF new
<1>5. cac \in Partial(Lines, Amounts) /\ tow \in Partial(Lines, Amounts)
  BY <1>2, <1>4, OverType DEF Env, Columns, Caches
<1>6. /\ \A l : l \in DOMAIN cac <=> l \in changed \/ l \in DOMAIN e.cache.amount
      /\ \A l \in changed : cac[l] = a
      /\ \A l \in DOMAIN e.cache.amount \ changed : cac[l] = e.cache.amount[l]
  BY <1>4, OverIs
<1>7. /\ \A l : l \in DOMAIN tow <=> l \in changed \/ l \in DOMAIN e.towrite.amount
      /\ \A l \in changed : tow[l] = a
      /\ \A l \in DOMAIN e.towrite.amount \ changed : tow[l] = e.towrite.amount[l]
  BY <1>4, OverIs
<1> HIDE DEF cac, tow
<1>8. /\ f \in Env /\ f.db = e.db /\ f.tocompute = e.tocompute
      /\ f.towrite.amount = tow /\ f.towrite.order = e.towrite.order
      /\ f.towrite.total = e.towrite.total
      /\ f.cache.amount = cac /\ f.cache.order = e.cache.order
      /\ f.cache.lines = e.cache.lines /\ f.cache.total = e.cache.total /\ f.cache.due = e.cache.due
  BY <1>2, <1>5 DEF Env, Columns, Caches
<1> HIDE DEF f
<1>9. /\ DOMAIN Q = DOMAIN R /\ Q \in RowsOf(H)
      /\ \A l \in DOMAIN R : /\ Q[l].order = R[l].order
                             /\ Q[l].amount = IF l \in ls THEN a ELSE R[l].amount
  <2>1. \A l \in DOMAIN R : R[l].amount \in Amounts /\ R[l].order \in H \cup {None}
    BY <1>2, RowIs
  <2>2. /\ DOMAIN Q = DOMAIN R /\ Q = [l \in DOMAIN Q |-> Q[l]]
        /\ \A l \in DOMAIN R : Q[l] = [amount |-> IF l \in ls THEN a ELSE R[l].amount, order |-> R[l].order]
    BY DEF WithAmount
  <2> HIDE DEF Q
  <2>3. \A l \in DOMAIN Q : Q[l] \in Row(H)
    BY <2>1, <2>2 DEF Row
  <2> QED
    BY <1>2, <2>2, <2>3, PartialIs DEF RowsOf
<1> HIDE DEF Q
<1>10. \A o : LinesAt(Q, o) = LinesAt(R, o)
  BY <1>9 DEF LinesAt
<1>11. ASSUME NEW o \in H \ OrdersAt(R, ls) PROVE TotalAt(Q, o) = TotalAt(R, o)
  <2>1. o # None
    BY <1>2, OrmAssumption DEF Stored
  <2>2. \A l \in LinesAt(R, o) : l \notin ls
    BY <2>1 DEF LinesAt, OrdersAt
  <2> QED
    BY <1>9, <1>10, <2>2 DEF TotalAt, LinesAt
<1>12. Written(f) = Written(e)
  BY <1>8 DEF Written
<1>13. ASSUME NEW l \in DOMAIN R PROVE (tow ++ e.db.amount)[l] = Q[l].amount
  <2>1. l \in DOMAIN e.db.amount /\ R[l].amount = (e.towrite.amount ++ e.db.amount)[l]
    BY <1>2 DEF Stored
  <2>2. CASE l \in changed
    BY <1>3, <1>7, <1>9, <2>2, OverIs
  <2>3. CASE l \notin changed
    <3>1. (tow ++ e.db.amount)[l] = R[l].amount
      <4>1. CASE l \in DOMAIN e.towrite.amount
        BY <1>7, <2>1, <2>3, <4>1, OverIs
      <4>2. CASE l \notin DOMAIN e.towrite.amount
        BY <1>7, <2>1, <2>3, <4>2, OverIs
      <4> QED
        BY <4>1, <4>2
    <3>2. Q[l].amount = R[l].amount
      BY <1>2, <1>3, <1>9, <2>3 DEF Cached
    <3> QED
      BY <3>1, <3>2
  <2> QED
    BY <2>2, <2>3
<1>14. Stored(f, Q, H)
  BY <1>2, <1>3, <1>7, <1>8, <1>9, <1>13 DEF Stored
<1>15. Cached(f.cache, Q, H, Written(f))
  BY <1>2, <1>3, <1>6, <1>8, <1>9, <1>10, <1>12 DEF Cached
<1>16. Computed(f, Q, H, X \cup OrdersAt(R, ls))
  <2>1. DOMAIN e.cache.due \subseteq H
    BY <1>2 DEF Cached
  <2> QED
    BY <1>2, <1>8, <1>11, <1>12, <2>1 DEF Computed
<1> QED
  BY <1>1, <1>8, <1>14, <1>15, <1>16 DEF Shows, Q

(* An order written, with the cached lines of the orders the lines leave    *)
(* and of the one they come to: all these are left to mark. It needs the    *)
(* old orders in the cache, from which the inverses are updated.            *)
LEMMA WriteOrderShows ==
    ASSUME NEW e, NEW R, NEW H, NEW X, Shows(e, R, H, X), NEW ls \in SUBSET DOMAIN R,
           ls \subseteq DOMAIN e.cache.order, NEW o \in H \cup {None}
    PROVE  /\ Shows(WriteOrder(e, ls, o), WithOrder(R, ls, o), H, X \cup OrdersAt(R, ls) \cup {o})
           /\ WriteOrder(e, ls, o).tocompute = e.tocompute
<1> DEFINE changed == {l \in ls : l \notin DOMAIN e.cache.order \/ e.cache.order[l] # o}
           new == [l \in changed |-> o]
           r == RemoveInverses(e, changed)
           cac == new ++ r.cache.order
           tow == new ++ r.towrite.order
           g == [r EXCEPT !.cache.order = cac, !.towrite.order = tow]
           f == UpdateInverses(g, changed, o)
           olds == {e.cache.order[l] : l \in changed \cap DOMAIN e.cache.order}
           rlines == [p \in DOMAIN e.cache.lines |-> IF p \in olds THEN e.cache.lines[p] \ changed
                                                    ELSE e.cache.lines[p]]
           lines == IF o \in DOMAIN rlines THEN [rlines EXCEPT ![o] = @ \cup changed] ELSE rlines
           Q == WithOrder(R, ls, o)
<1>1. WriteOrder(e, ls, o) = f
  BY DEF WriteOrder
<1>2. /\ e \in Env /\ Stored(e, R, H) /\ Cached(e.cache, R, H, Written(e)) /\ Computed(e, R, H, X)
      /\ R \in RowsOf(H) /\ DOMAIN R \subseteq Lines /\ H \subseteq Orders
  BY PartialIs DEF Shows, Stored, RowsOf
<1>3. \A l : l \in changed <=> l \in ls /\ R[l].order # o
  BY <1>2 DEF Cached
<1>4. olds = {R[l].order : l \in changed}
  BY <1>2 DEF Cached
<1> HIDE DEF changed
<1>5. DOMAIN new = changed /\ (\A l \in changed : new[l] = o) /\ new \in Partial(Lines, Orders \cup {None})
  <2>1. DOMAIN new = changed /\ (\A l \in changed : new[l] = o) /\ new = [l \in DOMAIN new |-> new[l]]
    OBVIOUS
  <2>2. changed \subseteq Lines /\ o \in Orders \cup {None}
    BY <1>2, <1>3
  <2> HIDE DEF new
  <2> QED
    BY <2>1, <2>2, PartialIs
<1> HIDE DEF new
<1>6. /\ DOMAIN rlines = DOMAIN e.cache.lines
      /\ \A p \in DOMAIN rlines : rlines[p] = {l \in LinesAt(R, p) : l \notin changed}
  <2>1. \A p \in DOMAIN e.cache.lines : e.cache.lines[p] = LinesAt(R, p)
    BY <1>2 DEF Cached
  <2>2. \A p \in DOMAIN e.cache.lines : p \notin olds => LinesAt(R, p) = {l \in LinesAt(R, p) : l \notin changed}
    BY <1>4 DEF LinesAt
  <2> QED
    BY <2>1, <2>2
<1>7. r = [e EXCEPT !.cache.lines = rlines]
  BY DEF RemoveInverses
<1> HIDE DEF olds, rlines
<1>8. rlines \in Partial(Orders, SUBSET Lines)
  <2>1. DOMAIN rlines \subseteq Orders /\ \A p \in DOMAIN rlines : rlines[p] \subseteq Lines
    BY <1>2, <1>6 DEF Cached, LinesAt
  <2>2. rlines = [p \in DOMAIN rlines |-> rlines[p]]
    BY DEF rlines
  <2> QED
    BY <2>1, <2>2, PartialIs
<1>9. /\ r \in Env /\ r.db = e.db /\ r.tocompute = e.tocompute /\ r.towrite = e.towrite
      /\ r.cache.amount = e.cache.amount /\ r.cache.order = e.cache.order
      /\ r.cache.lines = rlines /\ r.cache.total = e.cache.total /\ r.cache.due = e.cache.due
  BY <1>2, <1>7, <1>8 DEF Env, Caches
<1> HIDE DEF r
<1>10. cac \in Partial(Lines, Orders \cup {None}) /\ tow \in Partial(Lines, Orders \cup {None})
  BY <1>5, <1>9, OverType DEF Env, Columns, Caches
<1>11. /\ \A l : l \in DOMAIN cac <=> l \in changed \/ l \in DOMAIN e.cache.order
       /\ \A l \in changed : cac[l] = o
       /\ \A l \in DOMAIN e.cache.order \ changed : cac[l] = e.cache.order[l]
  BY <1>5, <1>9, OverIs
<1>12. /\ \A l : l \in DOMAIN tow <=> l \in changed \/ l \in DOMAIN e.towrite.order
       /\ \A l \in changed : tow[l] = o
       /\ \A l \in DOMAIN e.towrite.order \ changed : tow[l] = e.towrite.order[l]
  BY <1>5, <1>9, OverIs
<1> HIDE DEF cac, tow
<1>13. /\ g \in Env /\ g.db = e.db /\ g.tocompute = e.tocompute
       /\ g.towrite.amount = e.towrite.amount /\ g.towrite.order = tow
       /\ g.towrite.total = e.towrite.total
       /\ g.cache.amount = e.cache.amount /\ g.cache.order = cac
       /\ g.cache.lines = rlines /\ g.cache.total = e.cache.total /\ g.cache.due = e.cache.due
  BY <1>9, <1>10 DEF Env, Columns, Caches
<1> HIDE DEF g
<1>14. /\ lines \in Partial(Orders, SUBSET Lines) /\ DOMAIN lines = DOMAIN e.cache.lines
       /\ \A p \in DOMAIN lines : lines[p] = IF p = o THEN rlines[p] \cup changed ELSE rlines[p]
  <2>1. /\ DOMAIN lines = DOMAIN rlines
        /\ lines = [p \in DOMAIN lines |-> lines[p]]
        /\ \A p \in DOMAIN lines : lines[p] = IF p = o THEN rlines[p] \cup changed ELSE rlines[p]
    <3>1. rlines = [p \in DOMAIN rlines |-> rlines[p]]
      BY <1>8, PartialIs
    <3>2. CASE o \in DOMAIN rlines
      BY <3>2
    <3>3. CASE o \notin DOMAIN rlines
      BY <3>1, <3>3
    <3> QED
      BY <3>2, <3>3
  <2> HIDE DEF lines
  <2>2. DOMAIN rlines \subseteq Orders /\ (\A p \in DOMAIN rlines : rlines[p] \subseteq Lines) /\ changed \subseteq Lines
    BY <1>2, <1>3, <1>8, PartialIs
  <2>3. \A p \in DOMAIN lines : lines[p] \in SUBSET Lines
    BY <2>1, <2>2
  <2> QED
    BY <1>6, <2>1, <2>2, <2>3, PartialIs
<1>15. f = [g EXCEPT !.cache.lines = lines]
  <2>1. CASE o \in DOMAIN rlines
    BY <1>13, <2>1 DEF UpdateInverses
  <2>2. CASE o \notin DOMAIN rlines
    BY <1>13, <2>2 DEF UpdateInverses, Env, Caches
  <2> QED
    BY <2>1, <2>2
<1> HIDE DEF lines, f
<1>16. /\ f \in Env /\ f.db = e.db /\ f.tocompute = e.tocompute
       /\ f.towrite.amount = e.towrite.amount /\ f.towrite.order = tow
       /\ f.towrite.total = e.towrite.total
       /\ f.cache.amount = e.cache.amount /\ f.cache.order = cac
       /\ f.cache.lines = lines /\ f.cache.total = e.cache.total /\ f.cache.due = e.cache.due
  BY <1>13, <1>14, <1>15 DEF Env, Caches
<1>17. /\ DOMAIN Q = DOMAIN R /\ Q \in RowsOf(H)
       /\ \A l \in DOMAIN R : /\ Q[l].amount = R[l].amount
                              /\ Q[l].order = IF l \in ls THEN o ELSE R[l].order
  <2>1. \A l \in DOMAIN R : R[l].amount \in Amounts /\ R[l].order \in H \cup {None}
    BY <1>2, RowIs
  <2>2. /\ DOMAIN Q = DOMAIN R /\ Q = [l \in DOMAIN Q |-> Q[l]]
        /\ \A l \in DOMAIN R : Q[l] = [amount |-> R[l].amount, order |-> IF l \in ls THEN o ELSE R[l].order]
    BY DEF WithOrder
  <2> HIDE DEF Q
  <2>3. \A l \in DOMAIN Q : Q[l] \in Row(H)
    BY <2>1, <2>2 DEF Row
  <2> QED
    BY <1>2, <2>2, <2>3, PartialIs DEF RowsOf
<1> HIDE DEF Q
<1>18. \A p \in DOMAIN lines : lines[p] = LinesAt(Q, p)
  <2> SUFFICES ASSUME NEW p \in DOMAIN lines PROVE lines[p] = LinesAt(Q, p)
    OBVIOUS
  <2>1. rlines[p] = {l \in LinesAt(R, p) : l \notin changed}
    BY <1>6, <1>14
  <2>2. CASE p = o
    BY <1>3, <1>14, <1>17, <2>1, <2>2 DEF LinesAt
  <2>3. CASE p # o
    <3>1. lines[p] = {l \in LinesAt(R, p) : l \notin changed}
      BY <1>14, <2>1, <2>3
    <3>2. \A l : l \in LinesAt(R, p) /\ l \notin changed <=> l \in LinesAt(Q, p)
      BY <1>3, <1>17, <2>3 DEF LinesAt
    <3> QED
      BY <3>1, <3>2
  <2> QED
    BY <2>2, <2>3
<1>19. ASSUME NEW p \in H \ (OrdersAt(R, ls) \cup {o}) PROVE TotalAt(Q, p) = TotalAt(R, p)
  <2>1. p # None
    BY <1>2, OrmAssumption
  <2>2. \A l \in LinesAt(R, p) : l \notin ls
    BY <2>1 DEF LinesAt, OrdersAt
  <2>3. LinesAt(Q, p) = LinesAt(R, p)
    BY <1>17, <2>2 DEF LinesAt
  <2> QED
    BY <1>17, <2>3 DEF TotalAt, LinesAt
<1>20. Written(f) = Written(e)
  BY <1>16 DEF Written
<1>21. ASSUME NEW l \in DOMAIN R PROVE (tow ++ e.db.order)[l] = Q[l].order
  <2>1. l \in DOMAIN e.db.order /\ R[l].order = (e.towrite.order ++ e.db.order)[l]
    BY <1>2 DEF Stored
  <2>2. CASE l \in changed
    BY <1>3, <1>12, <1>17, <2>2, OverIs
  <2>3. CASE l \notin changed
    <3>1. (tow ++ e.db.order)[l] = R[l].order
      <4>1. CASE l \in DOMAIN e.towrite.order
        BY <1>12, <2>1, <2>3, <4>1, OverIs
      <4>2. CASE l \notin DOMAIN e.towrite.order
        BY <1>12, <2>1, <2>3, <4>2, OverIs
      <4> QED
        BY <4>1, <4>2
    <3>2. Q[l].order = R[l].order
      BY <1>3, <1>17, <2>3
    <3> QED
      BY <3>1, <3>2
  <2> QED
    BY <2>2, <2>3
<1>22. Stored(f, Q, H)
  BY <1>2, <1>3, <1>12, <1>16, <1>17, <1>21 DEF Stored
<1>23. Cached(f.cache, Q, H, Written(f))
  <2>1. \A l \in DOMAIN cac : l \in DOMAIN R /\ cac[l] = Q[l].order
    BY <1>2, <1>3, <1>11, <1>17 DEF Cached
  <2> QED
    BY <1>2, <1>14, <1>16, <1>17, <1>18, <1>20, <2>1 DEF Cached
<1>24. Computed(f, Q, H, X \cup OrdersAt(R, ls) \cup {o})
  <2>1. DOMAIN e.cache.due \subseteq H
    BY <1>2 DEF Cached
  <2> QED
    BY <1>2, <1>16, <1>19, <1>20, <2>1 DEF Computed
<1> QED
  BY <1>1, <1>16, <1>22, <1>23, <1>24 DEF Shows, Q

(* The orders of the lines before and after a write.                        *)
LEMMA OrdersAtIs ==
    ASSUME NEW H, NEW R \in RowsOf(H), NEW ls \in SUBSET DOMAIN R
    PROVE  /\ OrdersAt(R, ls) \subseteq H
           /\ \A a : OrdersAt(WithAmount(R, ls, a), ls) = OrdersAt(R, ls)
           /\ \A o : OrdersAt(WithOrder(R, ls, o), ls) \subseteq {o} \ {None}
           /\ \A o : ls # {} => OrdersAt(WithOrder(R, ls, o), ls) = {o} \ {None}
<1>1. \A l \in ls : R[l].order \in H \cup {None}
  BY RowIs
<1>2. \A a : \A l \in ls : WithAmount(R, ls, a)[l].order = R[l].order
  BY DEF WithAmount
<1>3. \A o : \A l \in ls : WithOrder(R, ls, o)[l].order = o
  BY DEF WithOrder
<1> QED
  BY <1>1, <1>2, <1>3 DEF OrdersAt

(* The values that are written, and the rows with vals written on ls.       *)
ValsOf(H) == [amount : Amounts] \cup [order : H \cup {None}]
                \cup [amount : Amounts, order : H \cup {None}]
Put(R, ls, vals) == [l \in DOMAIN R |-> IF l \in ls THEN Abstract!Updated(R[l], vals) ELSE R[l]]

(* The abstract specification writes the same columns.                      *)
LEMMA UpdatedIs ==
    ASSUME NEW H, NEW r \in Row(H), NEW vals \in ValsOf(H)
    PROVE  Abstract!Updated(r, vals) =
              [amount |-> IF "amount" \in DOMAIN vals THEN vals.amount ELSE r.amount,
               order |-> IF "order" \in DOMAIN vals THEN vals.order ELSE r.order]
BY DEF Abstract!Updated, Row, ValsOf

(* Put() sets the fields of the lines ls that vals holds, and no other.     *)
LEMMA PutIs ==
    ASSUME NEW H, NEW R \in RowsOf(H), NEW ls, NEW vals \in ValsOf(H)
    PROVE  /\ Put(R, ls, vals) \in RowsOf(H) /\ DOMAIN Put(R, ls, vals) = DOMAIN R
           /\ ls = {} => Put(R, ls, vals) = R
           /\ \A l \in DOMAIN R :
                 /\ Put(R, ls, vals)[l].amount =
                       IF l \in ls /\ "amount" \in DOMAIN vals THEN vals.amount ELSE R[l].amount
                 /\ Put(R, ls, vals)[l].order =
                       IF l \in ls /\ "order" \in DOMAIN vals THEN vals.order ELSE R[l].order
<1>1. /\ R = [l \in DOMAIN R |-> R[l]] /\ DOMAIN R \subseteq Lines
      /\ \A l \in DOMAIN R : R[l] \in Row(H)
  BY PartialIs DEF RowsOf
<1>2. /\ DOMAIN Put(R, ls, vals) = DOMAIN R
      /\ Put(R, ls, vals) = [l \in DOMAIN Put(R, ls, vals) |-> Put(R, ls, vals)[l]]
      /\ \A l \in DOMAIN R : Put(R, ls, vals)[l] = IF l \in ls THEN Abstract!Updated(R[l], vals) ELSE R[l]
  BY DEF Put
<1>3. \A l \in DOMAIN R : Put(R, ls, vals)[l] \in Row(H)
  <2> SUFFICES ASSUME NEW l \in DOMAIN R PROVE Put(R, ls, vals)[l] \in Row(H)
    OBVIOUS
  <2>1. Abstract!Updated(R[l], vals) \in Row(H)
    <3>1. R[l] \in Row(H)
      BY <1>1
    <3>2. Abstract!Updated(R[l], vals) =
             [amount |-> IF "amount" \in DOMAIN vals THEN vals.amount ELSE R[l].amount,
              order |-> IF "order" \in DOMAIN vals THEN vals.order ELSE R[l].order]
      BY <3>1, UpdatedIs
    <3>3. /\ "amount" \in DOMAIN vals => vals.amount \in Amounts
          /\ "order" \in DOMAIN vals => vals.order \in H \cup {None}
      BY DEF ValsOf
    <3> QED
      BY <3>1, <3>2, <3>3 DEF Row
  <2> QED
    BY <1>1, <1>2, <2>1
<1>4. ls = {} => Put(R, ls, vals) = R
  BY <1>1, <1>2
<1>5. ASSUME NEW l \in DOMAIN R
      PROVE  /\ Put(R, ls, vals)[l].amount =
                  IF l \in ls /\ "amount" \in DOMAIN vals THEN vals.amount ELSE R[l].amount
             /\ Put(R, ls, vals)[l].order =
                  IF l \in ls /\ "order" \in DOMAIN vals THEN vals.order ELSE R[l].order
  BY <1>1, <1>2, UpdatedIs
<1> QED
  BY <1>1, <1>2, <1>3, <1>4, <1>5, PartialIs DEF RowsOf

(* Rows are the same when they have the same amounts and orders.            *)
LEMMA SameRows ==
    ASSUME NEW H, NEW R \in RowsOf(H), NEW Q \in RowsOf(H), DOMAIN Q = DOMAIN R,
           \A l \in DOMAIN R : Q[l].amount = R[l].amount /\ Q[l].order = R[l].order
    PROVE  Q = R
<1>1. ASSUME NEW l \in DOMAIN R PROVE Q[l] = R[l]
  <2>1. Q[l] \in Row(H) /\ R[l] \in Row(H)
    BY PartialIs DEF RowsOf
  <2> QED
    BY <2>1 DEF Row
<1>2. R = [l \in DOMAIN R |-> R[l]] /\ Q = [l \in DOMAIN Q |-> Q[l]]
  BY PartialIs DEF RowsOf
<1> QED
  BY <1>1, <1>2

(* The rows and the orders an environment shows are of their kinds.         *)
LEMMA ShowsRows ==
    ASSUME NEW e, NEW R, NEW H, NEW X, Shows(e, R, H, X)
    PROVE  R \in RowsOf(H) /\ H \subseteq Orders
BY DEF Shows, Stored

(* WithAmount() changes amounts only.                                       *)
LEMMA WithAmountIs ==
    ASSUME NEW H, NEW R \in RowsOf(H), NEW ls, NEW a
    PROVE  /\ DOMAIN WithAmount(R, ls, a) = DOMAIN R
           /\ \A l \in DOMAIN R : /\ WithAmount(R, ls, a)[l].amount = IF l \in ls THEN a ELSE R[l].amount
                                  /\ WithAmount(R, ls, a)[l].order = R[l].order
BY DEF WithAmount

(* WithOrder() changes orders only.                                         *)
LEMMA WithOrderIs ==
    ASSUME NEW H, NEW R \in RowsOf(H), NEW ls, NEW o
    PROVE  /\ DOMAIN WithOrder(R, ls, o) = DOMAIN R
           /\ \A l \in DOMAIN R : /\ WithOrder(R, ls, o)[l].amount = R[l].amount
                                  /\ WithOrder(R, ls, o)[l].order = IF l \in ls THEN o ELSE R[l].order
BY DEF WithOrder

(* write(): what it changes is marked, so nothing is left to be.            *)
LEMMA WriteLinesShows ==
    ASSUME NEW e, NEW R, NEW H, Shows(e, R, H, {}), NEW ls \in SUBSET DOMAIN R, NEW vals \in ValsOf(H)
    PROVE  Shows(WriteLines(e, ls, vals), Put(R, ls, vals), H, {})
<1> DEFINE before == IF "order" \in DOMAIN vals THEN ModifiedLines(e, ls) ELSE e
           a == IF "amount" \in DOMAIN vals THEN WriteAmount(before, ls, vals.amount) ELSE before
           b == IF "order" \in DOMAIN vals THEN WriteOrder(a, ls, vals.order) ELSE a
           A == IF "amount" \in DOMAIN vals THEN WithAmount(R, ls, vals.amount) ELSE R
           S == OrdersAt(R, ls)
<1>1. R \in RowsOf(H)
  BY ShowsRows
<1>2. CASE ls = {}
  BY <1>1, <1>2, PutIs DEF WriteLines
<1>3. CASE ls # {}
  <2>1. WriteLines(e, ls, vals) = ModifiedLines(b, ls)
    BY <1>3 DEF WriteLines
  <2>2. /\ Shows(before, R, H, {})
        /\ "order" \in DOMAIN vals => S \subseteq before.tocompute /\ ls \subseteq DOMAIN before.cache.order
    BY ModifiedLinesShows
  <2> HIDE DEF before
  <2>3. /\ Shows(a, A, H, S) /\ a.tocompute = before.tocompute /\ a.cache.order = before.cache.order
        /\ OrdersAt(A, ls) = S
    <3>1. CASE "amount" \in DOMAIN vals
      <4>1. vals.amount \in Amounts
        BY <3>1 DEF ValsOf
      <4> DEFINE v == vals.amount
      <4> HIDE DEF v
      <4>2. v \in Amounts
        BY <4>1 DEF v
      <4>3. a = WriteAmount(before, ls, v) /\ A = WithAmount(R, ls, v)
        BY <3>1 DEF v
      <4>4. /\ Shows(WriteAmount(before, ls, v), WithAmount(R, ls, v), H, {} \cup S)
            /\ WriteAmount(before, ls, v).tocompute = before.tocompute
            /\ WriteAmount(before, ls, v).cache.order = before.cache.order
        BY <2>2, <4>2, WriteAmountShows
      <4>5. {} \cup S = S
        OBVIOUS
      <4> QED
        BY <1>1, <4>3, <4>4, <4>5, OrdersAtIs
    <3>2. CASE "amount" \notin DOMAIN vals
      BY <2>2, <3>2, FewerLeft
    <3> QED
      BY <3>1, <3>2
  <2> HIDE DEF a, S
  <2>4. A \in RowsOf(H) /\ ls \subseteq DOMAIN A
    <3>1. DOMAIN A = DOMAIN R
      BY <1>1, WithAmountIs
    <3> QED
      BY <2>3, <3>1, ShowsRows
  <2>5. CASE "order" \notin DOMAIN vals
    <3>1. b = a
      BY <2>5
    <3>2. A = Put(R, ls, vals)
      <4>1. DOMAIN A = DOMAIN R /\ \A l \in DOMAIN R : /\ A[l].order = R[l].order
              /\ A[l].amount = IF l \in ls /\ "amount" \in DOMAIN vals THEN vals.amount ELSE R[l].amount
        BY <1>1, WithAmountIs
      <4> HIDE DEF A
      <4>2. Put(R, ls, vals) \in RowsOf(H)
        BY <1>1, PutIs
      <4>3. DOMAIN Put(R, ls, vals) = DOMAIN A /\ \A l \in DOMAIN A :
              Put(R, ls, vals)[l].amount = A[l].amount /\ Put(R, ls, vals)[l].order = A[l].order
        BY <1>1, <2>5, <4>1, PutIs
      <4> QED
        BY <2>4, <4>2, <4>3, SameRows
    <3> HIDE DEF A, b
    <3>3. Shows(ModifiedLines(a, ls), A, H, S \ S)
      BY <2>3, <2>4, ModifiedLinesShows
    <3>4. S \ S = {}
      OBVIOUS
    <3> QED
      BY <2>1, <3>1, <3>2, <3>3, <3>4
  <2>6. CASE "order" \in DOMAIN vals
    <3> DEFINE o == vals.order
               B == WithOrder(A, ls, o)
    <3>1. o \in H \cup {None}
      BY <2>6 DEF ValsOf
    <3>2. b = WriteOrder(a, ls, o)
      BY <2>6
    <3>3. B = Put(R, ls, vals)
      <4>1. DOMAIN A = DOMAIN R /\ \A l \in DOMAIN R : /\ A[l].order = R[l].order
              /\ A[l].amount = IF l \in ls /\ "amount" \in DOMAIN vals THEN vals.amount ELSE R[l].amount
        BY <1>1, WithAmountIs
      <4> HIDE DEF A, o
      <4>2. DOMAIN B = DOMAIN A /\ \A l \in DOMAIN A :
              B[l].amount = A[l].amount /\ B[l].order = IF l \in ls THEN o ELSE A[l].order
        BY <2>4, WithOrderIs
      <4>3. B \in RowsOf(H)
        <5>1. Shows(WriteOrder(a, ls, o), B, H, S \cup OrdersAt(A, ls) \cup {o})
          BY <2>2, <2>3, <2>4, <2>6, <3>1, WriteOrderShows
        <5> QED
          BY <5>1, ShowsRows
      <4> HIDE DEF B
      <4>4. Put(R, ls, vals) \in RowsOf(H)
        BY <1>1, PutIs
      <4>5. DOMAIN Put(R, ls, vals) = DOMAIN B /\ \A l \in DOMAIN B :
              Put(R, ls, vals)[l].amount = B[l].amount /\ Put(R, ls, vals)[l].order = B[l].order
        BY <1>1, <2>6, <4>1, <4>2, PutIs DEF o
      <4> QED
        BY <4>3, <4>4, <4>5, SameRows
    <3> HIDE DEF A, b, o
    <3>4. /\ Shows(WriteOrder(a, ls, o), B, H, S \cup OrdersAt(A, ls) \cup {o})
          /\ WriteOrder(a, ls, o).tocompute = a.tocompute
      BY <2>2, <2>3, <2>4, <2>6, <3>1, WriteOrderShows
    <3>5. OrdersAt(B, ls) = {o} \ {None} /\ DOMAIN B = DOMAIN A
      <4>1. ls \in SUBSET DOMAIN A
        BY <2>4
      <4>2. OrdersAt(WithOrder(A, ls, o), ls) = {o} \ {None}
        BY <1>3, <2>4, <4>1, OrdersAtIs
      <4> QED
        BY <2>4, <4>2, WithOrderIs
    <3> HIDE DEF B
    <3> DEFINE c == ModifiedLines(b, ls)
               X == (S \cup {o}) \ OrdersAt(B, ls)
    <3>6. S \cup OrdersAt(A, ls) \cup {o} = S \cup {o}
      BY <2>3
    <3>7. Shows(c, B, H, X) /\ c.tocompute = b.tocompute \cup OrdersAt(B, ls)
      BY <2>4, <3>2, <3>4, <3>5, <3>6, ModifiedLinesShows
    <3> HIDE DEF c
    <3>8. X \cap H \subseteq {} \cup c.tocompute
      <4>1. None \notin H
        BY ShowsRows, OrmAssumption
      <4> QED
        BY <2>2, <2>3, <2>6, <3>2, <3>4, <3>5, <3>7, <4>1
    <3> HIDE DEF X
    <3>9. Shows(c, B, H, {})
      BY <3>7, <3>8, FewerLeft
    <3> QED
      BY <2>1, <3>3, <3>9 DEF c
  <2> QED
    BY <2>5, <2>6
<1> QED
  BY <1>2, <1>3

(* f is e with a part of the cache of lines forgotten, or of all of it.     *)
LEMMA ForgottenShows ==
    ASSUME NEW e, NEW R, NEW H, NEW X, Shows(e, R, H, X), NEW f \in Env,
           f.db = e.db, f.towrite = e.towrite, f.tocompute = e.tocompute,
           DOMAIN f.cache.amount \subseteq DOMAIN e.cache.amount,
           DOMAIN f.cache.order \subseteq DOMAIN e.cache.order,
           DOMAIN f.cache.lines \subseteq DOMAIN e.cache.lines,
           DOMAIN f.cache.total \subseteq DOMAIN e.cache.total,
           DOMAIN f.cache.due \subseteq DOMAIN e.cache.due,
           \A l \in DOMAIN f.cache.amount : f.cache.amount[l] = e.cache.amount[l],
           \A l \in DOMAIN f.cache.order : f.cache.order[l] = e.cache.order[l],
           \A o \in DOMAIN f.cache.lines : f.cache.lines[o] = e.cache.lines[o],
           \A o \in DOMAIN f.cache.total : f.cache.total[o] = e.cache.total[o],
           \A o \in DOMAIN f.cache.due : f.cache.due[o] = e.cache.due[o]
    PROVE  Shows(f, R, H, X)
<1>1. Written(f) = Written(e)
  BY DEF Written
<1>2. Stored(f, R, H)
  BY DEF Shows, Stored
<1>3. Cached(f.cache, R, H, Written(f))
  BY <1>1 DEF Shows, Cached
<1>4. Computed(f, R, H, X)
  BY <1>1 DEF Shows, Computed
<1> QED
  BY <1>2, <1>3, <1>4 DEF Shows

(* The empty cache.                                                         *)
LEMMA NoCacheIs ==
    /\ NoCache \in Caches
    /\ DOMAIN NoCache.amount = {} /\ DOMAIN NoCache.order = {} /\ DOMAIN NoCache.lines = {}
    /\ DOMAIN NoCache.total = {} /\ DOMAIN NoCache.due = {}
BY NothingIs DEF NoCache, Caches

(* The cache can be dropped at any time.                                    *)
LEMMA EmptiedShows ==
    ASSUME NEW e, NEW R, NEW H, NEW X, Shows(e, R, H, X)
    PROVE  Shows([e EXCEPT !.cache = NoCache], R, H, X)
<1> DEFINE f == [e EXCEPT !.cache = NoCache]
<1>1. e \in Env
  BY DEF Shows, Stored
<1>2. /\ f \in Env /\ f.db = e.db /\ f.towrite = e.towrite /\ f.tocompute = e.tocompute
      /\ f.cache = NoCache
  BY <1>1, NoCacheIs DEF Env
<1> HIDE DEF f
<1>3. Shows(f, R, H, X)
  BY <1>2, NoCacheIs, ForgottenShows
<1> QED
  BY <1>3 DEF f

------------------------------------------------------------------------------
(* Creating and deleting                                                    *)

Added(R, l, r) == [k \in DOMAIN R \cup {l} |-> IF k = l THEN r ELSE R[k]]

Plus(f, x, y) == [k \in {x} |-> y] ++ f

(* A function with one more entry.                                          *)
LEMMA PlusType ==
    ASSUME NEW S, NEW T, NEW f \in Partial(S, T), NEW x \in S, NEW y \in T
    PROVE  /\ Plus(f, x, y) \in Partial(S, T)
           /\ \A k : k \in DOMAIN Plus(f, x, y) <=> k = x \/ k \in DOMAIN f
           /\ Plus(f, x, y)[x] = y
           /\ \A k \in DOMAIN f : k # x => Plus(f, x, y)[k] = f[k]
<1> DEFINE new == [k \in {x} |-> y]
<1>1. DOMAIN new = {x} /\ new[x] = y /\ new = [k \in DOMAIN new |-> new[k]] /\ Plus(f, x, y) = new ++ f
  BY DEF Plus
<1> HIDE DEF new
<1>2. new \in Partial(S, T)
  BY <1>1, PartialIs
<1> QED
  BY <1>1, <1>2, OverIs, OverType

(* create() of a line: the database and the cache get it at once, its order *)
(* is marked.                                                               *)
LEMMA InsertLineShows ==
    ASSUME NEW e, NEW R, NEW H, Shows(e, R, H, {}), NEW l \in Lines \ DOMAIN R,
           NEW a \in Amounts, NEW o \in H \cup {None}
    PROVE  Shows(InsertLine(e, l, a, o), Added(R, l, [amount |-> a, order |-> o]), H, {})
<1> DEFINE dam == Plus(e.db.amount, l, a)
           dor == Plus(e.db.order, l, o)
           cam == Plus(e.cache.amount, l, a)
           cor == Plus(e.cache.order, l, o)
           f == [e EXCEPT !.db.amount = dam, !.db.order = dor, !.cache.amount = cam, !.cache.order = cor]
           lines == IF o \in DOMAIN e.cache.lines THEN [e.cache.lines EXCEPT ![o] = @ \cup {l}]
                    ELSE e.cache.lines
           g == UpdateInverses(f, {l}, o)
           Q == Added(R, l, [amount |-> a, order |-> o])
<1>1. InsertLine(e, l, a, o) = ModifiedLines(g, {l})
  BY DEF InsertLine, Plus
<1>2. /\ e \in Env /\ Stored(e, R, H) /\ Cached(e.cache, R, H, Written(e)) /\ Computed(e, R, H, {})
      /\ R \in RowsOf(H) /\ DOMAIN R \subseteq Lines /\ H \subseteq Orders
  BY PartialIs DEF Shows, Stored, RowsOf
<1>3. o \in Orders \cup {None}
  BY <1>2
<1>4. /\ dam \in Partial(Lines, Amounts) /\ cam \in Partial(Lines, Amounts)
      /\ \A k : k \in DOMAIN dam <=> k = l \/ k \in DOMAIN e.db.amount
      /\ \A k : k \in DOMAIN cam <=> k = l \/ k \in DOMAIN e.cache.amount
      /\ dam[l] = a /\ cam[l] = a
      /\ \A k \in DOMAIN e.db.amount : k # l => dam[k] = e.db.amount[k]
      /\ \A k \in DOMAIN e.cache.amount : k # l => cam[k] = e.cache.amount[k]
  <2>1. e.db.amount \in Partial(Lines, Amounts) /\ e.cache.amount \in Partial(Lines, Amounts)
    BY <1>2 DEF Env, Columns, Caches
  <2> QED
    BY <2>1, PlusType
<1>5. /\ dor \in Partial(Lines, Orders \cup {None}) /\ cor \in Partial(Lines, Orders \cup {None})
      /\ \A k : k \in DOMAIN dor <=> k = l \/ k \in DOMAIN e.db.order
      /\ \A k : k \in DOMAIN cor <=> k = l \/ k \in DOMAIN e.cache.order
      /\ dor[l] = o /\ cor[l] = o
      /\ \A k \in DOMAIN e.db.order : k # l => dor[k] = e.db.order[k]
      /\ \A k \in DOMAIN e.cache.order : k # l => cor[k] = e.cache.order[k]
  <2>1. /\ e.db.order \in Partial(Lines, Orders \cup {None})
        /\ e.cache.order \in Partial(Lines, Orders \cup {None})
    BY <1>2 DEF Env, Columns, Caches
  <2> QED
    BY <1>3, <2>1, PlusType
<1> HIDE DEF dam, dor, cam, cor
<1>6. /\ f \in Env /\ f.tocompute = e.tocompute /\ f.towrite = e.towrite
      /\ f.db.amount = dam /\ f.db.order = dor /\ f.db.total = e.db.total
      /\ f.cache.amount = cam /\ f.cache.order = cor
      /\ f.cache.lines = e.cache.lines /\ f.cache.total = e.cache.total /\ f.cache.due = e.cache.due
  BY <1>2, <1>4, <1>5 DEF Env, Columns, Caches
<1> HIDE DEF f
<1>7. /\ lines \in Partial(Orders, SUBSET Lines) /\ DOMAIN lines = DOMAIN e.cache.lines
      /\ \A p \in DOMAIN lines : lines[p] = IF p = o THEN e.cache.lines[p] \cup {l} ELSE e.cache.lines[p]
  <2>1. e.cache.lines \in Partial(Orders, SUBSET Lines)
    BY <1>2 DEF Env, Caches
  <2>2. /\ DOMAIN lines = DOMAIN e.cache.lines
        /\ lines = [p \in DOMAIN lines |-> lines[p]]
        /\ \A p \in DOMAIN lines : lines[p] = IF p = o THEN e.cache.lines[p] \cup {l} ELSE e.cache.lines[p]
    <3>1. e.cache.lines = [p \in DOMAIN e.cache.lines |-> e.cache.lines[p]]
      BY <2>1, PartialIs
    <3>2. CASE o \in DOMAIN e.cache.lines
      BY <3>2
    <3>3. CASE o \notin DOMAIN e.cache.lines
      BY <3>1, <3>3
    <3> QED
      BY <3>2, <3>3
  <2> HIDE DEF lines
  <2>3. DOMAIN e.cache.lines \subseteq Orders /\ \A p \in DOMAIN e.cache.lines : e.cache.lines[p] \subseteq Lines
    BY <2>1, PartialIs
  <2>4. \A p \in DOMAIN lines : lines[p] \in SUBSET Lines
    BY <2>2, <2>3
  <2> QED
    BY <2>2, <2>3, <2>4, PartialIs
<1>8. g = [f EXCEPT !.cache.lines = lines]
  <2>1. CASE o \in DOMAIN e.cache.lines
    BY <1>6, <2>1 DEF UpdateInverses
  <2>2. CASE o \notin DOMAIN e.cache.lines
    BY <1>6, <2>2 DEF UpdateInverses, Env, Caches
  <2> QED
    BY <2>1, <2>2
<1> HIDE DEF lines, g
<1>9. /\ g \in Env /\ g.tocompute = e.tocompute /\ g.towrite = e.towrite
      /\ g.db.amount = dam /\ g.db.order = dor /\ g.db.total = e.db.total
      /\ g.cache.amount = cam /\ g.cache.order = cor
      /\ g.cache.lines = lines /\ g.cache.total = e.cache.total /\ g.cache.due = e.cache.due
  BY <1>6, <1>7, <1>8 DEF Env, Caches
<1>10. /\ \A k : k \in DOMAIN Q <=> k = l \/ k \in DOMAIN R
       /\ Q[l].amount = a /\ Q[l].order = o
       /\ \A k \in DOMAIN R : Q[k] = R[k]
       /\ Q \in RowsOf(H)
  <2> DEFINE r == [amount |-> a, order |-> o]
  <2>1. /\ DOMAIN Q = DOMAIN R \cup {l} /\ Q = [k \in DOMAIN Q |-> Q[k]]
        /\ Q[l] = r /\ \A k \in DOMAIN R : Q[k] = R[k]
    BY DEF Added
  <2>2. r \in Row(H) /\ r.amount = a /\ r.order = o
    BY DEF Row
  <2> HIDE DEF Q, r
  <2>3. \A k \in DOMAIN R : R[k] \in Row(H)
    BY <1>2, PartialIs DEF RowsOf
  <2> QED
    BY <1>2, <2>1, <2>2, <2>3, PartialIs DEF RowsOf
<1> HIDE DEF Q
<1>11. \A p \in DOMAIN lines : lines[p] = LinesAt(Q, p)
  <2>1. \A p \in DOMAIN e.cache.lines : e.cache.lines[p] = LinesAt(R, p)
    BY <1>2 DEF Cached
  <2>2. \A p : LinesAt(Q, p) = IF p = o THEN LinesAt(R, p) \cup {l} ELSE LinesAt(R, p)
    BY <1>10 DEF LinesAt
  <2> QED
    BY <1>7, <2>1, <2>2
<1>12. ASSUME NEW p, p # o PROVE TotalAt(Q, p) = TotalAt(R, p)
  <2>1. LinesAt(Q, p) = LinesAt(R, p)
    BY <1>10, <1>12 DEF LinesAt
  <2> QED
    BY <1>10, <2>1 DEF TotalAt, LinesAt
<1>13. Written(g) = Written(e)
  BY <1>9 DEF Written
<1>14. Stored(g, Q, H)
  <2>1. l \notin DOMAIN e.towrite.amount /\ l \notin DOMAIN e.towrite.order
    BY <1>2 DEF Stored
  <2>2. ASSUME NEW k \in DOMAIN R
        PROVE  /\ Q[k].amount = (e.towrite.amount ++ dam)[k]
               /\ Q[k].order = (e.towrite.order ++ dor)[k]
    <3>1. /\ k \in DOMAIN e.db.amount /\ k \in DOMAIN e.db.order /\ k # l
          /\ R[k].amount = (e.towrite.amount ++ e.db.amount)[k]
          /\ R[k].order = (e.towrite.order ++ e.db.order)[k]
      BY <1>2 DEF Stored
    <3>2. (e.towrite.amount ++ e.db.amount)[k] = (e.towrite.amount ++ dam)[k]
      BY <1>4, <3>1, OverIs
    <3>3. (e.towrite.order ++ e.db.order)[k] = (e.towrite.order ++ dor)[k]
      BY <1>5, <3>1, OverIs
    <3> QED
      BY <1>10, <3>1, <3>2, <3>3
  <2>3. a = (e.towrite.amount ++ dam)[l] /\ o = (e.towrite.order ++ dor)[l]
    BY <1>4, <1>5, <2>1, OverIs
  <2>4. /\ H = DOMAIN g.db.total /\ DOMAIN g.towrite.total \subseteq H
        /\ DOMAIN Q = DOMAIN g.db.amount /\ DOMAIN Q = DOMAIN g.db.order
        /\ DOMAIN g.towrite.amount \subseteq DOMAIN Q /\ DOMAIN g.towrite.order \subseteq DOMAIN Q
    BY <1>2, <1>4, <1>5, <1>9, <1>10 DEF Stored
  <2> QED
    BY <1>2, <1>9, <1>10, <2>2, <2>3, <2>4 DEF Stored
<1>15. Cached(g.cache, Q, H, Written(g))
  <2>1. \A k \in DOMAIN cam : k \in DOMAIN Q /\ cam[k] = Q[k].amount
    BY <1>2, <1>4, <1>10 DEF Cached
  <2>2. \A k \in DOMAIN cor : k \in DOMAIN Q /\ cor[k] = Q[k].order
    BY <1>2, <1>5, <1>10 DEF Cached
  <2> QED
    BY <1>2, <1>7, <1>9, <1>11, <1>13, <2>1, <2>2 DEF Cached
<1>16. Computed(g, Q, H, {o})
  BY <1>2, <1>9, <1>12, <1>13 DEF Computed
<1>17. Shows(g, Q, H, {o})
  BY <1>14, <1>15, <1>16 DEF Shows
<1> DEFINE h == ModifiedLines(g, {l})
<1>18. OrdersAt(Q, {l}) = {o} \ {None}
  BY <1>10 DEF OrdersAt
<1>19. Shows(h, Q, H, {o} \ OrdersAt(Q, {l})) /\ h.tocompute = g.tocompute \cup OrdersAt(Q, {l})
  <2>1. {l} \in SUBSET DOMAIN Q
    BY <1>10
  <2> QED
    BY <1>17, <2>1, ModifiedLinesShows
<1> HIDE DEF h
<1>20. ({o} \ OrdersAt(Q, {l})) \cap H \subseteq {} \cup h.tocompute
  BY <1>2, <1>18, <1>19, OrmAssumption
<1>21. Shows(h, Q, H, {})
  BY <1>19, <1>20, FewerLeft
<1> QED
  BY <1>1, <1>21 DEF h, Q

(* Nothing waits: the database is R, and its totals are those of its lines. *)
Settled(e, R, H) == Shows(e, R, H, {}) /\ e.towrite = NoWrites /\ e.tocompute = {}

(* flush(): all that waits is computed first, as computing adds pending     *)
(* updates.                                                                 *)
LEMMA FlushAllSettles ==
    ASSUME NEW e, NEW R, NEW H, Shows(e, R, H, {})
    PROVE  Settled(FlushAll(e), R, H)
<1> DEFINE f == ComputeTotals(e, e.tocompute)
           g == FlushTotals(f)
           h == FlushLines(g)
<1>1. FlushAll(e) = h
  BY DEF FlushAll
<1>2. Shows(f, R, H, {}) /\ f.tocompute = {}
  BY ComputeTotalsShows
<1> HIDE DEF f
<1>3. Shows(g, R, H, {}) /\ g.tocompute = {} /\ g.towrite.total = Nothing
  BY <1>2, FlushTotalsShows
<1> HIDE DEF g
<1>4. /\ Shows(h, R, H, {}) /\ h.tocompute = {} /\ h.towrite.total = Nothing
      /\ h.towrite.amount = Nothing /\ h.towrite.order = Nothing
  BY <1>3, FlushLinesShows
<1>5. h.towrite \in Columns
  BY <1>4 DEF Shows, Stored, Env
<1>6. h.towrite = NoWrites
  BY <1>4, <1>5 DEF Columns, NoWrites
<1> QED
  BY <1>1, <1>4, <1>6 DEF Settled

(* Then the database is right, totals included.                             *)
LEMMA SettledIs ==
    ASSUME NEW e, NEW R, NEW H, Settled(e, R, H)
    PROVE  /\ \A l \in DOMAIN R : e.db.amount[l] = R[l].amount /\ e.db.order[l] = R[l].order
           /\ \A o \in H : e.db.total[o] = TotalAt(R, o)
<1>1. /\ Stored(e, R, H) /\ Computed(e, R, H, {}) /\ e.tocompute = {} /\ H = DOMAIN e.db.total
      /\ e.towrite.amount = Nothing /\ e.towrite.order = Nothing /\ e.towrite.total = Nothing
  BY DEF Settled, Shows, Stored, NoWrites
<1>2. \A l \in DOMAIN R : e.db.amount[l] = R[l].amount /\ e.db.order[l] = R[l].order
  BY <1>1, NothingIs, NotPending
<1>3. \A o \in H : e.db.total[o] = TotalAt(R, o)
  <2>1. \A o \in H : Written(e)[o] = e.db.total[o]
    BY <1>1, NothingIs, WrittenIs
  <2> QED
    BY <1>1, <2>1 DEF Computed
<1> QED
  BY <1>2, <1>3

(* The rows but for those of ls.                                            *)
Removed(R, ls) == [l \in DOMAIN R \ ls |-> R[l]]

(* Removed() takes away the lines ls and changes no other.                  *)
LEMMA RemovedIs ==
    ASSUME NEW H, NEW R \in RowsOf(H), NEW ls
    PROVE  /\ Removed(R, ls) \in RowsOf(H)
           /\ \A l : l \in DOMAIN Removed(R, ls) <=> l \in DOMAIN R /\ l \notin ls
           /\ \A l \in DOMAIN R : l \notin ls => Removed(R, ls)[l] = R[l]
<1>1. /\ DOMAIN Removed(R, ls) = DOMAIN R \ ls
      /\ Removed(R, ls) = [l \in DOMAIN Removed(R, ls) |-> Removed(R, ls)[l]]
      /\ \A l \in DOMAIN R : l \notin ls => Removed(R, ls)[l] = R[l]
  BY DEF Removed
<1>2. DOMAIN R \subseteq Lines /\ \A l \in DOMAIN R : R[l] \in Row(H)
  BY PartialIs DEF RowsOf
<1> QED
  BY <1>1, <1>2, PartialIs DEF RowsOf

(* unlink() of lines: their orders are marked while the lines are still     *)
(* there.                                                                   *)
LEMMA UnlinkLinesShows ==
    ASSUME NEW e, NEW R, NEW H, Shows(e, R, H, {}), NEW ls \in SUBSET DOMAIN R
    PROVE  Settled(UnlinkLines(e, ls), Removed(R, ls), H)
<1> DEFINE d == FlushAll(e)
           f == ModifiedLines(d, ls)
           dam == Without(f.db.amount, ls)
           dor == Without(f.db.order, ls)
           g == [f EXCEPT !.db.amount = dam, !.db.order = dor, !.cache = NoCache]
           Q == Removed(R, ls)
<1>1. UnlinkLines(e, ls) = FlushAll(g)
  BY DEF UnlinkLines
<1>2. Settled(d, R, H)
  BY FlushAllSettles
<1> HIDE DEF d
<1>3. /\ Shows(f, R, H, {}) /\ OrdersAt(R, ls) \subseteq f.tocompute
      /\ \A l : l \notin DOMAIN f.towrite.amount /\ l \notin DOMAIN f.towrite.order
  <2>1. Shows(d, R, H, {}) /\ DOMAIN d.towrite.amount = {} /\ DOMAIN d.towrite.order = {}
    BY <1>2, NothingIs DEF Settled, NoWrites
  <2>2. {} \ OrdersAt(R, ls) = {}
    OBVIOUS
  <2>3. /\ Shows(f, R, H, {} \ OrdersAt(R, ls)) /\ f.tocompute = d.tocompute \cup OrdersAt(R, ls)
        /\ DOMAIN f.towrite.amount \subseteq DOMAIN d.towrite.amount
        /\ DOMAIN f.towrite.order \subseteq DOMAIN d.towrite.order
    BY <2>1, ModifiedLinesShows
  <2> HIDE DEF f
  <2> QED
    BY <2>1, <2>2, <2>3
<1> HIDE DEF f
<1>4. /\ f \in Env /\ Stored(f, R, H) /\ Computed(f, R, H, {}) /\ R \in RowsOf(H) /\ H \subseteq Orders
      /\ f.tocompute \subseteq H
  BY <1>3 DEF Shows, Stored, Computed
<1>5. dam \in Partial(Lines, Amounts) /\ dor \in Partial(Lines, Orders \cup {None})
  BY <1>4, WithoutType DEF Env, Columns
<1>6. /\ \A l : l \in DOMAIN dam <=> l \in DOMAIN R /\ l \notin ls
      /\ \A l : l \in DOMAIN dor <=> l \in DOMAIN R /\ l \notin ls
      /\ \A l \in DOMAIN R : l \notin ls => dam[l] = R[l].amount /\ dor[l] = R[l].order
  <2>1. /\ DOMAIN f.db.amount = DOMAIN R /\ DOMAIN f.db.order = DOMAIN R
        /\ \A l \in DOMAIN R : f.db.amount[l] = R[l].amount /\ f.db.order[l] = R[l].order
    <3>1. DOMAIN f.db.amount = DOMAIN R /\ DOMAIN f.db.order = DOMAIN R
      BY <1>4 DEF Stored
    <3>2. \A l \in DOMAIN R : f.db.amount[l] = R[l].amount /\ f.db.order[l] = R[l].order
      BY <1>3, <1>4, NotPending
    <3> QED
      BY <3>1, <3>2
  <2> QED
    BY <2>1, WithoutIs
<1> HIDE DEF dam, dor
<1>7. /\ g \in Env /\ g.towrite = f.towrite /\ g.tocompute = f.tocompute /\ g.cache = NoCache
      /\ g.db.amount = dam /\ g.db.order = dor /\ g.db.total = f.db.total
  BY <1>4, <1>5, NoCacheIs DEF Env, Columns
<1> HIDE DEF g
<1>8. /\ Q \in RowsOf(H) /\ \A l : l \in DOMAIN Q <=> l \in DOMAIN R /\ l \notin ls
      /\ \A l \in DOMAIN R : l \notin ls => Q[l] = R[l]
  BY <1>4, RemovedIs
<1> HIDE DEF Q
<1>9. Stored(g, Q, H)
  <2>1. \A l \in DOMAIN Q : /\ Q[l].amount = (g.towrite.amount ++ g.db.amount)[l]
                            /\ Q[l].order = (g.towrite.order ++ g.db.order)[l]
    BY <1>3, <1>6, <1>7, <1>8, OverIs
  <2>2. DOMAIN Q = DOMAIN g.db.amount /\ DOMAIN Q = DOMAIN g.db.order
    BY <1>6, <1>7, <1>8
  <2> QED
    BY <1>3, <1>4, <1>7, <1>8, <2>1, <2>2 DEF Stored
<1>10. Cached(g.cache, Q, H, Written(g))
  BY <1>7, NoCacheIs DEF Cached
<1>11. Computed(g, Q, H, {})
  <2>1. Written(g) = Written(f)
    BY <1>7 DEF Written
  <2>2. ASSUME NEW o \in H, o \notin f.tocompute PROVE TotalAt(Q, o) = TotalAt(R, o)
    <3>1. o # None
      BY <1>4, OrmAssumption
    <3>2. \A l \in LinesAt(R, o) : l \notin ls
      BY <1>3, <2>2, <3>1 DEF LinesAt, OrdersAt
    <3>3. LinesAt(Q, o) = LinesAt(R, o)
      BY <1>8, <3>2 DEF LinesAt
    <3> QED
      BY <1>8, <3>2, <3>3 DEF TotalAt, LinesAt
  <2> QED
    BY <1>4, <1>7, <2>1, <2>2, NoCacheIs DEF Computed
<1>12. Shows(g, Q, H, {})
  BY <1>9, <1>10, <1>11 DEF Shows
<1> QED
  BY <1>1, <1>12, FlushAllSettles DEF Q

(* unlink() of an order: the database clears the column of its lines        *)
(* (ondelete='set null'), and the cache is dropped with it.                 *)
LEMMA UnlinkOrderShows ==
    ASSUME NEW e, NEW R, NEW H, Shows(e, R, H, {}), NEW o \in H
    PROVE  Settled(UnlinkOrder(e, o), WithOrder(R, LinesAt(R, o), None), H \ {o})
<1> DEFINE f == FlushAll(e)
           dto == Without(f.db.total, {o})
           dor == [l \in DOMAIN f.db.order |-> IF f.db.order[l] = o THEN None ELSE f.db.order[l]]
           g == [f EXCEPT !.db.total = dto, !.db.order = dor, !.cache = NoCache]
           Q == WithOrder(R, LinesAt(R, o), None)
           K == H \ {o}
<1>1. UnlinkOrder(e, o) = FlushAll(g)
  BY DEF UnlinkOrder
<1>2. Settled(f, R, H)
  BY FlushAllSettles
<1> HIDE DEF f
<1>3. /\ f \in Env /\ R \in RowsOf(H) /\ DOMAIN R \subseteq Lines /\ H \subseteq Orders
      /\ DOMAIN f.db.amount = DOMAIN R /\ DOMAIN f.db.order = DOMAIN R /\ DOMAIN f.db.total = H
      /\ f.towrite = NoWrites /\ f.tocompute = {}
  BY <1>2, PartialIs DEF Settled, Shows, Stored, RowsOf
<1>4. /\ \A l \in DOMAIN R : f.db.amount[l] = R[l].amount /\ f.db.order[l] = R[l].order
      /\ \A p \in H : f.db.total[p] = TotalAt(R, p)
  BY <1>2, SettledIs
<1>5. dto \in Partial(Orders, Totals) /\ DOMAIN dto = K /\ \A p \in K : dto[p] = TotalAt(R, p)
  <2>1. dto \in Partial(Orders, Totals)
    BY <1>3, WithoutType DEF Env, Columns
  <2>2. /\ \A p : p \in DOMAIN dto <=> p \in DOMAIN f.db.total /\ p \notin {o}
        /\ \A p \in DOMAIN dto : dto[p] = f.db.total[p]
    BY WithoutIs
  <2> HIDE DEF dto
  <2>3. DOMAIN dto = K
    BY <1>3, <2>2
  <2> QED
    BY <1>4, <2>1, <2>2, <2>3
<1>6. \A l \in DOMAIN R : R[l].amount \in Amounts /\ R[l].order \in H \cup {None}
  BY <1>3, RowIs
<1>7. /\ DOMAIN Q = DOMAIN R /\ Q \in RowsOf(K)
      /\ \A l \in DOMAIN R : /\ Q[l].amount = R[l].amount
                             /\ Q[l].order = IF R[l].order = o THEN None ELSE R[l].order
  <2>1. /\ DOMAIN Q = DOMAIN R /\ Q = [l \in DOMAIN Q |-> Q[l]]
        /\ \A l \in DOMAIN R : Q[l] = [amount |-> R[l].amount,
                                       order |-> IF R[l].order = o THEN None ELSE R[l].order]
    BY DEF WithOrder, LinesAt
  <2> HIDE DEF Q
  <2>2. \A l \in DOMAIN Q : Q[l] \in Row(K)
    BY <1>6, <2>1 DEF Row
  <2>3. Q \in RowsOf(K)
    BY <1>3, <2>1, <2>2, PartialIs DEF RowsOf
  <2> QED
    BY <2>1, <2>3
<1>8. /\ dor \in Partial(Lines, Orders \cup {None}) /\ DOMAIN dor = DOMAIN R
      /\ \A l \in DOMAIN R : dor[l] = Q[l].order
  <2>1. /\ DOMAIN dor = DOMAIN R /\ dor = [l \in DOMAIN dor |-> dor[l]]
        /\ \A l \in DOMAIN R : dor[l] = Q[l].order
    BY <1>3, <1>4, <1>7
  <2>2. \A l \in DOMAIN R : Q[l].order \in Orders \cup {None}
    BY <1>3, <1>6, <1>7
  <2> HIDE DEF dor, Q
  <2> QED
    BY <1>3, <2>1, <2>2, PartialIs
<1> HIDE DEF dto, dor, Q
<1>9. /\ g \in Env /\ g.towrite = NoWrites /\ g.tocompute = {} /\ g.cache = NoCache
      /\ g.db.amount = f.db.amount /\ g.db.order = dor /\ g.db.total = dto
  BY <1>3, <1>5, <1>8, NoCacheIs DEF Env, Columns
<1> HIDE DEF g
<1>10. /\ \A x : x \notin DOMAIN g.towrite.amount /\ x \notin DOMAIN g.towrite.order
                   /\ x \notin DOMAIN g.towrite.total
       /\ \A p \in K : Written(g)[p] = TotalAt(R, p)
  <2>1. \A x : x \notin DOMAIN g.towrite.amount /\ x \notin DOMAIN g.towrite.order
                   /\ x \notin DOMAIN g.towrite.total
    BY <1>9, NothingIs DEF NoWrites
  <2> QED
    BY <1>5, <1>9, <2>1, WrittenIs
<1>11. Stored(g, Q, K)
  <2>1. \A l \in DOMAIN Q : /\ Q[l].amount = (g.towrite.amount ++ g.db.amount)[l]
                            /\ Q[l].order = (g.towrite.order ++ g.db.order)[l]
    BY <1>3, <1>4, <1>7, <1>8, <1>9, <1>10, OverIs
  <2> QED
    BY <1>3, <1>5, <1>7, <1>8, <1>9, <1>10, <2>1 DEF Stored
<1>12. Cached(g.cache, Q, K, Written(g))
  BY <1>9, NoCacheIs DEF Cached
<1>13. Computed(g, Q, K, {})
  <2>1. ASSUME NEW p \in K PROVE TotalAt(Q, p) = TotalAt(R, p)
    <3>1. p # None /\ p # o
      BY <1>3, OrmAssumption
    <3>2. LinesAt(Q, p) = LinesAt(R, p)
      BY <1>7, <3>1 DEF LinesAt
    <3> QED
      BY <1>7, <3>2 DEF TotalAt, LinesAt
  <2> QED
    BY <1>9, <1>10, <2>1, NoCacheIs DEF Computed
<1>14. Shows(g, Q, K, {})
  BY <1>11, <1>12, <1>13 DEF Shows
<1> QED
  BY <1>1, <1>14, FlushAllSettles DEF Q

------------------------------------------------------------------------------
(* The commands on the lines of an order                                    *)

(* The values of a command.                                                 *)
LEMMA OrderVals ==
    ASSUME NEW H, NEW o \in H \cup {None}
    PROVE  /\ [order |-> o] \in ValsOf(H)
           /\ "order" \in DOMAIN [order |-> o] /\ "amount" \notin DOMAIN [order |-> o]
           /\ [order |-> o].order = o
BY DEF ValsOf

(* Command 4: the lines of o that are linked again need no write.           *)
LEMMA LinkLinesShows ==
    ASSUME NEW e, NEW R, NEW H, Shows(e, R, H, {}), NEW o \in H, NEW ls \in SUBSET DOMAIN R
    PROVE  Shows(LinkLines(e, o, ls), Put(R, ls, [order |-> o]), H, {})
<1> DEFINE f == FetchLines(e, {o})
           new == ls \ f.cache.lines[o]
           g == FetchOrders(f, new)
           vals == [order |-> o]
<1>1. LinkLines(e, o, ls) = WriteLines(g, new, vals)
  BY DEF LinkLines
<1>2. Shows(f, R, H, {}) /\ {o} \subseteq DOMAIN f.cache.lines
  BY FetchLinesShows
<1> HIDE DEF f
<1>3. f.cache.lines[o] = LinesAt(R, o)
  BY <1>2 DEF Shows, Cached
<1>4. Shows(g, R, H, {}) /\ new \in SUBSET DOMAIN R
  BY <1>2, FetchOrdersShows
<1> HIDE DEF g
<1>5. vals \in ValsOf(H) /\ "order" \in DOMAIN vals /\ "amount" \notin DOMAIN vals /\ vals.order = o
  BY OrderVals
<1> HIDE DEF vals
<1>6. Shows(WriteLines(g, new, vals), Put(R, new, vals), H, {})
  BY <1>4, <1>5, WriteLinesShows
<1>7. Put(R, new, vals) = Put(R, ls, vals)
  <2>1. R \in RowsOf(H)
    BY ShowsRows
  <2>2. /\ Put(R, new, vals) \in RowsOf(H) /\ Put(R, ls, vals) \in RowsOf(H)
        /\ DOMAIN Put(R, new, vals) = DOMAIN R /\ DOMAIN Put(R, ls, vals) = DOMAIN R
    BY <1>5, <2>1, PutIs
  <2>3. \A l \in DOMAIN R : /\ Put(R, new, vals)[l].amount = R[l].amount
                            /\ Put(R, ls, vals)[l].amount = R[l].amount
                            /\ Put(R, new, vals)[l].order = IF l \in new THEN o ELSE R[l].order
                            /\ Put(R, ls, vals)[l].order = IF l \in ls THEN o ELSE R[l].order
    BY <1>5, <2>1, PutIs
  <2>4. \A l \in ls : l \in new \/ R[l].order = o
    BY <1>3 DEF LinesAt
  <2>5. \A l \in new : l \in ls
    OBVIOUS
  <2> HIDE DEF new
  <2>6. \A l \in DOMAIN R : /\ Put(R, new, vals)[l].amount = Put(R, ls, vals)[l].amount
                            /\ Put(R, new, vals)[l].order = Put(R, ls, vals)[l].order
    BY <2>3, <2>4, <2>5
  <2> QED
    BY <2>2, <2>6, SameRows
<1> QED
  BY <1>1, <1>6, <1>7 DEF vals

(* The search of command 6 sees the orders that were pending.               *)
LEMMA SearchedShows ==
    ASSUME NEW e, NEW R, NEW H, Shows(e, R, H, {}), NEW f,
           f = IF DOMAIN e.towrite.order # {} THEN FlushLines(e) ELSE e
    PROVE  /\ Shows(f, R, H, {}) /\ DOMAIN f.db.order = DOMAIN R
           /\ \A l \in DOMAIN R : f.db.order[l] = R[l].order
<1>1. Shows(f, R, H, {}) /\ DOMAIN f.towrite.order = {}
  BY FlushLinesShows, NothingIs
<1>2. Stored(f, R, H) /\ DOMAIN f.db.order = DOMAIN R
  BY <1>1 DEF Shows, Stored
<1> QED
  BY <1>1, <1>2, NotPending

(* Command 6: the lines that go are written first, then those that come.    *)
LEMMA ReplaceLinesShows ==
    ASSUME NEW e, NEW R, NEW H, Shows(e, R, H, {}), NEW o \in H, NEW ls \in SUBSET DOMAIN R
    PROVE  Shows(ReplaceLines(e, o, ls),
                 Put(Put(R, LinesAt(R, o) \ ls, [order |-> None]), ls, [order |-> o]), H, {})
<1> DEFINE f == IF DOMAIN e.towrite.order # {} THEN FlushLines(e) ELSE e
           out == {l \in DOMAIN f.db.order : f.db.order[l] = o} \ ls
           g == WriteLines(f, out, [order |-> None])
           Q == Put(R, out, [order |-> None])
<1>1. ReplaceLines(e, o, ls) = WriteLines(g, ls, [order |-> o])
  BY DEF ReplaceLines
<1>2. /\ Shows(f, R, H, {}) /\ DOMAIN f.db.order = DOMAIN R
      /\ \A l \in DOMAIN R : f.db.order[l] = R[l].order
  BY SearchedShows
<1> HIDE DEF f
<1>3. out = LinesAt(R, o) \ ls /\ out \in SUBSET DOMAIN R
  BY <1>2 DEF LinesAt
<1> HIDE DEF out
<1>4. [order |-> None] \in ValsOf(H) /\ [order |-> o] \in ValsOf(H)
  BY OrderVals
<1>5. Shows(g, Q, H, {})
  BY <1>2, <1>3, <1>4, WriteLinesShows
<1>6. DOMAIN Q = DOMAIN R
  BY <1>2, <1>4, PutIs, ShowsRows
<1> HIDE DEF g, Q
<1>7. Shows(WriteLines(g, ls, [order |-> o]), Put(Q, ls, [order |-> o]), H, {})
  BY <1>4, <1>5, <1>6, WriteLinesShows
<1> QED
  BY <1>1, <1>3, <1>7 DEF Q

(* A new order has no line, and its total is that of none.                  *)
LEMMA HeadedShows ==
    ASSUME NEW e, NEW R, NEW H, Shows(e, R, H, {}), NEW o \in Orders \ H
    PROVE  Shows([e EXCEPT !.db.total = Plus(@, o, {}), !.cache.lines = Plus(@, o, {})], R, H \cup {o}, {})
<1> DEFINE tot == Plus(e.db.total, o, {})
           lines == Plus(e.cache.lines, o, {})
           f == [e EXCEPT !.db.total = tot, !.cache.lines = lines]
           K == H \cup {o}
<1>1. /\ e \in Env /\ Stored(e, R, H) /\ Cached(e.cache, R, H, Written(e)) /\ Computed(e, R, H, {})
      /\ R \in RowsOf(H) /\ DOMAIN R \subseteq Lines /\ H \subseteq Orders /\ DOMAIN e.db.total = H
  BY PartialIs DEF Shows, Stored, RowsOf
<1>2. {} \in Totals /\ {} \in SUBSET Lines /\ o \in Orders
  BY DEF Totals
<1>3. /\ tot \in Partial(Orders, Totals)
      /\ \A p : p \in DOMAIN tot <=> p = o \/ p \in H
      /\ tot[o] = {} /\ \A p \in H : p # o => tot[p] = e.db.total[p]
  <2>1. e.db.total \in Partial(Orders, Totals)
    BY <1>1 DEF Env, Columns
  <2> QED
    BY <1>1, <1>2, <2>1, PlusType
<1>4. /\ lines \in Partial(Orders, SUBSET Lines)
      /\ \A p : p \in DOMAIN lines <=> p = o \/ p \in DOMAIN e.cache.lines
      /\ lines[o] = {} /\ \A p \in DOMAIN e.cache.lines : p # o => lines[p] = e.cache.lines[p]
  <2>1. e.cache.lines \in Partial(Orders, SUBSET Lines)
    BY <1>1 DEF Env, Caches
  <2> QED
    BY <1>2, <2>1, PlusType
<1> HIDE DEF tot, lines
<1>5. /\ f \in Env /\ f.tocompute = e.tocompute /\ f.towrite = e.towrite
      /\ f.db.amount = e.db.amount /\ f.db.order = e.db.order /\ f.db.total = tot
      /\ f.cache.amount = e.cache.amount /\ f.cache.order = e.cache.order
      /\ f.cache.lines = lines /\ f.cache.total = e.cache.total /\ f.cache.due = e.cache.due
  BY <1>1, <1>3, <1>4 DEF Env, Columns, Caches
<1> HIDE DEF f
<1>6. LinesAt(R, o) = {} /\ TotalAt(R, o) = {}
  <2>1. \A l \in DOMAIN R : R[l].order # o
    BY <1>1, OrmAssumption, RowIs
  <2>2. LinesAt(R, o) = {}
    BY <2>1 DEF LinesAt
  <2> QED
    BY <2>2 DEF TotalAt
<1>7. R \in RowsOf(K)
  <2>1. Row(H) \subseteq Row(K)
    BY DEF Row
  <2>2. R = [l \in DOMAIN R |-> R[l]] /\ \A l \in DOMAIN R : R[l] \in Row(H)
    BY <1>1, PartialIs DEF RowsOf
  <2> HIDE DEF K
  <2>3. \A l \in DOMAIN R : R[l] \in Row(K)
    BY <2>1, <2>2
  <2> QED
    BY <1>1, <2>2, <2>3, PartialIs DEF RowsOf
<1>8. K \in SUBSET Orders /\ DOMAIN tot = K /\ o \notin H
  BY <1>1, <1>3
<1> HIDE DEF K
<1>9. H \subseteq K /\ o \in K /\ \A p \in K : p \in H \/ p = o
  BY DEF K
<1>10. \A p \in H : Written(f)[p] = Written(e)[p]
  <2> SUFFICES ASSUME NEW p \in H PROVE Written(f)[p] = Written(e)[p]
    OBVIOUS
  <2>1. p # o
    OBVIOUS
  <2>2. CASE p \in DOMAIN e.towrite.total
    BY <1>5, <2>2, WrittenIs
  <2>3. CASE p \notin DOMAIN e.towrite.total
    BY <1>1, <1>3, <1>5, <2>1, <2>3, WrittenIs
  <2> QED
    BY <2>2, <2>3
<1>11. Written(f)[o] = TotalAt(R, o)
  <2>1. o \notin DOMAIN e.towrite.total
    BY <1>1 DEF Stored
  <2> QED
    BY <1>3, <1>5, <1>6, <2>1, WrittenIs
<1>12. Stored(f, R, K)
  <2>1. K = DOMAIN f.db.total /\ DOMAIN f.towrite.total \subseteq K
    BY <1>1, <1>5, <1>8, <1>9 DEF Stored
  <2> QED
    BY <1>1, <1>5, <1>7, <1>8, <2>1 DEF Stored
<1>13. Cached(f.cache, R, K, Written(f))
  BY <1>1, <1>4, <1>5, <1>6, <1>9, <1>10 DEF Cached
<1>14. Computed(f, R, K, {})
  BY <1>1, <1>5, <1>9, <1>10, <1>11 DEF Computed
<1> QED
  BY <1>12, <1>13, <1>14 DEF Shows, f, K, tot, lines

(* create() of an order with the lines it is given.                         *)
LEMMA InsertOrderShows ==
    ASSUME NEW e, NEW R, NEW H, Shows(e, R, H, {}), NEW o \in Orders \ H, NEW ls \in SUBSET DOMAIN R
    PROVE  Shows(InsertOrder(e, o, ls), Put(R, ls, [order |-> o]), H \cup {o}, {})
<1> DEFINE d == [e EXCEPT !.db.total = Plus(@, o, {}), !.cache.lines = Plus(@, o, {})]
           f == Mark(d, {o})
           k == LinkLines(f, o, ls)
           g == Mark(k, {o})
           lines == IF g.cache.lines[o] = {} THEN Without(g.cache.lines, {o}) ELSE g.cache.lines
           h == [g EXCEPT !.cache.lines = lines]
           K == H \cup {o}
           Q == Put(R, ls, [order |-> o])
<1>1. InsertOrder(e, o, ls) = IF ls = {} THEN f ELSE h
  BY DEF InsertOrder, Plus
<1>2. Shows(d, R, K, {})
  BY HeadedShows
<1> HIDE DEF d
<1>3. {o} \in SUBSET K /\ o \in K /\ {} \ {o} = {}
  OBVIOUS
<1> HIDE DEF K
<1>4. Shows(f, R, K, {})
  BY <1>2, <1>3, MarkShows
<1> HIDE DEF f
<1>5. Shows(k, Q, K, {})
  BY <1>3, <1>4, LinkLinesShows
<1>6. R \in RowsOf(K) /\ [order |-> o] \in ValsOf(K)
  BY <1>3, <1>4, OrderVals, ShowsRows
<1> HIDE DEF k
<1>7. ls = {} => Q = R
  BY <1>6, PutIs
<1> HIDE DEF Q
<1>8. Shows(g, Q, K, {})
  BY <1>3, <1>5, MarkShows
<1> HIDE DEF g
<1>9. g \in Env
  BY <1>8 DEF Shows, Stored
<1>10. /\ lines \in Partial(Orders, SUBSET Lines) /\ DOMAIN lines \subseteq DOMAIN g.cache.lines
       /\ \A p \in DOMAIN lines : lines[p] = g.cache.lines[p]
  <2>1. g.cache.lines \in Partial(Orders, SUBSET Lines)
    BY <1>9 DEF Env, Caches
  <2> QED
    BY <2>1, WithoutIs, WithoutType
<1> HIDE DEF lines
<1>11. /\ h \in Env /\ h.db = g.db /\ h.towrite = g.towrite /\ h.tocompute = g.tocompute
       /\ h.cache.amount = g.cache.amount /\ h.cache.order = g.cache.order
       /\ h.cache.lines = lines /\ h.cache.total = g.cache.total /\ h.cache.due = g.cache.due
  BY <1>9, <1>10 DEF Env, Caches
<1> HIDE DEF h
<1>12. Shows(h, Q, K, {})
  BY <1>8, <1>10, <1>11, ForgottenShows
<1> QED
  BY <1>1, <1>4, <1>7, <1>12 DEF Q, K

------------------------------------------------------------------------------
(* Searching                                                                *)

(* What a search looks at is not pending after its flush.                   *)
LEMMA SearchByAmountShows ==
    ASSUME NEW e, NEW R, NEW H, Shows(e, R, H, {})
    PROVE  /\ Shows(SearchByAmount(e), R, H, {}) /\ DOMAIN SearchByAmount(e).towrite.amount = {}
           /\ DOMAIN e.towrite.order = {} => DOMAIN SearchByAmount(e).towrite.order = {}
BY FlushLinesShows, NothingIs DEF SearchByAmount

(* A search by order: the update of the column it reads is flushed.         *)
LEMMA SearchByOrderShows ==
    ASSUME NEW e, NEW R, NEW H, Shows(e, R, H, {})
    PROVE  Shows(SearchByOrder(e), R, H, {}) /\ DOMAIN SearchByOrder(e).towrite.order = {}
BY FlushLinesShows, NothingIs DEF SearchByOrder

(* A search of orders by the amounts of their lines: both columns are.      *)
LEMMA SearchByLinesShows ==
    ASSUME NEW e, NEW R, NEW H, Shows(e, R, H, {})
    PROVE  /\ Shows(SearchByLines(e), R, H, {})
           /\ DOMAIN SearchByLines(e).towrite.amount = {} /\ DOMAIN SearchByLines(e).towrite.order = {}
<1> DEFINE f == SearchByOrder(e)
<1>1. SearchByLines(e) = SearchByAmount(f)
  BY DEF SearchByLines
<1>2. Shows(f, R, H, {}) /\ DOMAIN f.towrite.order = {}
  BY SearchByOrderShows
<1> HIDE DEF f
<1> QED
  BY <1>1, <1>2, SearchByAmountShows

(* A column that is not pending is in the database as reading gives it.     *)
LEMMA SearchFinds ==
    ASSUME NEW e, NEW R, NEW H, Shows(e, R, H, {}), NEW l \in DOMAIN R
    PROVE  /\ DOMAIN e.towrite.amount = {} => e.db.amount[l] = R[l].amount
           /\ DOMAIN e.towrite.order = {} => e.db.order[l] = R[l].order
BY NotPending DEF Shows

(* A search on totals computes and flushes those that wait.                 *)
LEMMA SearchByTotalShows ==
    ASSUME NEW e, NEW R, NEW H, Shows(e, R, H, {})
    PROVE  /\ Shows(SearchByTotal(e), R, H, {})
           /\ \A o \in H : SearchByTotal(e).db.total[o] = TotalAt(R, o)
<1> DEFINE f == ComputeTotals(e, e.tocompute)
           g == IF DOMAIN f.towrite.total # {} THEN FlushTotals(f) ELSE f
<1>1. SearchByTotal(e) = g
  BY DEF SearchByTotal
<1>2. Shows(f, R, H, {}) /\ f.tocompute = {}
  BY ComputeTotalsShows
<1> HIDE DEF f
<1>3. Shows(g, R, H, {}) /\ g.tocompute = {} /\ DOMAIN g.towrite.total = {}
  BY <1>2, FlushTotalsShows, NothingIs
<1> HIDE DEF g
<1>4. H = DOMAIN g.db.total /\ \A o \in H : Written(g)[o] = TotalAt(R, o)
  BY <1>3 DEF Shows, Stored, Computed
<1>5. \A o \in H : Written(g)[o] = g.db.total[o]
  BY <1>3, <1>4, WrittenIs
<1> QED
  BY <1>1, <1>3, <1>4, <1>5

------------------------------------------------------------------------------
(* The system                                                               *)

(* An environment shows one set of rows.                                    *)
LEMMA RowsAre ==
    ASSUME NEW e, NEW R, NEW H, NEW X, Shows(e, R, H, X)
    PROVE  Rows(e.db, e.towrite) = R /\ DOMAIN e.db.total = H
<1> DEFINE am == e.towrite.amount ++ e.db.amount
           or == e.towrite.order ++ e.db.order
<1>1. /\ R \in RowsOf(H) /\ DOMAIN R = DOMAIN e.db.amount /\ DOMAIN e.db.total = H
      /\ \A l \in DOMAIN R : R[l].amount = am[l] /\ R[l].order = or[l]
  BY DEF Shows, Stored
<1>2. Rows(e.db, e.towrite) = [l \in DOMAIN R |-> [amount |-> am[l], order |-> or[l]]]
  BY <1>1 DEF Rows
<1> HIDE DEF am, or
<1>3. \A l \in DOMAIN R : R[l] \in Row(H)
  BY <1>1, PartialIs DEF RowsOf
<1>4. \A l \in DOMAIN R : R[l] = [amount |-> am[l], order |-> or[l]]
  BY <1>1, <1>3 DEF Row
<1>5. R = [l \in DOMAIN R |-> R[l]]
  BY <1>1, PartialIs DEF RowsOf
<1> QED
  BY <1>1, <1>2, <1>4, <1>5

(* A cleared environment.                                                   *)
LEMMA ClearIs ==
    ASSUME NEW db \in Columns
    PROVE  /\ Clear(db) \in Env /\ Clear(db).db = db /\ Clear(db).cache = NoCache
           /\ Clear(db).towrite = NoWrites /\ Clear(db).tocompute = {}
<1>1. NoWrites \in Columns
  BY NothingIs DEF NoWrites, Columns
<1> QED
  BY <1>1, NoCacheIs DEF Clear, Env

(* A database that a flush leaves can be begun with.                        *)
LEMMA SettledClear ==
    ASSUME NEW e, NEW R, NEW H, Settled(e, R, H)
    PROVE  /\ e.db \in Columns /\ Shows(Clear(e.db), R, H, {})
           /\ Rows(e.db, NoWrites) = R /\ DOMAIN e.db.total = H
<1>1. /\ e \in Env /\ Shows(e, R, H, {}) /\ e.towrite = NoWrites /\ e.tocompute = {}
  BY DEF Settled, Shows, Stored
<1>2. e.db \in Columns
  BY <1>1 DEF Env
<1>3. [e EXCEPT !.cache = NoCache] = Clear(e.db)
  BY <1>1 DEF Env, Clear
<1>4. Shows(Clear(e.db), R, H, {})
  BY <1>1, <1>3, EmptiedShows
<1> QED
  BY <1>1, <1>2, <1>4, RowsAre

(* What the rows are, whatever is behind them.                              *)
LEMMA Became ==
    ASSUME NEW R, NEW H, Shows(env', R, H, {}), IInv, saved' = saved, writes' \in 0 .. MaxWork
    PROVE  IInv' /\ rows' = R /\ heads' = H /\ kept' = kept
<1>1. rows' = R /\ heads' = H
  BY RowsAre DEF rows, heads, Open
<1>2. Shows(env, rows, heads, {})'
  BY <1>1
<1>3. (saved # None => Shows(Clear(saved), Rows(saved, NoWrites), DOMAIN saved.total, {}))'
  BY DEF IInv
<1>4. env' \in Env /\ env'.tocompute \subseteq DOMAIN env'.db.total
  BY DEF Shows, Stored, Computed
<1>5. TypeOK'
  BY <1>4 DEF IInv, TypeOK
<1> QED
  BY <1>1, <1>2, <1>3, <1>5 DEF IInv, kept

(* The part of the abstract specification that a call takes.                *)
AVars == <<rows, heads, kept>>
Refines == IInv' /\ [Abstract!Next]_AVars

(* A call that writes nothing shows the same rows.                          *)
LEMMA Quiet ==
    ASSUME Shows(env', rows, heads, {}), IInv, UNCHANGED <<saved, writes>>
    PROVE  Refines
<1>1. writes' \in 0 .. MaxWork
  BY DEF IInv, TypeOK
<1> QED
  BY <1>1, Became DEF Refines, AVars

(* The bound on the calls of a transaction.                                 *)
LEMMA Within ==
    ASSUME IInv, Room
    PROVE  writes' \in 0 .. MaxWork
<1>1. Existing \subseteq Lines /\ writes \in 0 .. MaxWork
  <2>1. env.db.amount \in Partial(Lines, Amounts)
    BY DEF IInv, TypeOK, Env, Columns
  <2> QED
    BY <2>1, PartialIs DEF Existing, IInv, TypeOK
<1>2. Cardinality(Existing) \in Nat
  BY <1>1, OrmAssumption, FS_Subset, FS_CardinalityType
<1> QED
  BY <1>1, <1>2, OrmAssumption DEF Room

(* What the actions need of the invariant.                                  *)
LEMMA IInvIs ==
    ASSUME IInv
    PROVE  /\ Shows(env, rows, heads, {}) /\ rows \in RowsOf(heads) /\ heads \subseteq Orders
           /\ Existing = DOMAIN rows /\ Open = heads
BY DEF IInv, Shows, Stored, Existing, heads

(* Reads, searches, invalidations and flushes change no row.                *)
LEMMA ReadRefines ==
    ASSUME IInv, Read
    PROVE  Refines
<1>1. /\ Shows(env, rows, heads, {}) /\ Existing = DOMAIN rows /\ Open = heads
  BY IInvIs
<1>2. CASE \E ls \in SUBSET Existing : Becomes(FetchAmounts(env, ls)) \/ Becomes(FetchOrders(env, ls))
  <2>1. PICK ls \in SUBSET DOMAIN rows : Becomes(FetchAmounts(env, ls)) \/ Becomes(FetchOrders(env, ls))
    BY <1>1, <1>2
  <2>2. Shows(env', rows, heads, {})
    BY <1>1, <2>1, FetchAmountsShows, FetchOrdersShows DEF Becomes
  <2> QED
    BY <2>1, <2>2, Quiet DEF Becomes
<1>3. CASE \E os \in SUBSET Open : \/ Becomes(FetchLines(env, os))
                                   \/ Becomes(FetchTotals(env, os))
                                   \/ Becomes(FetchDues(env, os))
  <2>1. PICK os \in SUBSET heads : \/ Becomes(FetchLines(env, os))
                                   \/ Becomes(FetchTotals(env, os))
                                   \/ Becomes(FetchDues(env, os))
    BY <1>1, <1>3
  <2>2. Shows(env', rows, heads, {})
    BY <1>1, <2>1, FetchLinesShows, FetchTotalsShows, FetchDuesShows DEF Becomes
  <2> QED
    BY <2>1, <2>2, Quiet DEF Becomes
<1> QED
  BY <1>2, <1>3 DEF Read

(* A search is a step that changes no row.                                  *)
LEMMA SearchRefines ==
    ASSUME IInv, Search
    PROVE  Refines
<1>1. Shows(env, rows, heads, {})
  BY IInvIs
<1>2. Shows(env', rows, heads, {})
  BY <1>1, SearchByAmountShows, SearchByOrderShows, SearchByLinesShows, SearchByTotalShows
  DEF Search, Becomes
<1> QED
  BY <1>2, Quiet DEF Search, Becomes

(* An invalidation is a step that changes no row.                           *)
LEMMA InvalidateRefines ==
    ASSUME IInv, Invalidate
    PROVE  Refines
<1>1. Shows(env, rows, heads, {}) /\ env \in Env
  BY IInvIs DEF Shows, Stored
<1>2. ASSUME NEW ls, Becomes([env EXCEPT !.cache.amount = Without(@, ls), !.cache.order = Without(@, ls),
                                         !.cache.lines = Nothing])
      PROVE  Refines
  <2> DEFINE am == Without(env.cache.amount, ls)
             or == Without(env.cache.order, ls)
             f == [env EXCEPT !.cache.amount = am, !.cache.order = or, !.cache.lines = Nothing]
  <2>1. /\ am \in Partial(Lines, Amounts) /\ or \in Partial(Lines, Orders \cup {None})
        /\ Nothing \in Partial(Orders, SUBSET Lines)
    BY <1>1, NothingIs, WithoutType DEF Env, Caches
  <2>2. /\ DOMAIN am \subseteq DOMAIN env.cache.amount /\ DOMAIN or \subseteq DOMAIN env.cache.order
        /\ \A l \in DOMAIN am : am[l] = env.cache.amount[l]
        /\ \A l \in DOMAIN or : or[l] = env.cache.order[l]
    BY WithoutIs
  <2> HIDE DEF am, or
  <2>3. /\ f \in Env /\ f.db = env.db /\ f.towrite = env.towrite /\ f.tocompute = env.tocompute
        /\ f.cache.amount = am /\ f.cache.order = or /\ f.cache.lines = Nothing
        /\ f.cache.total = env.cache.total /\ f.cache.due = env.cache.due
    BY <1>1, <2>1 DEF Env, Caches
  <2> HIDE DEF f
  <2>4. Shows(f, rows, heads, {})
    BY <1>1, <2>2, <2>3, NothingIs, ForgottenShows
  <2> QED
    BY <1>2, <2>4, Quiet DEF Becomes, f, am, or
<1>3. ASSUME NEW os, Becomes([env EXCEPT !.cache.lines = Without(@, os), !.cache.total = Without(@, os),
                                         !.cache.due = Without(@, os), !.cache.order = Nothing])
      PROVE  Refines
  <2> DEFINE li == Without(env.cache.lines, os)
             to == Without(env.cache.total, os)
             du == Without(env.cache.due, os)
             f == [env EXCEPT !.cache.lines = li, !.cache.total = to, !.cache.due = du, !.cache.order = Nothing]
  <2>1. /\ li \in Partial(Orders, SUBSET Lines) /\ to \in Partial(Orders, Totals)
        /\ du \in Partial(Orders, Totals) /\ Nothing \in Partial(Lines, Orders \cup {None})
    BY <1>1, NothingIs, WithoutType DEF Env, Caches
  <2>2. /\ DOMAIN li \subseteq DOMAIN env.cache.lines /\ DOMAIN to \subseteq DOMAIN env.cache.total
        /\ DOMAIN du \subseteq DOMAIN env.cache.due
        /\ \A o \in DOMAIN li : li[o] = env.cache.lines[o]
        /\ \A o \in DOMAIN to : to[o] = env.cache.total[o]
        /\ \A o \in DOMAIN du : du[o] = env.cache.due[o]
    BY WithoutIs
  <2> HIDE DEF li, to, du
  <2>3. /\ f \in Env /\ f.db = env.db /\ f.towrite = env.towrite /\ f.tocompute = env.tocompute
        /\ f.cache.amount = env.cache.amount /\ f.cache.order = Nothing /\ f.cache.lines = li
        /\ f.cache.total = to /\ f.cache.due = du
    BY <1>1, <2>1 DEF Env, Caches
  <2> HIDE DEF f
  <2>4. Shows(f, rows, heads, {})
    BY <1>1, <2>2, <2>3, NothingIs, ForgottenShows
  <2> QED
    BY <1>3, <2>4, Quiet DEF Becomes, f, li, to, du
<1>4. ASSUME Becomes([env EXCEPT !.cache = NoCache])
      PROVE  Refines
  BY <1>1, <1>4, EmptiedShows, Quiet DEF Becomes
<1> QED
  BY <1>2, <1>3, <1>4 DEF Invalidate

(* A flush is a step that changes no row.                                   *)
LEMMA FlushRefines ==
    ASSUME IInv, Flush
    PROVE  Refines
<1>1. Shows(env', rows, heads, {})
  BY IInvIs, FlushAllSettles DEF Settled, Flush, Becomes
<1> QED
  BY <1>1, Quiet DEF Flush, Becomes

(* Nor does a commit, whose flush leaves nothing to lose.                   *)
LEMMA CommitRefines ==
    ASSUME IInv, Commit
    PROVE  Refines
<1>1. Shows(env', rows, heads, {})
  BY IInvIs, FlushAllSettles, SettledClear DEF Commit
<1>2. saved' = saved /\ writes' \in 0 .. MaxWork
  BY OrmAssumption DEF Commit
<1> QED
  BY <1>1, <1>2, Became DEF Refines, AVars

(* A write of the order alone.                                              *)
LEMMA PutOrderIs ==
    ASSUME NEW H, NEW R \in RowsOf(H), NEW ls, NEW o \in H \cup {None}
    PROVE  Put(R, ls, [order |-> o]) = WithOrder(R, ls, o)
<1>1. ASSUME NEW l \in DOMAIN R
      PROVE  (IF l \in ls THEN Abstract!Updated(R[l], [order |-> o]) ELSE R[l])
                = [amount |-> R[l].amount, order |-> IF l \in ls THEN o ELSE R[l].order]
  <2>1. R[l] \in Row(H)
    BY PartialIs DEF RowsOf
  <2>2. Abstract!Updated(R[l], [order |-> o]) = [amount |-> R[l].amount, order |-> o]
    BY <2>1 DEF Abstract!Updated, Row
  <2> QED
    BY <2>1, <2>2 DEF Row
<1> QED
  BY <1>1 DEF Put, WithOrder

(* A call that writes turns the rows and the orders into R and H.           *)
LEMMA Wrote ==
    ASSUME IInv, Room, saved' = saved, NEW R, NEW H, Shows(env', R, H, {}),
           rows' = R /\ heads' = H => Abstract!Add \/ Abstract!Change \/ Abstract!Remove
                                         \/ Abstract!Assign \/ Abstract!Open \/ Abstract!Drop
    PROVE  Refines
<1>1. writes' \in 0 .. MaxWork
  BY Within
<1>2. IInv' /\ rows' = R /\ heads' = H /\ kept' = kept
  BY <1>1, Became
<1> QED
  BY <1>2 DEF Refines, AVars, Abstract!Next

(* The calls that write, each with the abstract step it takes.              *)
LEMMA CreateLineRefines ==
    ASSUME IInv, CreateLine
    PROVE  Refines
<1>1. Shows(env, rows, heads, {}) /\ Existing = DOMAIN rows /\ Open = heads
  BY IInvIs
<1>2. PICK l \in Lines \ DOMAIN rows, a \in Amounts, o \in heads \cup {None} :
         Writes(InsertLine(env, l, a, o))
  BY <1>1 DEF CreateLine
<1> DEFINE Q == Added(rows, l, [amount |-> a, order |-> o])
<1>3. Shows(env', Q, heads, {})
  BY <1>1, <1>2, InsertLineShows DEF Writes
<1>4. rows' = Q /\ heads' = heads => Abstract!Add
  BY DEF Abstract!Add, Added
<1> QED
  BY <1>2, <1>3, <1>4, Wrote DEF Writes

(* write() on a line is the write of the abstract rows.                     *)
LEMMA WriteLineRefines ==
    ASSUME IInv, WriteLine
    PROVE  Refines
<1>1. Shows(env, rows, heads, {}) /\ Existing = DOMAIN rows /\ Open = heads
  BY IInvIs
<1>2. Vals = ValsOf(heads) /\ Abstract!Vals = ValsOf(heads)
  BY <1>1 DEF Vals, Abstract!Vals, ValsOf
<1>3. PICK ls \in SUBSET DOMAIN rows, vals \in ValsOf(heads) : Writes(WriteLines(env, ls, vals))
  BY <1>1, <1>2 DEF WriteLine
<1>4. Shows(env', Put(rows, ls, vals), heads, {})
  BY <1>1, <1>3, WriteLinesShows DEF Writes
<1>5. rows' = Put(rows, ls, vals) /\ heads' = heads => Abstract!Change
  BY <1>2 DEF Abstract!Change, Abstract!Written, Put
<1> QED
  BY <1>3, <1>4, <1>5, Wrote DEF Writes

(* unlink() takes the line away.                                            *)
LEMMA UnlinkLineRefines ==
    ASSUME IInv, UnlinkLine
    PROVE  Refines
<1>1. Shows(env, rows, heads, {}) /\ Existing = DOMAIN rows
  BY IInvIs
<1>2. PICK ls \in SUBSET DOMAIN rows : Writes(UnlinkLines(env, ls))
  BY <1>1 DEF UnlinkLine
<1>3. Shows(env', Removed(rows, ls), heads, {})
  BY <1>1, <1>2, UnlinkLinesShows DEF Writes, Settled
<1>4. rows' = Removed(rows, ls) /\ heads' = heads => Abstract!Remove
  BY DEF Abstract!Remove, Removed
<1> QED
  BY <1>2, <1>3, <1>4, Wrote DEF Writes

(* create() of an order adds it, with the lines it is given.                *)
LEMMA CreateOrderRefines ==
    ASSUME IInv, CreateOrder
    PROVE  Refines
<1>1. Shows(env, rows, heads, {}) /\ Existing = DOMAIN rows /\ Open = heads
  BY IInvIs
<1>2. PICK o \in Orders \ heads, ls \in SUBSET DOMAIN rows : Writes(InsertOrder(env, o, ls))
  BY <1>1 DEF CreateOrder
<1>3. Shows(env', Put(rows, ls, [order |-> o]), heads \cup {o}, {})
  BY <1>1, <1>2, InsertOrderShows DEF Writes
<1>4. rows' = Put(rows, ls, [order |-> o]) /\ heads' = heads \cup {o} => Abstract!Open
  BY DEF Abstract!Open, Abstract!Written, Put
<1> QED
  BY <1>2, <1>3, <1>4, Wrote DEF Writes

(* unlink() of an order leaves its lines without one.                       *)
LEMMA DeleteOrderRefines ==
    ASSUME IInv, DeleteOrder
    PROVE  Refines
<1>1. Shows(env, rows, heads, {}) /\ Open = heads /\ rows \in RowsOf(heads)
  BY IInvIs
<1>2. PICK o \in heads : Writes(UnlinkOrder(env, o))
  BY <1>1 DEF DeleteOrder
<1> DEFINE ls == LinesAt(rows, o)
<1>3. Put(rows, ls, [order |-> None]) = WithOrder(rows, ls, None)
  BY <1>1, PutOrderIs
<1>4. Shows(env', WithOrder(rows, ls, None), heads \ {o}, {})
  BY <1>1, <1>2, UnlinkOrderShows DEF Writes, Settled
<1>5. rows' = WithOrder(rows, ls, None) /\ heads' = heads \ {o} => Abstract!Drop
  BY <1>3 DEF Abstract!Drop, Abstract!Written, Put, LinesAt
<1> QED
  BY <1>2, <1>4, <1>5, Wrote DEF Writes

(* Command 6: the lines of o become ls.                                     *)
LEMMA ReplacedIs ==
    ASSUME NEW H, NEW R \in RowsOf(H), NEW o \in H, NEW ls \in SUBSET DOMAIN R
    PROVE  Put(Put(R, LinesAt(R, o) \ ls, [order |-> None]), ls, [order |-> o]) =
              [l \in DOMAIN R |-> IF l \in ls THEN [R[l] EXCEPT !.order = o]
                                  ELSE IF R[l].order = o THEN [R[l] EXCEPT !.order = None]
                                  ELSE R[l]]
<1> DEFINE out == LinesAt(R, o) \ ls
           P == Put(R, out, [order |-> None])
<1>1. /\ P = WithOrder(R, out, None) /\ P \in RowsOf(H)
  BY OrderVals, PutIs, PutOrderIs
<1> HIDE DEF P, out
<1>2. Put(P, ls, [order |-> o]) = WithOrder(P, ls, o)
  BY <1>1, PutOrderIs
<1>3. /\ DOMAIN P = DOMAIN R
      /\ \A l \in DOMAIN R : P[l].amount = R[l].amount /\ P[l].order = IF l \in out THEN None ELSE R[l].order
  BY <1>1, WithOrderIs
<1>4. ASSUME NEW l \in DOMAIN R
      PROVE  [amount |-> P[l].amount, order |-> IF l \in ls THEN o ELSE P[l].order] =
                IF l \in ls THEN [R[l] EXCEPT !.order = o]
                ELSE IF R[l].order = o THEN [R[l] EXCEPT !.order = None] ELSE R[l]
  <2>1. R[l] \in Row(H)
    BY PartialIs DEF RowsOf
  <2>2. l \in out <=> R[l].order = o /\ l \notin ls
    BY DEF out, LinesAt
  <2> QED
    BY <1>3, <2>1, <2>2 DEF Row
<1> QED
  BY <1>2, <1>3, <1>4 DEF WithOrder, P, out

(* write() of the lines of an order: marks around it change no row.         *)
LEMMA WriteOrderLinesRefines ==
    ASSUME IInv, WriteOrderLines
    PROVE  Refines
<1>1. /\ Shows(env, rows, heads, {}) /\ Existing = DOMAIN rows /\ Open = heads
      /\ rows \in RowsOf(heads)
  BY IInvIs
<1>2. PICK o \in heads, ls \in SUBSET DOMAIN rows :
         \/ Writes(Mark(LinkLines(Mark(env, {o}), o, ls), {o}))
         \/ Writes(Mark(WriteLines(Mark(env, {o}), ls, [order |-> None]), {o}))
         \/ Writes(Mark(ReplaceLines(Mark(env, {o}), o, ls), {o}))
  BY <1>1 DEF WriteOrderLines
<1> DEFINE e == Mark(env, {o})
<1>3. {o} \in SUBSET heads /\ {} \ {o} = {}
  OBVIOUS
<1>4. Shows(e, rows, heads, {})
  BY <1>1, <1>3, MarkShows
<1> HIDE DEF e
<1>5. ASSUME NEW f, NEW Q, Shows(f, Q, heads, {}) PROVE Shows(Mark(f, {o}), Q, heads, {})
  BY <1>3, <1>5, MarkShows
<1>6. Room /\ saved' = saved
  BY <1>2 DEF Writes
<1>7. /\ [order |-> o] \in ValsOf(heads) /\ [order |-> None] \in ValsOf(heads)
      /\ Abstract!Vals = ValsOf(heads)
  BY OrderVals DEF Abstract!Vals, ValsOf
<1>8. CASE Writes(Mark(LinkLines(Mark(env, {o}), o, ls), {o}))
  <2>1. Shows(env', Put(rows, ls, [order |-> o]), heads, {})
    BY <1>4, <1>5, <1>8, LinkLinesShows DEF Writes, e
  <2>2. rows' = Put(rows, ls, [order |-> o]) /\ heads' = heads => Abstract!Change
    BY <1>7 DEF Abstract!Change, Abstract!Written, Put
  <2> QED
    BY <1>6, <2>1, <2>2, Wrote
<1>9. CASE Writes(Mark(WriteLines(Mark(env, {o}), ls, [order |-> None]), {o}))
  <2>1. Shows(env', Put(rows, ls, [order |-> None]), heads, {})
    BY <1>4, <1>5, <1>7, <1>9, WriteLinesShows DEF Writes, e
  <2>2. rows' = Put(rows, ls, [order |-> None]) /\ heads' = heads => Abstract!Change
    BY <1>7 DEF Abstract!Change, Abstract!Written, Put
  <2> QED
    BY <1>6, <2>1, <2>2, Wrote
<1>10. CASE Writes(Mark(ReplaceLines(Mark(env, {o}), o, ls), {o}))
  <2> DEFINE Q == Put(Put(rows, LinesAt(rows, o) \ ls, [order |-> None]), ls, [order |-> o])
  <2>1. Shows(env', Q, heads, {})
    BY <1>4, <1>5, <1>10, ReplaceLinesShows DEF Writes, e
  <2>2. rows' = Q /\ heads' = heads => Abstract!Assign
    BY <1>1, ReplacedIs DEF Abstract!Assign
  <2> QED
    BY <1>6, <2>1, <2>2, Wrote
<1> QED
  BY <1>2, <1>8, <1>9, <1>10

(* A savepoint keeps a database with nothing pending.                       *)
LEMMA SavepointRefines ==
    ASSUME IInv, Savepoint
    PROVE  Refines
<1> DEFINE f == FlushAll(env)
<1>1. env' = f /\ saved' = f.db /\ saved = None /\ Room
  BY DEF Savepoint
<1>2. Settled(f, rows, heads)
  BY IInvIs, FlushAllSettles
<1> HIDE DEF f
<1>3. /\ f.db \in Columns /\ Shows(Clear(f.db), rows, heads, {})
      /\ Rows(f.db, NoWrites) = rows /\ DOMAIN f.db.total = heads
  BY <1>2, SettledClear
<1>4. Shows(f, rows, heads, {})
  BY <1>2 DEF Settled
<1>5. rows' = rows /\ heads' = heads
  BY <1>1, <1>4, RowsAre DEF rows, heads, Open
<1>6. saved' # None /\ kept = << >> /\ kept' = <<rows, heads>>
  BY <1>1, <1>3, OrmAssumption DEF kept
<1>7. TypeOK'
  <2>1. writes' \in 0 .. MaxWork
    BY <1>1, Within
  <2>2. env' \in Env /\ env'.tocompute \subseteq DOMAIN env'.db.total
    BY <1>1, <1>4 DEF Shows, Stored, Computed
  <2> QED
    BY <1>1, <1>3, <2>1, <2>2 DEF TypeOK
<1>8. IInv'
  BY <1>1, <1>3, <1>4, <1>5, <1>7 DEF IInv
<1>9. Abstract!Keep
  BY <1>5, <1>6 DEF Abstract!Keep
<1> QED
  BY <1>8, <1>9 DEF Refines, Abstract!Next

(* The end of a savepoint forgets the rows it kept.                         *)
LEMMA ReleaseRefines ==
    ASSUME IInv, Release
    PROVE  Refines
<1> DEFINE f == FlushAll(env)
<1>1. env' = f /\ saved' = None /\ saved # None /\ writes' = writes
  BY DEF Release
<1>2. Shows(f, rows, heads, {})
  BY IInvIs, FlushAllSettles DEF Settled
<1> HIDE DEF f
<1>3. rows' = rows /\ heads' = heads
  BY <1>1, <1>2, RowsAre DEF rows, heads, Open
<1>4. kept # << >> /\ kept' = << >>
  BY <1>1 DEF kept
<1>5. TypeOK'
  BY <1>1, <1>2 DEF IInv, TypeOK, Shows, Stored, Computed
<1>6. IInv'
  BY <1>1, <1>2, <1>3, <1>5 DEF IInv
<1>7. Abstract!Release
  BY <1>3, <1>4 DEF Abstract!Release
<1> QED
  BY <1>6, <1>7 DEF Refines, Abstract!Next

(* A failure gives back what the savepoint kept: cache and pending updates  *)
(* of what failed are gone with its rows.                                   *)
LEMMA FailRefines ==
    ASSUME IInv, Fail
    PROVE  Refines
<1> DEFINE R == Rows(saved, NoWrites)
           H == DOMAIN saved.total
<1>1. env' = Clear(saved) /\ saved' = None /\ saved # None /\ writes' = writes
  BY DEF Fail
<1>2. Shows(Clear(saved), R, H, {})
  BY <1>1 DEF IInv
<1>3. kept = <<R, H>> /\ kept # << >> /\ kept' = << >>
  BY <1>1 DEF kept
<1> HIDE DEF R, H
<1>4. rows' = R /\ heads' = H
  BY <1>1, <1>2, RowsAre DEF rows, heads, Open
<1>5. TypeOK'
  BY <1>1, <1>2 DEF IInv, TypeOK, Shows, Stored, Computed
<1>6. IInv'
  BY <1>1, <1>2, <1>4, <1>5 DEF IInv
<1>7. Abstract!Return
  BY <1>3, <1>4 DEF Abstract!Return
<1> QED
  BY <1>6, <1>7 DEF Refines, Abstract!Next

(* Every step.                                                              *)
LEMMA StepRefines == IInv /\ [Next]_vars => Refines
<1> SUFFICES ASSUME IInv, [Next]_vars PROVE Refines
  OBVIOUS
<1>1. CASE UNCHANGED vars
  BY <1>1, IInvIs, Quiet DEF vars
<1> QED
  BY <1>1, ReadRefines, SearchRefines, InvalidateRefines, FlushRefines, CommitRefines,
     CreateLineRefines, WriteLineRefines, UnlinkLineRefines, CreateOrderRefines, DeleteOrderRefines,
     WriteOrderLinesRefines, SavepointRefines, ReleaseRefines, FailRefines DEF Next

(* A transaction begins with nothing pending.                               *)
LEMMA InitRefines == Init => IInv /\ Abstract!Fresh
<1> SUFFICES ASSUME Init PROVE IInv /\ Abstract!Fresh
  OBVIOUS
<1>1. PICK ls \in SUBSET Lines, os \in SUBSET Orders :
         \E amount \in [ls -> Amounts], order \in [ls -> os \cup {None}] :
            env = Clear([amount |-> amount, order |-> order,
                         total |-> [o \in os |-> {<<l, amount[l]>> : l \in {k \in ls : order[k] = o}}]])
  BY DEF Init
<1>2. PICK amount \in [ls -> Amounts], order \in [ls -> os \cup {None}] :
         env = Clear([amount |-> amount, order |-> order,
                      total |-> [o \in os |-> {<<l, amount[l]>> : l \in {k \in ls : order[k] = o}}]])
  BY <1>1
<1> DEFINE total == [o \in os |-> {<<l, amount[l]>> : l \in {k \in ls : order[k] = o}}]
           R == [l \in ls |-> [amount |-> amount[l], order |-> order[l]]]
           db == [amount |-> amount, order |-> order, total |-> total]
<1>3. /\ DOMAIN R = ls /\ R \in RowsOf(os)
      /\ \A l \in ls : R[l].amount = amount[l] /\ R[l].order = order[l]
  <2>1. /\ DOMAIN R = ls /\ R = [l \in DOMAIN R |-> R[l]]
        /\ \A l \in ls : R[l] = [amount |-> amount[l], order |-> order[l]]
    OBVIOUS
  <2> HIDE DEF R
  <2>2. \A l \in DOMAIN R : R[l] \in Row(os)
    BY <2>1 DEF Row
  <2> QED
    BY <2>1, <2>2, PartialIs DEF RowsOf
<1> HIDE DEF R
<1>4. DOMAIN total = os /\ total = [o \in DOMAIN total |-> total[o]] /\ \A o \in os : total[o] = TotalAt(R, o)
  <2>1. \A o \in os : {k \in ls : order[k] = o} = LinesAt(R, o)
    BY <1>3 DEF LinesAt
  <2>2. \A o \in os : {<<l, amount[l]>> : l \in LinesAt(R, o)} = TotalAt(R, o)
    BY <1>3 DEF TotalAt, LinesAt
  <2> QED
    BY <2>1, <2>2
<1> HIDE DEF total
<1>5. db \in Columns
  <2>1. amount \in Partial(Lines, Amounts) /\ order \in Partial(Lines, Orders \cup {None})
    BY PartialIs
  <2>2. total \in Partial(Orders, Totals)
    BY <1>3, <1>4, PartialIs, TotalIs
  <2> QED
    BY <2>1, <2>2 DEF Columns
<1>6. /\ env \in Env /\ env.db = db /\ env.cache = NoCache /\ env.towrite = NoWrites /\ env.tocompute = {}
  BY <1>2, <1>5, ClearIs DEF total
<1>7. env.db.amount = amount /\ env.db.order = order /\ env.db.total = total
  BY <1>6
<1> HIDE DEF db
<1>8. \A x : x \notin DOMAIN env.towrite.amount /\ x \notin DOMAIN env.towrite.order
                /\ x \notin DOMAIN env.towrite.total
  BY <1>6, NothingIs DEF NoWrites
<1>9. \A o \in os : Written(env)[o] = TotalAt(R, o)
  BY <1>4, <1>7, <1>8, WrittenIs
<1>10. Stored(env, R, os)
  <2>1. \A l \in DOMAIN R : /\ R[l].amount = (env.towrite.amount ++ env.db.amount)[l]
                            /\ R[l].order = (env.towrite.order ++ env.db.order)[l]
    BY <1>3, <1>7, <1>8, OverIs
  <2> QED
    BY <1>3, <1>4, <1>6, <1>7, <1>8, <2>1 DEF Stored
<1>11. Cached(env.cache, R, os, Written(env)) /\ Computed(env, R, os, {})
  BY <1>6, <1>9, NoCacheIs DEF Cached, Computed
<1>12. Shows(env, R, os, {})
  BY <1>10, <1>11 DEF Shows
<1>13. rows = R /\ heads = os
  BY <1>12, RowsAre DEF rows, heads, Open
<1>14. saved = None /\ writes = 0
  BY DEF Init
<1>15. IInv
  BY <1>6, <1>12, <1>13, <1>14, OrmAssumption DEF IInv, TypeOK, Shows, Stored, Computed
<1>16. Abstract!Fresh
  <2>1. R \in [ls -> [amount : Amounts, order : os \cup {None}]]
    <3>1. R = [l \in DOMAIN R |-> R[l]] /\ \A l \in DOMAIN R : R[l] \in Row(os)
      BY <1>3, PartialIs DEF RowsOf
    <3> QED
      BY <1>3, <3>1 DEF Row
  <2> QED
    BY <1>13, <1>14, <2>1 DEF Abstract!Fresh, kept
<1> QED
  BY <1>15, <1>16

(* What a reader sees follows from the invariant.                           *)
LEMMA ReaderSees == IInv => ReadsAreRight /\ SearchesAreRight /\ FlushSettles
<1> SUFFICES ASSUME IInv PROVE ReadsAreRight /\ SearchesAreRight /\ FlushSettles
  OBVIOUS
<1>1. /\ Shows(env, rows, heads, {}) /\ Existing = DOMAIN rows /\ Open = heads
  BY IInvIs
<1>2. \A o : LinesOf(o) = LinesAt(rows, o) /\ Total(o) = TotalAt(rows, o)
  BY <1>1 DEF LinesOf, Total, LinesAt, TotalAt
<1>3. ReadsAreRight
  <2>1. ASSUME NEW l \in DOMAIN rows
        PROVE  /\ FetchAmounts(env, {l}).cache.amount[l] = rows[l].amount
               /\ FetchOrders(env, {l}).cache.order[l] = rows[l].order
    <3>1. {l} \in SUBSET DOMAIN rows
      OBVIOUS
    <3>2. /\ Shows(FetchAmounts(env, {l}), rows, heads, {}) /\ {l} \subseteq DOMAIN FetchAmounts(env, {l}).cache.amount
          /\ Shows(FetchOrders(env, {l}), rows, heads, {}) /\ {l} \subseteq DOMAIN FetchOrders(env, {l}).cache.order
      BY <1>1, <3>1, FetchAmountsShows, FetchOrdersShows
    <3> QED
      BY <3>2 DEF Shows, Cached
  <2>2. ASSUME NEW o \in heads
        PROVE  /\ FetchLines(env, {o}).cache.lines[o] = LinesAt(rows, o)
               /\ FetchTotals(env, {o}).cache.total[o] = TotalAt(rows, o)
               /\ FetchDues(env, {o}).cache.due[o] = TotalAt(rows, o)
    <3>1. {o} \in SUBSET heads
      OBVIOUS
    <3>2. /\ Shows(FetchLines(env, {o}), rows, heads, {}) /\ {o} \subseteq DOMAIN FetchLines(env, {o}).cache.lines
          /\ \A p \in {o} : FetchTotals(env, {o}).cache.total[p] = TotalAt(rows, p)
          /\ \A p \in {o} : FetchDues(env, {o}).cache.due[p] = TotalAt(rows, p)
      BY <1>1, <3>1, FetchLinesShows, FetchTotalsShows, FetchDuesShows
    <3> QED
      BY <3>2 DEF Shows, Cached
  <2> QED
    BY <1>1, <1>2, <2>1, <2>2 DEF ReadsAreRight
<1>4. SearchesAreRight
  <2>1. ASSUME NEW l \in DOMAIN rows PROVE SearchByAmount(env).db.amount[l] = rows[l].amount
    <3>1. Shows(SearchByAmount(env), rows, heads, {}) /\ DOMAIN SearchByAmount(env).towrite.amount = {}
      BY <1>1, SearchByAmountShows
    <3> QED
      BY <3>1, SearchFinds
  <2>2. ASSUME NEW l \in DOMAIN rows PROVE SearchByOrder(env).db.order[l] = rows[l].order
    <3>1. Shows(SearchByOrder(env), rows, heads, {}) /\ DOMAIN SearchByOrder(env).towrite.order = {}
      BY <1>1, SearchByOrderShows
    <3> QED
      BY <3>1, SearchFinds
  <2>3. ASSUME NEW l \in DOMAIN rows
        PROVE  /\ SearchByLines(env).db.amount[l] = rows[l].amount
               /\ SearchByLines(env).db.order[l] = rows[l].order
    <3>1. /\ Shows(SearchByLines(env), rows, heads, {})
          /\ DOMAIN SearchByLines(env).towrite.amount = {} /\ DOMAIN SearchByLines(env).towrite.order = {}
      BY <1>1, SearchByLinesShows
    <3> QED
      BY <3>1, SearchFinds
  <2>4. \A o \in heads : SearchByTotal(env).db.total[o] = TotalAt(rows, o)
    BY <1>1, SearchByTotalShows
  <2> QED
    BY <1>1, <1>2, <2>1, <2>2, <2>3, <2>4 DEF SearchesAreRight
<1>5. FlushSettles
  <2> DEFINE e == FlushAll(env)
  <2>1. Settled(e, rows, heads)
    BY <1>1, FlushAllSettles
  <2> HIDE DEF e
  <2>2. /\ e.towrite = NoWrites /\ e.tocompute = {} /\ Rows(e.db, NoWrites) = rows
        /\ \A o \in heads : e.db.total[o] = TotalAt(rows, o)
    BY <2>1, SettledClear, SettledIs DEF Settled
  <2> QED
    BY <1>1, <1>2, <2>2 DEF FlushSettles, e
<1> QED
  BY <1>3, <1>4, <1>5

------------------------------------------------------------------------------
(* The environment shows its rows, now and after a failure in a savepoint.  *)
THEOREM Inductive == Spec => []IInv
<1>1. Init => IInv
  BY InitRefines
<1>2. IInv /\ [Next]_vars => IInv'
  BY StepRefines DEF Refines
<1> QED
  BY <1>1, <1>2, PTL DEF Spec

(* Caches, pending values and databases hold what they may.                 *)
THEOREM TypeCorrect == Spec => []TypeOK
<1>1. IInv => TypeOK
  BY DEF IInv
<1> QED
  BY <1>1, Inductive, PTL

(* Every field of every record reads as what was last written, for any      *)
(* lines, orders and amounts.                                               *)
THEOREM Reading == Spec => []ReadsAreRight
<1>1. IInv => ReadsAreRight
  BY ReaderSees
<1> QED
  BY <1>1, Inductive, PTL

(* A search finds what reading would: what it looks at is flushed first.    *)
THEOREM Searching == Spec => []SearchesAreRight
<1>1. IInv => SearchesAreRight
  BY ReaderSees
<1> QED
  BY <1>1, Inductive, PTL

(* A flush leaves nothing pending and every total that of its lines.        *)
THEOREM Flushing == Spec => []FlushSettles
<1>1. IInv => FlushSettles
  BY ReaderSees
<1> QED
  BY <1>1, Inductive, PTL

(* The ORM behaves as rows that change at once (Records): a call that       *)
(* writes is the step it promises, any other changes no row, and a failure  *)
(* in a savepoint gives back the rows there were.                           *)
THEOREM Implements == Spec => BehavesAsRecords
<1>1. Init => Abstract!Fresh
  BY InitRefines
<1>2. IInv /\ [Next]_vars => [Abstract!Next]_<<rows, heads, kept>>
  BY StepRefines DEF Refines, AVars
<1> QED
  BY <1>1, <1>2, Inductive, PTL DEF Spec, BehavesAsRecords, Abstract!Spec
===============================================================================
