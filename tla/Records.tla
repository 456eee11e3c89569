------------------------------- MODULE Records -------------------------------
(***************************************************************************)
(* What the ORM promises to the code that runs on one cursor: the records  *)
(* are rows that change at once and together with what refers to them,     *)
(* whatever is cached, pending or flushed behind them.                     *)
(***************************************************************************)
CONSTANTS Lines, Orders, Amounts, None

VARIABLES rows,     \* the lines that exist, each with an amount and an order
          heads,    \* the orders that exist
          kept      \* <<rows, heads>> when the open savepoint began, or << >>

Fresh == /\ heads \in SUBSET Orders /\ kept = << >>
         /\ \E ls \in SUBSET Lines : rows \in [ls -> [amount : Amounts, order : heads \cup {None}]]

Vals == [amount : Amounts] \cup [order : heads \cup {None}]
           \cup [amount : Amounts, order : heads \cup {None}]

\* rows with vals written on ls
Updated(r, vals) == [f \in DOMAIN r |-> IF f \in DOMAIN vals THEN vals[f] ELSE r[f]]
Written(ls, vals) == [l \in DOMAIN rows |-> IF l \in ls THEN Updated(rows[l], vals) ELSE rows[l]]

Add == \E l \in Lines \ DOMAIN rows, a \in Amounts, o \in heads \cup {None} :
          /\ rows' = [k \in DOMAIN rows \cup {l} |-> IF k = l THEN [amount |-> a, order |-> o] ELSE rows[k]]
          /\ UNCHANGED heads

Change == \E ls \in SUBSET DOMAIN rows, vals \in Vals :
             rows' = Written(ls, vals) /\ UNCHANGED heads

Remove == \E ls \in SUBSET DOMAIN rows :
             rows' = [l \in DOMAIN rows \ ls |-> rows[l]] /\ UNCHANGED heads

\* the lines of o become ls; the others it had refer to nothing
Assign == \E o \in heads, ls \in SUBSET DOMAIN rows :
             /\ rows' = [l \in DOMAIN rows |->
                            IF l \in ls THEN [rows[l] EXCEPT !.order = o]
                            ELSE IF rows[l].order = o THEN [rows[l] EXCEPT !.order = None]
                            ELSE rows[l]]
             /\ UNCHANGED heads

Open == \E o \in Orders \ heads, ls \in SUBSET DOMAIN rows :
           rows' = Written(ls, [order |-> o]) /\ heads' = heads \cup {o}

Drop == \E o \in heads :
           /\ rows' = Written({l \in DOMAIN rows : rows[l].order = o}, [order |-> None])
           /\ heads' = heads \ {o}

Keep == kept = << >> /\ kept' = <<rows, heads>> /\ UNCHANGED <<rows, heads>>
Release == kept # << >> /\ kept' = << >> /\ UNCHANGED <<rows, heads>>
Return == kept # << >> /\ <<rows', heads'>> = kept /\ kept' = << >>

Next == \/ (Add \/ Change \/ Remove \/ Assign \/ Open \/ Drop) /\ UNCHANGED kept
        \/ Keep \/ Release \/ Return

Spec == Fresh /\ [][Next]_<<rows, heads, kept>>
===============================================================================
