---------------------------------- MODULE LRU ----------------------------------
(***************************************************************************)
(* The LRU of odoo/tools/lru.py, which holds the registries and the        *)
(* ormcache: a dictionary of nodes and a doubly linked list from the least *)
(* recently used node to the most recently used one.                       *)
(*                                                                         *)
(* Every operation holds the lock from its first step to its last.  The    *)
(* generators that __iter__() and items() return do not: they have left    *)
(* the lock when their first value is asked for, and walk the list while   *)
(* other threads change it, in the middle of an operation too.  The cron   *)
(* thread walks the registries so (server.py, cron_thread).                *)
(*                                                                         *)
(* Nodes are numbered in the order they are made; a node that left the     *)
(* list is still there for a walk that holds it.  The values that go with  *)
(* the keys are left out.                                                  *)
(***************************************************************************)
EXTENDS Naturals, FiniteSets

CONSTANTS Key,
          Count,     \* the limit, max(count, 1)
          Walker,    \* the generators
          NoKey,     \* of a node that is not made yet
          MaxNodes   \* bound on the number of nodes made

ASSUME CountAssumption == Count \in Nat \ {0}

ASSUME MaxNodesAssumption == MaxNodes \in Nat

ASSUME KeyAssumption == IsFiniteSet(Key) /\ NoKey \notin Key

None == 0

Node == 1..MaxNodes

VARIABLES
    d,      \* the node of each key
    key,    \* the key of each node
    prev, next,
    first, last,
    made,   \* number of nodes made
    op,     \* the operation that holds the lock, and its next step
    known,  \* d when the lock was last free
    walk    \* the generators: the node to yield next and what was yielded

list == <<d, key, prev, next, first, last, made>>

vars == <<list, op, known, walk>>

Free == [step |-> "free"]

(* what a walk has done: `from' and `cut' are history *)
Walk == [on : BOOLEAN, cur : Node \cup {None}, seen : SUBSET Key,
         from : 0..MaxNodes, cut : BOOLEAN]

TypeOK ==
    /\ d \in [Key -> Node \cup {None}]
    /\ key \in [Node -> Key \cup {NoKey}]
    /\ \A n \in 1..made : key[n] \in Key
    /\ prev \in [Node -> Node \cup {None}]
    /\ next \in [Node -> Node \cup {None}]
    /\ first \in Node \cup {None}
    /\ last \in Node \cup {None}
    /\ made \in 0..MaxNodes
    /\ op \in {Free} \cup [step : {"append", "evict", "unlink"}, key : Key, pop : BOOLEAN]
    /\ op.step = "append" => d[op.key] = None
    /\ known \in [Key -> Node \cup {None}]
    /\ walk \in [Walker -> Walk]

Init ==
    /\ d = [k \in Key |-> None]
    /\ key = [n \in Node |-> NoKey]
    /\ prev = [n \in Node |-> None]
    /\ next = [n \in Node |-> None]
    /\ first = None
    /\ last = None
    /\ made = 0
    /\ op = Free
    /\ known = d
    /\ walk = [w \in Walker |->
                 [on |-> FALSE, cur |-> None, seen |-> {}, from |-> 0, cut |-> FALSE]]

InDict(dict) == { k \in Key : dict[k] # None }

-----------------------------------------------------------------------------
(* __delitem__(): the node leaves the list, and keeps its own pointers *)
NextWithout_Tidied(n) ==
    [m \in Node |-> IF m = n THEN None ELSE IF m = prev[n] THEN next[n] ELSE next[m]]

NextWithout(n) == IF prev[n] # None THEN [next EXCEPT ![prev[n]] = next[n]] ELSE next

PrevWithout(n) == IF next[n] # None THEN [prev EXCEPT ![next[n]] = prev[n]] ELSE prev

Gone(k) == [d EXCEPT ![k] = None]

Unlink(k) ==
    LET n == d[k] IN
    /\ next' = NextWithout(n)
    /\ first' = IF prev[n] # None THEN first ELSE next[n]
    /\ prev' = PrevWithout(n)
    /\ last' = IF next[n] # None THEN last ELSE prev[n]
    /\ d' = Gone(k)
    /\ UNCHANGED <<key, made>>

(* __setitem__(): a new node at the end of the list *)
Linked_InARing(n) == [next EXCEPT ![IF last # None THEN last ELSE n] = n, ![n] = first]

Linked(n) == IF last # None THEN [next EXCEPT ![last] = n] ELSE next

Link(k) ==
    LET n == made + 1 IN
    /\ n \in Node
    /\ made' = n
    /\ key' = [key EXCEPT ![n] = k]
    /\ prev' = [prev EXCEPT ![n] = last]
    /\ first' = IF first = None THEN n ELSE first
    /\ next' = Linked(n)
    /\ last' = n
    /\ d' = [d EXCEPT ![k] = n]

(* The operation ends, or pop() goes on to the deletion. *)
EndSet(k, pop) ==
    IF pop THEN op' = [step |-> "unlink", key |-> k, pop |-> TRUE] /\ known' = known
           ELSE op' = Free /\ known' = d'

Overfull_OneMore(dict) == Cardinality(InDict(dict)) > Count + 1

Overfull(dict) == Cardinality(InDict(dict)) > Count

(* __setitem__(), and __getitem__() and pop(), which begin with one: a key   *)
(* that is there is deleted first.                                          *)
Set(k, pop) ==
    /\ op = Free
    /\ d[k] # None
    /\ Unlink(k)
    /\ op' = [step |-> "append", key |-> k, pop |-> pop]
    /\ UNCHANGED <<known, walk>>

Append(k, pop) ==
    /\ \/ op = [step |-> "append", key |-> k, pop |-> pop]
       \/ op = Free /\ d[k] = None /\ ~pop
    /\ Link(k)
    /\ IF Overfull(d')
       THEN op' = [step |-> "evict", key |-> k, pop |-> pop] /\ known' = known
       ELSE EndSet(k, pop)
    /\ UNCHANGED walk

(* the node that is evicted, and the list without it *)
Victim_FirstByNow == next[first]

Victim == first

Severed_BackLinkStays == prev

Severed == [prev EXCEPT ![next[first]] = None]

Evict(k, pop) ==
    /\ op = [step |-> "evict", key |-> k, pop |-> pop]
    /\ IF first = last
       THEN /\ first' = None
            /\ last' = None
            /\ UNCHANGED <<d, prev, next>>
       ELSE /\ prev' = Severed
            /\ first' = next[first]
            /\ next' = [next EXCEPT ![first] = None]
            /\ d' = [d EXCEPT ![key[Victim]] = None]
            /\ UNCHANGED last
    /\ EndSet(k, pop)
    /\ walk' = [w \in Walker |->
                  [walk[w] EXCEPT !.cut = @ \/ walk[w].cur \in 1..first]]
    /\ UNCHANGED <<key, made>>

(* __delitem__(), and the second half of pop() *)
Delete(k) ==
    /\ \/ op = Free /\ d[k] # None
       \/ op = [step |-> "unlink", key |-> k, pop |-> TRUE]
    /\ Unlink(k)
    /\ op' = Free
    /\ known' = d'
    /\ UNCHANGED walk

Clear ==
    /\ op = Free
    /\ d' = [k \in Key |-> None]
    /\ first' = None
    /\ last' = None
    /\ known' = d'
    /\ UNCHANGED <<key, prev, next, made, op, walk>>

(* items(): the generator's first step reads where the list begins *)
StartWalk(w) ==
    /\ ~walk[w].on
    /\ walk' = [walk EXCEPT ![w] = [on |-> TRUE, cur |-> first, seen |-> {},
                                    from |-> made, cut |-> FALSE]]
    /\ UNCHANGED <<list, op, known>>

(* The successor is read before the node is yielded. *)
Yield(w) ==
    LET n == walk[w].cur IN
    /\ walk[w].on
    /\ n # None
    /\ walk' = [walk EXCEPT ![w] = [walk[w] EXCEPT !.cur = next[n],
                                                  !.seen = walk[w].seen \cup {key[n]}]]
    /\ UNCHANGED <<list, op, known>>

EndWalk(w) ==
    /\ walk[w].on
    /\ walk[w].cur = None
    /\ walk' = [walk EXCEPT ![w].on = FALSE]
    /\ UNCHANGED <<list, op, known>>

Next ==
    \/ \E k \in Key, pop \in BOOLEAN : Set(k, pop)
    \/ \E k \in Key, pop \in BOOLEAN : Append(k, pop)
    \/ \E k \in Key, pop \in BOOLEAN : Evict(k, pop)
    \/ \E k \in Key : Delete(k)
    \/ Clear
    \/ \E w \in Walker : StartWalk(w)
    \/ \E w \in Walker : Yield(w)
    \/ \E w \in Walker : EndWalk(w)

Spec == Init /\ [][Next]_vars

-----------------------------------------------------------------------------
Live == { d[k] : k \in InDict(d) }

(* The list and the dictionary agree at every step of every operation: the   *)
(* list holds the nodes of the dictionary, from the oldest to the newest,   *)
(* and can be followed both ways.                                           *)
ListOK ==
    /\ \A k \in InDict(d) : key[d[k]] = k
    /\ first = None <=> Live = {}
    /\ last = None <=> Live = {}
    /\ Live # {} => first \in Live /\ last \in Live
    /\ \A n \in Live :
        /\ first <= n /\ n <= last
        /\ IF n = last THEN next[n] = None
           ELSE /\ next[n] \in Live
                /\ prev[next[n]] = n
                /\ \A m \in Live : m > n => m >= next[n]
        /\ n = first <=> prev[n] = None

(* Outside the lock there are never more than Count keys. *)
WithinCount == Cardinality(InDict(known)) <= Count

(* A pointer leads to a newer node, from a node that left the list too: a    *)
(* walk never sees a node twice, and ends when the others stop adding.      *)
Forward == \A n \in Node : next[n] # None => n < next[n] /\ next[n] <= made

(* A walk has seen every key that was neither used nor removed since it     *)
(* began, whatever happened to the other keys, unless the node it was about *)
(* to reach was evicted.                                                    *)
WalkComplete ==
    \A w \in Walker : ~walk[w].on /\ ~walk[w].cut =>
        \A k \in Key : d[k] \in 1..walk[w].from => k \in walk[w].seen

Abstract == INSTANCE Recency WITH used <- known, Time <- Node

(* For who takes the lock, it is a record of when each key was used. *)
Refines == Abstract!Spec
=============================================================================
