------------------------------- MODULE LRUProofs -------------------------------
(* LRU for every set of keys, every limit and any number of walks.  The      *)
(* list is reasoned about through the set of its nodes: a step of an         *)
(* operation adds one node or takes one away, and the pointers follow.       *)
EXTENDS LRU, FiniteSetTheorems, TLAPS

(* Every node but the first has a predecessor that leads to it. *)
Back ==
    \A n \in Live : n # first =>
        prev[n] \in Live /\ next[prev[n]] = n /\ prev[n] < n

(* Nodes of the dictionary exist, and those to come lead nowhere. *)
Made ==
    /\ \A k \in InDict(d) : d[k] <= made
    /\ \A n \in Node : n > made => next[n] = None

Chain == ListOK /\ Back /\ Made /\ Forward

(* what the operation in progress has done to the dictionary *)
Progress ==
    /\ \A k \in Key : known[k] <= made
    /\ op = Free => d = known
    /\ op.step = "append" => d = [known EXCEPT ![op.key] = None]
    /\ op.step \in {"evict", "unlink"} =>
        /\ d = [known EXCEPT ![op.key] = made]
        /\ \A k \in Key : known[k] < made
    /\ op.step = "evict" => Overfull(d)
    /\ op.step # "free" /\ op.pop => known[op.key] # None
    /\ op.step = "unlink" => op.pop

(* A walk is at a node that was made. *)
Reached == \A w \in Walker : walk[w].cur <= made

IInv == TypeOK /\ Chain /\ Progress /\ Reached /\ WithinCount

-----------------------------------------------------------------------------
(* A live node is the one that the dictionary has for its key. *)
LEMMA LiveNode ==
    ASSUME TypeOK, Chain
    PROVE  \A n : n \in Live <=> n \in 1..made /\ d[key[n]] = n
<1> USE DEF TypeOK, Node, None
<1> SUFFICES ASSUME NEW n PROVE n \in Live <=> n \in 1..made /\ d[key[n]] = n
  OBVIOUS
<1>1. ASSUME n \in Live PROVE n \in 1..made /\ d[key[n]] = n
  BY <1>1 DEF Live, InDict, Chain, ListOK, Made
<1>2. ASSUME n \in 1..made, d[key[n]] = n PROVE n \in Live
  BY <1>2 DEF Live, InDict
<1> QED
  BY <1>1, <1>2

(* The nodes that are linked are those of the dictionary.                   *)
LEMMA LiveType ==
    ASSUME TypeOK, Chain
    PROVE  /\ Live \subseteq 1..made /\ Live \subseteq Node
           /\ \A n \in Live : n \in Nat /\ n # None /\ key[n] \in Key /\ d[key[n]] = n
<1>1. made \in 0..MaxNodes /\ made \in Nat
  BY MaxNodesAssumption DEF TypeOK
<1>2. Live \subseteq 1..made
  BY LiveNode
<1>3. 1..made \subseteq Node /\ \A n \in 1..made : n \in Nat /\ n # None
  BY <1>1, MaxNodesAssumption DEF Node, None
<1>4. \A n \in Live : key[n] \in Key /\ d[key[n]] = n
  BY <1>2, LiveNode DEF TypeOK
<1> QED
  BY <1>2, <1>3, <1>4

(* Unlinking takes one node out of the list. *)
LEMMA UnlinkLive ==
    ASSUME TypeOK, Chain, NEW k \in Key, d[k] # None, Unlink(k)
    PROVE  /\ d[k] \in Live /\ Live' = Live \ {d[k]}
           /\ \A j \in InDict(d)' : key'[d'[j]] = j
<1> USE DEF TypeOK
<1>1. d[k] \in Live /\ key[d[k]] = k
  BY DEF Live, InDict, Chain, ListOK
<1>2. \A j \in Key : d'[j] = IF j = k THEN None ELSE d[j]
  BY DEF Unlink, Gone
<1>3. \A i, j \in InDict(d) : d[i] = d[j] => i = j
  BY DEF Chain, ListOK
<1>4. Live' = Live \ {d[k]}
  BY <1>2, <1>3 DEF Live, InDict
<1>5. \A j \in InDict(d)' : key'[d'[j]] = j
  BY <1>2 DEF Unlink, InDict, Chain, ListOK
<1> QED
  BY <1>1, <1>4, <1>5

(* Taking one node out leaves the chain of the others.                      *)
LEMMA UnlinkChain ==
    ASSUME TypeOK, Chain, NEW k \in Key, d[k] # None, Unlink(k)
    PROVE  Chain'
<1> DEFINE n == d[k]
           p == prev[n]
           q == next[n]
<1>0. n \in Node /\ n \in Live /\ Live' = Live \ {n} /\ Live \subseteq 1..made /\ n # None
  BY UnlinkLive, LiveNode DEF TypeOK, None, Node
<1>t. /\ next \in [Node -> Node \cup {None}] /\ prev \in [Node -> Node \cup {None}]
      /\ made \in 0..MaxNodes /\ made \in Nat /\ Live \subseteq Node
  BY <1>0, MaxNodesAssumption DEF TypeOK, Node
<1>1. /\ p = None <=> n = first
      /\ q = None <=> n = last
      /\ p # None => p \in Live /\ next[p] = n /\ p < n
      /\ q # None => q \in Live /\ prev[q] = n /\ n < q
  BY <1>0, <1>t DEF Chain, ListOK, Back, Forward, None, Node
<1>2. /\ \A m \in Node : next'[m] = IF m = p THEN q ELSE next[m]
      /\ \A m \in Node : prev'[m] = IF m = q THEN p ELSE prev[m]
      /\ first' = IF p # None THEN first ELSE q
      /\ last' = IF q # None THEN last ELSE p
      /\ made' = made /\ key' = key
  BY <1>0, <1>t, <1>1 DEF Unlink, NextWithout, PrevWithout, None, Node
<1>3. \A m \in Live' : m \in Live /\ m # n /\ m \in Node /\ m \in Nat
  BY <1>0, <1>t DEF Node
<1>4. /\ first' = None <=> Live' = {}
      /\ last' = None <=> Live' = {}
      /\ Live' # {} => first' \in Live' /\ last' \in Live'
  <2>1. \A m \in Live : m \in Nat /\ first <= m /\ m <= last
    BY <1>t DEF Chain, ListOK, Node
  <2>2. first \in Live /\ last \in Live /\ first # None /\ last # None
    BY <1>0 DEF Chain, ListOK
  <2>3. CASE p = None /\ q = None
    <3>1. \A m \in Live : m = n
      <4>1. n = first /\ n = last
        BY <1>1, <2>3
      <4>2. ASSUME NEW m \in Live PROVE m \in Nat /\ n \in Nat /\ n <= m /\ m <= n
        BY <4>1, <2>1, <1>0
      <4> QED
        BY <4>2
    <3>2. Live' = {}
      BY <3>1, <1>0
    <3> QED
      BY <3>2, <1>1, <1>2, <2>3
  <2>4. CASE p = None /\ q # None
    BY <1>0, <1>1, <1>2, <2>2, <2>4, <1>t DEF None
  <2>5. CASE p # None /\ q = None
    BY <1>0, <1>1, <1>2, <2>2, <2>5, <1>t DEF None
  <2>6. CASE p # None /\ q # None
    BY <1>0, <1>1, <1>2, <2>2, <2>6, <1>t DEF None
  <2> QED
    BY <2>3, <2>4, <2>5, <2>6
<1>5. ASSUME NEW m \in Live' PROVE first' <= m /\ m <= last'
  BY <1>0, <1>t, <1>1, <1>2, <1>3, <1>5 DEF Chain, ListOK, Back, None, Node
<1>6. ASSUME NEW m \in Live'
      PROVE  IF m = last' THEN next'[m] = None
             ELSE /\ next'[m] \in Live'
                  /\ prev'[next'[m]] = m
                  /\ \A l \in Live' : l > m => l >= next'[m]
  BY <1>0, <1>t, <1>1, <1>2, <1>3, <1>6 DEF Chain, ListOK, Back, None, Node
<1>7. ASSUME NEW m \in Live' PROVE m = first' <=> prev'[m] = None
  BY <1>0, <1>t, <1>1, <1>2, <1>3, <1>7 DEF Chain, ListOK, Back, None, Node
<1>8. ListOK'
  BY <1>4, <1>5, <1>6, <1>7, UnlinkLive DEF ListOK
<1>9. Back'
  BY <1>0, <1>t, <1>1, <1>2, <1>3 DEF Chain, ListOK, Back, None, Node
<1>10. Forward'
  BY <1>0, <1>t, <1>1, <1>2 DEF Chain, Forward, None, Node
<1>11. Made'
  <2>1. \A j \in InDict(d)' : d'[j] <= made'
    BY <1>2 DEF Unlink, Gone, InDict, TypeOK, Chain, Made
  <2>2. \A m \in Node : m > made' => next'[m] = None
    BY <1>0, <1>t, <1>1, <1>2 DEF Chain, Made, None, Node
  <2> QED
    BY <2>1, <2>2 DEF Made
<1> QED
  BY <1>8, <1>9, <1>10, <1>11 DEF Chain

(* A new node is the newest one. *)
LEMMA LinkChain ==
    ASSUME TypeOK, Chain, NEW k \in Key, d[k] = None, Link(k)
    PROVE  Chain' /\ made' = made + 1 /\ d' = [d EXCEPT ![k] = made + 1]
<1> DEFINE n == made + 1
<1>0. /\ n \in Node /\ made \in Nat /\ n # None /\ made' = n
      /\ d \in [Key -> Node \cup {None}] /\ d' = [d EXCEPT ![k] = n]
      /\ next \in [Node -> Node \cup {None}] /\ prev \in [Node -> Node \cup {None}]
      /\ first \in Node \cup {None} /\ last \in Node \cup {None}
  BY MaxNodesAssumption DEF Link, TypeOK, Node, None
<1>1. Live \subseteq 1..made /\ Live \subseteq Node
  BY LiveType
<1>2. \A j \in Key : d'[j] = IF j = k THEN n ELSE d[j]
  BY <1>0
<1>3. Live' = Live \cup {n}
  BY <1>0, <1>2 DEF Live, InDict, None
<1>4. /\ \A m \in Node : next'[m] = IF m = last THEN n ELSE next[m]
      /\ \A m \in Node : prev'[m] = IF m = n THEN last ELSE prev[m]
      /\ first' = IF first = None THEN n ELSE first
      /\ last' = n
  BY <1>0 DEF Link, Linked, None, Node
<1>5. /\ first = None <=> Live = {}
      /\ last = None <=> Live = {}
      /\ Live # {} => first \in Live /\ last \in Live
      /\ next[n] = None
      /\ \A m \in Live : m \in Nat /\ m < n /\ m # None /\ first <= m /\ m <= last
  BY <1>0, <1>1 DEF Chain, ListOK, Made, None
<1>6. \A j \in InDict(d)' : key'[d'[j]] = j
  BY <1>0, <1>1, <1>2, LiveNode DEF Link, InDict, Live, Chain, ListOK, Made, TypeOK, Node
<1>7. /\ first' = None <=> Live' = {}
      /\ last' = None <=> Live' = {}
      /\ Live' # {} => first' \in Live' /\ last' \in Live'
  BY <1>0, <1>3, <1>4, <1>5
<1>8. ASSUME NEW m \in Live' PROVE first' <= m /\ m <= last'
  BY <1>0, <1>3, <1>4, <1>5
<1>9. ASSUME NEW m \in Live'
      PROVE  IF m = last' THEN next'[m] = None
             ELSE /\ next'[m] \in Live'
                  /\ prev'[next'[m]] = m
                  /\ \A l \in Live' : l > m => l >= next'[m]
  <2>1. CASE m = n
    BY <2>1, <1>0, <1>4, <1>5
  <2>2. CASE m # n /\ m = last
    BY <2>2, <1>0, <1>1, <1>3, <1>4, <1>5
  <2>3. CASE m # n /\ m # last
    <3>1. m \in Live /\ next[m] \in Live /\ prev[next[m]] = m
      BY <2>3, <1>3 DEF Chain, ListOK
    <3>2. \A l \in Live : l > m => l >= next[m]
      BY <2>3, <1>3 DEF Chain, ListOK
    <3> QED
      <4>1. next'[m] = next[m] /\ next[m] \in Live'
        BY <3>1, <2>3, <1>1, <1>3, <1>4
      <4>2. prev'[next[m]] = m
        <5>1. next[m] < n /\ next[m] \in Nat /\ next[m] \in Node
          BY <3>1, <1>1, <1>5
        <5>2. next[m] # n
          BY <5>1, <1>0
        <5> QED
          BY <5>1, <5>2, <3>1, <1>4
      <4>3. \A l \in Live' : l > m => l >= next[m]
        BY <3>1, <3>2, <1>0, <1>3, <1>5
      <4> QED
        BY <4>1, <4>2, <4>3, <2>3, <1>4, <1>5, <3>1, <1>0
  <2> QED
    BY <2>1, <2>2, <2>3
<1>10. ASSUME NEW m \in Live' PROVE m = first' <=> prev'[m] = None
  BY <1>0, <1>1, <1>3, <1>4, <1>5 DEF Chain, ListOK
<1>11. ListOK'
  BY <1>6, <1>7, <1>8, <1>9, <1>10 DEF ListOK
<1>12. Back'
  <2> SUFFICES ASSUME NEW m \in Live', m # first'
               PROVE  prev'[m] \in Live' /\ next'[prev'[m]] = m /\ prev'[m] < m
    BY DEF Back
  <2>1. CASE m = n
    BY <2>1, <1>0, <1>1, <1>3, <1>4, <1>5
  <2>2. CASE m # n
    <3>1. m \in Live /\ m # first /\ m # None
      BY <2>2, <1>3, <1>4, <1>5
    <3>2. prev[m] \in Live /\ next[prev[m]] = m /\ prev[m] < m
      BY <3>1 DEF Chain, Back
    <3>3. prev[m] # last
      BY <3>1, <3>2 DEF Chain, ListOK
    <3> QED
      BY <2>2, <3>1, <3>2, <3>3, <1>1, <1>3, <1>4
  <2> QED
    BY <2>1, <2>2
<1>13. Forward'
  BY <1>0, <1>1, <1>4, <1>5 DEF Chain, Forward, None, Node
<1>14. Made'
  BY <1>0, <1>1, <1>2, <1>4, <1>5 DEF Chain, Made, InDict, None, Node
<1> QED
  BY <1>0, <1>11, <1>12, <1>13, <1>14 DEF Chain

(* A list that is too long has two ends. *)
LEMMA TwoEnds ==
    ASSUME TypeOK, Chain, Overfull(d)
    PROVE  first # last /\ first \in Live /\ last \in Live
<1>1. ASSUME InDict(d) = {} PROVE FALSE
  BY <1>1, FS_EmptySet, CountAssumption DEF Overfull
<1>2. Live # {} /\ first \in Live /\ last \in Live
  BY <1>1 DEF Live, Chain, ListOK
<1>3. ASSUME first = last PROVE FALSE
  <2>1. \A n \in Live : n = first
    <3>1. ASSUME NEW n \in Live PROVE n \in Nat /\ first \in Nat /\ first <= n /\ n <= first
      BY <1>2, <1>3, LiveType DEF Chain, ListOK
    <3> QED
      BY <3>1
  <2>2. \A j \in InDict(d) : d[j] = first
    BY <2>1 DEF Live
  <2>3. InDict(d) \subseteq {key[first]}
    BY <2>2 DEF Chain, ListOK
  <2>4. InDict(d) = {key[first]}
    BY <2>3, <1>1
  <2>5. Cardinality(InDict(d)) = 1
    BY <2>4, FS_Singleton
  <2> QED
    BY <2>5, CountAssumption DEF Overfull
<1> QED
  BY <1>2, <1>3

(* An eviction takes the oldest node out. *)
LEMMA EvictChain ==
    ASSUME TypeOK, Chain, Overfull(d), NEW k \in Key, NEW pop \in BOOLEAN, Evict(k, pop)
    PROVE  /\ Chain' /\ made' = made
           /\ key[first] \in InDict(d) /\ d[key[first]] = first
           /\ d' = [d EXCEPT ![key[first]] = None]
<1> DEFINE n == first
           q == next[first]
<1>0. /\ n \in Live /\ last \in Live /\ n # last /\ Live \subseteq 1..made /\ Live \subseteq Node
      /\ key[n] \in Key /\ d[key[n]] = n /\ n # None
  BY TwoEnds, LiveType
<1>t. /\ next \in [Node -> Node \cup {None}] /\ prev \in [Node -> Node \cup {None}]
      /\ made \in Nat /\ d \in [Key -> Node \cup {None}]
  BY MaxNodesAssumption DEF TypeOK
<1>1. /\ q \in Live /\ prev[q] = n /\ n < q /\ q # None
      /\ \A m \in Live : m \in Nat /\ m # None /\ n <= m /\ m <= last /\ (m > n => m >= q)
      /\ prev[n] = None
  BY <1>0, <1>t DEF Chain, ListOK, Forward, None, Node
<1>2. /\ \A m \in Node : next'[m] = IF m = n THEN None ELSE next[m]
      /\ \A m \in Node : prev'[m] = IF m = q THEN None ELSE prev[m]
      /\ first' = q /\ last' = last /\ made' = made /\ key' = key
      /\ d' = [d EXCEPT ![key[n]] = None]
  BY <1>0, <1>1, <1>t DEF Evict, Severed, Victim
<1>3. \A j \in Key : d'[j] = IF j = key[n] THEN None ELSE d[j]
  BY <1>2, <1>t
<1>4. \A i, j \in InDict(d) : d[i] = d[j] => i = j
  BY DEF Chain, ListOK
<1>5. Live' = Live \ {n}
  BY <1>0, <1>3, <1>4 DEF Live, InDict
<1>6. \A j \in InDict(d)' : key'[d'[j]] = j
  BY <1>2, <1>3 DEF InDict, Chain, ListOK
<1>7. /\ first' = None <=> Live' = {}
      /\ last' = None <=> Live' = {}
      /\ Live' # {} => first' \in Live' /\ last' \in Live'
  BY <1>0, <1>1, <1>2, <1>5
<1>8. ASSUME NEW m \in Live' PROVE first' <= m /\ m <= last'
  BY <1>0, <1>1, <1>2, <1>5
<1>9. ASSUME NEW m \in Live'
      PROVE  IF m = last' THEN next'[m] = None
             ELSE /\ next'[m] \in Live'
                  /\ prev'[next'[m]] = m
                  /\ \A l \in Live' : l > m => l >= next'[m]
  <2>0. m \in Live /\ m # n /\ m \in Node
    BY <1>0, <1>5
  <2>1. CASE m = last
    BY <2>0, <2>1, <1>2 DEF Chain, ListOK
  <2>2. CASE m # last
    <3>1. /\ next[m] \in Live /\ prev[next[m]] = m
          /\ \A l \in Live : l > m => l >= next[m]
      BY <2>0, <2>2 DEF Chain, ListOK
    <3>2. m < next[m]
      BY <3>1, <2>0, <1>1 DEF Chain, Forward
    <3>3. next[m] # n /\ next[m] # q
      BY <3>1, <3>2, <2>0, <1>1
    <3> QED
      BY <2>0, <2>2, <3>1, <3>3, <1>0, <1>2, <1>5
  <2> QED
    BY <2>1, <2>2
<1>10. ASSUME NEW m \in Live' PROVE m = first' <=> prev'[m] = None
  BY <1>0, <1>1, <1>2, <1>5 DEF Chain, ListOK
<1>11. ListOK'
  BY <1>6, <1>7, <1>8, <1>9, <1>10 DEF ListOK
<1>12. Back'
  BY <1>0, <1>1, <1>2, <1>5, <1>t DEF Chain, ListOK, Back
<1>13. Forward'
  BY <1>0, <1>2, <1>t DEF Chain, Forward, Node, None
<1>14. Made'
  BY <1>0, <1>2, <1>3, <1>t DEF Chain, Made, InDict, Node, None
<1> QED
  BY <1>0, <1>2, <1>11, <1>12, <1>13, <1>14 DEF Chain, InDict

-----------------------------------------------------------------------------

(* The empty cache satisfies the invariant.                                 *)
THEOREM InitInv == Init => IInv
<1> SUFFICES ASSUME Init PROVE IInv
  OBVIOUS
<1>1. TypeOK
  BY MaxNodesAssumption DEF Init, TypeOK, Walk, Node, None, Free
<1>2. InDict(d) = {} /\ Live = {} /\ InDict(known) = {}
  BY DEF Init, InDict, Live
<1>3. Chain
  BY <1>2 DEF Init, Chain, ListOK, Back, Made, Forward, Node, None
<1>4. Progress
  BY DEF Init, Progress, Free, None
<1>5. WithinCount
  BY <1>2, FS_EmptySet, CountAssumption DEF WithinCount
<1>6. Reached
  BY DEF Init, Reached, None
<1> QED
  BY <1>1, <1>3, <1>4, <1>5, <1>6 DEF IInv

(* The variables keep their types in every step. *)
LEMMA TypeStep == ASSUME IInv, [Next]_vars PROVE TypeOK'
<1> USE DEF IInv, TypeOK
<1>0. made \in Nat /\ Live \subseteq Node /\ \A n \in Live : key[n] \in Key
  BY LiveType, MaxNodesAssumption
<1>1. ASSUME NEW k \in Key, NEW pop \in BOOLEAN, Set(k, pop) PROVE TypeOK'
  <2>1. d[k] \in Node
    BY <1>1 DEF Set, None
  <2> QED
    BY <1>1, <2>1 DEF Set, Unlink, NextWithout, PrevWithout, Gone, None
<1>2. ASSUME NEW k \in Key, NEW pop \in BOOLEAN, Append(k, pop) PROVE TypeOK'
  <2>1. /\ Link(k) /\ walk' = walk
        /\ \/ op' = [step |-> "evict", key |-> k, pop |-> pop] /\ known' = known
           \/ op' = [step |-> "unlink", key |-> k, pop |-> TRUE] /\ known' = known
           \/ op' = Free /\ known' = d'
    BY <1>2 DEF Append, EndSet
  <2>2. /\ made + 1 \in Node /\ made' = made + 1 /\ made' \in 0..MaxNodes
        /\ key' = [key EXCEPT ![made + 1] = k]
    BY <2>1, <1>0, MaxNodesAssumption DEF Link, Node
  <2>3. \A n \in 1..made' : key'[n] \in Key
    BY <2>2, <1>0, MaxNodesAssumption DEF Node
  <2>4. /\ d' \in [Key -> Node \cup {None}]
        /\ key' \in [Node -> Key \cup {NoKey}]
        /\ prev' \in [Node -> Node \cup {None}]
        /\ next' \in [Node -> Node \cup {None}]
        /\ first' \in Node \cup {None}
        /\ last' \in Node \cup {None}
    BY <2>1, <2>2 DEF Link, Linked
  <2>5. /\ op' \in {Free} \cup [step : {"append", "evict", "unlink"}, key : Key, pop : BOOLEAN]
        /\ op'.step # "append"
        /\ known' \in [Key -> Node \cup {None}]
    <3>1. CASE op' = [step |-> "evict", key |-> k, pop |-> pop] /\ known' = known
      BY <3>1
    <3>2. CASE op' = [step |-> "unlink", key |-> k, pop |-> TRUE] /\ known' = known
      BY <3>2
    <3>3. CASE op' = Free /\ known' = d'
      BY <3>3, <2>4 DEF Free
    <3> QED
      BY <3>1, <3>2, <3>3, <2>1
  <2> QED
    BY <2>1, <2>2, <2>3, <2>4, <2>5
<1>3. ASSUME NEW k \in Key, NEW pop \in BOOLEAN, Evict(k, pop) PROVE TypeOK'
  <2>1. walk' \in [Walker -> Walk]
    BY <1>3 DEF Evict, Walk
  <2>2. Overfull(d)
    BY <1>3 DEF Evict, Progress
  <2>3. /\ first \in Live /\ first # last
    BY <2>2, TwoEnds
  <2>4. next[first] \in Node
    BY <2>3, LiveType DEF Chain, ListOK
  <2>5. /\ prev' = [prev EXCEPT ![next[first]] = None]
        /\ first' = next[first]
        /\ next' = [next EXCEPT ![first] = None]
        /\ d' = [d EXCEPT ![key[first]] = None]
        /\ UNCHANGED <<last, key, made>>
    BY <1>3, <2>3 DEF Evict, Severed, Victim
  <2>6. \/ op' = [step |-> "unlink", key |-> k, pop |-> TRUE] /\ known' = known
        \/ op' = Free /\ known' = d'
    BY <1>3 DEF Evict, EndSet
  <2>7. /\ d' \in [Key -> Node \cup {None}]
        /\ next' \in [Node -> Node \cup {None}]
        /\ prev' \in [Node -> Node \cup {None}]
        /\ first' \in Node
    BY <2>4, <2>5
  <2>8. /\ op' \in {Free} \cup [step : {"append", "evict", "unlink"}, key : Key, pop : BOOLEAN]
        /\ op'.step # "append"
        /\ known' \in [Key -> Node \cup {None}]
    <3>1. CASE op' = Free /\ known' = d'
      BY <3>1, <2>7 DEF Free
    <3>2. CASE op' = [step |-> "unlink", key |-> k, pop |-> TRUE] /\ known' = known
      BY <3>2
    <3> QED
      BY <3>1, <3>2, <2>6
  <2> QED
    BY <2>1, <2>5, <2>7, <2>8
<1>4. ASSUME NEW k \in Key, Delete(k) PROVE TypeOK'
  <2>1. d[k] \in Node
    BY <1>4, <1>0 DEF Delete, None, Progress, Node
  <2> QED
    <3>1. /\ op' = Free /\ known' = d' /\ walk' = walk /\ key' = key /\ made' = made
          /\ d' = [d EXCEPT ![k] = None]
          /\ next' \in {next, [next EXCEPT ![prev[d[k]]] = next[d[k]]]}
          /\ prev' \in {prev, [prev EXCEPT ![next[d[k]]] = prev[d[k]]]}
          /\ first' \in {first, next[d[k]]}
          /\ last' \in {last, prev[d[k]]}
      BY <1>4 DEF Delete, Unlink, NextWithout, PrevWithout, Gone
    <3>2. prev[d[k]] \in Node \cup {None} /\ next[d[k]] \in Node \cup {None}
      BY <2>1
    <3>3. op' = Free /\ op'.step # "append"
      BY <3>1 DEF Free
    <3>4. /\ d' \in [Key -> Node \cup {None}]
          /\ next' \in [Node -> Node \cup {None}]
          /\ prev' \in [Node -> Node \cup {None}]
      BY <3>1, <3>2 DEF None
    <3> QED
      BY <3>1, <3>2, <3>3, <3>4
<1>5. ASSUME Clear PROVE TypeOK'
  BY <1>5 DEF Clear, None, Free
<1>6. ASSUME NEW w \in Walker, StartWalk(w) PROVE TypeOK'
  BY <1>6 DEF StartWalk, Walk, list
<1>7. ASSUME NEW w \in Walker, Yield(w) PROVE TypeOK'
  <2> DEFINE n == walk[w].cur
  <2>1. n \in Node /\ n \in 1..made
    BY <1>7, <1>0 DEF Yield, Walk, Reached, Node, None
  <2>2. next[n] \in Node \cup {None} /\ key[n] \in Key
    BY <2>1
  <2>3. walk' \in [Walker -> Walk]
    BY <1>7, <2>2 DEF Yield, Walk
  <2> QED
    BY <1>7, <2>3 DEF Yield, list
<1>8. ASSUME NEW w \in Walker, EndWalk(w) PROVE TypeOK'
  BY <1>8 DEF EndWalk, Walk, list
<1>9. ASSUME UNCHANGED vars PROVE TypeOK'
  BY <1>9 DEF vars, list
<1> QED
  BY <1>1, <1>2, <1>3, <1>4, <1>5, <1>6, <1>7, <1>8, <1>9 DEF Next

(* A dictionary has finitely many keys.                                     *)
LEMMA Finite ==
    ASSUME NEW u
    PROVE  IsFiniteSet(InDict(u)) /\ Cardinality(InDict(u)) \in Nat
<1>1. InDict(u) \subseteq Key
  BY DEF InDict
<1> QED
  BY <1>1, KeyAssumption, FS_Subset, FS_CardinalityType

(* What an operation has done when it unlinked, linked or evicted. *)
LEMMA SetStep ==
    ASSUME IInv, NEW k \in Key, NEW pop \in BOOLEAN, Set(k, pop)
    PROVE  Chain' /\ Progress' /\ Reached' /\ WithinCount'
<1> USE DEF IInv
<1>1. Chain'
  BY UnlinkChain DEF Set
<1>2. Progress'
  <2>1. /\ op = Free /\ d = known /\ d[k] # None /\ made' = made /\ known' = known
        /\ op' = [step |-> "append", key |-> k, pop |-> pop]
        /\ d' = [known EXCEPT ![k] = None]
    BY DEF Set, Unlink, Gone, Progress
  <2> QED
    BY <2>1 DEF Progress
<1>3. Reached' /\ WithinCount'
  BY DEF Set, Unlink, Reached, WithinCount, InDict
<1> QED
  BY <1>1, <1>2, <1>3

(* Linking a new node at the end keeps the chain and what the walks rely    *)
(* on.                                                                      *)
LEMMA AppendStep ==
    ASSUME IInv, NEW k \in Key, NEW pop \in BOOLEAN, Append(k, pop)
    PROVE  /\ Chain' /\ Progress' /\ Reached' /\ WithinCount'
           /\ d' = [known EXCEPT ![k] = made + 1]
           /\ \A j \in Key : known[j] < made + 1
           /\ made + 1 \in Node
<1> USE DEF IInv
<1>1. /\ d[k] = None /\ Link(k) /\ walk' = walk
      /\ made \in Nat /\ made + 1 \in Node /\ made + 1 # None
      /\ d \in [Key -> Node \cup {None}] /\ known \in [Key -> Node \cup {None}]
  BY MaxNodesAssumption DEF Append, Link, TypeOK, None, Node
<1>2. Chain' /\ made' = made + 1 /\ d' = [d EXCEPT ![k] = made + 1]
  BY <1>1, LinkChain
<1>3. d' = [known EXCEPT ![k] = made + 1]
  <2>1. CASE op = Free
    BY <2>1, <1>2 DEF Progress
  <2>2. CASE op = [step |-> "append", key |-> k, pop |-> pop]
    <3>1. d = [known EXCEPT ![k] = None]
      BY <2>2 DEF Progress
    <3> QED
      BY <3>1, <1>1, <1>2
  <2> QED
    BY <2>1, <2>2 DEF Append
<1>4. \A j \in Key : known[j] < made + 1
  BY <1>1, MaxNodesAssumption DEF Progress, Node, None
<1>5. pop => known[k] # None
  <2>1. ASSUME pop PROVE op = [step |-> "append", key |-> k, pop |-> pop]
    BY <2>1 DEF Append
  <2> QED
    BY <2>1 DEF Progress
<1>6. \/ Overfull(d') /\ op' = [step |-> "evict", key |-> k, pop |-> pop] /\ known' = known
      \/ ~Overfull(d') /\ pop /\ op' = [step |-> "unlink", key |-> k, pop |-> TRUE] /\ known' = known
      \/ ~Overfull(d') /\ op' = Free /\ known' = d'
  BY DEF Append, EndSet
<1>7. Progress'
  <2>1. CASE known' = known
    <3>1. \A j \in Key : known'[j] <= made' /\ known'[j] < made'
      BY <2>1, <1>1, <1>2, <1>4, MaxNodesAssumption DEF Node, None
    <3>2. CASE op' = [step |-> "evict", key |-> k, pop |-> pop] /\ Overfull(d')
      BY <3>1, <3>2, <2>1, <1>2, <1>3, <1>5 DEF Progress, Free, Overfull, InDict
    <3>3. CASE op' = [step |-> "unlink", key |-> k, pop |-> TRUE] /\ pop
      BY <3>1, <3>3, <2>1, <1>2, <1>3, <1>5 DEF Progress, Free
    <3>4. CASE op' = Free /\ known' = d'
      BY <3>1, <3>4 DEF Progress, Free
    <3> QED
      BY <3>2, <3>3, <3>4, <1>6, <2>1
  <2>2. CASE op' = Free /\ known' = d'
    <3>1. \A j \in Key : d'[j] <= made'
      BY <1>1, <1>2, <1>3, <1>4, MaxNodesAssumption DEF Node, None
    <3> QED
      BY <2>2, <3>1 DEF Progress, Free
  <2> QED
    BY <2>1, <2>2, <1>6
<1>8. Reached'
  BY <1>1, <1>2, MaxNodesAssumption DEF Reached, TypeOK, Walk, Node, None
<1>9. WithinCount'
  <2>1. CASE known' = known
    BY <2>1 DEF WithinCount, InDict
  <2>2. CASE ~Overfull(d') /\ known' = d'
    BY <2>2, Finite, CountAssumption DEF WithinCount, Overfull, InDict
  <2> QED
    BY <2>1, <2>2, <1>6
<1> QED
  BY <1>1, <1>2, <1>3, <1>4, <1>7, <1>8, <1>9

(* So does unlinking the first when there are too many.                     *)
LEMMA EvictStep ==
    ASSUME IInv, NEW k \in Key, NEW pop \in BOOLEAN, Evict(k, pop)
    PROVE  /\ Chain' /\ Progress' /\ Reached' /\ WithinCount'
           /\ Overfull(d) /\ d = [known EXCEPT ![k] = made]
           /\ \A j \in Key : known[j] < made
           /\ key[first] \in InDict(d) /\ d[key[first]] = first
           /\ d' = [d EXCEPT ![key[first]] = None]
<1> USE DEF IInv
<1>1. /\ Overfull(d) /\ d = [known EXCEPT ![k] = made]
      /\ \A j \in Key : known[j] < made
      /\ pop => known[k] # None
  BY DEF Evict, Progress, Free
<1>2. /\ Chain' /\ made' = made
      /\ key[first] \in InDict(d) /\ d[key[first]] = first
      /\ d' = [d EXCEPT ![key[first]] = None]
  BY <1>1, EvictChain
<1>3. /\ made \in Nat /\ made \in 0..MaxNodes
      /\ d \in [Key -> Node \cup {None}] /\ known \in [Key -> Node \cup {None}]
      /\ \A j \in Key : known[j] \in Nat
  BY MaxNodesAssumption DEF TypeOK, Node, None
<1>4. ~pop
  <2>1. ASSUME pop PROVE FALSE
    <3>1. InDict(d) = InDict(known)
      BY <2>1, <1>1, <1>3 DEF InDict, None
    <3> QED
      BY <3>1, <1>1, Finite, CountAssumption DEF Overfull, WithinCount
  <2> QED
    BY <2>1
<1>5. op' = Free /\ known' = d'
  BY <1>4 DEF Evict, EndSet
<1>6. Progress'
  <2>1. \A j \in Key : d'[j] <= made
    BY <1>1, <1>2, <1>3 DEF None
  <2> QED
    BY <2>1, <1>2, <1>5 DEF Progress, Free
<1>7. Reached'
  BY <1>2 DEF Evict, Reached, TypeOK, Walk
<1>8. WithinCount'
  <2>1. InDict(d) \subseteq InDict(known) \cup {k}
    BY <1>1, <1>3 DEF InDict
  <2>2. Cardinality(InDict(known) \cup {k}) <= Count + 1
    BY Finite, FS_AddElement, CountAssumption DEF WithinCount
  <2>3. Cardinality(InDict(d)) <= Count + 1
    <3>1. IsFiniteSet(InDict(known) \cup {k})
      BY Finite, FS_AddElement
    <3> QED
      BY <3>1, <2>1, <2>2, FS_Subset, FS_CardinalityType, CountAssumption
  <2>4. InDict(d') = InDict(d) \ {key[first]}
    BY <1>2, <1>3 DEF InDict
  <2>5. Cardinality(InDict(d')) = Cardinality(InDict(d)) - 1
    BY <2>4, <1>2, Finite, FS_RemoveElement
  <2>6. Cardinality(InDict(d')) <= Count
    BY <2>3, <2>5, Finite, CountAssumption
  <2> QED
    BY <2>6, <1>5 DEF WithinCount, InDict
<1> QED
  BY <1>1, <1>2, <1>6, <1>7, <1>8

(* So does deleting a key.                                                  *)
LEMMA DeleteStep ==
    ASSUME IInv, NEW k \in Key, Delete(k)
    PROVE  /\ Chain' /\ Progress' /\ Reached' /\ WithinCount'
           /\ known[k] # None /\ known' = [known EXCEPT ![k] = None]
<1> USE DEF IInv
<1>1. /\ made \in Nat
      /\ d \in [Key -> Node \cup {None}] /\ known \in [Key -> Node \cup {None}]
      /\ \A j \in Key : known[j] \in Nat
  BY MaxNodesAssumption DEF TypeOK, Node, None
<1>2. d[k] # None /\ known[k] # None /\ [d EXCEPT ![k] = None] = [known EXCEPT ![k] = None]
  <2>1. CASE op = Free
    BY <2>1 DEF Delete, Progress, Free
  <2>2. CASE op = [step |-> "unlink", key |-> k, pop |-> TRUE]
    <3>1. d = [known EXCEPT ![k] = made] /\ known[k] < made /\ known[k] # None
      BY <2>2 DEF Progress
    <3> QED
      BY <3>1, <1>1 DEF None
  <2> QED
    BY <2>1, <2>2 DEF Delete
<1>3. Chain'
  BY <1>2, UnlinkChain DEF Delete
<1>4. /\ op' = Free /\ known' = d' /\ d' = [known EXCEPT ![k] = None]
      /\ made' = made /\ walk' = walk
  BY <1>2 DEF Delete, Unlink, Gone
<1>5. Progress'
  <2>1. \A j \in Key : d'[j] <= made
    BY <1>1, <1>4 DEF Progress, None
  <2> QED
    BY <2>1, <1>4 DEF Progress, Free
<1>6. Reached'
  BY <1>4 DEF Reached
<1>7. WithinCount'
  <2>1. InDict(known') \subseteq InDict(known)
    BY <1>1, <1>4 DEF InDict
  <2>2. Cardinality(InDict(known')) <= Cardinality(InDict(known))
    BY <2>1, Finite, FS_Subset
  <2> QED
    BY <2>2, Finite, CountAssumption DEF WithinCount, InDict
<1> QED
  BY <1>2, <1>3, <1>4, <1>5, <1>6, <1>7

(* So does clearing the cache.                                              *)
LEMMA ClearStep ==
    ASSUME IInv, Clear
    PROVE  Chain' /\ Progress' /\ Reached' /\ WithinCount'
<1> USE DEF IInv
<1>1. InDict(d') = {} /\ InDict(known') = {} /\ InDict(d)' = {} /\ Live' = {}
  BY DEF Clear, InDict, Live
<1>2. Chain'
  <2>1. ListOK' /\ Back'
    BY <1>1 DEF Clear, ListOK, Back
  <2>2. Made'
    BY <1>1 DEF Clear, Chain, Made
  <2>3. Forward'
    BY DEF Clear, Chain, Forward
  <2> QED
    BY <2>1, <2>2, <2>3 DEF Chain
<1>3. Progress'
  BY MaxNodesAssumption DEF Clear, Progress, Free, None, TypeOK
<1>4. Reached'
  BY DEF Clear, Reached
<1>5. WithinCount'
  BY <1>1, FS_EmptySet, CountAssumption DEF WithinCount, InDict
<1> QED
  BY <1>2, <1>3, <1>4, <1>5

(* A walk changes nothing but itself. *)
LEMMA WalkStep ==
    ASSUME IInv, UNCHANGED <<list, op, known>>
    PROVE  Chain' /\ Progress' /\ WithinCount'
<1> USE DEF IInv, list
<1>1. Chain'
  <2>1. Live' = Live /\ InDict(d)' = InDict(d)
    BY DEF Live, InDict
  <2>2. ListOK' /\ Back'
    BY <2>1 DEF Chain, ListOK, Back
  <2>3. Made' /\ Forward'
    BY <2>1 DEF Chain, Made, Forward
  <2> QED
    BY <2>2, <2>3 DEF Chain
<1>2. Progress'
  BY DEF Progress, Overfull, InDict
<1>3. WithinCount'
  BY DEF WithinCount, InDict
<1> QED
  BY <1>1, <1>2, <1>3

(* IInv is inductive. *)
THEOREM Preserved == IInv /\ [Next]_vars => IInv'
<1> SUFFICES ASSUME IInv, [Next]_vars PROVE IInv'
  OBVIOUS
<1>0. TypeOK'
  BY TypeStep
<1>1. ASSUME NEW k \in Key, NEW pop \in BOOLEAN, Set(k, pop) PROVE IInv'
  BY <1>0, <1>1, SetStep DEF IInv
<1>2. ASSUME NEW k \in Key, NEW pop \in BOOLEAN, Append(k, pop) PROVE IInv'
  BY <1>0, <1>2, AppendStep DEF IInv
<1>3. ASSUME NEW k \in Key, NEW pop \in BOOLEAN, Evict(k, pop) PROVE IInv'
  BY <1>0, <1>3, EvictStep DEF IInv
<1>4. ASSUME NEW k \in Key, Delete(k) PROVE IInv'
  BY <1>0, <1>4, DeleteStep DEF IInv
<1>5. CASE Clear
  BY <1>0, <1>5, ClearStep DEF IInv
<1>6. ASSUME NEW w \in Walker, StartWalk(w) PROVE IInv'
  <2>1. first <= made
    BY LiveType, MaxNodesAssumption DEF IInv, TypeOK, Chain, ListOK, None
  <2>2. Reached'
    BY <1>6, <2>1 DEF StartWalk, Reached, list, IInv, TypeOK, Walk
  <2> QED
    BY <1>0, <1>6, <2>2, WalkStep DEF StartWalk, IInv
<1>7. ASSUME NEW w \in Walker, Yield(w) PROVE IInv'
  <2>1. walk[w].cur \in Node
    BY <1>7 DEF Yield, IInv, TypeOK, Walk
  <2>2. next[walk[w].cur] <= made
    BY <2>1, MaxNodesAssumption DEF IInv, TypeOK, Chain, Forward, None
  <2>3. Reached'
    BY <1>7, <2>2 DEF Yield, Reached, list, IInv, TypeOK, Walk
  <2> QED
    BY <1>0, <1>7, <2>3, WalkStep DEF Yield, IInv
<1>8. ASSUME NEW w \in Walker, EndWalk(w) PROVE IInv'
  <2>1. Reached'
    BY <1>8 DEF EndWalk, Reached, list, IInv, TypeOK, Walk
  <2> QED
    BY <1>0, <1>8, <2>1, WalkStep DEF EndWalk, IInv
<1>9. CASE UNCHANGED vars
  <2>1. Reached'
    BY <1>9 DEF vars, list, Reached, IInv
  <2> QED
    BY <1>0, <1>9, <2>1, WalkStep DEF vars, IInv
<1> QED
  BY <1>1, <1>2, <1>3, <1>4, <1>5, <1>6, <1>7, <1>8, <1>9 DEF Next

(* The chain is that of the dictionary in every reachable state, for any    *)
(* keys and any count.                                                      *)
THEOREM Inductive == Spec => []IInv
BY InitInv, Preserved, PTL DEF Spec

-----------------------------------------------------------------------------
(* The variables keep their types, for every limit. *)
THEOREM TypeCorrect == Spec => []TypeOK
<1>1. IInv => TypeOK
  BY DEF IInv
<1> QED
  BY <1>1, Inductive, PTL

(* List and dictionary agree in the middle of every operation. *)
THEOREM ListCorrect == Spec => []ListOK
<1>1. IInv => ListOK
  BY DEF IInv, Chain
<1> QED
  BY <1>1, Inductive, PTL

(* The limit holds whenever the lock is free. *)
THEOREM Bounded == Spec => []WithinCount
<1>1. IInv => WithinCount
  BY DEF IInv
<1> QED
  BY <1>1, Inductive, PTL

(* A walk that goes on gets to newer nodes. *)
THEOREM NoWalkBack == Spec => []Forward
<1>1. IInv => Forward
  BY DEF IInv, Chain
<1> QED
  BY <1>1, Inductive, PTL

(* The two modules count alike.                                             *)
LEMMA SameCardinality == \A S : Abstract!Cardinality(S) = Cardinality(S)
BY DEF Abstract!Cardinality, Cardinality

(* Each operation, seen when it releases the lock, uses, removes or clears   *)
(* what Recency says, and nothing at its other steps.                       *)
LEMMA StepRefines == IInv /\ [Next]_vars => [Abstract!Next]_known
<1> SUFFICES ASSUME IInv, [Next]_vars PROVE known' = known \/ Abstract!Next
  BY DEF Abstract!Next
<1>t. \A u : Abstract!Kept(u) = InDict(u)
  BY DEF Abstract!Kept, InDict, None
<1>1. ASSUME NEW k \in Key, NEW pop \in BOOLEAN, Set(k, pop) PROVE known' = known
  BY <1>1 DEF Set
<1>2. ASSUME NEW k \in Key, NEW pop \in BOOLEAN, Append(k, pop)
      PROVE  known' = known \/ Abstract!Next
  <2>1. CASE known' = d' /\ ~Overfull(d')
    <3>1. /\ d' = [known EXCEPT ![k] = made + 1] /\ made + 1 \in Node
          /\ \A j \in Key : known[j] < made + 1
      BY <1>2, AppendStep
    <3>2. Cardinality(Abstract!Kept([known EXCEPT ![k] = made + 1])) <= Count
      BY <2>1, <3>1, <1>t, Finite, CountAssumption DEF Overfull
    <3>3. Abstract!Use(k, made + 1)
      BY <2>1, <3>1, <3>2, SameCardinality DEF Abstract!Use
    <3> QED
      BY <3>1, <3>3 DEF Abstract!Next
  <2> QED
    BY <1>2, <2>1 DEF Append, EndSet
<1>3. ASSUME NEW k \in Key, NEW pop \in BOOLEAN, Evict(k, pop)
      PROVE  known' = known \/ Abstract!Next
  <2>1. CASE known' = d'
    <3>1. /\ Overfull(d) /\ d = [known EXCEPT ![k] = made]
          /\ \A j \in Key : known[j] < made
          /\ key[first] \in InDict(d) /\ d[key[first]] = first
          /\ d' = [d EXCEPT ![key[first]] = None]
      BY <1>3, EvictStep
    <3>2. \A j \in InDict(d) : d[key[first]] <= d[j]
      <4>1. \A j \in InDict(d) : d[j] \in Live
        BY DEF Live
      <4> QED
        BY <4>1, <3>1 DEF IInv, Chain, ListOK
    <3>3. ~(Cardinality(Abstract!Kept(d)) <= Count)
      BY <3>1, <1>t, Finite, CountAssumption DEF Overfull
    <3>4. made \in Node
      BY <3>1, LiveType, MaxNodesAssumption DEF IInv, TypeOK, InDict, Live, Node, None
    <3>5. Abstract!Use(k, made)
      BY <2>1, <3>1, <3>2, <3>3, <1>t, SameCardinality DEF Abstract!Use, None
    <3> QED
      BY <3>4, <3>5 DEF Abstract!Next
  <2> QED
    BY <1>3, <2>1 DEF Evict, EndSet
<1>4. ASSUME NEW k \in Key, Delete(k) PROVE Abstract!Next
  BY <1>4, DeleteStep DEF Abstract!Next, Abstract!Remove, None
<1>5. ASSUME Clear PROVE Abstract!Next
  BY <1>5 DEF Clear, Abstract!Next, Abstract!Clear, None
<1>6. ASSUME NEW w \in Walker, StartWalk(w) \/ Yield(w) \/ EndWalk(w) PROVE known' = known
  BY <1>6 DEF StartWalk, Yield, EndWalk
<1>7. ASSUME UNCHANGED vars PROVE known' = known
  BY <1>7 DEF vars
<1> QED
  BY <1>1, <1>2, <1>3, <1>4, <1>5, <1>6, <1>7 DEF Next

(* The linked list implements a bounded record of recency. *)
THEOREM Implements == Spec => Refines
<1>1. Init => Abstract!Init
  BY DEF Init, Abstract!Init, None
<1>2. Init /\ [][Next]_vars => []IInv
  BY InitInv, Preserved, PTL
<1> QED
  BY <1>1, <1>2, StepRefines, PTL DEF Spec, Refines, Abstract!Spec

-----------------------------------------------------------------------------
(* What a walk sees.  A node that left the list keeps its pointer, and the   *)
(* node it points to may leave after it: a walk can go through several nodes *)
(* that are gone before it is back on the list.  It has a path all the same: *)
(* nodes, first those of the list it began with, of which each leads to the  *)
(* next one that is left.                                                    *)

(* From a node of P a walk meets every node of the list up to f that comes   *)
(* after it.                                                                 *)
Leads(P, f) ==
    \A c \in P :
        /\ next[c] # None /\ next[c] <= f => next[c] \in P
        /\ \A m \in Live : c < m /\ m <= f => next[c] # None /\ next[c] <= m

(* what the walk has not seen is still before it *)
Seen(w) ==
    \A k \in Key : d[k] \in 1..walk[w].from =>
        k \in walk[w].seen \/ (walk[w].cur # None /\ walk[w].cur <= d[k])

OnItsWay(w) ==
    \E P \in SUBSET Node :
        /\ walk[w].cur # None /\ walk[w].cur <= walk[w].from => walk[w].cur \in P
        /\ Leads(P, walk[w].from)

WalkOK(w) ==
    /\ walk[w].from <= made
    /\ ~walk[w].on => walk[w].cur = None
    /\ ~walk[w].cut => Seen(w) /\ OnItsWay(w)

Walks == \A w \in Walker : WalkOK(w)

IInvWalks == IInv /\ Walks

(* What a walk stands at, and the fields of the nodes.                      *)
LEMMA WalkType ==
    ASSUME TypeOK, NEW w \in Walker
    PROVE  /\ walk[w].cur \in Node \cup {None} /\ walk[w].cur \in Nat
           /\ walk[w].from \in Nat /\ walk[w].on \in BOOLEAN
           /\ \A k \in Key : d[k] \in Nat
           /\ made \in Nat
           /\ \A n \in Node : n \in Nat /\ next[n] \in Nat
<1>1. \A n \in Node \cup {None} : n \in Nat
  BY MaxNodesAssumption DEF Node, None
<1>2. walk[w] \in Walk
  BY DEF TypeOK
<1> QED
  BY <1>1, <1>2, MaxNodesAssumption DEF TypeOK, Walk

(* A change of the list takes keys out or gives them a newer node, and      *)
(* leaves the walks a path.                                                 *)
LEMMA ListStepWalk ==
    ASSUME TypeOK, NEW w \in Walker, WalkOK(w), made <= made', made' \in Nat,
           walk'[w].on = walk[w].on, walk'[w].cur = walk[w].cur,
           walk'[w].seen = walk[w].seen, walk'[w].from = walk[w].from,
           walk[w].cut => walk'[w].cut,
           \A k \in Key : d'[k] \in {d[k], None} \/ d'[k] = made + 1,
           ~walk'[w].cut => OnItsWay(w)'
    PROVE  WalkOK(w)'
<1>1. /\ walk[w].from \in Nat /\ made \in Nat /\ walk[w].from <= made
      /\ \A k \in Key : d[k] \in Nat
  BY WalkType DEF WalkOK
<1>2. \A k \in Key : d'[k] \in 1..walk'[w].from => d'[k] = d[k]
  BY <1>1 DEF None
<1>3. ~walk'[w].cut => Seen(w)'
  BY <1>2 DEF WalkOK, Seen
<1> QED
  BY <1>1, <1>3 DEF WalkOK

(* Without n the one before it leads to the one after it. *)
LEMMA UnlinkWalks ==
    ASSUME TypeOK, Chain, NEW k \in Key, d[k] # None, Unlink(k), walk' = walk, Walks
    PROVE  Walks'
<1> DEFINE n == d[k]
           p == prev[n]
           q == next[n]
<1>0. n \in Node /\ n \in Live /\ Live' = Live \ {n} /\ Live \subseteq Node
  BY UnlinkLive, LiveType
<1>1. p # None => p \in Live /\ next[p] = n
  BY <1>0 DEF Chain, ListOK, Back
<1>2. /\ \A m \in Node : next'[m] = IF m = p THEN q ELSE next[m]
      /\ made' = made
      /\ \A j \in Key : d'[j] \in {d[j], None}
  BY <1>0, <1>1 DEF Unlink, NextWithout, Gone, TypeOK, None, Node
<1>3. \A m \in Node : m \in Nat /\ m # None /\ next[m] \in Nat
  BY MaxNodesAssumption DEF TypeOK, Node, None
<1>4. q # None => n < q
  BY <1>0 DEF Chain, Forward
<1> HIDE DEF n, p, q
<1>5. ASSUME NEW P \in SUBSET Node, NEW f \in Nat, Leads(P, f) PROVE Leads(P, f)'
  <2>1. ASSUME NEW c \in P, c = p PROVE /\ q # None /\ q <= f => q \in P
                                        /\ \A m \in Live \ {n} : c < m /\ m <= f => q # None /\ q <= m
    <3>1. c \in Node /\ next[c] = n /\ c \in Nat
      BY <1>1, <1>3, <2>1 DEF Leads
    <3>2. ASSUME n <= f PROVE n \in P
      BY <1>0, <1>3, <2>1, <3>1, <3>2, <1>5 DEF Leads
    <3>3. ASSUME q # None, q <= f PROVE q \in P
      <4>1. n \in P
        BY <1>0, <1>3, <1>4, <3>2, <3>3 DEF q
      <4> QED
        BY <1>5, <3>3, <4>1 DEF Leads, q
    <3>4. ASSUME NEW m \in Live \ {n}, c < m, m <= f PROVE q # None /\ q <= m
      <4>1. n <= m /\ m \in Nat /\ n \in Nat
        BY <1>0, <1>3, <1>5, <2>1, <3>1, <3>4 DEF Leads
      <4>2. n < m /\ n <= f
        BY <3>4, <4>1
      <4> QED
        BY <1>5, <3>2, <3>4, <4>2 DEF Leads, q
    <3> QED
      BY <3>3, <3>4
  <2>2. ASSUME NEW c \in P, c # p PROVE /\ next[c] # None /\ next[c] <= f => next[c] \in P
                                        /\ \A m \in Live \ {n} : c < m /\ m <= f => next[c] # None /\ next[c] <= m
    BY <1>5, <2>2 DEF Leads
  <2> QED
    BY <1>0, <1>2, <2>1, <2>2 DEF Leads
<1>6. ASSUME NEW w \in Walker PROVE WalkOK(w)'
  <2>1. WalkOK(w) /\ walk[w].from \in Nat /\ made \in Nat
    BY WalkType DEF Walks
  <2>2. ~walk[w].cut => OnItsWay(w)'
    BY <1>5, <2>1 DEF WalkOK, OnItsWay
  <2> QED
    BY <1>2, <2>1, <2>2, ListStepWalk
<1> QED
  BY <1>6 DEF Walks

(* A new node comes after those a walk is to see. *)
LEMMA LinkWalks ==
    ASSUME TypeOK, Chain, NEW k \in Key, d[k] = None, Link(k), walk' = walk, Walks
    PROVE  Walks'
<1> DEFINE n == made + 1
<1>0. /\ n \in Node /\ made \in Nat /\ made' = n
      /\ \A j \in Key : d'[j] \in {d[j], None} \/ d'[j] = n
      /\ \A m \in Node : next'[m] = IF m = last THEN n ELSE next[m]
  BY MaxNodesAssumption DEF Link, Linked, TypeOK, Node, None
<1>1. Live \subseteq 1..made /\ Live' = Live \cup {n} /\ \A m \in Live : m <= last /\ m \in Nat
  <2>1. Live \subseteq 1..made
    BY LiveType
  <2>2. Live' = Live \cup {n}
    <3>1. \A j \in Key : d'[j] = IF j = k THEN n ELSE d[j]
      BY DEF Link, TypeOK
    <3>2. n # None
      BY <1>0 DEF None
    <3> HIDE DEF n
    <3> QED
      BY <3>1, <3>2 DEF Live, InDict
  <2> QED
    BY <2>1, <2>2 DEF Chain, ListOK
<1>2. \A m \in Node : m \in Nat /\ next[m] \in Nat
  BY MaxNodesAssumption DEF TypeOK, Node, None
<1>3. ASSUME NEW P \in SUBSET Node, NEW f \in Nat, f <= made, Leads(P, f) PROVE Leads(P, f)'
  <2>1. ASSUME NEW c \in P PROVE next'[c] # None /\ next'[c] <= f => next'[c] \in P
    BY <1>0, <1>2, <1>3, <2>1 DEF Leads
  <2>2. ASSUME NEW c \in P, NEW m \in Live', c < m, m <= f PROVE next'[c] # None /\ next'[c] <= m
    <3>1. m \in Live
      BY <1>0, <1>1, <1>3, <2>2
    <3>2. c # last
      BY <1>1, <1>2, <2>2, <3>1
    <3> QED
      BY <1>0, <1>3, <2>2, <3>1, <3>2 DEF Leads
  <2> QED
    BY <2>1, <2>2 DEF Leads
<1>4. ASSUME NEW w \in Walker PROVE WalkOK(w)'
  <2>1. WalkOK(w) /\ walk[w].from \in Nat /\ walk[w].from <= made
    BY WalkType DEF Walks, WalkOK
  <2>2. ~walk[w].cut => OnItsWay(w)'
    BY <1>3, <2>1 DEF WalkOK, OnItsWay
  <2> QED
    BY <1>0, <2>1, <2>2, ListStepWalk
<1> QED
  BY <1>4 DEF Walks

(* A walk that is past the node that is evicted does not come back to it. *)
LEMMA EvictWalks ==
    ASSUME IInv, NEW k \in Key, NEW pop \in BOOLEAN, Evict(k, pop), Walks
    PROVE  Walks'
<1> USE DEF IInv
<1>0. /\ first \in Live /\ first # last /\ first \in Node /\ first \in Nat
      /\ made' = made /\ d' = [d EXCEPT ![key[first]] = None]
  <2>1. Overfull(d)
    BY DEF Evict, Progress
  <2> QED
    BY <2>1, TwoEnds, EvictChain, LiveType
<1>1. /\ \A m \in Node : next'[m] = IF m = first THEN None ELSE next[m]
      /\ \A j \in Key : d'[j] \in {d[j], None}
      /\ \A m : m \in Live' => m \in Live
  <2>1. \A j \in Key : d'[j] \in {d[j], None}
    BY <1>0 DEF TypeOK
  <2> QED
    BY <1>0, <2>1 DEF Evict, Live, InDict, TypeOK
<1>2. \A m \in Node : m \in Nat /\ next[m] \in Nat /\ (next[m] # None => m < next[m])
  BY MaxNodesAssumption DEF TypeOK, Chain, Forward, Node, None
<1>3. ASSUME NEW P \in SUBSET Node, NEW f \in Nat, Leads(P, f) PROVE \E R \in SUBSET Node : R = P \ (1..first) /\ Leads(R, f)'
  <2> PICK R \in SUBSET Node : R = P \ (1..first)
    OBVIOUS
  <2>1. \A c \in R : c \in P /\ c \in Node /\ c # first /\ next'[c] = next[c]
    <3>1. first \in 1..first
      BY <1>0 DEF Node
    <3> QED
      BY <1>1, <3>1
  <2>2. ASSUME NEW c \in R, next[c] # None, next[c] <= f PROVE next[c] \in R
    <3>1. next[c] \in P
      BY <1>3, <2>1, <2>2 DEF Leads
    <3>2. c > first /\ next[c] > c
      BY <1>0, <1>2, <2>1, <2>2 DEF Node
    <3> QED
      BY <1>0, <1>2, <2>1, <3>1, <3>2
  <2>3. \A c \in R : \A m \in Live' : c < m /\ m <= f => next[c] # None /\ next[c] <= m
    BY <1>1, <1>3, <2>1 DEF Leads
  <2> QED
    BY <2>1, <2>2, <2>3 DEF Leads
<1>4. ASSUME NEW w \in Walker PROVE WalkOK(w)'
  <2>1. WalkOK(w) /\ walk[w].cur \in Node \cup {None} /\ walk[w].cur \in Nat /\ walk[w].from \in Nat /\ made \in Nat
    BY WalkType DEF Walks
  <2>2. walk'[w] = [walk[w] EXCEPT !.cut = walk[w].cut \/ walk[w].cur \in 1..first] /\ walk[w] \in Walk
    BY DEF Evict, TypeOK
  <2>3. /\ walk'[w].on = walk[w].on /\ walk'[w].cur = walk[w].cur
        /\ walk'[w].seen = walk[w].seen /\ walk'[w].from = walk[w].from
        /\ (walk[w].cut => walk'[w].cut)
        /\ ~walk'[w].cut => ~walk[w].cut /\ walk[w].cur \notin 1..first
    BY <2>2 DEF Walk
  <2>4. ~walk'[w].cut => OnItsWay(w)'
    <3> SUFFICES ASSUME ~walk'[w].cut PROVE OnItsWay(w)'
      OBVIOUS
    <3>1. PICK P \in SUBSET Node : /\ walk[w].cur # None /\ walk[w].cur <= walk[w].from => walk[w].cur \in P
                                   /\ Leads(P, walk[w].from)
      BY <2>1, <2>3 DEF WalkOK, OnItsWay
    <3>2. PICK f \in Nat : f = walk[w].from
      BY <2>1
    <3>3. PICK R \in SUBSET Node : R = P \ (1..first) /\ Leads(R, f)'
      BY <1>3, <3>1, <3>2
    <3>4. walk'[w].cur # None /\ walk'[w].cur <= walk'[w].from => walk'[w].cur \in R
      BY <2>3, <3>1, <3>3
    <3> QED
      BY <2>3, <3>2, <3>3, <3>4 DEF OnItsWay
  <2> QED
    BY <1>0, <1>1, <2>1, <2>3, <2>4, ListStepWalk
<1> QED
  BY <1>4 DEF Walks

(* After a clear no key is left that a walk could miss.                     *)
LEMMA ClearWalks ==
    ASSUME IInv, Clear, Walks
    PROVE  Walks'
<1>1. Live' = {} /\ UNCHANGED <<made, next, walk>> /\ \A k \in Key : d'[k] = None
  BY DEF Clear, Live, InDict
<1>2. ASSUME NEW w \in Walker PROVE WalkOK(w)'
  <2>1. WalkOK(w) /\ made \in Nat
    BY WalkType DEF Walks, IInv
  <2>2. \A P \in SUBSET Node : \A f : Leads(P, f) => Leads(P, f)'
    BY <1>1 DEF Leads
  <2>3. ~walk[w].cut => OnItsWay(w)'
    BY <1>1, <2>1, <2>2 DEF WalkOK, OnItsWay
  <2> QED
    BY <1>1, <2>1, <2>3, ListStepWalk DEF IInv
<1> QED
  BY <1>2 DEF Walks

(* A walk that moves leaves the others alone. *)
LEMMA OtherWalks ==
    ASSUME UNCHANGED list, NEW w \in Walker, \A v \in Walker \ {w} : walk'[v] = walk[v],
           Walks, WalkOK(w)'
    PROVE  Walks'
<1>1. UNCHANGED <<d, next, made>> /\ Live' = Live
  BY DEF list, Live, InDict
<1>2. ASSUME NEW v \in Walker \ {w} PROVE WalkOK(v)'
  BY <1>1, <1>2 DEF Walks, WalkOK, Seen, OnItsWay, Leads
<1> QED
  BY <1>2 DEF Walks

(* A walk begins with the nodes of the list. *)
LEMMA StartWalks ==
    ASSUME IInv, Walks, NEW w \in Walker, StartWalk(w)
    PROVE  Walks'
<1>1. /\ UNCHANGED <<d, next, made, first, last, key>> /\ Live' = Live /\ UNCHANGED list
      /\ walk'[w] = [on |-> TRUE, cur |-> first, seen |-> {}, from |-> made, cut |-> FALSE]
      /\ \A v \in Walker \ {w} : walk'[v] = walk[v]
  BY DEF StartWalk, list, Live, InDict, IInv, TypeOK
<1>2. Live \subseteq Node /\ Live \subseteq 1..made /\ made \in Nat /\ \A m \in Live : m \in Nat /\ m # None
  BY LiveType, MaxNodesAssumption DEF IInv, TypeOK
<1>3. Leads(Live, made)'
  <2>1. ASSUME NEW c \in Live PROVE /\ next[c] # None => next[c] \in Live
                                    /\ \A m \in Live : c < m => next[c] # None /\ next[c] <= m
    <3>1. CASE c = last
      BY <1>2, <3>1 DEF IInv, Chain, ListOK
    <3>2. CASE c # last
      BY <1>2, <3>2 DEF IInv, Chain, ListOK
    <3> QED
      BY <3>1, <3>2
  <2> QED
    BY <1>1, <2>1 DEF Leads
<1>4. walk'[w].cur # None => walk'[w].cur \in Live
  BY <1>1 DEF IInv, Chain, ListOK
<1>5. OnItsWay(w)'
  BY <1>1, <1>2, <1>3, <1>4 DEF OnItsWay
<1>6. Seen(w)'
  <2> SUFFICES ASSUME NEW k \in Key, d[k] \in 1..made PROVE first # None /\ first <= d[k]
    BY <1>1 DEF Seen
  <2>1. d[k] \in Live
    BY MaxNodesAssumption DEF Live, InDict, None, IInv, TypeOK
  <2> QED
    BY <2>1 DEF IInv, Chain, ListOK
<1>7. WalkOK(w)'
  BY <1>1, <1>2, <1>5, <1>6 DEF WalkOK
<1> QED
  BY <1>1, <1>7, OtherWalks

(* A walk that goes on has seen what it has passed.                         *)
LEMMA YieldWalks ==
    ASSUME IInv, Walks, NEW w \in Walker, Yield(w)
    PROVE  Walks'
<1> DEFINE n == walk[w].cur
           f == walk[w].from
<1>1. /\ UNCHANGED <<d, next, made, key>> /\ Live' = Live /\ UNCHANGED list
      /\ walk'[w] = [walk[w] EXCEPT !.cur = next[n], !.seen = walk[w].seen \cup {key[n]}]
      /\ \A v \in Walker \ {w} : walk'[v] = walk[v]
      /\ walk[w] \in Walk /\ walk[w].on /\ n # None
  BY DEF Yield, list, Live, InDict, IInv, TypeOK
<1>2. /\ n \in Node /\ n \in Nat /\ f \in Nat /\ next[n] \in Nat /\ made \in Nat
      /\ \A k \in Key : d[k] \in Nat
  BY <1>1, WalkType DEF IInv
<1>3. /\ walk'[w].on = walk[w].on /\ walk'[w].cur = next[n] /\ walk'[w].from = f /\ walk'[w].cut = walk[w].cut
      /\ walk'[w].seen = walk[w].seen \cup {key[n]}
  BY <1>1 DEF Walk
<1>4. WalkOK(w)
  BY DEF Walks
<1> HIDE DEF n, f
<1>5. ASSUME ~walk[w].cut PROVE Seen(w)' /\ OnItsWay(w)'
  <2>1. PICK P \in SUBSET Node : (n # None /\ n <= f => n \in P) /\ Leads(P, f)
    BY <1>4, <1>5 DEF WalkOK, OnItsWay, n, f
  <2>2. ASSUME next[n] # None, next[n] <= f PROVE next[n] \in P
    <3>1. n < next[n]
      BY <1>2, <2>2 DEF IInv, Chain, Forward
    <3> QED
      BY <1>1, <1>2, <2>1, <2>2, <3>1 DEF Leads, n
  <2>3. OnItsWay(w)'
    <3>1. Leads(P, f)'
      BY <1>1, <1>3, <2>1 DEF Leads, f
    <3> QED
      BY <1>3, <2>2, <3>1 DEF OnItsWay, f
  <2>4. Seen(w)'
    <3> SUFFICES ASSUME NEW k \in Key, d[k] \in 1..f, k \notin walk[w].seen \cup {key[n]}
                 PROVE  next[n] # None /\ next[n] <= d[k]
      BY <1>1, <1>3 DEF Seen
    <3>1. n <= d[k] /\ n <= f
      BY <1>2, <1>4, <1>5 DEF WalkOK, Seen, n, f
    <3>2. d[k] \in Live /\ d[k] # n
      <4>1. k \in InDict(d)
        BY DEF InDict, None
      <4> QED
        BY <4>1 DEF IInv, Chain, ListOK, Live
    <3>3. n \in P
      BY <1>1, <2>1, <3>1 DEF n
    <3> QED
      BY <1>2, <2>1, <3>1, <3>2, <3>3 DEF Leads
  <2> QED
    BY <2>3, <2>4
<1>6. WalkOK(w)'
  BY <1>1, <1>3, <1>4, <1>5 DEF WalkOK, f
<1> QED
  BY <1>1, <1>6, OtherWalks

(* A walk that ends has seen what it should.                                *)
LEMMA EndWalks ==
    ASSUME IInv, Walks, NEW w \in Walker, EndWalk(w)
    PROVE  Walks'
<1>1. /\ UNCHANGED list
      /\ walk'[w].cur = None /\ walk[w].cur = None /\ walk'[w].from = walk[w].from
      /\ walk'[w].cut = walk[w].cut /\ walk'[w].seen = walk[w].seen
      /\ \A v \in Walker \ {w} : walk'[v] = walk[v]
  BY DEF EndWalk, IInv, TypeOK, Walk
<1>2. OnItsWay(w)'
  <2>1. Leads({}, walk[w].from)'
    BY DEF Leads
  <2> QED
    BY <1>1, <2>1 DEF OnItsWay
<1>3. WalkOK(w)'
  BY <1>1, <1>2 DEF Walks, WalkOK, Seen, list
<1> QED
  BY <1>1, <1>3, OtherWalks

(* No walk is under way at first.                                           *)
LEMMA WalksInit == Init => Walks
<1> SUFFICES ASSUME Init, NEW w \in Walker PROVE WalkOK(w)
  BY DEF Walks
<1>1. Leads({}, 0)
  BY DEF Leads
<1> QED
  BY <1>1 DEF Init, WalkOK, Seen, OnItsWay, None

(* Every step keeps that what a walk has not seen is still before it.       *)
LEMMA WalksStep == ASSUME IInvWalks, [Next]_vars PROVE IInvWalks'
<1> USE DEF IInvWalks
<1>1. IInv'
  BY Preserved
<1>2. ASSUME NEW k \in Key, NEW pop \in BOOLEAN, Set(k, pop) PROVE Walks'
  BY <1>2, UnlinkWalks DEF Set, IInv
<1>3. ASSUME NEW k \in Key, NEW pop \in BOOLEAN, Append(k, pop) PROVE Walks'
  <2>1. d[k] = None
    BY <1>3 DEF Append, IInv, TypeOK
  <2> QED
    BY <1>3, <2>1, LinkWalks DEF Append, IInv
<1>4. ASSUME NEW k \in Key, NEW pop \in BOOLEAN, Evict(k, pop) PROVE Walks'
  BY <1>4, EvictWalks
<1>5. ASSUME NEW k \in Key, Delete(k) PROVE Walks'
  <2>1. d[k] # None
    <3>1. CASE op = Free
      BY <1>5, <3>1 DEF Delete, Free
    <3>2. CASE op = [step |-> "unlink", key |-> k, pop |-> TRUE]
      <4>1. d = [known EXCEPT ![k] = made] /\ known[k] < made /\ known[k] \in Nat /\ made \in Nat
        BY <3>2, MaxNodesAssumption DEF IInv, Progress, TypeOK, Node, None
      <4> QED
        BY <4>1 DEF IInv, TypeOK, None
    <3> QED
      BY <1>5, <3>1, <3>2 DEF Delete
  <2> QED
    BY <1>5, <2>1, UnlinkWalks DEF Delete, IInv
<1>6. ASSUME UNCHANGED vars PROVE Walks'
  <2>1. UNCHANGED <<d, next, made, walk>> /\ Live' = Live
    BY <1>6 DEF vars, list, Live, InDict
  <2> QED
    BY <2>1 DEF Walks, WalkOK, Seen, OnItsWay, Leads
<1>7. Next \/ UNCHANGED vars
  OBVIOUS
<1>8. Walks'
  BY <1>2, <1>3, <1>4, <1>5, <1>6, <1>7, ClearWalks, StartWalks, YieldWalks, EndWalks DEF Next
<1> QED
  BY <1>1, <1>8

(* Iterating over an LRU without its lock misses no key that stays, unless  *)
(* an eviction overtakes it.                                                *)
THEOREM NoneIsSkipped == Spec => []WalkComplete
<1>1. Init => IInvWalks
  BY InitInv, WalksInit DEF IInvWalks
<1>2. IInvWalks /\ [Next]_vars => IInvWalks'
  BY WalksStep
<1>3. IInvWalks => WalkComplete
  BY DEF IInvWalks, Walks, WalkOK, Seen, WalkComplete
<1> QED
  BY <1>1, <1>2, <1>3, PTL DEF Spec
=============================================================================
