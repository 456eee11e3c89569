-------------------------------- MODULE Recency --------------------------------
(* What an LRU promises: it knows when each key was last used, keeps at most *)
(* Count of them, and gives up the one that was not used for longest.        *)
EXTENDS Naturals, FiniteSets

CONSTANTS Key, Count, Time

VARIABLE used    \* when each key was last used, 0 when it is not kept

Kept(u) == { k \in Key : u[k] # 0 }

Init == used = [k \in Key |-> 0]

Use(k, time) ==
    LET after == [used EXCEPT ![k] = time] IN
    /\ \A j \in Key : used[j] < time
    /\ IF Cardinality(Kept(after)) <= Count
       THEN used' = after
       ELSE \E oldest \in Kept(after) :
                /\ \A j \in Kept(after) : after[oldest] <= after[j]
                /\ used' = [after EXCEPT ![oldest] = 0]

Remove(k) == used[k] # 0 /\ used' = [used EXCEPT ![k] = 0]

Clear == used' = [k \in Key |-> 0]

Next ==
    \/ \E k \in Key, time \in Time : Use(k, time)
    \/ \E k \in Key : Remove(k)
    \/ Clear

Spec == Init /\ [][Next]_used
=============================================================================
