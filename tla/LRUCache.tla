------------------------------ MODULE LRUCache ------------------------------
(***************************************************************************)
(* The cache of blocks and of open tables (cache.rs): a map of keys to     *)
(* nodes of a doubly linked list, pointer by pointer.  A node owns the     *)
(* next one; prev pointers are raw, and the one of the head node points to *)
(* the last node.  table_reader.rs and table_cache.rs insert a key only    *)
(* after get has not found it.                                             *)
(***************************************************************************)
EXTENDS Naturals, Sequences, SequencesExt, FiniteSets, TLC

CONSTANTS Keys, Nodes, cap

HeadNode == "head"
Null == "null"
Dangling == "dangling"  \* data of a node that is not allocated

VARIABLES next, prev,   \* the pointers of every node
          data,         \* the key in a node, Null after data.take()
          map,          \* the nodes by key
          count,
          failed        \* an assertion failed or freed memory was read

vars == <<next, prev, data, map, count, failed>>

Init == /\ next = [n \in Nodes \cup {HeadNode} |-> Null]
        /\ prev = [n \in Nodes \cup {HeadNode} |-> Null]
        /\ data = [n \in Nodes |-> Dangling]
        /\ map = <<>> /\ count = 0 /\ failed = FALSE

Free == {n \in Nodes : data[n] = Dangling}
\* The nodes that go when a node is freed: it owns all that follow.
RECURSIVE Owned(_)
Owned(n) == IF n = Null THEN {} ELSE {n} \cup Owned(next[n])

Without(f, k) == [x \in DOMAIN f \ {k} |-> f[x]]

\* LRUList::insert of a new node at the front, and the map.
Linked(n, k, nx, pv, dt, mp) ==
    /\ next' = [nx EXCEPT ![n] = nx[HeadNode], ![HeadNode] = n]
    /\ prev' = IF nx[HeadNode] # Null THEN [pv EXCEPT ![n] = HeadNode, ![nx[HeadNode]] = n]
               ELSE [pv EXCEPT ![n] = HeadNode, ![HeadNode] = n]
    /\ data' = [dt EXCEPT ![n] = k]
    /\ map' = (k :> n) @@ mp

Fail == failed' = TRUE /\ UNCHANGED <<next, prev, data, map, count>>

\* LRUList::remove_last takes the node out of the next of the node before the
\* one that head.prev points to.  A read of a freed node may give anything.
RemoveLastFails ==
    \/ prev[HeadNode] = Null \/ prev[HeadNode] \in Free
    \/ next[prev[prev[HeadNode]]] = Null

\* Cache::insert.
insert(k) ==
    /\ ~failed /\ k \notin DOMAIN map
    /\ \/ /\ count < cap
          /\ \E n \in Free : Linked(n, k, next, prev, data, map)
          /\ count' = count + 1 /\ UNCHANGED failed
       \/ count >= cap /\ RemoveLastFails /\ Fail
       \/ /\ count >= cap /\ ~RemoveLastFails
          /\ LET before == prev[prev[HeadNode]]
                 last == next[before]
             IN  \E n \in Free \cup Owned(last) :
                     Linked(n, k, [next EXCEPT ![before] = Null],
                            [prev EXCEPT ![HeadNode] = prev[last]],
                            [m \in Nodes |-> IF m \in Owned(last) THEN Dangling ELSE data[m]],
                            Without(map, data[last]))
          /\ UNCHANGED <<count, failed>>

\* A get that does not move the tail when the last node is used.
get_KeepTail(k) ==
    /\ ~failed /\ k \in DOMAIN map
    /\ LET n == map[k]
           p == prev[n]
           pv == IF next[n] # Null THEN [prev EXCEPT ![next[n]] = p] ELSE prev
           nx == [next EXCEPT ![p] = next[n]]
       IN  /\ next' = [nx EXCEPT ![n] = nx[HeadNode], ![HeadNode] = n]
           /\ prev' = IF nx[HeadNode] # Null
                      THEN [pv EXCEPT ![n] = pv[nx[HeadNode]], ![nx[HeadNode]] = n]
                      ELSE [pv EXCEPT ![HeadNode] = n]
    /\ UNCHANGED <<data, map, count, failed>>

\* Cache::get with LRUList::reinsert_front.
get(k) ==
    /\ ~failed /\ k \in DOMAIN map /\ map[k] \notin Free
    /\ LET n == map[k]
           p == prev[n]
           \* the node after n, or the head, forgets n
           pv == IF next[n] # Null THEN [prev EXCEPT ![next[n]] = p]
                 ELSE [prev EXCEPT ![HeadNode] = p]
           \* the two swaps of next pointers
           nx == [next EXCEPT ![p] = next[n]]
       IN  /\ next' = [nx EXCEPT ![n] = nx[HeadNode], ![HeadNode] = n]
           /\ prev' = IF nx[HeadNode] # Null
                      THEN [pv EXCEPT ![n] = pv[nx[HeadNode]], ![nx[HeadNode]] = n]
                      ELSE [pv EXCEPT ![HeadNode] = n]
    /\ UNCHANGED <<data, map, count, failed>>

\* Cache::get and Cache::remove of a key whose node was freed.
stale(k) == ~failed /\ k \in DOMAIN map /\ map[k] \in Free /\ Fail

\* Cache::remove with LRUList::remove; the node is freed.
remove(k) ==
    /\ ~failed /\ k \in DOMAIN map /\ map[k] \notin Free
    /\ LET n == map[k]
       IN  /\ next' = [next EXCEPT ![prev[n]] = next[n], ![n] = Null]
           /\ prev' = IF next[n] # Null THEN [prev EXCEPT ![next[n]] = prev[n]] ELSE prev
           /\ data' = [data EXCEPT ![n] = Dangling]
    /\ map' = Without(map, k)
    /\ count' = count - 1
    /\ UNCHANGED failed

Next == \E k \in Keys : insert(k) \/ get(k) \/ remove(k) \/ stale(k)

Spec == Init /\ [][Next]_vars

\* The keys from a node on.
RECURSIVE Chain(_)
Chain(n) == IF n = Null THEN <<>> ELSE <<data[n]>> \o Chain(next[n])
Order == Chain(next[HeadNode])

L == INSTANCE LRU WITH order <- Order

\* The map has the nodes of the list, and head.prev points to the last one.
Sound ==
    /\ Order # <<>> => prev[HeadNode] \in Nodes /\ data[prev[HeadNode]] = Last(Order)
    /\ DOMAIN map = ToSet(Order) /\ \A k \in DOMAIN map : data[map[k]] = k

LastRemoved == Order # <<>> /\ Order' = Front(Order)

\* In a sound cache a call is one of the abstract cache, follows no pointer to
\* a freed node and meets no failing assertion of remove_last and insert; and
\* the cache stays sound unless the last element of the list was removed, to
\* which head.prev points from then on.
SoundStep == Sound => L!LRUStep /\ ~failed' /\ (Sound' \/ LastRemoved)
=============================================================================
