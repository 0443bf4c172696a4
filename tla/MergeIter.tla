----------------------------- MODULE MergeIter -----------------------------
(***************************************************************************)
(* MergingIter (merging_iter.rs): one iterator over several, each of which *)
(* keeps the contract of LdbIterator.  The entries of all of them are      *)
(* different ("two entries will always have differing sequence numbers");  *)
(* an entry is its rank in the order of the comparator.                    *)
(***************************************************************************)
EXTENDS Integers, FiniteSetsExt

CONSTANTS Iters,     \* 0 .. number of iterators - 1
          Keys,      \* 1 .. number of entries
          Ops,       \* the calls made
          AfterEnd   \* whether advance is called on an iterator that ran out of
                     \* entries (DBIterator goes to the first entry instead)

VARIABLES owner,     \* the iterator that has an entry, None if no one has
          pos,       \* the entry each iterator stands on, 0 when not valid
          current,   \* the index of the current iterator, or None
          direction,
          call

vars == <<owner, pos, current, direction, call>>

None == -1
Content(i) == {k \in Keys : owner[k] = i}

C == INSTANCE Cursor WITH
        SeekKeys <- Keys,
        content <- {k \in Keys : owner[k] # None},
        at <- IF current = None THEN 0 ELSE pos[current]

\* The calls of an iterator that keeps the contract.
Advanced(i, p) == C!Smallest({k \in Content(i) : k > p})
Sought(i, key) == C!Smallest({k \in Content(i) : k >= key})
Preceding(i, p) == C!Largest({k \in Content(i) : k < p})

Init == /\ owner \in [Keys -> Iters \cup {None}]
        /\ pos = [i \in Iters |-> 0]
        /\ current = None /\ direction = "Forward"
        /\ call = C!Call("new", 0, FALSE)

\* find: the first of the iterators whose entry is the smallest or largest.
find(p, smallest) ==
    LET valid == {i \in Iters : p[i] # 0}
        best(i) == \A j \in valid : IF smallest THEN p[i] <= p[j] ELSE p[i] >= p[j]
    IN  IF valid = {} THEN 0 ELSE Min({i \in valid : best(i)})

\* update_direction: the other iterators are put behind the current entry, or
\* before it.  An iterator that has nothing behind the entry is advanced until
\* its end, where it is not valid.
Redirected(p, d) ==
    IF direction = d \/ p[current] = 0 THEN p
    ELSE [i \in Iters |->
            IF i = current THEN p[i]
            ELSE LET s == Sought(i, p[current])
                 IN  IF d = "Forward"
                     THEN IF s = p[current] THEN Advanced(i, s) ELSE s
                     ELSE IF s # 0 THEN Preceding(i, s) ELSE 0]
NewDirection(d) == IF pos[current] # 0 THEN d ELSE direction

ValidNow == current' # None /\ pos'[current'] # 0
Called(name, key) ==
    /\ name \in Ops
    /\ call' = C!Call(name, key, name \in {"advance", "prev"} /\ ValidNow)
    /\ UNCHANGED owner

advance ==
    /\ current # None => (pos[current] = 0 => AfterEnd)
    /\ IF current = None
       THEN pos' = [i \in Iters |-> Advanced(i, 0)] /\ UNCHANGED direction
       ELSE LET p == Redirected(pos, "Forward")
            IN  /\ pos' = [p EXCEPT ![current] = Advanced(current, p[current])]
                /\ direction' = NewDirection("Forward")
    /\ current' = find(pos', TRUE)
    /\ Called("advance", 0)

\* seek and reset leave the direction as it is.
seek(key) ==
    /\ pos' = [i \in Iters |-> Sought(i, key)]
    /\ current' = find(pos', TRUE)
    /\ Called("seek", key) /\ UNCHANGED direction

reset ==
    /\ pos' = [i \in Iters |-> 0]
    /\ current' = None
    /\ Called("reset", 0) /\ UNCHANGED direction

prev ==
    /\ IF current = None THEN UNCHANGED <<pos, current, direction>>
       ELSE IF pos[current] = 0 THEN UNCHANGED <<pos, current, direction>>
       ELSE LET p == Redirected(pos, "Reverse")
            IN  /\ pos' = [p EXCEPT ![current] = Preceding(current, p[current])]
                /\ direction' = "Reverse"
                /\ current' = find(pos', FALSE)
    /\ Called("prev", 0)

Next == advance \/ prev \/ reset \/ \E key \in Keys : seek(key)

Spec == Init /\ [][Next]_vars

\* A step that ends on an entry has moved in its direction.
MonotoneMove ==
    /\ call'.op = "advance" /\ ValidNow /\ current # None => pos'[current'] > pos[current]
    /\ call'.op = "prev" /\ ValidNow => pos'[current'] < pos[current]
=============================================================================
