----------------------------- MODULE LevelIter -----------------------------
(***************************************************************************)
(* VersionIter (version.rs): an iterator over the tables of a level, which *)
(* are disjoint and in order.  The tables' own iterators keep the contract *)
(* of LdbIterator; a table that the table cache cannot open is unreadable. *)
(***************************************************************************)
EXTENDS Naturals, Sequences, FiniteSetsExt

CONSTANTS Keys,            \* 1 .. number of entries
          MaxUnreadable,   \* bound on the tables that cannot be opened
          AfterEnd         \* whether advance is called on an iterator that ran out
                           \* of entries (MergingIter resets the iterator first)

VARIABLES files,        \* the entries of each table
          unreadable,
          current_ix,   \* from 1 on
          cur,          \* the iterator over a table: [table, at], table 0 for none
          call

vars == <<files, unreadable, current_ix, cur, call>>

NoTable == [table |-> 0, at |-> 0]

C == INSTANCE Cursor WITH
        SeekKeys <- Keys,
        content <- UNION {files[i] : i \in DOMAIN files},
        at <- cur.at

Ordered(fs) == /\ \A i \in DOMAIN fs : fs[i] # {}
               /\ \A i, j \in DOMAIN fs : i < j => Max(fs[i]) < Min(fs[j])

Init == /\ files \in {fs \in UNION {[1 .. n -> SUBSET Keys] : n \in 1 .. 3} : Ordered(fs)}
        /\ unreadable \in {u \in SUBSET DOMAIN files : Cardinality(u) <= MaxUnreadable}
        /\ current_ix = 1 /\ cur = NoTable
        /\ call = C!Call("new", 0, FALSE)

Called(name, key) ==
    /\ call' = C!Call(name, key, name \in {"advance", "prev"} /\ cur'.at # 0)
    /\ UNCHANGED <<files, unreadable>>

First(i) == [table |-> i, at |-> Min(files[i])]
Following == C!Smallest({k \in files[cur.table] : k > cur.at})

\* advance.  A table that cannot be opened ends the iteration, and the
\* iterator that was exhausted stays in place.
advance ==
    /\ cur.at = 0 /\ call.op \notin {"new", "reset"} => AfterEnd
    /\ IF cur.table = 0
       THEN /\ cur' = IF current_ix \in unreadable THEN NoTable ELSE First(current_ix)
            /\ UNCHANGED current_ix
       ELSE IF Following # 0 \/ current_ix = Len(files)
       THEN cur' = [cur EXCEPT !.at = Following] /\ UNCHANGED current_ix
       ELSE /\ current_ix' = current_ix + 1
            /\ cur' = IF current_ix' \in unreadable THEN [cur EXCEPT !.at = 0]
                      ELSE First(current_ix')
    /\ Called("advance", 0)

\* find_file: a binary search for the first table that ends at or after key.
find_file(key) == C!Smallest({i \in DOMAIN files : Max(files[i]) >= key})

seek(key) ==
    LET i == find_file(key)
    IN  /\ IF i = 0 \/ i \in unreadable THEN cur' = NoTable /\ current_ix' = 1
           ELSE /\ cur' = [table |-> i, at |-> C!Smallest({k \in files[i] : k >= key})]
                /\ current_ix' = i
        /\ Called("seek", key)

reset == cur' = NoTable /\ current_ix' = 1 /\ Called("reset", 0)

\* prev: within the table, or the largest entry of the table before.
Preceding == C!Largest({k \in files[cur.table] : k < cur.at})

prev ==
    /\ cur.at # 0
    /\ IF Preceding # 0 THEN cur' = [cur EXCEPT !.at = Preceding] /\ UNCHANGED current_ix
       ELSE IF current_ix > 1 /\ current_ix - 1 \notin unreadable
       THEN /\ cur' = [table |-> current_ix - 1, at |-> Max(files[current_ix - 1])]
            /\ current_ix' = current_ix - 1
       ELSE cur' = NoTable /\ current_ix' = 1
    /\ Called("prev", 0)

Next == advance \/ prev \/ reset \/ \E key \in Keys : seek(key)

Spec == Init /\ [][Next]_vars

\* An advance from an entry to an entry passes over none.
SkipsNothing == call'.op = "advance" /\ cur.at # 0 /\ cur'.at # 0 => C!advance
=============================================================================
