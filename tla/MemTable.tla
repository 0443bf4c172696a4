------------------------------ MODULE MemTable ------------------------------
(***************************************************************************)
(* The memtable: the skip list of skipmap.rs, the entries and the lookup   *)
(* of memtable.rs, and an iterator that stays open while entries are       *)
(* inserted, as the iterators of DB::new_iter do.                          *)
(*                                                                         *)
(* An entry is the version of a user key written with a sequence number.   *)
(* cmp_memtable_key orders the entries by user key and, for one user key,  *)
(* the newest first; an entry is modelled by its place in that order.      *)
(***************************************************************************)
EXTENDS Integers, FiniteSets, TLC

CONSTANTS UserKeys,     \* 1 .. number of user keys
          Seqs,         \* 1 .. number of sequence numbers
          MAX_HEIGHT,   \* levels of the skip list
          MaxEntries,   \* bound on the entries inserted
          Deletions     \* the sequence numbers that are deletions

VARIABLES skips,     \* for each node the nodes its skip links point to, by level
          next,      \* for each node the node it owns, the next one
          current,   \* the node the iterator stands on
          call

vars == <<skips, next, current, call>>

Head == 0
None == -1

NumSeqs == Cardinality(Seqs)
Entry(u, s) == (u - 1) * NumSeqs + (NumSeqs - s + 1)
UserKey(e) == ((e - 1) \div NumSeqs) + 1
Seq(e) == NumSeqs - ((e - 1) % NumSeqs)
Entries == {Entry(u, s) : u \in UserKeys, s \in Seqs}
IsDeletion(e) == Seq(e) \in Deletions

Inserted == DOMAIN next \ {Head}
Valid == current # Head

C == INSTANCE Cursor WITH SeekKeys <- Entries, content <- Inserted, at <- current

Init == /\ skips = (Head :> [l \in 0 .. MAX_HEIGHT - 1 |-> None])
        /\ next = (Head :> None)
        /\ current = Head /\ call = C!Call("new", 0, FALSE)

(* Searching: from the highest level of the head node down. *)

RECURSIVE Last(_, _, _)
Last(node, level, key) ==
    LET n == skips[node][level]
    IN  IF n # None /\ n < key THEN Last(n, level, key) ELSE node

\* The node at which the search for key goes down from a level.
RECURSIVE Before(_, _)
Before(level, key) ==
    Last(IF level = MAX_HEIGHT - 1 THEN Head ELSE Before(level + 1, key), level, key)

get_greater_or_equal(key) == skips[Before(0, key)][0]
get_next_smaller(key) == Before(0, key)

\* InnerSkipMap::insert: the search remembers the nodes before the new one on
\* its levels.  "No duplicates allowed": sequence numbers are unique.
insert(e, height) ==
    /\ e \notin Inserted /\ Cardinality(Inserted) < MaxEntries
    /\ skips' = (e :> [l \in 0 .. height - 1 |-> skips[Before(l, e)][l]])
                @@ [n \in DOMAIN skips |->
                      [l \in DOMAIN skips[n] |->
                         IF l < height /\ Before(l, e) = n THEN e ELSE skips[n][l]]]
    /\ next' = (e :> next[Before(0, e)]) @@ [next EXCEPT ![Before(0, e)] = e]
    /\ call' = C!Call("insert", 0, FALSE)
    /\ UNCHANGED current

Moves(node, name, key, ret) ==
    /\ current' = node
    /\ call' = C!Call(name, key, ret)
    /\ UNCHANGED <<skips, next>>

OrHead(n) == IF n = None THEN Head ELSE n

\* SkipMapIter::advance follows the owned nodes and not the skip links.
advance == Moves(OrHead(next[current]), "advance", 0, next[current] # None)
reset == Moves(Head, "reset", 0, FALSE)
seek(e) == Moves(OrHead(get_greater_or_equal(e)), "seek", e, FALSE)

\* MemtableIterator::prev goes on over deletions.
RECURSIVE PrevValue(_)
PrevValue(node) ==
    LET p == get_next_smaller(node)
    IN  IF p # Head /\ IsDeletion(p) THEN PrevValue(p) ELSE p
prev == LET p == IF Valid THEN PrevValue(current) ELSE Head
        IN  Moves(p, "prev", 0, p # Head)

Next == \/ \E e \in Entries, h \in 1 .. MAX_HEIGHT : insert(e, h)
        \/ advance \/ prev \/ reset
        \/ \E e \in Entries : seek(e)

Spec == Init /\ [][Next]_vars

\* MemTable::get: the first entry at or after the lookup key, if it is of the
\* same user key.
get(u, s) ==
    LET n == get_greater_or_equal(Entry(u, s))
    IN  IF n # None /\ UserKey(n) = u
        THEN IF IsDeletion(n) THEN <<"deleted", Seq(n)>> ELSE <<"value", Seq(n)>>
        ELSE <<"none", 0>>

\* A lookup finds the newest entry of the user key that is not newer than the
\* sequence number asked for, and nothing only if there is none.
GetIsNewest ==
    \A u \in UserKeys, s \in Seqs :
        LET older == {e \in Inserted : UserKey(e) = u /\ Seq(e) <= s}
        IN  IF older = {} THEN get(u, s) = <<"none", 0>>
            ELSE /\ get(u, s)[2] = Seq(CHOOSE e \in older : \A f \in older : Seq(f) <= Seq(e))
                 /\ get(u, s)[1] = IF get(u, s)[2] \in Deletions THEN "deleted" ELSE "value"

\* The links of each level visit, in order, exactly the nodes high enough for
\* it; the owned chain is the one of level 0 (dbg_print walks one, advance the
\* other).
LevelsAreSorted ==
    \A n \in DOMAIN skips : \A l \in DOMAIN skips[n] :
        LET after == {m \in Inserted : m > n /\ l \in DOMAIN skips[m]}
        IN  /\ skips[n][l] = IF after = {} THEN None
                             ELSE CHOOSE m \in after : \A k \in after : m <= k
            /\ l = 0 => next[n] = skips[n][l]
=============================================================================
