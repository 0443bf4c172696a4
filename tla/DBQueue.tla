------------------------------ MODULE DBQueue ------------------------------
(***************************************************************************)
(* A queue of the storage service (DBQueue): its head, its tail and its    *)
(* elements are entries of the database.  The index of an element is a     *)
(* u32 and the key of an element ends with the four bytes of its index;    *)
(* the keys of head and tail end with the four letters "head" and "tail",  *)
(* so that two indices have the same keys as these.                        *)
(*                                                                         *)
(* A write of the database that fails may have its effect all the same: it *)
(* inserts into the memtable before it writes the log.  A read that fails  *)
(* looks like a missing entry: DB::get turns its error into None.          *)
(***************************************************************************)
EXTENDS Naturals, Sequences

CONSTANTS
  Elements,
  Width,       \* 2^32
  HEAD, TAIL,  \* the indices whose bytes spell "head" and "tail"
  MaxTail,     \* bound: the indices from here on are not used
  Faulty,      \* whether a write may fail
  ReadsFail    \* whether a read may fail

ASSUME DBQueueAssumption ==
  /\ Width \in Nat \ {0} /\ MaxTail \in Nat
  /\ Faulty \in BOOLEAN /\ ReadsFail \in BOOLEAN
  /\ HEAD \in Nat /\ TAIL \in Nat /\ HEAD # TAIL

VARIABLES
  db,      \* key -> contents of an entry
  ret,     \* what the last call returned
  astray   \* history: a call wrote elsewhere than at the head or the tail

vars == <<db, ret, astray>>

Ok(v) == <<"ok", v>>
Err(why) == <<"err", why>>
Done == "done"

Indices == 0 .. Width - 1

\* get_head_key, get_tail_key and get_element_key.
head_key == <<"head", 0>>
tail_key == <<"tail", 0>>
element_key(i) == CASE i = HEAD -> head_key
                    [] i = TAIL -> tail_key
                    [] OTHER -> <<"element", i>>
DBKeys == {head_key, tail_key} \cup {<<"element", i>> : i \in Indices}

Absent == <<"absent", 0>>
U32(n) == <<"u32", n>>
Bytes(v) == <<"bytes", v>>
Put(d, key, contents) == [d EXCEPT ![key] = contents]

\* What DB::get may return of the database d.
get(d, key) == {d[key]} \cup IF ReadsFail THEN {Absent} ELSE {}

\* An entry that is missing, not four bytes long or not read counts as zero.
read_u32(contents) == IF contents[1] = "u32" THEN contents[2] ELSE 0
get_head(d) == {read_u32(contents) : contents \in get(d, head_key)}
get_tail(d) == {read_u32(contents) : contents \in get(d, tail_key)}

\* Where the queue that is stored begins and ends, and how long it is.
head(d) == read_u32(d[head_key])
tail(d) == read_u32(d[tail_key])
len(d) == IF tail(d) >= head(d) THEN tail(d) - head(d)
          ELSE Width - 1 - head(d) + tail(d) + 1

wrapping_add(n) == (n + 1) % Width

Init ==
    /\ db = [k \in DBKeys |-> Absent]
    /\ ret = Ok(Done)
    /\ astray = FALSE

\* DBQueue::enqueue: the element, the tail, then a flush.
Enqueue(v) ==
    \E t \in get_tail(db) :
      LET WithElement == Put(db, element_key(t), Bytes(v))
          WithBoth == Put(WithElement, tail_key, U32(wrapping_add(t)))
      IN  /\ t < MaxTail
          /\ \/ db' = WithBoth /\ ret' = Ok(Done)
             \/ /\ Faulty /\ ret' = Err("database")
                /\ db' \in {db, WithElement, WithBoth}
          /\ astray' = (astray \/ t # tail(db))

\* The element is deleted before the head is moved on.
Dequeue_DeleteFirst ==
    \E h \in get_head(db), t \in get_tail(db) : \E found \in get(db, element_key(h)) :
      LET Deleted == Put(db, element_key(h), Absent)
          Moved == Put(Deleted, head_key, U32(wrapping_add(h)))
      IN  \/ h = t /\ ret' = Err("empty") /\ UNCHANGED <<db, astray>>
          \/ h # t /\ found = Absent /\ ret' = Err("no element") /\ UNCHANGED <<db, astray>>
          \/ /\ h # t /\ found # Absent /\ h < MaxTail
             /\ \/ db' = Moved /\ ret' = Ok(found[2])
                \/ Faulty /\ ret' = Err("database") /\ db' \in {db, Deleted, Moved}
             /\ astray' = (astray \/ h # head(db) \/ head(db) = tail(db))

\* DBQueue::dequeue: the head, the deletion of the element, then a compaction.
Dequeue ==
    \E h \in get_head(db), t \in get_tail(db) : \E found \in get(db, element_key(h)) :
      LET Moved == Put(db, head_key, U32(wrapping_add(h)))
          Deleted == Put(Moved, element_key(h), Absent)
      IN  \/ h = t /\ ret' = Err("empty") /\ UNCHANGED <<db, astray>>
          \/ h # t /\ found = Absent /\ ret' = Err("no element") /\ UNCHANGED <<db, astray>>
          \/ /\ h # t /\ found # Absent /\ h < MaxTail
             /\ \/ db' = Deleted /\ ret' = Ok(found[2])
                \/ Faulty /\ ret' = Err("database") /\ db' \in {db, Moved, Deleted}
             /\ astray' = (astray \/ h # head(db) \/ head(db) = tail(db))

Next == Dequeue \/ \E v \in Elements : Enqueue(v)

Spec == Init /\ [][Next]_vars

-----------------------------------------------------------------------------
\* The elements between head and tail, oldest first.
Waiting(d) == [i \in 1 .. len(d) |-> d[element_key((head(d) + i - 1) % Width)][2]]

Q == INSTANCE Queue WITH queue <- Waiting(db)

\* A queue in the database is a queue: elements leave it in the order in which
\* they entered it and none twice, whatever write of enqueue or dequeue fails
\* in between; only a call that reported an error may have lost its element.
\* A failed read of the head, the tail or an element makes a dequeue report a
\* missing element at most, until a call has gone astray: an enqueue that took
\* 0 for the tail it could not read writes over the queue, and a dequeue may
\* find a left-over at 0 or behind the tail ("what if there are errors when
\* doing get_tail and get_head", service.rs:45).
QueueIsFifo ==
    /\ Q!Init
    /\ [][~astray' => [Q!Next]_<<Waiting(db), ret>>]_vars
=============================================================================
