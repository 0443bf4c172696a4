------------------------------- MODULE DBIter -------------------------------
(***************************************************************************)
(* DBIterator (db_iter.rs): the user keys of the database as of a          *)
(* snapshot, out of all versions of all keys.  The iterator below it keeps *)
(* the contract of LdbIterator; new versions come in while it is open.     *)
(*                                                                         *)
(* An entry is its place in the order of internal keys: by user key, the   *)
(* newest version first.                                                   *)
(***************************************************************************)
EXTENDS Naturals, FiniteSetsExt

CONSTANTS UserKeys,       \* 1 .. number of user keys
          NumSeqs,        \* bound on the sequence numbers
          Snapshot,       \* the sequence number of the snapshot
          MaxEntries      \* bound on the entries

VARIABLES entries, deletions,   \* the entries, and those that are deletions
          pos,                  \* the entry below, 0 when not valid
          dir, valid,
          savedkey,             \* a user key, 0 when cleared
          call

vars == <<entries, deletions, pos, dir, valid, savedkey, call>>

Entry(u, s) == (u - 1) * NumSeqs + (NumSeqs - s + 1)
User(e) == ((e - 1) \div NumSeqs) + 1
SeqOf(e) == NumSeqs - ((e - 1) % NumSeqs)

\* The user keys whose newest version in the snapshot is a value.
Versions(u) == {e \in entries : User(e) = u /\ SeqOf(e) <= Snapshot}
Visible == {u \in UserKeys : Versions(u) # {} /\ Min(Versions(u)) \notin deletions}

At == IF ~valid THEN 0 ELSE IF dir = "Forward" THEN User(pos) ELSE savedkey

C == INSTANCE Cursor WITH SeekKeys <- UserKeys, content <- Visible, at <- At
\* The same without what the calls return.
Positions == INSTANCE Cursor WITH SeekKeys <- UserKeys, content <- Visible, at <- At,
                call <- [call EXCEPT !.ret = At # 0 /\ call.op \in {"advance", "prev"}]

After(p) == C!Smallest({e \in entries : e > p})
Before(p) == C!Largest({e \in entries : e < p})

\* One entry for a sequence number: every write has a number of its own.
Distinct(es) == \A e, f \in es : SeqOf(e) = SeqOf(f) => e = f

Init == /\ \E s \in 0 .. Snapshot :
              entries \in {es \in SUBSET {Entry(u, q) : u \in UserKeys, q \in 1 .. s} :
                             Cardinality(es) <= MaxEntries /\ Distinct(es)}
        /\ deletions \in SUBSET entries
        /\ pos = 0 /\ dir = "Forward" /\ valid = FALSE /\ savedkey = 0
        /\ call = C!Call("new", 0, FALSE)

\* A write after the snapshot was taken.
write(u, deletion) ==
    /\ Cardinality(entries) < MaxEntries
    /\ LET s == Max({Snapshot} \cup {SeqOf(e) : e \in entries}) + 1
       IN  /\ s <= NumSeqs
           /\ entries' = entries \cup {Entry(u, s)}
           /\ deletions' = IF deletion THEN deletions \cup {Entry(u, s)} ELSE deletions
    /\ call' = C!Call("insert", 0, FALSE)
    /\ UNCHANGED <<pos, dir, valid, savedkey>>

\* find_next_user_entry from entry p on: versions newer than the snapshot are
\* passed over, and so are the versions behind a deletion.
RECURSIVE FindNext(_, _, _)
\* A search that does not remember the deleted key.
FindNext_Forgets(p, skipping, saved) ==
    IF p = 0 THEN [pos |-> 0, valid |-> FALSE]
    ELSE IF SeqOf(p) > Snapshot \/ p \in deletions THEN FindNext(After(p), skipping, saved)
    ELSE IF skipping /\ User(p) <= saved THEN FindNext(After(p), skipping, saved)
    ELSE [pos |-> p, valid |-> TRUE]

FindNext(p, skipping, saved) ==
    IF p = 0 THEN [pos |-> 0, valid |-> FALSE]
    ELSE IF SeqOf(p) > Snapshot THEN FindNext(After(p), skipping, saved)
    ELSE IF p \in deletions THEN FindNext(After(p), TRUE, User(p))
    ELSE IF skipping /\ User(p) <= saved THEN FindNext(After(p), skipping, saved)
    ELSE [pos |-> p, valid |-> TRUE]

\* find_prev_user_entry from entry p back: the newest version of the first
\* key whose newest version is not a deletion.
RECURSIVE FindPrev(_, _, _)
FindPrev(p, found, saved) ==
    IF p = 0 THEN [pos |-> 0, found |-> found, saved |-> saved]
    ELSE IF SeqOf(p) > Snapshot THEN FindPrev(Before(p), found, saved)
    ELSE IF found /\ User(p) < saved THEN [pos |-> p, found |-> found, saved |-> saved]
    ELSE IF p \in deletions THEN FindPrev(Before(p), FALSE, 0)
    ELSE FindPrev(Before(p), TRUE, User(p))

Called(name, key, ret) ==
    call' = C!Call(name, key, ret) /\ UNCHANGED <<entries, deletions>>

Forward(r) == /\ pos' = r.pos /\ valid' = r.valid /\ savedkey' = 0
              /\ dir' = "Forward"

advance ==
    /\ \/ ~valid /\ Forward(FindNext(After(0), FALSE, 0))
       \/ valid /\ dir = "Forward" /\ Forward(FindNext(pos, TRUE, User(pos)))
       \/ valid /\ dir = "Reverse" /\ Forward(FindNext(After(pos), TRUE, savedkey))
    /\ Called("advance", 0, valid')

\* prev.  Going forward, the iterator below first goes back to an entry of a
\* smaller user key.
SmallerUser == C!Largest({e \in entries : User(e) < User(pos)})
prev ==
    /\ \/ ~valid /\ UNCHANGED <<pos, dir, valid, savedkey>> /\ Called("prev", 0, FALSE)
       \/ /\ valid /\ dir = "Forward" /\ SmallerUser = 0
          /\ pos' = 0 /\ valid' = FALSE /\ savedkey' = 0 /\ UNCHANGED dir
          /\ Called("prev", 0, FALSE)
       \/ /\ valid /\ (dir = "Forward" => SmallerUser # 0)
          /\ LET r == IF dir = "Forward" THEN FindPrev(SmallerUser, FALSE, 0)
                      ELSE FindPrev(pos, FALSE, 0)
             IN  /\ pos' = r.pos /\ valid' = r.found
                 /\ savedkey' = IF r.found THEN r.saved ELSE 0
                 /\ dir' = IF r.found THEN "Reverse" ELSE "Forward"
          /\ Called("prev", 0, TRUE)

seek(u) ==
    /\ Forward(FindNext(C!Smallest({e \in entries : e >= Entry(u, Snapshot)}), FALSE, 0))
    /\ Called("seek", u, FALSE)

reset == /\ pos' = 0 /\ valid' = FALSE /\ savedkey' = 0
         /\ Called("reset", 0, FALSE) /\ UNCHANGED dir

Next == \/ advance \/ prev \/ reset
        \/ \E u \in UserKeys : seek(u) \/ \E d \in BOOLEAN : write(u, d)

Spec == Init /\ [][Next]_vars
=============================================================================
