------------------------------- MODULE Cursor -------------------------------
(***************************************************************************)
(* What the trait LdbIterator promises (types.rs): a cursor over a sorted  *)
(* set of keys.  A key is a positive number, its rank in the order of the  *)
(* comparator; 0 is the place before the first key, where the cursor is    *)
(* not valid.  The iterators of the storage engine are shown to implement  *)
(* this specification, or the call that breaks it is shown.                *)
(***************************************************************************)
EXTENDS Naturals, FiniteSetsExt

CONSTANT SeekKeys     \* the keys that seek is called with

VARIABLES content,    \* the keys under the cursor
          at,         \* the key it stands on, 0 when not valid
          call        \* the last call and what it returned

cursorVars == <<content, at, call>>

\* The smallest and the largest key of a set, 0 when it is empty.
Smallest(S) == IF S = {} THEN 0 ELSE Min(S)
Largest(S) == IF S = {} THEN 0 ELSE Max(S)

Call(name, key, ret) == [op |-> name, key |-> key, ret |-> ret]

CursorInit == at = 0 /\ call = Call("new", 0, FALSE)

\* "Advances the position of the iterator by one element.  If no more elements
\* are available, advance() returns false, and the iterator becomes invalid."
advance ==
    /\ call' = Call("advance", 0, at' # 0)
    /\ at' = Smallest({k \in content : k > at})
    /\ UNCHANGED content

\* "Go to the previous item; if the iterator is moved beyond the first
\* element, prev() returns false and it will be !valid()."
prev ==
    /\ call' = Call("prev", 0, at' # 0)
    /\ at' = Largest({k \in content : k < at})
    /\ UNCHANGED content

\* "Seek the iterator to key or the next bigger key.  If the seek is past the
\* last element the iterator is reset() and not valid."
seek(key) ==
    /\ call' = Call("seek", key, FALSE)
    /\ at' = Smallest({k \in content : k >= key})
    /\ UNCHANGED content

reset ==
    /\ call' = Call("reset", 0, FALSE)
    /\ at' = 0
    /\ UNCHANGED content

\* Keys come in under the cursor, which stays where it is.
grow ==
    /\ call' = Call("insert", 0, FALSE)
    /\ content \subseteq content'
    /\ UNCHANGED at

CursorNext == advance \/ prev \/ reset \/ grow \/ \E key \in SeekKeys : seek(key)

CursorStep == [CursorNext]_cursorVars

CursorSpec == CursorInit /\ [][CursorStep]_cursorVars
=============================================================================
