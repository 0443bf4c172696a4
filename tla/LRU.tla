-------------------------------- MODULE LRU --------------------------------
(***************************************************************************)
(* What a cache with least-recently-used replacement promises: it holds at *)
(* most cap keys, and the key it gives up is the one not used for longest. *)
(***************************************************************************)
EXTENDS Naturals, Sequences, SequencesExt

CONSTANTS Keys, cap

VARIABLE order     \* the keys held, the most recently used first

LRUInit == order = <<>>

use(k) == Contains(order, k) /\ order' = <<k>> \o Remove(order, k)

add(k) == /\ ~Contains(order, k)
          /\ order' = <<k>> \o SubSeq(order, 1, IF Len(order) < cap THEN Len(order) ELSE cap - 1)

drop(k) == Contains(order, k) /\ order' = Remove(order, k)

LRUNext == \E k \in Keys : use(k) \/ add(k) \/ drop(k)

LRUStep == [LRUNext]_order

LRUSpec == LRUInit /\ [][LRUStep]_order
=============================================================================
