--------------------------- MODULE DBQueueProofs ---------------------------
(***************************************************************************)
(* A queue in the database implements a queue for every set of elements    *)
(* and every width of the index, as long as its tail has not reached one   *)
(* of the two indices whose bytes spell "head" or "tail".                  *)
(***************************************************************************)
EXTENDS DBQueue, TLAPS

\* The bound on the tail that the theorems are about.
NamesOutOfReach == MaxTail =< HEAD /\ MaxTail =< TAIL /\ MaxTail < Width

\* Head and tail are in order, and the elements between them are there.
Sound(d) ==
    /\ d = [k \in DBKeys |-> d[k]]
    /\ \A k \in {head_key, tail_key} :
          d[k] = Absent \/ \E n \in Nat : d[k] = U32(n)
    /\ head(d) \in Nat /\ tail(d) \in Nat
    /\ head(d) =< tail(d) /\ tail(d) =< MaxTail
    /\ \A i \in Nat : head(d) =< i /\ i < tail(d) =>
          \E v \in Elements : d[<<"element", i>>] = Bytes(v)

IndInv == ~astray => Sound(db)

\* The keys that a queue uses below the bound are different from each other.
LEMMA KeysDiffer ==
  ASSUME NamesOutOfReach
  PROVE  /\ head_key # tail_key /\ head_key \in DBKeys /\ tail_key \in DBKeys
         /\ \A i \in Nat : i < MaxTail =>
               /\ element_key(i) = <<"element", i>>
               /\ element_key(i) \in DBKeys
               /\ element_key(i) # head_key /\ element_key(i) # tail_key
         /\ \A i, j : <<"element", i>> = <<"element", j>> => i = j
<1>1. \A i \in Nat : i < MaxTail => i \in Indices /\ i # HEAD /\ i # TAIL
  BY DBQueueAssumption DEF NamesOutOfReach, Indices
<1>2. \A i : <<"element", i>> # head_key /\ <<"element", i>> # tail_key
  BY Zenon DEF head_key, tail_key
<1>3. head_key # tail_key
  BY Zenon DEF head_key, tail_key
<1>4. \A i, j : <<"element", i>> = <<"element", j>> => i = j
  BY Zenon
<1>5. \A i \in Nat : i < MaxTail => element_key(i) = <<"element", i>>
  BY Zenon, <1>1 DEF element_key
<1> QED
  BY Zenon, <1>1, <1>2, <1>3, <1>4, <1>5 DEF DBKeys

\* What is read back from an entry that was written, and from the others.
LEMMA PutGet ==
  ASSUME NEW d, d = [k \in DBKeys |-> d[k]], NEW key \in DBKeys, NEW c
  PROVE  /\ Put(d, key, c) = [k \in DBKeys |-> Put(d, key, c)[k]]
         /\ Put(d, key, c)[key] = c
         /\ \A k \in DBKeys : k # key => Put(d, key, c)[k] = d[k]
BY Zenon DEF Put

\* Tags of contents are told apart.
LEMMA Tags ==
  /\ read_u32(Absent) = 0
  /\ \A n : read_u32(U32(n)) = n
  /\ \A v : Bytes(v) # Absent /\ Bytes(v)[2] = v
BY Zenon DEF read_u32, Absent, U32, Bytes

\* In a sound database the waiting elements are those from head to tail.
LEMMA WaitingIs ==
  ASSUME NamesOutOfReach, NEW d, Sound(d)
  PROVE  /\ len(d) = tail(d) - head(d) /\ len(d) \in Nat
         /\ Waiting(d) \in Seq(Elements) /\ Len(Waiting(d)) = len(d)
         /\ \A i \in 1 .. len(d) : Waiting(d)[i] = d[<<"element", head(d) + i - 1>>][2]
         /\ head(d) = tail(d) <=> Waiting(d) = <<>>
<1>1. len(d) = tail(d) - head(d) /\ len(d) \in Nat
  BY DEF Sound, len
<1>2. ASSUME NEW i \in 1 .. len(d)
      PROVE  /\ (head(d) + i - 1) % Width = head(d) + i - 1
             /\ head(d) + i - 1 \in Nat /\ head(d) + i - 1 < tail(d)
             /\ head(d) =< head(d) + i - 1
  <2>1. head(d) + i - 1 \in Nat /\ head(d) + i - 1 < tail(d) /\ head(d) =< head(d) + i - 1
    BY <1>1 DEF Sound
  <2>2. head(d) + i - 1 < Width
    BY <2>1, DBQueueAssumption DEF Sound, NamesOutOfReach
  <2> QED
    BY <2>1, <2>2, DBQueueAssumption
<1>3. ASSUME NEW i \in 1 .. len(d)
      PROVE  /\ Waiting(d)[i] = d[<<"element", head(d) + i - 1>>][2]
             /\ Waiting(d)[i] \in Elements
  <2>1. Waiting(d)[i] = d[element_key(head(d) + i - 1)][2]
    BY Zenon, <1>2 DEF Waiting
  <2>2. head(d) + i - 1 < MaxTail
    BY <1>2, DBQueueAssumption DEF Sound
  <2>3. element_key(head(d) + i - 1) = <<"element", head(d) + i - 1>>
    BY Zenon, <1>2, <2>2, KeysDiffer
  <2>4. PICK v \in Elements : d[<<"element", head(d) + i - 1>>] = Bytes(v)
    BY Zenon, <1>2 DEF Sound
  <2> QED
    BY <2>1, <2>3, <2>4, Tags
<1>4. Waiting(d) = [i \in 1 .. len(d) |-> Waiting(d)[i]]
  BY Zenon DEF Waiting
<1>5. Waiting(d) \in Seq(Elements) /\ Len(Waiting(d)) = len(d)
  <2>1. Waiting(d) \in [1 .. len(d) -> Elements]
    BY Zenon, <1>3, <1>4
  <2> QED
    BY <1>1, <2>1
<1>6. head(d) = tail(d) <=> Waiting(d) = <<>>
  <2>1. len(d) = 0 <=> Waiting(d) = <<>>
    BY <1>5
  <2> QED
    BY <1>1, <2>1 DEF Sound
<1> QED
  BY Zenon, <1>1, <1>3, <1>5, <1>6

\* A sequence that has one more element at its end.
LEMMA IsAppend ==
  ASSUME NEW S, NEW s \in Seq(S), NEW t \in Seq(S), NEW v \in S,
         Len(t) = Len(s) + 1, t[Len(t)] = v,
         \A i \in 1 .. Len(s) : t[i] = s[i]
  PROVE  t = Append(s, v)
<1>1. Len(Append(s, v)) = Len(t) /\ Append(s, v) \in Seq(S)
  OBVIOUS
<1>2. \A i \in 1 .. Len(t) : t[i] = Append(s, v)[i]
  OBVIOUS
<1> QED
  BY <1>1, <1>2

\* A sequence that lacks the first element.
LEMMA IsTail ==
  ASSUME NEW S, NEW s \in Seq(S), NEW t \in Seq(S), s # <<>>,
         Len(s) = Len(t) + 1,
         \A i \in 1 .. Len(t) : t[i] = s[i + 1]
  PROVE  t = Tail(s)
<1>1. Len(Tail(s)) = Len(t) /\ Tail(s) \in Seq(S)
  OBVIOUS
<1>2. \A i \in 1 .. Len(t) : t[i] = Tail(s)[i]
  OBVIOUS
<1> QED
  BY <1>1, <1>2

-----------------------------------------------------------------------------
\* A call that has gone astray has done so for ever.
LEMMA EnqueueFollows ==
  ASSUME NEW v, Enqueue(v), ~astray'
  PROVE  ~astray
BY Zenon DEF Enqueue

LEMMA DequeueFollows ==
  ASSUME Dequeue, ~astray'
  PROVE  ~astray
BY Zenon DEF Dequeue

\* What a step does to head, tail and the elements below the bound.
LEMMA AfterEnqueue ==
  ASSUME NamesOutOfReach, Sound(db), ~astray', NEW v \in Elements, Enqueue(v)
  PROVE  /\ Sound(db')
         /\ \/ Waiting(db') = Append(Waiting(db), v)
            \/ Waiting(db') = Waiting(db) /\ ret' = Err("database")
         /\ ret' \in {Ok(Done), Err("database")}
<1> DEFINE t == tail(db)
           e == <<"element", t>>
           WithElement == Put(db, e, Bytes(v))
           WithBoth == Put(WithElement, tail_key, U32(t + 1))
<1>0. /\ t < MaxTail
      /\ LET E == Put(db, element_key(t), Bytes(v))
             B == Put(E, tail_key, U32(wrapping_add(t)))
         IN  \/ db' = B /\ ret' = Ok(Done)
             \/ ret' = Err("database") /\ db' \in {db, E, B}
  BY Zenon DEF Enqueue
<1>1. t \in Nat /\ t < MaxTail /\ head(db) \in Nat /\ head(db) =< t
  BY Zenon, <1>0 DEF Sound
<1>2. wrapping_add(t) = t + 1
  BY <1>1, DBQueueAssumption DEF wrapping_add, NamesOutOfReach
<1>3. element_key(t) = e /\ e \in DBKeys /\ e # head_key /\ e # tail_key
      /\ head_key # tail_key /\ head_key \in DBKeys /\ tail_key \in DBKeys
  BY Zenon, <1>1, KeysDiffer
<1>4. /\ db' \in {db, WithElement, WithBoth}
      /\ (db' = WithBoth /\ ret' = Ok(Done)) \/ ret' = Err("database")
  BY Zenon, <1>0, <1>2, <1>3
<1>5. /\ WithElement = [k \in DBKeys |-> WithElement[k]]
      /\ WithElement[e] = Bytes(v)
      /\ \A k \in DBKeys : k # e => WithElement[k] = db[k]
  BY <1>3, PutGet DEF Sound
<1>6. /\ WithBoth = [k \in DBKeys |-> WithBoth[k]]
      /\ WithBoth[tail_key] = U32(t + 1) /\ WithBoth[e] = Bytes(v)
      /\ \A k \in DBKeys : k # e /\ k # tail_key => WithBoth[k] = db[k]
  <2> HIDE DEF WithElement
  <2> QED
    BY <1>3, <1>5, PutGet
<1> HIDE DEF WithElement, WithBoth
<1>7. ASSUME NEW i \in Nat, i < t
      PROVE  <<"element", i>> \in DBKeys /\ <<"element", i>> # e
             /\ <<"element", i>> # tail_key /\ <<"element", i>> # head_key
  BY <1>1, <1>7, KeysDiffer, DBQueueAssumption
<1>8. ASSUME db' \in {db, WithElement}
      PROVE  /\ head(db') = head(db) /\ tail(db') = tail(db) /\ Sound(db')
             /\ \A i \in Nat : i < t => db'[<<"element", i>>] = db[<<"element", i>>]
  <2>1. db'[head_key] = db[head_key] /\ db'[tail_key] = db[tail_key]
        /\ db' = [k \in DBKeys |-> db'[k]]
    BY Zenon, <1>3, <1>5, <1>8 DEF Sound
  <2>2. head(db') = head(db) /\ tail(db') = tail(db)
    BY Zenon, <2>1 DEF head, tail
  <2>3. \A i \in Nat : i < t => db'[<<"element", i>>] = db[<<"element", i>>]
    BY Zenon, <1>5, <1>7, <1>8
  <2> QED
    BY Zenon, <2>1, <2>2, <2>3, <1>1 DEF Sound
<1>9. ASSUME db' = WithBoth
      PROVE  /\ head(db') = head(db) /\ tail(db') = t + 1 /\ Sound(db')
             /\ db'[e] = Bytes(v)
             /\ \A i \in Nat : i < t => db'[<<"element", i>>] = db[<<"element", i>>]
  <2>1. db'[head_key] = db[head_key] /\ db'[tail_key] = U32(t + 1)
        /\ db' = [k \in DBKeys |-> db'[k]] /\ db'[e] = Bytes(v)
    BY Zenon, <1>3, <1>6, <1>9
  <2>2. head(db') = head(db) /\ tail(db') = t + 1
    BY Zenon, <2>1, Tags DEF head, tail
  <2>3. \A i \in Nat : i < t => db'[<<"element", i>>] = db[<<"element", i>>]
    BY Zenon, <1>6, <1>7, <1>9
  <2>4. \A i \in Nat : head(db) =< i /\ i < t + 1 =>
           \E w \in Elements : db'[<<"element", i>>] = Bytes(w)
    BY <2>1, <2>3, <1>1 DEF Sound
  <2>5. \A k \in {head_key, tail_key} :
           db'[k] = Absent \/ \E n \in Nat : db'[k] = U32(n)
    BY <2>1, <1>1 DEF Sound
  <2>6. t + 1 =< MaxTail /\ t + 1 \in Nat /\ head(db) =< t + 1
    BY <1>1, DBQueueAssumption
  <2> QED
    BY Zenon, <2>1, <2>2, <2>3, <2>4, <2>5, <2>6, <1>1 DEF Sound
<1>10. Sound(db')
  BY Zenon, <1>4, <1>8, <1>9
<1> DEFINE W == Waiting(db)
           WP == Waiting(db')
<1>11. /\ Len(W) = t - head(db) /\ W \in Seq(Elements)
       /\ \A i \in 1 .. Len(W) : W[i] = db[<<"element", head(db) + i - 1>>][2]
  BY Zenon, WaitingIs
<1>12. /\ Len(WP) = tail(db') - head(db') /\ WP \in Seq(Elements)
       /\ \A i \in 1 .. Len(WP) : WP[i] = db'[<<"element", head(db') + i - 1>>][2]
  BY Zenon, <1>10, WaitingIs
<1> HIDE DEF W, WP, e
<1>13. ASSUME db' \in {db, WithElement} PROVE WP = W
  <2>1. Len(WP) = Len(W)
    BY Zenon, <1>8, <1>11, <1>12, <1>13
  <2>2. \A i \in 1 .. Len(W) : head(db) + i - 1 \in Nat /\ head(db) + i - 1 < t
    BY <1>1, <1>11
  <2>3. \A i \in 1 .. Len(W) : WP[i] = W[i]
    BY ZenonT(60), <1>8, <1>11, <1>12, <1>13, <2>1, <2>2
  <2> QED
    BY <1>11, <1>12, <2>1, <2>3
<1>14. ASSUME db' = WithBoth PROVE WP = Append(W, v)
  <2>1. Len(WP) = Len(W) + 1
    BY SMTT(60), <1>1, <1>9, <1>11, <1>12, <1>14
  <2>2. \A i \in 1 .. Len(W) : head(db) + i - 1 \in Nat /\ head(db) + i - 1 < t
    BY <1>1, <1>11
  <2>3. ASSUME NEW i \in 1 .. Len(W) PROVE WP[i] = W[i]
    <3>1. WP[i] = db'[<<"element", head(db) + i - 1>>][2]
      BY SMTT(60), <1>9, <1>12, <1>14, <2>1, <1>11
    <3>2. db'[<<"element", head(db) + i - 1>>] = db[<<"element", head(db) + i - 1>>]
      BY Zenon, <1>9, <1>14, <2>2
    <3> QED
      BY Zenon, <1>11, <3>1, <3>2
  <2>4. head(db) + Len(WP) - 1 = t /\ Len(WP) \in 1 .. Len(WP)
    BY <1>1, <1>11, <2>1
  <2>5. WP[Len(WP)] = db'[<<"element", t>>][2]
    BY Zenon, <1>9, <1>12, <1>14, <2>4
  <2>6. WP[Len(WP)] = v
    BY Zenon, <2>5, <1>9, <1>14, Tags DEF e
  <2> QED
    BY ZenonT(60), <1>11, <1>12, <2>1, <2>3, <2>6, IsAppend
<1> QED
  BY Zenon, <1>4, <1>10, <1>13, <1>14 DEF W, WP

\* A dequeue that does not go astray either reads what is stored or, its reads
\* having failed, reports that there is no element.
LEMMA DequeueReads ==
  ASSUME Dequeue, ~astray'
  PROVE  LET h == head(db)
             found == db[element_key(h)]
             Moved == Put(db, head_key, U32(wrapping_add(h)))
             Deleted == Put(Moved, element_key(h), Absent)
         IN  \/ ReadsFail /\ db' = db /\ ret' \in {Err("empty"), Err("no element")}
             \/ h = tail(db) /\ db' = db /\ ret' = Err("empty")
             \/ h # tail(db) /\ found = Absent /\ db' = db
             \/ /\ h # tail(db) /\ found # Absent
                /\ \/ db' = Deleted /\ ret' = Ok(found[2])
                   \/ ret' = Err("database") /\ db' \in {db, Moved, Deleted}
<1>1. PICK h \in get_head(db), t \in get_tail(db) : \E f \in get(db, element_key(h)) :
        LET Moved == Put(db, head_key, U32(wrapping_add(h)))
            Deleted == Put(Moved, element_key(h), Absent)
        IN  \/ h = t /\ ret' = Err("empty") /\ db' = db
            \/ h # t /\ f = Absent /\ ret' = Err("no element") /\ db' = db
            \/ /\ h # t /\ f # Absent /\ h = head(db) /\ head(db) # tail(db)
               /\ \/ db' = Deleted /\ ret' = Ok(f[2])
                  \/ ret' = Err("database") /\ db' \in {db, Moved, Deleted}
  BY Zenon DEF Dequeue
<1>2. PICK f \in get(db, element_key(h)) :
        LET Moved == Put(db, head_key, U32(wrapping_add(h)))
            Deleted == Put(Moved, element_key(h), Absent)
        IN  \/ h = t /\ ret' = Err("empty") /\ db' = db
            \/ h # t /\ f = Absent /\ ret' = Err("no element") /\ db' = db
            \/ /\ h # t /\ f # Absent /\ h = head(db) /\ head(db) # tail(db)
               /\ \/ db' = Deleted /\ ret' = Ok(f[2])
                  \/ ret' = Err("database") /\ db' \in {db, Moved, Deleted}
  BY Zenon, <1>1
<1>3. f # Absent => f = db[element_key(h)]
  BY Zenon, <1>2 DEF get
<1>4. ~ReadsFail => h = head(db) /\ t = tail(db) /\ f = db[element_key(h)]
  BY Zenon, <1>1, <1>2 DEF get, get_head, get_tail, head, tail
<1>5. CASE ReadsFail
  BY Zenon, <1>2, <1>3, <1>5
<1>6. CASE ~ReadsFail
  BY Zenon, <1>2, <1>4, <1>6
<1> QED
  BY Zenon, <1>5, <1>6

LEMMA AfterDequeue ==
  ASSUME NamesOutOfReach, Sound(db), ~astray', Dequeue
  PROVE  /\ Sound(db')
         /\ \/ Waiting(db) = <<>> /\ Waiting(db') = <<>> /\ ret' = Err("empty")
            \/ /\ Waiting(db) # <<>> /\ Waiting(db') = Tail(Waiting(db))
               /\ ret' \in {Ok(Head(Waiting(db))), Err("database")}
            \/ /\ Waiting(db) # <<>> /\ Waiting(db') = Waiting(db)
               /\ ret' = Err("database")
            \/ /\ ReadsFail /\ Waiting(db') = Waiting(db)
               /\ ret' \in {Err("empty"), Err("no element")}
<1> DEFINE h == head(db)
           e == <<"element", h>>
           Moved == Put(db, head_key, U32(h + 1))
           Deleted == Put(Moved, e, Absent)
<1>0. CASE ReadsFail /\ db' = db /\ ret' \in {Err("empty"), Err("no element")}
  BY Zenon, <1>0
<1>1. CASE h = tail(db) /\ db' = db /\ ret' = Err("empty")
  BY Zenon, <1>1, WaitingIs
<1>2. CASE /\ h # tail(db)
           /\ \/ db[element_key(h)] = Absent
              \/ LET M == Put(db, head_key, U32(wrapping_add(h)))
                     D == Put(M, element_key(h), Absent)
                 IN  \/ db' = D /\ ret' = Ok(db[element_key(h)][2])
                     \/ ret' = Err("database") /\ db' \in {db, M, D}
  <2>1. /\ h \in Nat /\ tail(db) \in Nat /\ h < tail(db) /\ tail(db) =< MaxTail
        /\ h + 1 \in Nat /\ h + 1 < Width /\ h < MaxTail
    BY <1>2, DBQueueAssumption DEF Sound, NamesOutOfReach
  <2>2. wrapping_add(h) = h + 1
    BY <2>1, DBQueueAssumption DEF wrapping_add
  <2>3. element_key(h) = e /\ e \in DBKeys /\ e # head_key /\ e # tail_key
        /\ head_key # tail_key /\ head_key \in DBKeys /\ tail_key \in DBKeys
    BY Zenon, <2>1, KeysDiffer
  <2>4. PICK v \in Elements : db[e] = Bytes(v)
    BY <2>1 DEF Sound
  <2>5. /\ db' \in {db, Moved, Deleted}
        /\ (db' = Deleted /\ ret' = Ok(v)) \/ ret' = Err("database")
    BY Zenon, <1>2, <2>2, <2>3, <2>4, Tags
  <2>6. /\ Moved = [k \in DBKeys |-> Moved[k]]
        /\ Moved[head_key] = U32(h + 1)
        /\ \A k \in DBKeys : k # head_key => Moved[k] = db[k]
    BY <2>3, PutGet DEF Sound
  <2>7. /\ Deleted = [k \in DBKeys |-> Deleted[k]]
        /\ Deleted[head_key] = U32(h + 1)
        /\ \A k \in DBKeys : k # head_key /\ k # e => Deleted[k] = db[k]
    <3> HIDE DEF Moved
    <3> QED
      BY <2>3, <2>6, PutGet
  <2>8. ASSUME NEW i \in Nat, h < i, i < tail(db)
        PROVE  <<"element", i>> \in DBKeys /\ <<"element", i>> # e
               /\ <<"element", i>> # head_key
    BY <2>1, <2>8, KeysDiffer, DBQueueAssumption
  <2> HIDE DEF Moved, Deleted
  <2>9. ASSUME db' \in {Moved, Deleted}
        PROVE  /\ head(db') = h + 1 /\ tail(db') = tail(db) /\ Sound(db')
               /\ \A i \in Nat : h < i /\ i < tail(db) =>
                     db'[<<"element", i>>] = db[<<"element", i>>]
    <3>1. /\ db'[head_key] = U32(h + 1) /\ db'[tail_key] = db[tail_key]
          /\ db' = [k \in DBKeys |-> db'[k]]
      BY Zenon, <2>3, <2>6, <2>7, <2>9
    <3>2. head(db') = h + 1 /\ tail(db') = tail(db)
      BY Zenon, <3>1, Tags DEF head, tail
    <3>3. \A i \in Nat : h < i /\ i < tail(db) =>
             db'[<<"element", i>>] = db[<<"element", i>>]
      BY Zenon, <2>6, <2>7, <2>8, <2>9
    <3>4. \A i \in Nat : h + 1 =< i /\ i < tail(db) =>
             \E w \in Elements : db'[<<"element", i>>] = Bytes(w)
      BY <3>3, <2>1 DEF Sound
    <3>5. \A k \in {head_key, tail_key} :
             db'[k] = Absent \/ \E n \in Nat : db'[k] = U32(n)
      BY Zenon, <3>1, <2>1 DEF Sound
    <3> QED
      BY <3>1, <3>2, <3>3, <3>4, <3>5, <2>1 DEF Sound
  <2>10. Sound(db')
    BY Zenon, <2>5, <2>9
  <2> DEFINE W == Waiting(db)
             WP == Waiting(db')
  <2>11. /\ Len(W) = tail(db) - h /\ W \in Seq(Elements) /\ W # <<>>
         /\ \A i \in 1 .. Len(W) : W[i] = db[<<"element", h + i - 1>>][2]
    BY Zenon, <1>2, WaitingIs
  <2>12. /\ Len(WP) = tail(db') - head(db') /\ WP \in Seq(Elements)
         /\ \A i \in 1 .. Len(WP) : WP[i] = db'[<<"element", head(db') + i - 1>>][2]
    BY Zenon, <2>10, WaitingIs
  <2>13. Head(W) = v
    <3>1. 1 \in 1 .. Len(W) /\ h + 1 - 1 = h
      BY <2>1, <2>11
    <3>2. W[1] = db[e][2]
      BY Zenon, <2>11, <3>1
    <3> QED
      BY <2>4, <2>11, <3>2, Tags
  <2> HIDE DEF W, WP, e
  <2>14. ASSUME db' \in {Moved, Deleted} PROVE WP = Tail(W)
    <3>1. Len(W) = Len(WP) + 1
      BY <2>1, <2>9, <2>11, <2>12, <2>14
    <3>2. ASSUME NEW i \in 1 .. Len(WP) PROVE WP[i] = W[i + 1]
      <4>1. h + 1 + i - 1 = h + i /\ h + (i + 1) - 1 = h + i /\ h + i \in Nat
            /\ h < h + i /\ h + i < tail(db) /\ i + 1 \in 1 .. Len(W)
        <5>1. i \in Nat /\ 1 =< i /\ i =< Len(WP) /\ Len(WP) \in Nat
          BY <2>12
        <5>2. Len(W) = tail(db) - h
          BY Zenon, <2>11
        <5>3. h + i < tail(db)
          BY <2>1, <3>1, <5>1, <5>2
        <5> QED
          BY SMTT(60), <2>1, <3>1, <5>1, <5>3
      <4>2. WP[i] = db'[<<"element", h + i>>][2]
        <5>1. head(db') + i - 1 = h + i
          BY Zenon, <2>9, <2>14, <4>1, <2>1
        <5>2. WP[i] = db'[<<"element", head(db') + i - 1>>][2]
          BY Zenon, <2>12
        <5> QED
          BY Zenon, <5>1, <5>2
      <4>3. W[i + 1] = db[<<"element", h + i>>][2]
        BY Zenon, <2>11, <4>1
      <4> QED
        BY Zenon, <2>9, <2>14, <4>1, <4>2, <4>3
    <3> QED
      BY Zenon, <2>11, <2>12, <3>1, <3>2, IsTail
  <2> QED
    BY Zenon, <2>5, <2>10, <2>11, <2>13, <2>14 DEF W, WP
<1> QED
  BY Zenon, <1>0, <1>1, <1>2, DequeueReads

-----------------------------------------------------------------------------
\* Whatever reads and writes fail, head and tail stay in order and every index
\* between them has an element, until a call has gone astray.
THEOREM Soundness ==
  ASSUME NamesOutOfReach
  PROVE  Spec => []IndInv
<1>1. Init => IndInv
  <2> SUFFICES ASSUME Init PROVE IndInv
    BY Zenon
  <2>1. db = [k \in DBKeys |-> Absent] /\ head_key \in DBKeys /\ tail_key \in DBKeys
    BY Zenon DEF Init, DBKeys
  <2>2. db = [k \in DBKeys |-> db[k]] /\ db[head_key] = Absent /\ db[tail_key] = Absent
    BY Zenon, <2>1
  <2>3. head(db) = 0 /\ tail(db) = 0
    BY Zenon, <2>2, Tags DEF head, tail
  <2> QED
    BY <2>2, <2>3, DBQueueAssumption DEF IndInv, Sound
<1>2. IndInv /\ [Next]_vars => IndInv'
  <2> SUFFICES ASSUME IndInv, [Next]_vars, ~astray' PROVE Sound(db')
    BY Zenon DEF IndInv
  <2>1. CASE Dequeue
    BY Zenon, <2>1, DequeueFollows, AfterDequeue DEF IndInv
  <2>2. ASSUME NEW v \in Elements, Enqueue(v) PROVE Sound(db')
    BY Zenon, <2>2, EnqueueFollows, AfterEnqueue DEF IndInv
  <2>3. CASE UNCHANGED vars
    BY Zenon, <2>3 DEF IndInv, vars
  <2> QED
    BY Zenon, <2>1, <2>2, <2>3 DEF Next
<1> QED
  BY <1>1, <1>2, PTL DEF Spec

\* The queue is empty at first, and each call is one of a queue.
LEMMA StartsEmpty ==
  ASSUME Init
  PROVE  Q!Init
<1>1. db = [k \in DBKeys |-> Absent] /\ head_key \in DBKeys /\ tail_key \in DBKeys
  BY Zenon DEF Init, DBKeys
<1>2. head(db) = 0 /\ tail(db) = 0
  BY Zenon, <1>1, Tags DEF head, tail
<1>3. Waiting(db) = <<>>
  BY <1>2 DEF Waiting, len
<1> QED
  BY Zenon, <1>3 DEF Init, Q!Init, Ok, Done, Q!Ok, Q!Done

LEMMA CallRefines ==
  ASSUME NamesOutOfReach, IndInv, Next, ~astray'
  PROVE  Q!Next
<1>1. CASE Dequeue
  <2>1. Sound(db)
    BY Zenon, <1>1, DequeueFollows DEF IndInv
  <2> QED
    BY Zenon, <1>1, <2>1, AfterDequeue DEF Q!Next, Q!Dequeue, Q!Ok, Q!Err, Ok, Err
<1>2. ASSUME NEW v \in Elements, Enqueue(v) PROVE Q!Next
  <2>1. Sound(db)
    BY Zenon, <1>2, EnqueueFollows DEF IndInv
  <2>2. Q!Enqueue(v)
    BY Zenon, <1>2, <2>1, AfterEnqueue DEF Q!Enqueue, Q!Ok, Q!Err, Ok, Err, Done, Q!Done
  <2> QED
    BY Zenon, <2>2 DEF Q!Next
<1> QED
  BY Zenon, <1>1, <1>2 DEF Next

\* The queue in the database implements a queue until a call has gone astray:
\* enqueue appends, dequeue takes the oldest element, and a call that reports
\* an error of the database does one of these or nothing.
THEOREM Refinement ==
  ASSUME NamesOutOfReach
  PROVE  Spec => QueueIsFifo
<1>1. Init => Q!Init
  BY Zenon, StartsEmpty
<1>2. IndInv /\ [Next]_vars => [~astray' => [Q!Next]_<<Waiting(db), ret>>]_vars
  BY Zenon, CallRefines
<1> QED
  BY <1>1, <1>2, Soundness, PTL DEF Spec, QueueIsFifo

\* No call goes astray if reads do not fail: then the queue in the database is
\* a queue for ever, whatever writes fail.
THEOREM FifoWhenReadsSucceed ==
  ASSUME NamesOutOfReach, ~ReadsFail
  PROVE  Spec => Q!Spec
<1>1. Init => ~astray /\ Q!Init
  BY Zenon, StartsEmpty DEF Init
<1>2. ~astray /\ [Next]_vars => ~astray'
  <2> SUFFICES ASSUME ~astray, [Next]_vars PROVE ~astray'
    BY Zenon
  <2>1. get_head(db) = {head(db)} /\ get_tail(db) = {tail(db)}
    BY Zenon DEF get_head, get_tail, get, head, tail
  <2>2. CASE Dequeue
    BY Zenon, <2>1, <2>2 DEF Dequeue
  <2>3. CASE \E v \in Elements : Enqueue(v)
    BY Zenon, <2>1, <2>3 DEF Enqueue
  <2>4. CASE UNCHANGED vars
    BY Zenon, <2>4 DEF vars
  <2> QED
    BY Zenon, <2>2, <2>3, <2>4 DEF Next
<1>3. IndInv /\ ~astray' /\ [Next]_vars => [Q!Next]_<<Waiting(db), ret>>
  BY Zenon, CallRefines DEF vars
<1> QED
  BY <1>1, <1>2, <1>3, Soundness, PTL DEF Spec, Q!Spec
=============================================================================
