------------------------------- MODULE Table -------------------------------
(***************************************************************************)
(* A table file: the builder that cuts the entries into blocks and writes  *)
(* an index entry per block (table_builder.rs, cmp.rs, filter_block.rs),   *)
(* the lookup and the two-level iterator that read it (table_reader.rs).   *)
(* Sizes of blocks are counted in parts of a filter range (FILTER_BASE).   *)
(*                                                                         *)
(* First come keys and blocks, as operators: the comparators and the       *)
(* separators that go into index blocks (cmp.rs), the builder of a block   *)
(* (block_builder.rs) and the iterator over it (block.rs).                 *)
(*                                                                         *)
(* A byte string is a sequence of numbers up to MaxByte; an internal key   *)
(* is a user key followed by one cell, its sequence number (the eight      *)
(* bytes of the tag).  An entry of a block stores how many bytes of the    *)
(* previous key it shares and the rest; every block_restart_interval       *)
(* entries a restart point stores a whole key.  Offsets in a block count   *)
(* entries; Len(b.entries) is the offset of the restart array.             *)
(***************************************************************************)
EXTENDS Naturals, Sequences, FiniteSets, FiniteSetsExt, TLC

CONSTANTS MaxByte,                \* 0xff
          MAX_SEQUENCE_NUMBER

\* DefaultCmp::cmp: byte by byte, a prefix comes first.
BytesLess(a, b) ==
    \E n \in 0 .. Len(a) :
        /\ n < Len(b) /\ \A i \in 1 .. n : a[i] = b[i]
        /\ n < Len(a) => a[n + 1] < b[n + 1]

Bump(s, i) == [s EXCEPT ![i] = @ + 1]

\* The places from the first difference on where the byte of a can be raised
\* and stays below that of b.
Gaps(a, b) ==
    {i \in 1 .. Len(a) :
        /\ i <= Len(b) /\ \E j \in 1 .. i : a[j] # b[j]
        /\ a[i] < MaxByte /\ a[i] + 1 < b[i]}

\* The last byte that is not 0xff, the first one if there is none.
LastRaisable(a) == Max({1} \cup {i \in 1 .. Len(a) : a[i] < MaxByte})

\* DefaultCmp::find_shortest_sep.  The empty string has no last byte: the
\* subtraction a.len() - 1 fails (SepFails).
SepFails(a, b) == a # b /\ a = <<>>
find_shortest_sep(a, b) ==
    LET i == LastRaisable(a)
    IN  CASE a = b -> a
          [] a # b /\ Gaps(a, b) # {} ->
                Bump(SubSeq(a, 1, Min(Gaps(a, b))), Min(Gaps(a, b)))
          [] a # b /\ Gaps(a, b) = {} /\ a[i] < MaxByte /\ BytesLess(Bump(a, i), b) ->
                Bump(a, i)
          [] OTHER -> Append(a, 0)

\* DefaultCmp::find_short_succ.
find_short_succ(a) ==
    LET Raisable == {i \in 1 .. Len(a) : a[i] # MaxByte}
    IN  IF Raisable = {} THEN Append(a, MaxByte)
        ELSE Bump(SubSeq(a, 1, Min(Raisable)), Min(Raisable))

User(k) == SubSeq(k, 1, Len(k) - 1)
SeqOf(k) == k[Len(k)]

\* cmp_internal_key: by user key, then the newest first.
InternalLess(a, b) ==
    \/ BytesLess(User(a), User(b))
    \/ User(a) = User(b) /\ SeqOf(a) > SeqOf(b)

\* InternalKeyCmp::find_shortest_sep and find_short_succ.
internal_sep(a, b) ==
    LET sep == find_shortest_sep(User(a), User(b))
        seq == IF Len(sep) < Len(User(a)) /\ BytesLess(User(a), sep)
               THEN MAX_SEQUENCE_NUMBER ELSE SeqOf(a)
    IN  IF a = b THEN a ELSE Append(sep, seq)
internal_succ(a) == Append(find_short_succ(User(a)), SeqOf(a))

Common(a, b) ==
    Max({n \in 0 .. Len(a) : n <= Len(b) /\ \A i \in 1 .. n : a[i] = b[i]})

Truncate(s, n) == SubSeq(s, 1, IF n < Len(s) THEN n ELSE Len(s))
Suffix(s, n) == SubSeq(s, n + 1, Len(s))

(* BlockBuilder *)

NewBuilder == [entries |-> <<>>, restarts |-> <<0>>, last_key |-> <<>>, restart_counter |-> 0]

\* BlockBuilder::add.  An entry at a restart point shares nothing.
AddEntry(b, key, interval) ==
    LET restart == b.restart_counter >= interval
        shared == IF restart THEN 0 ELSE Common(b.last_key, key)
    IN  [entries |-> Append(b.entries, [shared |-> shared, rest |-> Suffix(key, shared)]),
         restarts |-> IF restart THEN Append(b.restarts, Len(b.entries)) ELSE b.restarts,
         last_key |-> key,
         restart_counter |-> IF restart THEN 1 ELSE b.restart_counter + 1]

\* The whole key of the n-th entry.
RECURSIVE BlockKey(_, _)
BlockKey(b, n) ==
    LET e == b.entries[n]
    IN  IF e.shared = 0 THEN e.rest ELSE SubSeq(BlockKey(b, n - 1), 1, e.shared) \o e.rest

(* BlockIter: off is the next entry to parse, entry the current one, ri the *)
(* index of the last restart point passed, key the key put together so far; *)
(* val says that val_offset is not 0.                                       *)

NewIter == [off |-> 0, entry |-> 0, ri |-> 0, key |-> <<>>, val |-> FALSE]

Valid(it) == it.key # <<>> /\ it.val

RestartsOff(b) == Len(b.entries)
RestartPoint(b, ri) == b.restarts[ri + 1]

\* parse_entry_and_advance and assemble_key: the shared part of the key is
\* what the iterator holds from the entry before.
ParseEntry(b, it) ==
    LET e == b.entries[it.off + 1]
    IN  [it EXCEPT !.off = it.off + 1, !.val = TRUE,
                   !.key = Truncate(it.key, e.shared) \o e.rest]

\* reset leaves current_entry_offset alone.
BlockReset(it) == [it EXCEPT !.off = 0, !.val = FALSE, !.ri = 0, !.key = <<>>]

\* The restart index moves on over the restart points before the entry.
PassedRestarts(b, it) ==
    Max({j \in it.ri .. Len(b.restarts) - 1 :
            \A i \in it.ri + 1 .. j : RestartPoint(b, i) < it.entry})

BlockAdvance(b, it) ==
    IF it.off >= RestartsOff(b) THEN BlockReset(it)
    ELSE LET parsed == ParseEntry(b, [it EXCEPT !.entry = it.off])
         IN  [parsed EXCEPT !.ri = PassedRestarts(b, parsed)]

SeekToRestartPoint(b, it, ri) ==
    LET off == RestartPoint(b, ri)
    IN  ParseEntry(b, [it EXCEPT !.off = off, !.entry = off, !.ri = ri])

RECURSIVE AdvanceUntilOff(_, _, _)
AdvanceUntilOff(b, it, off) ==
    LET n == BlockAdvance(b, it)
    IN  IF n.off >= off THEN n ELSE AdvanceUntilOff(b, n, off)

\* seek_to_last: from the last restart point to the last entry.
SeekToLast(b, it) ==
    LET n == SeekToRestartPoint(b, it, Len(b.restarts) - 1)
    IN  IF n.off < RestartsOff(b) THEN AdvanceUntilOff(b, n, RestartsOff(b)) ELSE n

\* prev: from the last restart point before the entry up to the one before it.
BlockPrev(b, it) ==
    IF it.entry = 0 THEN BlockReset(it)
    ELSE LET ri == Max({j \in 0 .. it.ri : RestartPoint(b, j) < it.entry})
             n == [it EXCEPT !.ri = ri, !.off = RestartPoint(b, ri)]
         IN  AdvanceUntilOff(b, n, it.entry)

\* The binary search of seek over the restart points left .. right; the
\* iterator is moved to every restart point looked at.
RECURSIVE SearchRestarts(_, _, _, _, _)
SearchRestarts(b, it, to, left, right) ==
    IF left >= right
    THEN [it EXCEPT !.ri = left, !.off = RestartPoint(b, left)]
    ELSE LET middle == (left + right + 1) \div 2
             n == SeekToRestartPoint(b, it, middle)
         IN  IF InternalLess(n.key, to) THEN SearchRestarts(b, n, to, middle, right)
             ELSE SearchRestarts(b, n, to, left, middle - 1)

RECURSIVE ScanTo(_, _, _)
ScanTo(b, it, to) ==
    LET n == BlockAdvance(b, it)
    IN  IF ~Valid(n) \/ ~InternalLess(n.key, to) THEN n ELSE ScanTo(b, n, to)

BlockSeek(b, it, to) ==
    ScanTo(b, SearchRestarts(b, BlockReset(it), to, 0, Len(b.restarts) - 1), to)

-----------------------------------------------------------------------------
CONSTANTS UserKeys, Seqs,        \* the entries: user keys with sequence numbers
          MaxEntries,            \* bound on the entries of a table
          block_restart_interval,
          FILTER_BASE, BlockSizes,
          SeekKeys,              \* the internal keys that seek is called with
          Ops,                   \* the iterator calls made
          MaxUnreadable,         \* bound on the blocks that cannot be read
          FilterMatchesAll       \* the filter has only false positives

VARIABLES phase,        \* "build", "read" or "panic"
          data,         \* the data block being built
          blocks,       \* the data blocks written
          offsets,      \* their offsets in the file
          offset,       \* TableBuilder.offset
          index,        \* the index block
          filters,      \* the filters written: sets of user keys
          fkeys,        \* the keys since the last filter
          unreadable,   \* the blocks whose bytes fail the checksum
          keys,         \* the entries added
          it, call      \* the iterator: [block, cur, ix], and its last call

tableVars == <<phase, data, blocks, offsets, offset, index, filters, fkeys,
               unreadable, keys>>
vars == <<tableVars, it, call>>

AllKeys == {Append(u, s) : u \in UserKeys, s \in Seqs}
Ranks == [k \in AllKeys \cup SeekKeys |->
            Cardinality({j \in AllKeys \cup SeekKeys : ~InternalLess(k, j)})]

\* The iterator: the block it is in (0 for none), the position there and in
\* the index.
NoTableIter == [block |-> 0, cur |-> NewIter, ix |-> NewIter]
TableValid(t) == t.block # 0 /\ Valid(t.cur)

BlockOf(k) == Cardinality({i \in 1 .. Len(blocks) : InternalLess(blocks[i].last_key, k)}) + 1
Readable == {k \in keys : BlockOf(k) \notin unreadable}

C == INSTANCE Cursor WITH
        SeekKeys <- {Ranks[k] : k \in SeekKeys},
        content <- IF phase = "read" THEN {Ranks[k] : k \in Readable} ELSE {},
        at <- IF TableValid(it) THEN Ranks[it.cur.key] ELSE 0

Init == /\ phase = "build" /\ data = NewBuilder /\ blocks = <<>> /\ offsets = <<>>
        /\ offset = 0 /\ index = NewBuilder /\ filters = <<>>
        /\ fkeys = {} /\ unreadable = {} /\ keys = {}
        /\ it = NoTableIter /\ call = C!Call("new", 0, FALSE)

(* Building. *)

\* FilterBlockBuilder::start_block: filters are generated up to the range the
\* offset lies in, the first of them for the keys since the last one.
StartBlock(fs, fk, off) ==
    LET missing == (off \div FILTER_BASE) - Len(fs)
    IN  IF missing <= 0 THEN fs
        ELSE fs \o [i \in 1 .. missing |-> IF i = 1 THEN fk ELSE {}]

\* write_data_block: the index entry separates the block from the next key.
\* There is no separator after an empty user key: find_shortest_sep fails.
WriteDataBlock(next_key, size) ==
    /\ blocks' = Append(blocks, data)
    /\ offsets' = Append(offsets, offset)
    /\ offset' = offset + size
    /\ index' = AddEntry(index, internal_sep(data.last_key, next_key),
                         block_restart_interval)
Fails(next_key) ==
    /\ SepFails(User(data.last_key), User(next_key))
    /\ phase' = "panic"
    /\ UNCHANGED <<data, blocks, offsets, offset, index, filters, fkeys>>

\* TableBuilder::add.  Whether the current block is full depends on the size
\* of the values; a full block is written before the key is added.
add(k) ==
    /\ phase = "build" /\ Cardinality(keys) < MaxEntries
    /\ \A j \in keys : InternalLess(j, k)
    /\ keys' = keys \cup {k} /\ call' = C!Call("insert", 0, FALSE)
    /\ \/ /\ data' = AddEntry(data, k, block_restart_interval)
          /\ fkeys' = fkeys \cup {User(k)}
          /\ UNCHANGED <<phase, blocks, offsets, offset, index, filters>>
       \/ data.entries # <<>> /\ Fails(k)
       \/ /\ data.entries # <<>> /\ ~SepFails(User(data.last_key), User(k))
          /\ \E size \in BlockSizes : WriteDataBlock(k, size)
          /\ data' = AddEntry(NewBuilder, k, block_restart_interval)
          /\ filters' = StartBlock(filters, fkeys, offset')
          /\ fkeys' = {User(k)} \cup (IF filters' = filters THEN fkeys ELSE {})
          /\ UNCHANGED phase
    /\ UNCHANGED <<unreadable, it>>

\* TableBuilder::finish: the pending block, the last filter, the index.  The
\* blocks that a reader cannot read are chosen here.
finish ==
    LET succ == internal_succ(data.last_key)
    IN  /\ phase = "build" /\ data.entries # <<>>
        /\ \/ Fails(succ) /\ UNCHANGED unreadable
           \/ /\ ~SepFails(User(data.last_key), User(succ))
              /\ \E size \in BlockSizes : WriteDataBlock(succ, size)
              /\ LET fs == StartBlock(filters, fkeys, offset')
                 IN  filters' = IF fs = filters THEN Append(fs, fkeys) ELSE fs
              /\ \E bad \in SUBSET DOMAIN blocks' :
                    Cardinality(bad) <= MaxUnreadable /\ unreadable' = bad
              /\ phase' = "read"
              /\ UNCHANGED <<data, fkeys>>
        /\ call' = C!Call("insert", 0, FALSE) /\ UNCHANGED <<keys, it>>

(* Table::get. *)

\* FilterBlockReader::key_may_match: the filter of the range the block starts
\* in; a filter beyond the last one would be read outside of the block.
FilterOf(b) == (offsets[b] \div FILTER_BASE) + 1

\* A filter that is asked for the internal key.
key_may_match_Tag(b, k) == FilterMatchesAll \/ k \in filters[FilterOf(b)]
key_may_match(b, k) ==
    \/ FilterMatchesAll
    \/ FilterOf(b) > Len(filters) + 1
    \/ User(k) \in filters[FilterOf(b)]

None == <<>>
\* The index entry of a block is the entry of its number.
get(k) ==
    LET ix == BlockSeek(index, NewIter, k)
        b == ix.entry + 1
        cur == BlockSeek(blocks[b], NewIter, k)
    IN  IF Valid(ix) /\ InternalLess(k, ix.key) /\ key_may_match(b, k)
           /\ b \notin unreadable /\ Valid(cur)
        THEN cur.key ELSE None

(* TableIterator. *)

TableReset(t) == [t EXCEPT !.ix = BlockReset(t.ix), !.block = 0]

\* skip_to_next_entry, then into the block found; a block that cannot be read
\* is passed over.
RECURSIVE NextBlock(_)
NextBlock(t) ==
    LET ix == BlockAdvance(index, t.ix)
        b == ix.entry + 1
    IN  IF ~Valid(ix) THEN TableReset([t EXCEPT !.ix = ix])
        ELSE IF b \in unreadable THEN NextBlock([t EXCEPT !.ix = ix])
        ELSE [block |-> b, cur |-> BlockAdvance(blocks[b], NewIter), ix |-> ix]

TableAdvance(t) ==
    LET cur == BlockAdvance(blocks[t.block], t.cur)
    IN  IF t.block # 0 /\ t.cur.off < RestartsOff(blocks[t.block])
        THEN [t EXCEPT !.cur = cur]
        ELSE NextBlock([t EXCEPT !.block = 0])

TableSeek(t, k) ==
    LET ix == BlockSeek(index, t.ix, k)
        b == ix.entry + 1
    IN  IF Valid(ix) /\ ~InternalLess(ix.key, k) /\ b \notin unreadable
        THEN [block |-> b, cur |-> BlockSeek(blocks[b], NewIter, k), ix |-> ix]
        ELSE TableReset([t EXCEPT !.ix = ix])

\* prev: within the block, or the last entry of the block before.
TablePrev(t) ==
    LET cur == BlockPrev(blocks[t.block], t.cur)
        t2 == IF t.block = 0 THEN t ELSE [t EXCEPT !.cur = cur]
        ix == BlockPrev(index, t.ix)
        b == ix.entry + 1
    IN  IF t.block # 0 /\ t.cur.entry # 0 THEN t2
        ELSE IF t.ix.entry = 0 \/ ~Valid(ix) THEN [t2 EXCEPT !.ix = ix]
        ELSE IF b \in unreadable THEN TableReset([t2 EXCEPT !.ix = ix])
        ELSE [block |-> b, cur |-> SeekToLast(blocks[b], NewIter), ix |-> ix]

Moves(t, name, key) ==
    /\ phase = "read" /\ name \in Ops
    /\ it' = t
    /\ call' = C!Call(name, key, name \in {"advance", "prev"} /\ TableValid(t))
    /\ UNCHANGED tableVars

advance == Moves(TableAdvance(it), "advance", 0)
prev == TableValid(it) /\ Moves(TablePrev(it), "prev", 0)
seek(k) == Moves(TableSeek(it, k), "seek", Ranks[k])
reset == Moves(TableReset(it), "reset", 0)

Next == \/ \E k \in AllKeys : add(k)
        \/ finish \/ advance \/ prev \/ reset
        \/ \E k \in SeekKeys : seek(k)

Spec == Init /\ [][Next]_vars

\* Table::get returns the newest version of a user key that is not newer than
\* the lookup key, if the table has one.  A lookup key that equals an index
\* entry may find nothing: get takes an index entry only if it is larger.
GetFindsVersion ==
    phase = "read" =>
        \A k \in AllKeys :
            LET older == {j \in keys : User(j) = User(k) /\ ~InternalLess(j, k)}
                newest == CHOOSE j \in older : \A i \in older : ~InternalLess(i, j)
            IN  older # {} /\ newest \in Readable =>
                  \/ get(k) = newest
                  \/ get(k) = None /\ \E b \in DOMAIN blocks : BlockKey(index, b) = k

\* Every index entry lies between the block it stands for and the next one,
\* so that a binary search of the index finds the only block a key can be in.
IndexSeparates ==
    phase = "read" =>
        \A b \in DOMAIN blocks :
            /\ \A k \in keys : BlockOf(k) <= b
                  => ~InternalLess(BlockKey(index, b), k)
            /\ \A k \in keys : BlockOf(k) > b => InternalLess(BlockKey(index, b), k)

\* A block that is looked up has a filter, with all its keys in it.
FilterCoversBlock ==
    phase = "read" =>
        \A k \in keys : /\ FilterOf(BlockOf(k)) \in DOMAIN filters
                        /\ User(k) \in filters[FilterOf(BlockOf(k))]

\* A prev, and a seek that ends on an entry, as LdbIterator promises them.
ExactMove ==
    /\ call'.op = "prev" => C!prev
    /\ call'.op = "seek" /\ TableValid(it') => C!seek(call'.key)
=============================================================================
