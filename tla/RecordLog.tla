----------------------------- MODULE RecordLog -----------------------------
(***************************************************************************)
(* The record log of the storage engine: the format shared by the write-   *)
(* ahead logs and the manifests (common/rusty_leveldb_sgx/src/log.rs), a   *)
(* crash that cuts off what was not flushed, and the two ways the engine   *)
(* reopens a log to append to it: DB::recover_log_file continues at the    *)
(* old size, VersionSet::reuse_manifest starts a writer at offset 0.       *)
(*                                                                         *)
(* A file is a sequence of cells, one per byte.  A cell says which         *)
(* fragment it belongs to and its place there, which is what the checksum  *)
(* of the fragment ties together.                                          *)
(***************************************************************************)
EXTENDS Naturals, Sequences, SequencesExt

CONSTANTS BLOCK_SIZE,    \* bytes of a block
          HEADER_SIZE,   \* bytes of a fragment's header
          RecordLens,    \* the lengths of the records added
          MaxRecords,    \* bound on the records added
          MaxCrashes,    \* bound on the crashes
          Reopen         \* how a log is reopened: "at_size" (write-ahead log),
                         \* "at_zero" (manifest), "fresh" (no reuse)

VARIABLES file,     \* the bytes of the file
          cur,      \* LogWriter.current_block_offset
          open,     \* a writer is open
          pending,  \* what add_record still has to emit: [id, off, len, first]
          added,    \* the lengths of the records added so far, by id
          ends,     \* the lengths the file had after each complete record
          flushed,  \* the length of the file that a crash leaves alone
          acked,    \* the records in the file that a flush has covered
          cut,      \* the records of which a crash has left a part in the file
          crashes

vars == <<file, cur, open, pending, added, ends, flushed, acked, cut, crashes>>

Idle == [id |-> 0, off |-> 0, len |-> 0, first |-> FALSE]

Init == /\ file = <<>> /\ cur = 0 /\ open = TRUE /\ pending = Idle
        /\ added = <<>> /\ ends = {0} /\ flushed = 0 /\ acked = {}
        /\ cut = {} /\ crashes = 0

\* The bytes of one fragment: the header, then the data.
Fragment(t, id, off, len) ==
    [i \in 1 .. HEADER_SIZE |->
        [kind |-> "head", typ |-> t, id |-> id, off |-> off, len |-> len, ix |-> i]]
    \o [i \in 1 .. len |-> [kind |-> "data", id |-> id, ix |-> off + i]]

Zeros(n) == [i \in 1 .. n |-> [kind |-> "zero"]]

\* add_record starts on the next record.
add_record(len) ==
    /\ open /\ pending = Idle /\ Len(added) < MaxRecords
    /\ added' = Append(added, len)
    /\ pending' = [id |-> Len(added) + 1, off |-> 0, len |-> len, first |-> TRUE]
    /\ UNCHANGED <<file, cur, open, ends, flushed, acked, cut, crashes>>

\* A rest of a block too short for a header is filled with zeros.
SpaceLeft == BLOCK_SIZE - cur
Trailer == IF SpaceLeft < HEADER_SIZE THEN SpaceLeft ELSE 0

BlockOffset == IF SpaceLeft < HEADER_SIZE THEN 0 ELSE cur

Available == BLOCK_SIZE - BlockOffset - HEADER_SIZE
FragmentLen == IF pending.len < Available THEN pending.len ELSE Available

RecordType ==
    IF pending.first
    THEN IF FragmentLen = pending.len THEN "Full" ELSE "First"
    ELSE IF FragmentLen = pending.len THEN "Last" ELSE "Middle"

\* One turn of the loop of add_record: at most one trailer and one fragment.
emit_record ==
    /\ open /\ pending # Idle
    /\ file' = file \o Zeros(Trailer)
                    \o Fragment(RecordType, pending.id, pending.off, FragmentLen)
    /\ cur' = BlockOffset + HEADER_SIZE + FragmentLen
    /\ IF FragmentLen = pending.len
       THEN pending' = Idle /\ ends' = ends \cup {Len(file')}
       ELSE /\ pending' = [pending EXCEPT !.off = @ + FragmentLen,
                                          !.len = @ - FragmentLen,
                                          !.first = FALSE]
            /\ UNCHANGED ends
    /\ UNCHANGED <<open, added, flushed, acked, cut, crashes>>

\* The ids of the records whose last byte is in the file.
Complete == {file[i].id : i \in {j \in 1 .. Len(file) : j \in ends}}

\* LogWriter::flush, called between records by DB::flush and log_and_apply.
flush ==
    /\ open /\ pending = Idle /\ flushed < Len(file)
    /\ flushed' = Len(file)
    /\ acked' = acked \cup Complete
    /\ UNCHANGED <<file, cur, open, pending, added, ends, cut, crashes>>

\* The process stops.  Of the bytes that were not flushed any prefix is on
\* disk, which may end inside a record.
crash ==
    /\ open /\ crashes < MaxCrashes
    /\ \E n \in flushed .. Len(file) :
          /\ cut' = IF n \in ends \/ file[n].kind = "zero" THEN cut
                    ELSE cut \cup {file[n].id}
          /\ file' = SubSeq(file, 1, n)
          /\ ends' = {e \in ends : e <= n}
          /\ flushed' = n
    /\ open' = FALSE /\ pending' = Idle /\ crashes' = crashes + 1
    /\ UNCHANGED <<cur, added, acked>>

\* The log is opened again after its records were read.  With "fresh" the
\* records have been written to a table and a new log file is started.
reopen ==
    /\ ~open
    /\ open' = TRUE
    /\ \/ /\ Reopen = "at_size"
          /\ cur' = Len(file) % BLOCK_SIZE
          /\ UNCHANGED <<file, ends, flushed, acked, cut>>
       \/ /\ Reopen = "at_zero"
          /\ cur' = 0
          /\ UNCHANGED <<file, ends, flushed, acked, cut>>
       \/ /\ Reopen = "fresh"
          /\ cur' = 0 /\ file' = <<>> /\ ends' = {0} /\ flushed' = 0
          /\ acked' = {} /\ cut' = {}
    /\ UNCHANGED <<pending, added, crashes>>

Next == \/ \E len \in RecordLens : add_record(len)
        \/ emit_record \/ flush \/ crash \/ reopen

Spec == Init /\ [][Next]_vars

(* LogReader, and the loop "while let Ok(len) = read()" that               *)
(* DB::recover_log_file and VersionSet::recover run over it, as a function *)
(* of the bytes of the file.                                               *)

\* A reader that takes the zeros at the end of a block for a header.
Skipped_Never(blk) == 0

\* The reader skips the end of a block that has no room for a header.
Skipped(blk) == IF blk <= BLOCK_SIZE /\ BLOCK_SIZE - blk < HEADER_SIZE
                THEN BLOCK_SIZE - blk ELSE 0
BlockStart(blk) == IF BLOCK_SIZE < blk \/ BLOCK_SIZE - blk < HEADER_SIZE THEN 0 ELSE blk

\* The bytes from position p on start with a whole fragment.  What the reader
\* takes for a header at any other place fails check_integrity.
FragmentAt(p) ==
    /\ p + HEADER_SIZE <= Len(file)
    /\ LET h == file[p + 1] IN
       /\ h.kind = "head" /\ h.ix = 1
       /\ p + HEADER_SIZE + h.len <= Len(file)
       /\ SubSeq(file, p + 1, p + HEADER_SIZE + h.len)
             = Fragment(h.typ, h.id, h.off, h.len)

\* The records read from position p on, the block offset being blk and part
\* the data of the record begun.  The end of the file and a failed checksum
\* both end the recovery loop, and both drop the part.
RECURSIVE ReadFrom(_, _, _)
ReadFrom(p, blk, part) ==
    LET q == p + Skipped(blk)
        h == file[q + 1]
        data == part \o SubSeq(file, q + HEADER_SIZE + 1, q + HEADER_SIZE + h.len)
        q2 == q + HEADER_SIZE + h.len
        blk2 == BlockStart(blk) + HEADER_SIZE + h.len
    IN  IF q >= Len(file) \/ ~FragmentAt(q) THEN <<>>
        ELSE IF h.typ \in {"Full", "Last"}
             THEN <<data>> \o ReadFrom(q2, blk2, <<>>)
             ELSE ReadFrom(q2, blk2, data)

ReadAll == ReadFrom(0, 0, <<>>)

Whole(id) == [i \in 1 .. added[id] |-> [kind |-> "data", id |-> id, ix |-> i]]

\* What recovery reads is records that were added, whole and in the order
\* they were added in.  Only where a crash has cut off a record between two of
\* its fragments LogReader::read joins its beginning to what was appended when
\* the log was reused.
OnlyWholeRecords ==
    /\ \A i \in 1 .. Len(ReadAll) :
          \/ \E id \in 1 .. Len(added) : ReadAll[i] = Whole(id)
          \/ ReadAll[i][1].id \in cut
    /\ \A i, j \in 1 .. Len(ReadAll) : i < j => ReadAll[i][1].id < ReadAll[j][1].id

\* Recovery reads every record that a flush covered, unless an earlier record
\* was cut off by a crash: a log that is reused is appended to behind the part
\* that was left (DB::recover_log_file), where recovery does not get.
FlushedIsRead ==
    \A id \in acked : (\A c \in cut : id < c) => Contains(ReadAll, Whole(id))
=============================================================================
