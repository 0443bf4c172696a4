----------------------------- MODULE MCStorage -----------------------------
(***************************************************************************)
(* The storage service and the structures of its database, each in an      *)
(* instance of its own.  The part that a behaviour is about is fixed in    *)
(* its first state; x1 .. x13 stand for its variables.  The part "queue"   *)
(* is DBQueue, with its own variables.                                     *)
(***************************************************************************)
EXTENDS DBQueue

CONSTANT Parts

VARIABLES part, x1, x2, x3, x4, x5, x6, x7, x8, x9, x10, x11, x12, x13

all == <<part, db, ret, astray, x1, x2, x3, x4, x5, x6, x7, x8, x9, x10, x11, x12, x13>>

Service == INSTANCE Storage WITH
    Clients <- {"c"}, DBKeys <- {1, 2, 3}, Prefix <- {1, 2},
    MaxCalls <- 4, MaxGivenUp <- 2, MayRestart <- TRUE, MayPanic <- TRUE,
    database <- x1, channel <- x2, call <- x3, answer <- x4, alive <- x5,
    given_up <- x6, written <- x7, accepted <- x8, due <- x9

\* The search index of the audit log, whose files are entries of the database.
Audit == INSTANCE AuditIndex WITH
    Entries <- {"a", "b"}, Segments <- {"s1", "s2", "s3", "s4"}, MaxCrash <- 1, MaxFail <- 1,
    files <- x1, meta <- x2, lock <- x3, up <- x4, writer <- x5, merge <- x6,
    visible <- x7, reload <- x8, used <- x9, acked <- x10, dropped <- x11,
    crashes <- x12, fails <- x13

\* A log that is reused, one that is not, and a manifest within its first block.
Log(p) == INSTANCE RecordLog WITH
    BLOCK_SIZE <- IF p = "manifest" THEN 16 ELSE 8, HEADER_SIZE <- 3,
    RecordLens <- CASE p = "log" -> {3, 11} [] p = "log_fresh" -> {1, 3, 11}
                    [] OTHER -> {1, 2},
    MaxRecords <- 3, MaxCrashes <- 2,
    Reopen <- CASE p = "log" -> "at_size" [] p = "log_fresh" -> "fresh" [] OTHER -> "at_zero",
    file <- x1, cur <- x2, open <- x3, pending <- x4, added <- x5, ends <- x6,
    flushed <- x7, acked <- x8, cut <- x9, crashes <- x10

\* With a deletion among the entries, and iterated without.
Mem(p) == INSTANCE MemTable WITH
    UserKeys <- {1, 2}, Seqs <- IF p = "memtable" THEN 1 .. 3 ELSE 1 .. 2,
    Deletions <- IF p = "memtable" THEN {2} ELSE {}, MAX_HEIGHT <- 3, MaxEntries <- 4,
    skips <- x1, next <- x2, current <- x3, call <- x4

\* User keys that do not end with a zero byte.
PlainKeys == {<<>>, <<1>>, <<1, 2>>, <<2>>}
PlainSeeks == {Append(u, 1) : u \in PlainKeys}

\* A table read from front to back, with a block that cannot be read; one read
\* in all directions; and one with several versions of a key, in blocks that
\* end between two of them.
Tab(p) == INSTANCE Table WITH
    MaxByte <- 3, MAX_SEQUENCE_NUMBER <- 4, MaxEntries <- 4, block_restart_interval <- 2,
    UserKeys <- IF p = "table_versions" THEN {<<1>>, <<2>>} ELSE PlainKeys,
    Seqs <- IF p = "table_versions" THEN 1 .. 3 ELSE {1},
    FILTER_BASE <- 2, SeekKeys <- IF p = "table_versions" THEN {} ELSE PlainSeeks,
    BlockSizes <- IF p = "table" THEN {1, 2, 5} ELSE {1},
    Ops <- CASE p = "table" -> {"advance", "reset"} [] p = "table_versions" -> {}
             [] OTHER -> {"advance", "reset", "seek", "prev"},
    MaxUnreadable <- IF p = "table_moves" THEN 0 ELSE 1, FilterMatchesAll <- p = "table_moves",
    phase <- x1, data <- x2, blocks <- x3, offsets <- x4, offset <- x5, index <- x6,
    filters <- x7, fkeys <- x8, unreadable <- x9, keys <- x10, it <- x11, call <- x12

\* Three iterators, going forward, or forward and back.
Merge(p) == INSTANCE MergeIter WITH
    Iters <- {0, 1, 2}, Keys <- IF p = "merge" THEN 1 .. 4 ELSE 1 .. 5,
    Ops <- {"advance"} \cup (IF p = "merge" THEN {"seek", "reset"} ELSE {"prev"}),
    AfterEnd <- p # "merge",
    owner <- x1, pos <- x2, current <- x3, direction <- x4, call <- x5

\* Tables that can all be opened, and some that cannot.
Level(p) == INSTANCE LevelIter WITH
    Keys <- 1 .. 5, MaxUnreadable <- IF p = "level" THEN 0 ELSE 2, AfterEnd <- FALSE,
    files <- x1, unreadable <- x2, current_ix <- x3, cur <- x4, call <- x5

Scan == INSTANCE DBIter WITH
    UserKeys <- {1, 2, 3}, NumSeqs <- 4, Snapshot <- 3, MaxEntries <- 4,
    entries <- x1, deletions <- x2, pos <- x3, dir <- x4, valid <- x5, savedkey <- x6,
    call <- x7

Cache == INSTANCE LRUCache WITH
    Keys <- {"k1", "k2", "k3", "k4"}, Nodes <- {"n1", "n2", "n3"}, cap <- 3,
    next <- x1, prev <- x2, data <- x3, map <- x4, count <- x5, failed <- x6

Logs == {"log", "log_fresh", "manifest"}
Mems == {"memtable", "memtable_iter"}
Tabs == {"table", "table_moves", "table_versions"}
Merges == {"merge", "merge_back"}
Levels == {"level", "level_unreadable"}

\* The variables from x_n on are not used.
Un13 == x13 = 0
Un11 == x11 = 0 /\ x12 = 0 /\ Un13
Un10 == x10 = 0 /\ Un11
Un8 == x8 = 0 /\ x9 = 0 /\ Un10
Un7 == x7 = 0 /\ Un8
Un6 == x6 = 0 /\ Un7
Un5 == x5 = 0 /\ Un6
Un1 == x1 = 0 /\ x2 = 0 /\ x3 = 0 /\ x4 = 0 /\ Un5

PartInit(p) ==
    \/ p = "queue" /\ Un1
    \/ p = "storage" /\ Service!Init /\ Un10
    \/ p = "index" /\ Audit!Init
    \/ p \in Logs /\ Log(p)!Init /\ Un11
    \/ p \in Mems /\ Mem(p)!Init /\ Un5
    \/ p \in Tabs /\ Tab(p)!Init /\ Un13
    \/ p \in Merges /\ Merge(p)!Init /\ Un6
    \/ p \in Levels /\ Level(p)!Init /\ Un6
    \/ p = "dbiter" /\ Scan!Init /\ Un8
    \/ p = "cache" /\ Cache!Init /\ Un7

Keep5 == UNCHANGED <<x5, x6, x7, x8, x9, x10, x11, x12, x13>>
Keep6 == UNCHANGED <<x6, x7, x8, x9, x10, x11, x12, x13>>
Keep7 == UNCHANGED <<x7, x8, x9, x10, x11, x12, x13>>
Keep8 == UNCHANGED <<x8, x9, x10, x11, x12, x13>>
Keep10 == UNCHANGED <<x10, x11, x12, x13>>
Keep11 == UNCHANGED <<x11, x12, x13>>
Keep13 == UNCHANGED x13

PartNext(p) ==
    \/ p = "storage" /\ Service!Next /\ Keep10
    \/ p = "index" /\ Audit!Next
    \/ p \in Logs /\ Log(p)!Next /\ Keep11
    \/ p \in Mems /\ Mem(p)!Next /\ Keep5
    \/ p \in Tabs /\ Tab(p)!Next /\ Keep13
    \/ p \in Merges /\ Merge(p)!Next /\ Keep6
    \/ p \in Levels /\ Level(p)!Next /\ Keep6
    \/ p = "dbiter" /\ Scan!Next /\ Keep8
    \/ p = "cache" /\ Cache!Next /\ Keep7

AnyInit == Init /\ \E p \in Parts : part = p /\ PartInit(p)
AnyNext ==
    \/ part = "queue" /\ Next /\ UNCHANGED <<part, x1, x2, x3, x4>> /\ Keep5
    \/ \E p \in Parts : part = p /\ PartNext(p) /\ UNCHANGED <<part, db, ret, astray>>

\* The thread of the storage service takes the requests out of the channel; a
\* failed start of management is repeated, and the callback of watch runs.
AnyFairness ==
    /\ WF_all(part = "storage" /\ Service!Dispatch /\ Keep10 /\ UNCHANGED <<part, db, ret, astray>>)
    /\ WF_all(part = "index" /\ Audit!Start /\ UNCHANGED <<part, db, ret, astray>>)
    /\ WF_all(part = "index" /\ Audit!Reload /\ UNCHANGED <<part, db, ret, astray>>)

AnySpec == AnyInit /\ [][AnyNext]_all /\ AnyFairness

-----------------------------------------------------------------------------
\* A put that its caller gave up does not overwrite what the same caller put
\* later and saw acknowledged: the channel keeps the order of the calls.
NoLateWrite == part = "storage" => Service!NoLateWrite

\* A get or a listing is answered from exactly the requests that were accepted
\* before it, those included whose callers gave up.  A listing has a key
\* without the prefix only if nothing with the prefix is stored.
RepliesInOrder == part = "storage" => Service!RepliesInOrder

\* Every call is answered, also when the thread dies before its turn.
EveryCallEnds == (part = "storage" /\ Service!Waiting("c"))
                 ~> (part = "storage" /\ ~Service!Waiting("c"))


\* Recovery reads records that were added, whole and in the order they were
\* added in, and every record that a flush covered, wherever crashes cut the
\* file off and in each of the ways in which a log is opened again.  Excepted
\* is what comes behind a record of which a crash has left a part: it was
\* appended to a log that is reused (reuse_logs), and is not reached, or read
\* as the rest of that record.
FlushedIsRead == \A p \in Logs : part = p => Log(p)!OnlyWholeRecords /\ Log(p)!FlushedIsRead

\* MemTable::get and Table::get find the newest entry of a user key that is not
\* newer than the lookup key, and nothing only if there is none that can be
\* read, or if the lookup key is itself an entry of the index of the table,
\* which Table::get passes over; with what they rest on: the links of each
\* level of the skip list are sorted, an index entry separates the blocks next
\* to it, and the filter of a block has all its keys.
LookupsAreExact ==
    /\ \A p \in Mems : part = p => Mem(p)!LevelsAreSorted /\ Mem(p)!GetIsNewest
    /\ \A p \in {"table", "table_versions"} :
          part = p => /\ Tab(p)!FilterCoversBlock
                      /\ Tab(p)!IndexSeparates
                      /\ Tab(p)!GetFindsVersion

\* The contract of LdbIterator, which Cursor states, is implemented by the
\* iterator of the memtable (also when entries are inserted under it), by
\* TableIterator advanced and reset over the blocks that can be read, by
\* MergingIter going forward, by VersionIter over all tables of a level, and by
\* DBIterator over the keys visible in its snapshot.  The moves that implement
\* less still go the right way: TableIterator::prev, and a seek that ends on an
\* entry, are exact; a step of MergingIter, forward or back, that ends on an
\* entry has moved in its direction; and an advance of VersionIter passes over
\* no entry, also when tables cannot be opened, so that a merge never hides a
\* newer version.
IteratorsAreCursors ==
    /\ part = "memtable_iter" => Mem("memtable_iter")!C!CursorInit
    /\ part = "table" => Tab("table")!C!CursorInit
    /\ part = "merge" => Merge("merge")!C!CursorInit
    /\ part = "level" => Level("level")!C!CursorInit
    /\ part = "dbiter" => Scan!Positions!CursorInit
    /\ [][/\ part = "memtable_iter" => Mem("memtable_iter")!C!CursorStep
          /\ part = "table" => Tab("table")!C!CursorStep
          /\ part = "merge" => Merge("merge")!C!CursorStep
          /\ part = "level" => Level("level")!C!CursorStep
          /\ part = "dbiter" => Scan!Positions!CursorStep
          /\ part = "table_moves" => Tab("table_moves")!ExactMove
          /\ part = "merge_back" => Merge("merge_back")!MonotoneMove
          /\ part = "level_unreadable" => Level("level_unreadable")!SkipsNothing]_all

\* The list of the cache holds the keys of the map in the order of their use,
\* and a full cache gives up the one used least recently; it follows no pointer
\* to a freed node, and the assertions of remove_last and insert hold.  This is
\* so until the last element of the list is removed, since LRUList::remove does
\* not move head.prev, and again once head.prev is set.
CacheImplementsLRU ==
    /\ part = "cache" => Cache!L!LRUInit /\ Cache!Sound
    /\ [][part = "cache" => Cache!SoundStep]_all
=============================================================================
