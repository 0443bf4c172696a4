----------------------------- MODULE AuditIndex -----------------------------
(***************************************************************************)
(* The audit log of management: an index of tantivy, an external library,  *)
(* whose files DbDirectory keeps under "tantivy/" in the storage service.  *)
(* A commit writes a segment and then meta.json, which names the segments; *)
(* a merge puts two segments together and deletes them; the reader loads   *)
(* the index again after meta.json was written.  Management may crash      *)
(* between any two requests and is started again.                          *)
(***************************************************************************)
EXTENDS Naturals, FiniteSets

CONSTANTS
  Entries,
  Segments,     \* names of segment files, each used once
  MaxCrash, MaxFail

VARIABLES
  files,        \* segment -> Absent or its entries, as stored
  meta,         \* meta.json as stored: Absent or a set of segments
  lock,         \* whether the lock file of the writer is stored
  up,           \* Auditor::try_new: "down", "lock", "index", "writer", "up"
  writer,       \* the index writer: [pc, seg, pending, batch]
  merge,        \* a merge: [pc, seg, old]
  visible,      \* entries of the searcher
  reload,       \* the callback of watch: "none", "due", or "failed" when it ran last
  used,
  acked,        \* history: the entries that save_logs has acknowledged
  dropped,      \* history: those of them that were in an index created anew
  crashes, fails

vars == <<files, meta, lock, up, writer, merge, visible, reload, used, acked, dropped,
          crashes, fails>>

Absent == {"absent"}
Free(pending) == [pc |-> "idle", seg |-> Absent, pending |-> pending, batch |-> {}]
NoMerge == [pc |-> "idle", seg |-> Absent, old |-> {}]
Stored(segs) == UNION {files[s] : s \in {t \in segs : files[t] # Absent}}

Init ==
    /\ files = [s \in Segments |-> Absent] /\ meta = Absent /\ lock = FALSE
    /\ up = "down" /\ writer = Free({}) /\ merge = NoMerge
    /\ visible = {} /\ reload = "none"
    /\ used = {} /\ acked = {} /\ dropped = {} /\ crashes = 0 /\ fails = 0

Fails == fails < MaxFail /\ fails' = fails + 1

-----------------------------------------------------------------------------
(* Auditor::try_new                                                        *)

\* DbDirectory::new removes the lock file of an earlier writer, and ignores
\* an error.
RemoveLock ==
    /\ up = "down" /\ up' = "lock"
    /\ \/ lock' = FALSE /\ UNCHANGED fails
       \/ Fails /\ UNCHANGED lock
    /\ UNCHANGED <<files, meta, writer, merge, visible, reload, used, acked, dropped, crashes>>

\* open_or_create, and the reader that loads the segments.  A request of exists
\* that fails says that there is no index, and an empty one is written over it;
\* when another request fails, try_new is an error.
OpenOrCreate ==
    LET opened == IF meta = Absent THEN {} ELSE meta
    IN  /\ up = "lock"
        /\ \/ up' = "index" /\ meta' = opened /\ UNCHANGED <<dropped, fails>>
           \/ up' = "index" /\ Fails /\ meta' = {} /\ dropped' = acked
           \/ up' = "down" /\ Fails /\ meta' \in {meta, opened} /\ UNCHANGED dropped
        /\ visible' = IF up' = "index" THEN Stored(meta') ELSE {}
        /\ UNCHANGED <<files, lock, writer, merge, reload, used, acked, dropped, crashes>>

\* Index::writer takes the lock file by open_write, which fails when it exists,
\* unless the request of exists fails; the put of the file may fail, too.
TakeLock ==
    /\ up = "index"
    /\ \/ lock' = TRUE /\ up' = (IF lock THEN "down" ELSE "up") /\ UNCHANGED fails
       \/ lock' = TRUE /\ up' = "up" /\ Fails
       \/ up' = "down" /\ Fails /\ UNCHANGED lock
    /\ UNCHANGED <<files, meta, writer, merge, visible, reload, used, acked, dropped, crashes>>

-----------------------------------------------------------------------------
(* save_logs: add_logs under the mutex of the writer.                      *)

add_logs(batch) ==
    /\ up = "up" /\ writer.pc = "idle" /\ batch # {}
    /\ \A e \in batch : e \notin Stored(Segments) \cup writer.pending
    /\ \E s \in Segments \ used :
         /\ used' = used \cup {s}
         /\ writer' = [pc |-> "write", seg |-> s, batch |-> batch,
                       pending |-> writer.pending \cup batch]
    /\ UNCHANGED <<files, meta, lock, up, merge, visible, reload, acked, dropped, crashes, fails>>


\* open_write of a new file, write and terminate_ref, which flushes the cache:
\* the file is stored in one request.
WriteSegment ==
    /\ writer.pc = "write"
    /\ files' = [files EXCEPT ![writer.seg] = writer.pending]
    /\ writer' = [writer EXCEPT !.pc = "meta"]
    /\ UNCHANGED <<meta, lock, up, merge, visible, reload, used, acked, dropped, crashes, fails>>

\* atomic_write of meta.json calls the callbacks of watch; the commit is done
\* and save_logs answers.
WriteMeta ==
    /\ writer.pc = "meta"
    /\ meta' = meta \cup {writer.seg}
    /\ reload' = "due"
    /\ acked' = acked \cup writer.batch
    /\ writer' = Free({})
    /\ UNCHANGED <<files, lock, up, merge, visible, used, dropped, crashes, fails>>

\* A request fails and save_logs is an error; the writer may still have the
\* documents.
CommitFails ==
    /\ writer.pc # "idle" /\ Fails
    /\ \E pending \in {{}, writer.pending} : writer' = Free(pending)
    /\ UNCHANGED <<files, meta, lock, up, merge, visible, reload, used, acked, dropped, crashes>>

\* The callback: the reader loads meta.json and the segments it names.  When
\* an open_read fails, it stays with what it has.
Reload ==
    /\ up = "up" /\ reload = "due"
    /\ \/ visible' = Stored(meta) /\ reload' = "none" /\ UNCHANGED fails
       \/ reload' = "failed" /\ Fails /\ UNCHANGED visible
    /\ UNCHANGED <<files, meta, lock, up, writer, merge, used, acked, dropped, crashes>>

-----------------------------------------------------------------------------
(* A merge of tantivy: a new segment, meta.json, and delete of the old ones. *)

StartMerge ==
    /\ up = "up" /\ merge.pc = "idle" /\ Cardinality(meta) > 1
    /\ \E s \in Segments \ used :
         /\ used' = used \cup {s}
         /\ files' = [files EXCEPT ![s] = Stored(meta)]
         /\ merge' = [pc |-> "meta", seg |-> s, old |-> meta]
    /\ UNCHANGED <<meta, lock, up, writer, visible, reload, acked, dropped, crashes, fails>>

\* A put of meta.json that fails ends the merge and leaves its segment.
MergeMeta ==
    /\ merge.pc = "meta"
    /\ \/ /\ meta' = (meta \ merge.old) \cup {merge.seg}
          /\ reload' = "due"
          /\ merge' = [merge EXCEPT !.pc = "delete"]
          /\ UNCHANGED fails
       \/ Fails /\ merge' = NoMerge /\ UNCHANGED <<meta, reload>>
    /\ UNCHANGED <<files, lock, up, writer, visible, used, acked, dropped, crashes>>

\* A delete that fails leaves a file that nothing names.
MergeDelete ==
    /\ merge.pc = "delete"
    /\ \/ files' = [s \in Segments |-> IF s \in merge.old THEN Absent ELSE files[s]]
          /\ UNCHANGED fails
       \/ Fails /\ UNCHANGED files
    /\ merge' = NoMerge
    /\ UNCHANGED <<meta, lock, up, writer, visible, reload, used, acked, dropped, crashes>>

\* Everything but the storage service's keys is lost.
Crash ==
    /\ crashes < MaxCrash /\ crashes' = crashes + 1
    /\ up' = "down" /\ writer' = Free({}) /\ merge' = NoMerge
    /\ visible' = {} /\ reload' = "none"
    /\ UNCHANGED <<files, meta, lock, used, acked, dropped, fails>>

-----------------------------------------------------------------------------
Start == RemoveLock \/ OpenOrCreate \/ TakeLock
Commit == WriteSegment \/ WriteMeta
Next ==
    \/ Start \/ Commit \/ CommitFails \/ Reload
    \/ \E batch \in SUBSET Entries : add_logs(batch)
    \/ StartMerge \/ MergeMeta \/ MergeDelete \/ Crash

Spec == Init /\ [][Next]_vars

-----------------------------------------------------------------------------
\* query_audit_logs for the administrator: the answers that a query which
\* matches all the entries may get, at most limit of the searcher's entries.
query_logs(limit) ==
    {q \in SUBSET visible : Cardinality(q) = limit \/ (q = visible /\ Cardinality(q) < limit)}

\* The index can be opened at any time: meta.json names only segments that
\* are stored, between any two requests of commits and merges, after failed
\* requests and crashes.
MetaIsReadable == meta # Absent => \A s \in meta : files[s] # Absent

\* What save_logs has acknowledged stays in the index: commits, merges, failed
\* requests and restarts of management lose no entry.  Excepted are the entries
\* of an index that open_or_create did not see since a get failed in exists.
SavedIsKept ==
    acked \ dropped \subseteq (IF meta = Absent THEN {} ELSE Stored(meta))

\* An entry that the administrator's query finds, and one that it need not
\* find: the index was created anew, or the last reload failed.
Acked(e) == e \in acked
Found(e) == up = "up" /\ \A q \in query_logs(Cardinality(Entries)) : e \in q
Missed(e) == e \in dropped \/ reload = "failed"
=============================================================================
