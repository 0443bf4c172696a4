-------------------------------- MODULE MCDB --------------------------------
(***************************************************************************)
(* The engine used in seven ways: which calls are made, whether logs and   *)
(* manifests are reused, what crashes and which I/O errors there are.  The *)
(* use that a behaviour is about is fixed in its first state.              *)
(***************************************************************************)
EXTENDS Naturals, Sequences

CONSTANTS NUM_LEVELS, max_file_size, LEVEL1_BYTES, OVERLAP_FACTOR, EXPAND_FACTOR,
          MAX_SEQUENCE_NUMBER, write_buffer_size,
          Uses       \* the uses that are checked

VARIABLES use, disk, db, snaps, todo, arg, edit, outs, ret, history, ends, synced, astray, budget

all == <<use, disk, db, snaps, todo, arg, edit, outs, ret, history, ends, synced, astray, budget>>

Put(u) == <<<<u, TRUE>>>>
Delete(u) == <<<<u, FALSE>>>>

\* Opened up to three times, with a crash; seek compactions.
Base == [keys |-> {1, 2}, batches |-> {Put(1), Put(2), Delete(1) \o Put(2)},
         seqs |-> 4, reuse |-> TRUE, ops |-> {"open", "close", "write", "flush", "get", "sample"},
         opens |-> 3, crashes |-> 1, faulty |-> {}, reopen |-> FALSE, snapshots |-> 0, l0 |-> 2]

Config == [
    base |-> Base,
    \* new logs and manifests at every open
    fresh |-> [Base EXCEPT !.reuse = FALSE, !.opens = 2, !.ops = @ \ {"get", "sample"}],
    \* closed after an I/O error, and opened again
    reopen |-> [Base EXCEPT !.opens = 2, !.crashes = 0, !.ops = @ \ {"get", "sample"},
                    !.faulty = {"log_edit", "set_current", "switch_log", "write_l0_table", "insert"},
                    !.reopen = TRUE],
    \* files that overlap in level 0: the logs of a few opens
    level0 |-> [Base EXCEPT !.reuse = FALSE, !.opens = 3, !.crashes = 0, !.keys = {1, 2, 3}, !.seqs = 5,
                    !.batches = {Put(1) \o Put(3), Put(2), Put(3)}, !.l0 = 4,
                    !.ops = {"open", "close", "write"}],
    compact |-> [Base EXCEPT !.opens = 1, !.crashes = 0, !.keys = {1, 2, 3},
                    !.batches = {Put(2), Delete(2), Put(1) \o Delete(3)},
                    !.ops = {"open", "write", "compact_range", "get"}],
    snapshot |-> [Base EXCEPT !.opens = 1, !.crashes = 0, !.batches = {Put(1), Put(1) \o Put(2)},
                    !.ops = {"open", "write", "compact_range", "snapshot"}, !.seqs = 3, !.snapshots = 2],
    \* a compaction that fails to write an output
    aborted |-> [Base EXCEPT !.opens = 1, !.crashes = 0, !.keys = {1, 2, 3}, !.seqs = 3,
                    !.batches = {Put(1), Put(1) \o Put(2), Put(1) \o Put(2) \o Put(3)},
                    !.ops = {"open", "close", "write", "compact_range"},
                    !.faulty = {"write_outputs"}]]

As(u) == INSTANCE DB WITH
    Keys <- Config[u].keys, L0_FILES <- Config[u].l0, Batches <- Config[u].batches, MaxSeq <- Config[u].seqs,
    reuse_logs <- Config[u].reuse, reuse_manifest <- Config[u].reuse,
    Ops <- Config[u].ops, MaxOpens <- Config[u].opens, MaxCrashes <- Config[u].crashes,
    MaxFaults <- IF Config[u].faulty = {} THEN 0 ELSE 1, Faulty <- Config[u].faulty,
    ReopenOnError <- Config[u].reopen, MaxSnapshots <- Config[u].snapshots

AnyInit == \E u \in Uses : use = u /\ As(u)!Init
AnyNext == \E u \in Uses : use = u /\ As(u)!Next /\ UNCHANGED use
AnyStep == \E u \in Uses : use = u /\ As(u)!Step /\ UNCHANGED use

\* The thread that makes a call carries it through: weak fairness of Step,
\* which is possible exactly when there is something to do.
AnySpec == AnyInit /\ [][AnyNext]_all /\ ([]<>(todo = <<>>) \/ []<><<AnyStep>>_all)

-----------------------------------------------------------------------------
\* DB::get returns the value written last and DB::get_at the one of the
\* snapshot, whatever has been flushed, moved and compacted since, and however
\* often the database was closed, crashed or opened again after an I/O error,
\* with four exceptions, which the formulas name: a write that went into a
\* compaction that failed and was installed all the same, a write that
\* overlap_in_level let pass below an older one of level 0, a key next to a
\* deleted one, which Version::get may take for deleted, and a snapshot below
\* the handle that SnapshotList::oldest returns.  But for the second, the newest
\* version of a key is in the lowest level that has one, where Version::get
\* looks first.
ReadsAreExact == \A u \in Uses : use = u =>
    As(u)!GetIsNewest /\ As(u)!SnapshotReads /\ As(u)!LevelsAreOrdered

\* At every moment the disk is in a state from which open works, every table
\* that the manifest CURRENT names adds being there, and that holds what was
\* flushed: for every key the value that it had after the last flush or after a
\* later write, unless that write was lost with a failed compaction, and, as
\* long as no write fails, no part of a batch.
FlushedIsOnDisk ==
    /\ \A u \in Uses : use = u => As(u)!DiskIsSound /\ As(u)!FlushedIsOnDisk
    /\ \A u \in Uses \ {"reopen"} : use = u => As(u)!BatchesAreAtomic

\* Every call ends, and without an error as long as there is no I/O error: the
\* loop of compact_range runs out of files, no compaction calls for itself, and
\* no assertion of the engine fails.  The tables are too few for one to overlap
\* OVERLAP_FACTOR files two levels below, where should_stop_before would end an
\* output that has not been begun.
EveryCallEnds ==
    /\ [](\A u \in Uses : use = u /\ Config[u].faulty = {} => ret = "ok")
    /\ []<>(todo = <<>>)
=============================================================================
