-------------------------------- MODULE DB --------------------------------
(***************************************************************************)
(* The database engine (db_impl.rs, version_set.rs, snapshot.rs,           *)
(* write_batch.rs): a memtable with its log, tables in levels, and the     *)
(* manifest that records which tables make up the current version.         *)
(*                                                                         *)
(* DB is used by one thread, but the machine may stop between any two      *)
(* changes of the disk.  A call is therefore a sequence of steps, kept in  *)
(* todo, each of which makes one durable change; Crash may come before any *)
(* of them.  A failed step (an I/O error) ends the call the way `?` does.  *)
(*                                                                         *)
(* Log records and manifest records are whole here (see RecordLog for what *)
(* a crash leaves of them), a memtable is a set of entries (see MemTable)  *)
(* and so is a table (see Table).                                          *)
(*                                                                         *)
(* First come the versions of the database, as operators: which tables are *)
(* in which level, how a key is looked up in them, and which tables a      *)
(* compaction takes and what it writes (version.rs, version_set.rs and the *)
(* compaction of db_impl.rs).                                              *)
(*                                                                         *)
(* An entry is <<user key, sequence number, value>>; the value 0 is a      *)
(* deletion.  A file is the metadata of a table: its number, its smallest  *)
(* and largest entry and its size, counted in entries.  A version is a     *)
(* function from levels to sets of files; the code keeps each of them      *)
(* sorted by smallest entry (see Sorted).                                  *)
(***************************************************************************)
EXTENDS Integers, SequencesExt

CONSTANTS NUM_LEVELS,
          max_file_size,
          L0_FILES,             \* 4: the files of level 0 that call for a compaction
          LEVEL1_BYTES,         \* 10 MB: the bytes of level 1 that do
          OVERLAP_FACTOR,       \* 10: overlap with the grandparents, in max_file_size
          EXPAND_FACTOR,        \* 25: limit for adding inputs, in max_file_size
          MAX_SEQUENCE_NUMBER

Levels == 0 .. NUM_LEVELS - 1
MAX_MEM_COMPACT_LEVEL == 2

User(e) == e[1]
SeqNum(e) == e[2]
IsDeletion(e) == e[3] = 0

\* cmp_internal_key: by user key, then the newest first.
KeyLess(a, b) == User(a) < User(b) \/ (User(a) = User(b) /\ SeqNum(a) > SeqNum(b))
KeyLeq(a, b) == ~KeyLess(b, a)
SmallestOf(es) == CHOOSE e \in es : \A f \in es : KeyLeq(e, f)
LargestOf(es) == CHOOSE e \in es : \A f \in es : KeyLeq(f, e)

Lookup(u, s) == <<u, s, 1>>
File(num, lo, hi, size) == [num |-> num, smallest |-> lo, largest |-> hi, size |-> size]
Sorted(fs) == SetToSortSeq(fs, LAMBDA f, g : KeyLess(f.smallest, g.smallest))
total_size(fs) == FoldSet(LAMBDA f, n : f.size + n, 0, fs)

NoFiles == [l \in Levels |-> {}]
live_files(v) == {f.num : f \in UNION {v[l] : l \in Levels}}

(* Searching. *)

\* find_file: binary search for the first file that ends at or after k; the
\* number of files when there is none.
find_file(fs, k) ==
    LET search[left \in 0 .. Len(fs), right \in 0 .. Len(fs)] ==
            LET mid == (left + right) \div 2
            IN  IF left >= right THEN right
                ELSE IF KeyLess(fs[mid + 1].largest, k) THEN search[mid + 1, right]
                ELSE search[left, mid]
    IN  search[0, Len(fs)]

Overlaps(f, from, to) == User(f.largest) >= from /\ User(f.smallest) <= to

\* some_file_overlaps_range_disjoint and some_file_overlaps_range.
overlaps_disjoint(fs, from, to) ==
    LET ix == find_file(Sorted(fs), Lookup(from, MAX_SEQUENCE_NUMBER))
    IN  ix < Cardinality(fs) /\ to >= User(Sorted(fs)[ix + 1].smallest)
overlaps_any(fs, from, to) == \E f \in fs : Overlaps(f, from, to)

overlap_in_level(v, level, from, to) ==
    IF level = 0 THEN overlaps_disjoint(v[level], from, to)
    ELSE overlaps_any(v[level], from, to)

\* overlapping_inputs for user keys.  In level 0 the range grows with every
\* file found, until no file sticks out of it.
RECURSIVE overlapping_inputs(_, _, _, _)
overlapping_inputs(v, level, from, to) ==
    LET found == {f \in v[level] : Overlaps(f, from, to)}
        begin == Min({from} \cup {User(f.smallest) : f \in found})
        end == Max({to} \cup {User(f.largest) : f \in found})
    IN  IF level > 0 \/ (begin = from /\ end = to) THEN found
        ELSE overlapping_inputs(v, level, begin, end)

\* get_overlapping: the files to look into in a level, the newest first.
get_overlapping(v, level, k) ==
    IF level = 0
    THEN SetToSortSeq({f \in v[0] : Overlaps(f, User(k), User(k))},
                      LAMBDA f, g : f.num > g.num)
    ELSE LET fs == Sorted(v[level])
             ix == find_file(fs, k)
         IN  IF ix < Len(fs) /\ User(k) >= User(fs[ix + 1].smallest) THEN <<fs[ix + 1]>> ELSE <<>>

\* The files Version::get looks into, in order.
Searched(v, k) == FlattenSeq([i \in 1 .. NUM_LEVELS |-> get_overlapping(v, i - 1, k)])

\* pick_memtable_output_level.
OutputLevelPassed(v, level, from, to) ==
    /\ ~overlap_in_level(v, level, from, to)
    /\ level + 1 < NUM_LEVELS =>
            total_size(overlapping_inputs(v, level + 1, from, to)) <= OVERLAP_FACTOR * max_file_size
pick_memtable_output_level(v, from, to) ==
    IF overlap_in_level(v, 0, from, to) THEN 0
    ELSE CHOOSE level \in 0 .. MAX_MEM_COMPACT_LEVEL :
            /\ \A l \in 1 .. level : OutputLevelPassed(v, l, from, to)
            /\ level < MAX_MEM_COMPACT_LEVEL => ~OutputLevelPassed(v, level + 1, from, to)

(* Picking a compaction. *)

\* VersionSet::finalize: the score of a level, as a fraction, and the level
\* with the best one.
Score(v, level) ==
    IF level = 0 THEN <<Cardinality(v[0]), L0_FILES>>
    ELSE <<total_size(v[level]), LEVEL1_BYTES * 10 ^ (level - 1)>>
ScoreLess(a, b) == a[1] * b[2] < b[1] * a[2]
compaction_level(v) ==
    CHOOSE l \in 0 .. NUM_LEVELS - 2 : \A m \in 0 .. NUM_LEVELS - 2 :
        /\ m < l => ScoreLess(Score(v, m), Score(v, l))
        /\ m > l => ~ScoreLess(Score(v, l), Score(v, m))
SizeCompaction(v) == ~ScoreLess(Score(v, compaction_level(v)), <<1, 1>>)

\* get_range, as user keys.
Begin(fs) == Min({User(f.smallest) : f \in fs})
End(fs) == Max({User(f.largest) : f \in fs})

Compaction(v, level, in0, in1, manual) ==
    [level |-> level, inputs |-> <<in0, in1>>, manual |-> manual,
     largest |-> LargestOf({f.largest : f \in in0}),
     grandparents |-> IF level + 2 < NUM_LEVELS
                      THEN overlapping_inputs(v, level + 2, Begin(in0 \cup in1), End(in0 \cup in1))
                      ELSE {}]

\* setup_other_inputs: the files of the next level, and more files of this one
\* if they bring in no other.
setup_other_inputs(v, level, in0, manual) ==
    LET in1 == overlapping_inputs(v, level + 1, Begin(in0), End(in0))
        more0 == overlapping_inputs(v, level, Begin(in0 \cup in1), End(in0 \cup in1))
        more1 == overlapping_inputs(v, level + 1, Begin(more0), End(more0))
    IN  IF /\ in1 # {}
           /\ Cardinality(more0) > Cardinality(in0)
           /\ total_size(in1) + total_size(more0) < EXPAND_FACTOR * max_file_size
           /\ Cardinality(more1) = Cardinality(in1)
        THEN Compaction(v, level, more0, more1, manual)
        ELSE Compaction(v, level, in0, in1, manual)

\* pick_compaction: the first file after the compaction pointer of the level
\* with the best score, or the file to compact because of seeks.  A pointer
\* that is not set is <<>>, and so is a missing file to compact.
pick_compaction(v, ptrs, file_to_compact) ==
    LET size == SizeCompaction(v)
        level == IF size THEN compaction_level(v) ELSE file_to_compact.level
        fs == Sorted(v[level])
        next == SelectInSeq(fs, LAMBDA f : ptrs[level] = <<>> \/ KeyLess(ptrs[level], f.largest))
        first == IF size THEN fs[IF next = 0 THEN 1 ELSE next] ELSE file_to_compact.file
        in0 == IF level > 0 THEN {first}
               ELSE overlapping_inputs(v, 0, User(first.smallest), User(first.largest))
    IN  setup_other_inputs(v, level, in0, FALSE)

needs_compaction(v, file_to_compact) == SizeCompaction(v) \/ file_to_compact # <<>>

\* VersionSet::compact_range: above level 0 only files up to the size of one.
range_compaction(v, level, from, to) ==
    LET fs == Sorted(overlapping_inputs(v, level, from, to))
        cut == {i \in DOMAIN fs : total_size(ToSet(SubSeq(fs, 1, i))) > max_file_size}
    IN  setup_other_inputs(v, level,
            ToSet(IF level = 0 \/ cut = {} THEN fs ELSE SubSeq(fs, 1, Min(cut))), TRUE)

is_trivial_move(c) ==
    /\ ~c.manual
    /\ Cardinality(c.inputs[1]) = 1 /\ c.inputs[2] = {}
    /\ total_size(c.grandparents) < OVERLAP_FACTOR * max_file_size

\* is_base_level_for: no table below the compaction's two levels has the key.
is_base_level_for(v, c, u) ==
    \A l \in c.level + 2 .. NUM_LEVELS - 1 : ~overlaps_any(v[l], u, u)

(* do_compaction_work: what is written for the entries read. *)

\* should_stop_before: w.stop, and the grandparents passed and the overlap.
should_stop_before(c, w, e) ==
    LET gps == Sorted(c.grandparents)
        ix == Cardinality({i \in DOMAIN gps : KeyLess(gps[i].largest, e)})
        sum == w.overlapped + IF w.seen THEN total_size(ToSet(SubSeq(gps, w.gp + 1, ix))) ELSE 0
        stop == sum > OVERLAP_FACTOR * max_file_size
    IN  [w EXCEPT !.gp = ix, !.seen = TRUE, !.overlapped = IF stop THEN 0 ELSE sum,
                  !.panic = w.panic \/ (stop /\ w.open = {})]

Finish(w, e) ==
    IF w.open = {} THEN w
    ELSE [w EXCEPT !.open = {}, !.done = Append(w.done,
            [smallest |-> SmallestOf(w.open), largest |-> e, entries |-> w.open])]

\* An entry is omitted when a newer one of its key is old enough for all
\* snapshots, or when it is an old deletion with nothing below to hide.
Omitted(v, c, smallest_seq, last, e) ==
    \/ last <= smallest_seq
    \/ IsDeletion(e) /\ SeqNum(e) <= smallest_seq /\ is_base_level_for(v, c, User(e))

\* One turn of the loop.
CompactEntry(v, c, smallest_seq, w0, e) ==
    LET w == should_stop_before(c, w0, e)
        last == IF User(e) = w.user THEN w.last ELSE MAX_SEQUENCE_NUMBER
        w1 == [w EXCEPT !.user = User(e), !.last = SeqNum(e)]
        w2 == [w1 EXCEPT !.open = w.open \cup {e}]
    IN  IF Omitted(v, c, smallest_seq, last, e) THEN w1
        ELSE IF Cardinality(w2.open) > max_file_size THEN Finish(w2, e) ELSE w2

do_compaction_work(v, c, smallest_seq, entries) ==
    LET start == [user |-> 0, last |-> MAX_SEQUENCE_NUMBER, open |-> {}, done |-> <<>>,
                  gp |-> 0, seen |-> FALSE, overlapped |-> 0, panic |-> FALSE]
        end == FoldLeft(LAMBDA w, e : CompactEntry(v, c, smallest_seq, w, e), start,
                        SetToSortSeq(entries, KeyLess))
    IN  IF entries = {} THEN end ELSE Finish(end, LargestOf(entries))

-----------------------------------------------------------------------------
CONSTANTS Keys,                  \* the user keys: positive integers
          Batches,               \* the batches written: sequences of <<key, is a put>>
          MaxSeq,                \* bound on the sequence numbers
          write_buffer_size,     \* in entries
          reuse_logs, reuse_manifest,
          Ops,                   \* the calls made
          MaxOpens, MaxCrashes, MaxSnapshots,
          MaxFaults, Faulty,     \* bound on the I/O errors, and the steps they hit
          ReopenOnError          \* after an error the database is closed

VARIABLES disk,      \* the files: logs, tables, manifests by number, CURRENT
          db,        \* the open database
          snaps,     \* SnapshotList: handles and their sequence numbers
          todo,      \* the steps left of the call
          arg,       \* the arguments of the call
          edit,      \* the VersionEdit under construction
          outs,      \* the outputs a compaction has yet to write
          ret,       \* how the last call ended
          history,   \* the entries written and acknowledged, by sequence number
          ends,      \* the last sequence numbers of the batches
          synced,    \* the number of entries known to be on disk
          astray,    \* the entries that were lost, those put below older ones, and
                     \* the sequence number up to which snapshots were passed over
          budget     \* the crashes, faults and values used

ghosts == <<history, ends, synced, astray>>
vars == <<disk, db, snaps, todo, arg, edit, outs, ret, ghosts, budget>>

None == -1

NewEdit == [deleted |-> {}, added |-> {}, ptrs |-> <<>>, log_num |-> None,
            next_file |-> None, last_seq |-> None]
Closed == [open |-> FALSE, mem |-> {}, imm |-> {}, log |-> None, buffer |-> <<>>,
           files |-> NoFiles, next_file |-> 2, last_seq |-> 0, log_num |-> 0,
           manifest_num |-> 0, descriptor |-> FALSE, ptrs |-> [l \in Levels |-> <<>>],
           file_to_compact |-> <<>>]
NoSnaps == [map |-> <<>>, newest |-> 0, oldest |-> 0]
NoArg == [batch |-> {}, sync |-> FALSE, begin |-> 0, from |-> 0, to |-> 0, level |-> 0, max_level |-> 0]

Init == /\ disk = [logs |-> <<>>, tables |-> <<>>, manifests |-> <<>>, current |-> 0]
        /\ db = Closed /\ snaps = NoSnaps
        /\ todo = <<>> /\ arg = NoArg /\ edit = NewEdit /\ outs = <<>> /\ ret = "ok"
        /\ history = <<>> /\ ends = {0} /\ synced = 0
        /\ astray = [lost |-> {}, misplaced |-> {}, passed |-> 0]
        /\ budget = [opens |-> 0, crashes |-> 0, faults |-> 0, values |-> 0]

Put(f, n, x) == (n :> x) @@ f
Ready == db.open /\ todo = <<>> /\ ret # "panic"
Does(step) == todo # <<>> /\ todo[1] = step
Goes(steps) == todo' = steps \o Tail(todo)
Calls(op, steps, a) ==
    /\ op \in Ops
    /\ ReopenOnError /\ db.open => ret = "ok"
    /\ todo' = steps /\ arg' = a /\ ret' = "ok"

\* The step fails, and with it the call; "panic" is an assertion that fails.
CanFail == budget.faults < MaxFaults /\ todo[1] \in Faulty
Fails == /\ CanFail
         /\ budget' = [budget EXCEPT !.faults = @ + 1]
         /\ todo' = <<>> /\ ret' = "error"

(* VersionSet. *)

\* Builder: the files of base and those added, without the ones deleted later.
save_to(base, edits) ==
    LET adds(e, l) == {f[2] : f \in {g \in e.added : g[1] = l}}
        gone(l, f) == \E i \in DOMAIN edits :
                        /\ <<l, f.num>> \in edits[i].deleted
                        /\ \A j \in i .. Len(edits) : \A g \in adds(edits[j], l) : g.num # f.num
        all(l) == base[l] \cup UNION {adds(edits[i], l) : i \in DOMAIN edits}
    IN  [l \in Levels |-> {f \in all(l) : ~gone(l, f)}]

\* The last edit that sets a field.
LastSet(edits, field) ==
    LET set == SelectSeq(edits, LAMBDA e : e[field] # None)
    IN  IF set = <<>> THEN None ELSE Last(set)[field]

\* save_to and maybe_add_file assert that the files of a level do not overlap.
Disjoint(v) == \A l \in Levels \ {0} : \A f, g \in v[l] :
                    f = g \/ KeyLess(f.largest, g.smallest) \/ KeyLess(g.largest, f.smallest)

\* VersionSet::recover: the state the manifest describes, and reuse_manifest.
recover(edits) ==
    LET log_num == LastSet(edits, "log_num")
        next == LastSet(edits, "next_file") + 1
    IN  [Closed EXCEPT
            !.files = save_to(NoFiles, edits),
            !.log_num = log_num,
            !.next_file = next,
            !.last_seq = LastSet(edits, "last_seq"),
            !.ptrs = FoldLeft(LAMBDA p, e : e.ptrs @@ p, Closed.ptrs, edits),
            !.manifest_num = IF reuse_manifest THEN disk.current ELSE next - 1,
            !.descriptor = reuse_manifest]

\* log_and_apply up to the point where the edit is in the manifest.  A new
\* manifest starts with a snapshot of the version (write_snapshot).
FullEdit == [edit EXCEPT !.log_num = IF @ = None THEN db.log_num ELSE @,
                         !.next_file = db.next_file, !.last_seq = db.last_seq]
Snapshot == [NewEdit EXCEPT
                !.ptrs = Restrict(db.ptrs, {l \in Levels : db.ptrs[l] # <<>>}),
                !.added = UNION {{<<l, f>> : f \in db.files[l]} : l \in Levels}]
Manifest == IF db.descriptor THEN disk.manifests[db.manifest_num] ELSE <<Snapshot>>

\* The assertions of log_and_apply.
EditIsSound ==
    /\ FullEdit.log_num >= db.log_num
    /\ edit.log_num # None => edit.log_num < db.next_file
    /\ Disjoint(save_to(db.files, <<edit>>))

log_edit ==
    /\ Does("log_edit")
    /\ UNCHANGED <<snaps, arg, outs, ghosts>>
    /\ IF ~EditIsSound
       THEN todo' = <<>> /\ ret' = "panic" /\ UNCHANGED <<disk, db, edit, budget>>
       ELSE /\ db' = [db EXCEPT !.ptrs = edit.ptrs @@ @, !.descriptor = TRUE]
            /\ \/ /\ disk' = [disk EXCEPT !.manifests =
                                Put(@, db.manifest_num, Append(Manifest, FullEdit))]
                  /\ edit' = FullEdit
                  /\ Goes(<<>>) /\ UNCHANGED <<ret, budget>>
               \/ /\ Fails
                  /\ disk' = [disk EXCEPT !.manifests = Put(@, db.manifest_num, Manifest)]
                  /\ edit' = NewEdit

\* set_current_file, and the edit becomes the current version.
set_current ==
    /\ Does("set_current")
    /\ edit' = NewEdit
    /\ UNCHANGED <<snaps, arg, outs, ghosts>>
    /\ \/ /\ disk' = [disk EXCEPT !.current = db.manifest_num]
          /\ db' = [db EXCEPT !.files = save_to(@, <<edit>>), !.log_num = edit.log_num,
                              !.file_to_compact = <<>>]
          /\ Goes(<<>>) /\ UNCHANGED <<ret, budget>>
       \/ Fails /\ UNCHANGED <<disk, db>>
log_and_apply == <<"log_edit", "set_current">>

\* A version that goes by the log number for tables too.
delete_obsolete_files_Tables ==
    /\ Does("delete_obsolete_files")
    /\ disk' = [disk EXCEPT
                  !.tables = Restrict(@, {n \in DOMAIN @ : n >= db.log_num}),
                  !.logs = Restrict(@, {n \in DOMAIN @ : n >= db.log_num}),
                  !.manifests = Restrict(@, {n \in DOMAIN @ : n >= db.manifest_num})]
    /\ Goes(<<>>)
    /\ UNCHANGED <<db, snaps, arg, edit, outs, ret, ghosts, budget>>

delete_obsolete_files ==
    /\ Does("delete_obsolete_files")
    /\ disk' = [disk EXCEPT
                  !.tables = Restrict(@, DOMAIN @ \cap live_files(db.files)),
                  !.logs = Restrict(@, {n \in DOMAIN @ : n >= db.log_num}),
                  !.manifests = Restrict(@, {n \in DOMAIN @ : n >= db.manifest_num})]
    /\ Goes(<<>>)
    /\ UNCHANGED <<db, snaps, arg, edit, outs, ret, ghosts, budget>>

(* Opening. *)

\* initialize_db: the first manifest, then CURRENT.
initialize_db ==
    /\ Does("initialize_db")
    /\ disk' = [disk EXCEPT !.manifests = Put(@, 1,
                  <<[NewEdit EXCEPT !.log_num = 0, !.next_file = 2, !.last_seq = 0]>>)]
    /\ Goes(<<>>)
    /\ UNCHANGED <<db, snaps, arg, edit, outs, ret, ghosts, budget>>
first_current ==
    /\ Does("first_current")
    /\ disk' = [disk EXCEPT !.current = 1]
    /\ Goes(<<>>)
    /\ UNCHANGED <<db, snaps, arg, edit, outs, ret, ghosts, budget>>

open ==
    /\ ~db.open /\ todo = <<>> /\ ret # "panic"
    /\ Calls("open", (IF disk.current = 0 THEN <<"initialize_db", "first_current">> ELSE <<>>)
                     \o <<"recover">>, NoArg)
    /\ edit' = NewEdit
    /\ budget.opens < MaxOpens /\ budget' = [budget EXCEPT !.opens = @ + 1]
    /\ UNCHANGED <<disk, db, snaps, outs, ghosts>>

Meta(num, es) == File(num, SmallestOf(es), LargestOf(es), Cardinality(es))

\* write_l0_table during recovery: r collects what recover_log_file changes.
WriteRecovered(r) ==
    [r EXCEPT !.mem = {}, !.next_file = @ + 1, !.save = TRUE,
              !.tables = Put(@, r.next_file, r.mem),
              !.added = @ \cup {<<0, Meta(r.next_file, r.mem)>>}]
RecoverRecord(r, batch) ==
    LET mem == r.mem \cup batch
        r1 == [r EXCEPT !.mem = mem, !.max_seq = Max({@} \cup {SeqNum(e) : e \in batch})]
    IN  IF Cardinality(mem) > write_buffer_size
        THEN [WriteRecovered(r1) EXCEPT !.compactions = @ + 1] ELSE r1
recover_log_file(r, n, is_last) ==
    LET r1 == FoldLeft(RecoverRecord, [r EXCEPT !.mem = {}, !.compactions = 0], disk.logs[n])
        r2 == IF reuse_logs /\ is_last /\ r1.compactions = 0 THEN [r1 EXCEPT !.log = n]
              ELSE IF r1.mem # {} THEN WriteRecovered(r1) ELSE r1
    IN  [r2 EXCEPT !.next_file = Max({@, n + 1})]

\* recover and the rest of open: the manifest, the logs it does not cover, a
\* new log if none is reused, the edit if there is something to save.
Missing(v) == live_files(v) \ (DOMAIN disk.tables \cup DOMAIN disk.logs \cup DOMAIN disk.manifests)
recover_db ==
    LET d == recover(disk.manifests[disk.current])
        logs == SetToSortSeq({n \in DOMAIN disk.logs : n >= d.log_num}, <)
        start == [mem |-> {}, next_file |-> d.next_file, save |-> ~reuse_manifest,
                  tables |-> disk.tables, added |-> {}, compactions |-> 0,
                  max_seq |-> d.last_seq, log |-> None]
        r == FoldLeft(LAMBDA q, i : recover_log_file(q, logs[i], i = Len(logs)), start,
                      [i \in DOMAIN logs |-> i])
    IN  /\ Does("recover")
        /\ UNCHANGED <<snaps, arg, outs, synced, ends, astray, budget>>
        /\ IF Missing(d.files) # {}
           THEN todo' = <<>> /\ ret' = "error" /\ UNCHANGED <<disk, db, edit, history>>
           ELSE /\ disk' = [disk EXCEPT !.tables = r.tables]
                /\ db' = [d EXCEPT !.mem = r.mem, !.next_file = r.next_file,
                                   !.last_seq = r.max_seq, !.log = r.log]
                /\ edit' = [NewEdit EXCEPT !.added = r.added,
                                           !.log_num = IF r.save THEN r.log ELSE None]
                /\ history' = SubSeq(history, 1, r.max_seq)
                /\ Goes((IF r.log = None THEN <<"first_log">> ELSE <<>>)
                        \o (IF r.save THEN log_and_apply ELSE <<>>)
                        \o <<"delete_obsolete_files", "maybe_do_compaction", "opened">>)
                /\ UNCHANGED ret

first_log ==
    /\ Does("first_log")
    /\ disk' = [disk EXCEPT !.logs = Put(@, db.next_file, <<>>)]
    /\ db' = [db EXCEPT !.log = db.next_file, !.next_file = @ + 1]
    /\ edit' = [edit EXCEPT !.log_num = db.next_file]
    /\ Goes(<<>>)
    /\ UNCHANGED <<snaps, arg, outs, ret, ghosts, budget>>

opened == /\ Does("opened")
          /\ db' = [db EXCEPT !.open = TRUE]
          /\ Goes(<<>>)
          /\ UNCHANGED <<disk, snaps, arg, edit, outs, ret, ghosts, budget>>

(* Writing. *)

\* The entries of a batch, and whether make_room_for_write needs a new memtable.
Entries(ops) == {<<ops[i][1], db.last_seq + i,
                   IF ops[i][2] THEN budget.values + i ELSE 0>> : i \in DOMAIN ops}
make_room(force) ==
    IF db.mem # {} /\ (force \/ Cardinality(db.mem) >= write_buffer_size)
    THEN <<"switch_log", "maybe_do_compaction">> ELSE <<>>

write(ops, sync) ==
    /\ Ready
    /\ db.last_seq + Len(ops) <= MaxSeq
    /\ Calls("write", make_room(FALSE) \o <<"insert">>,
             [NoArg EXCEPT !.batch = Entries(ops), !.sync = sync])
    /\ budget' = [budget EXCEPT !.values = @ + Len(ops)]
    /\ UNCHANGED <<disk, db, snaps, edit, outs, ghosts>>

\* The log that is replaced is flushed when its writer is dropped.
switch_log ==
    /\ Does("switch_log")
    /\ UNCHANGED <<snaps, arg, edit, outs, history, ends, astray>>
    /\ \/ /\ disk' = [disk EXCEPT !.logs = Put(Put(@, db.log, @[db.log] \o db.buffer),
                                               db.next_file, <<>>)]
          /\ db' = [db EXCEPT !.log = db.next_file, !.next_file = @ + 1, !.buffer = <<>>,
                              !.imm = db.mem, !.mem = {}]
          /\ synced' = db.last_seq
          /\ Goes(<<>>) /\ UNCHANGED <<ret, budget>>
       \/ Fails /\ UNCHANGED <<disk, db, synced>>

\* insert_into_memtable, add_record, and flush if sync.  The memtable does not
\* take an entry that it has.
Twice == \E e \in arg.batch, f \in db.mem : User(e) = User(f) /\ SeqNum(e) = SeqNum(f)
insert ==
    LET d == [db EXCEPT !.mem = @ \cup arg.batch, !.buffer = Append(@, arg.batch)]
        last == db.last_seq + Cardinality(arg.batch)
    IN  /\ Does("insert")
        /\ UNCHANGED <<snaps, arg, edit, outs, astray>>
        /\ IF Twice
           THEN todo' = <<>> /\ ret' = "panic" /\ UNCHANGED <<disk, db, history, ends, synced, budget>>
           ELSE \/ /\ IF arg.sync
                      THEN /\ disk' = [disk EXCEPT !.logs[db.log] = @ \o d.buffer]
                           /\ db' = [d EXCEPT !.buffer = <<>>, !.last_seq = last]
                           /\ synced' = last
                      ELSE /\ db' = [d EXCEPT !.last_seq = last]
                           /\ UNCHANGED <<disk, synced>>
                   /\ history' = history \o SetToSortSeq(arg.batch, LAMBDA e, f : SeqNum(e) < SeqNum(f))
                   /\ ends' = {n \in ends : n <= db.last_seq} \cup {last}
                   /\ Goes(<<>>) /\ UNCHANGED <<ret, budget>>
                \/ /\ Fails
                   /\ db' = [d EXCEPT !.buffer = db.buffer]
                   /\ UNCHANGED <<disk, history, ends, synced>>

flush ==
    /\ Ready /\ db.buffer # <<>>
    /\ Calls("flush", <<>>, NoArg)
    /\ disk' = [disk EXCEPT !.logs[db.log] = @ \o db.buffer]
    /\ db' = [db EXCEPT !.buffer = <<>>]
    /\ synced' = db.last_seq
    /\ UNCHANGED <<snaps, edit, outs, history, ends, astray, budget>>

(* Compactions. *)

\* SnapshotList::oldest and empty, in start_compaction: the smallest of the
\* handles.
oldest == IF DOMAIN snaps.map = {} THEN 0 ELSE Min(DOMAIN snaps.map)
\* A compaction that does not ask for snapshots.
smallest_seq_Latest == db.last_seq
smallest_seq == IF snaps.oldest = 0 THEN db.last_seq ELSE oldest

\* The entries that the input iterator yields.
InputEntries(c) == UNION {disk.tables[f.num] : f \in c.inputs[1] \cup c.inputs[2]}

Deletions(c) == {<<c.level, f.num>> : f \in c.inputs[1]}
                \cup {<<c.level + 1, f.num>> : f \in c.inputs[2]}

\* start_compaction: a trivial move, or do_compaction_work.  What is written
\* is settled at the start: the inputs never change.
start_compaction(c, rest) ==
    LET work == do_compaction_work(db.files, c, smallest_seq, InputEntries(c))
        move == is_trivial_move(c)
    IN  /\ db' = [db EXCEPT !.ptrs[c.level] = c.largest]
        /\ outs' = IF move THEN <<>> ELSE work.done
        /\ edit' = [NewEdit EXCEPT
                      !.ptrs = c.level :> c.largest, !.deleted = Deletions(c),
                      !.added = IF move THEN {<<c.level + 1, f>> : f \in c.inputs[1]} ELSE {}]
        /\ IF ~move /\ work.panic THEN todo' = <<>> /\ ret' = "panic"
           ELSE /\ todo' = (IF move THEN log_and_apply
                            ELSE <<"write_outputs">> \o log_and_apply \o <<"delete_obsolete_files">>)
                           \o rest
                /\ UNCHANGED ret
        /\ astray' = IF move THEN astray
                     ELSE [astray EXCEPT !.passed = Max({@, Min({oldest, db.last_seq})})]
        /\ UNCHANGED <<disk, snaps, history, ends, synced, budget>>

\* The outputs of a compaction, one at a time.  After an error those written
\* are removed (cleanup) and the compaction is installed without any.
write_outputs ==
    LET out == outs[1]
        f == File(db.next_file, out.smallest, out.largest, Cardinality(out.entries))
    IN  /\ Does("write_outputs")
        /\ UNCHANGED <<snaps, arg, ret, history, ends, synced>>
        /\ \/ outs = <<>> /\ Goes(<<>>) /\ UNCHANGED <<disk, db, edit, outs, astray, budget>>
           \/ /\ outs # <<>> /\ outs' = Tail(outs)
              /\ disk' = [disk EXCEPT !.tables = Put(@, f.num, out.entries)]
              /\ db' = [db EXCEPT !.next_file = @ + 1]
              /\ edit' = [edit EXCEPT !.added = @ \cup {<<arg.level + 1, f>>}]
              /\ UNCHANGED <<todo, astray, budget>>
           \/ /\ outs # <<>> /\ outs' = <<>> /\ CanFail
              /\ budget' = [budget EXCEPT !.faults = @ + 1]
              /\ disk' = [disk EXCEPT !.tables =
                            Restrict(@, DOMAIN @ \ {g[2].num : g \in edit.added})]
              /\ edit' = [edit EXCEPT !.added = {}]
              /\ astray' = [astray EXCEPT !.lost = @ \cup UNION {disk.tables[d[2]] : d \in edit.deleted}]
              /\ Goes(<<>>) /\ UNCHANGED db

\* maybe_do_compaction: the immutable memtable first (compact_memtable).
maybe_do_compaction ==
    /\ Does("maybe_do_compaction")
    /\ IF db.imm # {}
       THEN /\ Goes(<<"write_l0_table">> \o log_and_apply \o <<"delete_obsolete_files">>)
            /\ UNCHANGED <<disk, db, snaps, arg, edit, outs, ret, ghosts, budget>>
       ELSE IF ~needs_compaction(db.files, db.file_to_compact)
       THEN /\ Goes(<<>>)
            /\ UNCHANGED <<disk, db, snaps, arg, edit, outs, ret, ghosts, budget>>
       ELSE \E c \in {pick_compaction(db.files, db.ptrs, db.file_to_compact)} :
                start_compaction(c, Tail(todo)) /\ arg' = [arg EXCEPT !.level = c.level]

\* compact_memtable up to log_and_apply.  The memtable is kept if it cannot be
\* written.
write_l0_table ==
    LET num == db.next_file
        meta == Meta(num, db.imm)
        level == pick_memtable_output_level(db.files, User(meta.smallest), User(meta.largest))
        below == IF level = 0 THEN {} ELSE {e \in db.imm : overlaps_any(db.files[0], User(e), User(e))}
    IN  /\ Does("write_l0_table")
        /\ UNCHANGED <<snaps, arg, outs, history, ends, synced>>
        /\ \/ /\ disk' = [disk EXCEPT !.tables = Put(@, num, db.imm)]
              /\ db' = [db EXCEPT !.next_file = @ + 1, !.imm = {}]
              /\ edit' = [NewEdit EXCEPT !.log_num = db.log, !.added = {<<level, meta>>}]
              /\ astray' = [astray EXCEPT !.misplaced = @ \cup below]
              /\ Goes(<<>>) /\ UNCHANGED <<ret, budget>>
           \/ /\ Fails
              /\ db' = [db EXCEPT !.next_file = @ + 1]
              /\ UNCHANGED <<disk, edit, astray>>

\* DB::compact_range: the levels down to the last one that has keys of the
\* range, from the key where the compaction before has ended.
compact_range(from, to) ==
    /\ Ready /\ from <= to
    /\ Calls("compact_range", make_room(TRUE) \o <<"compact_level">>,
             [NoArg EXCEPT !.begin = from, !.from = from, !.to = to, !.max_level =
                Max({1} \cup {l \in 1 .. NUM_LEVELS - 2 : overlap_in_level(db.files, l, from, to)})])
    /\ UNCHANGED <<disk, db, snaps, edit, outs, ghosts, budget>>
\* A loop that begins again at the top.
compact_level_Again ==
    /\ Does("compact_level")
    /\ IF overlapping_inputs(db.files, arg.level, arg.from, arg.to) = {}
       THEN /\ arg' = [arg EXCEPT !.level = IF @ = arg.max_level THEN 0 ELSE @ + 1]
            /\ UNCHANGED <<disk, db, snaps, todo, edit, outs, ret, ghosts, budget>>
       ELSE LET c == range_compaction(db.files, arg.level, arg.from, arg.to)
            IN  /\ start_compaction(c, todo)
                /\ arg' = [arg EXCEPT !.from = User(Last(Sorted(c.inputs[1])).largest)]
compact_level ==
    /\ Does("compact_level")
    /\ IF overlapping_inputs(db.files, arg.level, arg.from, arg.to) = {}
       THEN /\ arg' = [arg EXCEPT !.level = @ + 1]
            /\ IF arg.level = arg.max_level THEN Goes(<<>>) ELSE UNCHANGED todo
            /\ UNCHANGED <<disk, db, snaps, edit, outs, ret, ghosts, budget>>
       ELSE \E c \in {range_compaction(db.files, arg.level, arg.from, arg.to)} :
                /\ start_compaction(c, todo)
                /\ arg' = [arg EXCEPT !.from = User(Last(Sorted(c.inputs[1])).largest)]

(* Reading. *)

Versions_(es, u, s) == {e \in es : User(e) = u /\ SeqNum(e) <= s}
Newest(es) == CHOOSE e \in es : \A f \in es : SeqNum(f) <= SeqNum(e)

\* Version::get: the values that a lookup may return (0: none).  A table gives
\* the next bigger entry, if its filter knows the key; the filter may let a key
\* pass that the table does not have.  An entry of another key is passed over
\* unless it is a deletion, which ends the search.
Bigger(f, u, s) == {e \in disk.tables[f.num] : KeyLeq(Lookup(u, s), e)}
StopsAt(f, u, s) == Bigger(f, u, s) # {} /\ IsDeletion(SmallestOf(Bigger(f, u, s)))
RECURSIVE GetFrom(_, _, _)
GetFrom(fs, u, s) ==
    LET found == SmallestOf(Bigger(fs[1], u, s))
        has == \E e \in disk.tables[fs[1].num] : User(e) = u
    IN  IF fs = <<>> THEN {0}
        ELSE IF Bigger(fs[1], u, s) # {} /\ User(found) = u THEN {found[3]}
        ELSE IF ~StopsAt(fs[1], u, s) THEN GetFrom(Tail(fs), u, s)
        ELSE {0} \cup IF has THEN {} ELSE GetFrom(Tail(fs), u, s)

get_internal(u, s) ==
    IF Versions_(db.mem, u, s) # {} THEN {Newest(Versions_(db.mem, u, s))[3]}
    ELSE IF Versions_(db.imm, u, s) # {} THEN {Newest(Versions_(db.imm, u, s))[3]}
    ELSE GetFrom(Searched(db.files, Lookup(u, s)), u, s)

\* update_stats: a file may have used up its seeks.
Charged(file, level) == db.file_to_compact = <<>>
                        /\ db' = [db EXCEPT !.file_to_compact = [file |-> file, level |-> level]]

\* get, when it is the seek that calls for a compaction: two files of level 0
\* were searched and a value was found.
get(u) ==
    LET fs == get_overlapping(db.files, 0, Lookup(u, db.last_seq))
        has(f) == Versions_(disk.tables[f.num], u, db.last_seq) # {}
    IN  /\ Ready
        /\ Versions_(db.mem \cup db.imm, u, db.last_seq) = {}
        /\ Len(fs) > 1 /\ ~has(fs[1])
        /\ get_internal(u, db.last_seq) # {0}
        /\ Charged(fs[1], 0)
        /\ Calls("get", <<"maybe_do_compaction">>, NoArg)
        /\ UNCHANGED <<disk, snaps, edit, outs, ghosts, budget>>

\* record_read_sample, from an iterator on an entry of u.
record_read_sample(u) ==
    LET fs == Searched(db.files, Lookup(u, db.last_seq))
        level == CHOOSE l \in Levels : fs[1] \in db.files[l]
    IN  /\ Ready /\ Len(fs) > 1
        /\ Charged(fs[1], level)
        /\ Calls("sample", <<>>, NoArg)
        /\ UNCHANGED <<disk, snaps, edit, outs, ghosts, budget>>

get_snapshot ==
    LET h == snaps.newest + 1
    IN  /\ Ready /\ snaps.newest < MaxSnapshots
        /\ Calls("snapshot", <<>>, NoArg)
        /\ snaps' = [map |-> Put(snaps.map, h, db.last_seq), newest |-> h,
                     oldest |-> IF snaps.oldest = 0 THEN h ELSE snaps.oldest]
        /\ UNCHANGED <<disk, db, edit, outs, ghosts, budget>>
drop_snapshot(h) ==
    /\ Ready
    /\ Calls("snapshot", <<>>, NoArg)
    /\ snaps' = [snaps EXCEPT !.map = Restrict(@, DOMAIN @ \ {h})]
    /\ UNCHANGED <<disk, db, edit, outs, ghosts, budget>>

(* The end. *)

Stopped(d) ==
    /\ disk' = d /\ db' = Closed /\ snaps' = NoSnaps
    /\ todo' = <<>> /\ arg' = NoArg /\ edit' = NewEdit /\ outs' = <<>> /\ ret' = "ok"
    /\ UNCHANGED <<history, ends, astray>>
Written(n) == IF db.log = None THEN disk
              ELSE [disk EXCEPT !.logs[db.log] = @ \o SubSeq(db.buffer, 1, n)]

\* The log's BufWriter is flushed when it is dropped.
close == Ready /\ "close" \in Ops /\ Stopped(Written(Len(db.buffer)))
         /\ synced' = db.last_seq /\ UNCHANGED budget

\* A crash leaves some of the records that were not flushed.
Crash ==
    /\ budget.crashes < MaxCrashes /\ (db.open \/ todo # <<>>)
    /\ budget' = [budget EXCEPT !.crashes = @ + 1]
    /\ \E n \in 0 .. Len(db.buffer) : Stopped(Written(n))
    /\ UNCHANGED synced

Step == \/ initialize_db \/ first_current \/ recover_db \/ first_log \/ opened
        \/ log_edit \/ set_current \/ delete_obsolete_files
        \/ switch_log \/ insert
        \/ maybe_do_compaction \/ write_l0_table \/ write_outputs \/ compact_level

Next == \/ Step
        \/ open \/ close \/ flush \/ get_snapshot \/ Crash
        \/ \E ops \in Batches, sync \in BOOLEAN : write(ops, sync)
        \/ \E u \in Keys : get(u) \/ record_read_sample(u)
        \/ \E from, to \in Keys : compact_range(from, to)
        \/ \E h \in DOMAIN snaps.map : drop_snapshot(h)

Spec == Init /\ [][Next]_vars

(* Properties. *)

\* The last write to a key up to a sequence number.
LastWrite(u, s) ==
    LET is == {i \in 1 .. s : User(history[i]) = u}
    IN  IF is = {} THEN <<u, 0, 0>> ELSE history[Max(is)]

\* A lookup gives the value written last, unless that write was lost with a
\* compaction that failed and was installed, or put below an older one
\* (overlap_in_level searches level 0 as if its files were disjoint).  A key
\* that is there is not found only if a table that is searched has a deletion
\* of the next key, which ends Version::get.
ReadIsExact(u, s) ==
    LET last == LastWrite(u, s)
        got == get_internal(u, s)
    IN
    \/ got = {last[3]}
    \/ last \in astray.lost \cup astray.misplaced
    \/ /\ got \subseteq {0, last[3]}
       /\ \E f \in ToSet(Searched(db.files, Lookup(u, s))) :
             StopsAt(f, u, s) /\ User(SmallestOf(Bigger(f, u, s))) # u

\* DB::get reads the last state.
GetIsNewest == Ready /\ ret = "ok" => \A u \in Keys : ReadIsExact(u, db.last_seq)

\* DB::get_at reads the state of the snapshot, unless a compaction was made
\* when the lowest handle, which SnapshotList::oldest returns for the lowest
\* sequence number, was above the snapshot's sequence number.
SnapshotReads ==
    Ready => \A h \in DOMAIN snaps.map :
                astray.passed > snaps.map[h] \/ \A u \in Keys : ReadIsExact(u, snaps.map[h])

\* A crash leaves no part of a batch: the numbers that recovery finds are
\* those of whole batches.
BatchesAreAtomic ==
    /\ Len(history) \in ends
    /\ Ready /\ ret = "ok" => db.last_seq = Len(history)

\* What recovery would find on the disk.
OnDisk ==
    LET v == recover(disk.manifests[disk.current])
        logs == {n \in DOMAIN disk.logs : n >= v.log_num}
    IN  UNION ({disk.tables[n] : n \in live_files(v.files) \cap DOMAIN disk.tables}
               \cup UNION {ToSet(disk.logs[n]) : n \in logs})

\* At every moment the disk holds what was flushed: for every key the value
\* that it had after the last flush or after a later write, unless that write
\* was lost with a compaction that failed and was installed.
FlushedIsOnDisk ==
    disk.current # 0 =>
        LET entries == OnDisk
        IN  \A u \in Keys :
                LET es == {e \in entries : User(e) = u}
                    value == IF es = {} THEN 0 ELSE Newest(es)[3]
                IN  \E n \in synced .. Len(history) :
                        LET last == LastWrite(u, n)
                        IN  value = last[3] \/ last \in astray.lost

\* The disk is always in a state from which open works: every table that the
\* manifest CURRENT names adds is there.
DiskIsSound ==
    disk.current # 0 =>
        /\ disk.current \in DOMAIN disk.manifests
        /\ LET v == recover(disk.manifests[disk.current])
           IN  live_files(v.files) \subseteq DOMAIN disk.tables /\ Disjoint(v.files)

\* The newest version of a key is in the lowest level that has one, where
\* Version::get looks first, unless it was put below an older one.
LevelsAreOrdered ==
    Ready => \A l, m \in Levels : l < m =>
        \A f \in db.files[l], g \in db.files[m] :
            \A e1 \in disk.tables[f.num], e2 \in disk.tables[g.num] :
                User(e1) = User(e2) => SeqNum(e1) > SeqNum(e2) \/ e2 \in astray.misplaced
=============================================================================
