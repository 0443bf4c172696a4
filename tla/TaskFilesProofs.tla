--------------------------- MODULE TaskFilesProofs --------------------------
(***************************************************************************)
(* What a function reads is what the owners of its inputs registered, for  *)
(* any tasks that run at the same time, any failing transfers and any      *)
(* files that are replaced behind the enclaves; and what a task reports is *)
(* where it says, but for outputs that have the same url.                  *)
(***************************************************************************)
EXTENDS TaskFiles, TLAPS

(* Inputs are raw or encrypted in one of the two ways that may be staged,  *)
(* and one made of an output is made of an output of a task.               *)
FilesAreKnown ==
  /\ Fixed = [u \in Urls |-> Fixed[u]]
  /\ \A t \in Tasks : \A i \in Inputs(t) :
       /\ \/ InputOf(t, i).crypto = Raw
          \/ InputOf(t, i).crypto.schema \in {"teaclave-file-128", "aes-gcm"}
       /\ InputOf(t, i).tag = FromOutput => InputOf(t, i).from[1] \in Tasks
  /\ \A t \in Tasks : \A o \in Outputs(t) : OutputOf(t, o).url \in Urls

(* A record of a task, with all of its fields. *)
Fields == {"pc", "left", "ok", "staged", "outs", "tags", "seen", "upload"}
Whole(s) == s = [x \in Fields |-> s[x]] /\ s.ok \in BOOLEAN

(* The staged files of task t, and what its function has read, have the    *)
(* contents of the tags; a task that runs has every input staged.          *)
Trusted(t, s) ==
  /\ s.pc = "new" => DOMAIN s.staged = {} /\ DOMAIN s.seen = {}
  /\ s.pc # "new" => Ready(t)
  /\ s.pc = "stage" => Inputs(t) \subseteq s.left \cup DOMAIN s.staged
  /\ s.pc = "run" => Inputs(t) \subseteq DOMAIN s.staged
  /\ DOMAIN s.staged \subseteq Inputs(t) /\ DOMAIN s.seen \subseteq Inputs(t)
  /\ \A i \in DOMAIN s.staged :
       InputOf(t, i).crypto # Raw => s.staged[i].tag.data = Tag(t, i).data
  /\ \A i \in DOMAIN s.seen :
       InputOf(t, i).crypto # Raw => s.seen[i] = Tag(t, i).data

(* The outputs of task t have been encrypted when it uploads them.         *)
Converted(t, s) ==
  /\ s.pc \in {"upload", "done"} =>
       \A o \in Outputs(t) : s.tags[o].crypto = OutputOf(t, o).crypto
  /\ s.pc = "upload" => DOMAIN s.upload = Outputs(t)
  /\ s.pc \notin {"upload", "done", "failed"} => DOMAIN s.upload = {}

(* The agent has copied output o without an error so far, or reported it.  *)
Uploaded(s, o) == s.pc = "done" \/ (s.pc = "upload" /\ s.ok /\ o \notin s.left)

TransfersInv ==
  /\ task = [t \in Tasks |-> task[t]] /\ remote = [u \in Urls |-> remote[u]]
  /\ tampered \in Nat
  /\ \A t \in Tasks : Whole(task[t]) /\ Trusted(t, task[t]) /\ Converted(t, task[t])
  /\ tampered = 0 => \A t \in Tasks : \A o \in Outputs(t) :
       Uploaded(task[t], o) => Kept(OutputOf(t, o).url)

(* Only the record of one task changes. *)
LEMMA SetOne ==
  ASSUME task = [t \in Tasks |-> task[t]], NEW t \in Tasks, NEW s, Set(t, s)
  PROVE  /\ task' = [u \in Tasks |-> task'[u]] /\ task'[t] = s
         /\ \A u \in Tasks : u # t => task'[u] = task[u]
BY Zenon DEF Set

(* What a task has produced stays, so that the tag of an input does not    *)
(* change once it is known.                                                *)
LEMMA TagsStay ==
  ASSUME FilesAreKnown, NEW t \in Tasks, Ready(t),
         \A u \in Tasks : task[u].pc = "done" => task'[u] = task[u]
  PROVE  Ready(t)' /\ \A i \in Inputs(t) : Tag(t, i)' = Tag(t, i)
<1>1. \A i \in Inputs(t) : InputOf(t, i).tag = FromOutput =>
        /\ task[InputOf(t, i).from[1]].pc = "done"
        /\ task'[InputOf(t, i).from[1]] = task[InputOf(t, i).from[1]]
  BY Zenon DEF Ready, FilesAreKnown
<1>2. Ready(t)'
  BY Zenon, <1>1 DEF Ready
<1>3. \A i \in Inputs(t) : Tag(t, i)' = Tag(t, i)
  BY Zenon, <1>1 DEF Tag
<1> QED BY Zenon, <1>2, <1>3

(* What is at a url stays an output that was copied there while the tasks  *)
(* that copy keep their tags.                                              *)
Follows(old, new) ==
  \A o \in DOMAIN old.upload : old.upload[o] = "copy" =>
    o \in DOMAIN new.upload /\ new.upload[o] = "copy" /\ new.tags[o] = old.tags[o]

LEMMA KeptStays ==
  ASSUME NEW url, Kept(url), remote'[url] = remote[url],
         \A t \in Tasks : Follows(task[t], task'[t])
  PROVE  Kept(url)'
<1>1. PICK t \in Tasks : \E o \in Outputs(t) :
        OutputOf(t, o).url = url /\ Copies(t, o) /\ remote[url] = task[t].tags[o]
  BY Zenon DEF Kept
<1>2. PICK o \in Outputs(t) :
        OutputOf(t, o).url = url /\ Copies(t, o) /\ remote[url] = task[t].tags[o]
  BY Zenon, <1>1
<1>3. /\ o \in DOMAIN task'[t].upload /\ task'[t].upload[o] = "copy"
      /\ task'[t].tags[o] = task[t].tags[o]
  BY Zenon, <1>2 DEF Copies, Follows
<1>4. Copies(t, o)' /\ remote'[url] = task'[t].tags[o]
  BY Zenon, <1>2, <1>3 DEF Copies
<1> QED BY Zenon, <1>2, <1>4 DEF Kept

(* A step of one task keeps the invariant when the new record of the task  *)
(* has it and the files of the other tasks stay.                           *)
LEMMA OneMoves ==
  ASSUME FilesAreKnown, TransfersInv, NEW t \in Tasks, NEW s, Set(t, s), task[t].pc # "done",
         s.pc # "new", Whole(s), Trusted(t, s), Converted(t, s), Follows(task[t], s),
         UNCHANGED tampered, remote' = [u \in Urls |-> remote'[u]],
         \A url \in Urls : remote'[url] = remote[url] \/ Kept(url)',
         \A o \in Outputs(t) : Uploaded(s, o) => Uploaded(task[t], o) \/ Kept(OutputOf(t, o).url)'
  PROVE  TransfersInv'
<1>1. /\ task' = [u \in Tasks |-> task'[u]] /\ task'[t] = s
      /\ \A u \in Tasks : u # t => task'[u] = task[u]
  BY Zenon, SetOne DEF TransfersInv
<1>2. \A u \in Tasks : task[u].pc = "done" => task'[u] = task[u]
  BY Zenon, <1>1
<1>3. ASSUME NEW u \in Tasks PROVE Whole(task'[u]) /\ Trusted(u, task[u])'
  <2>1. PICK r : r = task'[u] /\ Whole(r) /\ Trusted(u, r)
    BY Zenon, <1>1 DEF TransfersInv
  <2>2. CASE r.pc = "new"
    BY Zenon, <2>1, <2>2 DEF Trusted
  <2>3. CASE r.pc # "new"
    <3>1. Ready(u)' /\ \A i \in Inputs(u) : Tag(u, i)' = Tag(u, i)
      BY Zenon, <1>2, <2>1, <2>3, TagsStay DEF Trusted
    <3> QED BY Zenon, <2>1, <2>3, <3>1 DEF Trusted
  <2> QED BY Zenon, <2>2, <2>3
<1>4. ASSUME NEW u \in Tasks PROVE Converted(u, task[u])'
  <2>1. PICK r : r = task'[u] /\ Converted(u, r)
    BY Zenon, <1>1 DEF TransfersInv
  <2> QED BY Zenon, <2>1 DEF Converted
<1>5. \A u \in Tasks : Follows(task[u], task'[u])
  <2>1. \A r : Follows(r, r)
    BY Zenon DEF Follows
  <2> QED BY Zenon, <1>1, <2>1
<1>6. \A url \in Urls : Kept(url) => Kept(url)'
  BY Zenon, <1>5, KeptStays
<1>7. ASSUME tampered' = 0, NEW u \in Tasks, NEW o \in Outputs(u), Uploaded(task'[u], o)
      PROVE  Kept(OutputOf(u, o).url)'
  <2>1. OutputOf(u, o).url \in Urls
    BY Zenon DEF FilesAreKnown
  <2>2. Uploaded(task[u], o) => Kept(OutputOf(u, o).url)
    BY Zenon, <1>7 DEF TransfersInv
  <2>3. Uploaded(task[u], o) \/ Kept(OutputOf(u, o).url)'
    BY Zenon, <1>1, <1>7
  <2> QED BY Zenon, <1>6, <2>1, <2>2, <2>3
<1>8. \A u \in Tasks : \A o : Uploaded(task[u], o)' => Uploaded(task'[u], o)
  BY Zenon DEF Uploaded
<1> QED BY Zenon, <1>1, <1>3, <1>4, <1>7, <1>8 DEF TransfersInv, Whole

(* ... and the files stay when it uploads nothing. *)
LEMMA OneWorks ==
  ASSUME FilesAreKnown, TransfersInv, NEW t \in Tasks, NEW s, Set(t, s), task[t].pc # "done",
         s.pc # "new", Whole(s), Trusted(t, s), Converted(t, s), Follows(task[t], s),
         \A o \in Outputs(t) : Uploaded(s, o) => Uploaded(task[t], o),
         UNCHANGED <<remote, tampered>>
  PROVE  TransfersInv'
<1>1. remote' = [u \in Urls |-> remote'[u]]
  BY Zenon DEF TransfersInv
<1> QED BY Zenon, <1>1, OneMoves

LEMMA BeforeUpload ==
  ASSUME TransfersInv, NEW t \in Tasks, NEW s, s.upload = task[t].upload,
         task[t].pc \notin {"upload", "done", "failed"}, s.pc \notin {"upload", "done"}
  PROVE  Converted(t, s) /\ Follows(task[t], s) /\ \A o \in Outputs(t) : ~ Uploaded(s, o)
<1>1. DOMAIN task[t].upload = {}
  BY Zenon DEF TransfersInv, Converted
<1> QED BY Zenon, <1>1 DEF Converted, Follows, Uploaded

(* ... for the steps that neither stage, read nor upload a file. *)
LEMMA KeepsReads ==
  ASSUME FilesAreKnown, TransfersInv, NEW t \in Tasks, NEW s, Set(t, s), Whole(s),
         task[t].pc \notin {"upload", "done", "failed"}, task[t].pc # "new" \/ Ready(t),
         s.staged = task[t].staged, s.seen = task[t].seen, s.upload = task[t].upload,
         s.pc \notin {"new", "upload", "done"},
         s.pc = "stage" => Inputs(t) \subseteq s.left \cup DOMAIN s.staged,
         s.pc = "run" => Inputs(t) \subseteq DOMAIN s.staged,
         UNCHANGED <<remote, tampered>>
  PROVE  TransfersInv'
<1>1. Trusted(t, task[t])
  BY Zenon DEF TransfersInv
<1>2. Trusted(t, s)
  BY Zenon, <1>1 DEF Trusted
<1>3. Converted(t, s) /\ Follows(task[t], s) /\ \A o \in Outputs(t) : ~ Uploaded(s, o)
  BY Zenon, BeforeUpload
<1> QED BY Zenon, <1>2, <1>3, OneWorks

LEMMA FirstSteps ==
  ASSUME FilesAreKnown, TransfersInv, NEW t \in Tasks,
         \/ NewTask(t) \/ Joined(t, "download", "stage") \/ StagedAll(t) \/ Return(t)
         \/ \E i \in Inputs(t) : handle_download(t, i)
         \/ \E o, data : create_output(t, o, data)
  PROVE  TransfersInv'
<1>1. /\ Whole(task[t]) /\ Trusted(t, task[t])
      /\ task[t].ok \in BOOLEAN
  BY Zenon DEF TransfersInv, Whole
<1>2. CASE NewTask(t)
  <2>1. PICK s : s = [task[t] EXCEPT !.pc = "download", !.left = Inputs(t)] /\ Set(t, s)
    BY Zenon, <1>2 DEF NewTask
  <2>2. /\ Whole(s) /\ s.pc = "download" /\ s.staged = task[t].staged /\ s.seen = task[t].seen
        /\ s.upload = task[t].upload
    BY Zenon, <1>1, <2>1 DEF Whole, Fields
  <2>3. task[t].pc = "new" /\ Ready(t) /\ UNCHANGED <<remote, tampered>>
    BY Zenon, <1>2 DEF NewTask
  <2> QED BY Zenon, <2>1, <2>2, <2>3, KeepsReads
<1>3. CASE Joined(t, "download", "stage")
  <2>1. PICK s : /\ s = [task[t] EXCEPT !.pc = IF task[t].ok THEN "stage" ELSE "failed",
                                       !.left = Inputs(t)]
                 /\ Set(t, s)
    BY Zenon, <1>3 DEF Joined
  <2>2. /\ Whole(s) /\ s.pc \in {"stage", "failed"} /\ s.left = Inputs(t)
        /\ s.staged = task[t].staged /\ s.seen = task[t].seen
        /\ s.upload = task[t].upload
    BY Zenon, <1>1, <2>1 DEF Whole, Fields
  <2>3. task[t].pc = "download" /\ UNCHANGED <<remote, tampered>>
    BY Zenon, <1>3 DEF Joined
  <2> QED BY Zenon, <2>1, <2>2, <2>3, KeepsReads
<1>4. CASE StagedAll(t)
  <2>1. PICK s : s = [task[t] EXCEPT !.pc = "run"] /\ Set(t, s)
    BY Zenon, <1>4 DEF StagedAll
  <2>2. /\ Whole(s) /\ s.pc = "run" /\ s.staged = task[t].staged /\ s.seen = task[t].seen
        /\ s.upload = task[t].upload
    BY Zenon, <1>1, <2>1 DEF Whole, Fields
  <2>3. task[t].pc = "stage" /\ task[t].left = {} /\ UNCHANGED <<remote, tampered>>
    BY Zenon, <1>4 DEF StagedAll
  <2>4. Inputs(t) \subseteq DOMAIN s.staged
    BY Zenon, <1>1, <2>2, <2>3 DEF Trusted
  <2> QED BY Zenon, <2>1, <2>2, <2>3, <2>4, KeepsReads
<1>5. CASE Return(t)
  <2>1. PICK pc \in {"convert", "failed"} : Set(t, [task[t] EXCEPT !.pc = pc])
    BY Zenon, <1>5 DEF Return
  <2>2. PICK s : s = [task[t] EXCEPT !.pc = pc] /\ Set(t, s)
    BY Zenon, <2>1
  <2>3. /\ Whole(s) /\ s.pc = pc /\ s.staged = task[t].staged /\ s.seen = task[t].seen
        /\ s.upload = task[t].upload
    BY Zenon, <1>1, <2>2 DEF Whole, Fields
  <2>4. task[t].pc = "run" /\ UNCHANGED <<remote, tampered>>
    BY Zenon, <1>5 DEF Return
  <2> QED BY Zenon, <2>2, <2>3, <2>4, KeepsReads
<1>6. ASSUME NEW i \in Inputs(t), handle_download(t, i) PROVE TransfersInv'
  <2>1. PICK ok \in BOOLEAN : Set(t, [task[t] EXCEPT !.left = @ \ {i}, !.ok = @ /\ ok])
    BY Zenon, <1>6 DEF handle_download
  <2>2. PICK s : s = [task[t] EXCEPT !.left = @ \ {i}, !.ok = @ /\ ok] /\ Set(t, s)
    BY Zenon, <2>1
  <2>3. /\ Whole(s) /\ s.pc = task[t].pc /\ s.staged = task[t].staged /\ s.seen = task[t].seen
        /\ s.upload = task[t].upload
    BY Zenon, <1>1, <2>2 DEF Whole, Fields
  <2>4. task[t].pc = "download" /\ UNCHANGED <<remote, tampered>>
    BY Zenon, <1>6 DEF handle_download
  <2> QED BY Zenon, <2>2, <2>3, <2>4, KeepsReads
<1>7. ASSUME NEW o, NEW data, create_output(t, o, data) PROVE TransfersInv'
  <2>1. PICK s : s = [task[t] EXCEPT !.outs = Put(@, o, data)] /\ Set(t, s)
    BY Zenon, <1>7 DEF create_output
  <2>2. /\ Whole(s) /\ s.pc = task[t].pc /\ s.staged = task[t].staged /\ s.seen = task[t].seen
        /\ s.upload = task[t].upload
    BY Zenon, <1>1, <2>1 DEF Whole, Fields
  <2>3. task[t].pc = "run" /\ UNCHANGED <<remote, tampered>>
    BY Zenon, <1>7 DEF create_output
  <2>4. Inputs(t) \subseteq DOMAIN s.staged
    BY Zenon, <1>1, <2>2, <2>3 DEF Trusted
  <2> QED BY Zenon, <2>1, <2>2, <2>3, <2>4, KeepsReads
<1> QED BY Zenon, <1>2, <1>3, <1>4, <1>5, <1>6, <1>7

LEMMA StageOne ==
  ASSUME FilesAreKnown, TransfersInv, NEW t \in Tasks, NEW i \in Inputs(t), NEW e,
         task[t].pc = "stage",
         Set(t, [task[t] EXCEPT !.left = @ \ {i}, !.staged = Put(@, i, e)]),
         InputOf(t, i).crypto # Raw => e.tag.data = Tag(t, i).data,
         UNCHANGED <<remote, tampered>>
  PROVE  TransfersInv'
<1>1. Whole(task[t]) /\ Trusted(t, task[t])
  BY Zenon DEF TransfersInv
<1>2. PICK s : /\ s = [task[t] EXCEPT !.left = @ \ {i}, !.staged = Put(@, i, e)]
               /\ Set(t, s)
  BY Zenon
<1>3. /\ Whole(s) /\ s.pc = "stage" /\ s.left = task[t].left \ {i}
      /\ s.staged = Put(task[t].staged, i, e) /\ s.seen = task[t].seen
      /\ s.upload = task[t].upload
  BY Zenon, <1>1, <1>2 DEF Whole, Fields
<1>4. /\ DOMAIN s.staged = DOMAIN task[t].staged \cup {i} /\ s.staged[i] = e
      /\ \A j \in DOMAIN task[t].staged : j # i => s.staged[j] = task[t].staged[j]
  BY Zenon, <1>3 DEF Put
<1>5. Trusted(t, s)
  BY Zenon, <1>1, <1>3, <1>4 DEF Trusted
<1>6. /\ Converted(t, s) /\ Follows(task[t], s)
      /\ \A o \in Outputs(t) : ~ Uploaded(s, o)
  BY Zenon, <1>3, BeforeUpload
<1> QED BY Zenon, <1>2, <1>3, <1>5, <1>6, OneWorks

LEMMA StagingSound ==
  ASSUME FilesAreKnown, TransfersInv, NEW t \in Tasks, NEW i \in Inputs(t),
         to_staged_file_entry(t, i)
  PROVE  TransfersInv'
<1>1. task[t].pc = "stage" /\ UNCHANGED <<remote, tampered>>
  BY Zenon DEF to_staged_file_entry
<1>2. PICK in, f : in = InputOf(t, i) /\ f = local[DownloadPath(t, i)]
  BY Zenon
<1>3. \A data : create_with_bytes(t, i, data).data = data
  BY Zenon DEF create_with_bytes, Encrypt
<1>4. CASE in.crypto.schema = "teaclave-file-128"
  <2>1. PICK e : /\ Set(t, [task[t] EXCEPT !.left = @ \ {i}, !.staged = Put(@, i, e)])
                 /\ e = [path |-> DownloadPath(t, i), key |-> in.crypto.key,
                         tag |-> Tag(t, i)]
    BY Zenon, <1>2, <1>4 DEF to_staged_file_entry
  <2>2. e.tag.data = Tag(t, i).data
    BY Zenon, <2>1
  <2> QED BY Zenon, <1>1, <2>1, <2>2, StageOne
<1>5. CASE in.crypto.schema = "aes-gcm"
  <2>1. CASE f.data # "empty" /\ f = Tag(t, i) /\ Decrypts(in.crypto, f)
    <3>1. PICK n, e : /\ n = create_with_bytes(t, i, f.data)
                      /\ Set(t, [task[t] EXCEPT !.left = @ \ {i}, !.staged = Put(@, i, e)])
                      /\ e = [path |-> StagedPath(t, i), key |-> n.crypto.key, tag |-> n]
      BY Zenon, <1>2, <1>5, <2>1 DEF to_staged_file_entry
    <3>2. e.tag.data = Tag(t, i).data
      BY Zenon, <1>3, <2>1, <3>1
    <3> QED BY Zenon, <1>1, <3>1, <3>2, StageOne
  <2>2. CASE ~ (f.data # "empty" /\ f = Tag(t, i) /\ Decrypts(in.crypto, f))
    <3>1. PICK s : s = [task[t] EXCEPT !.pc = "failed"] /\ Set(t, s)
      BY Zenon, <1>2, <1>5, <2>2 DEF to_staged_file_entry
    <3>2. /\ Whole(s) /\ s.pc = "failed" /\ s.staged = task[t].staged /\ s.seen = task[t].seen
          /\ s.upload = task[t].upload
      BY Zenon, <3>1 DEF TransfersInv, Whole, Fields
    <3> QED BY Zenon, <1>1, <3>1, <3>2, KeepsReads
  <2> QED BY Zenon, <2>1, <2>2
<1>6. CASE in.crypto.schema \notin {"teaclave-file-128", "aes-gcm"}
  <2>1. PICK n, e : Set(t, [task[t] EXCEPT !.left = @ \ {i}, !.staged = Put(@, i, e)])
    BY Zenon, <1>2, <1>6 DEF to_staged_file_entry
  <2>2. InputOf(t, i).crypto = Raw
    BY Zenon, <1>2, <1>6 DEF FilesAreKnown
  <2> QED BY Zenon, <1>1, <2>1, <2>2, StageOne
<1> QED BY Zenon, <1>4, <1>5, <1>6

(* create_readable_io compares the tag. *)
LEMMA OpenSound ==
  ASSUME FilesAreKnown, TransfersInv, NEW t \in Tasks, NEW i \in Inputs(t), open_input(t, i)
  PROVE  TransfersInv'
<1>1. /\ task[t].pc = "run" /\ i \notin DOMAIN task[t].seen
      /\ UNCHANGED <<remote, tampered>>
  BY Zenon DEF open_input
<1>2. Whole(task[t]) /\ Trusted(t, task[t])
  BY Zenon DEF TransfersInv
<1>3. PICK e : e = task[t].staged[i]
  BY Zenon
<1>4. i \in DOMAIN task[t].staged /\ Inputs(t) \subseteq DOMAIN task[t].staged
  BY Zenon, <1>1, <1>2 DEF Trusted
<1>5. InputOf(t, i).crypto # Raw => e.tag.data = Tag(t, i).data
  BY Zenon, <1>2, <1>3, <1>4 DEF Trusted
<1>6. CASE create_readable_io(e)
  <2>1. PICK s, d : /\ s = [task[t] EXCEPT !.seen = Put(@, i, d)] /\ Set(t, s)
                    /\ d = local[e.path].data
    BY Zenon, <1>3, <1>6 DEF open_input
  <2>2. InputOf(t, i).crypto # Raw => d = Tag(t, i).data
    BY Zenon, <1>5, <1>6, <2>1 DEF create_readable_io
  <2>3. /\ Whole(s) /\ s.pc = "run" /\ s.staged = task[t].staged
        /\ s.seen = Put(task[t].seen, i, d) /\ s.upload = task[t].upload
    BY Zenon, <1>1, <1>2, <2>1 DEF Whole, Fields
  <2>4. /\ DOMAIN s.seen = DOMAIN task[t].seen \cup {i} /\ s.seen[i] = d
        /\ \A j \in DOMAIN task[t].seen : s.seen[j] = task[t].seen[j]
    BY Zenon, <1>1, <2>3 DEF Put
  <2>5. Trusted(t, s)
    BY Zenon, <1>1, <1>2, <1>4, <2>2, <2>3, <2>4 DEF Trusted
  <2>6. /\ Converted(t, s) /\ Follows(task[t], s)
        /\ \A o \in Outputs(t) : ~ Uploaded(s, o)
    BY Zenon, <1>1, <2>3, BeforeUpload
  <2> QED BY Zenon, <1>1, <2>1, <2>3, <2>5, <2>6, OneWorks
<1>7. CASE ~ create_readable_io(e)
  <2>1. PICK s : s = [task[t] EXCEPT !.pc = "failed", !.ok = FALSE] /\ Set(t, s)
    BY Zenon, <1>3, <1>7 DEF open_input
  <2>2. /\ Whole(s) /\ s.pc = "failed" /\ s.staged = task[t].staged /\ s.seen = task[t].seen
        /\ s.upload = task[t].upload
    BY Zenon, <1>2, <2>1 DEF Whole, Fields
  <2> QED BY Zenon, <1>1, <2>1, <2>2, KeepsReads
<1> QED BY Zenon, <1>6, <1>7

-----------------------------------------------------------------------------
(* The run is over: what was read stays. *)
LEMMA ReadsStay ==
  ASSUME TransfersInv, NEW t \in Tasks, NEW s, task[t].pc # "new",
         s.pc \notin {"new", "stage", "run"},
         s.staged = task[t].staged, s.seen = task[t].seen
  PROVE  Trusted(t, s)
<1>1. Trusted(t, task[t])
  BY Zenon DEF TransfersInv
<1> QED BY Zenon, <1>1 DEF Trusted

LEMMA ConvertSound ==
  ASSUME FilesAreKnown, TransfersInv, NEW t \in Tasks, Convert(t)
  PROVE  TransfersInv'
<1>1. task[t].pc = "convert" /\ UNCHANGED <<remote, tampered>> /\ Whole(task[t])
  BY Zenon DEF Convert, TransfersInv
<1>2. ASSUME NEW up, NEW tags, up = [o \in Outputs(t) |-> "check"],
             tags = [o \in Outputs(t) |->
                      convert_for_uploading(OutputOf(t, o).crypto, task[t].outs[o])],
             Set(t, [task[t] EXCEPT !.pc = "upload", !.left = Outputs(t), !.upload = up,
                                    !.tags = tags])
      PROVE  TransfersInv'
  <2>1. PICK s : /\ s = [task[t] EXCEPT !.pc = "upload", !.left = Outputs(t), !.upload = up,
                                       !.tags = tags]
                 /\ Set(t, s)
    BY Zenon, <1>2
  <2>2. /\ Whole(s) /\ s.pc = "upload" /\ s.left = Outputs(t) /\ s.tags = tags /\ s.upload = up
        /\ s.staged = task[t].staged /\ s.seen = task[t].seen
    BY Zenon, <1>1, <2>1 DEF Whole, Fields
  <2>3. \A o \in Outputs(t) : s.tags[o].crypto = OutputOf(t, o).crypto
    BY <1>2, <2>2 DEF convert_for_uploading, Encrypt
  <2>4. Converted(t, s) /\ \A o \in Outputs(t) : ~ Uploaded(s, o)
    BY Zenon, <1>2, <2>2, <2>3 DEF Converted, Uploaded
  <2>5. Trusted(t, s)
    BY Zenon, <1>1, <2>2, ReadsStay
  <2>6. Follows(task[t], s)
    <3>1. DOMAIN task[t].upload = {}
      BY Zenon, <1>1 DEF TransfersInv, Converted
    <3> QED BY Zenon, <3>1 DEF Follows
  <2> QED BY Zenon, <1>1, <2>1, <2>2, <2>4, <2>5, <2>6, OneWorks
<1>3. ASSUME Set(t, [task[t] EXCEPT !.pc = "failed"])
      PROVE  TransfersInv'
  <2>1. PICK s : s = [task[t] EXCEPT !.pc = "failed"] /\ Set(t, s)
    BY Zenon, <1>3
  <2>2. /\ Whole(s) /\ s.pc = "failed" /\ s.staged = task[t].staged /\ s.seen = task[t].seen
        /\ s.upload = task[t].upload
    BY Zenon, <1>1, <2>1 DEF Whole, Fields
  <2> QED BY Zenon, <1>1, <2>1, <2>2, KeepsReads
<1> QED BY Zenon, <1>2, <1>3 DEF Convert

(* A step of an upload that writes nothing, and gives up o unless no file  *)
(* is dealt with.                                                          *)
LEMMA UploadStays ==
  ASSUME FilesAreKnown, TransfersInv, NEW t \in Tasks, NEW s, Set(t, s), Whole(s),
         task[t].pc = "upload", s.pc = "upload", s.tags = task[t].tags,
         s.staged = task[t].staged, s.seen = task[t].seen,
         s.ok => task[t].ok /\ s.left = task[t].left,
         DOMAIN s.upload = DOMAIN task[t].upload,
         \A o \in DOMAIN s.upload : s.upload[o] \in {task[t].upload[o], "copy"},
         UNCHANGED <<remote, tampered>>
  PROVE  TransfersInv'
<1>1. Converted(t, task[t])
  BY Zenon DEF TransfersInv
<1>2. Converted(t, s)
  BY Zenon, <1>1 DEF Converted
<1>3. Trusted(t, s)
  BY Zenon, ReadsStay
<1>4. Follows(task[t], s) /\ \A o \in Outputs(t) : Uploaded(s, o) => Uploaded(task[t], o)
  BY Zenon DEF Follows, Uploaded
<1> QED BY Zenon, <1>2, <1>3, <1>4, OneWorks

LEMMA CheckSound ==
  ASSUME FilesAreKnown, TransfersInv, NEW t \in Tasks, NEW o \in Outputs(t),
         handle_upload_check(t, o)
  PROVE  TransfersInv'
<1>1. task[t].pc = "upload" /\ UNCHANGED <<remote, tampered>> /\ Whole(task[t])
  BY Zenon DEF handle_upload_check, TransfersInv
<1>2. CASE Set(t, [task[t] EXCEPT !.upload[o] = "copy"])
  <2>1. PICK s : s = [task[t] EXCEPT !.upload[o] = "copy"] /\ Set(t, s)
    BY Zenon, <1>2
  <2>2. /\ Whole(s) /\ s.pc = "upload" /\ s.tags = task[t].tags /\ s.left = task[t].left
        /\ s.staged = task[t].staged /\ s.seen = task[t].seen /\ s.ok = task[t].ok
        /\ s.upload = [task[t].upload EXCEPT ![o] = "copy"]
    BY Zenon, <1>1, <2>1 DEF Whole, Fields
  <2>3. /\ DOMAIN s.upload = DOMAIN task[t].upload
        /\ \A p \in DOMAIN s.upload : s.upload[p] \in {task[t].upload[p], "copy"}
    BY Zenon, <2>2
  <2> QED BY Zenon, <1>1, <2>1, <2>2, <2>3, UploadStays
<1>3. CASE Set(t, [task[t] EXCEPT !.left = @ \ {o}, !.ok = FALSE])
  <2>1. PICK s : s = [task[t] EXCEPT !.left = @ \ {o}, !.ok = FALSE] /\ Set(t, s)
    BY Zenon, <1>3
  <2>2. /\ Whole(s) /\ s.pc = "upload" /\ s.tags = task[t].tags
        /\ s.staged = task[t].staged /\ s.seen = task[t].seen /\ ~ s.ok
        /\ s.upload = task[t].upload
    BY Zenon, <1>1, <2>1 DEF Whole, Fields
  <2> QED BY Zenon, <1>1, <2>1, <2>2, UploadStays
<1> QED BY Zenon, <1>2, <1>3 DEF handle_upload_check

LEMMA CopySound ==
  ASSUME FilesAreKnown, TransfersInv, NEW t \in Tasks, NEW o \in Outputs(t),
         handle_upload_copy(t, o)
  PROVE  TransfersInv'
<1>1. task[t].pc = "upload" /\ UNCHANGED tampered /\ Whole(task[t])
  BY Zenon DEF handle_upload_copy, TransfersInv
<1>2. ASSUME remote' = [remote EXCEPT ![OutputOf(t, o).url] = task[t].tags[o]],
             Set(t, [task[t] EXCEPT !.left = @ \ {o}, !.ok = @ /\ TRUE])
      PROVE  TransfersInv'
  <2>1. PICK s : s = [task[t] EXCEPT !.left = @ \ {o}, !.ok = @ /\ TRUE] /\ Set(t, s)
    BY Zenon, <1>2
  <2>2. /\ Whole(s) /\ s.pc = "upload" /\ s.tags = task[t].tags
        /\ s.left = task[t].left \ {o} /\ s.ok = task[t].ok /\ s.upload = task[t].upload
        /\ s.staged = task[t].staged /\ s.seen = task[t].seen
    BY Zenon, <1>1, <2>1 DEF Whole, Fields
  <2>3. PICK url : url = OutputOf(t, o).url /\ url \in Urls
    BY Zenon DEF FilesAreKnown
  <2>4. remote = [u \in Urls |-> remote[u]] /\ Converted(t, task[t])
    BY Zenon DEF TransfersInv
  <2>5. /\ remote' = [u \in Urls |-> remote'[u]] /\ remote'[url] = task[t].tags[o]
        /\ \A u \in Urls : u # url => remote'[u] = remote[u]
    BY Zenon, <1>2, <2>3, <2>4
  <2>6. Kept(url)'
    <3>1. task'[t] = s
      BY Zenon, <2>1, SetOne DEF TransfersInv
    <3>2. o \in DOMAIN task[t].upload /\ task[t].upload[o] = "copy"
      BY Zenon, <1>1, <2>4 DEF Converted, handle_upload_copy
    <3>3. Copies(t, o)'
      BY Zenon, <2>2, <3>1, <3>2 DEF Copies
    <3>4. remote'[url] = task'[t].tags[o]
      BY Zenon, <2>2, <2>5, <3>1
    <3> QED BY Zenon, <2>3, <3>3, <3>4 DEF Kept
  <2>7. \A u \in Urls : remote'[u] = remote[u] \/ Kept(u)'
    <3> SUFFICES ASSUME NEW u \in Urls PROVE remote'[u] = remote[u] \/ Kept(u)'
      BY Zenon
    <3>1. CASE u = url
      BY Zenon, <2>6, <3>1
    <3> QED BY Zenon, <2>5, <3>1
  <2>8. \A p \in Outputs(t) : Uploaded(s, p) => Uploaded(task[t], p) \/ Kept(OutputOf(t, p).url)'
    <3> SUFFICES ASSUME NEW p \in Outputs(t), Uploaded(s, p)
                 PROVE  Uploaded(task[t], p) \/ Kept(OutputOf(t, p).url)'
      BY Zenon
    <3>1. CASE p = o
      BY Zenon, <2>3, <2>6, <3>1
    <3>2. CASE p # o
      BY Zenon, <1>1, <2>2, <3>2 DEF Uploaded
    <3> QED BY Zenon, <3>1, <3>2
  <2>9. Trusted(t, s) /\ Converted(t, s) /\ Follows(task[t], s)
    <3>1. Trusted(t, s)
      BY Zenon, <1>1, <2>2, ReadsStay
    <3>2. Converted(t, s) /\ Follows(task[t], s)
      BY Zenon, <1>1, <2>2, <2>4 DEF Converted, Follows
    <3> QED BY Zenon, <3>1, <3>2
  <2> QED BY Zenon, <1>1, <2>1, <2>2, <2>5, <2>7, <2>8, <2>9, OneMoves
<1>3. ASSUME Set(t, [task[t] EXCEPT !.left = @ \ {o}, !.ok = @ /\ FALSE]), UNCHANGED remote
      PROVE  TransfersInv'
  <2>1. PICK s : s = [task[t] EXCEPT !.left = @ \ {o}, !.ok = @ /\ FALSE] /\ Set(t, s)
    BY Zenon, <1>3
  <2>2. /\ Whole(s) /\ s.pc = "upload" /\ s.tags = task[t].tags
        /\ s.staged = task[t].staged /\ s.seen = task[t].seen /\ ~ s.ok
        /\ s.upload = task[t].upload
    BY Zenon, <1>1, <2>1 DEF Whole, Fields
  <2> QED BY Zenon, <1>1, <1>3, <2>1, <2>2, UploadStays
<1> QED BY Zenon, <1>2, <1>3 DEF handle_upload_copy

(* The agent answers when every upload is over. *)
LEMMA UploadedSound ==
  ASSUME FilesAreKnown, TransfersInv, NEW t \in Tasks, Joined(t, "upload", "done")
  PROVE  TransfersInv'
<1>1. /\ task[t].pc = "upload" /\ task[t].left = {} /\ UNCHANGED <<remote, tampered>>
      /\ Whole(task[t]) /\ Converted(t, task[t])
  BY Zenon DEF Joined, TransfersInv
<1>2. PICK pc, s : /\ pc = IF task[t].ok THEN "done" ELSE "failed"
                   /\ s = [task[t] EXCEPT !.pc = pc, !.left = Inputs(t)] /\ Set(t, s)
  BY Zenon DEF Joined
<1>3. /\ Whole(s) /\ s.pc = pc /\ s.tags = task[t].tags /\ s.upload = task[t].upload
      /\ s.staged = task[t].staged /\ s.seen = task[t].seen
  BY Zenon, <1>1, <1>2 DEF Whole, Fields
<1>4. pc \in {"done", "failed"} /\ (pc = "done" => task[t].ok)
  BY Zenon, <1>2
<1>5. /\ Converted(t, s) /\ Follows(task[t], s)
      /\ \A o \in Outputs(t) : Uploaded(s, o) => Uploaded(task[t], o)
  BY Zenon, <1>1, <1>3, <1>4 DEF Converted, Follows, Uploaded
<1>6. Trusted(t, s)
  BY Zenon, <1>1, <1>3, <1>4, ReadsStay
<1> QED BY Zenon, <1>1, <1>2, <1>3, <1>4, <1>5, <1>6, OneWorks

LEMMA SameTasks ==
  ASSUME TransfersInv, task' = task
  PROVE  \A t \in Tasks : Trusted(t, task[t])'
<1> SUFFICES ASSUME NEW t \in Tasks PROVE Trusted(t, task[t])'
  BY Zenon
<1>1. \A i : Tag(t, i)' = Tag(t, i)
  BY Zenon DEF Tag
<1>2. Ready(t)' = Ready(t)
  BY Zenon DEF Ready
<1>3. Trusted(t, task[t])
  BY Zenon DEF TransfersInv
<1> QED BY Zenon, <1>1, <1>2, <1>3 DEF Trusted

LEMMA TamperSound ==
  ASSUME FilesAreKnown, TransfersInv, Tamper
  PROVE  TransfersInv'
<1>1. task' = task /\ tampered' = tampered + 1
  BY Zenon DEF Tamper
<1>2. tampered' \in Nat /\ tampered' # 0
  BY <1>1 DEF TransfersInv
<1>3. remote' = [u \in Urls |-> remote'[u]]
  BY Zenon DEF Tamper, TransfersInv
<1>4. \A t \in Tasks : Trusted(t, task[t])'
  BY Zenon, <1>1, SameTasks
<1>5. \A t \in Tasks : Converted(t, task[t])'
  BY Zenon, <1>1 DEF TransfersInv, Converted
<1>6. \A t \in Tasks : Whole(task[t])'
  BY Zenon, <1>1 DEF TransfersInv, Whole
<1> QED BY Zenon, <1>1, <1>2, <1>3, <1>4, <1>5, <1>6 DEF TransfersInv

LEMMA TransfersInit == FilesAreKnown /\ Init => TransfersInv
<1> SUFFICES ASSUME FilesAreKnown, Init PROVE TransfersInv
  BY Zenon
<1>1. ASSUME NEW t \in Tasks
      PROVE  Whole(task[t]) /\ Trusted(t, task[t]) /\ Converted(t, task[t])
             /\ \A o : ~ Uploaded(task[t], o)
  <2>1. task[t] = [pc |-> "new", left |-> {}, ok |-> TRUE, staged |-> <<>>,
                   outs |-> <<>>, tags |-> <<>>, seen |-> <<>>, upload |-> <<>>]
    BY Zenon DEF Init
  <2>2. Whole(task[t])
    BY <2>1 DEF Whole, Fields
  <2>3. task[t].pc = "new" /\ DOMAIN task[t].staged = {} /\ DOMAIN task[t].seen = {}
        /\ DOMAIN task[t].upload = {}
    BY <2>1
  <2>4. Trusted(t, task[t])
    BY Zenon, <2>3 DEF Trusted
  <2> QED BY Zenon, <2>2, <2>3, <2>4 DEF Converted, Uploaded
<1>2. task = [t \in Tasks |-> task[t]] /\ remote = [u \in Urls |-> remote[u]]
  BY Zenon DEF Init, FilesAreKnown
<1>3. tampered \in Nat
  BY DEF Init
<1> QED BY Zenon, <1>1, <1>2, <1>3 DEF TransfersInv

LEMMA TransfersNext == FilesAreKnown /\ TransfersInv /\ [Next]_vars => TransfersInv'
<1> SUFFICES ASSUME FilesAreKnown, TransfersInv, [Next]_vars PROVE TransfersInv'
  BY Zenon
<1>1. CASE UNCHANGED vars
  <2>1. task' = task /\ remote' = remote /\ tampered' = tampered
    BY Zenon, <1>1 DEF vars
  <2>2. \A t \in Tasks : Trusted(t, task[t])'
    BY Zenon, <2>1, SameTasks
  <2>3. \A url : Kept(url)' = Kept(url)
    BY Zenon, <2>1 DEF Kept, Copies
  <2> QED BY Zenon, <2>1, <2>2, <2>3 DEF TransfersInv, Whole, Converted, Uploaded
<1>2. CASE Tamper
  BY Zenon, <1>2, TamperSound
<1>3. ASSUME NEW t \in Tasks,
             \/ NewTask(t) \/ Joined(t, "download", "stage") \/ StagedAll(t) \/ Return(t)
             \/ \E i \in Inputs(t) : handle_download(t, i)
             \/ \E o \in Outputs(t), data \in Data : create_output(t, o, data)
      PROVE  TransfersInv'
  BY Zenon, <1>3, FirstSteps
<1>4. ASSUME NEW t \in Tasks, NEW i \in Inputs(t),
             to_staged_file_entry(t, i) \/ open_input(t, i)
      PROVE  TransfersInv'
  BY Zenon, <1>4, StagingSound, OpenSound
<1>5. ASSUME NEW t \in Tasks, NEW o \in Outputs(t),
             handle_upload_check(t, o) \/ handle_upload_copy(t, o)
      PROVE  TransfersInv'
  BY Zenon, <1>5, CheckSound, CopySound
<1>6. ASSUME NEW t \in Tasks, Convert(t) \/ Joined(t, "upload", "done")
      PROVE  TransfersInv'
  BY Zenon, <1>6, ConvertSound, UploadedSound
<1> QED BY Zenon, <1>1, <1>2, <1>3, <1>4, <1>5, <1>6 DEF Next

-----------------------------------------------------------------------------
(* Whatever tasks run at the same time, and however often files are        *)
(* replaced behind the enclaves, what a function reads of an encrypted     *)
(* input is what the tag of the input stands for: to_staged_file_entry and *)
(* create_readable_io compare it.                                          *)
THEOREM FunctionsReadAuthenticFiles ==
  FilesAreKnown => (Spec => []ReadsAreAuthentic)
<1> SUFFICES ASSUME FilesAreKnown PROVE Spec => []ReadsAreAuthentic
  OBVIOUS
<1>1. TransfersInv => ReadsAreAuthentic
  BY Zenon DEF TransfersInv, Trusted, ReadsAreAuthentic
<1>2. (Init => TransfersInv) /\ (TransfersInv /\ [Next]_vars => TransfersInv')
  BY Zenon, TransfersInit, TransfersNext
<1> QED BY <1>1, <1>2, PTL DEF Spec

(* When a task was reported as done each of its outputs was encrypted as   *)
(* was asked for, and at its url is the file with the tag that is reported *)
(* or that of an output, of the same or of another task, with the same     *)
(* url, whatever is uploaded at the same time and whichever transfers      *)
(* fail: handle_upload gives up on an error and handle_file_request        *)
(* reports it.                                                             *)
THEOREM ReportedOutputsAreStored ==
  FilesAreKnown => (Spec => []ReportedIsStored)
<1> SUFFICES ASSUME FilesAreKnown PROVE Spec => []ReportedIsStored
  OBVIOUS
<1>1. TransfersInv => ReportedIsStored
  BY Zenon DEF TransfersInv, Converted, Uploaded, ReportedIsStored
<1>2. (Init => TransfersInv) /\ (TransfersInv /\ [Next]_vars => TransfersInv')
  BY Zenon, TransfersInit, TransfersNext
<1> QED BY <1>1, <1>2, PTL DEF Spec
=============================================================================
