----------------------------- MODULE TaskFiles ------------------------------
(***************************************************************************)
(* The files of a task in the execution service: download, staging, the    *)
(* run of the function, conversion and upload.  The file agent handles the *)
(* files of one request at the same time; several executors share the      *)
(* places where files are kept.  A file is what it was encrypted from and  *)
(* how, and stands for its own tag: FileAuthTag identifies the content.    *)
(***************************************************************************)
EXTENDS Naturals

CONSTANTS
  Tasks,
  Inputs(_), Outputs(_),  \* task -> names in the function's definition
  InputOf(_, _),          \* [url, crypto, tag] of an input; for an output that it was
                          \* made of tag FromOutput, and from: its task and name
  OutputOf(_, _),         \* [url, crypto] of an output
  Http,                   \* the urls of remote servers; others are local or fusion files
  Data,                   \* contents that functions write
  Fixed,                  \* file -> content, what is there at the beginning
  MaxFail, MaxTamper      \* bounds: failing transfers, files replaced behind

CONSTANTS FromOutput, Absent

\* How files are encrypted: [schema, key]; Raw files are not.
Raw == [schema |-> "raw", key |-> <<>>]
Protected(key) == [schema |-> "teaclave-file-128", key |-> key]
Encrypt(crypto, data) == [crypto |-> crypto, data |-> data]
Decrypts(crypto, file) == file.crypto = crypto

VARIABLES
  remote,     \* url -> Absent or a file
  local,      \* paths of downloaded and of staged inputs -> Absent or a file
  task,       \* task -> where it is, the files to do, what it has
  tampered, fails

vars == <<remote, local, task, tampered, fails>>

Urls == DOMAIN Fixed

\* make_intermediate_path, make_staged_path: directories of their own.
DownloadPath(t, i) == <<t, i, "download">>
StagedPath(t, i) == <<t, i, "staged">>
LocalPaths == UNION {{t} \X Inputs(t) \X {"download", "staged"} : t \in Tasks}

Init ==
    /\ remote = Fixed
    /\ local = [p \in LocalPaths |-> Absent]
    /\ task = [t \in Tasks |-> [pc |-> "new", left |-> {}, ok |-> TRUE, staged |-> <<>>,
                                outs |-> <<>>, tags |-> <<>>, seen |-> <<>>, upload |-> <<>>]]
    /\ tampered = 0 /\ fails = 0

Set(t, s) == task' = [task EXCEPT ![t] = s]
Put(map, x, v) == [y \in DOMAIN map \cup {x} |-> IF y = x THEN v ELSE map[y]]
Fails == fails < MaxFail /\ fails' = fails + 1

\* The tag that the owner of the input registered, or the one of the output
\* that the input was made of (register_input_from_output).
Tag(t, i) ==
    LET in == InputOf(t, i)
    IN  IF in.tag # FromOutput THEN in.tag ELSE task[in.from[1]].tags[in.from[2]]
Ready(t) ==
    \A i \in Inputs(t) : InputOf(t, i).tag = FromOutput => task[InputOf(t, i).from[1]].pc = "done"

-----------------------------------------------------------------------------
\* TaskFileManager::new, and the request to the file agent to download.
NewTask(t) ==
    /\ task[t].pc = "new" /\ Ready(t)
    /\ Set(t, [task[t] EXCEPT !.pc = "download", !.left = Inputs(t)])
    /\ UNCHANGED <<remote, local, tampered, fails>>

\* handle_download of one file: not over a local file, and the source has to
\* exist.
handle_download(t, i) ==
    LET p == DownloadPath(t, i)
        src == remote[InputOf(t, i).url]
        Done(ok) == Set(t, [task[t] EXCEPT !.left = @ \ {i}, !.ok = @ /\ ok])
    IN  /\ task[t].pc = "download" /\ i \in task[t].left
        /\ \/ /\ local[p] = Absent /\ src # Absent
              /\ local' = [local EXCEPT ![p] = src]
              /\ Done(TRUE) /\ UNCHANGED fails
           \/ /\ local[p] # Absent \/ src = Absent
              /\ Done(FALSE) /\ UNCHANGED <<local, fails>>
           \/ Fails /\ Done(FALSE) /\ UNCHANGED local
        /\ UNCHANGED <<remote, tampered>>

\* handle_file_request has joined all the transfers.
Joined(t, from, to) ==
    /\ task[t].pc = from /\ task[t].left = {}
    /\ Set(t, [task[t] EXCEPT !.pc = IF task[t].ok THEN to ELSE "failed", !.left = Inputs(t)])
    /\ UNCHANGED <<remote, local, tampered, fails>>

\* StagedFileInfo::create_with_bytes: a protected file with a key of its own.
create_with_bytes(t, i, data) == Encrypt(Protected(<<"random", t, i>>), data)

\* to_staged_file_entry of one input.  A protected file is used where it was
\* downloaded to, with its key and tag; an AES-GCM file is longer than a tag,
\* has the tag and is decrypted; a raw file is taken as it is.
to_staged_file_entry(t, i) ==
    LET in == InputOf(t, i)
        f == local[DownloadPath(t, i)]
        Entry(path, key, tag) ==
            Set(t, [task[t] EXCEPT !.left = @ \ {i},
                      !.staged = Put(@, i, [path |-> path, key |-> key, tag |-> tag])])
        Create(data) ==
            LET new == create_with_bytes(t, i, data)
            IN  /\ local' = [local EXCEPT ![StagedPath(t, i)] = new]
                /\ Entry(StagedPath(t, i), new.crypto.key, new)
    IN  /\ task[t].pc = "stage" /\ i \in task[t].left
        /\ CASE in.crypto.schema = "teaclave-file-128" ->
                  /\ Entry(DownloadPath(t, i), in.crypto.key, Tag(t, i))
                  /\ UNCHANGED local
             [] in.crypto.schema = "aes-gcm" ->
                  IF f.data # "empty" /\ f = Tag(t, i) /\ Decrypts(in.crypto, f)
                  THEN Create(f.data)
                  ELSE UNCHANGED local /\ Set(t, [task[t] EXCEPT !.pc = "failed"])
             [] OTHER -> Create(IF f.crypto = Raw THEN f.data ELSE "ciphertext")
        /\ UNCHANGED <<remote, tampered, fails>>

StagedAll(t) ==
    /\ task[t].pc = "stage" /\ task[t].left = {}
    /\ Set(t, [task[t] EXCEPT !.pc = "run"])
    /\ UNCHANGED <<remote, local, tampered, fails>>

\* The tag of the file that was opened is not compared.
create_readable_io_Unchecked(e) ==
    Decrypts(Protected(e.key), local[e.path])

\* create_readable_io of a staged file: the key has to fit, and the tag.
create_readable_io(e) ==
    Decrypts(Protected(e.key), local[e.path]) /\ local[e.path] = e.tag

\* The function opens an input; when that fails so does the function.
open_input(t, i) ==
    LET e == task[t].staged[i]
    IN  /\ task[t].pc = "run" /\ i \notin DOMAIN task[t].seen
        /\ Set(t, IF create_readable_io(e)
                  THEN [task[t] EXCEPT !.seen = Put(@, i, local[e.path].data)]
                  ELSE [task[t] EXCEPT !.pc = "failed", !.ok = FALSE])
        /\ UNCHANGED <<remote, local, tampered, fails>>

\* The function writes an output, with the key that InterOutput::new made.
create_output(t, o, data) ==
    /\ task[t].pc = "run"
    /\ Set(t, [task[t] EXCEPT !.outs = Put(@, o, data)])
    /\ UNCHANGED <<remote, local, tampered, fails>>

\* The function returns, or the worker has an error.
Return(t) ==
    /\ task[t].pc = "run"
    /\ \E pc \in {"convert", "failed"} : Set(t, [task[t] EXCEPT !.pc = pc])
    /\ UNCHANGED <<remote, local, tampered, fails>>

-----------------------------------------------------------------------------
\* An output is read with its key and encrypted anew; the tag is what was
\* written.
convert_for_uploading(crypto, data) == Encrypt(crypto, data)
CanUpload(crypto) == crypto # Raw

\* convert_staged_files_for_upload: every output has to be there, and to be
\* encrypted; then the request to the file agent to upload.
Convert(t) ==
    /\ task[t].pc = "convert"
    /\ IF \A o \in Outputs(t) : o \in DOMAIN task[t].outs /\ CanUpload(OutputOf(t, o).crypto)
       THEN Set(t, [task[t] EXCEPT !.pc = "upload", !.left = Outputs(t),
                      !.upload = [o \in Outputs(t) |-> "check"],
                      !.tags = [o \in Outputs(t) |->
                                 convert_for_uploading(OutputOf(t, o).crypto, task[t].outs[o])]])
       ELSE Set(t, [task[t] EXCEPT !.pc = "failed"])
    /\ UNCHANGED <<remote, local, tampered, fails>>

\* handle_upload of one file: unless it is on a server it looks whether the
\* destination exists ...
handle_upload_check(t, o) ==
    /\ task[t].pc = "upload" /\ o \in task[t].left /\ task[t].upload[o] = "check"
    /\ IF OutputOf(t, o).url \in Http \/ remote[OutputOf(t, o).url] = Absent
       THEN Set(t, [task[t] EXCEPT !.upload[o] = "copy"])
       ELSE Set(t, [task[t] EXCEPT !.left = @ \ {o}, !.ok = FALSE])
    /\ UNCHANGED <<remote, local, tampered, fails>>

\* ... and copies.
handle_upload_copy(t, o) ==
    LET Done(ok) == Set(t, [task[t] EXCEPT !.left = @ \ {o}, !.ok = @ /\ ok])
    IN  /\ task[t].pc = "upload" /\ o \in task[t].left /\ task[t].upload[o] = "copy"
        /\ \/ /\ remote' = [remote EXCEPT ![OutputOf(t, o).url] = task[t].tags[o]]
              /\ Done(TRUE) /\ UNCHANGED fails
           \/ Fails /\ Done(FALSE) /\ UNCHANGED remote
        /\ UNCHANGED <<local, tampered>>

\* Somebody outside of the enclaves replaces a file by another one.
Tamper ==
    LET files == ({remote[u] : u \in Urls} \cup {local[p] : p \in LocalPaths}) \ {Absent}
    IN  /\ tampered < MaxTamper /\ tampered' = tampered + 1
        /\ \E f \in files :
             \/ \E u \in Urls : /\ remote[u] \notin {Absent, f}
                                /\ remote' = [remote EXCEPT ![u] = f] /\ UNCHANGED local
             \/ \E p \in LocalPaths : /\ local[p] \notin {Absent, f}
                                      /\ local' = [local EXCEPT ![p] = f] /\ UNCHANGED remote
        /\ UNCHANGED <<task, fails>>

Next ==
    \/ \E t \in Tasks :
         \/ NewTask(t) \/ Joined(t, "download", "stage") \/ StagedAll(t)
         \/ \E i \in Inputs(t) : handle_download(t, i) \/ to_staged_file_entry(t, i) \/ open_input(t, i)
         \/ \E o \in Outputs(t), data \in Data : create_output(t, o, data)
         \/ Return(t) \/ Convert(t)
         \/ \E o \in Outputs(t) : handle_upload_check(t, o) \/ handle_upload_copy(t, o)
         \/ Joined(t, "upload", "done")
    \/ Tamper

Spec == Init /\ [][Next]_vars

-----------------------------------------------------------------------------
\* What a function reads is what was encrypted under the tag of the input,
\* whoever replaced the file in the meantime: the staging of AES-GCM files and
\* the opening of protected files compare the tag.
ReadsAreAuthentic ==
    \A t \in Tasks : \A i \in DOMAIN task[t].seen :
        InputOf(t, i).crypto # Raw => task[t].seen[i] = Tag(t, i).data

\* What is at a url is an output whose upload went past the look at the
\* destination, as it was encrypted.
Copies(t, o) == o \in DOMAIN task[t].upload /\ task[t].upload[o] = "copy"
Kept(url) ==
    \E t \in Tasks : \E o \in Outputs(t) :
        OutputOf(t, o).url = url /\ Copies(t, o) /\ remote[url] = task[t].tags[o]

\* When invoke_task succeeds every output was encrypted as was asked for, and
\* what is at its url is the file with the tag that is reported, or that of
\* another output with this url: the copy follows the look at the destination
\* without a lock, and a server is not asked.  A task alone with its url has
\* its own file there, unless somebody outside replaced it.
ReportedIsStored ==
    \A t \in Tasks : task[t].pc = "done" /\ tampered = 0 =>
        \A o \in Outputs(t) : /\ task[t].tags[o].crypto = OutputOf(t, o).crypto
                              /\ Kept(OutputOf(t, o).url)

\* A task that uses the outputs of another one gets its inputs: without
\* failing transfers and replaced files no download, staging or opening fails,
\* but for what is encrypted with AES-GCM and empty, and for an output that
\* another one with the same url has overwritten.
Overwritten(in) ==
    \E t \in Tasks : \E o \in Outputs(t) :
        <<t, o>> # in.from /\ OutputOf(t, o).url = in.url /\ Copies(t, o)
OutputsAreUsable ==
    \A t \in Tasks : task[t].pc = "failed" /\ task[t].tags = <<>> /\ tampered = 0 /\ fails = 0 =>
        \/ task[t].ok /\ DOMAIN task[t].staged = Inputs(t)
        \/ \E i \in Inputs(t) :
              \/ InputOf(t, i).crypto.schema = "aes-gcm" /\ Tag(t, i).data = "empty"
              \/ InputOf(t, i).tag = FromOutput /\ Overwritten(InputOf(t, i))
=============================================================================
