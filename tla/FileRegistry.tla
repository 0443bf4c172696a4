---------------------------- MODULE FileRegistry ----------------------------
(***************************************************************************)
(* The input and output files that management keeps in the storage         *)
(* service: where a file is, the key it is encrypted with, its tag and its *)
(* owners.  A file is never changed in place, but for the tag that the     *)
(* scheduler stores when the task that has the output has finished.        *)
(***************************************************************************)
EXTENDS Naturals, FiniteSets, Sequences, TLAPS

CONSTANTS
  Users,
  Uuids,        \* ids, each drawn once
  Urls,         \* urls that users register
  Keys,         \* keys that users register, each of one user
  KeyOf(_),     \* the user of a key
  OwnerLists,   \* owner lists that are asked for, as sequences
  Tasks,        \* tasks that have an output at the same time
  Tags

NoTag == "none"
FusionKey(id) == <<"random", id>>   \* FileCrypto::default
FusionUrl(id) == <<"fusion", id>>

VARIABLES
  inputs, outputs,   \* uuid -> Absent or [url, key, tag, owner]
  drawn,
  task,              \* task -> Absent or its output, [id, file] with the copy made when assigned
  finished           \* tags that tasks have given to outputs

vars == <<inputs, outputs, drawn, task, finished>>

Absent == <<>>
Elems(s) == {s[i] : i \in DOMAIN s}

Init ==
    /\ inputs = [i \in Uuids |-> Absent] /\ outputs = [i \in Uuids |-> Absent]
    /\ drawn = {} /\ task = [t \in Tasks |-> Absent] /\ finished = {}

File(url, key, tag, owner) == [url |-> url, key |-> key, tag |-> tag, owner |-> owner]

New(i) == i \notin drawn /\ drawn' = drawn \cup {i}
PutInput(i, file) == inputs' = [inputs EXCEPT ![i] = file] /\ UNCHANGED <<outputs, task, finished>>
PutOutput(i, file) == outputs' = [outputs EXCEPT ![i] = file] /\ UNCHANGED <<inputs, task, finished>>

-----------------------------------------------------------------------------
register_input_file(u, url, key, tag, i) ==
    /\ KeyOf(key) = u
    /\ New(i) /\ PutInput(i, File(url, key, tag, {u}))

register_output_file(u, url, key, i) ==
    /\ KeyOf(key) = u
    /\ New(i) /\ PutOutput(i, File(url, key, NoTag, {u}))

\* The owner takes the file over for themselves.
update_input_file_Take(u, old, url, i) ==
    /\ inputs[old] # Absent /\ u \in inputs[old].owner
    /\ New(i) /\ PutInput(i, File(url, inputs[old].key, inputs[old].tag, {u}))

\* A new file with the key, the tag and the owner of the old one.
update_input_file(u, old, url, i) ==
    /\ inputs[old] # Absent /\ inputs[old].owner = {u}
    /\ New(i) /\ PutInput(i, File(url, inputs[old].key, inputs[old].tag, inputs[old].owner))

\* The new output has no tag.
update_output_file(u, old, url, i) ==
    /\ outputs[old] # Absent /\ outputs[old].owner = {u}
    /\ New(i) /\ PutOutput(i, File(url, outputs[old].key, NoTag, outputs[old].owner))

\* create_fusion_data draws the name of the url, TeaclaveOutputFile::new the
\* id.  The length is that of the list, the owners are a set.
register_fusion_output(u, owners, i) ==
    /\ Len(owners) > 1 /\ u \in Elems(owners)
    /\ New(i)
    /\ PutOutput(i, File(FusionUrl(i), FusionKey(i), NoTag, Elems(owners)))

\* The input has the uuid of the output.
register_input_from_output(u, i) ==
    /\ outputs[i] # Absent /\ u \in outputs[i].owner
    /\ outputs[i].tag # NoTag
    /\ PutInput(i, outputs[i])
    /\ UNCHANGED drawn

\* get_input_file and get_output_file answer with the owners and the tag.
get_file(u, files, i) ==
    IF files[i] # Absent /\ u \in files[i].owner
    THEN [owner |-> files[i].owner, tag |-> files[i].tag] ELSE Absent

-----------------------------------------------------------------------------
\* assign_data gives the output to a task, which keeps a copy; and the
\* scheduler stores the copy with its tag when the task has finished.  Any
\* number of tasks may have copies of one output.
Assign(t, i) ==
    /\ task[t] = Absent /\ outputs[i] # Absent
    /\ task' = [task EXCEPT ![t] = [id |-> i, file |-> outputs[i]]]
    /\ UNCHANGED <<inputs, outputs, drawn, finished>>

\* assign_cmac keeps the tag that the copy has: the result is an error.
Finish(t, tag) ==
    /\ task[t] # Absent
    /\ IF task[t].file.tag = NoTag
       THEN /\ outputs' = [outputs EXCEPT ![task[t].id] = [task[t].file EXCEPT !.tag = tag]]
            /\ finished' = finished \cup {[id |-> task[t].id, tag |-> tag]}
       ELSE UNCHANGED <<outputs, finished>>
    /\ task' = [task EXCEPT ![t] = Absent]
    /\ UNCHANGED <<inputs, drawn>>

Next ==
    \/ \E u \in Users, i \in Uuids :
         \/ \E url \in Urls, key \in Keys :
              \/ \E tag \in Tags : register_input_file(u, url, key, tag, i)
              \/ register_output_file(u, url, key, i)
         \/ \E old \in Uuids, url \in Urls :
              update_input_file(u, old, url, i) \/ update_output_file(u, old, url, i)
         \/ \E owners \in OwnerLists : register_fusion_output(u, owners, i)
         \/ register_input_from_output(u, i)
    \/ \E t \in Tasks : \/ \E i \in Uuids : Assign(t, i)
                       \/ \E tag \in Tags : Finish(t, tag)

Spec == Init /\ [][Next]_vars

-----------------------------------------------------------------------------
Files == ({inputs[i] : i \in Uuids} \cup {outputs[i] : i \in Uuids}) \ {Absent}

\* A key stays with its owners: whatever files were registered, updated and
\* turned into inputs, two files encrypted with the same key have the same
\* owners, and every one of them can look at both (get_input_file and
\* get_output_file).
KeyKeepsOwners ==
    /\ \A f, g \in Files : f.key = g.key => f.owner = g.owner
    /\ \A i \in Uuids, u \in Users :
          inputs[i] # Absent /\ outputs[i] # Absent =>
             (get_file(u, inputs, i) # Absent <=> get_file(u, outputs, i) # Absent)

\* An input made of an output (register_input_from_output) is what a task
\* has written: it has the place, the key and the owners of the output and a
\* tag that a finished task gave to that output.  It is not always the tag that
\* the output has: another task with a copy of the output may finish later, and
\* gives the output, not the input, a tag of its own.
InputIsFinishedOutput ==
    \A i \in Uuids : inputs[i] # Absent /\ outputs[i] # Absent =>
        /\ inputs[i] = File(outputs[i].url, outputs[i].key, inputs[i].tag, outputs[i].owner)
        /\ [id |-> i, tag |-> inputs[i].tag] \in finished
        /\ [id |-> i, tag |-> outputs[i].tag] \in finished

-----------------------------------------------------------------------------
(* Both properties for any number of users, files, keys and tags.  A key that
   FileCrypto::default draws is no key that a user registers. *)
KeysAreFresh == \A i \in Uuids : FusionKey(i) \notin Keys

(* The owner of a file goes with its key: the user whose key it is, or the
   owners of the fusion output that the key was drawn for. *)
Owned(f) ==
    /\ f = File(f.url, f.key, f.tag, f.owner)
    /\ \/ f.key \in Keys /\ f.owner = {KeyOf(f.key)}
       \/ \E j \in Uuids : /\ f.key = FusionKey(j)
                           /\ outputs[j] # Absent /\ f.owner = outputs[j].owner

(* The same file, but for the tag. *)
SameFile(f, g) == f = File(g.url, g.key, f.tag, g.owner)

FilesInv ==
    /\ DOMAIN inputs = Uuids /\ DOMAIN outputs = Uuids
    /\ \A i \in Uuids :
          /\ inputs[i] # Absent => i \in drawn /\ Owned(inputs[i])
          /\ outputs[i] # Absent => i \in drawn /\ Owned(outputs[i])
          /\ outputs[i] # Absent /\ outputs[i].tag # NoTag =>
                [id |-> i, tag |-> outputs[i].tag] \in finished
          /\ inputs[i] # Absent /\ outputs[i] # Absent =>
                /\ SameFile(inputs[i], outputs[i])
                /\ [id |-> i, tag |-> inputs[i].tag] \in finished
                /\ [id |-> i, tag |-> outputs[i].tag] \in finished
    /\ DOMAIN task = Tasks
    /\ \A t \in Tasks : task[t] # Absent =>
          /\ task[t].id \in Uuids /\ outputs[task[t].id] # Absent
          /\ SameFile(task[t].file, outputs[task[t].id])

LEMMA FileIsPresent ==
    ASSUME NEW url, NEW key, NEW tag, NEW owner
    PROVE  /\ File(url, key, tag, owner) # Absent
           /\ File(url, key, tag, owner).url = url /\ File(url, key, tag, owner).key = key
           /\ File(url, key, tag, owner).tag = tag /\ File(url, key, tag, owner).owner = owner
BY DEF File, Absent

(* An output keeps its owners. *)
LEMMA OwnedKept ==
    ASSUME \A j \in Uuids : outputs[j] # Absent =>
              outputs'[j] # Absent /\ outputs'[j].owner = outputs[j].owner,
           NEW f, Owned(f)
    PROVE  Owned(f)'
BY Zenon DEF Owned

(* A new input, or a new output, under an id that was not drawn before. *)
LEMMA NewInput ==
    ASSUME FilesInv, NEW i \in Uuids, NEW file, New(i), PutInput(i, file), Owned(file)
    PROVE  FilesInv'
<1>1. /\ inputs' = [inputs EXCEPT ![i] = file] /\ UNCHANGED <<outputs, task, finished>>
      /\ drawn' = drawn \cup {i} /\ i \notin drawn
    BY Zenon DEF New, PutInput
<1>2. outputs[i] = Absent
    BY Zenon, <1>1 DEF FilesInv
<1>3. \A f : Owned(f) => Owned(f)'
    BY Zenon, <1>1, OwnedKept
<1>4. DOMAIN inputs' = Uuids /\ inputs'[i] = file
      /\ \A j \in Uuids \ {i} : inputs'[j] = inputs[j]
    BY Zenon, <1>1 DEF FilesInv
<1> QED BY Zenon, <1>1, <1>2, <1>3, <1>4 DEF FilesInv

LEMMA NewOutput ==
    ASSUME FilesInv, NEW i \in Uuids, NEW file, New(i), PutOutput(i, file), file # Absent,
           file.tag = NoTag, Owned(file)'
    PROVE  FilesInv'
<1>1. /\ outputs' = [outputs EXCEPT ![i] = file] /\ UNCHANGED <<inputs, task, finished>>
      /\ drawn' = drawn \cup {i} /\ i \notin drawn
    BY Zenon DEF New, PutOutput
<1>2. outputs[i] = Absent /\ inputs[i] = Absent
    BY Zenon, <1>1 DEF FilesInv
<1>3. DOMAIN outputs' = Uuids /\ outputs'[i] = file
      /\ \A j \in Uuids \ {i} : outputs'[j] = outputs[j]
    BY Zenon, <1>1 DEF FilesInv
<1>4. \A f : Owned(f) => Owned(f)'
    BY Zenon, <1>2, <1>3, OwnedKept
<1> QED BY Zenon, <1>1, <1>2, <1>3, <1>4 DEF FilesInv

(* The tag of a file does not matter for who owns it. *)
LEMMA SameFileOwned ==
    ASSUME NEW f, NEW g, SameFile(f, g), Owned(g)
    PROVE  Owned(f)
<1>1. f = File(g.url, g.key, f.tag, g.owner)
    BY Zenon DEF SameFile
<1>2. PICK url, key, tag, owner : url = g.url /\ key = g.key /\ tag = f.tag /\ owner = g.owner
    BY Zenon
<1>3. f.url = url /\ f.key = key /\ f.owner = owner
    BY <1>1, <1>2, FileIsPresent
<1>4. f = File(f.url, f.key, f.tag, f.owner)
    BY Zenon, <1>1, <1>2, <1>3
<1> QED BY Zenon, <1>2, <1>3, <1>4 DEF Owned

LEMMA FinishSound ==
    ASSUME FilesInv, NEW t \in Tasks, NEW tag, Finish(t, tag)
    PROVE  FilesInv'
<1>0. PICK file : file = task[t].file
    BY Zenon
<1>1. PICK i \in Uuids : /\ i = task[t].id /\ outputs[i] # Absent
                         /\ SameFile(file, outputs[i]) /\ task[t] # Absent
    BY Zenon, <1>0 DEF Finish, FilesInv
<1>2. /\ UNCHANGED <<inputs, drawn>>
      /\ DOMAIN task' = Tasks
      /\ \A q \in Tasks : task'[q] # Absent => task'[q] = task[q]
    BY Zenon DEF Finish, FilesInv
<1>3. CASE file.tag # NoTag
    <2>1. UNCHANGED <<outputs, finished>>
        BY Zenon, <1>0, <1>1, <1>3 DEF Finish
    <2>2. \A f : Owned(f) => Owned(f)'
        BY Zenon, <2>1, OwnedKept
    <2> QED BY ZenonT(60), <1>2, <2>1, <2>2 DEF FilesInv
<1>4. CASE file.tag = NoTag
    <2>1. PICK new, old : new = [file EXCEPT !.tag = tag] /\ old = outputs[i]
        BY Zenon
    <2>2. outputs' = [outputs EXCEPT ![i] = new]
          /\ finished' = finished \cup {[id |-> i, tag |-> tag]}
        BY Zenon, <1>0, <1>1, <1>4, <2>1 DEF Finish
    <2>3. /\ new = File(old.url, old.key, tag, old.owner) /\ new # Absent
          /\ new.url = old.url /\ new.key = old.key /\ new.tag = tag /\ new.owner = old.owner
        <3>1. PICK url, key, was, owner : /\ url = old.url /\ key = old.key /\ owner = old.owner
                                          /\ file = File(url, key, was, owner)
            BY Zenon, <1>1, <2>1 DEF SameFile
        <3>2. new = File(url, key, tag, owner)
            BY <2>1, <3>1 DEF File
        <3> QED BY <3>1, <3>2, FileIsPresent
    <2>4. DOMAIN outputs' = Uuids /\ outputs'[i] = new /\ outputs[i] = old
          /\ \A j \in Uuids \ {i} : outputs'[j] = outputs[j]
        BY Zenon, <2>1, <2>2 DEF FilesInv
    <2>5. \A f : Owned(f) => Owned(f)'
        BY Zenon, <1>1, <2>3, <2>4, OwnedKept
    <2>6. Owned(old) /\ SameFile(new, old)
        BY Zenon, <1>1, <2>3, <2>4 DEF FilesInv, SameFile
    <2>7. Owned(new)
        BY Zenon, <2>6, SameFileOwned
    <2>8. \A f : SameFile(f, old) => SameFile(f, new)
        BY Zenon, <2>3 DEF SameFile
    <2>9. (\A j \in Uuids : inputs[j] # Absent => j \in drawn /\ Owned(inputs[j]))'
        BY Zenon, <1>2, <2>5 DEF FilesInv
    <2>10. ASSUME NEW j \in Uuids, outputs'[j] # Absent
           PROVE  j \in drawn' /\ Owned(outputs[j])'
        <3>1. PICK f : f = outputs'[j] /\ Owned(f)
            BY Zenon, <2>4, <2>7, <2>10 DEF FilesInv
        <3>2. Owned(f)'
            BY Zenon, <2>5, <3>1
        <3> QED BY Zenon, <1>1, <1>2, <2>4, <2>10, <3>1, <3>2 DEF FilesInv
    <2>11. \A j \in Uuids : outputs'[j] # Absent /\ outputs'[j].tag # NoTag =>
                [id |-> j, tag |-> outputs'[j].tag] \in finished'
        BY Zenon, <2>2, <2>3, <2>4 DEF FilesInv
    <2>12. \A j \in Uuids : inputs'[j] # Absent /\ outputs'[j] # Absent =>
                SameFile(inputs'[j], outputs'[j]) /\ [id |-> j, tag |-> inputs'[j].tag] \in finished'
        BY Zenon, <1>1, <1>2, <2>2, <2>4, <2>8 DEF FilesInv
    <2>13. \A q \in Tasks : task'[q] # Absent =>
             /\ task'[q].id \in Uuids /\ outputs'[task'[q].id] # Absent
             /\ SameFile(task'[q].file, outputs'[task'[q].id])
        <3> SUFFICES ASSUME NEW q \in Tasks, task'[q] # Absent
                     PROVE  /\ task'[q].id \in Uuids /\ outputs'[task'[q].id] # Absent
                            /\ SameFile(task'[q].file, outputs'[task'[q].id])
            BY Zenon
        <3>1. PICK j, copy : /\ j = task'[q].id /\ copy = task'[q].file /\ j \in Uuids
                              /\ outputs[j] # Absent /\ SameFile(copy, outputs[j])
            BY Zenon, <1>2 DEF FilesInv
        <3>2. outputs'[j] # Absent /\ SameFile(copy, outputs'[j])
            BY Zenon, <2>3, <2>4, <2>8, <3>1
        <3> QED BY Zenon, <3>1, <3>2
    <2>14. \A j \in Uuids : inputs'[j] # Absent /\ outputs'[j] # Absent =>
                [id |-> j, tag |-> outputs'[j].tag] \in finished'
        BY Zenon, <1>1, <1>2, <2>2, <2>3, <2>4 DEF FilesInv
    <2> QED BY Zenon, <1>2, <2>4, <2>9, <2>10, <2>11, <2>12, <2>13, <2>14 DEF FilesInv
<1> QED BY Zenon, <1>3, <1>4

LEMMA OwnedIsSame ==
    ASSUME NEW f, Owned(f)
    PROVE  SameFile(f, f)
BY Zenon DEF Owned, SameFile

LEMMA AssignSound ==
    ASSUME FilesInv, NEW t \in Tasks, NEW i \in Uuids, Assign(t, i)
    PROVE  FilesInv'
<1>1. /\ UNCHANGED <<inputs, outputs, drawn, finished>> /\ outputs[i] # Absent
      /\ task' = [task EXCEPT ![t] = [id |-> i, file |-> outputs[i]]]
    BY Zenon DEF Assign
<1>2. \A f : Owned(f) => Owned(f)'
    BY Zenon, <1>1, OwnedKept
<1>3. PICK new : new = [id |-> i, file |-> outputs[i]]
    BY Zenon
<1>4. new.id = i /\ new.file = outputs[i]
    BY Zenon, <1>3
<1>5. DOMAIN task' = Tasks /\ task'[t] = new /\ \A q \in Tasks \ {t} : task'[q] = task[q]
    BY Zenon, <1>1, <1>3 DEF FilesInv
<1>6. SameFile(outputs[i], outputs[i])
    BY Zenon, <1>1, OwnedIsSame DEF FilesInv
<1>7. \A q \in Tasks : task'[q] # Absent =>
         /\ task'[q].id \in Uuids /\ outputs'[task'[q].id] # Absent
         /\ SameFile(task'[q].file, outputs'[task'[q].id])
    BY Zenon, <1>1, <1>4, <1>5, <1>6 DEF FilesInv
<1> QED BY ZenonT(60), <1>1, <1>2, <1>5, <1>7 DEF FilesInv

LEMMA FilesAlways == Spec => []FilesInv
<1>1. Init => FilesInv
    BY Zenon DEF Init, FilesInv
<1>2. ASSUME FilesInv, [Next]_vars
      PROVE  FilesInv'
    <2>1. ASSUME NEW u \in Users, NEW i \in Uuids, NEW url \in Urls, NEW key \in Keys,
                 NEW tag \in Tags, register_input_file(u, url, key, tag, i)
          PROVE  FilesInv'
        <3>1. Owned(File(url, key, tag, {u}))
            BY <2>1, FileIsPresent DEF register_input_file, Owned
        <3> QED BY Zenon, <1>2, <2>1, <3>1, NewInput DEF register_input_file
    <2>2. ASSUME NEW u \in Users, NEW i \in Uuids, NEW url \in Urls, NEW key \in Keys,
                 register_output_file(u, url, key, i)
          PROVE  FilesInv'
        <3>1. Owned(File(url, key, NoTag, {u}))'
            BY <2>2, FileIsPresent DEF register_output_file, Owned
        <3> QED BY <1>2, <2>2, <3>1, FileIsPresent, NewOutput DEF register_output_file
    <2>3. ASSUME NEW u \in Users, NEW i \in Uuids, NEW old \in Uuids, NEW url \in Urls,
                 update_input_file(u, old, url, i)
          PROVE  FilesInv'
        <3>1. PICK file : file = File(url, inputs[old].key, inputs[old].tag, inputs[old].owner)
            BY Zenon
        <3>2. Owned(inputs[old])
            BY Zenon, <1>2, <2>3 DEF update_input_file, FilesInv
        <3>3. Owned(file)
            BY <3>1, <3>2, FileIsPresent DEF Owned
        <3> QED BY Zenon, <1>2, <2>3, <3>1, <3>3, NewInput DEF update_input_file
    <2>4. ASSUME NEW u \in Users, NEW i \in Uuids, NEW old \in Uuids, NEW url \in Urls,
                 update_output_file(u, old, url, i)
          PROVE  FilesInv'
        <3>1. PICK file : file = File(url, outputs[old].key, NoTag, outputs[old].owner)
            BY Zenon
        <3>2. New(i) /\ PutOutput(i, file)
            BY Zenon, <2>4, <3>1 DEF update_output_file
        <3>3. Owned(outputs[old]) /\ outputs[i] = Absent
            BY Zenon, <1>2, <2>4 DEF update_output_file, FilesInv, New
        <3>4. Owned(file) /\ file # Absent /\ file.tag = NoTag
            BY <3>1, <3>3, FileIsPresent DEF Owned
        <3>5. \A j \in Uuids \ {i} : outputs'[j] = outputs[j]
            BY Zenon, <1>2, <3>2 DEF PutOutput, FilesInv
        <3>6. Owned(file)'
            BY Zenon, <3>3, <3>4, <3>5, OwnedKept
        <3> QED BY Zenon, <1>2, <3>2, <3>4, <3>6, NewOutput
    <2>5. ASSUME NEW u \in Users, NEW i \in Uuids, NEW owners \in OwnerLists,
                 register_fusion_output(u, owners, i)
          PROVE  FilesInv'
        <3>1. PICK file : file = File(FusionUrl(i), FusionKey(i), NoTag, Elems(owners))
            BY Zenon
        <3>2. New(i) /\ PutOutput(i, file)
            BY Zenon, <2>5, <3>1 DEF register_fusion_output
        <3>3. /\ file # Absent /\ file.tag = NoTag /\ file.key = FusionKey(i)
              /\ file = File(file.url, file.key, file.tag, file.owner)
            BY <3>1, FileIsPresent
        <3>4. outputs'[i] = file
            BY Zenon, <1>2, <3>2 DEF PutOutput, FilesInv
        <3>5. Owned(file)'
            BY Zenon, <3>3, <3>4 DEF Owned
        <3> QED BY Zenon, <1>2, <3>2, <3>3, <3>5, NewOutput
    <2>6. ASSUME NEW u \in Users, NEW i \in Uuids, register_input_from_output(u, i)
          PROVE  FilesInv'
        <3>1. /\ inputs' = [inputs EXCEPT ![i] = outputs[i]] /\ outputs[i] # Absent
              /\ outputs[i].tag # NoTag /\ UNCHANGED <<outputs, task, finished, drawn>>
            BY Zenon, <2>6 DEF register_input_from_output, PutInput
        <3>2. DOMAIN inputs' = Uuids /\ inputs'[i] = outputs[i]
              /\ \A j \in Uuids \ {i} : inputs'[j] = inputs[j]
            BY Zenon, <1>2, <3>1 DEF FilesInv
        <3>3. \A f : Owned(f) => Owned(f)'
            BY Zenon, <3>1, OwnedKept
        <3>4. SameFile(outputs[i], outputs[i])
            BY Zenon, <1>2, <3>1, OwnedIsSame DEF FilesInv
        <3> QED BY Zenon, <1>2, <3>1, <3>2, <3>3, <3>4 DEF FilesInv
    <2>7. CASE UNCHANGED vars
        BY ZenonT(60), <1>2, <2>7 DEF vars, FilesInv, Owned
    <2> QED BY Zenon, <1>2, <2>1, <2>2, <2>3, <2>4, <2>5, <2>6, <2>7, AssignSound, FinishSound DEF Next
<1> QED BY <1>1, <1>2, PTL DEF Spec

(* Two files with one key have the same owners, however files are registered,
   updated, shared by fusion, finished and registered again as inputs. *)
THEOREM KeysKeepOwners == KeysAreFresh => (Spec => []KeyKeepsOwners)
<1> SUFFICES ASSUME KeysAreFresh PROVE Spec => []KeyKeepsOwners
    BY Zenon
<1>1. ASSUME FilesInv
      PROVE  KeyKeepsOwners
    <2>1. \A f \in Files : Owned(f)
        BY ZenonT(60), <1>1 DEF Files, FilesInv
    <2>2. \A i, j \in Uuids : FusionKey(i) = FusionKey(j) => i = j
        BY Zenon DEF FusionKey
    <2>3. ASSUME NEW f \in Files, NEW g \in Files, f.key = g.key
          PROVE  f.owner = g.owner
        <3>1. CASE f.key \in Keys
            BY Zenon, <2>1, <2>3, <3>1 DEF Owned, KeysAreFresh
        <3>2. CASE f.key \notin Keys
            <4>1. PICK j \in Uuids : f.key = FusionKey(j) /\ f.owner = outputs[j].owner
                BY Zenon, <2>1, <3>2 DEF Owned
            <4>2. PICK k \in Uuids : g.key = FusionKey(k) /\ g.owner = outputs[k].owner
                BY Zenon, <2>1, <2>3, <3>2 DEF Owned
            <4> QED BY Zenon, <2>2, <2>3, <4>1, <4>2
        <3> QED BY Zenon, <3>1, <3>2
    <2>4. \A i \in Uuids : inputs[i] # Absent /\ outputs[i] # Absent =>
             inputs[i].owner = outputs[i].owner
        <3>1. ASSUME NEW f, NEW g, SameFile(f, g) PROVE f.owner = g.owner
            <4>1. PICK url, key, tag, owner : owner = g.owner /\ f = File(url, key, tag, owner)
                BY Zenon, <3>1 DEF SameFile
            <4> QED BY <4>1, FileIsPresent
        <3> QED BY Zenon, <1>1, <3>1 DEF FilesInv
    <2>5. \A v, w : [owner |-> v, tag |-> w] # Absent
        BY DEF Absent
    <2>6. \A i \in Uuids, u \in Users : inputs[i] # Absent /\ outputs[i] # Absent =>
             /\ get_file(u, inputs, i) # Absent <=> u \in inputs[i].owner
             /\ get_file(u, outputs, i) # Absent <=> u \in outputs[i].owner
        BY Zenon, <2>5 DEF get_file
    <2>7. \A i \in Uuids, u \in Users : inputs[i] # Absent /\ outputs[i] # Absent =>
             (get_file(u, inputs, i) # Absent <=> get_file(u, outputs, i) # Absent)
        BY Zenon, <2>4, <2>6
    <2> QED BY Zenon, <2>3, <2>7 DEF KeyKeepsOwners
<1> QED BY <1>1, FilesAlways, PTL

(* An input made of an output is the output as a finished task has written it,
   however many tasks have copies of the output and in whatever order they
   finish; the output too has a tag that a finished task gave to it. *)
THEOREM InputsAreFinished == Spec => []InputIsFinishedOutput
<1>1. FilesInv => InputIsFinishedOutput
    BY Zenon DEF FilesInv, InputIsFinishedOutput, SameFile
<1> QED BY <1>1, FilesAlways, PTL
=============================================================================
