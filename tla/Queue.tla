------------------------------- MODULE Queue -------------------------------
(***************************************************************************)
(* What the storage service promises of a queue: elements are handed out   *)
(* once and in the order in which they were enqueued.  A call that reports *)
(* an error of the database may or may not have had its effect; one whose  *)
(* read failed reports that there is no element.                           *)
(***************************************************************************)
EXTENDS Sequences

CONSTANTS Elements, ReadsFail

VARIABLES queue, ret

Ok(v) == <<"ok", v>>
Err(why) == <<"err", why>>
Done == "done"

Init == queue = <<>> /\ ret = Ok(Done)

Enqueue(v) ==
    \/ queue' = Append(queue, v) /\ ret' = Ok(Done)
    \/ queue' \in {queue, Append(queue, v)} /\ ret' = Err("database")

Dequeue ==
    \/ queue # <<>> /\ ret' = Ok(Head(queue)) /\ queue' = Tail(queue)
    \/ queue # <<>> /\ ret' = Err("database") /\ queue' \in {queue, Tail(queue)}
    \/ queue = <<>> /\ ret' = Err("empty") /\ queue' = queue
    \/ ReadsFail /\ ret' \in {Err("empty"), Err("no element")} /\ queue' = queue

Next == Dequeue \/ \E v \in Elements : Enqueue(v)

Spec == Init /\ [][Next]_<<queue, ret>>
=============================================================================
