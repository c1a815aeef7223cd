---------------------------- MODULE FifoAdmission ----------------------------
(***************************************************************************)
(* What a bounded FIFO admission component promises, whatever it is built  *)
(* from: requests hold at most one unit of a resource each, a resource is  *)
(* never held beyond its capacity, and a request is admitted from the head *)
(* of the queue, or past it only while the queue is empty.                 *)
(*                                                                         *)
(* NvidiaKeyPool (one queue, one resource per key) and a lane of           *)
(* RequestScheduler (one queue, one resource) both implement it.           *)
(***************************************************************************)
EXTENDS Integers, FiniteSets, Sequences

CONSTANTS
    Requests,   \* who may queue
    Resources,  \* what they queue for
    Nothing,    \* what a request holds that holds no resource
    Capacity,   \* units of every resource
    Bound       \* places in the queue

VARIABLES
    queue,    \* the requests that wait, in order of arrival
    holding   \* what every request holds

vars == <<queue, holding>>

Queued == {queue[i] : i \in DOMAIN queue}

Holders(x) == {r \in Requests : holding[r] = x}

Init ==
    /\ queue = <<>>
    /\ holding = [r \in Requests |-> Nothing]

Idle(r) == r \notin Queued /\ holding[r] = Nothing

Take(r) ==
    \E x \in Resources :
        /\ Cardinality(Holders(x)) < Capacity
        /\ holding' = [holding EXCEPT ![r] = x]

\* An empty queue may be passed by.
Pass(r) ==
    /\ queue = <<>>
    /\ Idle(r)
    /\ Take(r)
    /\ UNCHANGED queue

Join(r) ==
    /\ Idle(r)
    /\ Len(queue) < Bound
    /\ queue' = Append(queue, r)
    /\ UNCHANGED holding

Admit(r) ==
    /\ queue # <<>> /\ Head(queue) = r
    /\ Take(r)
    /\ queue' = Tail(queue)

\* A request gives up; the order of the others does not change.
GiveUp(r) ==
    /\ \E i \in DOMAIN queue :
           /\ queue[i] = r
           /\ queue' = SubSeq(queue, 1, i - 1) \o SubSeq(queue, i + 1, Len(queue))
    /\ UNCHANGED holding

Return(r) ==
    /\ holding[r] \in Resources
    /\ holding' = [holding EXCEPT ![r] = Nothing]
    /\ UNCHANGED queue

Next ==
    \E r \in Requests :
        Pass(r) \/ Join(r) \/ Admit(r) \/ GiveUp(r) \/ Return(r)

Spec == Init /\ [][Next]_vars
=============================================================================
