----------------------------- MODULE DtxQueues -----------------------------
(***************************************************************************)
(* What the buffers of /dev/surface_dtx promise: each open file has a      *)
(* queue of events of its own, empty at first, first in first out, that    *)
(* loses an event only when the oldest makes room for a new one.           *)
(***************************************************************************)
EXTENDS Naturals, Sequences

CONSTANTS
    Files,      \* files that can be open at the same time
    Events,     \* what an event can be
    Cap         \* events a queue holds

VARIABLES
    used,       \* the files that have a queue
    queue       \* the events in it, the oldest first

queuesVars == <<used, queue>>

QueuesInit ==
    /\ used = {}
    /\ queue = [f \in Files |-> <<>>]

Create(f) ==
    /\ f \notin used
    /\ used' = used \union {f}
    /\ UNCHANGED queue

Drop(f) ==
    /\ f \in used
    /\ used' = used \ {f}
    /\ queue' = [queue EXCEPT ![f] = <<>>]

Put(f, e) ==
    /\ f \in used
    /\ queue' = [queue EXCEPT ![f] = Append(IF Len(@) = Cap THEN Tail(@) ELSE @, e)]
    /\ UNCHANGED used

Get(f) ==
    /\ queue[f] # <<>>
    /\ queue' = [queue EXCEPT ![f] = Tail(@)]
    /\ UNCHANGED used

QueuesNext ==
    \E f \in Files :
        \/ Create(f) \/ Drop(f)
        \/ \E e \in Events : Put(f, e)
        \/ Get(f)

QueuesSpec == QueuesInit /\ [][QueuesNext]_queuesVars
=============================================================================
