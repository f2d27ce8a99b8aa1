----------------------------- MODULE SshEvents -----------------------------
(***************************************************************************)
(* Events of the embedded controller, from the receive callback to the     *)
(* handler of the client driver, with everything that can run at the same  *)
(* time: the thread of queue_ack, the workers of queue_evt, the timers of  *)
(* delayed work, clients that register and remove their handler, and the   *)
(* removal of the serial driver itself.                                    *)
(*                                                                         *)
(* An event is one struct ssh_event_work with two users: its ACK and its   *)
(* handling.  What is kept of it is the state of both, its reference count *)
(* and the handler that was looked up for it.                              *)
(***************************************************************************)
EXTENDS Integers, Sequences, FiniteSets

CONSTANTS
    Works,      \* slots of memory for struct ssh_event_work
    NoWork,     \* no event in the receive callback
    Rqids,      \* the event ids in use; each has one client driver
    NoHandler,  \* a NULL handler
    Delayed,    \* ids whose delay function may ask for a delay
    Immediate,  \* ids whose delay function may ask for immediate execution
    NumWorkers, \* how many workers of queue_evt run at the same time
    Removable   \* the serial driver may be removed and bound again

ASSUME EventsAssumption ==
    /\ NoWork \notin Works
    /\ NoHandler \notin Rqids
    /\ Delayed \subseteq Rqids
    /\ Immediate \subseteq Rqids
    /\ NumWorkers \in Nat \ {0}
    /\ Removable \in BOOLEAN

VARIABLES
    rqid,       \* work->event.rqid
    ref,        \* work->refcount; 0 once the memory is free
    ack,        \* work->work_ack
    evt,        \* work->work_evt
    got,        \* the handler the event's handling has looked up
    ackQueue,   \* queue_ack: single-threaded, in order
    rcv,        \* the event in the hands of the receive callback
    delay,      \* the delay it has looked up
    handler,    \* ids with an entry in events.handler
    client,     \* the client driver of each id
    pending,    \* what the flush of that client still waits for
    drv,        \* where the serial driver is in probe and remove
    drainAck,   \* what its flush of queue_ack still waits for
    drainEvt,   \* what its flush of queue_evt still waits for
    ecState,    \* ec->state
    serdev      \* ec->serdev is not NULL

workVars   == <<rqid, ref, ack, evt, got>>
clientVars == <<handler, client, pending>>
driverVars == <<drv, drainAck, drainEvt, ecState, serdev>>
vars       == <<workVars, ackQueue, rcv, delay, clientVars, driverVars>>

-----------------------------------------------------------------------------
AckStates == {"none", "queued", "sending"}

EvtStates == {"none", "receiving", "delayed", "queued", "running", "immediate"}

Delays == {"unknown", "now", "later", "immediate"}

\* probe leaves "bound" behind; the others are the steps of remove.
DriverSteps == {"unbound", "bound", "flushAck", "flushEvt", "clear", "uninit",
                "reflushAck", "reflushEvt", "closing", "destroyAck", "destroyEvt"}

InAckQueue(w) == ack[w] \in {"queued", "sending"}
InEvtQueue(w) == evt[w] \in {"queued", "running"}

AckWorks == {w \in Works : InAckQueue(w)}
EvtWorks == {w \in Works : InEvtQueue(w)}

\* The serial device is open between probe and serdev_device_close.
Open == drv \notin {"unbound", "closing", "destroyAck", "destroyEvt"}

Init ==
    /\ rqid \in [Works -> Rqids]
    /\ ref = [w \in Works |-> 0]
    /\ ack = [w \in Works |-> "none"]
    /\ evt = [w \in Works |-> "none"]
    /\ got = [w \in Works |-> NoHandler]
    /\ ackQueue = <<>>
    /\ rcv = NoWork
    /\ delay = "unknown"
    /\ handler = {}
    /\ client = [r \in Rqids |-> "unbound"]
    /\ pending = [r \in Rqids |-> {}]
    /\ drv = "bound"
    /\ drainAck = {}
    /\ drainEvt = {}
    /\ ecState = "INITIALIZED"
    /\ serdev = TRUE

-----------------------------------------------------------------------------
(* ssh_handle_event, in the receive callback *)

\* Bug: the two users of an event share one reference.
OneReference == 1

\* refcount_set: one for the ACK, one for the handling
References == 2

\* kzalloc and queue_work of the ACK.  When there is no memory the event is
\* dropped: no step.
Receive(w, r) ==
    /\ Open
    /\ rcv = NoWork
    /\ ref[w] = 0
    /\ rcv' = w
    /\ rqid' = [rqid EXCEPT ![w] = r]
    /\ ref' = [ref EXCEPT ![w] = References]
    /\ ack' = [ack EXCEPT ![w] = "queued"]
    /\ evt' = [evt EXCEPT ![w] = "receiving"]
    /\ ackQueue' = Append(ackQueue, w)
    /\ UNCHANGED <<got, delay, clientVars, driverVars>>

\* What the delay function of an id may return; without one there is no delay.
DelaysOf(r) ==
    {"now"} \union (IF r \in handler \intersect Delayed THEN {"later"} ELSE {})
            \union (IF r \in handler \intersect Immediate THEN {"immediate"} ELSE {})

\* The lookup of the delay, under events.lock.
LookUpDelay ==
    /\ rcv # NoWork
    /\ evt[rcv] = "receiving"
    /\ delay = "unknown"
    /\ delay' \in DelaysOf(rqid[rcv])
    /\ UNCHANGED <<workVars, ackQueue, rcv, clientVars, driverVars>>

\* queue_delayed_work: without a delay the work is queued at once.
QueueEvent ==
    /\ rcv # NoWork
    /\ delay \in {"now", "later"}
    /\ evt' = [evt EXCEPT ![rcv] = IF delay = "now" THEN "queued" ELSE "delayed"]
    /\ rcv' = NoWork
    /\ delay' = "unknown"
    /\ UNCHANGED <<rqid, ref, ack, got, ackQueue, clientVars, driverVars>>

\* The lookup of the handler, under events.lock.
Found(w) == IF rqid[w] \in handler THEN rqid[w] ELSE NoHandler

\* The handler is called from the receive callback.
RunImmediately ==
    /\ rcv # NoWork
    /\ delay = "immediate"
    /\ evt' = [evt EXCEPT ![rcv] = "immediate"]
    /\ got' = [got EXCEPT ![rcv] = Found(rcv)]
    /\ delay' = "unknown"
    /\ UNCHANGED <<rqid, ref, ack, ackQueue, rcv, clientVars, driverVars>>

-----------------------------------------------------------------------------
(* The workers *)

\* refcount_dec_and_test and kfree
Put(w) == ref' = [ref EXCEPT ![w] = @ - 1]

\* surface_sam_ssh_event_work_ack_handler: the ACK is written only while the
\* EC is initialized ...
StartAck ==
    /\ ackQueue # <<>>
    /\ ack[Head(ackQueue)] = "queued"
    /\ ecState = "INITIALIZED"
    /\ ack' = [ack EXCEPT ![Head(ackQueue)] = "sending"]
    /\ UNCHANGED <<rqid, ref, evt, got, ackQueue, rcv, delay, clientVars, driverVars>>

\* Bug: the reference of the ACK is never given back.
EndAckLeaks(w) ==
    /\ ack' = [ack EXCEPT ![w] = "none"]
    /\ ackQueue' = Tail(ackQueue)
    /\ drainAck' = drainAck \ {w}
    /\ UNCHANGED <<rqid, ref, evt, got, rcv, delay, clientVars, drv, drainEvt, ecState, serdev>>

EndAck(w) ==
    /\ ack' = [ack EXCEPT ![w] = "none"]
    /\ Put(w)
    /\ ackQueue' = Tail(ackQueue)
    /\ drainAck' = drainAck \ {w}
    /\ UNCHANGED <<rqid, evt, got, rcv, delay, clientVars, drv, drainEvt, ecState, serdev>>

\* ... by surface_sam_ssh_send_ack, which uses ec->serdev ...
SendAck ==
    /\ ackQueue # <<>>
    /\ ack[Head(ackQueue)] = "sending"
    /\ EndAck(Head(ackQueue))

\* ... and is left out otherwise.
SkipAck ==
    /\ ackQueue # <<>>
    /\ ack[Head(ackQueue)] = "queued"
    /\ ecState # "INITIALIZED"
    /\ EndAck(Head(ackQueue))

\* The timer of a delayed work; it needs the workqueue.
TimerFires(w) ==
    /\ evt[w] = "delayed"
    /\ drv # "unbound"
    /\ evt' = [evt EXCEPT ![w] = "queued"]
    /\ UNCHANGED <<rqid, ref, ack, got, ackQueue, rcv, delay, clientVars, driverVars>>

\* surface_sam_ssh_event_work_evt_handler, up to the call of the handler.
\* Works queued from different CPUs start in any order.
StartEvent(w) ==
    /\ evt[w] = "queued"
    /\ Cardinality({v \in Works : evt[v] = "running"}) < NumWorkers
    /\ evt' = [evt EXCEPT ![w] = "running"]
    /\ got' = [got EXCEPT ![w] = Found(w)]
    /\ UNCHANGED <<rqid, ref, ack, ackQueue, rcv, delay, clientVars, driverVars>>

\* The handler returns; in the receive callback, so does ssh_handle_event.
FinishEvent(w) ==
    /\ evt[w] \in {"running", "immediate"}
    /\ evt' = [evt EXCEPT ![w] = "none"]
    /\ got' = [got EXCEPT ![w] = NoHandler]
    /\ Put(w)
    /\ rcv' = IF evt[w] = "immediate" THEN NoWork ELSE rcv
    /\ pending' = [r \in Rqids |-> pending[r] \ {w}]
    /\ drainEvt' = drainEvt \ {w}
    /\ UNCHANGED <<rqid, ack, ackQueue, delay, handler, client, drv, drainAck, ecState, serdev>>

-----------------------------------------------------------------------------
(* Client drivers *)

\* surface_sam_ssh_set_delayed_event_handler, in the client's probe.
SetHandler(r) ==
    /\ drv = "bound"
    /\ client[r] = "unbound"
    /\ client' = [client EXCEPT ![r] = "bound"]
    /\ handler' = handler \union {r}
    /\ UNCHANGED <<workVars, ackQueue, rcv, delay, pending, driverVars>>

\* surface_sam_ssh_remove_event_handler: the table entry, under events.lock ...
RemoveHandler(r) ==
    /\ client[r] = "bound"
    /\ client' = [client EXCEPT ![r] = "removing"]
    /\ handler' = handler \ {r}
    /\ UNCHANGED <<workVars, ackQueue, rcv, delay, pending, driverVars>>

\* Bug: running handlers are not waited for.
FlushNothing(r) ==
    /\ client[r] = "removing"
    /\ client' = [client EXCEPT ![r] = "flushing"]
    /\ UNCHANGED <<workVars, ackQueue, rcv, delay, handler, pending, driverVars>>

\* ... then flush_workqueue(queue_evt): it waits for the works that are in
\* the queue when it is called, and not for timers ...
FlushHandler(r) ==
    /\ client[r] = "removing"
    /\ client' = [client EXCEPT ![r] = "flushing"]
    /\ pending' = [pending EXCEPT ![r] = EvtWorks]
    /\ UNCHANGED <<workVars, ackQueue, rcv, delay, handler, driverVars>>

\* Bug: the queue is drained, not flushed.
FreeWhenDrained(r) ==
    /\ client[r] = "flushing"
    /\ EvtWorks = {}
    /\ client' = [client EXCEPT ![r] = "unbound"]
    /\ UNCHANGED <<workVars, ackQueue, rcv, delay, handler, pending, driverVars>>

\* ... and the client, in its remove, frees the data of the handler.
FreeClient(r) ==
    /\ client[r] = "flushing"
    /\ pending[r] = {}
    /\ client' = [client EXCEPT ![r] = "unbound"]
    /\ UNCHANGED <<workVars, ackQueue, rcv, delay, handler, pending, driverVars>>

-----------------------------------------------------------------------------
(* The serial driver *)

\* surface_sam_ssh_remove.  The device links of its clients unbind them first.
\* Events may go on arriving: a suspend request that fails is only logged.
\* It flushes both queues, the second flush starting when the first is done ...
RemoveDriver ==
    /\ Removable
    /\ drv = "bound"
    /\ \A r \in Rqids : client[r] = "unbound"
    /\ drv' = "flushAck"
    /\ drainAck' = AckWorks
    /\ UNCHANGED <<workVars, ackQueue, rcv, delay, clientVars, drainEvt, ecState, serdev>>

\* Bug: the queue is drained, not flushed.
DrainedAck ==
    /\ drv \in {"flushAck", "reflushAck"}
    /\ AckWorks = {}
    /\ drv' = IF drv = "flushAck" THEN "flushEvt" ELSE "reflushEvt"
    /\ drainEvt' = EvtWorks
    /\ UNCHANGED <<workVars, ackQueue, rcv, delay, clientVars, drainAck, ecState, serdev>>

FlushedAck ==
    /\ drv \in {"flushAck", "reflushAck"}
    /\ drainAck = {}
    /\ drv' = IF drv = "flushAck" THEN "flushEvt" ELSE "reflushEvt"
    /\ drainEvt' = EvtWorks
    /\ UNCHANGED <<workVars, ackQueue, rcv, delay, clientVars, drainAck, ecState, serdev>>

\* ... clears the handler table, under events.lock ...
ClearHandlers ==
    /\ drv = "flushEvt"
    /\ drainEvt = {}
    /\ drv' = "clear"
    /\ handler' = {}
    /\ UNCHANGED <<workVars, ackQueue, rcv, delay, client, pending,
                   drainAck, drainEvt, ecState, serdev>>

Uninitialize ==
    /\ drv = "clear"
    /\ drv' = "uninit"
    /\ ecState' = "UNINITIALIZED"
    /\ serdev' = FALSE
    /\ UNCHANGED <<workVars, ackQueue, rcv, delay, clientVars, drainAck, drainEvt>>

\* Bug: the second flush is left out.
NoReflush ==
    /\ drv = "uninit"
    /\ drv' = "reflushAck"
    /\ drainAck' = {}
    /\ UNCHANGED <<workVars, ackQueue, rcv, delay, clientVars, drainEvt, ecState, serdev>>

\* ... flushes both queues again ...
Reflush ==
    /\ drv = "uninit"
    /\ drv' = "reflushAck"
    /\ drainAck' = AckWorks
    /\ UNCHANGED <<workVars, ackQueue, rcv, delay, clientVars, drainEvt, ecState, serdev>>

\* ... closes the device, which waits for the receive callback ...
Close ==
    /\ drv = "reflushEvt"
    /\ drainEvt = {}
    /\ drv' = "closing"
    /\ UNCHANGED <<workVars, ackQueue, rcv, delay, clientVars,
                   drainAck, drainEvt, ecState, serdev>>

Closed ==
    /\ drv = "closing"
    /\ rcv = NoWork
    /\ drv' = "destroyAck"
    /\ UNCHANGED <<workVars, ackQueue, rcv, delay, clientVars,
                   drainAck, drainEvt, ecState, serdev>>

\* ... and destroys the queues, which waits until they are empty.
DestroyAckQueue ==
    /\ drv = "destroyAck"
    /\ AckWorks = {}
    /\ drv' = "destroyEvt"
    /\ UNCHANGED <<workVars, ackQueue, rcv, delay, clientVars,
                   drainAck, drainEvt, ecState, serdev>>

DestroyEvtQueue ==
    /\ drv = "destroyEvt"
    /\ EvtWorks = {}
    /\ drv' = "unbound"
    /\ UNCHANGED <<workVars, ackQueue, rcv, delay, clientVars,
                   drainAck, drainEvt, ecState, serdev>>

\* surface_sam_ssh_probe, when it succeeds.
ProbeDriver ==
    /\ drv = "unbound"
    /\ drv' = "bound"
    /\ ecState' = "INITIALIZED"
    /\ serdev' = TRUE
    /\ UNCHANGED <<workVars, ackQueue, rcv, delay, clientVars, drainAck, drainEvt>>

-----------------------------------------------------------------------------
Callback == LookUpDelay \/ QueueEvent \/ RunImmediately

AckThread == StartAck \/ SendAck \/ SkipAck

EvtWorker(w) == TimerFires(w) \/ StartEvent(w) \/ FinishEvent(w)

RemovingClient(r) == FlushHandler(r) \/ FreeClient(r)

RemovingDriver ==
    \/ FlushedAck \/ ClearHandlers \/ Uninitialize \/ Reflush
    \/ Close \/ Closed \/ DestroyAckQueue \/ DestroyEvtQueue

Next ==
    \/ \E w \in Works, r \in Rqids : Receive(w, r)
    \/ Callback
    \/ AckThread
    \/ \E w \in Works : EvtWorker(w)
    \/ \E r \in Rqids : SetHandler(r) \/ RemoveHandler(r) \/ RemovingClient(r)
    \/ RemoveDriver
    \/ RemovingDriver
    \/ ProbeDriver

Spec == Init /\ [][Next]_vars

\* Threads that can go on do, timers fire, handlers return.  A worker takes
\* the works of its queue in order, so none waits for ever: strong fairness.
Fairness ==
    /\ WF_vars(Callback)
    /\ WF_vars(AckThread)
    /\ \A w \in Works :
        /\ WF_vars(TimerFires(w))
        /\ SF_vars(StartEvent(w))
        /\ WF_vars(FinishEvent(w))
    /\ \A r \in Rqids : WF_vars(RemovingClient(r))
    /\ WF_vars(RemovingDriver)

FairSpec == Spec /\ Fairness

-----------------------------------------------------------------------------
(* Properties *)

TypeOK ==
    /\ rqid \in [Works -> Rqids]
    /\ ref \in [Works -> 0..2]
    /\ ack \in [Works -> AckStates]
    /\ evt \in [Works -> EvtStates]
    /\ got \in [Works -> Rqids \union {NoHandler}]
    /\ ackQueue \in Seq(Works)
    /\ rcv \in Works \union {NoWork}
    /\ delay \in Delays
    /\ handler \subseteq Rqids
    /\ client \in [Rqids -> {"unbound", "bound", "removing", "flushing"}]
    /\ pending \in [Rqids -> SUBSET Works]
    /\ drv \in DriverSteps
    /\ drainAck \subseteq Works
    /\ drainEvt \subseteq Works
    /\ ecState \in {"UNINITIALIZED", "INITIALIZED"}
    /\ serdev \in BOOLEAN

\* Who still uses the memory of an event.
Users(w) == (IF ack[w] = "none" THEN 0 ELSE 1) + (IF evt[w] = "none" THEN 0 ELSE 1)

\* The memory of an event is freed after its ACK and its handling, whichever
\* comes last, and not before: also when the handling never enters a queue.
FreedAfterLastUse == \A w \in Works : ref[w] = Users(w)

\* "a handler obtained here is guaranteed to be valid at least until this
\* function returns": no client frees its data under a running handler.
HandlerDataAlive ==
    \A w \in Works : got[w] # NoHandler => client[got[w]] # "unbound"

\* Events that are left when the device is closed "will be silently ignored and
\* neither ACKed nor any handler gets called".
SilentAfterClose ==
    drv \in {"destroyAck", "destroyEvt", "unbound"} =>
        \A w \in Works : ack[w] # "sending" /\ got[w] = NoHandler

\* "Destroying the workqueue here flushes all remaining events": no event is
\* left that will be queued on the workqueue that is gone.  Not so for an event
\* whose timer is running.
DestroyFlushesAll ==
    drv = "unbound" => \A w \in Works : evt[w] = "none"

\* Every event is done with, and its memory freed.
EventFreed == \A w \in Works : ref[w] > 0 ~> ref[w] = 0

\* A client that removes its handler gets to the end of its removal, however
\* many events arrive meanwhile.
ClientRemoved == \A r \in Rqids : client[r] = "removing" ~> client[r] = "unbound"

\* So does the driver.
DriverRemoved == drv = "flushAck" ~> drv = "unbound"

-----------------------------------------------------------------------------
(* The inductive invariant *)

\* The event in the hands of the receive callback, and its delay.
CallbackInv ==
    /\ delay # "unknown" => rcv # NoWork /\ evt[rcv] = "receiving"
    /\ delay = "immediate" => Immediate # {}
    /\ \A w \in Works : evt[w] \in {"receiving", "immediate"} => rcv = w
    /\ rcv # NoWork => evt[rcv] \in {"receiving", "immediate"}

\* A handler that runs in a worker belongs to a client that is bound, or is
\* in the flush of one that is leaving.
HandlerInv ==
    /\ \A r \in handler : client[r] = "bound"
    /\ \A w \in Works : got[w] # NoHandler => evt[w] \in {"running", "immediate"}
    /\ \A w \in Works : evt[w] = "immediate" => Immediate # {}
    /\ \A w \in Works : got[w] # NoHandler /\ evt[w] = "running" =>
            \/ client[got[w]] \in {"bound", "removing"}
            \/ client[got[w]] = "flushing" /\ w \in pending[got[w]]

\* How far the removal of the driver has got.
DriverInv ==
    /\ drv # "bound" => \A r \in Rqids : client[r] = "unbound"
    /\ ecState = "INITIALIZED" <=> drv \in {"bound", "flushAck", "flushEvt", "clear"}
    /\ drv = "reflushAck" => \A w \in Works : ack[w] = "sending" => w \in drainAck
    /\ drv \in {"reflushEvt", "closing", "destroyAck", "destroyEvt", "unbound"} =>
            \A w \in Works : ack[w] # "sending"
    /\ drv \in {"destroyAck", "destroyEvt", "unbound"} => rcv = NoWork

IInv ==
    /\ TypeOK
    /\ CallbackInv
    /\ FreedAfterLastUse
    /\ HandlerInv
    /\ DriverInv
=============================================================================
