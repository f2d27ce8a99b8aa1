----------------------------- MODULE DtxClients -----------------------------
(***************************************************************************)
(* /dev/surface_dtx: files that user space opens, reads, sends commands    *)
(* over and closes, while workers push the events of the EC into their     *)
(* buffers and the driver is bound and unbound.                            *)
(*                                                                         *)
(* The list of open files is a doubly linked list under client_lock that   *)
(* the workers traverse under RCU; it is modelled with its pointers, since *)
(* its head is initialised anew whenever the driver is bound.  Each file   *)
(* is read by one thread.                                                  *)
(***************************************************************************)
EXTENDS Integers, Sequences, FiniteSets

CONSTANTS
    Files,      \* slots for struct surface_dtx_client
    ListHead,   \* ddev->client_list
    Events,     \* contents of struct surface_dtx_event
    Connection, \* that of SAM_EVENT_DTX_CID_CONNECTION
    OpMode,     \* that of the mode the EC is asked for
    NoEvent,    \* contents of a buffer that is not in use
    Workers,    \* workers of queue_evt
    Nowhere,    \* where a worker is that handles no event
    InHandler,  \* where a worker is that is about to push one
    BufSize,    \* DTX_CLIENT_BUF_SIZE
    MaxRead,    \* bound: events a read has room for
    Rebind      \* the driver may be bound while old files are open

ASSUME ClientsAssumption ==
    /\ ListHead \notin Files
    /\ Nowhere # InHandler /\ {Nowhere, InHandler} \intersect (Files \union {ListHead}) = {}
    /\ Connection \in Events /\ OpMode \in Events
    /\ NoEvent \notin Events
    /\ BufSize \in Nat \ {0, 1}
    /\ MaxRead \in Nat \ {0}
    /\ Rebind \in BOOLEAN

VARIABLES
    drv,        \* where the driver is in probe and remove
    active,     \* ddev->active
    misc,       \* the device node exists
    handling,   \* the event handler is registered
    next, prev, \* the list
    file,       \* each file: closed, open, or waiting for RCU in its release
    grace,      \* the workers that release waits for
    buf,        \* client->buffer
    head, tail, \* client->buffer_head, client->buffer_tail
    rd,         \* the thread that reads the file
    want,       \* events its read has room for
    got,        \* events it has taken from the buffer
    waitq,      \* readers on ddev->waitq
    at,         \* the client a worker gets to next
    ev,         \* the event it pushes
    ioctl       \* the file whose ioctl holds ddev->mutex

driverVars == <<drv, active, misc, handling>>
listVars   == <<next, prev>>
bufVars    == <<buf, head, tail>>
readVars   == <<rd, want, got>>
pushVars   == <<at, ev>>
vars == <<driverVars, listVars, file, grace, bufVars, readVars, waitq, pushVars, ioctl>>

-----------------------------------------------------------------------------
Nodes == Files \union {ListHead}

DriverSteps == {"unbound", "initialized", "registered", "enabling", "failing",
                "bound", "disabling", "flushing", "waking", "deregistering"}

Empty(f) == head[f] = tail[f]

\* Bug: the position is not masked.
StepUnmasked(i) == i + 1

Step(i) == (i + 1) % BufSize

NoEvents == [i \in 0..BufSize-1 |-> NoEvent]

Init ==
    /\ drv = "unbound"
    /\ active = FALSE
    /\ misc = FALSE
    /\ handling = FALSE
    /\ next = [n \in Nodes |-> n]
    /\ prev = [n \in Nodes |-> n]
    /\ file = [f \in Files |-> "closed"]
    /\ grace = [f \in Files |-> {}]
    /\ buf = [f \in Files |-> NoEvents]
    /\ head = [f \in Files |-> 0]
    /\ tail = [f \in Files |-> 0]
    /\ rd = [f \in Files |-> "idle"]
    /\ want = [f \in Files |-> 0]
    /\ got = [f \in Files |-> 0]
    /\ waitq = {}
    /\ at = [w \in Workers |-> Nowhere]
    /\ ev = [w \in Workers |-> NoEvent]
    /\ ioctl = {}

-----------------------------------------------------------------------------
(* Opening and closing files *)

\* surface_dtx_open: list_add_tail_rcu, under client_lock.
Open(f) ==
    /\ misc
    /\ file[f] = "closed"
    /\ file' = [file EXCEPT ![f] = "open"]
    /\ next' = [next EXCEPT ![f] = ListHead, ![prev[ListHead]] = f]
    /\ prev' = [prev EXCEPT ![f] = prev[ListHead], ![ListHead] = f]
    /\ UNCHANGED <<driverVars, grace, bufVars, readVars, waitq, pushVars, ioctl>>

Traversing == {w \in Workers : at[w] \in Nodes}

\* Bug: the list is mended in one direction only.
ReleaseHalf(f) ==
    /\ file[f] = "open"
    /\ rd[f] = "idle"
    /\ f \notin ioctl
    /\ file' = [file EXCEPT ![f] = "releasing"]
    /\ grace' = [grace EXCEPT ![f] = Traversing]
    /\ next' = [next EXCEPT ![prev[f]] = next[f]]
    /\ UNCHANGED <<driverVars, prev, bufVars, readVars, waitq, pushVars, ioctl>>

\* Bug: the memory is freed without waiting for those that may still see it.
ReleaseNow(f) ==
    /\ file[f] = "open"
    /\ rd[f] = "idle"
    /\ f \notin ioctl
    /\ file' = [file EXCEPT ![f] = "releasing"]
    /\ next' = [next EXCEPT ![prev[f]] = next[f]]
    /\ prev' = [prev EXCEPT ![next[f]] = prev[f]]
    /\ UNCHANGED <<driverVars, grace, bufVars, readVars, waitq, pushVars, ioctl>>

\* surface_dtx_release: list_del_rcu, under client_lock, and the start of
\* synchronize_rcu ...
Release(f) ==
    /\ file[f] = "open"
    /\ rd[f] = "idle"
    /\ f \notin ioctl
    /\ file' = [file EXCEPT ![f] = "releasing"]
    /\ grace' = [grace EXCEPT ![f] = Traversing]
    /\ next' = [next EXCEPT ![prev[f]] = next[f]]
    /\ prev' = [prev EXCEPT ![next[f]] = prev[f]]
    /\ UNCHANGED <<driverVars, bufVars, readVars, waitq, pushVars, ioctl>>

\* ... and the kfree once those that may still see the client are through.
Free(f) ==
    /\ file[f] = "releasing"
    /\ grace[f] = {}
    /\ file' = [file EXCEPT ![f] = "closed"]
    /\ buf' = [buf EXCEPT ![f] = NoEvents]
    /\ head' = [head EXCEPT ![f] = 0]
    /\ tail' = [tail EXCEPT ![f] = 0]
    /\ UNCHANGED <<driverVars, listVars, grace, readVars, waitq, pushVars, ioctl>>

-----------------------------------------------------------------------------
(* surface_dtx_read *)

\* Without an event a read waits, unless it is not to block.  A read of an
\* inactive device and one that would block but must not return at once: no
\* step.
ReadStart(f, n) ==
    /\ file[f] = "open"
    /\ rd[f] = "idle"
    /\ active
    /\ rd' = [rd EXCEPT ![f] = IF Empty(f) THEN "check" ELSE "copy"]
    /\ want' = [want EXCEPT ![f] = n]
    /\ UNCHANGED <<driverVars, listVars, file, grace, bufVars, got,
                   waitq, pushVars, ioctl>>

ReadReturns(f) ==
    /\ rd' = [rd EXCEPT ![f] = "idle"]
    /\ want' = [want EXCEPT ![f] = 0]
    /\ got' = [got EXCEPT ![f] = 0]

\* wait_event_interruptible: the reader is put on the wait queue before the
\* condition is checked, so that no wake-up is missed.
ReadCheck(f) ==
    /\ rd[f] = "check"
    /\ IF Empty(f) /\ active
       THEN /\ rd' = [rd EXCEPT ![f] = "sleep"]
            /\ waitq' = waitq \union {f}
            /\ UNCHANGED <<want, got>>
       ELSE /\ waitq' = waitq \ {f}
            /\ IF active
               THEN rd' = [rd EXCEPT ![f] = "copy"] /\ UNCHANGED <<want, got>>
               ELSE ReadReturns(f)
    /\ UNCHANGED <<driverVars, listVars, file, grace, bufVars, pushVars, ioctl>>

\* A signal ends the wait.
ReadInterrupted(f) ==
    /\ rd[f] = "sleep"
    /\ waitq' = waitq \ {f}
    /\ ReadReturns(f)
    /\ UNCHANGED <<driverVars, listVars, file, grace, bufVars, pushVars, ioctl>>

\* One event is taken, under buffer_lock, and copied to the caller's memory.
ReadCopy(f) ==
    /\ rd[f] = "copy"
    /\ got[f] < want[f]
    /\ ~Empty(f)
    /\ tail' = [tail EXCEPT ![f] = Step(@)]
    /\ got' = [got EXCEPT ![f] = @ + 1]
    /\ UNCHANGED <<driverVars, listVars, file, grace, buf, head, rd, want,
                   waitq, pushVars, ioctl>>

\* The memory is gone: the event that was taken is lost.
ReadFault(f) ==
    /\ rd[f] = "copy"
    /\ got[f] < want[f]
    /\ ~Empty(f)
    /\ tail' = [tail EXCEPT ![f] = Step(@)]
    /\ ReadReturns(f)
    /\ UNCHANGED <<driverVars, listVars, file, grace, buf, head, waitq, pushVars, ioctl>>

ReadDone(f) ==
    /\ rd[f] = "copy"
    /\ got[f] = want[f] \/ Empty(f)
    /\ ReadReturns(f)
    /\ UNCHANGED <<driverVars, listVars, file, grace, bufVars, waitq, pushVars, ioctl>>

-----------------------------------------------------------------------------
(* surface_dtx_ioctl: the request is sent with the mutex held *)

IoctlStart(f) ==
    /\ file[f] = "open"
    /\ ioctl = {}
    /\ active
    /\ ioctl' = {f}
    /\ UNCHANGED <<driverVars, listVars, file, grace, bufVars, readVars, waitq, pushVars>>

IoctlEnd ==
    /\ ioctl # {}
    /\ ioctl' = {}
    /\ UNCHANGED <<driverVars, listVars, file, grace, bufVars, readVars, waitq, pushVars>>

-----------------------------------------------------------------------------
(* surface_dtx_evt_dtx and surface_dtx_push_event, in the workers *)

\* An event of the EC that is to be pushed; others leave nothing behind.
HandleEvent(w, e) ==
    /\ handling
    /\ at[w] = Nowhere
    /\ at' = [at EXCEPT ![w] = InHandler]
    /\ ev' = [ev EXCEPT ![w] = e]
    /\ UNCHANGED <<driverVars, listVars, file, grace, bufVars, readVars, waitq, ioctl>>

\* rcu_read_lock, and the first client
PushStart(w) ==
    /\ at[w] = InHandler
    /\ at' = [at EXCEPT ![w] = next[ListHead]]
    /\ UNCHANGED <<driverVars, listVars, file, grace, bufVars, readVars, waitq, ev, ioctl>>

\* Bug: a full buffer is not told from an empty one.
PushOverrun(w) ==
    /\ at[w] \in Files
    /\ LET f == at[w] IN
       /\ buf' = [buf EXCEPT ![f][head[f]] = ev[w]]
       /\ head' = [head EXCEPT ![f] = Step(@)]
       /\ at' = [at EXCEPT ![w] = next[f]]
    /\ UNCHANGED <<driverVars, listVars, file, grace, tail, readVars, waitq, ev, ioctl>>

\* The event is written at the head, under buffer_lock; when that fills the
\* buffer, the oldest event is dropped.
Push(w) ==
    /\ at[w] \in Files
    /\ LET f == at[w] IN
       /\ buf' = [buf EXCEPT ![f][head[f]] = ev[w]]
       /\ head' = [head EXCEPT ![f] = Step(@)]
       /\ tail' = IF head'[f] = tail[f] THEN [tail EXCEPT ![f] = Step(@)] ELSE tail
       /\ at' = [at EXCEPT ![w] = next[f]]
    /\ UNCHANGED <<driverVars, listVars, file, grace, readVars, waitq, ev, ioctl>>

\* wake_up_interruptible takes the readers off the queue.
WakeUp ==
    /\ rd' = [f \in Files |-> IF f \in waitq THEN "check" ELSE rd[f]]
    /\ waitq' = {}

\* rcu_read_unlock and the wake-up.  After a connection event the mode is asked
\* for and pushed, the error if that fails.
PushEnd(w) ==
    /\ at[w] = ListHead
    /\ IF ev[w] = Connection
       THEN at' = [at EXCEPT ![w] = InHandler] /\ ev' = [ev EXCEPT ![w] = OpMode]
       ELSE at' = [at EXCEPT ![w] = Nowhere] /\ ev' = [ev EXCEPT ![w] = NoEvent]
    /\ grace' = [f \in Files |-> grace[f] \ {w}]
    /\ WakeUp
    /\ UNCHANGED <<driverVars, listVars, file, bufVars, want, got, ioctl>>

-----------------------------------------------------------------------------
(* The driver *)

\* surface_sam_dtx_probe, under the mutex.  It refuses an active device: no
\* step.
ProbeInit ==
    /\ drv = "unbound"
    /\ ioctl = {}
    /\ ~active
    /\ Rebind \/ \A f \in Files : file[f] = "closed"
    /\ drv' = "initialized"
    /\ active' = TRUE
    /\ next' = [next EXCEPT ![ListHead] = ListHead]
    /\ prev' = [prev EXCEPT ![ListHead] = ListHead]
    /\ waitq' = {}
    /\ UNCHANGED <<misc, handling, file, grace, bufVars, readVars, pushVars, ioctl>>

ProbeRegister ==
    /\ drv = "initialized"
    /\ drv' = "registered"
    /\ misc' = TRUE
    /\ UNCHANGED <<active, handling, listVars, file, grace, bufVars, readVars,
                   waitq, pushVars, ioctl>>

\* surface_dtx_events_setup: the handler, then the event source.
ProbeHandler ==
    /\ drv = "registered"
    /\ drv' = "enabling"
    /\ handling' = TRUE
    /\ UNCHANGED <<active, misc, listVars, file, grace, bufVars, readVars,
                   waitq, pushVars, ioctl>>

ProbeEvents ==
    /\ drv = "enabling"
    /\ drv' = "bound"
    /\ UNCHANGED <<active, misc, handling, listVars, file, grace, bufVars, readVars,
                   waitq, pushVars, ioctl>>

\* The event source is not enabled: the handler is removed again ...
ProbeUndone ==
    /\ drv = "enabling"
    /\ drv' = "failing"
    /\ handling' = FALSE
    /\ UNCHANGED <<active, misc, listVars, file, grace, bufVars, readVars,
                   waitq, pushVars, ioctl>>

Running == {w \in Workers : at[w] # Nowhere}

\* ... and whatever failed, the device stays active.
ProbeFails ==
    /\ drv \in {"initialized", "registered", "failing"}
    /\ drv = "failing" => Running = {}
    /\ drv' = "unbound"
    /\ misc' = FALSE
    /\ UNCHANGED <<active, handling, listVars, file, grace, bufVars, readVars,
                   waitq, pushVars, ioctl>>

\* Bug: the device is made inactive without the mutex.
RemoveUnlocked ==
    /\ drv = "bound"
    /\ drv' = "disabling"
    /\ active' = FALSE
    /\ UNCHANGED <<misc, handling, listVars, file, grace, bufVars, readVars,
                   waitq, pushVars, ioctl>>

\* surface_sam_dtx_remove: it waits for the ioctl in progress ...
RemoveStart ==
    /\ drv = "bound"
    /\ ioctl = {}
    /\ drv' = "disabling"
    /\ active' = FALSE
    /\ UNCHANGED <<misc, handling, listVars, file, grace, bufVars, readVars,
                   waitq, pushVars, ioctl>>

\* ... removes the event handler ...
DisableEvents ==
    /\ drv = "disabling"
    /\ drv' = "flushing"
    /\ handling' = FALSE
    /\ UNCHANGED <<active, misc, listVars, file, grace, bufVars, readVars,
                   waitq, pushVars, ioctl>>

\* ... and waits for the workers that are in it ...
EventsDisabled ==
    /\ drv = "flushing"
    /\ Running = {}
    /\ drv' = "waking"
    /\ UNCHANGED <<active, misc, handling, listVars, file, grace, bufVars, readVars,
                   waitq, pushVars, ioctl>>

\* Bug: nobody is woken.
RemoveSilently ==
    /\ drv = "waking"
    /\ drv' = "deregistering"
    /\ UNCHANGED <<active, misc, handling, listVars, file, grace, bufVars,
                   readVars, waitq, pushVars, ioctl>>

\* ... wakes the readers ...
RemoveWakes ==
    /\ drv = "waking"
    /\ drv' = "deregistering"
    /\ WakeUp
    /\ UNCHANGED <<active, misc, handling, listVars, file, grace, bufVars,
                   want, got, pushVars, ioctl>>

\* ... and takes the device node away.  Files that are open stay open.
Deregister ==
    /\ drv = "deregistering"
    /\ drv' = "unbound"
    /\ misc' = FALSE
    /\ UNCHANGED <<active, handling, listVars, file, grace, bufVars, readVars,
                   waitq, pushVars, ioctl>>

-----------------------------------------------------------------------------
Reader(f) == ReadCheck(f) \/ ReadCopy(f) \/ ReadFault(f) \/ ReadDone(f)

Worker(w) == PushStart(w) \/ Push(w) \/ PushEnd(w)

Probing == ProbeRegister \/ ProbeHandler \/ ProbeEvents \/ ProbeUndone \/ ProbeFails

Removing == DisableEvents \/ EventsDisabled \/ RemoveWakes \/ Deregister

Next ==
    \/ \E f \in Files :
        \/ Open(f) \/ Release(f) \/ Free(f)
        \/ \E n \in 1..MaxRead : ReadStart(f, n)
        \/ Reader(f) \/ ReadInterrupted(f)
        \/ IoctlStart(f)
    \/ IoctlEnd
    \/ \E w \in Workers : Worker(w) \/ \E e \in Events \ {OpMode} : HandleEvent(w, e)
    \/ ProbeInit \/ Probing
    \/ RemoveStart \/ Removing

Spec == Init /\ [][Next]_vars

\* Threads in the kernel go on; what user space does, and when, is open.
FairSpec ==
    /\ Spec
    /\ \A f \in Files : WF_vars(Reader(f)) /\ WF_vars(Free(f))
    /\ \A w \in Workers : WF_vars(Worker(w))
    /\ WF_vars(Probing) /\ WF_vars(Removing)

-----------------------------------------------------------------------------
(* Properties *)

TypeOK ==
    /\ drv \in DriverSteps
    /\ active \in BOOLEAN /\ misc \in BOOLEAN /\ handling \in BOOLEAN
    /\ next \in [Nodes -> Nodes] /\ prev \in [Nodes -> Nodes]
    /\ file \in [Files -> {"closed", "open", "releasing"}]
    /\ grace \in [Files -> SUBSET Workers]
    /\ buf \in [Files -> [0..BufSize-1 -> Events \union {NoEvent}]]
    /\ head \in [Files -> 0..BufSize-1] /\ tail \in [Files -> 0..BufSize-1]
    /\ rd \in [Files -> {"idle", "check", "sleep", "copy"}]
    /\ want \in [Files -> 0..MaxRead]
    /\ got \in [Files -> 0..MaxRead]
    /\ waitq \subseteq Files
    /\ at \in [Workers -> Nodes \union {Nowhere, InHandler}]
    /\ ev \in [Workers -> Events \union {NoEvent}]
    /\ ioctl \subseteq Files

\* The files on the list: what is reached from its head along next.
ClosedFromHead(S) == ListHead \in S /\ \A n \in S : next[n] \in S

Listed == {f \in Files : \A S \in SUBSET Nodes : ClosedFromHead(S) => f \in S}

\* "Multiple clients may access this file at the same time": a file that is
\* open on a device that handles events is one the events are pushed to,
\* whatever other files were opened and closed before.
OpenFileServed == handling => \A f \in Files : file[f] = "open" => f \in Listed

\* A worker never pushes to a client whose memory is freed: it may stand on one
\* that has left the list, and go on from there.
ClientAlive == \A w \in Workers : at[w] \in Files => file[at[w]] # "closed"

\* A command is sent to the EC only while the device is active: removing the
\* driver waits for the ioctl in progress, and no other gets in.
CommandWhileActive == ioctl # {} => active

\* A reader that has something to return with, an event or the removal of the
\* device, does not sleep on.
ReaderWoken ==
    \A f \in Files :
        rd[f] = "sleep" /\ (~Empty(f) \/ ~active) ~> rd[f] # "sleep"

-----------------------------------------------------------------------------
(* The inductive invariant, when the driver is not bound while files are open *)

Linked == {ListHead} \union {f \in Files : file[f] = "open"}

\* Clients that a worker may get to: those on the list, and those that left it
\* while it was under way.
Visible(w) == Linked \union {f \in Files : file[f] = "releasing" /\ w \in grace[f]}

\* The list is linked both ways, and nothing but open files is on it ...
LinkInv ==
    \A n \in Linked :
        /\ next[n] \in Linked /\ prev[n] \in Linked
        /\ prev[next[n]] = n /\ next[prev[n]] = n

\* ... and all of them are.
ListInv == LinkInv /\ \A f \in Files : file[f] = "open" => f \in Listed

\* A release waits for workers that are in the list ...
GraceInv == \A f \in Files : grace[f] \subseteq Traversing

\* ... and from what such a worker sees it gets to nothing else.
WorkerInv ==
    \A w \in Traversing :
        /\ at[w] \in Visible(w)
        /\ \A n \in Visible(w) : next[n] \in Visible(w)

EventInv == \A w \in Workers : at[w] # Nowhere => ev[w] \in Events

IInv ==
    /\ TypeOK
    /\ CommandWhileActive
    /\ EventInv
    /\ ~Rebind => ListInv /\ GraceInv /\ WorkerInv

-----------------------------------------------------------------------------
(* The ring buffers are queues that drop their oldest event *)

Queue(f) ==
    [i \in 1..((head[f] - tail[f]) % BufSize) |-> buf[f][(tail[f] + i - 1) % BufSize]]

Queues == INSTANCE DtxQueues WITH
    Cap   <- BufSize - 1,
    used  <- {f \in Files : file[f] # "closed"},
    queue <- [f \in Files |-> Queue(f)]

\* Pushed by several workers and read at the same time, the buffer of each
\* file is a queue that holds its last BufSize - 1 events.
ImplementsQueues == Queues!QueuesSpec
=============================================================================
