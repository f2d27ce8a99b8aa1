----------------------------- MODULE SshDriver -----------------------------
(***************************************************************************)
(* The serial driver surface_sam_ssh with the lock that everything in it   *)
(* shares: probe with its failing paths, remove, suspend and resume, the   *)
(* requests of other threads, the handlers that its workers run, and the   *)
(* debug attribute.  What a request does on the line is left to SshRequest,*)
(* what becomes of a single event to SshEvents.                            *)
(*                                                                         *)
(* The threads are told apart by what they hold ec->lock as: "driver" is   *)
(* the one in probe, remove, suspend or resume, "client" one that binds or *)
(* unbinds a client driver, "worker" a handler, "debug" a write to the     *)
(* attribute, "user" anything else that sends a request.                   *)
(***************************************************************************)
EXTENDS Integers, FiniteSets

CONSTANTS
    Events,     \* events that have a handler
    Requesting, \* those whose handler sends a request
    Immediate,  \* those that are handled in the receive callback
    NumBuffers, \* what probe allocates: three buffers and two queues
    NumWorkers  \* bound: handlers that run at the same time

ASSUME DriverAssumption ==
    /\ Requesting \subseteq Events
    /\ Immediate \subseteq Events
    /\ NumBuffers \in Nat
    /\ NumWorkers \in Nat \ {0}

VARIABLES
    drv,        \* where the driver is in probe, remove, suspend and resume
    held,       \* how many of its buffers are allocated
    ecState,    \* ec->state
    serdev,     \* ec->serdev is not NULL
    open,       \* the serial device is open
    lock,       \* who holds ec->lock
    attr,       \* the debug attribute exists
    debug,      \* whether a write to it is in progress
    handlers,   \* events with an entry in events.handler
    run,        \* what the handler of each event does
    drain,      \* handlers the driver's flush of queue_evt waits for
    power       \* the EC: awake, asleep, or asleep after a resume that failed

probeVars == <<drv, held, serdev, open>>
eventVars == <<handlers, run, drain>>
debugVars == <<attr, debug>>
drvVars   == <<probeVars, ecState, lock, debugVars, eventVars, power>>

-----------------------------------------------------------------------------
DriverSteps ==
    {"unbound", "alloc", "open", "setup", "resume", "attr", "undo", "bound",
     "unbinding", "removing", "unregister", "suspend", "flush", "reflush",
     "suspending", "asleep", "resuming"}

Holders == {"free", "driver", "client", "worker", "debug", "user", "lost"}

DriverInit ==
    /\ drv = "unbound"
    /\ held = 0
    /\ ecState = "UNINITIALIZED"
    /\ serdev = FALSE
    /\ open = FALSE
    /\ lock = "free"
    /\ attr = FALSE
    /\ debug = "idle"
    /\ handlers = {}
    /\ run = [e \in Events |-> "idle"]
    /\ drain = {}
    /\ power \in {"awake", "asleep"}

-----------------------------------------------------------------------------
\* The requests that wake the EC and send it to sleep.  One that fails may have
\* been carried out.
EcResume(ok)  == power' \in IF ok THEN {"awake"} ELSE {power, "awake"}
EcSuspend(ok) == power' \in IF ok THEN {"asleep"} ELSE {power, "asleep"}

-----------------------------------------------------------------------------
(* surface_sam_ssh_probe *)

\* DMA that is not ready ends a probe before anything is done: no step.
ProbeBegin ==
    /\ drv = "unbound"
    /\ drv' = "alloc"
    /\ UNCHANGED <<held, serdev, open, ecState, lock, debugVars, eventVars, power>>

\* Bug: one buffer too many.
AllocOneMore ==
    /\ drv = "alloc"
    /\ held <= NumBuffers
    /\ held' = held + 1
    /\ UNCHANGED <<drv, serdev, open, ecState, lock, debugVars, eventVars, power>>

ProbeAlloc ==
    /\ drv = "alloc"
    /\ held < NumBuffers
    /\ held' = held + 1
    /\ UNCHANGED <<drv, serdev, open, ecState, lock, debugVars, eventVars, power>>

AllocFails ==
    /\ drv = "alloc"
    /\ held < NumBuffers
    /\ drv' = "undo"
    /\ UNCHANGED <<held, serdev, open, ecState, lock, debugVars, eventVars, power>>

\* The EC is set up under the lock, which probe keeps until it is done.  There
\* is one serial device, so the EC is never found initialized here.
ProbeInit ==
    /\ drv = "alloc"
    /\ held = NumBuffers
    /\ lock = "free"
    /\ ecState = "UNINITIALIZED"
    /\ lock' = "driver"
    /\ ecState' = "INITIALIZED"
    /\ serdev' = TRUE
    /\ drv' = "open"
    /\ UNCHANGED <<held, open, debugVars, eventVars, power>>

ProbeOpen ==
    /\ drv = "open"
    /\ open' = TRUE
    /\ drv' = "setup"
    /\ UNCHANGED <<held, serdev, ecState, lock, debugVars, eventVars, power>>

\* The settings of the line, from the firmware.
ProbeSetup ==
    /\ drv = "setup"
    /\ drv' = "resume"
    /\ UNCHANGED <<held, serdev, open, ecState, lock, debugVars, eventVars, power>>

\* The request that resumes the EC is answered.
ProbeResume ==
    /\ drv = "resume"
    /\ drv' = "attr"
    /\ EcResume(TRUE)
    /\ UNCHANGED <<held, serdev, open, ecState, lock, debugVars, eventVars>>

ProbeDone ==
    /\ drv = "attr"
    /\ attr' = TRUE
    /\ lock' = "free"
    /\ drv' = "bound"
    /\ UNCHANGED <<held, serdev, open, ecState, debug, eventVars, power>>

\* Bug: the lock is not released on the failing path.
ProbeFailsLocked ==
    /\ drv \in {"open", "setup", "resume", "attr"}
    /\ open' = FALSE
    /\ ecState' = "UNINITIALIZED"
    /\ drv' = "undo"
    /\ IF drv = "resume" THEN EcResume(FALSE) ELSE UNCHANGED power
    /\ UNCHANGED <<held, serdev, lock, debugVars, eventVars>>

\* err_devinit and err_open: what was opened is closed, ec->serdev is left.
ProbeFails ==
    /\ drv \in {"open", "setup", "resume", "attr"}
    /\ open' = FALSE
    /\ ecState' = "UNINITIALIZED"
    /\ lock' = "free"
    /\ drv' = "undo"
    /\ IF drv = "resume" THEN EcResume(FALSE) ELSE UNCHANGED power
    /\ UNCHANGED <<held, serdev, debugVars, eventVars>>

\* err_busy and the labels that follow it.
ProbeUndo ==
    /\ drv = "undo"
    /\ held' = 0
    /\ drv' = "unbound"
    /\ UNCHANGED <<serdev, open, ecState, lock, debugVars, eventVars, power>>

-----------------------------------------------------------------------------
(* ec->lock *)

Running == {e \in Events : run[e] # "idle"}

\* What a flush of queue_evt waits for; not for the receive callback.
Flushable == Running \ Immediate

\* surface_sam_ssh_acquire_init
Acquirable == lock = "free" /\ ecState # "UNINITIALIZED"

\* Bug: only a suspended EC is refused.
RqstAllowedAlways == lock = "free" /\ ecState # "SUSPENDED"

\* surface_sam_ssh_rqst up to the request itself, which is sent with the lock
\* held.
RqstAllowed == Acquirable /\ ecState # "SUSPENDED"

\* -ENXIO or -EPERM
RqstRefused == lock = "free" /\ ecState # "INITIALIZED"

Take(h) == lock' = h

Release(h) == lock = h /\ lock' = "free"

-----------------------------------------------------------------------------
(* surface_sam_ssh_remove *)

\* The driver core unbinds the consumers ...
UnbindBegin ==
    /\ drv = "bound"
    /\ drv' = "unbinding"
    /\ UNCHANGED <<held, serdev, open, ecState, lock, debugVars, eventVars, power>>

\* ... and calls remove, which has yet to get the lock.
RemoveBegin ==
    /\ drv = "unbinding"
    /\ drv' = "removing"
    /\ UNCHANGED <<held, serdev, open, ecState, lock, debugVars, eventVars, power>>

RemoveLock ==
    /\ drv = "removing"
    /\ Acquirable
    /\ Take("driver")
    /\ drv' = "unregister"
    /\ UNCHANGED <<held, serdev, open, ecState, debugVars, eventVars, power>>

\* surface_sam_ssh_sysfs_unregister waits for writes that are in progress.
UnregisterAttr ==
    /\ drv = "unregister"
    /\ debug = "idle"
    /\ attr' = FALSE
    /\ drv' = "suspend"
    /\ UNCHANGED <<held, serdev, open, ecState, lock, debug, eventVars, power>>

\* The suspend request, whose failure is only logged, and the first flush.
RemoveSuspend ==
    /\ drv = "suspend"
    /\ \E ok \in BOOLEAN : EcSuspend(ok)
    /\ drv' = "flush"
    /\ drain' = Flushable
    /\ UNCHANGED <<held, serdev, open, ecState, lock, debugVars, handlers, run>>

\* Handlers and state are reset, then the second flush begins.
RemoveFlushed ==
    /\ drv = "flush"
    /\ drain = {}
    /\ handlers' = {}
    /\ ecState' = "UNINITIALIZED"
    /\ serdev' = FALSE
    /\ drv' = "reflush"
    /\ drain' = Flushable
    /\ UNCHANGED <<held, open, lock, debugVars, run, power>>

\* The device is closed and everything freed.
RemoveClose ==
    /\ drv = "reflush"
    /\ drain = {}
    /\ open' = FALSE
    /\ held' = 0
    /\ lock' = "free"
    /\ drv' = "unbound"
    /\ UNCHANGED <<serdev, ecState, debugVars, eventVars, power>>

-----------------------------------------------------------------------------
(* surface_sam_ssh_suspend and surface_sam_ssh_resume *)

\* Threads of user space are frozen, none of them in the middle of a write.
Suspend ==
    /\ drv = "bound"
    /\ debug = "idle"
    /\ Acquirable
    /\ Take("driver")
    /\ drv' = "suspending"
    /\ UNCHANGED <<held, serdev, open, ecState, debugVars, eventVars, power>>

\* Bug: the state is set only when the request succeeds.
SuspendDoneIfOk(ok) ==
    /\ drv = "suspending"
    /\ ecState' = IF ok THEN "SUSPENDED" ELSE ecState
    /\ EcSuspend(ok)
    /\ lock' = "free"
    /\ drv' = IF ok THEN "asleep" ELSE "bound"
    /\ UNCHANGED <<held, serdev, open, debugVars, eventVars>>

\* The state is SUSPENDED whether or not the request was answered.  The kernel
\* gives up on a suspend that fails, and does not call resume for this device.
SuspendDone(ok) ==
    /\ drv = "suspending"
    /\ ecState' = "SUSPENDED"
    /\ EcSuspend(ok)
    /\ lock' = "free"
    /\ drv' = IF ok THEN "asleep" ELSE "bound"
    /\ UNCHANGED <<held, serdev, open, debugVars, eventVars>>

Resume ==
    /\ drv = "asleep"
    /\ Acquirable
    /\ Take("driver")
    /\ ecState' = "INITIALIZED"
    /\ drv' = "resuming"
    /\ UNCHANGED <<held, serdev, open, debugVars, eventVars, power>>

\* A resume request that fails is only logged.
ResumeDone(ok) ==
    /\ drv = "resuming"
    /\ power' \in IF ok THEN {"awake"} ELSE {"awake", "stuck"}
    /\ lock' = "free"
    /\ drv' = "bound"
    /\ UNCHANGED <<held, serdev, open, ecState, debugVars, eventVars>>

-----------------------------------------------------------------------------
(* Requests of other threads.  One that is refused is no step for a user. *)

UserRqst ==
    /\ RqstAllowed
    /\ Take("user")
    /\ UNCHANGED <<probeVars, ecState, debugVars, eventVars, power>>

UserDone ==
    /\ Release("user")
    /\ UNCHANGED <<probeVars, ecState, debugVars, eventVars, power>>

\* rqst_write: the attribute cannot go away while a write is in progress.
DebugEnter ==
    /\ attr
    /\ debug = "idle"
    /\ drv \notin {"suspending", "asleep", "resuming"}
    /\ debug' = "writing"
    /\ UNCHANGED <<probeVars, ecState, lock, attr, eventVars, power>>

DebugRqst ==
    /\ debug = "writing"
    /\ RqstAllowed
    /\ Take("debug")
    /\ UNCHANGED <<probeVars, ecState, debugVars, eventVars, power>>

DebugRefused ==
    /\ debug = "writing"
    /\ RqstRefused
    /\ debug' = "idle"
    /\ UNCHANGED <<probeVars, ecState, lock, attr, eventVars, power>>

DebugDone ==
    /\ Release("debug")
    /\ debug' = "idle"
    /\ UNCHANGED <<probeVars, ecState, attr, eventVars, power>>

-----------------------------------------------------------------------------
(* Handlers.  An event may come from a source that an earlier life of the   *)
(* driver has left enabled.                                                 *)

RunHandler(e) ==
    /\ open
    /\ e \in handlers
    /\ run[e] = "idle"
    /\ Cardinality(Running) < NumWorkers
    /\ run' = [run EXCEPT ![e] = "running"]
    /\ UNCHANGED <<probeVars, ecState, lock, debugVars, handlers, drain, power>>

\* A handler returns, or its request is refused.
Returned(e) ==
    /\ run' = [run EXCEPT ![e] = "idle"]
    /\ drain' = drain \ {e}

HandlerReturns(e) ==
    /\ run[e] = "running"
    /\ e \notin Requesting \/ RqstRefused
    /\ Returned(e)
    /\ UNCHANGED <<probeVars, ecState, lock, debugVars, handlers, power>>

HandlerRqst(e) ==
    /\ run[e] = "running"
    /\ e \in Requesting
    /\ RqstAllowed
    /\ Take("worker")
    /\ run' = [run EXCEPT ![e] = "request"]
    /\ UNCHANGED <<probeVars, ecState, debugVars, handlers, drain, power>>

HandlerDone(e) ==
    /\ run[e] = "request"
    /\ Release("worker")
    /\ Returned(e)
    /\ UNCHANGED <<probeVars, ecState, debugVars, handlers, power>>

-----------------------------------------------------------------------------
(* What client drivers call, as parts of their actions *)

\* surface_sam_ssh_set_delayed_event_handler
SetHandler(e) ==
    /\ Acquirable
    /\ handlers' = handlers \union {e}
    /\ UNCHANGED <<probeVars, ecState, lock, debugVars, run, drain, power>>

\* surface_sam_ssh_remove_event_handler up to the release of the lock.
RemoveHandler(e) ==
    /\ Acquirable
    /\ handlers' = handlers \ {e}
    /\ UNCHANGED <<probeVars, ecState, lock, debugVars, run, drain, power>>

\* The thread of a client sends a request.
ClientRqst ==
    /\ RqstAllowed
    /\ Take("client")
    /\ UNCHANGED <<probeVars, ecState, debugVars, eventVars, power>>

ClientDone ==
    /\ Release("client")
    /\ UNCHANGED <<probeVars, ecState, debugVars, eventVars, power>>

-----------------------------------------------------------------------------
Probing ==
    \/ ProbeAlloc \/ AllocFails \/ ProbeInit \/ ProbeOpen \/ ProbeSetup
    \/ ProbeResume \/ ProbeDone \/ ProbeFails \/ ProbeUndo

Removing ==
    \/ RemoveLock \/ UnregisterAttr \/ RemoveSuspend \/ RemoveFlushed \/ RemoveClose

PowerDone == \E ok \in BOOLEAN : SuspendDone(ok) \/ ResumeDone(ok)

User == UserRqst \/ UserDone

Debug == DebugRqst \/ DebugRefused \/ DebugDone

Handler(e) == HandlerReturns(e) \/ HandlerRqst(e) \/ HandlerDone(e)

-----------------------------------------------------------------------------
(* Properties *)

DriverTypeOK ==
    /\ drv \in DriverSteps
    /\ held \in 0..NumBuffers
    /\ ecState \in {"UNINITIALIZED", "INITIALIZED", "SUSPENDED"}
    /\ serdev \in BOOLEAN /\ open \in BOOLEAN /\ attr \in BOOLEAN
    /\ lock \in Holders
    /\ debug \in {"idle", "writing"}
    /\ handlers \subseteq Events
    /\ run \in [Events -> {"idle", "running", "request"}]
    /\ drain \subseteq Events
    /\ power \in {"awake", "asleep", "stuck"}

\* Somebody other than the driver itself sends a request.
ForeignRequest == lock \in {"user", "client", "worker", "debug"}

RequestInProgress ==
    ForeignRequest \/ drv \in {"resume", "suspend", "suspending", "resuming"}

\* A request is sent only over a serial device that is open and that ec->serdev
\* points to: probe, its failure and remove exclude it until they are done.
RequestOnOpenDevice == RequestInProgress => open /\ serdev

\* An EC that may have been sent to sleep is sent nothing until it is told to
\* wake up, also when its suspend request was not answered.
SleepingEcLeftAlone == power = "asleep" => ~ForeignRequest
=============================================================================
