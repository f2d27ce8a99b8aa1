----------------------------- MODULE SamModule -----------------------------
(***************************************************************************)
(* The kernel module surface_sam: its init and exit, the serial driver     *)
(* (SshDriver) and the client drivers that are bound to it and unbound     *)
(* from it at any time, in the order of their probe and remove functions   *)
(* and of the paths that unwind a probe that fails.                        *)
(*                                                                         *)
(* What a client sets up is a name in has[c], its device link apart.  The  *)
(* driver core, which is external, unbinds the consumers of the serial     *)
(* device before it calls remove, but not those that are linked while      *)
(* remove waits for ec->lock.                                              *)
(* Bound: one client at a time is bound or unbound.                        *)
(***************************************************************************)
EXTENDS SshDriver, Sequences

CONSTANTS
    Clients,    \* drivers that have a device in some machine
    Machines    \* which of the devices a machine has

ASSUME ModuleAssumption ==
    /\ Clients \subseteq {"san", "vhf", "dtx", "sid"}
    /\ \A m \in Machines : m \subseteq Clients

VARIABLES
    base,       \* init and exit of the module
    reg,        \* how many drivers are registered
    cli,        \* where each client is in probe and remove
    linked,     \* consumers of the serial device
    late,       \* those linked when remove had been called
    has,        \* what else each client has set up
    step,       \* how far the client that is bound or unbound is, from 1
    waits       \* handlers that its flush of queue_evt waits for

linkVars == <<linked, late>>
cliVars == <<cli, linkVars, has, step>>
modVars == <<base, reg, cliVars, waits>>
vars    == <<drvVars, modVars>>

-----------------------------------------------------------------------------
\* The order in which surface_sam_init registers the drivers.
Order == <<"ssh", "san", "vhf", "dtx", "sid">>

\* What the probe functions do, one step for each of their calls that can fail,
\* what the labels at their ends undo, and what the remove functions do.
\* san_consumers_link: an array, and links to the devices of batteries and the
\* like.
SanArray == <<"alloc", "consumers">>
SanLinks == <<"alloc", "links">>

SanSetup ==
    << <<"link", "ec">>, <<"alloc", "drvdata">>, SanArray, SanLinks, <<"alloc", "region">>,
       <<"handler", "power">>, <<"handler", "thermal">>,
       <<"source", "power">>, <<"source", "thermal">> >>

SanUndo ==
    << <<"source", "power">>, <<"handler", "thermal">>, <<"flush", "thermal">>,
       <<"handler", "power">>, <<"flush", "power">>,
       <<"alloc", "region">>, SanLinks, SanArray, <<"alloc", "drvdata">>, <<"link", "ec">> >>

SanTeardown ==
    << <<"alloc", "region">>, <<"source", "thermal">>, <<"source", "power">>,
       <<"handler", "thermal">>, <<"flush", "thermal">>,
       <<"handler", "power">>, <<"flush", "power">>,
       SanLinks, SanArray, <<"alloc", "drvdata">>, <<"link", "ec">> >>

VhfSetup ==
    << <<"link", "ec">>, <<"alloc", "drvdata">>, <<"alloc", "hid">>,
       <<"handler", "vhf">>, <<"source", "vhf">> >>

VhfUndo ==
    << <<"handler", "vhf">>, <<"flush", "vhf">>, <<"alloc", "hid">>,
       <<"alloc", "drvdata">>, <<"link", "ec">> >>

VhfTeardown ==
    << <<"source", "vhf">>, <<"handler", "vhf">>, <<"flush", "vhf">>, <<"alloc", "hid">>,
       <<"alloc", "drvdata">>, <<"link", "ec">> >>

DtxSetup ==
    << <<"link", "ec">>, <<"query", "opmode">>, <<"alloc", "input">>,
       <<"alloc", "active">>, <<"alloc", "misc">>,
       <<"handler", "dtx">>, <<"source", "dtx">> >>

\* Nothing undoes the mark that the device is active.
DtxUndo ==
    << <<"handler", "dtx">>, <<"flush", "dtx">>, <<"alloc", "misc">>,
       <<"alloc", "input">>, <<"link", "ec">> >>

DtxTeardown ==
    << <<"alloc", "active">>, <<"source", "dtx">>, <<"handler", "dtx">>, <<"flush", "dtx">>,
       <<"alloc", "input">>, <<"alloc", "misc">>, <<"link", "ec">> >>

\* What wakes the machine when the lid is opened.
SidLid == <<"alloc", "lid">>

SidSetup == << <<"link", "ec">>, <<"mode", "perf">>, <<"alloc", "attr">>, SidLid >>

SidUndo == << <<"alloc", "attr">>, <<"mode", "perf">>, <<"link", "ec">> >>

SidTeardown == << <<"alloc", "attr">>, <<"mode", "perf">>, SidLid, <<"link", "ec">> >>

Setup == [san |-> SanSetup, vhf |-> VhfSetup, dtx |-> DtxSetup, sid |-> SidSetup]

Undo == [san |-> SanUndo, vhf |-> VhfUndo, dtx |-> DtxUndo, sid |-> SidUndo]

\* Where in Undo a probe function goes to when a step of it fails.
Label == [san |-> <<11, 10, 9, 9, 7, 6, 4, 2, 1>>, vhf |-> <<6, 5, 4, 3, 1>>,
          dtx |-> <<6, 5, 5, 4, 4, 3, 1>>, sid |-> <<4, 3, 2, 1>>]

\* What a step that fails loses: SAN returns without the array of links, and DTX,
\* which is active already, unregisters the input device of an earlier probe in
\* place of its own.
Loses == [links |-> "consumers", active |-> "input"]

Teardown == [san |-> SanTeardown, vhf |-> VhfTeardown,
             dtx |-> DtxTeardown, sid |-> SidTeardown]

Owner == [power |-> "san", thermal |-> "san", vhf |-> "vhf", dtx |-> "dtx"]

ASSUME EventsAssumption ==
    /\ Events \subseteq DOMAIN Owner
    /\ \A e \in DOMAIN Owner : Owner[e] \in Clients => e \in Events

\* What the handlers make use of.
Needs == [power |-> {}, thermal |-> {}, vhf |-> {"drvdata", "hid"},
          dtx |-> {"input"}]

Init ==
    /\ DriverInit
    /\ base = "out"
    /\ reg = 0
    /\ \E m \in Machines : cli = [c \in Clients |-> IF c \in m THEN "unbound" ELSE "absent"]
    /\ linked = {}
    /\ late = {}
    /\ has = [c \in Clients |-> {}]
    /\ step = 0
    /\ waits = {}

-----------------------------------------------------------------------------
(* surface_sam_init and surface_sam_exit *)

\* The mark that DTX is active is in the memory of the module.
Load ==
    /\ base = "out"
    /\ base' = "loading"
    /\ has' = [c \in Clients |-> has[c] \ {"active"}]
    /\ UNCHANGED <<drvVars, reg, cli, linkVars, step, waits>>

Register ==
    /\ base = "loading"
    /\ reg' = reg + 1
    /\ base' = IF reg' = Len(Order) THEN "loaded" ELSE "loading"
    /\ UNCHANGED <<drvVars, cliVars, waits>>

\* The labels of init unregister what was registered, in the order of exit.
RegisterFails ==
    /\ base = "loading"
    /\ base' = IF reg = 0 THEN "out" ELSE "leaving"
    /\ UNCHANGED <<drvVars, reg, cliVars, waits>>

\* The thread that unloads the module is not frozen halfway.
Exit ==
    /\ base = "loaded"
    /\ drv \notin {"suspending", "asleep", "resuming"}
    /\ base' = "leaving"
    /\ UNCHANGED <<drvVars, reg, cliVars, waits>>

\* What is unregistered at the moment, and what may still be bound.
Leaving(d) == base = "leaving" /\ Order[reg] = d
Registered(d) == (\E i \in 1..reg : Order[i] = d) /\ ~Leaving(d)

\* The driver has let go of its device.
Unregister ==
    /\ base = "leaving"
    /\ IF reg = 1 THEN drv = "unbound"
       ELSE Order[reg] \in Clients => cli[Order[reg]] \in {"absent", "unbound"}
    /\ reg' = reg - 1
    /\ base' = IF reg' = 0 THEN "out" ELSE "leaving"
    /\ UNCHANGED <<drvVars, cliVars, waits>>

-----------------------------------------------------------------------------
(* What the driver core does with the serial driver *)

Moving == {c \in Clients : cli[c] \notin {"absent", "unbound", "bound"}}

BindSerial == Registered("ssh") /\ ProbeBegin /\ UNCHANGED modVars

UnbindSerial == UnbindBegin /\ UNCHANGED modVars

\* remove is called when no consumer is left, in its probe or bound.  One that is
\* linked from now on is not looked for, and may or may not be the next time.
CallRemove == linked \subseteq late /\ RemoveBegin /\ UNCHANGED modVars

RemoveSerial == RemoveLock /\ UNCHANGED modVars

SuspendSerial == base = "loaded" /\ Moving = {} /\ Suspend /\ UNCHANGED modVars

Awake == drv \notin {"suspending", "asleep", "resuming"}

-----------------------------------------------------------------------------
(* Probe functions of the clients *)

Path(c) ==
    CASE cli[c] = "probing" -> Setup[c]
      [] cli[c] = "undoing" -> Undo[c]
      [] OTHER -> Teardown[c]

\* The one that moves, at a step of some kind.
At(c, kind) == Moving = {c} /\ Path(c)[step][1] = kind

What(c) == Path(c)[step][2]

Probes(c, kind) == cli[c] = "probing" /\ At(c, kind)

Bind(c) ==
    /\ Registered(c)
    /\ Moving = {}
    /\ cli[c] = "unbound"
    /\ Awake
    /\ cli' = [cli EXCEPT ![c] = "probing"]
    /\ step' = 1
    /\ UNCHANGED <<drvVars, base, reg, linkVars, has, waits>>

\* The step is done and the next one is due.
StepDone(c) ==
    /\ linked' = IF At(c, "link") THEN linked \union {c} ELSE linked
    /\ late' = IF At(c, "link") /\ drv = "removing" THEN late \union {c} ELSE late
    /\ has' = [has EXCEPT ![c] = IF At(c, "alloc") THEN @ \union {What(c)} ELSE @]
    /\ IF step = Len(Setup[c])
       THEN cli' = [cli EXCEPT ![c] = "bound"] /\ step' = 0
       ELSE step' = step + 1 /\ UNCHANGED cli

\* Bug: unwinding starts one label too early.
UnwindEarly(c) == IF Label[c][step] > 1 THEN Label[c][step] - 1 ELSE Label[c][step]

\* Bug: unwinding starts one label too late.
UnwindLate(c) ==
    LET next == Label[c][step] + 1
    IN IF next < Len(Undo[c]) THEN next ELSE Label[c][step]

Unwind(c) == Label[c][step]

ProbeFailed(c) ==
    /\ IF Unwind(c) \in 1..Len(Undo[c])
       THEN cli' = [cli EXCEPT ![c] = "undoing"] /\ step' = Unwind(c)
       ELSE cli' = [cli EXCEPT ![c] = "unbound"] /\ step' = 0
    /\ has' = [has EXCEPT ![c] = IF At(c, "alloc") /\ What(c) \in DOMAIN Loses
                                 THEN (@ \ {Loses[What(c)]}) \union {"lost"} ELSE @]
    /\ UNCHANGED linkVars

\* Bug: the state of the EC is not looked at.
LinkUnchecked(c) ==
    /\ Probes(c, "link")
    /\ lock = "free"
    /\ StepDone(c)
    /\ UNCHANGED <<drvVars, base, reg, waits>>

\* surface_sam_ssh_consumer_register
Link(c) ==
    /\ Probes(c, "link")
    /\ Acquirable
    /\ StepDone(c)
    /\ UNCHANGED <<drvVars, base, reg, waits>>

\* The probe is deferred.
LinkDeferred(c) ==
    /\ Probes(c, "link")
    /\ lock = "free"
    /\ ecState = "UNINITIALIZED"
    /\ ProbeFailed(c)
    /\ UNCHANGED <<drvVars, base, reg, waits>>

\* Without a device link -EFAULT is returned, and the lock kept.
LinkFails(c) ==
    /\ Probes(c, "link")
    /\ Acquirable
    /\ Take("lost")
    /\ ProbeFailed(c)
    /\ UNCHANGED <<probeVars, ecState, debugVars, eventVars, power, base, reg, waits>>

Alloc(c) ==
    /\ Probes(c, "alloc")
    /\ What(c) = "active" => "active" \notin has[c]
    /\ StepDone(c)
    /\ UNCHANGED <<drvVars, base, reg, waits>>

\* Memory, or a DTX device that is active already.
AllocRefused(c) ==
    /\ Probes(c, "alloc")
    /\ What(c) = "active" => "active" \in has[c]
    /\ ProbeFailed(c)
    /\ UNCHANGED <<drvVars, base, reg, waits>>

Handle(c) ==
    /\ Probes(c, "handler")
    /\ SetHandler(What(c))
    /\ StepDone(c)
    /\ UNCHANGED <<base, reg, waits>>

\* -ENXIO, for a client that is linked late
HandleRefused(c) ==
    /\ Probes(c, "handler")
    /\ lock = "free"
    /\ ecState = "UNINITIALIZED"
    /\ ProbeFailed(c)
    /\ UNCHANGED <<drvVars, base, reg, waits>>

-----------------------------------------------------------------------------
(* Requests of probe and remove functions: event sources, modes *)

AtRequest(c) == At(c, "source") \/ At(c, "query") \/ At(c, "mode")

Request(c) ==
    /\ AtRequest(c)
    /\ ClientRqst
    /\ UNCHANGED modVars

\* The parameter of the module may ask for no request, or for none at the exit.
RequestSkipped(c) ==
    /\ At(c, "mode")
    /\ lock # "client"
    /\ IF cli[c] = "probing" THEN StepDone(c)
       ELSE step' = step + 1 /\ UNCHANGED <<cli, linkVars, has>>
    /\ UNCHANGED <<drvVars, base, reg, waits>>

\* Only a probe function cares whether it succeeded.
Requested(c, ok) ==
    IF cli[c] = "probing" THEN IF ok THEN StepDone(c) ELSE ProbeFailed(c)
    ELSE step' = step + 1 /\ UNCHANGED <<cli, linkVars, has>>

RequestDone(c, ok) ==
    /\ AtRequest(c)
    /\ ClientDone
    /\ Requested(c, ok)
    /\ UNCHANGED <<base, reg, waits>>

RequestRefused(c) ==
    /\ AtRequest(c)
    /\ RqstRefused
    /\ Requested(c, FALSE)
    /\ UNCHANGED <<drvVars, base, reg, waits>>

-----------------------------------------------------------------------------
(* Remove functions, and the unwinding of probe functions that failed *)

Undoes(c, kind) == cli[c] \in {"undoing", "leaving"} /\ At(c, kind)

\* Any client may be unbound.  The one whose driver is unregistered, and the
\* consumers of a serial device that is about to go, must be.
MustUnbind(c) == Leaving(c) \/ (drv = "unbinding" /\ c \in linked \ late)

Unbind(c) ==
    /\ Moving = {}
    /\ cli[c] = "bound"
    /\ Awake
    /\ cli' = [cli EXCEPT ![c] = "leaving"]
    /\ step' = 1
    /\ UNCHANGED <<drvVars, base, reg, linkVars, has, waits>>

Free(c) ==
    /\ Undoes(c, "alloc")
    /\ has' = [has EXCEPT ![c] = @ \ {What(c)}]
    /\ step' = step + 1
    /\ UNCHANGED <<drvVars, base, reg, cli, linkVars, waits>>

\* Bug: the handler is removed, but not waited for.
RemoveOnly(c) ==
    /\ Undoes(c, "handler")
    /\ RemoveHandler(What(c))
    /\ step' = step + 1
    /\ UNCHANGED <<base, reg, cli, linkVars, has, waits>>

\* surface_sam_ssh_remove_event_handler
RemoveAndFlush(c) ==
    /\ Undoes(c, "handler")
    /\ RemoveHandler(What(c))
    /\ waits' = Flushable
    /\ step' = step + 1
    /\ UNCHANGED <<base, reg, cli, linkVars, has>>

\* -ENXIO, and no flush: the driver has gone, and its handlers with it.
RemoveRefused(c) ==
    /\ Undoes(c, "handler")
    /\ lock = "free"
    /\ ecState = "UNINITIALIZED"
    /\ step' = step + 1
    /\ UNCHANGED <<drvVars, base, reg, cli, linkVars, has, waits>>

Flushed(c) ==
    /\ Undoes(c, "flush")
    /\ waits = {}
    /\ step' = step + 1
    /\ UNCHANGED <<drvVars, base, reg, cli, linkVars, has, waits>>

\* The driver core drops the device link when the driver has let go.
Unlink(c) ==
    /\ Undoes(c, "link")
    /\ linked' = linked \ {c}
    /\ late' = late \ {c}
    /\ step' = 0
    /\ cli' = [cli EXCEPT ![c] = "unbound"]
    /\ UNCHANGED <<drvVars, base, reg, has, waits>>

Move(c) ==
    \/ Link(c) \/ LinkDeferred(c) \/ LinkFails(c) \/ Alloc(c) \/ AllocRefused(c)
    \/ Handle(c) \/ HandleRefused(c) \/ Request(c) \/ RequestSkipped(c)
    \/ \E ok \in BOOLEAN : RequestDone(c, ok)
    \/ RequestRefused(c)
    \/ Free(c) \/ RemoveAndFlush(c) \/ RemoveRefused(c) \/ Flushed(c) \/ Unlink(c)

-----------------------------------------------------------------------------
(* Handlers return to both kinds of flush *)

RunClientHandler(e) == RunHandler(e) /\ UNCHANGED modVars

HandlerMoves(e) ==
    /\ Handler(e)
    /\ waits' = IF run'[e] = "idle" THEN waits \ {e} ELSE waits
    /\ UNCHANGED <<base, reg, cliVars>>

-----------------------------------------------------------------------------
Base == Load \/ Register \/ RegisterFails \/ Exit \/ Unregister

\* Steps of the driver and of other threads that leave the clients alone.
Within == (Probing \/ UnregisterAttr \/ RemoveSuspend \/ RemoveFlushed \/ RemoveClose
           \/ PowerDone \/ Resume \/ User \/ DebugEnter \/ Debug) /\ UNCHANGED modVars

Next ==
    \/ Base
    \/ BindSerial \/ UnbindSerial \/ CallRemove \/ RemoveSerial \/ SuspendSerial
    \/ Within
    \/ \E c \in Clients : Bind(c) \/ Unbind(c) \/ Move(c)
    \/ \E e \in Events : RunClientHandler(e) \/ HandlerMoves(e)

Spec == Init /\ [][Next]_vars

-----------------------------------------------------------------------------
(* Threads go on, requests end, and a mutex is handed to those that wait for *)
(* it: strong fairness of whoever takes it.                                  *)

DriverGoesOn ==
    \/ CallRemove
    \/ (Probing \/ UnregisterAttr \/ RemoveSuspend \/ RemoveFlushed \/ RemoveClose \/ PowerDone)
        /\ UNCHANGED modVars

Fairness ==
    /\ WF_vars(DriverGoesOn)
    /\ SF_vars(ProbeInit /\ UNCHANGED modVars)
    /\ WF_vars(UserDone /\ UNCHANGED modVars)
    /\ WF_vars(DebugDone /\ UNCHANGED modVars)
    /\ SF_vars(RemoveSerial)
    /\ SF_vars(base = "leaving" /\ UnbindSerial)
    /\ \A c \in Clients : SF_vars(MustUnbind(c) /\ Unbind(c))
    /\ SF_vars(\E c \in Clients : Move(c))
    /\ \A e \in Events : SF_vars(HandlerMoves(e))
    /\ WF_vars(Unregister)

FairSpec == Spec /\ Fairness

-----------------------------------------------------------------------------
(* Properties *)

Resources == {"drvdata", "consumers", "links", "region", "hid", "input", "active", "misc",
              "attr", "lid", "lost"}

TypeOK ==
    /\ DriverTypeOK
    /\ base \in {"out", "loading", "loaded", "leaving"}
    /\ reg \in 0..Len(Order)
    /\ cli \in [Clients -> {"absent", "unbound", "probing", "bound", "undoing", "leaving"}]
    /\ linked \subseteq Clients
    /\ late \subseteq linked
    /\ has \in [Clients -> SUBSET Resources]
    /\ \A c, d \in Moving : c = d
    /\ \A c \in Moving : step \in 1..Len(Path(c))
    /\ waits \subseteq Events

\* No handler that a worker runs finds what it works with gone: the client is
\* still linked, and has not freed it.  Those that run in the receive callback
\* are not waited for.
HandlerFindsItsData ==
    \A e \in Events \ Immediate :
        run[e] # "idle" => Owner[e] \in linked /\ Needs[e] \subseteq has[Owner[e]]

\* What is unbound has left nothing behind, whether its remove function ran or
\* its probe failed at any step: no link, no handler, nothing allocated, the
\* serial device closed, ec->lock given back.  But for three things that the code
\* leaves: SAN's array when it could not link its devices, the mark that DTX is
\* active when its probe failed late, and the input device of every probe of DTX
\* that is refused for it.
UnboundLeavesNothing ==
    /\ \A c \in Clients : cli[c] = "unbound" =>
        /\ c \notin linked
        /\ has[c] \subseteq CASE c = "dtx" -> {"active", "lost"}
                             [] c = "san" -> {"lost"}
                             [] OTHER -> {}
        /\ \A e \in handlers : Owner[e] # c
    /\ drv = "unbound" =>
        /\ held = 0 /\ ~open /\ ~attr /\ lock # "driver"
        /\ ecState = "UNINITIALIZED"

\* A probe of DTX that was refused, because the device is active already.
RefusedDtx(c) == c = "dtx" /\ cli[c] = "undoing" /\ {"active", "lost"} \subseteq has[c]

\* What a client is about to free it has, so that nothing is freed twice: but for
\* the input device that a refused probe of DTX unregisters, which is that of a
\* probe that failed before and has unregistered it.
FreedOnce ==
    \A c \in Clients : Undoes(c, "alloc") =>
        What(c) \in has[c] \/ (RefusedDtx(c) /\ What(c) = "input")

\* A client that is linked, in whatever step of probe or remove it is, has a
\* driver that is initialized with all its buffers, unless it was linked while
\* remove was waiting for the lock.
LinkedDriverStays ==
    linked \ late # {} => ecState # "UNINITIALIZED" /\ held = NumBuffers /\ open

\* "This makes sure we do not fail any initial requests" (surface_sam_san.c:612-615):
\* no probe function of a client that got past its first step meets a driver that
\* is not set up.  This does not hold for late ones, and no run claims it
\* (README.md, section 5).
InitialRequestsServed ==
    \A c \in linked : cli[c] = "probing" => ecState # "UNINITIALIZED"

\* remove, which holds the lock, flushes a handler that waits for it.
FlushStuck == drv \in {"flush", "reflush"} /\ drain \intersect Requesting # {}

\* Unloading the module ends, or hangs in one of three places: the lock was lost
\* by consumer_register, or remove holds it and waits for a thread that waits for
\* it, a write to the debug attribute or the handler of a client linked late.
ExitEndsOrStuck ==
    base = "leaving" ~> \/ base = "out"
                        \/ lock = "lost"
                        \/ drv = "unregister" /\ debug = "writing"
                        \/ FlushStuck
=============================================================================
