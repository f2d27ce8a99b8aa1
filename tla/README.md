# Surface System Aggregator drivers in TLA+

A verification project for the drivers in `src/module`: the kernel module
`surface_sam`, through which Linux talks to the embedded controller (EC) of
Microsoft Surface devices over a serial line, and the client drivers built on
it. The specifications are model-checked with TLC on small instances. Every
invariant the passing runs check, and both refinements, are proved with TLAPS as well,
for every value of the constants that the code allows; liveness is left to TLC.

## 1. The system

| Component | Source | State it keeps | Operations |
|---|---|---|---|
| Requests | `surface_sam_ssh.c` 222-281, 460-730 | `ec->lock`, `counter` (SEQ, RQID), write buffer, `receiver.state/expect/signal/fifo` | `surface_sam_ssh_rqst`, `surface_sam_ssh_rqst_unlocked` |
| Receiver | `surface_sam_ssh.c` 973-1219 | `receiver.eval_buf` | `ssh_receive_buf` and the functions it calls |
| Events | `surface_sam_ssh.c` 394-457, 810-971 | handler table, `queue_ack`, `queue_evt`, one `ssh_event_work` for each event | `ssh_handle_event`, the two work handlers, `set_delayed_event_handler`, `remove_event_handler` |
| Serial driver | `surface_sam_ssh.c` 227-271, 1222-1579 | `ec->state`, `ec->serdev`, device links | probe, remove, suspend, resume, `consumer_register` |
| Event sources | `surface_sam_ssh.c` 283-392 | in the EC | enable, disable: one request each |
| Debug interface | `surface_sam_ssh_sysfs.c` | static payload and result buffers | read and write of one binary attribute |
| DTX (clipboard) | `surface_sam_dtx.c` | list of open files, a ring buffer for each, wait queue, `active` | open, release, read, poll, ioctl; `push_event`; probe, remove |
| SAN (ACPI notify) | `surface_sam_san.c` | operation region, device links | `san_rqst` with retries; power and thermal events; probe, remove |
| SID | `surface_sam_sid.c` | performance mode parameters; lid GPE | attribute read and write; probe, remove, suspend, resume |
| VHF (keyboard) | `surface_sam_vhf.c` | HID device | event handler; probe, remove |
| Base | `surface_sam_base.c` | which drivers are registered | init, exit |

How they interact:

- *Requests and receive callback.* The caller of a request holds `ec->lock`, writes a command and waits; `ssh_receive_buf`, called by the tty layer at any time, validates frames, puts those that are expected into the fifo and completes `receiver.signal`. They share the receiver under `receiver.lock`, but the fifo is read without it.
- *Receive callback and event queues.* A command frame whose id is that of an event becomes an `ssh_event_work` with two references. The thread of `queue_ack` acknowledges it; a worker of `queue_evt`, a timer first or the callback itself, calls the handler of the client.
- *Clients.* SAN, VHF, DTX and SID send requests, set a handler, and are linked to the serial device so that they are unbound before it is. Handlers of events send requests in turn, from the workers.
- *User space.* Reads of `/dev/surface_dtx` take what the workers push; its ioctls are requests.

What is hard about it: late answers that match a later request; a bounded fifo
and eval buffer; memory with two users; handlers that run in a worker, behind a
timer or in the callback while their client is removed; flushing queues that go
on filling; a list walked under RCU while files come and go; and a driver that
may be bound again while files of its earlier life are open. `PROJECT.json`
lists these hazards line by line, each with the properties that cover it or the
reason why none does.

For each component, what makes it correct:

- Requests: a request that returns 0 was received by the EC and returns the answer to itself; every completion has a packet; what is left from one request does not reach the next; every request returns.
- Receiver: only intact messages are handled, in order and once; damage stays with the damaged message where the checksums allow it; the eval buffer never fills for good.
- Events: memory is freed once and after its last use; no handler outlives its client; after the device is closed nothing is acknowledged or handled; removals end.
- Serial driver and module: no request on a device that is gone or to an EC that sleeps; every failing path of every probe leaves what was there before; a linked client has a driver; unloading ends.
- DTX: every open file gets every event or the latest ones; no client is written to after it was freed; a reader with something to return is woken; no command after removal.
- SAN, SID, DTX as callers of requests: what the firmware, the files and the input switch are told is so, whatever happens to the calls; after every change of the base its mode is reported; once SID is gone nothing new changes the performance mode.

## 2. The modules

| Module | Models | Kind |
|---|---|---|
| `SamCommand` | what `surface_sam_ssh_rqst` promises a caller, without a line | abstract specification |
| `SshRequest` | a request with the receive callback, the line and the EC | refines `SamCommand` |
| `SshRequestTries` | `SshRequest` with a count of the tries that the host itself has spoilt | history |
| `SshRequestProofs`, `SshRequestTriesProofs` | theorems about `SshRequest` and `SshRequestTries` | proofs |
| `SshRequestRefinement` | that `SshRequest` implements `SamCommand` | proofs |
| `SshReceiver` | reassembly and validation of messages | |
| `SshReceiverProofs` | theorems about `SshReceiver` | proofs |
| `SshEvents` | events, clients, removal of the serial driver | |
| `SshEventsProofs` | theorems about `SshEvents` | proofs |
| `SshDriver` | `ec->lock` and who takes it; probe, remove, suspend, resume of the serial driver | extended by `SamModule` |
| `SamModule` | the module's init and exit, the client drivers' probe and remove | composition |
| `SamModuleProofs` | theorems about `SamModule` | proofs |
| `SamCalls` | `surface_sam_ssh_rqst` for several callers, and the EC's modes | extends `SamCommand` |
| `SanRequest`, `SidPerfMode`, `DtxMode` | firmware requests, the performance mode, the device mode | extend `SamCalls` |
| `SamCallers` | the three on one EC | composition |
| `MCSamCallers` | `SamCallers` with symmetry | model checking |
| `SamCallersProofs` | theorems about `SamCallers` | proofs |
| `DtxQueues` | what the buffers of `/dev/surface_dtx` promise | abstract specification |
| `DtxClients` | `/dev/surface_dtx` | refines `DtxQueues` |
| `DtxClientsProofs` | theorems about `DtxClients`, and that it implements `DtxQueues` | proofs |

An operator introduced by a comment that begins with "Bug" is not part of a
specification: it is what a definition below it would be if the code had a
plausible fault, and `PROJECT.json` ("mutants") says which property then fails.

### SshRequest

`pc` is where the caller stands in `surface_sam_ssh_rqst_unlocked`: `send` is
the head of the retry loop, `wait` and `rsp` the two waits for a completion,
`ack` the ACK of the response, `out` the label. Actions of the caller are the
stretches between two points where the callback can get in; those of the
callback (`RcvInvalid`, `RcvCtrl`, `RcvCmd`) are its critical section for one
frame; those of the EC are external and say what the code relies on: it
acknowledges a command, owes a response when one is asked for, repeats it
until it is acknowledged, and may give up.

The fifo is a sequence of packets; `RspLen` is the room a response takes, in
control packets. A response too large for its caller stays in the code's fifo
as data behind its header; `ReceiverDiscard` empties the fifo right after, so
the model takes header and data together. Every frame carries the identity of
the request it stems from. No action reads it; it serves the properties alone.
Identities are recycled when no frame carries them, so that the model is finite
although requests go on for ever.

`ssh_receiver_restart` and `ssh_receiver_discard` empty the eval buffer. What
had come of a frame is then gone, and what comes of it later is no start of a
message, at which `ssh_eval_buf` discards all that is buffered. In `toHost` the rest of such a frame
is a `RestFrame` (`WithoutBeginning`: the first frame is cut, or was just about
to come, or nothing was in progress), and `RcvInvalid` discards it with any
number of whole frames behind it, the ACK of the request in progress among them.
It may leave a new rest, since the last one discarded may be cut as well. This
happens on every line; other invalid frames only on a lossy one.

`Quiet` says that no frame with the ids of a new request is around when it
starts. The code does not enforce it: the run `request_stale` shows what
happens otherwise. The properties that need it are those about identities; the
others are proved without it. `lossy` says which kind of line there is, chosen
once, in `Init`. On one that loses nothing the EC answers before the caller's
timeout, unless the answer was discarded with a rest.

`SshRequestTries` counts, in `spoilt`, the tries on a line that loses nothing whose
ACK was discarded like this. It is a history variable: no action of `SshRequest` depends on it.

`SamCommand` is the promise: one command at a time, executed at most as often
as copies of it exist, possibly *after* its call has failed, and truthful
results. `ImplementsCommand` is the step simulation; `CallsEnd` is the fairness
that `SamCommand` promises: calls end.

### SshReceiver

A byte is its position in the stream, so the eval buffer is the interval from
`lo` to `hi`. A message has a length and at most one defect, from the list of
things `ssh_eval_buf` and its callees test for, a missing byte and a lack of
room in the fifo; each is answered with the number of bytes the code returns.
That no payload looks like SYNC is an assumption, for the rest of a message cut
by `EmptyEvalBuf`, a request that resets the buffer, as for a damaged one: where
it does not hold, a part of a payload is evaluated as a message, and only its
checksums stand in the way. `Stuck` says that the buffer is full of a message
that is not complete, because it is longer than the buffer.

### SshEvents

`ack` and `evt` are the two work items of an event, `ref` its reference count,
`got` the handler that was looked up and is running. `FlushHandler` and the
flushes of the removal record the works in the queue at that moment (`pending`,
`drainAck`, `drainEvt`): `flush_workqueue` waits for those, not for later ones
nor for timers. The removal of the driver is one action for each step of
`surface_sam_ssh_remove` that others can observe. A client may be unbound at
any time; the driver only when its clients are, which is what the device links
ensure.

### DtxClients

The list has its `next` and `prev` pointers, since `INIT_LIST_HEAD` in probe and
`list_del_rcu` in release write to them separately. A worker stands on a node
(`at`) and goes from there, whatever has become of the list. `grace` is what
`synchronize_rcu` waits for. `waitq` is the wait queue; `ReadCheck` is
`wait_event_interruptible`'s check after it has enqueued itself. After a
connection event the worker pushes a second time, with the mode it has asked
for. `Rebind` allows the driver to be bound while files of its earlier life are
open. Each file has one reading thread. `Push` is the critical section under
`buffer_lock`; the unlocked look at the positions in `read` is a look at
consistent values, which an event being pushed can at most make out of date.

`DtxQueues` is the promise for each buffer: a queue that loses an event only
when the oldest makes room, of capacity `BufSize - 1`.

### SshDriver and SamModule

`drv` is where the thread stands that probes, removes, suspends or resumes the
serial driver, one step for each call that can fail or that others observe.
Unbinding has a step of its own before remove has the lock (`unbinding`, then
`removing`), as others may get it first. `lock` names the holder of `ec->lock`; every request is a step that takes it, in
a state that allows it, and one that gives it back. What happens on the line is
`SshRequest`, what becomes of one event `SshEvents`; here a handler is
`running`, waits for the lock, or is in its `request`. `power` is what the EC
may be: a suspend request that fails may have been carried out.

`SamModule` adds the driver core. `Setup`, `Undo` and `Teardown` are the probe
functions of the clients, what the labels at their ends undo, and the remove
functions, each a sequence of steps; `step` is where the client that moves is on
its path, and `Label` the position in `Undo` that a failing step of `Setup` goes
to. What is set up is in `has` and `linked`. `Loses` is what a failing step loses
for good: SAN its array of links when a consumer cannot be linked, DTX its input
device when it is active already, in whose place it then unregisters the one of
an earlier probe. Nothing but loading the module again undoes DTX's `active`.
`Machines` says which devices there are; a client that has none in the machine
is `absent`.

The driver core, which is external, unbinds the consumers of the serial device
and then calls its remove (`CallRemove`). A client that probes meanwhile may link
itself at any time until remove has got `ec->lock` and gone on: one that does so
before the call is unbound first, which is the documented promise of device links
and justifies the guard of `SshEvents` on its `RemoveDriver`; one that does so
after the call is in `late`, and stays linked to a driver that is gone. Its
requests are then refused, and so is the removal of its handlers. Whether the
core unbinds it the next time is left open. One client at a time is bound or
unbound, as by one thread at boot, at exit or over sysfs, and none begins while
the system sleeps.

### SamCalls, SanRequest, SidPerfMode, DtxMode, SamCallers

Here a request is what `SamCommand` promises, and `SshRequest` is shown to keep:
it may be executed several times, after it failed, or never; its answers come
from some execution. `what` is what each command asks for, so that a command
executed late has its effect late. `machine` says for which drivers there is a device, and which
CPUs there are: SID's performance mode and the clipboard are checked on machines of
their own.

`SanRequest` is the loop of tries with what others do in between. `seen`,
`carried` and `slept` are history for `FirmwareToldTruth`. `SidPerfMode` has the
two parameters, which user space may write at any time, so that probe may read
one twice and differently. `kept` and `overdue` are history: the mode when the
attribute went, and the modes of the stores that had failed by then and may still
be executed. `DtxMode` has a base that comes and goes, an EC that takes a while to
report it, and for each CPU a worker with a queue of its own, which waits, asks,
pushes and reports the switch in separate steps. An event is queued on any CPU. It
is marked as past when a later one comes (`Past`), and `reported` is what was pushed
since the last: both are history.

## 3. The runs

| Run | Instance | Shows |
|---|---|---|
| `request` | 2 identities, 3 tries, SEQ and ids modulo 2 and 4, fifo of 2, 2 frames in each direction; a line that loses frames, or one that does not | the safety invariants, the refinement of `SamCommand`, that every call ends; and on a line that loses nothing, that a try fails only if the host has discarded its ACK itself, and a request only if that befell every try: no earlier request, repeated response or full fifo gets in the way |
| `events` | 2 events, 2 ids of which one with delays, 2 workers | clients come and go under events |
| `events_remove` | 3 events, one id with immediate handling, 2 workers | the driver is removed and bound again under events |
| `receiver` | 2 messages of 18, 20 or 21 bytes, or 10, every pair of defects, chunks of 1, 7 or 20 bytes, one reset, eval buffer of 20 | reassembly, with messages shorter than the buffer, as long and longer |
| `dtx` | 2 files, 1 worker, buffers of 2 | the list, lifetimes, wake-ups, binding and unbinding |
| `dtx_queues` | 1 file, 2 workers, buffers of 4, reads of up to 2 | the refinement of `DtxQueues` |
| `module` | all 4 clients, SAN and VHF on one machine, DTX and SID on another, 4 events, 2 workers, 2 buffers | what every failing probe leaves behind, under suspend, requests, handlers and late links |
| `module_exit` | DTX or SID, 1 event | unloading ends, or hangs in one of three ways that are named |
| `callers` | 2 commands at a time, 2 modes of each kind, 2 tries, 1 connection event waiting on each CPU; SAN and DTX with 1 CPU, or DTX with 2, or SID | what SAN and SID tell their users is so, and after every change of the base its mode is pushed |
| `request_stale`, `events_immediate`, `events_timer` | | each a comment that the code contradicts, see section 5 |

Why the bounds are enough to be interesting. *request*: two requests are what
it takes for one to meet the leftovers of another; ids modulo 2 make them wrap
constantly; a fifo of two packets, one of them a response of length 2, makes
`FifoHasRoom` fail after RETRY frames; the line's room of two allows an answer
to be overtaken by a retry. *receiver*: the lengths are those of the code, with
an eval buffer that one message fills exactly, as `SSH_EVAL_BUF_LEN` is filled
by the longest command the driver writes, and that is too short for another, as
`SSH_EVAL_BUF_LEN` (263) is for the longest the EC may write (265); chunk sizes cut in the middle of
every field. *events*: two works are the least with which a flush can be
overtaken by a later event; three let one be in each queue and one in the
callback during removal. *dtx*: with two files one leaves the list while a
worker stands on it and the other is before or behind it; the order of events
in a buffer is left to *dtx_queues*, with three places and two workers.
*module*: every step of every probe fails with another client in every state. Each
machine has a client whose handler runs in a worker beside one that runs in the callback
or sends requests of its own; the
clients share nothing but the driver and its workers, so that other pairs do to
each other what these do. Two workers let both handlers of SAN run while it
goes; of the five allocations two behave like
any. *module_exit*: one client with a handler that sends requests and one whose
remove sends one. *callers*: with two commands one is in progress while a failed
one may still be executed; of two tries one is repeated; two CPUs, each with an event
at work and one waiting, let each of two answers be overtaken by the other, at the
query, the push and the switch.

Assumptions of runs that the code does not guarantee, each with what happens
without it: `Quiet` in *request* (run `request_stale`); no
immediate ids in *events* (run `events_immediate`); `Rebind = FALSE` in *dtx*
(section 5), so that `OpenFileServed` says nothing of files that outlive a binding;
and that no payload looks like SYNC in *receiver*. *callers* takes
`SamCommand`'s promise, which `SshRequest` keeps under `Quiet` only: what a late ACK of
another request, taken for one's own, would make the callers tell is not checked by
`FirmwareToldTruth` or anything else. In *module* the handlers of SAN use nothing but the link (`Needs`), so that
for them `HandlerFindsItsData` is about the link alone; that of VHF runs in the
receive callback and is excluded (run `events_immediate`).

Fairness. *SshRequestTries*: weak fairness of the caller only, whose waits have
timeouts; nothing is assumed of line or EC. `CallsEnd` is stated for a line that may
lose frames; it may also lose none, so that its behaviours include those of the other
kind. *SshEvents*: threads go on, timers
fire, handlers return; strong fairness of `StartEvent`, because a worker takes
works in turn and a work in the queue is reached; none of events, clients or
removals. *SshReceiver*: the tty layer offers again what was not taken.
*DtxClients*: kernel threads go on and RCU ends; nothing is assumed of user
space. *SamModule*: threads that hold the lock go on, since a request ends
(`CallsEnd`); whoever waits for the lock gets it if it is free
again and again, which is what a mutex with a queue of waiters does (strong
fairness of `ProbeInit`, `RemoveSerial`, the clients' steps and the handlers'
requests); unloading unbinds what it has to. Nothing is assumed of new requests,
events, loading, suspend or binding.

Deadlock is checked in `request`, `events` and
`events_remove`. The stream of `receiver` ends. In `dtx`, a probe that fails
after it has set `active` leaves the device so that no later probe succeeds and
nothing more happens. In `module`, a lock that is lost stops everything, as it
does in the code; `module_exit` says what else does. In `callers` a machine
without a base and with nothing to ask may rest.

`CallsEnd` in *request*, `ReaderWoken` in *dtx* and
`ExitEndsOrStuck` in *module_exit* are the liveness properties that hold only
because of details: the count of tries, the wake-up after `active` is reset, and
the order in which consumers and driver are unbound.

## 4. What is proved

Eight modules hold theorems: `SshRequestProofs`, `SshRequestTriesProofs`,
`SshRequestRefinement`, `SshReceiverProofs`, `SshEventsProofs`, `DtxClientsProofs`, `SamModuleProofs` and
`SamCallersProofs`. They start from the named assumptions on the constants
(`RequestAssumption`, `ReceiverAssumption`, `EventsAssumption`,
`ClientsAssumption`, `DriverAssumption`, `ModuleAssumption`, `CallsAssumption`,
`SanAssumption`, `DtxAssumption`), which say of which kind the constants are, that names
are distinct, and that a count or a size is not zero. A theorem that needs more
has it as its own hypothesis:

| Theorem | Hypothesis | Without it |
|---|---|---|
| `AcceptedCorrect`, `OutcomeCorrect`, `CommandImplemented` | `Quiet` | run `request_stale` |
| `ReliableCorrect` | `Quiet`, `FifoCap >= 1`, `WireCap >= 2` | a stale answer is taken for the ACK, or there is no room for the ACK and its answer |
| `HandlerDataCorrect` of `SshEventsProofs` | `Immediate = {}` | run `events_immediate` |
| `ClientAliveCorrect`, `ServedCorrect`, `QueuesImplemented` | `~Rebind` | section 5 |

Most of the properties are not inductive. What each proof adds to them is this.

**SshRequest.** `CompletionAssuresPacket` needs that completions and packets are equal in
number while a request is in progress (`FifoInv`), which needs that the fifo is
empty when it starts. `RspStageReadsResponse` needs the order of the packets:
RETRY frames, then one ACK, then one response, as far as the receiver's state
has got; only then is nothing but responses left when the caller has taken the
ACK. These conjuncts of `IInv` are proved in turn, each from the earlier ones:
types, `FifoInv`, `TakenInv` (an ACK is of a command the EC has received),
`MatchInv` (what the receiver would accept stems from the request in progress),
`OutcomeInv`. `NoEventCorrect` rests on arithmetic:
whatever the counter, the shifted id is a multiple of the number of event ids.
`ReliableLineSucceeds` needs to know where the exchange is (`ReliableInv`): no
RETRY frame is anywhere, and in `TryInv` the command is on its way to the EC, or its ACK
is on its way back, or was discarded and `spoilt` says so, or is in the fifo, with the
response owed as long as it is not acknowledged. So a try that times out has been
spoilt (`CountInv`).

**SamCommand.** `CommandImplemented` maps every step of `SshRequest` to a step of
`SamCommand` or to none. The EC taking a command off the line is `Execute`; the
loss of the last copy of one that was abandoned is `Expire`; the step with which
the caller gets to the label `out` is `Succeed` or `Fail`; everything else of a
call, and the receive callback, is none. `ReturnInv` says that a call which has not got to its end
has neither failed nor a result.

**SshReceiver.** `IInv` adds two facts to the properties. What was handled has
left the buffer (`BehindInv`); this gives order and uniqueness. With
limited damage the buffer starts where a message does or where the stream ends,
and every intact message before that place was handled (`FrontInv`): this is
where the number of bytes that each error path consumes matters. The place where a
message starts is a sum of lengths; that there is a function of such sums is
the one induction over data in the project (below).

**SshEvents.** `FreedCorrect`: the reference count equals the number of users
in every step, whichever of ACK and handling ends first. `HandlerDataCorrect`:
a handler which runs in a worker belongs to a client that is
bound, or is among the works its removal waits for (`HandlerInv`, which holds with
immediate ids as well). `SilentCorrect` follows how
far the removal has got: the state is reset before the second flush, so after
it no worker can be writing an ACK. That no event is left after it is not so (run
`events_timer`).

**DtxClients.** The list is treated without an order on it. `ListInv`: `next` and
`prev` are inverse to each other on it, and all open files are on it.
`WorkerInv`: the nodes a worker can get to from where it stands, those of the list
and those that left it while it was inside and whose release waits for it, are
closed under `next`; `GraceInv` says that a release waits for nobody else. A node that is
freed is waited for by none, so no worker gets to it. `QueuesImplemented` maps
a push into the buffer of one file to `Put`, the copy of an event in `read` to
`Get`, open and the end of a release to `Create` and `Drop`. It needs
`ClientAlive`, since a push into freed memory would be a push without a queue,
and lemmas about remainders: what the ring holds before and after each step, for
any size.

**SamModule.** `SleepCorrect` needs that
whoever got the lock for a request saw the state INITIALIZED (`RqstInv`) and that
the state changes under the lock only (`LockInv`: the steps in which the driver
holds it), so that an EC that may be asleep is never INITIALIZED while somebody
else has the lock (`SleepInv`); that probe's lock is not released before the EC
has answered is part of it. `RequestsCorrect` adds what the state says of the device
(`StateInv`, `OpenInv`, `HeldInv`). `LinkCorrect` needs that a client links
under the lock, in a state that a driver on its way out no longer has once it got the
lock, and that remove is called when only late consumers are left (`LinkInv`): a client
that links at any time before the call, while the driver core is unbinding already, is
among those that are safe. The proof has one lemma for each
group of actions, over three about steps that leave the driver alone, take the
lock for a request, and give it back.

`UnboundCorrect`, `FreedCorrect` and `HandlerDataCorrect` are about the paths of the
clients. `Done(c)` is what a client has done and not undone, read off its path and
`step`; `OwnInv` says that this is what it has, no less and no more, but for what was
lost and for the input device that a refused probe of DTX unregisters (`Missing`). Each of the steps is
compared with the path it is on: what is before a label of `Undo` was not done,
and `Teardown` undoes all of `Setup`, which is where a label in the wrong place or a
step that is forgotten would show. `RunInv` is the link to the handlers: one that runs in a
worker is still set or is flushed by the client that moves, which then has its
link and data, because the paths flush before they free. `QuietInv` is about the driver:
when it goes under a client that is linked late no handler is left, and remove waits
for those that run, so that the client may leave its flush out. `RegInv` says that no
client is bound while the module is out, so that loading it takes the mark of `active`
from no DTX that is in use.

**SamCallers.** `CmdInv` is the part of `SamCommand`'s promise that the callers
use: a call that succeeds was executed. `WhoInv` and `WhatInv` say that a call in
progress is that of exactly one thread, which waits for it, and what for; so an
answer goes to the one who asked. `FirmwareCorrect` then needs that
the EC has answered nothing but modes seen since the request began (`SanInv`),
`ExitModeCorrect` that what may still set the mode, but for the call in progress, is
among the stores that were overdue when the attribute went or is the request of the
exit (`LateInv`), that no file is in the attribute when the exit mode is set
(`AttrInv`), and how far the exit is (`KeptInv`). `ReportCorrect` holds for any number
of workers: before a base has settled, whoever has the event that announced it still
delays (`SettlingInv`); so what the worker with the latest event is told is the mode
at rest, or an error (`ToldInv`); and that event is queued or in hand until
the mode is reported (`LatestInv`).

Out of reach of the prover, and only model-checked: liveness (`CallsEnd`, `EventFreed`,
`ClientRemoved`, `DriverRemoved`, `StreamReadOrStuck`, `ReaderWoken`, `ExitEndsOrStuck`), which needs
ENABLED or well-founded arguments over behaviours. Induction over data is
possible to the extent that it is one on a set of numbers: `SshReceiverProofs` takes
the least of the counterexamples, which `WellFoundedInduction` provides. The
definitions of `SamModule` whose properties are proved use no recursion: the
paths are written out.

## 5. Where code and comments disagree

| Shown by | Says | Does |
|---|---|---|
| run `request_stale` | "check if it is for our request" (`surface_sam_ssh.c:1008`) | counters advance only on an ACK, so a request after a failed one has its ids, and takes its late ACK |
| run `events_immediate` | a handler "is guaranteed to be valid" (`surface_sam_ssh.c:898`) | the flush does not cover a handler in the receive callback, as VHF's is |
| run `events_timer` | "flushes all remaining events" (`surface_sam_ssh.c:1554`) | a delayed event, as SAN's are, is with its timer, not on the queue |
| `StreamRead` as a property of `receiver` | the length of the longest command "also works for reading" (`surface_sam_ssh.c:66`) | a response may be longer; the eval buffer is then full before it is complete, and no byte is taken any more |
| `InitialRequestsServed` as an invariant of `module` | "This makes sure we do not fail any initial requests" (`surface_sam_san.c:612-615`) | a client that gets the lock before remove does is linked to a driver that goes at once |
| `ExitModeSet` as an invariant of `callers` | the exit mode is "applied when it is unloaded", 0 "will keep the performance-state as-is" (`src/README.md:62-63`) | a store that failed is executed after the exit |
| `SwitchTold` as an invariant of `callers` | "SW_TABLET_MODE events upon device mode change" (`0003-platform-Add-gen5-MS-Surface-platform-support.patch:146-147`) | when the mode cannot be asked for, the switch says laptop mode |
| `SwitchOrdered` as an invariant of `callers` | the same | the answer of an older event, handled on another CPU, is set last |
| the invariant `\A w \in Works : ack[w] = "sending" => serdev` in the instance of `events_timer` with `Delayed = {}` | "not going to use the serial device any more" (`surface_sam_ssh.c:1545`) | the pointer is reset before the flush that comment is about |
| `OpenFileServed` in the instance of `dtx` with `Rebind = TRUE` | "Multiple clients may access this file" (`surface-dtx.txt:250`) | binding anew drops files that are still open from the list |

Unloading the module can hang. `ExitEndsOrStuck` names three ways, each of which the
run needs: without it `module_exit` ends there. A write to the debug attribute waits
for `ec->lock`, while remove, which holds it, waits for the write
(`surface_sam_ssh.c:1518`). The handler of a client that was linked late waits for the
lock, while remove waits for the handler (1528). And `consumer_register` keeps the lock
when no device link can be made (265).

Noticed on the way, without a run: the first request after loading, and one in
2048, has the id 0 that `surface_sam_ssh.c:80` calls invalid; `read` copies every event to the
start of the caller's memory (`surface_sam_dtx.c:252`); the numbers of the
ioctls to lock and unlock the latch are exchanged between
`surface_sam_dtx.c:29-30` and `surface-dtx.txt:265-269`.

## 6. Not modelled, and why

The settings of the serial line, DMA channels, the lid GPE, the HID and ACPI
notification callbacks, `poll` and `fasync` are calls of the kernel without a
state of their own; those that can fail are a step of their probe function. CRC,
framing and byte order are abstracted to whether a check succeeds. The bytes in
the buffers of the debug attribute and of firmware requests are left out: what
could go wrong with them is arithmetic on constants, or a race whose outcome
only their contents show. ETWL and RQSG requests of the firmware log and do
nothing else. A thread in the operation region while SAN is removed is not
modelled, since it depends on what ACPICA holds while it calls the handler. A client
that was linked late may flush `queue_evt` after remove has destroyed it; in the model
it waits for the handlers that were running, and what `flush_workqueue` does with a
queue that is gone is left out. The
kernel patches are copies of this code and changes of others. Data races on
`buffer_head` seen without a lock are taken for consistent values, see
DtxClients.

## 7. Plan

What is left, in this order:

1. The refinement of `SamCommand` without `Quiet`: a promise in which an answer may be to an earlier request, as `request_stale` shows it is.
2. A `SamCommand` that is extended in the same way, under the callers: what the firmware may then be told.
3. A second reading thread for each file in `DtxClients`, once it is clear what it should get.
