-------------------------- MODULE SamModuleProofs --------------------------
(***************************************************************************)
(* Proofs about the serial driver under the module: who may send a request *)
(* and when, what a device link guarantees, that no handler outlives the   *)
(* data of its client, what a client leaves behind and that it frees       *)
(* nothing twice, for any number of events, workers, buffers and clients.  *)
(***************************************************************************)
EXTENDS SamModule, TLAPS

\* Steps of probe, remove, suspend and resume in which the driver has ec->lock.
Locked == {"open", "setup", "resume", "attr", "unregister", "suspend", "flush",
           "reflush", "suspending", "resuming"}

\* Those in which there is no EC to speak to, and those with the device open.
Gone  == {"unbound", "alloc", "undo", "reflush"}
InUse == {"bound", "unbinding", "suspending", "asleep", "resuming"}
Open  == InUse \union {"removing", "setup", "resume", "attr", "unregister", "suspend", "flush"}

LockInv  == drv \in DriverSteps /\ (drv \in Locked <=> lock = "driver")
StateInv == /\ ecState \in {"UNINITIALIZED", "INITIALIZED", "SUSPENDED"}
            /\ drv \in Gone <=> ecState = "UNINITIALIZED"
OpenInv  == drv \in Open => open
HeldInv  == drv \in Open \union {"open"} => held = NumBuffers /\ serdev

\* A thread that got the lock for a request has seen the state INITIALIZED, and
\* the state changes under the lock only.
RqstInv == ForeignRequest => ecState = "INITIALIZED"

\* An EC that may be asleep is not INITIALIZED for anybody but the driver; when
\* probe has come to the attribute, the EC has answered.
SleepInv == power = "asleep" =>
                ecState # "INITIALIZED" \/ (lock = "driver" /\ drv # "attr")

\* Clients are linked to a driver that is bound, and none is while it goes but
\* those linked late.
LinkInv == linked \ late # {} => drv \in InUse

IInv == /\ LockInv /\ StateInv /\ OpenInv /\ HeldInv
        /\ RqstInv /\ SleepInv /\ LinkInv

\* What the invariant is about, the lock apart.
coreVars == <<probeVars, ecState, power, linkVars>>

Requesters == {"user", "client", "worker", "debug"}

-----------------------------------------------------------------------------
\* A step that changes nothing of what the invariant is about.
LEMMA NothingChanged ==
  ASSUME IInv, UNCHANGED <<coreVars, lock>>
  PROVE  IInv'
BY DEF IInv, LockInv, StateInv, OpenInv, HeldInv, RqstInv, SleepInv, LinkInv,
       ForeignRequest, coreVars, linkVars, probeVars

\* Somebody gets the lock, in a state that allows a request ...
LEMMA RequestTaken ==
  ASSUME IInv, NEW h \in Requesters, RqstAllowed, Take(h), UNCHANGED coreVars
  PROVE  IInv'
<1>1. ecState = "INITIALIZED"
  BY DEF RqstAllowed, Acquirable, IInv, StateInv
<1>2. QED
  BY <1>1 DEF IInv, LockInv, StateInv, OpenInv, HeldInv, RqstInv, SleepInv, LinkInv,
       ForeignRequest, coreVars, linkVars, probeVars, Requesters, RqstAllowed, Acquirable, Take

\* ... and gives it back.
LEMMA RequestReleased ==
  ASSUME IInv, NEW h \in Requesters, Release(h), UNCHANGED coreVars
  PROVE  IInv'
BY DEF IInv, LockInv, StateInv, OpenInv, HeldInv, RqstInv, SleepInv, LinkInv,
       ForeignRequest, coreVars, linkVars, probeVars, Requesters, Release

-----------------------------------------------------------------------------
(* The driver *)

\* Every step of probe, the failing ones included.
LEMMA ProbingKeepsInv ==
  ASSUME IInv, Probing, UNCHANGED modVars
  PROVE  IInv'
<1> USE DEF IInv, LockInv, StateInv, OpenInv, HeldInv, RqstInv, SleepInv, LinkInv
<1> USE DEF Locked, Gone, InUse, Open, DriverSteps, ForeignRequest
<1> USE DEF modVars, cliVars, linkVars
<1>1. CASE ProbeAlloc
  BY <1>1 DEF ProbeAlloc
<1>2. CASE AllocFails
  BY <1>2 DEF AllocFails
<1>3. CASE ProbeInit
  BY <1>3 DEF ProbeInit
<1>4. CASE ProbeOpen
  BY <1>4 DEF ProbeOpen
<1>5. CASE ProbeSetup
  BY <1>5 DEF ProbeSetup
<1>6. CASE ProbeResume
  BY <1>6 DEF ProbeResume, EcResume
<1>7. CASE ProbeDone
  BY <1>7 DEF ProbeDone
<1>8. CASE ProbeFails
  BY <1>8 DEF ProbeFails, EcResume
<1>9. CASE ProbeUndo
  BY <1>9 DEF ProbeUndo
<1>. QED
  BY <1>1, <1>2, <1>3, <1>4, <1>5, <1>6, <1>7, <1>8, <1>9 DEF Probing

\* Every step of remove after the first.
LEMMA RemovingKeepsInv ==
  ASSUME IInv, UnregisterAttr \/ RemoveSuspend \/ RemoveFlushed \/ RemoveClose,
         UNCHANGED modVars
  PROVE  IInv'
<1> USE DEF IInv, LockInv, StateInv, OpenInv, HeldInv, RqstInv, SleepInv, LinkInv
<1> USE DEF Locked, Gone, InUse, Open, DriverSteps, ForeignRequest
<1> USE DEF modVars, cliVars, linkVars
<1>1. CASE UnregisterAttr
  BY <1>1 DEF UnregisterAttr
<1>2. CASE RemoveSuspend
  BY <1>2 DEF RemoveSuspend, EcSuspend
<1>3. CASE RemoveFlushed
  BY <1>3 DEF RemoveFlushed
<1>4. CASE RemoveClose
  BY <1>4 DEF RemoveClose
<1>. QED
  BY <1>1, <1>2, <1>3, <1>4

\* The driver core calls probe, remove, suspend and resume.
LEMMA DriverCoreKeepsInv ==
  ASSUME IInv, BindSerial \/ UnbindSerial \/ CallRemove \/ RemoveSerial \/ SuspendSerial
           \/ ((PowerDone \/ Resume) /\ UNCHANGED modVars)
  PROVE  IInv'
<1> USE DEF IInv, LockInv, StateInv, OpenInv, HeldInv, RqstInv, SleepInv, LinkInv
<1> USE DEF Locked, Gone, InUse, Open, DriverSteps, ForeignRequest
<1> USE DEF modVars, cliVars, linkVars
<1>1. CASE BindSerial
  BY <1>1 DEF BindSerial, ProbeBegin
<1>2. CASE UnbindSerial
  BY <1>2 DEF UnbindSerial, UnbindBegin
<1>3. CASE RemoveSerial
  BY <1>3 DEF RemoveSerial, RemoveLock, Acquirable, Take
<1>4. CASE SuspendSerial
  BY <1>4 DEF SuspendSerial, Suspend, Acquirable, Take
<1>5. CASE (\E ok \in BOOLEAN : SuspendDone(ok)) /\ UNCHANGED modVars
  BY <1>5 DEF SuspendDone, EcSuspend
<1>6. CASE (\E ok \in BOOLEAN : ResumeDone(ok)) /\ UNCHANGED modVars
  BY <1>6 DEF ResumeDone
<1>7. CASE Resume /\ UNCHANGED modVars
  BY <1>7 DEF Resume, Acquirable, Take
<1>8. CASE CallRemove
  <2>1. linked \ late = {}
    BY <1>8 DEF CallRemove
  <2> QED BY <1>8, <2>1 DEF CallRemove, RemoveBegin
<1>. QED
  BY <1>1, <1>2, <1>3, <1>4, <1>5, <1>6, <1>7, <1>8 DEF PowerDone

-----------------------------------------------------------------------------
(* Other threads *)

\* A user, the debug attribute, and the handlers of events.
LEMMA ThreadsKeepInv ==
  ASSUME IInv,
         \/ (User \/ DebugEnter \/ Debug) /\ UNCHANGED modVars
         \/ \E e \in Events : RunClientHandler(e) \/ HandlerMoves(e)
  PROVE  IInv'
<1> USE DEF coreVars, probeVars, modVars, cliVars, linkVars, Requesters
<1>1. CASE UserRqst /\ UNCHANGED modVars
  BY <1>1, RequestTaken DEF UserRqst
<1>2. CASE UserDone /\ UNCHANGED modVars
  BY <1>2, RequestReleased DEF UserDone
<1>3. CASE (DebugEnter \/ DebugRefused) /\ UNCHANGED modVars
  BY <1>3, NothingChanged DEF DebugEnter, DebugRefused
<1>4. CASE DebugRqst /\ UNCHANGED modVars
  BY <1>4, RequestTaken DEF DebugRqst
<1>5. CASE DebugDone /\ UNCHANGED modVars
  BY <1>5, RequestReleased DEF DebugDone
<1>6. CASE \E e \in Events : RunClientHandler(e)
  BY <1>6, NothingChanged DEF RunClientHandler, RunHandler
<1>7. CASE \E e \in Events : HandlerMoves(e)
  <2> PICK e \in Events : HandlerMoves(e)
    BY <1>7
  <2>1. UNCHANGED linkVars
    BY DEF HandlerMoves
  <2>2. CASE HandlerReturns(e)
    BY <2>1, <2>2, NothingChanged DEF HandlerReturns
  <2>3. CASE HandlerRqst(e)
    BY <2>1, <2>3, RequestTaken DEF HandlerRqst
  <2>4. CASE HandlerDone(e)
    BY <2>1, <2>4, RequestReleased DEF HandlerDone
  <2>5. QED
    BY <2>2, <2>3, <2>4 DEF HandlerMoves, Handler
<1>8. QED
  BY <1>1, <1>2, <1>3, <1>4, <1>5, <1>6, <1>7 DEF User, Debug

-----------------------------------------------------------------------------
(* Clients *)

\* consumer_register links a client to a driver that it finds initialized, and
\* the lock shows that it is not going, or remove is still waiting for it.
LEMMA LinkKeepsInv ==
  ASSUME IInv, NEW c \in Clients, Link(c)
  PROVE  IInv'
<1>1. drv \in InUse \union {"removing"} /\ UNCHANGED <<probeVars, ecState, power, lock>>
  BY DEF IInv, LockInv, StateInv, DriverSteps, Locked, Gone, InUse, Link, Acquirable,
         drvVars, probeVars
<1>2. LinkInv'
  <2>1. CASE drv \in InUse
    BY <1>1, <2>1 DEF LinkInv, probeVars
  <2>2. CASE drv = "removing"
    <3>1. linked' \ late' \subseteq linked \ late
      BY <2>2 DEF Link, StepDone, Probes
    <3> QED BY <1>1, <3>1 DEF IInv, LinkInv, probeVars
  <2> QED BY <1>1, <2>1, <2>2
<1>3. QED
  BY <1>1, <1>2 DEF IInv, LockInv, StateInv, OpenInv, HeldInv, RqstInv, SleepInv,
              LinkInv, ForeignRequest, probeVars

\* The lock that is kept for ever.
LEMMA LinkFailsKeepsInv ==
  ASSUME IInv, NEW c \in Clients, LinkFails(c)
  PROVE  IInv'
BY DEF IInv, LockInv, StateInv, OpenInv, HeldInv, RqstInv, SleepInv, LinkInv,
       ForeignRequest, LinkFails, ProbeFailed, Acquirable, Take, probeVars, linkVars

\* A step other than the first links nothing.
LEMMA StepLinksNothing ==
  ASSUME NEW c \in Clients, NEW kind, kind # "link", At(c, kind),
         StepDone(c) \/ ProbeFailed(c) \/ UNCHANGED <<cli, linkVars, has>>
  PROVE  UNCHANGED linkVars
BY DEF At, StepDone, ProbeFailed, linkVars

\* Every step of the probe and remove functions of a client.
LEMMA MoveKeepsInv ==
  ASSUME IInv, NEW c \in Clients, Move(c)
  PROVE  IInv'
<1> USE DEF coreVars, drvVars, probeVars, linkVars, Requesters
<1>1. CASE Link(c)
  BY <1>1, LinkKeepsInv
<1>2. CASE LinkFails(c)
  BY <1>2, LinkFailsKeepsInv
<1>3. CASE LinkDeferred(c)
  BY <1>3, NothingChanged DEF LinkDeferred, ProbeFailed
<1>4. CASE Alloc(c) \/ AllocRefused(c)
  <2>1. UNCHANGED linkVars
    BY <1>4, StepLinksNothing DEF Alloc, AllocRefused, Probes
  <2>2. QED
    BY <1>4, <2>1, NothingChanged DEF Alloc, AllocRefused
<1>5. CASE Handle(c)
  <2>1. UNCHANGED linkVars
    BY <1>5, StepLinksNothing DEF Handle, Probes
  <2>2. QED
    BY <1>5, <2>1, NothingChanged DEF Handle, SetHandler
<1>6. CASE Request(c)
  BY <1>6, RequestTaken DEF Request, ClientRqst, modVars, cliVars
<1>7. CASE RequestSkipped(c)
  <2>1. UNCHANGED linkVars
    BY <1>7, StepLinksNothing DEF RequestSkipped
  <2>2. QED
    BY <1>7, <2>1, NothingChanged DEF RequestSkipped
<1>8. ASSUME NEW ok \in BOOLEAN, RequestDone(c, ok)
      PROVE  IInv'
  <2>1. UNCHANGED linkVars
    BY <1>8, StepLinksNothing DEF RequestDone, Requested, AtRequest
  <2>2. QED
    BY <1>8, <2>1, RequestReleased DEF RequestDone, ClientDone
<1>9. CASE RequestRefused(c)
  <2>1. UNCHANGED linkVars
    BY <1>9, StepLinksNothing DEF RequestRefused, Requested, AtRequest
  <2>2. QED
    BY <1>9, <2>1, NothingChanged DEF RequestRefused
<1>10. CASE Free(c) \/ RemoveAndFlush(c) \/ RemoveRefused(c) \/ Flushed(c)
  BY <1>10, NothingChanged DEF Free, RemoveAndFlush, RemoveRefused, RemoveHandler, Flushed
<1>11. CASE Unlink(c)
  BY <1>11 DEF Unlink, IInv, LockInv, StateInv, OpenInv, HeldInv, RqstInv,
               SleepInv, LinkInv, ForeignRequest
<1>12. CASE HandleRefused(c)
  <2>1. UNCHANGED linkVars
    BY <1>12, StepLinksNothing DEF HandleRefused, Probes
  <2>2. QED
    BY <1>12, <2>1, NothingChanged DEF HandleRefused
<1>13. QED
  BY <1>1, <1>2, <1>3, <1>4, <1>5, <1>6, <1>7, <1>8, <1>9, <1>10, <1>11, <1>12 DEF Move

-----------------------------------------------------------------------------
(* Theorems *)

LEMMA InvInit == Init => IInv
BY DEF Init, DriverInit, IInv, LockInv, StateInv, OpenInv, HeldInv, RqstInv,
       SleepInv, LinkInv, DriverSteps, Locked, Gone, InUse, Open, ForeignRequest

LEMMA InvNext == IInv /\ [Next]_vars => IInv'
<1> SUFFICES ASSUME IInv, [Next]_vars
             PROVE  IInv'
  OBVIOUS
<1> USE DEF coreVars, drvVars, probeVars, linkVars
<1>1. CASE Base
  BY <1>1, NothingChanged
     DEF Base, Load, Register, RegisterFails, Exit, Unregister, cliVars
<1>2. CASE BindSerial \/ UnbindSerial \/ CallRemove \/ RemoveSerial \/ SuspendSerial
  BY <1>2, DriverCoreKeepsInv
<1>3. CASE Within
  BY <1>3, ProbingKeepsInv, RemovingKeepsInv, DriverCoreKeepsInv, ThreadsKeepInv DEF Within
<1>4. ASSUME NEW c \in Clients, Bind(c) \/ Unbind(c)
      PROVE  IInv'
  BY <1>4, NothingChanged DEF Bind, Unbind
<1>5. ASSUME NEW c \in Clients, Move(c)
      PROVE  IInv'
  BY <1>5, MoveKeepsInv
<1>6. CASE \E e \in Events : RunClientHandler(e) \/ HandlerMoves(e)
  BY <1>6, ThreadsKeepInv
<1>7. CASE UNCHANGED vars
  BY <1>7, NothingChanged DEF vars, modVars, cliVars
<1>8. QED
  BY <1>1, <1>2, <1>3, <1>4, <1>5, <1>6, <1>7 DEF Next

\* The invariant of the driver, its lock and its consumers.
THEOREM InvariantCorrect == Spec => []IInv
BY InvInit, InvNext, PTL DEF Spec

\* Requests are sent over an open device only, whatever fails in probe and
\* however removal, suspend and other threads interleave.
THEOREM RequestsCorrect == Spec => []RequestOnOpenDevice
<1>1. IInv => RequestOnOpenDevice
  BY DEF IInv, LockInv, StateInv, OpenInv, HeldInv, RqstInv, RequestOnOpenDevice,
         RequestInProgress, ForeignRequest, DriverSteps, Locked, Gone, InUse, Open
<1>2. QED
  BY <1>1, InvariantCorrect, PTL

\* An EC that may have gone to sleep gets no request of anybody but the driver.
THEOREM SleepCorrect == Spec => []SleepingEcLeftAlone
<1>1. IInv => SleepingEcLeftAlone
  BY DEF IInv, RqstInv, SleepInv, SleepingEcLeftAlone, ForeignRequest
<1>2. QED
  BY <1>1, InvariantCorrect, PTL

\* A device link keeps the driver initialized, its buffers allocated and the
\* serial device open, if it was there before remove was called.
THEOREM LinkCorrect == Spec => []LinkedDriverStays
<1>1. IInv => LinkedDriverStays
  BY DEF IInv, StateInv, OpenInv, HeldInv, LinkInv, LinkedDriverStays, Gone, InUse, Open
<1>2. QED
  BY <1>1, InvariantCorrect, PTL

-----------------------------------------------------------------------------
(* What is left behind *)

\* What the driver has when it is not bound.
ClosedInv ==
    /\ open => drv \in Open \union {"reflush"}
    /\ drv = "unbound" => held = 0
    /\ attr => drv \in InUse \union {"removing", "unregister"}

\* The steps of a path before position k, and those from it on.
Before(p, k) == {p[i] : i \in 1..(k-1)}
From(p, k)   == {p[i] : i \in k..Len(p)}

\* The steps a client has done and those it has yet to undo.
Done(c) ==
    CASE cli[c] = "probing" -> Before(Setup[c], step)
      [] cli[c] = "undoing" -> From(Undo[c], step)
      [] cli[c] = "leaving" -> From(Teardown[c], step)
      [] cli[c] = "bound"   -> From(Teardown[c], 1)
      [] OTHER -> {}

\* What probes that fail leave behind.
Stale(c) == CASE c = "dtx" -> {"active", "lost"}
              [] c = "san" -> {"lost"}
              [] OTHER -> {}

\* What a client is about to free though it is gone: at the label err_register,
\* the input device of a probe of DTX that is refused.
Missing(c, x) ==
    /\ c = "dtx" /\ x = "input"
    /\ cli[c] = "undoing" /\ step = 4
    /\ {"active", "lost"} \subseteq has[c]

\* A client has what it has set up, no less and no more, and no handler but
\* those it has set ...
Own(c) ==
    /\ \A x \in has[c] : x \in Stale(c) \/ <<"alloc", x>> \in Done(c)
    /\ \A x \in Resources : <<"alloc", x>> \in Done(c) => x \in has[c] \/ Missing(c, x)
    /\ c \in linked <=> <<"link", "ec">> \in Done(c)
    /\ \A e \in handlers : Owner[e] = c => <<"handler", e>> \in Done(c)

OwnInv == \A c \in Clients : Own(c)

\* ... and nobody else has any.
HandlerInv == \A e \in handlers : Owner[e] \in Clients

\* A handler that a worker runs is one that its client has yet to remove, or it
\* is waited for.
Kept(e) == Owner[e] \in Clients /\ <<"handler", e>> \in Done(Owner[e])

Flushing(e) == e \in waits /\ \E c \in Moving : Path(c)[step] = <<"flush", e>>

RunInv == \A e \in Events \ Immediate : run[e] # "idle" => Kept(e) \/ Flushing(e)

\* Where the driver is when nobody can have set a handler.
Silent == {"unbound", "alloc", "undo", "open", "setup", "resume", "attr"}

QuietInv ==
    /\ drv \in Silent \union {"reflush"} => handlers = {}
    /\ \A e \in Events \ Immediate : run[e] # "idle" =>
        drv \notin Silent /\ (drv = "reflush" => e \in drain)

\* Only drivers that are registered have clients that are bound.
RegInv ==
    /\ base = "out" => reg = 0
    /\ \A c \in Clients : cli[c] \in {"absent", "unbound"} \/ \E i \in 1..reg : Order[i] = c

-----------------------------------------------------------------------------
(* The paths *)

UndoPath(p, c) ==
    /\ Len(p) \in Nat \ {0}
    /\ p[Len(p)] = <<"link", "ec">>
    /\ \A i \in 1..Len(p) :
        /\ p[i] = <<p[i][1], p[i][2]>>
        /\ p[i][1] = "link" => i = Len(p)
        /\ p[i][1] = "alloc" => p[i][2] \in Resources
        /\ p[i][1] \in {"alloc", "handler"} => \A j \in 1..Len(p) : p[j] = p[i] => j = i
        /\ p[i][1] = "handler" => i < Len(p) /\ p[i+1] = <<"flush", p[i][2]>>
        /\ p[i][1] \in {"handler", "flush"} =>
            /\ p[i][2] \in DOMAIN Owner /\ Owner[p[i][2]] = c
            /\ \A n \in Needs[p[i][2]] : \E j \in (i+1)..Len(p) : p[j] = <<"alloc", n>>


\* What a step of a probe function loses when it fails.
Lost(p, k) == IF p[k][1] = "alloc" /\ p[k][2] \in DOMAIN Loses
              THEN {Loses[p[k][2]]} ELSE {}

\* A probe function goes to the label that undoes what it has done, but for
\* what it loses and what DTX leaves.
SetupPath(p, l, u, c) ==
    /\ Len(p) \in Nat \ {0} /\ p[1] = <<"link", "ec">>
    /\ \A i \in 1..Len(p) :
        /\ p[i] = <<p[i][1], p[i][2]>>
        /\ p[i][1] # "flush"
        /\ p[i][1] = "link" => i = 1
        /\ p[i][1] = "alloc" => p[i][2] \in Resources
        /\ p[i][1] = "handler" =>
            /\ p[i][2] \in DOMAIN Owner /\ Owner[p[i][2]] = c
            /\ \A n \in Needs[p[i][2]] : \E j \in 1..(i-1) : p[j] = <<"alloc", n>>
    /\ \A k \in 1..Len(p) :
        /\ l[k] \in Nat \ {0}
        /\ l[k] \in 1..Len(u) <=> k # 1
        /\ \A i \in 1..(k-1) :
            p[i][1] \in {"alloc", "handler"} =>
                \/ p[i][1] = "alloc" /\ p[i][2] \in Stale(c) \union Lost(p, k)
                \/ \E j \in l[k]..Len(u) : u[j] = p[i]
        /\ \A j \in l[k]..Len(u) :
            u[j][1] = "alloc" =>
                /\ \E i \in 1..(k-1) : p[i] = u[j]
                /\ u[j][2] \in Lost(p, k) =>
                    c = "dtx" /\ u[j][2] = "input" /\ p[k][2] = "active" /\ l[k] = 4
        /\ Lost(p, k) # {} => "lost" \in Stale(c)

\* The remove function undoes all of it.
SetupWhole(p, t) ==
    /\ \A i \in 1..Len(p) :
        p[i][1] \in {"alloc", "handler"} => \E j \in 1..Len(t) : t[j] = p[i]
    /\ \A j \in 1..Len(t) :
        t[j][1] = "alloc" => \E i \in 1..Len(p) : p[i] = t[j]

LEMMA Paths ==
  ASSUME NEW c \in {"san", "vhf", "dtx", "sid"}
  PROVE  /\ UndoPath(Undo[c], c) /\ UndoPath(Teardown[c], c)
         /\ SetupPath(Setup[c], Label[c], Undo[c], c)
         /\ SetupWhole(Setup[c], Teardown[c])
<1>1. ASSUME NEW p, NEW d, \/ d = "san" /\ p \in {SanUndo, SanTeardown}
                           \/ d = "vhf" /\ p \in {VhfUndo, VhfTeardown}
                           \/ d = "dtx" /\ p \in {DtxUndo, DtxTeardown}
                           \/ d = "sid" /\ p \in {SidUndo, SidTeardown}
      PROVE  UndoPath(p, d)
  <2> USE DEF UndoPath, Owner, Needs, Resources
  <2>1. UndoPath(SanUndo, "san") /\ UndoPath(SanTeardown, "san")
    BY SMTT(30) DEF SanUndo, SanTeardown, SanArray, SanLinks
  <2>2. UndoPath(VhfUndo, "vhf") /\ UndoPath(VhfTeardown, "vhf")
    BY SMTT(30) DEF VhfUndo, VhfTeardown
  <2>3. UndoPath(DtxUndo, "dtx") /\ UndoPath(DtxTeardown, "dtx")
    BY SMTT(30) DEF DtxUndo, DtxTeardown
  <2>4. UndoPath(SidUndo, "sid") /\ UndoPath(SidTeardown, "sid")
    BY SMTT(30) DEF SidUndo, SidTeardown, SidLid
  <2> HIDE DEF UndoPath
  <2> QED BY <1>1, <2>1, <2>2, <2>3, <2>4
<1>2. SetupPath(SanSetup, Label["san"], SanUndo, "san")
  BY SMTT(30) DEF SetupPath, SanSetup, SanUndo, SanArray, SanLinks, Label, Owner, Needs, Resources, Stale,
              Lost, Loses
<1>3. SetupPath(VhfSetup, Label["vhf"], VhfUndo, "vhf")
  BY SMTT(30) DEF SetupPath, VhfSetup, VhfUndo, Label, Owner, Needs, Resources, Stale,
              Lost, Loses
<1>4. SetupPath(DtxSetup, Label["dtx"], DtxUndo, "dtx")
  BY SMTT(30) DEF SetupPath, DtxSetup, DtxUndo, Label, Owner, Needs, Resources, Stale,
              Lost, Loses
<1>5. SetupPath(SidSetup, Label["sid"], SidUndo, "sid")
  BY SMTT(30) DEF SetupPath, SidSetup, SidUndo, SidLid, Label, Owner, Needs, Resources, Stale,
              Lost, Loses
<1>6. /\ SetupWhole(SanSetup, SanTeardown)
      /\ SetupWhole(VhfSetup, VhfTeardown)
      /\ SetupWhole(DtxSetup, DtxTeardown)
      /\ SetupWhole(SidSetup, SidTeardown)
  <2>1. SetupWhole(SanSetup, SanTeardown)
    BY DEF SetupWhole, SanSetup, SanTeardown, SanArray, SanLinks
  <2>2. SetupWhole(VhfSetup, VhfTeardown)
    BY DEF SetupWhole, VhfSetup, VhfTeardown
  <2>3. SetupWhole(DtxSetup, DtxTeardown)
    BY DEF SetupWhole, DtxSetup, DtxTeardown
  <2>4. SetupWhole(SidSetup, SidTeardown)
    BY DEF SetupWhole, SidSetup, SidTeardown, SidLid
  <2> QED BY <2>1, <2>2, <2>3, <2>4
<1> QED
  BY <1>1, <1>2, <1>3, <1>4, <1>5, <1>6 DEF Setup, Undo, Teardown

-----------------------------------------------------------------------------
(* Types *)

\* The variables of the driver that are flags, and the others
FlagsOK == serdev \in BOOLEAN /\ open \in BOOLEAN /\ attr \in BOOLEAN

OthersOK ==
    /\ drv \in DriverSteps
    /\ held \in 0..NumBuffers
    /\ ecState \in {"UNINITIALIZED", "INITIALIZED", "SUSPENDED"}
    /\ lock \in Holders
    /\ debug \in {"idle", "writing"}
    /\ handlers \subseteq Events
    /\ run \in [Events -> {"idle", "running", "request"}]
    /\ drain \subseteq Events
    /\ power \in {"awake", "asleep", "stuck"}

DriverInv == FlagsOK /\ OthersOK /\ ClosedInv

\* What the module and the clients are about: their own variables.
ModTypeOK ==
    /\ base \in {"out", "loading", "loaded", "leaving"}
    /\ reg \in 0..Len(Order)
    /\ base \in {"out", "loading"} => reg < Len(Order)
    /\ base \in {"loaded", "leaving"} => reg > 0
    /\ cli \in [Clients -> {"absent", "unbound", "probing", "bound", "undoing", "leaving"}]
    /\ linked \subseteq Clients
    /\ late \subseteq linked
    /\ has \in [Clients -> SUBSET Resources]
    /\ \A c, d \in Moving : c = d
    /\ \A c \in Moving : step \in 1..Len(Path(c))
    /\ waits \subseteq Events

LEMMA TypeParts == DriverInv /\ ModTypeOK => TypeOK
  BY Zenon DEF DriverInv, FlagsOK, OthersOK, DriverTypeOK, ModTypeOK, TypeOK

LEMMA InitType == Init => DriverInv /\ ModTypeOK
<1> SUFFICES ASSUME Init PROVE DriverInv /\ ModTypeOK
  OBVIOUS
<1>1. OthersOK
  BY DriverAssumption DEF Init, DriverInit, OthersOK, DriverSteps, Holders
<1>2. FlagsOK /\ ClosedInv
  BY Zenon DEF Init, DriverInit, FlagsOK, ClosedInv
<1>3. Moving = {} /\ Len(Order) = 5
  BY DEF Init, Moving, Order
<1>4. ModTypeOK
  BY <1>3 DEF Init, ModTypeOK
<1> QED BY <1>1, <1>2, <1>4 DEF DriverInv

\* The driver, whatever it does
LEMMA DriverFlags ==
  ASSUME FlagsOK, Probing \/ Removing \/ PowerDone \/ Resume \/ Suspend
                  \/ ProbeBegin \/ UnbindBegin \/ RemoveBegin
  PROVE  FlagsOK'
<1> USE DEF FlagsOK, debugVars
<1>1. ASSUME UNCHANGED <<serdev, open, attr>> PROVE FlagsOK'
  BY <1>1
<1>2. CASE ProbeAlloc \/ AllocFails \/ ProbeSetup \/ ProbeResume \/ ProbeUndo
  BY <1>1, <1>2 DEF ProbeAlloc, AllocFails, ProbeSetup, ProbeResume, ProbeUndo
<1>3. CASE ProbeInit
  BY <1>3, Zenon DEF ProbeInit
<1>4. CASE ProbeOpen
  BY <1>4, Zenon DEF ProbeOpen
<1>5. CASE ProbeDone
  BY <1>5, Zenon DEF ProbeDone
<1>6. CASE ProbeFails
  BY <1>6, Zenon DEF ProbeFails
<1>7. CASE RemoveLock \/ RemoveSuspend
  BY <1>1, <1>7 DEF RemoveLock, RemoveSuspend
<1>8. CASE UnregisterAttr
  BY <1>8, Zenon DEF UnregisterAttr
<1>9. CASE RemoveFlushed
  BY <1>9, Zenon DEF RemoveFlushed
<1>10. CASE RemoveClose
  BY <1>10, Zenon DEF RemoveClose
<1>11. CASE PowerDone \/ Resume \/ Suspend \/ ProbeBegin \/ UnbindBegin \/ RemoveBegin
  BY <1>1, <1>11 DEF PowerDone, SuspendDone, ResumeDone, Resume, Suspend, ProbeBegin,
                     UnbindBegin, RemoveBegin
<1> QED
  BY <1>2, <1>3, <1>4, <1>5, <1>6, <1>7, <1>8, <1>9, <1>10, <1>11 DEF Probing, Removing

LEMMA DriverStepType ==
  ASSUME DriverInv, Probing \/ Removing \/ PowerDone \/ Resume \/ Suspend
                    \/ ProbeBegin \/ UnbindBegin \/ RemoveBegin
  PROVE  DriverInv'
<1>1. FlagsOK'
  BY DriverFlags DEF DriverInv
<1> DEFINE Rest == OthersOK /\ ClosedInv
<1>2. Rest
  BY DEF DriverInv
<1> USE DEF OthersOK, ClosedInv, DriverSteps, Holders, Open, InUse, Take, Acquirable,
            eventVars, debugVars
<1>3. CASE ProbeAlloc
  <2>1. held + 1 \in 0..NumBuffers
    BY <1>2, <1>3, DriverAssumption DEF ProbeAlloc
  <2>2. Rest'
    BY <1>2, <1>3, <2>1 DEF ProbeAlloc
  <2> QED BY <1>1, <2>2 DEF DriverInv
<1>4. CASE AllocFails \/ ProbeInit \/ ProbeOpen \/ ProbeSetup
  <2>1. Rest'
    BY <1>2, <1>4 DEF AllocFails, ProbeInit, ProbeOpen, ProbeSetup
  <2> QED BY <1>1, <2>1 DEF DriverInv
<1>5. CASE ProbeResume \/ ProbeFails
  <2>1. Rest'
    BY <1>2, <1>5 DEF ProbeResume, ProbeFails, EcResume
  <2> QED BY <1>1, <2>1 DEF DriverInv
<1>6. CASE ProbeDone \/ ProbeUndo
  <2>1. Rest'
    BY <1>2, <1>6, DriverAssumption DEF ProbeDone, ProbeUndo
  <2> QED BY <1>1, <2>1 DEF DriverInv
<1>7. CASE RemoveLock \/ UnregisterAttr
  <2>1. Rest'
    BY <1>2, <1>7 DEF RemoveLock, UnregisterAttr
  <2> QED BY <1>1, <2>1 DEF DriverInv
<1>8. CASE RemoveSuspend \/ RemoveFlushed \/ RemoveClose
  <2>1. Rest'
    BY <1>2, <1>8, DriverAssumption
    DEF RemoveSuspend, RemoveFlushed, RemoveClose, EcSuspend, Flushable, Running
  <2> QED BY <1>1, <2>1 DEF DriverInv
<1>9. CASE PowerDone
  <2>1. Rest'
    BY <1>2, <1>9 DEF PowerDone, SuspendDone, ResumeDone, EcSuspend
  <2> QED BY <1>1, <2>1 DEF DriverInv
<1>10. CASE Resume \/ Suspend \/ ProbeBegin \/ UnbindBegin \/ RemoveBegin
  <2>1. Rest'
    BY <1>2, <1>10 DEF Resume, Suspend, ProbeBegin, UnbindBegin, RemoveBegin
  <2> QED BY <1>1, <2>1 DEF DriverInv
<1> QED
  BY <1>3, <1>4, <1>5, <1>6, <1>7, <1>8, <1>9, <1>10 DEF Probing, Removing

\* Other threads and the handlers
LEMMA ThreadStepType ==
  ASSUME DriverInv,
         \/ User \/ DebugEnter \/ Debug \/ ClientRqst \/ ClientDone
         \/ \E e \in Events : RunHandler(e) \/ Handler(e)
  PROVE  DriverInv'
<1> USE DEF Holders, Take, Release, probeVars, debugVars, eventVars
<1>1. UNCHANGED <<drv, open, held, attr, serdev>>
  BY DEF User, UserRqst, UserDone, DebugEnter, Debug, DebugRqst, DebugRefused, DebugDone,
         ClientRqst, ClientDone, RunHandler, Handler, HandlerReturns, HandlerRqst, HandlerDone
<1>2. FlagsOK' /\ ClosedInv'
  BY <1>1 DEF DriverInv, FlagsOK, ClosedInv
<1>3. CASE User \/ DebugEnter \/ Debug \/ ClientRqst \/ ClientDone
  <2>1. OthersOK'
    BY <1>3
    DEF User, UserRqst, UserDone, DebugEnter, Debug, DebugRqst, DebugRefused, DebugDone,
        ClientRqst, ClientDone, DriverInv, OthersOK
  <2> QED BY <1>2, <2>1 DEF DriverInv
<1>4. ASSUME NEW e \in Events, RunHandler(e) \/ Handler(e) PROVE DriverInv'
  <2>1. OthersOK'
    BY <1>4
    DEF RunHandler, Handler, HandlerReturns, HandlerRqst, HandlerDone, Returned, DriverInv,
        OthersOK
  <2> QED BY <1>2, <2>1 DEF DriverInv
<1> QED BY <1>3, <1>4

-----------------------------------------------------------------------------
(* The shapes of what a client does *)

\* A step of a probe function is done, or fails.
StepsOn(c) ==
    /\ cli[c] = "probing"
    /\ StepDone(c)
    /\ handlers' = IF At(c, "handler") THEN handlers \union {What(c)} ELSE handlers
    /\ UNCHANGED waits

Fails(c) ==
    /\ cli[c] = "probing"
    /\ At(c, "alloc") /\ What(c) = "active" => "active" \in has[c]
    /\ ProbeFailed(c)
    /\ UNCHANGED <<handlers, waits>>

\* A step is undone, the device link or something else.
Undone(c) ==
    /\ cli[c] \in {"undoing", "leaving"}
    /\ ~At(c, "link")
    /\ step' = step + 1
    /\ has' = [has EXCEPT ![c] = IF At(c, "alloc") THEN @ \ {What(c)} ELSE @]
    /\ handlers' = IF At(c, "handler") THEN handlers \ {What(c)} ELSE handlers
    /\ waits' \subseteq Events
    /\ IF At(c, "handler") THEN Flushable \subseteq waits' ELSE waits' = waits
    /\ At(c, "flush") => waits = {}
    /\ UNCHANGED <<cli, linkVars>>

Unlinked(c) == Unlink(c) /\ UNCHANGED <<handlers, waits>>

LEMMA MoveShape ==
  ASSUME NEW c \in Clients, Move(c), ModTypeOK, IInv, QuietInv
  PROVE  /\ Moving = {c}
         /\ UNCHANGED <<base, reg>>
         /\ run' = run
         /\ \/ StepsOn(c) \/ Fails(c) \/ Undone(c) \/ Unlinked(c)
            \/ UNCHANGED <<cliVars, handlers, waits>>
<1> USE DEF drvVars, eventVars, modVars, linkVars
<1>1. \A k, l : At(c, k) /\ At(c, l) => k = l
  BY DEF At
<1>2. CASE Link(c) \/ Alloc(c)
  BY <1>1, <1>2 DEF Link, Alloc, Probes, At, StepsOn
<1>3. CASE LinkDeferred(c) \/ LinkFails(c) \/ AllocRefused(c) \/ HandleRefused(c)
  <2>1. At(c, "alloc") /\ What(c) = "active" => "active" \in has[c]
    BY <1>1, <1>3 DEF LinkDeferred, LinkFails, AllocRefused, HandleRefused, Probes
  <2> QED
    BY <1>3, <2>1 DEF LinkDeferred, LinkFails, AllocRefused, HandleRefused, Probes, At, Fails
<1>4. CASE Handle(c)
  BY <1>4 DEF Handle, SetHandler, Probes, At, StepsOn
<1> DEFINE Onward == step' = step + 1 /\ UNCHANGED <<cli, linkVars, has>>
<1>5. ASSUME Moving = {c}, cli[c] # "probing", Onward, UNCHANGED <<handlers, waits>>,
             ~At(c, "link"), ~At(c, "alloc"), ~At(c, "handler"), ~At(c, "flush")
      PROVE  Undone(c)
  <2>1. cli[c] \in {"undoing", "leaving"}
    BY <1>5 DEF Moving, ModTypeOK
  <2>2. has' = [has EXCEPT ![c] = has[c]]
    BY <1>5 DEF ModTypeOK
  <2> QED BY <1>5, <2>1, <2>2 DEF Undone, ModTypeOK
<1>6. ASSUME AtRequest(c)
      PROVE  /\ Moving = {c}
             /\ ~At(c, "link") /\ ~At(c, "alloc") /\ ~At(c, "handler") /\ ~At(c, "flush")
  BY <1>6 DEF AtRequest, At
<1>7. CASE Request(c)
  BY <1>6, <1>7 DEF Request, ClientRqst, cliVars
<1>8. CASE RequestSkipped(c)
  BY <1>5, <1>6, <1>8 DEF RequestSkipped, AtRequest, StepsOn
<1>9. ASSUME NEW ok \in BOOLEAN, Requested(c, ok), AtRequest(c), UNCHANGED <<handlers, waits>>
      PROVE  StepsOn(c) \/ Fails(c) \/ Undone(c)
  BY <1>5, <1>6, <1>9 DEF Requested, StepsOn, Fails
<1>10. CASE (\E ok \in BOOLEAN : RequestDone(c, ok)) \/ RequestRefused(c)
  BY <1>6, <1>9, <1>10 DEF RequestDone, RequestRefused, ClientDone
<1>11. CASE Free(c)
  <2>1. waits' = waits /\ waits' \subseteq Events
    BY <1>11 DEF Free, ModTypeOK
  <2> QED BY <1>1, <1>11, <2>1 DEF Free, Undoes, At, Undone
<1>12. CASE RemoveAndFlush(c) \/ Flushed(c)
  <2>1. has' = [has EXCEPT ![c] = has[c]] /\ waits' \subseteq Events
    BY <1>12 DEF ModTypeOK, RemoveAndFlush, Flushed, Flushable, Running
  <2> QED
    BY <1>12, <2>1 DEF RemoveAndFlush, RemoveHandler, Flushed, Undoes, At, Undone
<1>14. CASE RemoveRefused(c)
  <2>1. has' = [has EXCEPT ![c] = has[c]] /\ waits' = waits /\ waits' \subseteq Events
    BY <1>14 DEF ModTypeOK, RemoveRefused
  <2>2. drv \in Silent
    BY <1>14 DEF RemoveRefused, IInv, LockInv, StateInv, Locked, Gone, Silent
  <2>3. handlers = {} /\ Flushable = {}
    BY <2>2 DEF QuietInv, Flushable, Running
  <2>4. handlers' = handlers \ {What(c)}
    BY <1>14, <2>3 DEF RemoveRefused
  <2> QED
    BY <1>14, <2>1, <2>3, <2>4 DEF RemoveRefused, Undoes, At, Undone
<1>13. CASE Unlink(c)
  BY <1>13 DEF Unlink, Undoes, At, Unlinked
<1> QED
  BY <1>2, <1>3, <1>4, <1>7, <1>8, <1>10, <1>11, <1>12, <1>13, <1>14 DEF Move
-----------------------------------------------------------------------------
(* Types of the clients *)

LEMMA ClientPaths ==
  ASSUME NEW c \in Clients
  PROVE  /\ UndoPath(Undo[c], c) /\ UndoPath(Teardown[c], c)
         /\ SetupPath(Setup[c], Label[c], Undo[c], c)
         /\ SetupWhole(Setup[c], Teardown[c])
BY ModuleAssumption, Paths

\* The one that moves, and where it moves to
LEMMA MovesAlone ==
  ASSUME NEW c \in Clients, ModTypeOK, Moving = {c},
         UNCHANGED <<base, reg>>, linked' \subseteq Clients, late' \subseteq linked',
         waits' \subseteq Events,
         has' \in [Clients -> SUBSET Resources],
         cli' \in [Clients -> {"absent", "unbound", "probing", "bound", "undoing", "leaving"}],
         \A d \in Clients \ {c} : cli'[d] = cli[d],
         c \in Moving' => step' \in 1..Len(Path(c)')
  PROVE  ModTypeOK'
<1>1. Moving' \subseteq {c}
  BY DEF Moving
<1> QED
  BY <1>1 DEF ModTypeOK

LEMMA StepsOnType ==
  ASSUME NEW c \in Clients, ModTypeOK, Moving = {c}, UNCHANGED <<base, reg>>, StepsOn(c)
  PROVE  ModTypeOK'
<1>1. cli[c] = "probing" /\ Path(c) = Setup[c] /\ step \in 1..Len(Setup[c])
  BY DEF ModTypeOK, StepsOn, Path
<1>2. Len(Setup[c]) \in Nat /\ (At(c, "alloc") => What(c) \in Resources)
  BY <1>1, ClientPaths DEF SetupPath, At, What
<1>3. /\ has' \in [Clients -> SUBSET Resources] /\ linked' \subseteq Clients
      /\ late' \subseteq linked' /\ waits' \subseteq Events
  BY <1>2 DEF ModTypeOK, StepsOn, StepDone
<1>4. CASE step = Len(Setup[c])
  <2>1. cli' = [cli EXCEPT ![c] = "bound"]
    BY <1>4 DEF StepsOn, StepDone
  <2> QED
    BY <1>3, <2>1, MovesAlone DEF ModTypeOK, Moving
<1>5. CASE step # Len(Setup[c])
  <2>1. cli' = cli /\ step' = step + 1
    BY <1>5 DEF StepsOn, StepDone
  <2>2. Path(c)' = Setup[c]
    BY <1>1, <2>1 DEF Path
  <2>3. step' \in 1..Len(Path(c)')
    BY <1>1, <1>2, <1>5, <2>1, <2>2
  <2> QED
    BY <1>3, <2>1, <2>3, MovesAlone DEF ModTypeOK
<1> QED BY <1>4, <1>5

LEMMA FailsType ==
  ASSUME NEW c \in Clients, ModTypeOK, Moving = {c}, UNCHANGED <<base, reg>>, Fails(c)
  PROVE  ModTypeOK'
<1>1. /\ has' \in [Clients -> SUBSET Resources]
      /\ linked' = linked /\ late' = late /\ waits' = waits
  BY DEF Fails, ProbeFailed, linkVars, ModTypeOK, Resources
<1>2. CASE Unwind(c) \in 1..Len(Undo[c])
  <2>1. cli' = [cli EXCEPT ![c] = "undoing"] /\ step' = Unwind(c)
    BY <1>2 DEF Fails, ProbeFailed
  <2>2. cli'[c] = "undoing"
    BY <2>1 DEF ModTypeOK
  <2>3. Path(c)' = Undo[c]
    BY <2>2 DEF Path
  <2>4. step' \in 1..Len(Path(c)')
    BY <1>2, <2>1, <2>3
  <2> QED
    BY <1>1, <2>1, <2>4, MovesAlone DEF ModTypeOK
<1>3. CASE Unwind(c) \notin 1..Len(Undo[c])
  <2>1. cli' = [cli EXCEPT ![c] = "unbound"]
    BY <1>3 DEF Fails, ProbeFailed
  <2> QED
    BY <1>1, <2>1, MovesAlone DEF ModTypeOK, Moving
<1> QED BY <1>2, <1>3

\* The path of one that undoes
LEMMA UndoingPath ==
  ASSUME NEW c \in Clients, ModTypeOK, cli[c] \in {"undoing", "leaving"}
  PROVE  /\ UndoPath(Path(c), c) /\ Done(c) = From(Path(c), step)
         /\ c \in Moving /\ step \in 1..Len(Path(c))
<1>1. CASE cli[c] = "undoing"
  BY <1>1, ClientPaths DEF Path, Done, Moving, ModTypeOK
<1>2. CASE cli[c] = "leaving"
  BY <1>2, ClientPaths DEF Path, Done, Moving, ModTypeOK
<1> QED BY <1>1, <1>2

LEMMA UndoneType ==
  ASSUME NEW c \in Clients, ModTypeOK, Moving = {c}, UNCHANGED <<base, reg>>, Undone(c)
  PROVE  ModTypeOK'
<1>1. /\ UndoPath(Path(c), c) /\ step \in 1..Len(Path(c))
      /\ cli[c] \in {"undoing", "leaving"}
  BY UndoingPath DEF Undone
<1>2. cli' = cli /\ linked' = linked /\ late' = late /\ step' = step + 1
  BY DEF Undone, linkVars
<1>3. Path(c)' = Path(c)
  BY <1>2 DEF Path
<1>4. step # Len(Path(c))
  BY <1>1 DEF UndoPath, Undone, At
<1>5. step' \in 1..Len(Path(c)')
  BY <1>1, <1>2, <1>3, <1>4 DEF UndoPath
<1>6. has' \in [Clients -> SUBSET Resources] /\ waits' \subseteq Events
  BY DEF Undone, ModTypeOK, Flushable, Running
<1> QED
  BY <1>2, <1>5, <1>6, MovesAlone DEF ModTypeOK

LEMMA UnlinkedType ==
  ASSUME NEW c \in Clients, ModTypeOK, Moving = {c}, UNCHANGED <<base, reg>>, Unlinked(c)
  PROVE  ModTypeOK'
<1>1. /\ cli' = [cli EXCEPT ![c] = "unbound"] /\ linked' = linked \ {c}
      /\ late' = late \ {c} /\ has' = has /\ waits' = waits
  BY DEF Unlinked, Unlink
<1> QED
  BY <1>1, MovesAlone DEF ModTypeOK, Moving
-----------------------------------------------------------------------------
(* What the clients have *)

\* A step of one client concerns no other.
LEMMA OthersDone ==
  ASSUME NEW c, NEW d \in Clients, d # c, Moving \subseteq {c}, cli'[d] = cli[d]
  PROVE  Done(d)' = Done(d) /\ \A x : ~Missing(d, x) /\ ~(Missing(d, x)')
<1>1. cli[d] \in {"absent", "unbound", "bound"}
  BY DEF Moving
<1> QED BY <1>1 DEF Done, Missing

LEMMA OwnAlone ==
  ASSUME NEW c \in Clients, OwnInv, HandlerInv, Moving \subseteq {c},
         \A d \in Clients \ {c} :
            cli'[d] = cli[d] /\ has'[d] = has[d] /\ (d \in linked' <=> d \in linked),
         \A e \in handlers' : e \in handlers \/ Owner[e] = c,
         Own(c)'
  PROVE  OwnInv' /\ HandlerInv'
<1>1. ASSUME NEW d \in Clients \ {c} PROVE Own(d)'
  <2>1. Done(d)' = Done(d) /\ \A x : ~Missing(d, x) /\ ~(Missing(d, x)')
    BY OthersDone
  <2>2. Own(d)
    BY DEF OwnInv
  <2> QED BY <2>1, <2>2 DEF Own
<1> QED
  BY <1>1 DEF OwnInv, HandlerInv

\* What a client has does not depend on anything else.
LEMMA OwnUnchanged ==
  ASSUME OwnInv, HandlerInv, UNCHANGED cliVars, handlers' \subseteq handlers
  PROVE  OwnInv' /\ HandlerInv'
<1>1. \A c \in Clients : Done(c)' = Done(c) /\ \A x : Missing(c, x)' <=> Missing(c, x)
  BY DEF Done, Missing, cliVars
<1> QED
  BY <1>1 DEF OwnInv, Own, HandlerInv, cliVars, linkVars

\* What a client lacks is what it is about to free.
LEMMA MissingIsNext ==
  ASSUME NEW c \in Clients, NEW x, ModTypeOK, Missing(c, x)
  PROVE  /\ cli[c] = "undoing" /\ c \in Moving
         /\ Path(c)[step] = <<"alloc", x>>
BY DEF Missing, Path, Undo, DtxUndo, Moving

\* A step of a probe function adds what it sets up.  The remove function will
\* undo all of it.
LEMMA StepsOnOwn ==
  ASSUME NEW c \in Clients, ModTypeOK, OwnInv, HandlerInv, Moving = {c}, StepsOn(c)
  PROVE  /\ OwnInv' /\ HandlerInv'
         /\ \A x : <<"handler", x>> \in Done(c) => <<"handler", x>> \in Done(c)'
<1> DEFINE p == Setup[c]
<1>1. cli[c] = "probing" /\ Path(c) = p /\ step \in 1..Len(p)
  BY DEF ModTypeOK, StepsOn, Path
<1>2. Done(c) = Before(p, step)
  BY <1>1 DEF Done
<1>3. SetupPath(p, Label[c], Undo[c], c) /\ SetupWhole(p, Teardown[c]) /\ UndoPath(Teardown[c], c)
  BY ClientPaths
<1>4. p[step] = <<p[step][1], p[step][2]>> /\ What(c) = p[step][2]
  BY <1>1, <1>3 DEF SetupPath, What
<1>5. \A k : At(c, k) <=> p[step][1] = k
  BY <1>1 DEF At
<1> DEFINE D == Done(c) \union {p[step]}
<1>6. /\ has' = [has EXCEPT ![c] = IF At(c, "alloc") THEN @ \union {What(c)} ELSE @]
      /\ linked' = IF At(c, "link") THEN linked \union {c} ELSE linked
      /\ handlers' = IF At(c, "handler") THEN handlers \union {What(c)} ELSE handlers
  BY DEF StepsOn, StepDone
<1>7. Own(c) /\ \A x : ~Missing(c, x)
  BY <1>1 DEF OwnInv, Missing
<1>8. /\ \A x \in has'[c] : x \in Stale(c) \/ <<"alloc", x>> \in D
      /\ \A x \in Resources : <<"alloc", x>> \in D => x \in has'[c]
  <2>1. CASE At(c, "alloc")
    <3>1. has'[c] = has[c] \union {p[step][2]} /\ p[step] = <<"alloc", p[step][2]>>
      BY <1>4, <1>5, <1>6, <2>1 DEF ModTypeOK
    <3> QED BY <1>7, <3>1 DEF Own
  <2>2. CASE ~At(c, "alloc")
    <3>1. has'[c] = has[c] /\ \A x : p[step] # <<"alloc", x>>
      BY <1>4, <1>5, <1>6, <2>2 DEF ModTypeOK
    <3> QED BY <1>7, <3>1 DEF Own
  <2> QED BY <2>1, <2>2
<1>9. c \in linked' <=> <<"link", "ec">> \in D
  <2>1. p[1] = <<"link", "ec">> /\ (p[step][1] = "link" => step = 1)
    BY <1>1, <1>3 DEF SetupPath
  <2>2. CASE step = 1
    BY <1>5, <1>6, <2>1, <2>2
  <2>3. CASE step # 1
    BY <1>5, <1>6, <1>7, <2>1, <2>3 DEF Own
  <2> QED BY <2>2, <2>3
<1>10. \A e \in handlers' : Owner[e] = c => <<"handler", e>> \in D
  <2>1. CASE At(c, "handler")
    BY <1>4, <1>5, <1>6, <1>7, <2>1 DEF Own
  <2>2. CASE ~At(c, "handler")
    BY <1>6, <1>7, <2>2 DEF Own
  <2> QED BY <2>1, <2>2
<1>11. Len(p) \in Nat /\ D = Before(p, step + 1)
  BY <1>1, <1>2, <1>3 DEF SetupPath, Before
<1>12. \A e \in handlers' : e \in handlers \/ Owner[e] = c
  BY <1>1, <1>3, <1>4, <1>5, <1>6 DEF SetupPath
<1>15. Done(c) \subseteq D
  OBVIOUS
<1> HIDE DEF p, D
<1>13. CASE step = Len(p)
  <2>1. cli' = [cli EXCEPT ![c] = "bound"]
    BY <1>13 DEF StepsOn, StepDone, p
  <2>2. Done(c)' = From(Teardown[c], 1)
    BY <2>1 DEF Done, ModTypeOK
  <2>3. D = {p[i] : i \in 1..Len(p)}
    BY <1>11, <1>13 DEF Before
  <2>4. ASSUME NEW x PROVE <<"alloc", x>> \in D <=> <<"alloc", x>> \in Done(c)'
    <3>1. <<"alloc", x>>[1] = "alloc"
      OBVIOUS
    <3>2. <<"alloc", x>> \in D => <<"alloc", x>> \in Done(c)'
      BY <1>3, <2>2, <2>3, <3>1 DEF SetupWhole, From
    <3>3. <<"alloc", x>> \in Done(c)' => <<"alloc", x>> \in D
      BY <1>3, <2>2, <2>3, <3>1 DEF SetupWhole, From
    <3> QED BY <3>2, <3>3
  <2>5. ASSUME NEW x, <<"handler", x>> \in D PROVE <<"handler", x>> \in Done(c)'
    <3>1. <<"handler", x>>[1] = "handler"
      OBVIOUS
    <3> QED BY <1>3, <2>2, <2>3, <2>5, <3>1 DEF SetupWhole, From
  <2>6. <<"link", "ec">> \in D /\ <<"link", "ec">> \in Done(c)'
    BY <1>3, <2>2, <2>3 DEF SetupPath, UndoPath, From
  <2>7. Own(c)'
    BY <1>8, <1>9, <1>10, <2>4, <2>5, <2>6 DEF Own
  <2>8. \A d \in Clients \ {c} :
            cli'[d] = cli[d] /\ has'[d] = has[d] /\ (d \in linked' <=> d \in linked)
    BY <1>6, <2>1 DEF ModTypeOK
  <2> QED
    BY <1>12, <1>15, <2>5, <2>7, <2>8, OwnAlone
<1>14. CASE step # Len(p)
  <2>1. cli' = cli /\ step' = step + 1
    BY <1>14 DEF StepsOn, StepDone, p
  <2>2. Done(c)' = D
    BY <1>1, <1>11, <2>1 DEF Done, p
  <2>3. Own(c)'
    BY <1>8, <1>9, <1>10, <2>2 DEF Own
  <2>4. \A d \in Clients \ {c} :
            cli'[d] = cli[d] /\ has'[d] = has[d] /\ (d \in linked' <=> d \in linked)
    BY <1>6, <2>1 DEF ModTypeOK
  <2> QED
    BY <1>12, <1>15, <2>2, <2>3, <2>4, OwnAlone
<1> QED BY <1>13, <1>14

\* A probe function that fails goes on to undo what it has done, but for what
\* its last step loses and what is left behind.
LEMMA FailsOwn ==
  ASSUME NEW c \in Clients, ModTypeOK, OwnInv, HandlerInv, Moving = {c}, Fails(c)
  PROVE  /\ OwnInv' /\ HandlerInv'
         /\ \A x : <<"handler", x>> \in Done(c) => <<"handler", x>> \in Done(c)'
<1> DEFINE p == Setup[c]
           u == Undo[c]
           l == Label[c][step]
           L == Lost(p, step)
<1>1. cli[c] = "probing" /\ step \in 1..Len(p) /\ Done(c) = Before(p, step) /\ Path(c) = p
  BY DEF ModTypeOK, Fails, Path, Done
<1>2. SetupPath(p, Label[c], u, c) /\ UndoPath(u, c)
  BY ClientPaths
<1>3. l \in Nat \ {0} /\ (l \in 1..Len(u) <=> step # 1)
  BY <1>1, <1>2 DEF SetupPath
<1>4. /\ linked' = linked /\ handlers' = handlers
      /\ \A d \in Clients \ {c} : cli'[d] = cli[d] /\ has'[d] = has[d]
  BY DEF Fails, ProbeFailed, ModTypeOK, linkVars
<1>5. Own(c) /\ \A x : ~Missing(c, x)
  BY <1>1 DEF OwnInv, Missing
<1>6. /\ \A i \in 1..(step-1) :
           p[i][1] \in {"alloc", "handler"} =>
                \/ p[i][1] = "alloc" /\ p[i][2] \in Stale(c) \union L
                \/ \E j \in l..Len(u) : u[j] = p[i]
      /\ \A j \in l..Len(u) :
           u[j][1] = "alloc" =>
                /\ \E i \in 1..(step-1) : p[i] = u[j]
                /\ u[j][2] \in L =>
                    c = "dtx" /\ u[j][2] = "input" /\ p[step][2] = "active" /\ l = 4
      /\ L # {} => "lost" \in Stale(c)
  BY <1>1, <1>2, Zenon DEF SetupPath
<1>7. has'[c] = (has[c] \ L) \union (IF L # {} THEN {"lost"} ELSE {})
  BY <1>1 DEF Fails, ProbeFailed, ModTypeOK, Lost, At, What
<1>8. L # {} => At(c, "alloc") /\ What(c) = p[step][2] /\ L = {Loses[p[step][2]]}
  BY <1>1 DEF Lost, At, What
<1> HIDE DEF p, u, l, L
<1>9. CASE step # 1
  <2>1. cli'[c] = "undoing" /\ step' = l
    BY <1>3, <1>9 DEF Fails, ProbeFailed, Unwind, ModTypeOK, u, l
  <2>2. Done(c)' = From(u, l)
    BY <2>1 DEF Done, u
  <2>3. \A x : <<"alloc", x>> \in Done(c) => x \in Stale(c) \union L \/ <<"alloc", x>> \in From(u, l)
    <3> SUFFICES ASSUME NEW x, <<"alloc", x>> \in Before(p, step)
                 PROVE  x \in Stale(c) \union L \/ <<"alloc", x>> \in From(u, l)
      BY <1>1
    <3>1. PICK i \in 1..(step - 1) : p[i] = <<"alloc", x>>
      BY DEF Before
    <3>2. p[i][1] = "alloc" /\ p[i][2] = x
      BY <3>1
    <3> QED BY <1>6, <3>1, <3>2 DEF From
  <2>4. \A x : <<"handler", x>> \in Done(c) => <<"handler", x>> \in From(u, l)
    <3> SUFFICES ASSUME NEW x, <<"handler", x>> \in Before(p, step)
                 PROVE  <<"handler", x>> \in From(u, l)
      BY <1>1
    <3>1. PICK i \in 1..(step - 1) : p[i] = <<"handler", x>>
      BY DEF Before
    <3>2. p[i][1] = "handler"
      BY <3>1
    <3> QED BY <1>6, <3>1, <3>2 DEF From
  <2>5. ASSUME NEW x \in Resources, <<"alloc", x>> \in From(u, l)
        PROVE  x \in has'[c] \/ Missing(c, x)'
    <3>1. PICK j \in l..Len(u) : u[j] = <<"alloc", x>>
      BY <2>5 DEF From
    <3>2. u[j][1] = "alloc" /\ u[j][2] = x
      BY <3>1
    <3>3. <<"alloc", x>> \in Done(c)
      BY <1>1, <1>6, <3>1, <3>2 DEF Before
    <3>4. x \in has[c]
      BY <1>5, <3>3 DEF Own
    <3>5. CASE x \notin L
      BY <1>7, <3>4, <3>5
    <3>6. CASE x \in L
      <4>1. c = "dtx" /\ x = "input" /\ p[step][2] = "active" /\ l = 4
        BY <1>6, <3>1, <3>2, <3>6
      <4>2. "active" \in has[c] /\ L = {"input"}
        BY <1>8, <3>6, <4>1 DEF Fails, Loses
      <4>3. {"active", "lost"} \subseteq has'[c]
        BY <1>7, <4>2
      <4> QED BY <2>1, <4>1, <4>3 DEF Missing
    <3> QED BY <3>5, <3>6
  <2>6. <<"link", "ec">> \in Done(c) /\ <<"link", "ec">> \in From(u, l)
    <3>1. /\ p[1] = <<"link", "ec">> /\ u[Len(u)] = <<"link", "ec">>
          /\ Len(u) \in Nat
      BY <1>2 DEF SetupPath, UndoPath
    <3>2. 1 \in 1..(step-1) /\ Len(u) \in l..Len(u)
      BY <1>1, <1>3, <1>9, <3>1
    <3> QED BY <1>1, <3>1, <3>2 DEF Before, From
  <2>7. \A x \in has'[c] : x \in Stale(c) \/ <<"alloc", x>> \in From(u, l)
    BY <1>5, <1>6, <1>7, <2>3 DEF Own
  <2>8. Own(c)'
    BY <1>4, <1>5, <2>2, <2>4, <2>5, <2>6, <2>7 DEF Own
  <2> QED BY <1>4, <2>2, <2>4, <2>8, OwnAlone
<1>10. CASE step = 1
  <2>1. cli'[c] = "unbound"
    BY <1>3, <1>10 DEF Fails, ProbeFailed, Unwind, ModTypeOK, u, l
  <2>2. Done(c) = {} /\ Done(c)' = {}
    BY <1>1, <1>10, <2>1 DEF Done, Before
  <2>3. \A x \in has'[c] : x \in Stale(c)
    BY <1>5, <1>6, <1>7, <2>2 DEF Own
  <2>4. Own(c)'
    BY <1>4, <1>5, <2>2, <2>3 DEF Own
  <2> QED BY <1>4, <2>2, <2>4, OwnAlone
<1> QED BY <1>9, <1>10

\* What is left to undo after a step is undone
LEMMA UndoneDone ==
  ASSUME NEW c \in Clients, ModTypeOK, Undone(c)
  PROVE  /\ Done(c)' = From(Path(c), step + 1)
         /\ Done(c) = Done(c)' \union {Path(c)[step]}
         /\ Path(c)' = Path(c) /\ cli' = cli
<1> DEFINE p == Path(c)
<1>1. /\ UndoPath(p, c) /\ Done(c) = From(p, step) /\ step \in 1..Len(p)
      /\ cli[c] \in {"undoing", "leaving"}
  BY UndoingPath DEF Undone
<1>2. Done(c)' = From(p, step + 1) /\ p' = p /\ cli' = cli
  BY <1>1 DEF Undone, Done, Path
<1>3. Len(p) \in Nat
  BY <1>1 DEF UndoPath
<1> HIDE DEF p
<1>4. Done(c) = From(p, step + 1) \union {p[step]}
  BY <1>1, <1>3 DEF From
<1> QED BY <1>2, <1>4 DEF p

\* A step that is undone takes away just that.
LEMMA UndoneOwn ==
  ASSUME NEW c \in Clients, ModTypeOK, OwnInv, HandlerInv, Moving = {c}, Undone(c)
  PROVE  OwnInv' /\ HandlerInv'
<1> DEFINE p == Path(c)
           D == From(p, step + 1)
<1>1. UndoPath(p, c) /\ step \in 1..Len(p)
  BY UndoingPath DEF Undone
<1>2. Len(p) \in Nat /\ p[step] = <<p[step][1], p[step][2]>> /\ What(c) = p[step][2]
  BY <1>1 DEF UndoPath, What
<1>3. \A k : At(c, k) <=> p[step][1] = k
  BY DEF At
<1>4. Done(c)' = D /\ Done(c) = D \union {p[step]} /\ cli' = cli
  BY UndoneDone
<1>5. /\ has' = [has EXCEPT ![c] = IF At(c, "alloc") THEN @ \ {What(c)} ELSE @]
      /\ handlers' = IF At(c, "handler") THEN handlers \ {What(c)} ELSE handlers
      /\ linked' = linked
  BY DEF Undone, linkVars
<1>6. Own(c)
  BY DEF OwnInv
<1>7. \A x : Missing(c, x) => p[step] = <<"alloc", x>>
  BY MissingIsNext
<1>8. p[step][1] \in {"alloc", "handler"} => p[step] \notin D
  <2> SUFFICES ASSUME p[step][1] \in {"alloc", "handler"}, p[step] \in D PROVE FALSE
    OBVIOUS
  <2>1. PICK j \in (step + 1)..Len(p) : p[j] = p[step]
    BY DEF From
  <2>2. j \in 1..Len(p)
    BY <1>1, <1>2
  <2>3. j = step
    BY <1>1, <2>1, <2>2 DEF UndoPath
  <2> QED BY <1>1, <2>3
<1>9. p[step][1] # "link"
  BY <1>3 DEF Undone
<1> HIDE DEF p, D
<1>10. /\ \A x \in has'[c] : x \in Stale(c) \/ <<"alloc", x>> \in D
       /\ \A x \in Resources : <<"alloc", x>> \in D => x \in has'[c]
  <2>1. CASE At(c, "alloc")
    <3>1. has'[c] = has[c] \ {p[step][2]} /\ p[step] = <<"alloc", p[step][2]>>
      BY <1>2, <1>3, <1>5, <2>1 DEF ModTypeOK
    <3>2. \A x : <<"alloc", x>> = p[step] => x = p[step][2]
      BY <3>1
    <3>3. p[step] \notin D
      BY <1>8, <3>1
    <3> QED BY <1>4, <1>6, <1>7, <3>1, <3>2, <3>3 DEF Own
  <2>2. CASE ~At(c, "alloc")
    <3>1. has'[c] = has[c] /\ \A x : p[step] # <<"alloc", x>>
      BY <1>2, <1>3, <1>5, <2>2 DEF ModTypeOK
    <3> QED BY <1>4, <1>6, <1>7, <3>1 DEF Own
  <2> QED BY <2>1, <2>2
<1>11. c \in linked' <=> <<"link", "ec">> \in D
  BY <1>2, <1>4, <1>5, <1>6, <1>9 DEF Own
<1>12. \A e \in handlers' : Owner[e] = c => <<"handler", e>> \in D
  <2>1. CASE At(c, "handler")
    <3>1. handlers' = handlers \ {p[step][2]} /\ p[step] = <<"handler", p[step][2]>>
      BY <1>2, <1>3, <1>5, <2>1
    <3> QED BY <1>4, <1>6, <3>1 DEF Own
  <2>2. CASE ~At(c, "handler")
    <3>1. handlers' = handlers /\ \A x : p[step] # <<"handler", x>>
      BY <1>2, <1>3, <1>5, <2>2
    <3> QED BY <1>4, <1>6, <3>1 DEF Own
  <2> QED BY <2>1, <2>2
<1>13. Own(c)'
  BY <1>4, <1>10, <1>11, <1>12 DEF Own
<1>14. \A d \in Clients \ {c} : has'[d] = has[d]
  BY <1>5 DEF ModTypeOK
<1>15. \A e \in handlers' : e \in handlers
  BY <1>5
<1> QED
  BY <1>4, <1>5, <1>13, <1>14, <1>15, OwnAlone

\* The link is the last that goes.
LEMMA UnlinkedOwn ==
  ASSUME NEW c \in Clients, ModTypeOK, OwnInv, HandlerInv, Moving = {c}, Unlinked(c)
  PROVE  /\ OwnInv' /\ HandlerInv'
         /\ Done(c) = {<<"link", "ec">>}
<1> DEFINE p == Path(c)
<1>1. /\ cli[c] \in {"undoing", "leaving"} /\ p[step][1] = "link"
      /\ linked' = linked \ {c} /\ cli' = [cli EXCEPT ![c] = "unbound"]
      /\ has' = has /\ handlers' = handlers
  BY DEF Unlinked, Unlink, Undoes, At
<1>2. UndoPath(p, c) /\ Done(c) = From(p, step) /\ step \in 1..Len(p)
  BY <1>1, UndoingPath
<1>3. Done(c) = {<<"link", "ec">>}
  <2>1. step = Len(p) /\ p[step] = <<"link", "ec">>
    BY <1>1, <1>2 DEF UndoPath
  <2>2. step..Len(p) = {step}
    BY <1>2, <2>1
  <2> QED BY <1>2, <2>1, <2>2 DEF From
<1>4. Done(c)' = {}
  BY <1>1 DEF Done, ModTypeOK
<1>5. Own(c)
  BY DEF OwnInv
<1>6. Own(c)'
  <2> HIDE DEF p
  <2>1. \A x \in has[c] : x \in Stale(c)
    BY <1>3, <1>5 DEF Own
  <2>2. \A e \in handlers : Owner[e] # c
    BY <1>3, <1>5 DEF Own
  <2> QED BY <1>1, <1>4, <2>1, <2>2 DEF Own
<1>7. \A d \in Clients \ {c} :
          cli'[d] = cli[d] /\ has'[d] = has[d] /\ (d \in linked' <=> d \in linked)
  BY <1>1 DEF ModTypeOK
<1> QED
  BY <1>1, <1>3, <1>6, <1>7, OwnAlone
-----------------------------------------------------------------------------
(* Handlers that run *)

\* One that has a handler is linked, and has what the handler needs.
LEMMA HandlerOwner ==
  ASSUME NEW c \in Clients, NEW e, ModTypeOK, Own(c), <<"handler", e>> \in Done(c)
  PROVE  c \in linked /\ Needs[e] \subseteq has[c]
<1> DEFINE p == Path(c)
<1>1. <<"handler", e>>[1] = "handler" /\ <<"handler", e>>[2] = e
  OBVIOUS
<1>2. ASSUME NEW q, NEW k \in Nat \ {0}, UndoPath(q, c), Done(c) = From(q, k)
      PROVE  /\ <<"link", "ec">> \in Done(c)
             /\ \A n \in Needs[e] :
                    n \in Resources /\ <<"alloc", n>> \in Done(c) /\ q[k] # <<"alloc", n>>
  <2>1. PICK i \in k..Len(q) : q[i] = <<"handler", e>>
    BY <1>2 DEF From
  <2>2. /\ i \in 1..Len(q) /\ Len(q) \in Nat /\ q[Len(q)] = <<"link", "ec">>
        /\ q[i][1] = "handler" /\ q[i][2] = e
    BY <1>1, <1>2, <2>1 DEF UndoPath
  <2>3. <<"link", "ec">> \in Done(c)
    BY <1>2, <2>1, <2>2 DEF From
  <2>4. ASSUME NEW n \in Needs[e]
        PROVE  n \in Resources /\ <<"alloc", n>> \in Done(c) /\ q[k] # <<"alloc", n>>
    <3>1. PICK j \in (i+1)..Len(q) : q[j] = <<"alloc", n>>
      BY <1>2, <2>2 DEF UndoPath
    <3>2. /\ j \in 1..Len(q) /\ j \in k..Len(q) /\ q[j][1] = "alloc" /\ q[j][2] = n
          /\ k \in 1..Len(q) /\ j # k
      BY <2>1, <2>2, <3>1
    <3>3. n \in Resources
      BY <1>2, <3>2 DEF UndoPath
    <3>4. q[k] # q[j]
      BY <1>2, <3>2 DEF UndoPath
    <3> QED BY <1>2, <3>1, <3>2, <3>3, <3>4 DEF From
  <2> QED BY <2>3, <2>4
<1>3. CASE cli[c] = "probing"
  <2> DEFINE s == Setup[c]
  <2>1. SetupPath(s, Label[c], Undo[c], c) /\ step \in 1..Len(s) /\ Done(c) = Before(s, step)
    BY <1>3, ClientPaths DEF ModTypeOK, Moving, Path, Done
  <2>6. \A x : ~Missing(c, x)
    BY <1>3 DEF Missing
  <2> HIDE DEF s
  <2>2. PICK i \in 1..(step-1) : s[i] = <<"handler", e>>
    BY <2>1 DEF Before
  <2>3. /\ i \in 1..Len(s) /\ s[1] = <<"link", "ec">> /\ 1 \in 1..(step-1)
        /\ Len(s) \in Nat /\ s[i][1] = "handler" /\ s[i][2] = e
    BY <1>1, <2>1, <2>2 DEF SetupPath
  <2>4. <<"link", "ec">> \in Done(c)
    BY <2>1, <2>3 DEF Before
  <2>5. ASSUME NEW n \in Needs[e]
        PROVE  n \in Resources /\ <<"alloc", n>> \in Done(c)
    <3>4. \A m \in Needs[s[i][2]] : \E j \in 1..(i-1) : s[j] = <<"alloc", m>>
      BY <2>1, <2>3, ZenonT(40) DEF SetupPath
    <3>1. PICK j \in 1..(i-1) : s[j] = <<"alloc", n>>
      BY <2>3, <2>5, <3>4, Zenon
    <3>2. j \in 1..Len(s) /\ j \in 1..(step-1) /\ s[j][1] = "alloc" /\ s[j][2] = n
      BY <2>1, <2>2, <2>3, <3>1
    <3>3. n \in Resources
      BY <2>1, <3>2 DEF SetupPath
    <3> QED BY <2>1, <3>1, <3>2, <3>3 DEF Before
  <2> QED BY <2>4, <2>5, <2>6 DEF Own
<1>4. CASE cli[c] = "bound"
  <2>1. /\ UndoPath(Teardown[c], c) /\ Done(c) = From(Teardown[c], 1)
        /\ 1 \in Nat \ {0}
    BY <1>4, ClientPaths DEF Done
  <2>2. \A x : ~Missing(c, x)
    BY <1>4 DEF Missing
  <2> QED BY <1>2, <2>1, <2>2 DEF Own
<1>5. CASE cli[c] \in {"undoing", "leaving"}
  <2>1. UndoPath(p, c) /\ Done(c) = From(p, step) /\ step \in Nat \ {0}
    BY <1>5, UndoingPath
  <2>2. \A x : Missing(c, x) => p[step] = <<"alloc", x>>
    BY MissingIsNext
  <2> HIDE DEF p
  <2>3. /\ <<"link", "ec">> \in Done(c)
        /\ \A n \in Needs[e] :
               n \in Resources /\ <<"alloc", n>> \in Done(c) /\ p[step] # <<"alloc", n>>
    BY <1>2, <2>1
  <2> QED BY <2>2, <2>3 DEF Own
<1>6. CASE cli[c] \in {"absent", "unbound"}
  BY <1>6 DEF Done
<1> QED
  BY <1>3, <1>4, <1>5, <1>6 DEF ModTypeOK

\* What moves is at a flush only when it undoes.
LEMMA FlushingOwner ==
  ASSUME NEW c \in Clients, NEW e, ModTypeOK, Own(c), c \in Moving,
         Path(c)[step] = <<"flush", e>>
  PROVE  /\ cli[c] \in {"undoing", "leaving"}
         /\ Owner[e] = c /\ c \in linked /\ Needs[e] \subseteq has[c]
<1>1. /\ cli[c] \in {"probing", "undoing", "leaving"} /\ step \in 1..Len(Path(c))
      /\ Path(c)[step][1] = "flush" /\ Path(c)[step][2] = e
  BY DEF ModTypeOK, Moving
<1>2. cli[c] # "probing"
  BY <1>1, ClientPaths DEF Path, SetupPath
<1> DEFINE p == Path(c)
<1>3. UndoPath(p, c) /\ Done(c) = From(p, step)
  BY <1>1, <1>2, UndoingPath
<1>8. \A x : ~Missing(c, x)
  BY MissingIsNext
<1> HIDE DEF p
<1>4. p[step][1] = "flush" /\ p[step][2] = e /\ step \in 1..Len(p)
  BY <1>1 DEF p
<1>5. Len(p) \in Nat /\ Owner[e] = c
  BY <1>3, <1>4 DEF UndoPath
<1>6. c \in linked
  BY <1>3, <1>4, <1>5 DEF Own, UndoPath, From
<1>7. ASSUME NEW n \in Needs[e] PROVE n \in has[c]
  <2>1. PICK j \in (step+1)..Len(p) : p[j] = <<"alloc", n>>
    BY <1>3, <1>4 DEF UndoPath
  <2>2. j \in 1..Len(p) /\ j \in step..Len(p) /\ p[j][1] = "alloc" /\ p[j][2] = n
    BY <1>4, <1>5, <2>1
  <2>3. n \in Resources
    BY <1>3, <2>2 DEF UndoPath
  <2> QED BY <1>3, <1>8, <2>1, <2>2, <2>3 DEF Own, From
<1> QED BY <1>1, <1>2, <1>5, <1>6, <1>7

\* The handlers that run after a step of a client
LEMMA MoveRun ==
  ASSUME NEW c \in Clients, ModTypeOK, OwnInv, HandlerInv, Moving = {c}, run' = run, RunInv,
         DriverInv,
         \/ StepsOn(c) \/ Fails(c) \/ Undone(c) \/ Unlinked(c)
         \/ UNCHANGED <<cliVars, handlers, waits>>
  PROVE  RunInv'
<1> SUFFICES ASSUME NEW e \in Events \ Immediate, run[e] # "idle"
             PROVE  Kept(e)' \/ Flushing(e)'
  BY DEF RunInv
<1>1. Kept(e) \/ Flushing(e)
  BY DEF RunInv
<1>2. Flushing(e) => At(c, "flush") /\ cli[c] \in {"undoing", "leaving"} /\ e \in waits
  BY FlushingOwner DEF Flushing, At, OwnInv
<1>3. CASE UNCHANGED <<cliVars, handlers, waits>>
  BY <1>1, <1>3 DEF Kept, Done, Flushing, Moving, Path, cliVars
<1>4. ASSUME Kept(e), Owner[e] # c, \A d \in Clients \ {c} : cli'[d] = cli[d]
      PROVE  Kept(e)'
  BY <1>4, OthersDone DEF Kept
<1>5. CASE StepsOn(c) \/ Fails(c)
  <2>1. Kept(e) /\ \A d \in Clients \ {c} : cli'[d] = cli[d]
    BY <1>1, <1>2, <1>5 DEF StepsOn, StepDone, Fails, ProbeFailed, ModTypeOK
  <2>2. CASE Owner[e] = c
    BY <1>5, <2>1, <2>2, StepsOnOwn, FailsOwn DEF Kept
  <2> QED BY <1>4, <2>1, <2>2
<1>6. CASE Unlinked(c)
  <2>1. Kept(e) /\ \A d \in Clients \ {c} : cli'[d] = cli[d]
    BY <1>1, <1>2, <1>6 DEF Unlinked, Unlink, Undoes, At, ModTypeOK
  <2>2. <<"handler", e>> \notin Done(c)
    BY <1>6, UnlinkedOwn
  <2> QED BY <1>4, <2>1, <2>2 DEF Kept
<1>7. CASE Undone(c)
  <2>1. Kept(e) /\ \A d \in Clients \ {c} : cli'[d] = cli[d]
    BY <1>1, <1>2, <1>7 DEF Undone
  <2>2. CASE Owner[e] = c /\ Path(c)[step] # <<"handler", e>>
    BY <1>7, <2>1, <2>2, UndoneDone DEF Kept
  <2>3. CASE Path(c)[step] = <<"handler", e>>
    <3> DEFINE p == Path(c)
    <3>1. UndoPath(p, c) /\ step \in 1..Len(p)
      BY <1>7, UndoingPath DEF Undone
    <3>2. p[step][1] = "handler" /\ p[step][2] = e
      BY <2>3
    <3>3. p[step + 1] = <<"flush", e>>
      BY <3>1, <3>2 DEF UndoPath
    <3>4. Moving' = {c} /\ Path(c)'[step'] = <<"flush", e>>
      BY <1>7, <3>3, UndoneDone DEF Undone, Moving
    <3>5. At(c, "handler")
      BY <3>2 DEF At
    <3>6. e \in waits'
      BY <1>7, <3>5 DEF Undone, Flushable, Running
    <3> QED BY <3>4, <3>6 DEF Flushing
  <2> QED BY <1>4, <2>1, <2>2, <2>3
<1> QED BY <1>3, <1>5, <1>6, <1>7
-----------------------------------------------------------------------------
(* The module as a whole *)

ClientInv == ModTypeOK /\ OwnInv /\ HandlerInv /\ RunInv

ModuleInv == IInv /\ DriverInv /\ ClientInv /\ QuietInv /\ RegInv

\* Steps of the driver and of threads that leave the clients alone: they touch
\* handlers only to take all of them away.
DriverStep == \/ BindSerial \/ UnbindSerial \/ CallRemove \/ RemoveSerial \/ SuspendSerial
              \/ Within

LEMMA EventsKept ==
  ASSUME DriverStep, QuietInv
  PROVE  UNCHANGED <<modVars, run>> /\ handlers' \subseteq handlers /\ QuietInv'
<1> USE DEF QuietInv, Silent, eventVars
<1>1. CASE BindSerial \/ UnbindSerial \/ CallRemove \/ RemoveSerial \/ SuspendSerial
  BY <1>1 DEF BindSerial, UnbindSerial, CallRemove, RemoveSerial, SuspendSerial, ProbeBegin,
              UnbindBegin, RemoveBegin, RemoveLock, Suspend
<1>2. CASE Probing /\ UNCHANGED modVars
  BY <1>2 DEF Probing, ProbeAlloc, AllocFails, ProbeInit, ProbeOpen, ProbeSetup, ProbeResume,
              ProbeDone, ProbeFails, ProbeUndo
<1>3. CASE (UnregisterAttr \/ RemoveSuspend \/ PowerDone \/ Resume) /\ UNCHANGED modVars
  BY <1>3 DEF UnregisterAttr, RemoveSuspend, PowerDone, SuspendDone, ResumeDone, Resume
<1>4. CASE RemoveFlushed /\ UNCHANGED modVars
  BY <1>4 DEF RemoveFlushed, Flushable, Running
<1>5. CASE RemoveClose /\ UNCHANGED modVars
  BY <1>5 DEF RemoveClose
<1>6. CASE (User \/ DebugEnter \/ Debug) /\ UNCHANGED modVars
  BY <1>6 DEF User, UserRqst, UserDone, DebugEnter, Debug, DebugRqst, DebugRefused, DebugDone,
              probeVars
<1> QED BY <1>1, <1>2, <1>3, <1>4, <1>5, <1>6 DEF Within, DriverStep

LEMMA ClientsUnchanged ==
  ASSUME ClientInv, RegInv, UNCHANGED <<modVars, run>>, handlers' \subseteq handlers
  PROVE  ClientInv' /\ RegInv'
<1>1. OwnInv' /\ HandlerInv'
  BY OwnUnchanged DEF ClientInv, modVars
<1>2. Moving' = Moving /\ \A c : Path(c)' = Path(c)
  BY DEF modVars, cliVars, Moving, Path
<1>3. ModTypeOK'
  BY <1>2 DEF ClientInv, ModTypeOK, modVars, cliVars, linkVars
<1>4. \A e : (Flushing(e) => Flushing(e)') /\ (Kept(e) => Kept(e)')
  BY <1>2 DEF Flushing, Kept, Done, modVars, cliVars
<1>5. RunInv'
  BY <1>4 DEF ClientInv, RunInv
<1>6. RegInv'
  BY DEF RegInv, modVars, cliVars
<1> QED BY <1>1, <1>3, <1>5, <1>6 DEF ClientInv

LEMMA DriverMoves ==
  ASSUME ModuleInv, DriverStep
  PROVE  DriverInv' /\ ClientInv' /\ QuietInv' /\ RegInv'
<1>1. \/ Probing \/ Removing \/ PowerDone \/ Resume \/ Suspend \/ ProbeBegin \/ UnbindBegin
      \/ RemoveBegin \/ User \/ DebugEnter \/ Debug
  BY DEF DriverStep, BindSerial, UnbindSerial, CallRemove, RemoveSerial, SuspendSerial, Within,
         Removing
<1>2. DriverInv'
  BY <1>1, DriverStepType, ThreadStepType DEF ModuleInv
<1> QED
  BY <1>2, EventsKept, ClientsUnchanged DEF ModuleInv

\* What does not concern the driver
LEMMA DriverUnchanged ==
  ASSUME DriverInv, QuietInv, UNCHANGED drvVars
  PROVE  DriverInv' /\ QuietInv' /\ UNCHANGED <<handlers, run>>
<1>1. FlagsOK' /\ ClosedInv'
  BY DEF DriverInv, FlagsOK, ClosedInv, drvVars, probeVars, debugVars
<1>2. OthersOK'
  BY DEF DriverInv, OthersOK, drvVars, probeVars, debugVars, eventVars
<1>3. QuietInv' /\ UNCHANGED <<handlers, run>>
  BY DEF QuietInv, drvVars, probeVars, eventVars
<1> QED BY <1>1, <1>2, <1>3 DEF DriverInv

\* Loading and unloading
LEMMA BaseReg ==
  ASSUME ModTypeOK, RegInv, Base
  PROVE  RegInv'
<1>1. Order[1] \notin Clients /\ Len(Order) = 5
  BY ModuleAssumption DEF Order
<1>2. UNCHANGED cli
  BY DEF Base, Load, Register, RegisterFails, Exit, Unregister, cliVars
<1>3. CASE Load \/ RegisterFails \/ Exit
  BY <1>2, <1>3 DEF RegInv, Load, RegisterFails, Exit
<1>4. CASE Register
  <2>1. reg \in Nat /\ reg' = reg + 1 /\ base' # "out"
    BY <1>1, <1>4 DEF ModTypeOK, Register
  <2> QED BY <1>2, <2>1 DEF RegInv
<1>5. CASE Unregister
  <2>1. reg \in Nat /\ reg > 0 /\ reg' = reg - 1 /\ (base' = "out" <=> reg' = 0)
    BY <1>1, <1>5 DEF ModTypeOK, Unregister
  <2>2. Order[reg] \in Clients => cli[Order[reg]] \in {"absent", "unbound"}
    BY <1>1, <1>5 DEF Unregister
  <2>3. ASSUME NEW c \in Clients, cli[c] \notin {"absent", "unbound"}
        PROVE  \E i \in 1..reg' : Order[i] = c
    <3>1. PICK i \in 1..reg : Order[i] = c
      BY <2>3 DEF RegInv
    <3>2. i # reg
      BY <2>2, <2>3, <3>1
    <3> QED BY <2>1, <3>1, <3>2
  <2> QED BY <1>2, <2>1, <2>3 DEF RegInv
<1> QED BY <1>3, <1>4, <1>5 DEF Base

LEMMA BaseMoves ==
  ASSUME ModuleInv, Base
  PROVE  DriverInv' /\ ClientInv' /\ QuietInv' /\ RegInv'
<1>1. UNCHANGED <<drvVars, cli, linkVars, step, waits>>
  BY DEF Base, Load, Register, RegisterFails, Exit, Unregister, cliVars
<1>2. DriverInv' /\ QuietInv' /\ UNCHANGED <<handlers, run>>
  BY <1>1, DriverUnchanged DEF ModuleInv
<1>3. RegInv'
  BY BaseReg DEF ModuleInv, ClientInv
<1>4. Moving' = Moving /\ \A c : Path(c)' = Path(c) /\ Done(c)' = Done(c)
  BY <1>1 DEF Moving, Path, Done
<1>5. RunInv'
  BY <1>1, <1>2, <1>4 DEF ModuleInv, ClientInv, RunInv, Kept, Flushing
<1>6. CASE Load
  <2>1. \A c \in Clients : cli[c] \in {"absent", "unbound"}
    BY <1>6 DEF ModuleInv, ClientInv, RegInv, Load
  <2>2. \A c \in Clients : Done(c) = {} /\ has'[c] \subseteq has[c]
    BY <1>6, <2>1 DEF Done, Load, ModuleInv, ClientInv, ModTypeOK
  <2>3. OwnInv' /\ HandlerInv'
    BY <1>1, <1>2, <1>4, <2>2 DEF ModuleInv, ClientInv, OwnInv, Own, HandlerInv, linkVars
  <2>4. has' \in [Clients -> SUBSET Resources]
    BY <1>6 DEF ModuleInv, ClientInv, ModTypeOK, Load
  <2>5. Len(Order) = 5
    BY DEF Order
  <2>6. reg = 0 /\ reg' = 0 /\ base' = "loading"
    BY <1>6 DEF ModuleInv, RegInv, Load
  <2>7. ModTypeOK'
    BY <1>1, <1>4, <2>4, <2>5, <2>6 DEF ModuleInv, ClientInv, ModTypeOK, linkVars
  <2> QED BY <1>2, <1>3, <1>5, <2>3, <2>7 DEF ClientInv
<1>7. CASE ~Load
  <2>1. UNCHANGED <<cliVars, waits>>
    BY <1>7 DEF Base, Register, RegisterFails, Exit, Unregister
  <2>2. OwnInv' /\ HandlerInv'
    BY <1>2, <2>1, OwnUnchanged DEF ModuleInv, ClientInv
  <2>3. /\ base' \in {"out", "loading", "loaded", "leaving"} /\ reg' \in 0..Len(Order)
        /\ base' \in {"out", "loading"} => reg' < Len(Order)
        /\ base' \in {"loaded", "leaving"} => reg' > 0
    <3>1. Len(Order) = 5
      BY DEF Order
    <3> QED
      BY <1>7, <3>1
      DEF ModuleInv, ClientInv, ModTypeOK, Base, Register, RegisterFails, Exit, Unregister
  <2>4. ModTypeOK'
    BY <1>4, <2>1, <2>3 DEF ModuleInv, ClientInv, ModTypeOK, cliVars, linkVars
  <2> QED BY <1>2, <1>3, <1>5, <2>2, <2>4 DEF ClientInv
<1> QED BY <1>6, <1>7

\* A client starts on its way.
LEMMA StartMoves ==
  ASSUME ModuleInv, NEW c \in Clients, Bind(c) \/ Unbind(c)
  PROVE  DriverInv' /\ ClientInv' /\ QuietInv' /\ RegInv'
<1>1. /\ UNCHANGED <<drvVars, base, reg, linkVars, has, waits>>
      /\ Moving = {} /\ step' = 1
      /\ \/ cli[c] = "unbound" /\ cli' = [cli EXCEPT ![c] = "probing"]
         \/ cli[c] = "bound" /\ cli' = [cli EXCEPT ![c] = "leaving"]
  BY DEF Bind, Unbind
<1>2. DriverInv' /\ QuietInv' /\ UNCHANGED <<handlers, run>>
  BY <1>1, DriverUnchanged DEF ModuleInv
<1>3. Done(c)' = Done(c) /\ \A x : ~Missing(c, x) /\ ~(Missing(c, x)')
  <2>1. CASE cli[c] = "unbound"
    BY <1>1, <2>1 DEF Done, Missing, Before, ModuleInv, ClientInv, ModTypeOK
  <2>2. CASE cli[c] = "bound"
    BY <1>1, <2>2 DEF Done, Missing, ModuleInv, ClientInv, ModTypeOK
  <2> QED BY <1>1, <2>1, <2>2
<1>4. Own(c)'
  BY <1>1, <1>2, <1>3 DEF ModuleInv, ClientInv, OwnInv, Own, linkVars
<1>5. \A d \in Clients \ {c} : cli'[d] = cli[d]
  BY <1>1 DEF ModuleInv, ClientInv, ModTypeOK
<1>6. OwnInv' /\ HandlerInv'
  BY <1>1, <1>2, <1>4, <1>5, OwnAlone DEF ModuleInv, ClientInv, linkVars
<1>7. RunInv'
  <2>1. \A e : Kept(e) => Kept(e)'
    BY <1>1, <1>3, <1>5, OthersDone DEF Kept
  <2> QED BY <1>1, <1>2, <2>1 DEF ModuleInv, ClientInv, RunInv, Flushing
<1>8. Moving' = {c}
  BY <1>1 DEF Moving, ModuleInv, ClientInv, ModTypeOK
<1>9. 1 \in 1..Len(Path(c)')
  <2>1. Path(c)' \in {Setup[c], Teardown[c]}
    BY <1>1 DEF Path, ModuleInv, ClientInv, ModTypeOK
  <2> QED BY <2>1, ClientPaths DEF SetupPath, UndoPath
<1>10. ModTypeOK'
  BY <1>1, <1>8, <1>9 DEF ModuleInv, ClientInv, ModTypeOK, linkVars
<1>11. \E i \in 1..reg : Order[i] = c
  BY <1>1 DEF Bind, Unbind, Registered, ModuleInv, RegInv
<1>12. RegInv'
  BY <1>1, <1>5, <1>11 DEF ModuleInv, RegInv
<1> QED BY <1>2, <1>6, <1>7, <1>10, <1>12 DEF ClientInv

\* Only the requests of a client, its handlers and a lock that is lost concern
\* the driver.
LEMMA MoveDriver ==
  ASSUME NEW c \in Clients, Move(c)
  PROVE  \/ ClientRqst \/ ClientDone
         \/ /\ UNCHANGED <<probeVars, ecState, debugVars, run, drain, power>>
            /\ lock' = lock \/ lock' = "lost"
            /\ handlers' \subseteq handlers \/ Acquirable
<1>1. CASE Request(c) \/ \E ok \in BOOLEAN : RequestDone(c, ok)
  BY <1>1 DEF Request, RequestDone
<1>2. CASE ~(Request(c) \/ \E ok \in BOOLEAN : RequestDone(c, ok))
  BY <1>2 DEF Move, Link, LinkDeferred, LinkFails, Alloc, AllocRefused, Handle, HandleRefused,
              RequestSkipped, RequestRefused, Free, RemoveAndFlush, RemoveRefused, Flushed,
              Unlink, SetHandler, RemoveHandler, Take, drvVars, eventVars
<1> QED BY <1>1, <1>2

\* A client goes on its way.
LEMMA ClientMoves ==
  ASSUME ModuleInv, NEW c \in Clients, Move(c)
  PROVE  DriverInv' /\ ClientInv' /\ QuietInv' /\ RegInv'
<1>1. /\ Moving = {c} /\ UNCHANGED <<base, reg>> /\ run' = run
      /\ \/ StepsOn(c) \/ Fails(c) \/ Undone(c) \/ Unlinked(c)
         \/ UNCHANGED <<cliVars, handlers, waits>>
  BY MoveShape DEF ModuleInv, ClientInv
<1>2. RunInv'
  BY <1>1, MoveRun DEF ModuleInv, ClientInv
<1>3. ASSUME UNCHANGED <<cliVars, handlers, waits>>
      PROVE  ClientInv'
  <2>1. ClientInv' /\ RegInv'
    BY <1>1, <1>3, ClientsUnchanged DEF modVars, ModuleInv
  <2> QED BY <2>1 DEF ClientInv
<1>4. ClientInv'
  <2>1. ModTypeOK'
    BY <1>1, <1>3, StepsOnType, FailsType, UndoneType, UnlinkedType DEF ModuleInv, ClientInv
  <2>2. OwnInv' /\ HandlerInv'
    BY <1>1, <1>3, StepsOnOwn, FailsOwn, UndoneOwn, UnlinkedOwn DEF ModuleInv, ClientInv
  <2> QED BY <1>2, <2>1, <2>2 DEF ClientInv
<1>5. RegInv'
  <2>1. \A d \in Clients \ {c} : cli'[d] = cli[d]
    BY <1>1 DEF StepsOn, StepDone, Fails, ProbeFailed, Undone, Unlinked, Unlink, cliVars,
                ModuleInv, ClientInv, ModTypeOK
  <2>2. \E i \in 1..reg : Order[i] = c
    BY <1>1 DEF ModuleInv, RegInv, Moving
  <2> QED BY <1>1, <2>1, <2>2 DEF ModuleInv, RegInv
<1>6. CASE ClientRqst \/ ClientDone
  <2>1. DriverInv'
    BY <1>6, ThreadStepType DEF ModuleInv
  <2>2. QuietInv'
    BY <1>6 DEF ModuleInv, QuietInv, ClientRqst, ClientDone, probeVars, eventVars
  <2> QED BY <1>4, <1>5, <2>1, <2>2
<1>7. CASE /\ UNCHANGED <<probeVars, ecState, debugVars, run, drain, power>>
           /\ lock' = lock \/ lock' = "lost"
           /\ handlers' \subseteq handlers \/ Acquirable
  <2>1. handlers' \subseteq Events
    <3>1. CASE StepsOn(c) /\ At(c, "handler")
      <4>1. cli[c] = "probing" /\ Path(c) = Setup[c] /\ step \in 1..Len(Setup[c])
        BY <3>1 DEF ModuleInv, ClientInv, ModTypeOK, StepsOn, Path, Moving
      <4>2. What(c) \in DOMAIN Owner /\ Owner[What(c)] = c
        BY <3>1, <4>1, ClientPaths DEF SetupPath, At, What
      <4>3. What(c) \in Events
        BY <4>2, EventsAssumption
      <4> QED BY <3>1, <4>3 DEF StepsOn, ModuleInv, DriverInv, OthersOK
    <3>2. CASE ~(StepsOn(c) /\ At(c, "handler"))
      BY <1>1, <3>2 DEF StepsOn, Fails, Undone, Unlinked, ModuleInv, DriverInv, OthersOK
    <3> QED BY <3>1, <3>2
  <2>2. FlagsOK' /\ ClosedInv'
    BY <1>7 DEF ModuleInv, DriverInv, FlagsOK, ClosedInv, probeVars, debugVars
  <2>3. OthersOK'
    BY <1>7, <2>1 DEF ModuleInv, DriverInv, OthersOK, Holders, probeVars, debugVars
  <2>4. Acquirable => drv \notin Silent \union {"reflush"}
    BY DEF ModuleInv, IInv, LockInv, StateInv, Acquirable, Silent, Locked, Gone
  <2>5. QuietInv'
    BY <1>7, <2>4 DEF ModuleInv, QuietInv, probeVars
  <2> QED BY <1>4, <1>5, <2>2, <2>3, <2>5 DEF DriverInv
<1> QED BY <1>6, <1>7, MoveDriver

\* A handler starts to run, and comes to its end.
LEMMA HandlersMove ==
  ASSUME ModuleInv, NEW e \in Events, RunClientHandler(e) \/ HandlerMoves(e)
  PROVE  DriverInv' /\ ClientInv' /\ QuietInv' /\ RegInv'
<1>1. DriverInv'
  BY ThreadStepType DEF ModuleInv, RunClientHandler, HandlerMoves
<1>2. /\ handlers' = handlers /\ drv' = drv
      /\ UNCHANGED <<base, reg, cliVars>> /\ waits' \subseteq waits
  BY DEF RunClientHandler, RunHandler, HandlerMoves, Handler, HandlerReturns, HandlerRqst,
         HandlerDone, modVars, probeVars
<1>3. OwnInv' /\ HandlerInv'
  BY <1>2, OwnUnchanged DEF ModuleInv, ClientInv
<1>4. Moving' = Moving /\ \A c : Path(c)' = Path(c) /\ Done(c)' = Done(c)
  BY <1>2 DEF cliVars, Moving, Path, Done
<1>5. ModTypeOK'
  BY <1>2, <1>4 DEF ModuleInv, ClientInv, ModTypeOK, cliVars, linkVars
<1>6. RegInv'
  BY <1>2 DEF ModuleInv, RegInv, cliVars
<1>7. run \in [Events -> {"idle", "running", "request"}]
  BY DEF ModuleInv, DriverInv, OthersOK
<1>8. CASE RunClientHandler(e)
  <2>1. run' = [run EXCEPT ![e] = "running"] /\ e \in handlers /\ waits' = waits /\ drain' = drain
    BY <1>8 DEF RunClientHandler, RunHandler, modVars
  <2>2. QuietInv'
    <3>1. drv \notin Silent \union {"reflush"}
      BY <2>1 DEF ModuleInv, QuietInv
    <3> QED BY <1>2, <3>1 DEF QuietInv
  <2>3. ASSUME NEW f \in Events \ Immediate, run'[f] # "idle"
        PROVE  Kept(f)' \/ Flushing(f)'
    <3>1. CASE f = e
      <4>1. Owner[e] \in Clients
        BY <2>1 DEF ModuleInv, ClientInv, HandlerInv
      <4>2. <<"handler", e>> \in Done(Owner[e])
        BY <2>1, <4>1 DEF ModuleInv, ClientInv, OwnInv, Own
      <4> QED BY <1>4, <3>1, <4>1, <4>2 DEF Kept
    <3>2. CASE f # e
      BY <1>2, <1>4, <1>7, <2>1, <2>3, <3>2 DEF ModuleInv, ClientInv, RunInv, Kept, Flushing, cliVars
    <3> QED BY <3>1, <3>2
  <2>4. RunInv'
    BY <2>3 DEF RunInv
  <2> QED BY <1>1, <1>3, <1>5, <1>6, <2>2, <2>4 DEF ClientInv
<1>9. CASE HandlerMoves(e)
  <2>1. ASSUME NEW f \in Events \ Immediate, run'[f] # "idle"
        PROVE  run[f] # "idle" /\ (f \in waits => f \in waits') /\ (f \in drain => f \in drain')
    BY <1>7, <1>9, <2>1
    DEF HandlerMoves, Handler, HandlerReturns, HandlerRqst, HandlerDone, Returned
  <2>2. QuietInv'
    BY <1>2, <2>1 DEF ModuleInv, QuietInv
  <2>3. RunInv'
    BY <1>2, <1>4, <2>1 DEF ModuleInv, ClientInv, RunInv, Kept, Flushing, cliVars
  <2> QED BY <1>1, <1>3, <1>5, <1>6, <2>2, <2>3 DEF ClientInv
<1> QED BY <1>8, <1>9

LEMMA ModuleInit == Init => ModuleInv
<1> SUFFICES ASSUME Init PROVE ModuleInv
  OBVIOUS
<1>1. \A c \in Clients : cli[c] \in {"absent", "unbound"} /\ has[c] = {} /\ c \notin linked
  BY DEF Init
<1>2. handlers = {} /\ \A e \in Events : run[e] = "idle"
  BY DEF Init, DriverInit
<1>3. \A c \in Clients : Done(c) = {}
  BY <1>1 DEF Done
<1>4. OwnInv /\ HandlerInv /\ RunInv
  BY <1>1, <1>2, <1>3 DEF OwnInv, Own, HandlerInv, RunInv
<1>5. QuietInv /\ RegInv
  BY <1>1, <1>2 DEF QuietInv, RegInv, Init
<1> QED
  BY <1>4, <1>5, InvInit, InitType DEF ModuleInv, ClientInv

LEMMA ModuleNext == ModuleInv /\ [Next]_vars => ModuleInv'
<1> SUFFICES ASSUME ModuleInv, [Next]_vars
             PROVE  ModuleInv'
  OBVIOUS
<1>1. IInv'
  BY InvNext DEF ModuleInv
<1> DEFINE Rest == DriverInv /\ ClientInv /\ QuietInv /\ RegInv
<1>2. CASE Next
  <2>1. Rest'
    BY <1>2, BaseMoves, DriverMoves, StartMoves, ClientMoves, HandlersMove DEF Next, DriverStep
  <2> QED BY <1>1, <2>1 DEF ModuleInv
<1>3. CASE UNCHANGED vars
  <2>1. UNCHANGED drvVars /\ UNCHANGED modVars
    BY <1>3 DEF vars
  <2>2. DriverInv' /\ QuietInv' /\ UNCHANGED <<handlers, run>>
    BY <2>1, DriverUnchanged DEF ModuleInv
  <2>3. ClientInv' /\ RegInv'
    BY <2>1, <2>2, ClientsUnchanged DEF ModuleInv
  <2> QED
    BY <1>1, <2>2, <2>3 DEF ModuleInv
<1> QED BY <1>2, <1>3

\* All of it together: with the steps of the driver, what the module has
\* registered, which of its steps the client that moves has behind it, and whose
\* handlers run.
THEOREM ModuleCorrect == Spec => []ModuleInv
BY ModuleInit, ModuleNext, PTL DEF Spec

\* The variables stay within their types: a client that moves is at a step of
\* the path it is on, and moves alone.
THEOREM TypeCorrect == Spec => []TypeOK
<1>1. ModuleInv => TypeOK
  BY TypeParts DEF ModuleInv, ClientInv
<1>2. QED
  BY <1>1, ModuleCorrect, PTL

\* No handler that a worker runs loses its client's link or data, whatever step
\* of probe, of its unwinding or of remove the client is at, and whether or not
\* the driver has gone while the client was linked late.
THEOREM HandlerDataCorrect == Spec => []HandlerFindsItsData
<1>1. ModuleInv => HandlerFindsItsData
  <2> SUFFICES ASSUME ModuleInv, NEW e \in Events \ Immediate, run[e] # "idle"
               PROVE  Owner[e] \in linked /\ Needs[e] \subseteq has[Owner[e]]
    BY DEF HandlerFindsItsData
  <2>1. CASE Kept(e)
    <3>1. Owner[e] \in Clients /\ Own(Owner[e]) /\ ModTypeOK
      BY <2>1 DEF Kept, ModuleInv, ClientInv, OwnInv
    <3> QED BY <2>1, <3>1, HandlerOwner DEF Kept
  <2>2. CASE Flushing(e)
    <3>1. PICK c \in Moving : Path(c)[step] = <<"flush", e>>
      BY <2>2 DEF Flushing
    <3>2. c \in Clients /\ Own(c) /\ ModTypeOK
      BY DEF Moving, ModuleInv, ClientInv, OwnInv
    <3> QED BY <3>1, <3>2, FlushingOwner
  <2> QED BY <2>1, <2>2 DEF ModuleInv, ClientInv, RunInv
<1>2. QED
  BY <1>1, ModuleCorrect, PTL

\* Whatever step of a probe fails, and however often clients are bound and
\* unbound, one that is unbound has left nothing but what SAN and DTX are known
\* to leave, and a driver that is unbound nothing at all.
THEOREM UnboundCorrect == Spec => []UnboundLeavesNothing
<1>1. ModuleInv => UnboundLeavesNothing
  <2> SUFFICES ASSUME ModuleInv PROVE UnboundLeavesNothing
    OBVIOUS
  <2>1. ASSUME NEW c \in Clients, cli[c] = "unbound"
        PROVE  /\ c \notin linked
               /\ has[c] \subseteq Stale(c)
               /\ \A e \in handlers : Owner[e] # c
    <3>1. Done(c) = {} /\ Own(c)
      BY <2>1 DEF Done, ModuleInv, ClientInv, OwnInv
    <3> QED BY <3>1 DEF Own
  <2>2. ASSUME drv = "unbound"
        PROVE  held = 0 /\ lock # "driver" /\ ecState = "UNINITIALIZED"
    BY <2>2 DEF ModuleInv, DriverInv, ClosedInv, IInv, LockInv, StateInv, Gone, Locked
  <2>3. ASSUME drv = "unbound" PROVE ~open /\ ~attr
    <3>1. /\ drv \notin Open \union {"reflush"}
          /\ drv \notin InUse \union {"removing", "unregister"}
      BY <2>3 DEF Open, InUse
    <3> QED BY <3>1 DEF ModuleInv, DriverInv, ClosedInv
  <2> QED
    BY <2>1, <2>2, <2>3 DEF UnboundLeavesNothing, Stale
<1>2. QED
  BY <1>1, ModuleCorrect, PTL

\* On no path does a client free what it has not, or free it twice: whatever step
\* of a probe fails, its label names only what was set up.  But for DTX's, as the
\* property says.
THEOREM FreedCorrect == Spec => []FreedOnce
<1>1. ModuleInv => FreedOnce
  <2> SUFFICES ASSUME ModuleInv, NEW c \in Clients, Undoes(c, "alloc"), What(c) \notin has[c]
               PROVE  RefusedDtx(c) /\ What(c) = "input"
    BY DEF FreedOnce
  <2> DEFINE p == Path(c)
  <2>1. /\ UndoPath(p, c) /\ Done(c) = From(p, step) /\ step \in 1..Len(p)
        /\ p[step][1] = "alloc" /\ What(c) = p[step][2]
    BY UndoingPath DEF Undoes, At, What, ModuleInv, ClientInv
  <2>2. Own(c)
    BY DEF ModuleInv, ClientInv, OwnInv
  <2> HIDE DEF p
  <2>3. What(c) \in Resources /\ p[step] = <<"alloc", What(c)>> /\ Len(p) \in Nat
    BY <2>1 DEF UndoPath
  <2>4. <<"alloc", What(c)>> \in Done(c)
    <3>1. step \in step..Len(p)
      BY <2>1, <2>3
    <3> QED BY <2>1, <2>3, <3>1 DEF From
  <2>5. Missing(c, What(c))
    BY <2>2, <2>3, <2>4 DEF Own
  <2> QED BY <2>5 DEF Missing, RefusedDtx
<1>2. QED
  BY <1>1, ModuleCorrect, PTL
=============================================================================
