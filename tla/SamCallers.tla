----------------------------- MODULE SamCallers -----------------------------
(***************************************************************************)
(* The client drivers as callers of surface_sam_ssh_rqst: firmware         *)
(* requests through SAN, the performance mode of SID, the mode of the      *)
(* device that DTX reports, on one EC that takes one command at a time.    *)
(***************************************************************************)
EXTENDS SanRequest, SidPerfMode, DtxMode

CONSTANT Machines   \* what a machine has: devices for some of the drivers, and CPUs

ASSUME MachinesAssumption ==
    \A m \in Machines : m \subseteq {"san", "sid", "dtx"} \union DtxWorkers

VARIABLE machine

vars == <<callVars, ecVars, suspended, sanVars, sidVars, dtxVars, machine>>

Init ==
    /\ machine \in Machines
    /\ CallsInit
    /\ SanInit
    /\ SidInit
    /\ DtxInit

-----------------------------------------------------------------------------
\* Steps of the EC and of the line, which firmware requests watch.
CallSteps ==
    \/ (\E i \in Ids : EcExecutes(i) /\ WatchExecution(i)) /\ UNCHANGED <<sidVars, dtxVars, machine>>
    \/ (CallEnds \/ Sleep \/ \E i \in Ids : CommandLost(i))
        /\ UNCHANGED <<sanVars, sidVars, dtxVars, machine>>

SanSide == "san" \in machine /\ San /\ UNCHANGED <<sidVars, dtxVars, machine>>

SidSide == "sid" \in machine /\ Sid /\ UNCHANGED <<sanVars, dtxVars, machine>>

\* The event of the base is queued on one of the CPUs the machine has.
BaseSteps ==
    /\ "dtx" \in machine
    /\ Detach \/ Attach \/ Settle
    /\ \A w \in DtxWorkers \ machine : pending'[w] = <<>>
    /\ Watch({opmode'})
    /\ UNCHANGED <<sidVars, machine>>

WorkerSteps(w) ==
    /\ "dtx" \in machine
    /\ Handle(w) \/ Update(w)
    /\ UNCHANGED <<sanVars, sidVars, machine>>

DtxSide ==
    \/ "dtx" \in machine /\ Enable /\ UNCHANGED <<sanVars, sidVars, machine>>
    \/ BaseSteps
    \/ \E w \in DtxWorkers : WorkerSteps(w)

Next == CallSteps \/ SanSide \/ SidSide \/ DtxSide

Spec == Init /\ [][Next]_vars

-----------------------------------------------------------------------------
TypeOK == CallsTypeOK /\ SanTypeOK /\ SidTypeOK /\ DtxTypeOK
=============================================================================
