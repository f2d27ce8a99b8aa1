---------------------------- MODULE SidPerfMode ----------------------------
(***************************************************************************)
(* The performance mode of the SID driver: set when the driver is bound    *)
(* and when it is unbound, as two parameters of the module say that may be *)
(* written at any time, and read and written in between over an attribute  *)
(* in sysfs.                                                               *)
(***************************************************************************)
EXTENDS SamCalls

VARIABLES
    sid,        \* where the driver is in probe and remove
    attr,       \* the attribute exists
    user,       \* the thread that reads or writes it
    perfInit,   \* param_perf_mode_init
    perfExit,   \* param_perf_mode_exit
    kept,       \* the mode when the attribute was gone, AsIs before
    wanted,     \* the mode asked for at the exit
    applied,    \* the request for it was answered
    overdue     \* modes of earlier stores that were on their way when the attribute went

sidVars == <<sid, attr, user, perfInit, perfExit, kept, wanted, applied, overdue>>

-----------------------------------------------------------------------------
NoUser == [at |-> "outside", rqst |-> Other]
Accesses == {GetPerf} \union {SetPerf(m) : m \in PerfModes}
SidSteps == {"unbound", "init", "init call", "attr", "bound", "drain", "exit", "exit call"}

SidInit ==
    /\ sid = "unbound"
    /\ attr = FALSE
    /\ user = NoUser
    /\ perfInit = AsIs
    /\ perfExit = AsIs
    /\ kept = AsIs
    /\ wanted = AsIs
    /\ applied = FALSE
    /\ overdue = {}

-----------------------------------------------------------------------------
(* sid_perf_mode_setup *)

SidProbe ==
    /\ sid = "unbound"
    /\ sid' = IF perfInit = AsIs THEN "attr" ELSE "init"
    /\ kept' = AsIs
    /\ wanted' = AsIs
    /\ applied' = FALSE
    /\ overdue' = {}
    /\ UNCHANGED <<attr, user, perfInit, perfExit, callVars, ecVars, suspended>>

SidInitCalls ==
    /\ sid = "init"
    /\ perfInit # AsIs
    /\ Begin("sid", SetPerf(perfInit))
    /\ sid' = "init call"
    /\ UNCHANGED <<attr, user, perfInit, perfExit, kept, wanted, applied, overdue>>

\* The parameter is read a second time for the request, and 0 is refused.
SidInitRefused ==
    /\ sid = "init"
    /\ perfInit = AsIs \/ Refused("sid")
    /\ sid' = "unbound"
    /\ UNCHANGED <<attr, user, perfInit, perfExit, kept, wanted, applied, overdue>>
    /\ UNCHANGED <<callVars, ecVars, suspended>>

SidInitReturns ==
    /\ sid = "init call"
    /\ Returns("sid")
    /\ sid' = IF Ok THEN "attr" ELSE "unbound"
    /\ UNCHANGED <<attr, user, perfInit, perfExit, kept, wanted, applied, overdue>>

\* What the EC may still execute of stores whose call has ended
Overdue == {what[i].mode : i \in {j \in open \ {cur} : what[j].op = "set perf"}}

AttributeGone == kept' = perf /\ overdue' = Overdue

SidCreate(ok) ==
    /\ sid = "attr"
    /\ attr' = ok
    /\ sid' = IF ok THEN "bound" ELSE "exit"
    /\ IF ok THEN UNCHANGED <<kept, overdue>> ELSE AttributeGone
    /\ UNCHANGED <<user, perfInit, perfExit, wanted, applied, callVars, ecVars, suspended>>

-----------------------------------------------------------------------------
(* sid_perf_mode_remove, from remove or when the lid cannot be set up *)

SidRemove ==
    /\ sid = "bound"
    /\ attr' = FALSE
    /\ sid' = "drain"
    /\ UNCHANGED <<user, perfInit, perfExit, kept, wanted, applied, overdue>>
    /\ UNCHANGED <<callVars, ecVars, suspended>>

\* Bug: writes that are in progress are not waited for.
SidUndrained ==
    /\ sid = "drain"
    /\ sid' = "exit"
    /\ AttributeGone
    /\ UNCHANGED <<attr, user, perfInit, perfExit, wanted, applied>>
    /\ UNCHANGED <<callVars, ecVars, suspended>>

\* sysfs_remove_file returns when nobody is in one of the functions.
SidDrained ==
    /\ sid = "drain"
    /\ user = NoUser
    /\ sid' = "exit"
    /\ AttributeGone
    /\ UNCHANGED <<attr, user, perfInit, perfExit, wanted, applied>>
    /\ UNCHANGED <<callVars, ecVars, suspended>>

SidExitCalls ==
    /\ sid = "exit"
    /\ perfExit # AsIs
    /\ Begin("sid", SetPerf(perfExit))
    /\ wanted' = perfExit
    /\ sid' = "exit call"
    /\ UNCHANGED <<attr, user, perfInit, perfExit, kept, applied, overdue>>

\* surface_sam_perf_mode_set sends no request for 0; nobody looks at the status.
SidExitRefused ==
    /\ sid = "exit"
    /\ perfExit = AsIs \/ Refused("sid")
    /\ sid' = "unbound"
    /\ UNCHANGED <<attr, user, perfInit, perfExit, kept, wanted, applied, overdue>>
    /\ UNCHANGED <<callVars, ecVars, suspended>>

SidExitReturns ==
    /\ sid = "exit call"
    /\ Returns("sid")
    /\ applied' = Ok
    /\ sid' = "unbound"
    /\ UNCHANGED <<attr, user, perfInit, perfExit, kept, wanted, overdue>>

-----------------------------------------------------------------------------
(* The attribute (perf_mode_show, perf_mode_store) and the parameters *)

UserEnters ==
    /\ attr
    /\ user = NoUser
    /\ \E c \in Accesses : user' = [at |-> "inside", rqst |-> c]
    /\ UNCHANGED <<sid, attr, perfInit, perfExit, kept, wanted, applied, overdue>>
    /\ UNCHANGED <<callVars, ecVars, suspended>>

UserCalls ==
    /\ user.at = "inside"
    /\ Begin("user", user.rqst)
    /\ user' = [user EXCEPT !.at = "call"]
    /\ UNCHANGED <<sid, attr, perfInit, perfExit, kept, wanted, applied, overdue>>

UserRefused ==
    /\ user.at = "inside"
    /\ Refused("user")
    /\ user' = NoUser
    /\ UNCHANGED <<sid, attr, perfInit, perfExit, kept, wanted, applied, overdue>>

UserReturns ==
    /\ user.at = "call"
    /\ Returns("user")
    /\ user' = NoUser
    /\ UNCHANGED <<sid, attr, perfInit, perfExit, kept, wanted, applied, overdue>>

\* param_perf_mode_set refuses what is no mode.
SetParam ==
    /\ \E m \in PerfModes \union {AsIs} :
        \/ perfInit' = m /\ UNCHANGED perfExit
        \/ perfExit' = m /\ UNCHANGED perfInit
    /\ UNCHANGED <<sid, attr, user, kept, wanted, applied, overdue>>
    /\ UNCHANGED <<callVars, ecVars, suspended>>

SidProbes == SidProbe \/ SidInitCalls \/ SidInitRefused \/ SidInitReturns
             \/ \E ok \in BOOLEAN : SidCreate(ok)

SidRemoves == SidRemove \/ SidDrained \/ SidExitCalls \/ SidExitRefused \/ SidExitReturns

Attribute == UserEnters \/ UserCalls \/ UserRefused \/ UserReturns

Sid == SidProbes \/ SidRemoves \/ Attribute \/ SetParam

-----------------------------------------------------------------------------
SidTypeOK ==
    /\ sid \in SidSteps
    /\ attr \in BOOLEAN
    /\ user \in [at : {"outside", "inside", "call"}, rqst : Accesses \union {Other}]
    /\ {perfInit, perfExit, kept, wanted} \subseteq PerfModes \union {AsIs}
    /\ applied \in BOOLEAN
    /\ overdue \subseteq PerfModes

\* src/README.md:62: the mode applied when the module is unloaded is that of
\* perf_mode_exit, and 0 keeps the mode as it is.  Once the driver is unbound
\* nothing but its own last request has changed the mode since the attribute
\* went, and when that was answered the mode is the one it asked for: but for
\* stores whose call ended before and that reach the EC late.
ExitModeApplied ==
    sid = "unbound" /\ kept # AsIs =>
        /\ perf \in {kept, wanted} \union overdue
        /\ applied => perf \in {wanted} \union overdue

\* src/README.md:62-63 to the letter: what the unbound driver leaves is the mode of
\* perf_mode_exit when the request for it was answered, and with 0 the mode as it
\* is.  This does not hold, and no run claims it: a store that failed before is
\* executed later all the same (README.md, section 5).
ExitModeSet ==
    sid = "unbound" /\ kept # AsIs =>
        /\ wanted = AsIs => perf = kept
        /\ applied => perf = wanted
=============================================================================
