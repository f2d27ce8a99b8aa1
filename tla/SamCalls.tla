------------------------------ MODULE SamCalls ------------------------------
(***************************************************************************)
(* What the client drivers know of the embedded controller (EC): the calls *)
(* of surface_sam_ssh_rqst, which keep the promise of SamCommand, and the  *)
(* part of the EC's state that commands read and write: the performance    *)
(* mode, and the mode of the device (with its base or without).            *)
(***************************************************************************)
EXTENDS SamCommand

CONSTANTS
    PerfModes,  \* SAM_PERF_MODE_NORMAL and the others
    AsIs,       \* SID_PARAM_PERF_MODE_AS_IS, which is none
    OpModes,    \* DTX_OPMODE_TABLET and the others
    Tablet,
    Laptop

ASSUME CallsAssumption ==
    /\ NoRqst \notin Ids
    /\ AsIs \notin PerfModes
    /\ Tablet \in OpModes /\ Laptop \in OpModes /\ Tablet # Laptop

VARIABLES
    who,        \* the thread whose call is in progress, with ec->lock
    what,       \* what each command asks for, while it may be executed
    answers,    \* what the EC has answered to the call in progress
    perf,       \* performance mode of the EC
    opmode,     \* the mode of the device, as the EC reports it
    suspended   \* ec->state is SSH_EC_SUSPENDED

callVars == <<cmdVars, who, what, answers>>
ecVars   == <<perf, opmode>>

-----------------------------------------------------------------------------
GetPerf    == [op |-> "get perf", mode |-> AsIs]
SetPerf(m) == [op |-> "set perf", mode |-> m]
GetOpmode  == [op |-> "get opmode", mode |-> AsIs]
Other      == [op |-> "other", mode |-> AsIs]

Requests == {GetPerf, GetOpmode, Other} \union {SetPerf(m) : m \in PerfModes}

\* rqst.snc
Reads(c) == c.op \in {"get perf", "get opmode"}

CallsInit ==
    /\ CmdInit
    /\ who = "nobody"
    /\ what = [i \in Ids |-> Other]
    /\ answers = {}
    /\ perf \in PerfModes
    /\ opmode \in OpModes
    /\ suspended = FALSE

\* What a command asked for is forgotten when it is spent.
Forget == what' = [i \in Ids |-> IF i \in open' THEN what[i] ELSE Other]

-----------------------------------------------------------------------------
(* surface_sam_ssh_rqst, as seen by thread t *)

Begin(t, c) ==
    /\ who = "nobody"
    /\ ~suspended
    /\ who' = t
    /\ \E i \in Ids :
        /\ Submit(i, Reads(c))
        /\ what' = [what EXCEPT ![i] = c]
    /\ answers' = {}
    /\ UNCHANGED <<ecVars, suspended>>

\* -EPERM
Refused(t) ==
    /\ who = "nobody"
    /\ suspended
    /\ UNCHANGED <<callVars, ecVars, suspended>>

\* What it asked for may be executed later, whatever it returns.
Returns(t) ==
    /\ who = t
    /\ Return
    /\ who' = "nobody"
    /\ answers' = {}
    /\ Forget
    /\ UNCHANGED <<ecVars, suspended>>

Ok == outcome.set /\ outcome.ok

\* The data of a call that succeeds is one of the answers to its command.
Answer(d) == Ok /\ outcome.data = cur /\ d \in answers

\* -EIO, or another error such as -EINVAL or -EFAULT
Errors == {"EIO", "error"}

-----------------------------------------------------------------------------
(* The call and the EC *)

CallEnds ==
    /\ Finish
    /\ UNCHANGED <<who, what, answers, ecVars, suspended>>

\* The EC executes a command.
EcExecutes(i) ==
    /\ Execute(i)
    /\ LET c == what[i]
           a == CASE c.op = "get perf" -> perf
                  [] c.op = "get opmode" -> opmode
                  [] OTHER -> c.op
       IN /\ perf' = IF c.op = "set perf" THEN c.mode ELSE perf
          /\ answers' = IF i = cur THEN answers \union {a} ELSE answers
    /\ Forget
    /\ UNCHANGED <<who, opmode, suspended>>

CommandLost(i) ==
    /\ Expire(i)
    /\ Forget
    /\ UNCHANGED <<who, answers, ecVars, suspended>>

\* surface_sam_ssh_suspend and surface_sam_ssh_resume, between calls.
Sleep ==
    /\ who = "nobody"
    /\ suspended' = ~suspended
    /\ UNCHANGED <<callVars, ecVars>>

CallsTypeOK ==
    /\ CmdTypeOK
    /\ what \in [Ids -> Requests]
    /\ answers \subseteq PerfModes \union OpModes \union {"set perf", "other"}
    /\ perf \in PerfModes
    /\ opmode \in OpModes
    /\ suspended \in BOOLEAN
    /\ (who = "nobody") = (cur = NoRqst)
=============================================================================
