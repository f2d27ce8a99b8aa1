----------------------------- MODULE SanRequest -----------------------------
(***************************************************************************)
(* san_rqst: requests that the firmware makes of the EC through the        *)
(* operation region of the SAN driver, with the retries of the driver and  *)
(* the answer it makes up while the EC is suspended.  ACPI runs one of     *)
(* them at a time.                                                         *)
(***************************************************************************)
EXTENDS SamCalls, Naturals

CONSTANT RqstRetry  \* SAN_RQST_RETRY

ASSUME SanAssumption == RqstRetry \in Nat \ {0}

VARIABLES
    san,        \* where the request is
    asks,       \* what is requested
    try,        \* try
    told,       \* what is written to the buffer of the firmware
    seen,       \* modes of the device since the request began
    carried,    \* a try of it was executed
    slept       \* the EC was suspended when a try was refused

sanVars == <<san, asks, try, told, seen, carried, slept>>

-----------------------------------------------------------------------------
\* An answer, or (_SSH communication status 1) an error.
Told(d) == [ok |-> TRUE, data |-> d]
Failure == [ok |-> FALSE, data |-> "none"]

SanInit ==
    /\ san = "idle"
    /\ asks = Other
    /\ try = 0
    /\ told = Failure
    /\ seen = {}
    /\ carried = FALSE
    /\ slept = FALSE

\* A package that is not valid is left as it is: no step.
SanBegins ==
    /\ san = "idle"
    /\ san' = "rqst"
    /\ asks' \in {GetOpmode, Other}
    /\ try' = 0
    /\ told' = Failure
    /\ seen' = {opmode}
    /\ carried' = FALSE
    /\ slept' = FALSE
    /\ UNCHANGED <<callVars, ecVars, suspended>>

SanCalls ==
    /\ san = "rqst"
    /\ Begin("san", asks)
    /\ san' = "call"
    /\ UNCHANGED <<asks, try, told, seen, carried, slept>>

SanDone(t) == san' = "idle" /\ told' = t

\* Bug: the answer is made up whatever the error.
QuirkAlways(status) == IF asks = GetOpmode THEN Told(Laptop) ELSE Failure

\* The base is said to be attached, as in laptop mode, when the EC cannot be
\* asked because it is suspended.
Unanswered(status) ==
    IF asks = GetOpmode /\ status = "EPERM" THEN Told(Laptop) ELSE Failure

SanRefused ==
    /\ san = "rqst"
    /\ Refused("san")
    /\ SanDone(Unanswered("EPERM"))
    /\ slept' = TRUE
    /\ UNCHANGED <<asks, try, seen, carried>>

SanSucceeds ==
    /\ san = "call"
    /\ Ok
    /\ \E d \in OpModes \union {"none"} :
        /\ IF Reads(asks) THEN Answer(d) ELSE d = "none"
        /\ SanDone(Told(d))
    /\ Returns("san")
    /\ UNCHANGED <<asks, try, seen, carried, slept>>

\* Bug: one try too many.
SanFailsOnceMore(status) ==
    /\ san = "call"
    /\ ~Ok
    /\ Returns("san")
    /\ try' = try + 1
    /\ IF status = "EIO" /\ try < RqstRetry THEN san' = "rqst" /\ UNCHANGED told
       ELSE SanDone(Unanswered(status))
    /\ UNCHANGED <<asks, seen, carried, slept>>

\* An I/O error is no answer until the tries are used up.
SanFails(status) ==
    /\ san = "call"
    /\ ~Ok
    /\ Returns("san")
    /\ try' = try + 1
    /\ IF status = "EIO" /\ try' < RqstRetry THEN san' = "rqst" /\ UNCHANGED told
       ELSE SanDone(Unanswered(status))
    /\ UNCHANGED <<asks, seen, carried, slept>>

San == SanBegins \/ SanCalls \/ SanRefused \/ SanSucceeds \/ \E s \in Errors : SanFails(s)

\* What the request sees of a step of the EC.
Watch(modes) ==
    /\ seen' = IF san = "idle" THEN seen ELSE seen \union modes
    /\ UNCHANGED <<san, asks, try, told, carried, slept>>

WatchExecution(i) ==
    /\ carried' = (carried \/ (san = "call" /\ i = cur))
    /\ UNCHANGED <<san, asks, try, told, seen, slept>>

-----------------------------------------------------------------------------
SanTypeOK ==
    /\ san \in {"idle", "rqst", "call"}
    /\ asks \in {GetOpmode, Other}
    /\ try \in 0..RqstRetry
    /\ told \in [ok : BOOLEAN, data : OpModes \union {"none"}]
    /\ seen \subseteq OpModes
    /\ carried \in BOOLEAN /\ slept \in BOOLEAN

\* What the firmware is told of the base was so at some time during its
\* request, or made up because the EC was suspended; a command it is told was
\* sent has been carried out.
FirmwareToldTruth ==
    san = "idle" /\ told.ok =>
        IF asks = GetOpmode
        THEN (told.data \in seen /\ carried) \/ (told.data = Laptop /\ slept)
        ELSE carried
=============================================================================
