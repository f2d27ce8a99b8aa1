------------------------------ MODULE DtxMode ------------------------------
(***************************************************************************)
(* The mode of the device as the DTX driver reports it: on each connection *)
(* event a worker waits for the EC to settle, asks it for the mode, pushes *)
(* that to the files (DtxClients) and sets the input switch.  The queue of *)
(* the events has a worker on each CPU: an event is queued on the CPU that *)
(* receives it, and works of two CPUs run at the same time.                *)
(*                                                                         *)
(* The EC is external: it announces each time the base comes or goes, and  *)
(* reports the mode of a base that was attached within the delay of the    *)
(* driver.                                                                 *)
(***************************************************************************)
EXTENDS SamCalls, Naturals, Sequences

CONSTANTS
    DtxWorkers, \* workers that handle connection events, one for each CPU
    MaxPending  \* bound: connection events on their way to a worker

ASSUME DtxAssumption ==
    /\ MaxPending \in Nat \ {0}
    /\ DtxWorkers \cap {"nobody", "san", "sid", "user"} = {}

VARIABLES
    dtx,        \* whether the event handler is set
    settling,   \* the EC does not report yet the base that was attached
    announced,  \* the EC has sent an event
    pending,    \* connection events on their way to each worker
    at,         \* what each worker does
    event,      \* the event it handles
    queried,    \* the mode it was told
    reported,   \* what was pushed since the base last came or went
    switch      \* SW_TABLET_MODE

dtxVars == <<dtx, settling, announced, pending, at, event, queried, reported, switch>>

-----------------------------------------------------------------------------
\* The base went, or came, and has come or gone again since or not.
Latest == {"detached", "attached"}
Connections == Latest \union {"was detached", "was attached"}

Past == [c \in Connections |-> CASE c = "detached" -> "was detached"
                                [] c = "attached" -> "was attached"
                                [] OTHER -> c]

DtxInit ==
    /\ dtx = FALSE
    /\ settling = FALSE
    /\ announced = FALSE
    /\ pending = [w \in DtxWorkers |-> <<>>]
    /\ at = [w \in DtxWorkers |-> "idle"]
    /\ event = [w \in DtxWorkers |-> "was detached"]
    /\ queried = [w \in DtxWorkers |-> "error"]
    /\ reported = {}
    /\ switch = FALSE

-----------------------------------------------------------------------------
(* The EC *)

\* The event is queued on some CPU; those before it are out of date.
Announce(c) ==
    /\ event' = [w \in DtxWorkers |-> Past[event[w]]]
    /\ announced' = TRUE
    /\ reported' = {}
    /\ \E w \in DtxWorkers :
        /\ Len(pending[w]) < MaxPending
        /\ pending' = [v \in DtxWorkers |->
                          [i \in DOMAIN pending[v] |-> Past[pending[v][i]]]
                          \o IF v = w THEN <<c>> ELSE <<>>]

Unheard == UNCHANGED <<announced, pending, event, reported>>

Detach ==
    /\ opmode # Tablet \/ settling
    /\ opmode' = Tablet
    /\ settling' = FALSE
    /\ IF dtx THEN Announce("detached") ELSE Unheard
    /\ UNCHANGED <<dtx, at, queried, switch, callVars, perf, suspended>>

Attach ==
    /\ opmode = Tablet
    /\ ~settling
    /\ settling' = TRUE
    /\ IF dtx THEN Announce("attached") ELSE Unheard
    /\ UNCHANGED <<dtx, at, queried, switch, callVars, ecVars, suspended>>

Settle ==
    /\ settling
    /\ settling' = FALSE
    /\ opmode' \in OpModes \ {Tablet}
    /\ UNCHANGED <<dtx, announced, pending, at, event, queried, reported, switch>>
    /\ UNCHANGED <<callVars, perf, suspended>>

-----------------------------------------------------------------------------
(* surface_dtx_evt_dtx and surface_dtx_update_opmpde *)

\* The event source is enabled by probe; the mode was asked for before.
Enable ==
    /\ ~dtx
    /\ dtx' = TRUE
    /\ UNCHANGED <<settling, announced, pending, at, event, queried, reported, switch>>
    /\ UNCHANGED <<callVars, ecVars, suspended>>

Handle(w) ==
    /\ at[w] = "idle"
    /\ pending[w] # <<>>
    /\ LET c == Head(pending[w])
       IN /\ event' = [event EXCEPT ![w] = c]
          /\ at' = [at EXCEPT ![w] = IF c \in {"attached", "was attached"} THEN "delay" ELSE "query"]
    /\ pending' = [pending EXCEPT ![w] = Tail(pending[w])]
    /\ UNCHANGED <<dtx, settling, announced, queried, reported, switch, callVars, ecVars, suspended>>

\* Bug: there is no delay.
NoDelay(w) ==
    /\ at[w] = "delay"
    /\ at' = [at EXCEPT ![w] = "query"]
    /\ UNCHANGED <<dtx, settling, announced, pending, event, queried, reported, switch>>
    /\ UNCHANGED <<callVars, ecVars, suspended>>

\* msleep, in which a base that was attached and left there settles.
Delay(w) ==
    /\ at[w] = "delay"
    /\ event[w] = "attached" => ~settling
    /\ at' = [at EXCEPT ![w] = "query"]
    /\ UNCHANGED <<dtx, settling, announced, pending, event, queried, reported, switch>>
    /\ UNCHANGED <<callVars, ecVars, suspended>>

Query(w) ==
    /\ at[w] = "query"
    /\ Begin(w, GetOpmode)
    /\ at' = [at EXCEPT ![w] = "call"]
    /\ UNCHANGED <<dtx, settling, announced, pending, event, queried, reported, switch>>

\* The error is pushed in place of the mode.
Queried(w, d) ==
    /\ queried' = [queried EXCEPT ![w] = d]
    /\ at' = [at EXCEPT ![w] = "push"]
    /\ UNCHANGED <<dtx, settling, announced, pending, event, reported, switch>>

QueryRefused(w) ==
    /\ at[w] = "query"
    /\ Refused(w)
    /\ Queried(w, "error")

QueryReturns(w) ==
    /\ at[w] = "call"
    /\ Returns(w)
    /\ \E d \in OpModes \union {"error"} :
        /\ IF Ok THEN Answer(d) ELSE d = "error"
        /\ Queried(w, d)

Push(w) ==
    /\ at[w] = "push"
    /\ reported' = reported \union {queried[w]}
    /\ at' = [at EXCEPT ![w] = "switch"]
    /\ UNCHANGED <<dtx, settling, announced, pending, event, queried, switch>>
    /\ UNCHANGED <<callVars, ecVars, suspended>>

ReportSwitch(w) ==
    /\ at[w] = "switch"
    /\ switch' = (queried[w] = Tablet)
    /\ at' = [at EXCEPT ![w] = "idle"]
    /\ UNCHANGED <<dtx, settling, announced, pending, event, queried, reported>>
    /\ UNCHANGED <<callVars, ecVars, suspended>>

Update(w) ==
    Delay(w) \/ Query(w) \/ QueryRefused(w) \/ QueryReturns(w) \/ Push(w) \/ ReportSwitch(w)

-----------------------------------------------------------------------------
DtxTypeOK ==
    /\ dtx \in BOOLEAN /\ settling \in BOOLEAN /\ announced \in BOOLEAN /\ switch \in BOOLEAN
    /\ pending \in [DtxWorkers -> Seq(Connections)]
    /\ \A w \in DtxWorkers : Len(pending[w]) <= MaxPending
    /\ at \in [DtxWorkers -> {"idle", "delay", "query", "call", "push", "switch"}]
    /\ event \in [DtxWorkers -> Connections]
    /\ queried \in [DtxWorkers -> OpModes \union {"error"}]
    /\ reported \subseteq OpModes \union {"error"}

AllHandled == ~settling /\ \A w \in DtxWorkers : at[w] = "idle" /\ pending[w] = <<>>

\* surface_dtx_update_opmpde asks after every connection event, and after a delay
\* when a base came.  Once the events are handled and the base is at rest, the
\* mode the device is in has been pushed to the files since the base last came or
\* went, or an error because the EC could not be asked.  Older events, handled on
\* other CPUs, may have pushed other modes, before it and after it.
ModeReported ==
    AllHandled /\ announced => {opmode, "error"} \cap reported # {}

\* The Kconfig text of the driver, which is in src/patches: the input device
\* provides "SW_TABLET_MODE events upon device mode change".  When the events are
\* handled the switch says whether the device is a tablet.  This does not hold,
\* and no run claims it: when the mode could not be asked for the switch is told
\* the error, which is not the tablet mode (README.md, section 5).
SwitchTold == AllHandled /\ reported # {} => switch = (opmode = Tablet)

\* The same when the EC has answered every worker.  With two of them it does not
\* hold either: the older of two answers can reach the switch last.
SwitchOrdered ==
    AllHandled /\ (\A w \in DtxWorkers : queried[w] # "error") => switch = (opmode = Tablet)
=============================================================================
