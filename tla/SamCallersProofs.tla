-------------------------- MODULE SamCallersProofs --------------------------
(***************************************************************************)
(* Proofs about the client drivers as callers: what the firmware is told,  *)
(* which performance mode is left behind, and what DTX reports, for any    *)
(* number of commands, modes, tries and events.                            *)
(***************************************************************************)
EXTENDS SamCallers, TLAPS

(* The call in progress *)

\* The calls are of SamCommand: the EC may execute the one in progress, and one
\* that succeeds it has executed.
CmdInv ==
    /\ cur # NoRqst => cur \in open
    /\ outcome.set => cur # NoRqst
    /\ outcome.ok => outcome.set /\ cur \in executed

\* Who is in a call, and for what.  The performance mode is set by SID only.
Callers == {"nobody", "san", "sid", "user"} \union DtxWorkers

WhoInv ==
    /\ who \in Callers
    /\ who = "nobody" <=> cur = NoRqst
    /\ who = "san" <=> san = "call"
    /\ who = "sid" <=> sid \in {"init call", "exit call"}
    /\ who = "user" <=> user.at = "call"
    /\ \A w \in DtxWorkers : who = w <=> at[w] = "call"

WhatInv ==
    /\ san = "call" => what[cur] = asks
    /\ sid = "exit call" => what[cur] = SetPerf(wanted) /\ wanted # AsIs
    /\ \A w \in DtxWorkers : at[w] = "call" => what[cur] = GetOpmode
    /\ cur # NoRqst /\ what[cur].op = "set perf" => who \in {"sid", "user"}

-----------------------------------------------------------------------------
(* SAN *)

\* While a request is on its way it has seen the mode of the device, and the EC
\* has answered nothing but what was seen.
SanInv ==
    /\ san # "idle" => opmode \in seen
    /\ san = "call" =>
        /\ asks = GetOpmode => answers \subseteq seen
        /\ (cur \in executed \/ answers # {}) => carried

-----------------------------------------------------------------------------
(* SID *)

SetsPerf(i) == what[i].op = "set perf"

\* When the attribute is gone, what may still set the mode and is not the call in
\* progress was on its way by then, or is the request of the exit itself.
LateInv ==
    kept # AsIs =>
        \A i \in open \ {cur} : SetsPerf(i) =>
            what[i].mode \in overdue \/ (sid = "unbound" /\ what[i].mode = wanted)

\* The attribute is there while the driver is bound, and nobody uses it when the
\* mode of the exit is set.
AttrInv ==
    /\ attr => sid = "bound"
    /\ user # NoUser => sid \in {"bound", "drain"}
    /\ kept # AsIs => sid \in {"exit", "exit call", "unbound"}

KeptInv ==
    /\ sid # "unbound" => ~applied
    /\ kept # AsIs =>
        /\ perf \in {kept, wanted} \union overdue
        /\ sid = "exit" => perf \in {kept} \union overdue
        /\ sid = "exit call" /\ cur \in executed => perf \in {wanted} \union overdue
        /\ applied => perf \in {wanted} \union overdue

-----------------------------------------------------------------------------
(* DTX *)

\* An event that is on its way to worker w, or that w handles
Queued(w, c) == \E i \in DOMAIN pending[w] : pending[w][i] = c
InHand(w, c) == at[w] # "idle" /\ event[w] = c

\* Before the first event no worker has anything to do.
UntoldInv(w) == ~announced => at[w] = "idle" /\ pending[w] = <<>>

\* While the base that came has not settled, nobody has an event of a base that
\* went later, and a worker that has the event of its coming still delays.
SettlingInv(w) ==
    settling =>
        /\ ~Queued(w, "detached")
        /\ ~InHand(w, "detached")
        /\ InHand(w, "attached") => at[w] = "delay"

\* What a worker with the latest event is told, and tells, is the mode.
ToldInv(w) ==
    event[w] \in Latest =>
        /\ at[w] = "call" => answers \subseteq {opmode}
        /\ at[w] \in {"push", "switch"} => queried[w] \in {opmode, "error"}
        /\ at[w] = "switch" => queried[w] \in reported

WorkerInv == \A w \in DtxWorkers : UntoldInv(w) /\ SettlingInv(w) /\ ToldInv(w)

\* The latest event is not spent before the mode has been reported.
Reported == {opmode, "error"} \cap reported # {}

LatestInv ==
    /\ announced => dtx
    /\ announced =>
        \/ \E w \in DtxWorkers, c \in Latest : Queued(w, c) \/ InHand(w, c)
        \/ ~settling /\ Reported

-----------------------------------------------------------------------------
(* Types *)

\* The flags, and the other variables
CallFlags == reads \in BOOLEAN /\ suspended \in BOOLEAN

CallOthers ==
    /\ cur \in Ids \union {NoRqst}
    /\ open \subseteq Ids
    /\ executed \subseteq Ids
    /\ outcome \in Outcomes
    /\ what \in [Ids -> Requests]
    /\ answers \subseteq PerfModes \union OpModes \union {"set perf", "other"}
    /\ perf \in PerfModes
    /\ opmode \in OpModes
    /\ who = "nobody" <=> cur = NoRqst

CallsInv == CallFlags /\ CallOthers /\ CmdInv

\* What a step of the callers is for the calls: one begins or returns, a step of
\* the EC or of its line, or the base comes or goes.
BaseMoves == UNCHANGED <<callVars, perf, suspended>> /\ opmode' \in OpModes

CallsStep ==
    \/ \E t, c : t # "nobody" /\ c \in Requests /\ Begin(t, c)
    \/ \E t : Returns(t)
    \/ CallEnds \/ Sleep
    \/ \E i \in Ids : EcExecutes(i) \/ CommandLost(i)
    \/ BaseMoves

LEMMA SetPerfParts ==
  ASSUME NEW m
  PROVE  SetPerf(m).op = "set perf" /\ SetPerf(m).mode = m
BY DEF SetPerf

LEMMA OtherParts ==
  /\ GetPerf.op = "get perf" /\ GetOpmode.op = "get opmode" /\ Other.op = "other"
  /\ {GetPerf, GetOpmode, Other} \subseteq Requests
BY DEF GetPerf, GetOpmode, Other, Requests

LEMMA RequestParts ==
  ASSUME NEW c \in Requests
  PROVE  /\ c.op = "set perf" => c.mode \in PerfModes /\ c = SetPerf(c.mode)
         /\ c.op \in {"get perf", "set perf", "get opmode", "other"}
<1>1. CASE c \in {GetPerf, GetOpmode, Other}
  BY <1>1, OtherParts
<1>2. ASSUME NEW m \in PerfModes, c = SetPerf(m)
      PROVE  c.op = "set perf" /\ c.mode \in PerfModes /\ c = SetPerf(c.mode)
  BY <1>2, SetPerfParts
<1> QED BY <1>1, <1>2 DEF Requests

LEMMA OutcomeParts ==
  ASSUME NEW d \in Ids \union {NoRqst}
  PROVE  /\ [ok |-> TRUE, data |-> d, set |-> TRUE] \in Outcomes
         /\ [ok |-> FALSE, data |-> d, set |-> TRUE] \in Outcomes
BY DEF Outcomes

LEMMA CallsInvStep ==
  ASSUME CallsInv, CallsStep
  PROVE  CallsInv'
<1> USE DEF callVars, cmdVars, ecVars
<1>1. CallFlags'
  <2>1. ASSUME NEW c PROVE Reads(c) \in BOOLEAN
    BY DEF Reads
  <2>2. CASE \E t, c : t # "nobody" /\ c \in Requests /\ Begin(t, c)
    BY <2>1, <2>2, Zenon DEF Begin, Submit, CallFlags, CallsInv
  <2>3. CASE \E t : Returns(t)
    BY <2>3, Zenon DEF Returns, Return, CallFlags, CallsInv
  <2>4. CASE CallEnds
    BY <2>4, Zenon DEF CallEnds, Finish, Succeed, Fail, CallFlags, CallsInv
  <2>5. CASE Sleep
    BY <2>5, Zenon DEF Sleep, CallFlags, CallsInv
  <2>6. CASE \E i \in Ids : EcExecutes(i) \/ CommandLost(i)
    BY <2>6, Zenon DEF EcExecutes, CommandLost, Execute, Expire, CallFlags, CallsInv
  <2>7. CASE BaseMoves
    BY <2>7, Zenon DEF BaseMoves, CallFlags, CallsInv
  <2> QED BY <2>2, <2>3, <2>4, <2>5, <2>6, <2>7 DEF CallsStep
<1>2. Other \in Requests
  BY DEF Requests
<1>3. CallOthers /\ CmdInv
  BY DEF CallsInv
<1> DEFINE Rest == CallOthers /\ CmdInv
<1>4. ASSUME NEW t, NEW c \in Requests, t # "nobody", Begin(t, c)
      PROVE  Rest'
  <2>1. PICK i \in Ids : Submit(i, Reads(c)) /\ what' = [what EXCEPT ![i] = c]
    BY <1>4 DEF Begin
  <2>2. what' \in [Ids -> Requests]
    BY <1>3, <1>4, <2>1 DEF CallOthers
  <2>3. CallOthers'
    <3>1. i # NoRqst
      BY CallsAssumption
    <3>2. who' = t /\ answers' = {} /\ UNCHANGED <<perf, opmode>>
      BY <1>4 DEF Begin
    <3> QED BY <1>3, <1>4, <2>1, <2>2, <3>1, <3>2 DEF Submit, CallOthers
  <2>4. CmdInv'
    BY <1>3, <2>1 DEF Submit, CmdInv
  <2> QED BY <2>3, <2>4
<1>5. ASSUME NEW t, Returns(t)
      PROVE  Rest'
  <2>1. NoOutcome \in Outcomes
    BY DEF NoOutcome, Outcomes
  <2>2. ~NoOutcome.set /\ ~NoOutcome.ok
    BY DEF NoOutcome
  <2>3. what' \in [Ids -> Requests]
    BY <1>2, <1>3, <1>5 DEF Returns, Forget, CallOthers
  <2>4. CallOthers'
    BY <1>3, <1>5, <2>1, <2>3 DEF Returns, Return, CallOthers
  <2>5. CmdInv'
    BY <1>3, <1>5, <2>2 DEF Returns, Return, CmdInv
  <2> QED BY <2>4, <2>5
<1>6. ASSUME CallEnds PROVE Rest'
  <2>1. outcome' \in Outcomes
    BY <1>3, <1>6, OutcomeParts DEF CallEnds, Finish, Succeed, Fail, CallOthers
  <2>2. CallOthers'
    BY <1>3, <1>6, <2>1 DEF CallEnds, Finish, Succeed, Fail, CallOthers
  <2>3. CmdInv'
    BY <1>3, <1>6 DEF CallEnds, Finish, Succeed, Fail, CmdInv
  <2> QED BY <2>2, <2>3
<1>7. ASSUME Sleep \/ BaseMoves PROVE Rest'
  BY <1>3, <1>7 DEF Sleep, BaseMoves, CallOthers, CmdInv
<1>8. ASSUME NEW i \in Ids, EcExecutes(i)
      PROVE  Rest'
  <2>1. what[i] \in Requests
    BY <1>3 DEF CallOthers
  <2>2. /\ what[i].op = "set perf" => what[i].mode \in PerfModes
        /\ what[i].op \in {"get perf", "set perf", "get opmode", "other"}
    BY <2>1, RequestParts
  <2>4. what' \in [Ids -> Requests]
    BY <1>2, <1>3, <1>8 DEF EcExecutes, Forget, CallOthers
  <2>5. answers' \subseteq PerfModes \union OpModes \union {"set perf", "other"}
    BY <1>3, <1>8, <2>2 DEF EcExecutes, CallOthers
  <2>6. CallOthers'
    BY <1>3, <1>8, <2>2, <2>4, <2>5 DEF EcExecutes, Execute, CallOthers
  <2>7. CmdInv'
    BY <1>3, <1>8 DEF EcExecutes, Execute, CmdInv, CallOthers
  <2> QED BY <2>6, <2>7
<1>9. ASSUME NEW i \in Ids, CommandLost(i)
      PROVE  Rest'
  <2>1. what' \in [Ids -> Requests]
    BY <1>2, <1>3, <1>9 DEF CommandLost, Forget, CallOthers
  <2>2. CallOthers'
    BY <1>3, <1>9, <2>1 DEF CommandLost, Expire, CallOthers
  <2>3. CmdInv'
    BY <1>3, <1>9 DEF CommandLost, Expire, CmdInv, CallOthers
  <2> QED BY <2>2, <2>3
<1>10. Rest'
  BY <1>4, <1>5, <1>6, <1>7, <1>8, <1>9 DEF CallsStep
<1> QED
  BY <1>1, <1>10 DEF CallsInv

\* SAN
SanFlags == carried \in BOOLEAN /\ slept \in BOOLEAN

SanOthers ==
    /\ san \in {"idle", "rqst", "call"}
    /\ asks \in {GetOpmode, Other}
    /\ try \in 0..RqstRetry
    /\ san # "idle" => try < RqstRetry
    /\ told \in [ok : BOOLEAN, data : OpModes \union {"none"}]
    /\ seen \subseteq OpModes

LEMMA ToldParts ==
  ASSUME NEW d \in OpModes \union {"none"}
  PROVE  Told(d) \in [ok : BOOLEAN, data : OpModes \union {"none"}]
BY DEF Told

LEMMA FailureParts == Failure \in [ok : BOOLEAN, data : OpModes \union {"none"}] /\ ~Failure.ok
BY DEF Failure

LEMMA RetryParts == 0 \in 0..RqstRetry /\ 0 < RqstRetry
BY SanAssumption

LEMMA SanTypes ==
  ASSUME CallOthers, SanFlags, SanOthers,
         \/ San
         \/ \E m : m \subseteq OpModes /\ Watch(m)
         \/ \E i : WatchExecution(i)
         \/ UNCHANGED sanVars
  PROVE  SanFlags' /\ SanOthers'
<1>1. SanFlags'
  <2> USE DEF SanFlags
  <2>1. CASE San
    BY <2>1, Zenon DEF San, SanBegins, SanCalls, SanRefused, SanSucceeds, SanFails
  <2>2. CASE \E m : m \subseteq OpModes /\ Watch(m)
    BY <2>2, Zenon DEF Watch
  <2>3. CASE \E i : WatchExecution(i)
    BY <2>3 DEF WatchExecution
  <2>4. CASE UNCHANGED sanVars
    BY <2>4, Zenon DEF sanVars
  <2> QED BY <2>1, <2>2, <2>3, <2>4
<1>2. ASSUME NEW status PROVE Unanswered(status) \in [ok : BOOLEAN, data : OpModes \union {"none"}]
  BY FailureParts, ToldParts, CallsAssumption DEF Unanswered
<1> SUFFICES SanOthers'
  BY <1>1
<1> USE DEF SanOthers
<1>3. CASE SanBegins
  <2>1. opmode \in OpModes
    BY DEF CallOthers
  <2>2. /\ san' = "rqst" /\ asks' \in {GetOpmode, Other} /\ try' = 0 /\ told' = Failure
        /\ seen' = {opmode}
    BY <1>3 DEF SanBegins
  <2> QED BY <2>1, <2>2, FailureParts, RetryParts
<1>4. CASE SanCalls
  BY <1>4 DEF SanCalls
<1>5. CASE SanRefused
  BY <1>2, <1>5 DEF SanRefused, SanDone
<1>6. CASE SanSucceeds
  BY <1>6, ToldParts DEF SanSucceeds, SanDone
<1>7. ASSUME NEW status \in Errors, SanFails(status)
      PROVE  SanOthers'
  <2>1. try + 1 \in 0..RqstRetry
    BY <1>7, SanAssumption DEF SanFails
  <2> QED
    BY <1>2, <1>7, <2>1 DEF SanFails, SanDone
<1>8. CASE \/ \E m : m \subseteq OpModes /\ Watch(m)
           \/ \E i : WatchExecution(i)
           \/ UNCHANGED sanVars
  BY <1>8 DEF Watch, WatchExecution, sanVars
<1> QED
  BY <1>3, <1>4, <1>5, <1>6, <1>7, <1>8 DEF San

\* SID
SidFlags == attr \in BOOLEAN /\ applied \in BOOLEAN

SidOthers ==
    /\ sid \in SidSteps
    /\ user \in [at : {"outside", "inside", "call"}, rqst : Accesses \union {Other}]
    /\ perfInit \in PerfModes \union {AsIs} /\ perfExit \in PerfModes \union {AsIs}
    /\ kept \in PerfModes \union {AsIs} /\ wanted \in PerfModes \union {AsIs}
    /\ overdue \subseteq PerfModes

LEMMA OverdueParts ==
  ASSUME CallOthers
  PROVE  Overdue \subseteq PerfModes
<1>1. \A i \in open : what[i] \in Requests
  BY DEF CallOthers
<1> QED BY <1>1, RequestParts DEF Overdue

LEMMA UserParts ==
  /\ NoUser.at = "outside" /\ \A c : [at |-> "inside", rqst |-> c].at = "inside"
  /\ NoUser \in [at : {"outside", "inside", "call"}, rqst : Accesses \union {Other}]
  /\ \A c \in Accesses : [at |-> "inside", rqst |-> c]
                            \in [at : {"outside", "inside", "call"}, rqst : Accesses \union {Other}]
BY DEF NoUser

LEMMA SidTypes ==
  ASSUME CallOthers, SidFlags, SidOthers, Sid \/ UNCHANGED sidVars
  PROVE  SidFlags' /\ SidOthers'
<1>1. SidFlags'
  <2> USE DEF SidFlags
  <2>1. Ok \in BOOLEAN
    BY DEF Ok
  <2>2. CASE SidProbes
    BY <2>2, Zenon DEF SidProbes, SidProbe, SidInitCalls, SidInitRefused, SidInitReturns, SidCreate
  <2>3. CASE SidRemoves
    BY <2>1, <2>3, Zenon
    DEF SidRemoves, SidRemove, SidDrained, SidExitCalls, SidExitRefused, SidExitReturns
  <2>4. CASE Attribute \/ SetParam \/ UNCHANGED sidVars
    BY <2>4, Zenon
    DEF Attribute, UserEnters, UserCalls, UserRefused, UserReturns, SetParam, sidVars
  <2> QED BY <2>2, <2>3, <2>4 DEF Sid
<1> USE DEF SidOthers, SidSteps
<1> DEFINE Users == [at : {"outside", "inside", "call"}, rqst : Accesses \union {Other}]
<1> SUFFICES SidOthers'
  BY <1>1
<1>2. CASE SidProbes
  BY <1>2, OverdueParts
  DEF SidProbes, SidProbe, SidInitCalls, SidInitRefused, SidInitReturns, SidCreate, AttributeGone,
      CallOthers
<1>3. CASE SidRemoves
  BY <1>3, OverdueParts
  DEF SidRemoves, SidRemove, SidDrained, SidExitCalls, SidExitRefused, SidExitReturns,
      AttributeGone, CallOthers
<1>4. CASE Attribute
  <2>1. user' \in Users
    BY <1>4, UserParts DEF Attribute, UserEnters, UserCalls, UserRefused, UserReturns
  <2> QED BY <1>4, <2>1 DEF Attribute, UserEnters, UserCalls, UserRefused, UserReturns
<1>5. CASE SetParam \/ UNCHANGED sidVars
  BY <1>5 DEF SetParam, sidVars
<1> QED BY <1>2, <1>3, <1>4, <1>5 DEF Sid

\* DTX
DtxFlags ==
    /\ dtx \in BOOLEAN /\ settling \in BOOLEAN /\ announced \in BOOLEAN
    /\ switch \in BOOLEAN

DtxOthers ==
    /\ pending \in [DtxWorkers -> Seq(Connections)]
    /\ \A w \in DtxWorkers : Len(pending[w]) <= MaxPending
    /\ at \in [DtxWorkers -> {"idle", "delay", "query", "call", "push", "switch"}]
    /\ event \in [DtxWorkers -> Connections]
    /\ queried \in [DtxWorkers -> OpModes \union {"error"}]
    /\ reported \subseteq OpModes \union {"error"}

DtxStep ==
    \/ Enable \/ Detach \/ Attach \/ Settle
    \/ \E w \in DtxWorkers : Handle(w) \/ Update(w)
    \/ UNCHANGED dtxVars

LEMMA PastParts ==
  /\ Past \in [Connections -> Connections]
  /\ \A c \in Connections : Past[c] \notin Latest
BY DEF Past, Connections, Latest

\* A queue in which all is out of date, and what an event makes of it
LEMMA AgedQueue ==
  ASSUME NEW q \in Seq(Connections)
  PROVE  LET aged == [i \in DOMAIN q |-> Past[q[i]]]
         IN  /\ aged \in Seq(Connections) /\ Len(aged) = Len(q)
             /\ \A i \in 1..Len(aged) : aged[i] \notin Latest
<1> DEFINE aged == [i \in DOMAIN q |-> Past[q[i]]]
<1>1. \A i \in DOMAIN q : q[i] \in Connections /\ aged[i] = Past[q[i]]
  OBVIOUS
<1>2. \A i \in DOMAIN q : aged[i] \in Connections /\ aged[i] \notin Latest
  BY <1>1, PastParts
<1>3. aged \in Seq(Connections) /\ Len(aged) = Len(q)
  BY <1>2
<1> QED BY <1>2, <1>3

\* What an event does to the queues: it is the last of the one of its worker, and
\* all the others are out of date.
AnnouncedTo(w, c) ==
    /\ pending' \in [DtxWorkers -> Seq(Connections)]
    /\ \A v \in DtxWorkers :
        /\ Len(pending'[v]) <= MaxPending
        /\ \A i \in 1..Len(pending'[v]) :
              pending'[v][i] \in Latest => v = w /\ pending'[v][i] = c
    /\ Len(pending'[w]) >= 1 /\ pending'[w][Len(pending'[w])] = c

LEMMA AnnounceParts ==
  ASSUME DtxOthers, NEW c \in Latest, Announce(c)
  PROVE  /\ \E w \in DtxWorkers : AnnouncedTo(w, c)
         /\ event' \in [DtxWorkers -> Connections]
         /\ \A v \in DtxWorkers : event'[v] \notin Latest
         /\ reported' = {} /\ announced'
<1>1. event' \in [DtxWorkers -> Connections] /\ \A v \in DtxWorkers : event'[v] \notin Latest
  BY PastParts DEF Announce, DtxOthers
<1>2. reported' = {} /\ announced'
  BY DEF Announce
<1> DEFINE aged(v) == [i \in DOMAIN pending[v] |-> Past[pending[v][i]]]
<1>3. PICK w \in DtxWorkers :
          /\ Len(pending[w]) < MaxPending
          /\ pending' = [v \in DtxWorkers |-> aged(v) \o IF v = w THEN <<c>> ELSE <<>>]
  BY DEF Announce
<1>4. \A v \in DtxWorkers : pending[v] \in Seq(Connections) /\ Len(pending[v]) <= MaxPending
  BY DEF DtxOthers
<1>5. \A v \in DtxWorkers : /\ aged(v) \in Seq(Connections) /\ Len(aged(v)) = Len(pending[v])
                            /\ \A i \in 1..Len(aged(v)) : aged(v)[i] \notin Latest
  BY <1>4, AgedQueue
<1> HIDE DEF aged
<1>6. c \in Connections /\ MaxPending \in Nat
  BY DtxAssumption DEF Connections
<1>7. ASSUME NEW v \in DtxWorkers, v # w
      PROVE  /\ pending'[v] \in Seq(Connections) /\ Len(pending'[v]) <= MaxPending
             /\ \A i \in 1..Len(pending'[v]) : pending'[v][i] \notin Latest
  <2>1. pending'[v] = aged(v)
    BY <1>3, <1>5, <1>7
  <2> QED BY <2>1, <1>4, <1>5
<1>8. /\ pending'[w] \in Seq(Connections) /\ Len(pending'[w]) <= MaxPending
      /\ \A i \in 1..Len(pending'[w]) : pending'[w][i] \in Latest => pending'[w][i] = c
      /\ Len(pending'[w]) >= 1 /\ pending'[w][Len(pending'[w])] = c
  <2>1. pending'[w] = Append(aged(w), c)
    BY <1>3, <1>5, <1>6
  <2>2. Len(pending'[w]) = Len(aged(w)) + 1 /\ pending'[w] \in Seq(Connections)
    BY <1>5, <1>6, <2>1
  <2>3. pending'[w][Len(pending'[w])] = c /\ \A i \in 1..Len(aged(w)) : pending'[w][i] = aged(w)[i]
    BY <1>5, <1>6, <2>1
  <2>4. Len(aged(w)) \in Nat /\ Len(aged(w)) < MaxPending
    BY <1>3, <1>5
  <2>5. \A i \in 1..Len(pending'[w]) : i \in 1..Len(aged(w)) \/ i = Len(pending'[w])
    BY <2>2, <2>4
  <2>6. Len(pending'[w]) <= MaxPending /\ Len(pending'[w]) >= 1
    BY <1>6, <2>2, <2>4
  <2> QED BY <1>5, <2>2, <2>3, <2>5, <2>6
<1>9. AnnouncedTo(w, c)
  <2>1. pending' = [v \in DtxWorkers |-> pending'[v]]
    BY <1>3
  <2> QED BY <1>7, <1>8, <2>1 DEF AnnouncedTo
<1> QED BY <1>1, <1>2, <1>9

LEMMA DtxTypes ==
  ASSUME CallOthers, DtxFlags, DtxOthers, DtxStep
  PROVE  DtxFlags' /\ DtxOthers'
<1>1. DtxFlags'
  <2> USE DEF DtxFlags
  <2>1. CASE Enable \/ Detach \/ Attach \/ Settle
    BY <2>1, Zenon DEF Enable, Detach, Attach, Settle, Announce, Unheard
  <2>2. CASE \E w \in DtxWorkers : Handle(w)
    BY <2>2, Zenon DEF Handle
  <2>3. ASSUME NEW w \in DtxWorkers, Update(w) PROVE DtxFlags'
    <3>1. (queried[w] = Tablet) \in BOOLEAN
      OBVIOUS
    <3> QED
      BY <2>3, <3>1, Zenon
      DEF Update, Delay, Query, QueryRefused, QueryReturns, Queried, Push, ReportSwitch
  <2>4. CASE UNCHANGED dtxVars
    BY <2>4, Zenon DEF dtxVars
  <2> QED BY <2>1, <2>2, <2>3, <2>4 DEF DtxStep
<1> SUFFICES DtxOthers'
  BY <1>1
<1> USE DEF DtxOthers
<1>2. CASE Enable \/ Settle \/ UNCHANGED dtxVars
  BY <1>2 DEF Enable, Settle, dtxVars
<1>3. CASE Detach \/ Attach
  <2>1. UNCHANGED <<at, queried>>
    BY <1>3 DEF Detach, Attach
  <2>2. \/ \E c \in Latest : Announce(c)
        \/ Unheard
    BY <1>3 DEF Detach, Attach, Latest
  <2>3. CASE \E c \in Latest : Announce(c)
    BY <2>1, <2>3, AnnounceParts DEF AnnouncedTo
  <2>4. CASE Unheard
    BY <2>1, <2>4 DEF Unheard
  <2> QED BY <2>2, <2>3, <2>4
<1>5. ASSUME NEW w \in DtxWorkers, Handle(w) PROVE DtxOthers'
  <2>1. pending[w] \in Seq(Connections) /\ pending[w] # <<>> /\ Len(pending[w]) <= MaxPending
    BY <1>5 DEF Handle
  <2>2. /\ Head(pending[w]) \in Connections /\ Tail(pending[w]) \in Seq(Connections)
        /\ Len(Tail(pending[w])) <= MaxPending
    BY <2>1, DtxAssumption
  <2> QED BY <1>5, <2>2 DEF Handle
<1>6. ASSUME NEW w \in DtxWorkers, Update(w) PROVE DtxOthers'
  BY <1>6 DEF Update, Delay, Query, QueryRefused, QueryReturns, Queried, Push, ReportSwitch
<1> QED BY <1>2, <1>3, <1>5, <1>6 DEF DtxStep

\* All of them
TypeInv ==
    /\ CallsInv
    /\ SanFlags /\ SanOthers
    /\ SidFlags /\ SidOthers
    /\ DtxFlags /\ DtxOthers

LEMMA SidRequests ==
  ASSUME SidOthers
  PROVE  /\ perfInit # AsIs => SetPerf(perfInit) \in Requests
         /\ perfExit # AsIs => SetPerf(perfExit) \in Requests
         /\ user.rqst \in Requests
BY OtherParts DEF SidOthers, Accesses, Requests

LEMMA NextIsCallsStep ==
  ASSUME TypeInv, Next
  PROVE  CallsStep
<1>1. /\ opmode \in OpModes /\ Tablet \in OpModes
      /\ "san" # "nobody" /\ "sid" # "nobody" /\ "user" # "nobody"
      /\ \A w \in DtxWorkers : w # "nobody"
  BY CallsAssumption, DtxAssumption DEF TypeInv, CallsInv, CallOthers
<1>2. asks \in Requests /\ GetOpmode \in Requests
  BY OtherParts DEF TypeInv, SanOthers
<1> USE DEF CallsStep, BaseMoves
<1>3. ASSUME opmode' = opmode, UNCHANGED <<callVars, ecVars, suspended>> PROVE CallsStep
  BY <1>1, <1>3 DEF ecVars
<1>4. CASE CallSteps
  BY <1>4 DEF CallSteps
<1>5. CASE SanSide
  BY <1>1, <1>2, <1>3, <1>5
  DEF SanSide, San, SanBegins, SanCalls, SanRefused, SanSucceeds, SanFails, Refused, ecVars
<1>6. CASE SidSide
  <2>1. CASE SidProbes
    BY <1>1, <1>3, <2>1, SidRequests
    DEF SidProbes, SidProbe, SidInitCalls, SidInitRefused, SidInitReturns, SidCreate, TypeInv, ecVars
  <2>2. CASE SidRemoves
    BY <1>1, <1>3, <2>2, SidRequests
    DEF SidRemoves, SidRemove, SidDrained, SidExitCalls, SidExitRefused, SidExitReturns, TypeInv, ecVars
  <2>3. CASE Attribute \/ SetParam
    BY <1>1, <1>3, <2>3, SidRequests
    DEF Attribute, UserEnters, UserCalls, UserRefused, UserReturns, SetParam, Refused, TypeInv, ecVars
  <2> QED BY <1>6, <2>1, <2>2, <2>3 DEF SidSide, Sid
<1>7. CASE DtxSide
  <2>1. CASE Enable \/ BaseSteps
    BY <1>1, <1>3, <2>1 DEF Enable, BaseSteps, Detach, Attach, Settle, ecVars
  <2>2. ASSUME NEW w \in DtxWorkers, WorkerSteps(w) PROVE CallsStep
    BY <1>1, <1>2, <1>3, <2>2
    DEF WorkerSteps, Handle, Update, Delay, Query, QueryRefused, QueryReturns, Push, ReportSwitch,
        Refused, ecVars
  <2> QED BY <1>7, <2>1, <2>2 DEF DtxSide
<1> QED
  BY <1>4, <1>5, <1>6, <1>7 DEF Next

LEMMA TypeNext == TypeInv /\ [Next]_vars => TypeInv'
<1> SUFFICES ASSUME TypeInv, [Next]_vars PROVE TypeInv'
  OBVIOUS
<1>1. CallsInv'
  <2>1. CASE Next
    BY <2>1, NextIsCallsStep, CallsInvStep DEF TypeInv
  <2>2. CASE UNCHANGED vars
    <3>1. BaseMoves
      BY <2>2 DEF BaseMoves, vars, ecVars, TypeInv, CallsInv, CallOthers
    <3> QED BY <3>1, CallsInvStep DEF CallsStep, TypeInv
  <2> QED BY <2>1, <2>2
<1>2. CallOthers
  BY DEF TypeInv, CallsInv
<1>3. SanFlags' /\ SanOthers'
  <2>1. opmode' \in OpModes
    BY <1>1 DEF CallsInv, CallOthers
  <2>2. \/ San \/ UNCHANGED sanVars \/ Watch({opmode'})
        \/ \E i : WatchExecution(i)
    BY DEF Next, CallSteps, SanSide, SidSide, DtxSide, BaseSteps, WorkerSteps, vars
  <2> QED BY <1>2, <2>1, <2>2, SanTypes DEF TypeInv
<1>4. SidFlags' /\ SidOthers'
  <2>1. Sid \/ UNCHANGED sidVars
    BY DEF Next, CallSteps, SanSide, SidSide, DtxSide, BaseSteps, WorkerSteps, vars
  <2> QED BY <1>2, <2>1, SidTypes DEF TypeInv
<1>5. DtxFlags' /\ DtxOthers'
  <2>1. DtxStep
    BY DEF Next, CallSteps, SanSide, SidSide, DtxSide, BaseSteps, WorkerSteps, vars, DtxStep
  <2> QED BY <1>2, <2>1, DtxTypes DEF TypeInv
<1> QED
  BY <1>1, <1>3, <1>4, <1>5 DEF TypeInv

LEMMA TypeInit == Init => TypeInv
<1> SUFFICES ASSUME Init PROVE TypeInv
  OBVIOUS
<1>1. CallFlags /\ SanFlags /\ SidFlags /\ DtxFlags
  BY Zenon DEF Init, CallsInit, CmdInit, SanInit, SidInit, DtxInit, CallFlags, SanFlags, SidFlags,
               DtxFlags
<1>2. NoOutcome \in Outcomes /\ ~NoOutcome.set /\ ~NoOutcome.ok
  BY DEF NoOutcome, Outcomes
<1>3. CallOthers /\ CmdInv
  BY <1>2, OtherParts DEF Init, CallsInit, CmdInit, CallOthers, CmdInv
<1>4. SanOthers
  BY FailureParts, RetryParts DEF Init, SanInit, SanOthers
<1>5. SidOthers
  BY UserParts DEF Init, SidInit, SidOthers, SidSteps
<1>6. DtxOthers
  <2>1. <<>> \in Seq(Connections) /\ Len(<<>>) = 0 /\ 0 <= MaxPending
    BY DtxAssumption
  <2> QED BY <2>1 DEF Init, DtxInit, DtxOthers, Connections, Latest
<1> QED
  BY <1>1, <1>3, <1>4, <1>5, <1>6 DEF TypeInv, CallsInv

LEMMA TypeParts == TypeInv => TypeOK
<1> SUFFICES ASSUME TypeInv PROVE TypeOK
  OBVIOUS
<1>1. (who = "nobody") = (cur = NoRqst)
  BY DEF TypeInv, CallsInv, CallOthers
<1>2. CallsTypeOK
  BY <1>1, Zenon DEF TypeInv, CallsInv, CallFlags, CallOthers, CallsTypeOK, CmdTypeOK
<1>3. SanTypeOK
  BY Zenon DEF TypeInv, SanFlags, SanOthers, SanTypeOK
<1>4. SidTypeOK
  <2>1. {perfInit, perfExit, kept, wanted} \subseteq PerfModes \union {AsIs}
    BY DEF TypeInv, SidOthers
  <2> QED BY <2>1, Zenon DEF TypeInv, SidFlags, SidOthers, SidTypeOK
<1>5. DtxTypeOK
  BY Zenon DEF TypeInv, DtxFlags, DtxOthers, DtxTypeOK
<1> QED
  BY <1>2, <1>3, <1>4, <1>5 DEF TypeOK

\* The variables keep their types, whatever the order of calls, retries and
\* events.
THEOREM TypeCorrect == Spec => []TypeOK
<1>1. Spec => []TypeInv
  BY TypeInit, TypeNext, PTL DEF Spec
<1>2. QED
  BY <1>1, TypeParts, PTL

-----------------------------------------------------------------------------
(* Who is in a call, and for what *)

\* The commands of calls other than the one in progress are forgotten or left.
LEMMA CallStepsKeep ==
  ASSUME TypeInv, CallSteps
  PROVE  /\ UNCHANGED <<who, cur, san, asks, sidVars, dtxVars>>
         /\ cur # NoRqst => what'[cur] = what[cur]
         /\ \A i \in Ids : what'[i] \in {what[i], Other}
         /\ open' \subseteq open
<1> USE DEF callVars, cmdVars, ecVars, TypeInv, CallsInv, CallOthers, CmdInv
<1>1. ASSUME Forget, cur # NoRqst => cur \in open'
      PROVE  /\ cur # NoRqst => what'[cur] = what[cur]
             /\ \A i \in Ids : what'[i] \in {what[i], Other}
  BY <1>1 DEF Forget
<1>2. ASSUME NEW i \in Ids, EcExecutes(i), WatchExecution(i), UNCHANGED <<sidVars, dtxVars, machine>>
      PROVE  /\ UNCHANGED <<who, cur, san, asks, sidVars, dtxVars>>
             /\ Forget /\ (cur # NoRqst => cur \in open') /\ open' \subseteq open
  BY <1>2 DEF EcExecutes, Execute, WatchExecution
<1>3. ASSUME NEW i \in Ids, CommandLost(i), UNCHANGED <<sanVars, sidVars, dtxVars, machine>>
      PROVE  /\ UNCHANGED <<who, cur, san, asks, sidVars, dtxVars>>
             /\ Forget /\ (cur # NoRqst => cur \in open') /\ open' \subseteq open
  BY <1>3 DEF CommandLost, Expire, sanVars
<1>4. CASE (CallEnds \/ Sleep) /\ UNCHANGED <<sanVars, sidVars, dtxVars, machine>>
  BY <1>4 DEF CallEnds, Finish, Succeed, Fail, Sleep, sanVars
<1> QED
  BY <1>1, <1>2, <1>3, <1>4 DEF CallSteps

\* A thread begins a call, and returns from it.
LEMMA BeginCall ==
  ASSUME TypeInv, NEW t, NEW c, Begin(t, c)
  PROVE  /\ who = "nobody" /\ who' = t /\ cur' \in Ids /\ cur' # NoRqst /\ what'[cur'] = c
         /\ open' = open \union {cur'}
         /\ \A i \in Ids : i = cur' \/ what'[i] = what[i]
BY CallsAssumption DEF Begin, Submit, TypeInv, CallsInv, CallOthers

LEMMA ReturnCall ==
  ASSUME TypeInv, NEW t, Returns(t)
  PROVE  /\ who = t /\ who' = "nobody" /\ cur \in Ids /\ cur' = NoRqst
         /\ open' \subseteq open
         /\ \A i \in Ids : what'[i] \in {what[i], Other}
BY DEF Returns, Return, Forget, TypeInv, CallsInv, CallOthers, CmdInv

LEMMA ThreadNames ==
  /\ \A w \in DtxWorkers : w \notin {"nobody", "san", "sid", "user"}
  /\ GetOpmode.op # "set perf" /\ Other.op # "set perf"
BY DtxAssumption, OtherParts

\* Nobody but the one that is in the call
WhoWhat == WhoInv /\ WhatInv

LEMMA SanWho ==
  ASSUME TypeInv, WhoWhat, San, UNCHANGED <<sidVars, dtxVars>>
  PROVE  WhoWhat'
<1> USE DEF WhoWhat, WhoInv, WhatInv, Callers, sidVars, dtxVars
<1>1. CASE SanBegins
  BY <1>1 DEF SanBegins, callVars, cmdVars
<1>2. CASE SanCalls
  <2>1. asks \in {GetOpmode, Other} /\ asks' = asks /\ san' = "call"
    BY <1>2 DEF SanCalls, TypeInv, SanOthers
  <2>2. /\ who = "nobody" /\ who' = "san" /\ cur' # NoRqst /\ what'[cur'] = asks
    BY <1>2, BeginCall DEF SanCalls
  <2> QED BY <2>1, <2>2, ThreadNames
<1>3. CASE SanRefused
  BY <1>3 DEF SanRefused, SanDone, Refused, callVars, cmdVars
<1>4. CASE SanSucceeds \/ \E s \in Errors : SanFails(s)
  <2>1. who = "san" /\ who' = "nobody" /\ cur' = NoRqst /\ san' \in {"idle", "rqst"}
    BY <1>4, ReturnCall DEF SanSucceeds, SanFails, SanDone
  <2> QED BY <2>1, ThreadNames
<1> QED BY <1>1, <1>2, <1>3, <1>4 DEF San

LEMMA SidWho ==
  ASSUME TypeInv, WhoWhat, Sid, UNCHANGED <<sanVars, dtxVars>>
  PROVE  WhoWhat'
<1> USE DEF WhoWhat, WhoInv, WhatInv, Callers, sanVars, dtxVars
<1>1. ASSUME UNCHANGED <<callVars, user, wanted>>,
             sid \notin {"init call", "exit call"}, sid' \notin {"init call", "exit call"}
      PROVE  WhoWhat'
  BY <1>1 DEF callVars, cmdVars
<1>2. CASE SidProbe \/ SidInitRefused \/ \E ok \in BOOLEAN : SidCreate(ok)
  BY <1>2 DEF SidProbe, SidInitRefused, SidCreate, callVars, cmdVars
<1>3. CASE SidRemove \/ SidDrained \/ SidExitRefused
  BY <1>1, <1>3 DEF SidRemove, SidDrained, SidExitRefused
<1>4. CASE SidInitCalls
  <2>1. who = "nobody" /\ who' = "sid" /\ cur' # NoRqst /\ sid' = "init call" /\ user' = user
    BY <1>4, BeginCall DEF SidInitCalls
  <2> QED BY <2>1, ThreadNames
<1>5. CASE SidExitCalls
  <2>1. /\ who = "nobody" /\ who' = "sid" /\ cur' # NoRqst /\ sid' = "exit call" /\ user' = user
        /\ what'[cur'] = SetPerf(perfExit) /\ wanted' = perfExit /\ perfExit # AsIs
    BY <1>5, BeginCall DEF SidExitCalls
  <2> QED BY <2>1, ThreadNames
<1>6. CASE SidInitReturns \/ SidExitReturns
  <2>1. /\ who = "sid" /\ who' = "nobody" /\ cur' = NoRqst /\ user' = user
        /\ sid' \notin {"init call", "exit call"}
    BY <1>6, ReturnCall DEF SidInitReturns, SidExitReturns
  <2> QED BY <2>1, ThreadNames
<1>7. CASE UserEnters \/ UserRefused \/ SetParam
  <2>1. UNCHANGED <<callVars, sid, wanted>>
    BY <1>7 DEF UserEnters, UserRefused, SetParam, Refused
  <2>2. user.at = "call" <=> user'.at = "call"
    BY <1>7, UserParts DEF UserEnters, UserRefused, SetParam
  <2> QED BY <2>1, <2>2 DEF callVars, cmdVars
<1>8. CASE UserCalls
  <2>1. /\ who = "nobody" /\ who' = "user" /\ cur' # NoRqst /\ UNCHANGED <<sid, wanted>>
        /\ user'.at = "call"
    BY <1>8, BeginCall DEF UserCalls, TypeInv, SidOthers
  <2> QED BY <2>1, ThreadNames
<1>9. CASE UserReturns
  <2>1. /\ who = "user" /\ who' = "nobody" /\ cur' = NoRqst /\ UNCHANGED <<sid, wanted>>
        /\ user'.at # "call"
    BY <1>9, ReturnCall DEF UserReturns, NoUser
  <2> QED BY <2>1, ThreadNames
<1> QED
  BY <1>2, <1>3, <1>4, <1>5, <1>6, <1>7, <1>8, <1>9 DEF Sid, SidProbes, SidRemoves, Attribute

LEMMA DtxWho ==
  ASSUME TypeInv, WhoWhat, DtxSide
  PROVE  WhoWhat'
<1> USE DEF WhoWhat, WhoInv, WhatInv, Callers, sanVars, sidVars
<1>1. CASE Enable /\ UNCHANGED <<sanVars, sidVars>>
  BY <1>1 DEF Enable, callVars, cmdVars
<1>2. CASE BaseSteps
  BY <1>2 DEF BaseSteps, Detach, Attach, Settle, Watch, callVars, cmdVars
<1>3. ASSUME NEW w \in DtxWorkers, Handle(w) \/ Update(w), UNCHANGED <<sanVars, sidVars>>
      PROVE  WhoWhat'
  <2>1. at \in [DtxWorkers -> {"idle", "delay", "query", "call", "push", "switch"}]
    BY DEF TypeInv, DtxOthers
  <2>2. CASE Handle(w) \/ Delay(w) \/ QueryRefused(w) \/ Push(w) \/ ReportSwitch(w)
    <3>1. UNCHANGED callVars /\ at[w] # "call" /\ at'[w] # "call"
          /\ \A v \in DtxWorkers \ {w} : at'[v] = at[v]
      BY <2>1, <2>2 DEF Handle, Delay, QueryRefused, Queried, Refused, Push, ReportSwitch
    <3> QED BY <1>3, <3>1 DEF callVars, cmdVars
  <2>3. CASE Query(w)
    <3>1. /\ who = "nobody" /\ who' = w /\ cur' # NoRqst /\ what'[cur'] = GetOpmode
          /\ at' = [at EXCEPT ![w] = "call"]
      BY <2>3, BeginCall DEF Query
    <3> QED BY <1>3, <2>1, <3>1, ThreadNames
  <2>4. CASE QueryReturns(w)
    <3>1. /\ who = w /\ who' = "nobody" /\ cur' = NoRqst
          /\ at' = [at EXCEPT ![w] = "push"]
      BY <2>4, ReturnCall DEF QueryReturns, Queried
    <3> QED BY <1>3, <2>1, <3>1, ThreadNames
  <2> QED BY <1>3, <2>2, <2>3, <2>4 DEF Update
<1> QED
  BY <1>1, <1>2, <1>3 DEF DtxSide, WorkerSteps

LEMMA WhoNext ==
  ASSUME TypeInv, WhoWhat, [Next]_vars
  PROVE  WhoWhat'
<1>1. CASE CallSteps
  BY <1>1, CallStepsKeep, ThreadNames
  DEF WhoWhat, WhoInv, WhatInv, Callers, sidVars, dtxVars
<1>2. CASE SanSide \/ SidSide \/ DtxSide
  BY <1>2, SanWho, SidWho, DtxWho DEF SanSide, SidSide
<1>3. CASE UNCHANGED vars
  BY <1>3 DEF WhoWhat, WhoInv, WhatInv, vars, callVars, cmdVars, sanVars, sidVars, dtxVars
<1> QED BY <1>1, <1>2, <1>3 DEF Next

-----------------------------------------------------------------------------
(* What a step of one caller changes for the others *)

\* Nothing, if they are in a call, and what the EC has executed and answered
\* is about the call in progress.
OthersKept(t) ==
    who = t => UNCHANGED <<cur, executed, answers, outcome>>

\* What they do to the calls: they begin one, or return from theirs.
OtherCalls ==
    \/ \E t, c : Begin(t, c)
    \/ \E t : t \notin {"sid", "user"} /\ Returns(t)
    \/ UNCHANGED callVars

LEMMA CallsKept ==
  ASSUME TypeInv, NEW t, t # "nobody",
         \/ \E s, c : Begin(s, c)
         \/ \E s : s # t /\ Returns(s)
         \/ UNCHANGED callVars
  PROVE  OthersKept(t)
<1>1. CASE \E s, c : Begin(s, c)
  BY <1>1 DEF OthersKept, Begin
<1>2. CASE \E s : s # t /\ Returns(s)
  BY <1>2 DEF OthersKept, Returns
<1>3. CASE UNCHANGED callVars
  BY <1>3 DEF OthersKept, callVars, cmdVars
<1> QED BY <1>1, <1>2, <1>3

LEMMA SidKeepsOthers ==
  ASSUME TypeInv, Sid
  PROVE  UNCHANGED opmode /\ \A t : t \notin {"nobody", "sid", "user"} => OthersKept(t)
<1> USE DEF ecVars, Refused
<1>1. /\ opmode' = opmode
      /\ \/ \E s, c : Begin(s, c)
         \/ \E s : s \in {"sid", "user"} /\ Returns(s)
         \/ UNCHANGED callVars
  <2>1. CASE SidProbes
    BY <2>1 DEF SidProbes, SidProbe, SidInitCalls, SidInitRefused, SidInitReturns, SidCreate,
                Begin, Returns
  <2>2. CASE SidRemoves
    BY <2>2 DEF SidRemoves, SidRemove, SidDrained, SidExitCalls, SidExitRefused, SidExitReturns,
                Begin, Returns
  <2>3. CASE Attribute \/ SetParam
    BY <2>3 DEF Attribute, UserEnters, UserCalls, UserRefused, UserReturns, SetParam, Begin, Returns
  <2> QED BY <2>1, <2>2, <2>3 DEF Sid
<1> QED
  BY <1>1, CallsKept

LEMMA SanKeepsOthers ==
  ASSUME TypeInv, San
  PROVE  /\ UNCHANGED <<opmode, perf>>
         /\ OtherCalls
         /\ \A t : t \notin {"nobody", "san"} => OthersKept(t)
<1> USE DEF ecVars, Refused
<1>1. /\ UNCHANGED <<opmode, perf>>
      /\ \/ \E s, c : Begin(s, c)
         \/ Returns("san")
         \/ UNCHANGED callVars
  BY DEF San, SanBegins, SanCalls, SanRefused, SanSucceeds, SanFails, Begin, Returns
<1>2. OtherCalls
  BY <1>1 DEF OtherCalls
<1> QED
  BY <1>1, <1>2, CallsKept

LEMMA DtxKeepsOthers ==
  ASSUME TypeInv, DtxSide
  PROVE  /\ UNCHANGED perf
         /\ OtherCalls
         /\ \A t : t \notin {"nobody"} \union DtxWorkers => OthersKept(t)
<1> USE DEF ecVars, Refused
<1> DEFINE Goal == /\ UNCHANGED perf
                   /\ OtherCalls
                   /\ \A t : t \notin {"nobody"} \union DtxWorkers => OthersKept(t)
<1>1. CASE Enable \/ BaseSteps
  <2>1. UNCHANGED <<callVars, perf>>
    BY <1>1 DEF Enable, BaseSteps, Detach, Attach, Settle
  <2> QED BY <2>1, CallsKept DEF OtherCalls
<1>2. ASSUME NEW w \in DtxWorkers, WorkerSteps(w)
      PROVE  Goal
  <2>1. /\ UNCHANGED perf
        /\ \/ \E s, c : Begin(s, c)
           \/ Returns(w)
           \/ UNCHANGED callVars
    BY <1>2 DEF WorkerSteps, Handle, Update, Delay, Query, QueryRefused, QueryReturns, Push,
                ReportSwitch, Begin, Returns
  <2>2. w \notin {"sid", "user"}
    BY ThreadNames
  <2>3. OtherCalls
    BY <2>1, <2>2 DEF OtherCalls
  <2> QED BY <2>1, <2>3, CallsKept
<1> QED BY <1>1, <1>2 DEF DtxSide

-----------------------------------------------------------------------------
(* What the firmware is told *)

SanAll == SanInv /\ FirmwareToldTruth

LEMMA SanStepTruth ==
  ASSUME TypeInv, WhoWhat, SanAll, San
  PROVE  SanAll'
<1>1. opmode' = opmode
  BY SanKeepsOthers
<1>2. san \in {"idle", "rqst", "call"} /\ asks \in {GetOpmode, Other} /\ GetOpmode # Other
  BY OtherParts DEF TypeInv, SanOthers
<1> USE DEF SanAll, SanInv, FirmwareToldTruth
<1>3. CASE SanBegins
  BY <1>1, <1>3 DEF SanBegins
<1>4. CASE SanCalls
  <2>1. answers' = {} /\ cur' \notin executed' /\ san = "rqst" /\ san' = "call" /\ seen' = seen
    BY <1>4, CallsAssumption DEF SanCalls, Begin, Submit, TypeInv, CallsInv, CallOthers
  <2> QED BY <1>1, <2>1
<1>5. CASE SanRefused
  <2>1. /\ san' = "idle" /\ asks' = asks /\ slept'
        /\ told' = IF asks = GetOpmode THEN Told(Laptop) ELSE Failure
    BY <1>5 DEF SanRefused, SanDone, Unanswered
  <2>2. Told(Laptop).data = Laptop /\ ~Failure.ok
    BY FailureParts DEF Told
  <2> QED BY <2>1, <2>2
<1>6. CASE SanSucceeds
  <2>1. PICK d \in OpModes \union {"none"} :
            /\ IF Reads(asks) THEN Answer(d) ELSE d = "none"
            /\ san' = "idle" /\ told' = Told(d)
    BY <1>6 DEF SanSucceeds, SanDone
  <2>2. san = "call" /\ cur \in executed /\ UNCHANGED <<asks, seen, carried>>
    BY <1>6 DEF SanSucceeds, Ok, TypeInv, CallsInv, CmdInv
  <2>3. carried'
    BY <2>2
  <2>4. asks = GetOpmode => d \in seen
    BY <2>1, <2>2, OtherParts DEF Reads, Answer
  <2>5. Told(d).data = d
    BY DEF Told
  <2> QED BY <2>1, <2>2, <2>3, <2>4, <2>5
<1>7. ASSUME NEW s \in Errors, SanFails(s) PROVE SanAll'
  <2>1. Unanswered(s) = Failure
    BY <1>7 DEF Errors, Unanswered
  <2>2. CASE san' = "rqst"
    BY <1>1, <1>7, <2>2 DEF SanFails
  <2>3. CASE san' # "rqst"
    <3>1. san' = "idle" /\ told' = Failure
      BY <1>7, <2>1, <2>3 DEF SanFails, SanDone
    <3> QED BY <3>1, FailureParts
  <2> QED BY <2>2, <2>3
<1> QED BY <1>3, <1>4, <1>5, <1>6, <1>7 DEF San

LEMMA SanNext ==
  ASSUME TypeInv, WhoWhat, SanAll, [Next]_vars
  PROVE  SanAll'
<1>1. san = "call" => who = "san"
  BY DEF WhoWhat, WhoInv
<1>2. ASSUME UNCHANGED <<sanVars, opmode>>, OthersKept("san") PROVE SanAll'
  BY <1>1, <1>2 DEF OthersKept, SanAll, SanInv, FirmwareToldTruth, sanVars
<1>3. ASSUME NEW i \in Ids, EcExecutes(i), WatchExecution(i) PROVE SanAll'
  <2>1. /\ UNCHANGED <<san, asks, told, seen, slept, cur, opmode>>
        /\ executed' = executed \union {i}
    BY <1>3 DEF EcExecutes, Execute, WatchExecution
  <2>2. carried' <=> carried \/ (san = "call" /\ i = cur)
    BY <1>3, Zenon DEF WatchExecution
  <2>3. FirmwareToldTruth'
    BY <2>1, <2>2 DEF SanAll, FirmwareToldTruth
  <2>4. CASE san = "call" /\ i = cur
    <3>1. what[i] = asks
      BY <2>4 DEF WhoWhat, WhatInv
    <3>2. asks = GetOpmode => answers' = answers \union {opmode}
      BY <1>3, <2>4, <3>1, OtherParts DEF EcExecutes
    <3> QED BY <2>1, <2>2, <2>3, <2>4, <3>2 DEF SanAll, SanInv
  <2>5. CASE ~(san = "call" /\ i = cur)
    <3>1. san = "call" => answers' = answers
      BY <1>3, <2>5 DEF EcExecutes
    <3> QED BY <2>1, <2>2, <2>3, <2>5, <3>1 DEF SanAll, SanInv
  <2> QED BY <2>4, <2>5
<1>4. CASE (CallEnds \/ Sleep \/ \E i \in Ids : CommandLost(i)) /\ UNCHANGED sanVars
  <2>1. UNCHANGED <<cur, executed, answers, opmode, san>>
    BY <1>4 DEF CallEnds, Finish, Succeed, Fail, Sleep, CommandLost, Expire, callVars, cmdVars,
                ecVars, sanVars
  <2> QED BY <1>4, <2>1 DEF SanAll, SanInv, FirmwareToldTruth, sanVars
<1>5. CASE SanSide
  BY <1>5, SanStepTruth DEF SanSide
<1>6. CASE SidSide
  BY <1>2, <1>6, SidKeepsOthers DEF SidSide
<1>7. CASE DtxSide
  <2>1. OthersKept("san")
    BY <1>7, DtxKeepsOthers, ThreadNames
  <2>2. CASE BaseSteps
    <3>1. /\ seen' = IF san = "idle" THEN seen ELSE seen \union {opmode'}
          /\ UNCHANGED <<san, asks, told, carried, slept>>
      BY <2>2 DEF BaseSteps, Watch
    <3> QED BY <1>1, <2>1, <3>1 DEF OthersKept, SanAll, SanInv, FirmwareToldTruth
  <2>3. CASE ~BaseSteps
    <3>1. UNCHANGED <<sanVars, opmode>>
      BY <1>7, <2>3 DEF DtxSide, WorkerSteps, Enable, Handle, Update, Delay, Query, QueryRefused,
                        QueryReturns, Push, ReportSwitch, Begin, Returns, Refused, ecVars
    <3> QED BY <1>2, <2>1, <3>1
  <2> QED BY <2>2, <2>3
<1>8. CASE UNCHANGED vars
  BY <1>2, <1>8 DEF vars, callVars, cmdVars, ecVars, OthersKept
<1> QED
  BY <1>3, <1>4, <1>5, <1>6, <1>7, <1>8 DEF Next, CallSteps

LEMMA SanStart == Init => SanAll
BY FailureParts DEF Init, SanInit, SanAll, SanInv, FirmwareToldTruth

-----------------------------------------------------------------------------
(* The mode that SID leaves *)

SidAll == LateInv /\ AttrInv /\ KeptInv

\* The other callers set no mode.
LEMMA LateOthers ==
  ASSUME TypeInv, WhoWhat, LateInv, OtherCalls, UNCHANGED sidVars
  PROVE  LateInv'
<1> USE DEF LateInv, SetsPerf, sidVars
<1>1. ASSUME NEW t, NEW c, Begin(t, c) PROVE LateInv'
  <2>1. /\ cur = NoRqst /\ open' = open \union {cur'} /\ open \subseteq Ids /\ NoRqst \notin Ids
        /\ \A i \in Ids : i = cur' \/ what'[i] = what[i]
    BY <1>1, BeginCall, CallsAssumption DEF TypeInv, CallsInv, CallOthers
  <2> QED BY <2>1
<1>2. ASSUME NEW t, t \notin {"sid", "user"}, Returns(t) PROVE LateInv'
  <2>1. /\ who = t /\ open' \subseteq open /\ open \subseteq Ids
        /\ \A i \in Ids : what'[i] \in {what[i], Other}
    BY <1>2, ReturnCall DEF TypeInv, CallsInv, CallOthers
  <2>2. cur # NoRqst => ~SetsPerf(cur)
    BY <1>2, <2>1 DEF WhoWhat, WhatInv
  <2>3. cur \in Ids /\ NoRqst \notin Ids
    BY <1>2, ReturnCall, CallsAssumption
  <2>4. \A i \in open' : SetsPerf(i)' => i \in open \ {cur} /\ what'[i] = what[i]
    BY <2>1, <2>2, <2>3, ThreadNames
  <2> QED BY <2>4
<1>3. CASE UNCHANGED callVars
  BY <1>3 DEF callVars, cmdVars
<1> QED BY <1>1, <1>2, <1>3 DEF OtherCalls

LEMMA SidKeepsPerf ==
  ASSUME Sid
  PROVE  perf' = perf
BY DEF Sid, SidProbes, SidProbe, SidInitCalls, SidInitRefused, SidInitReturns, SidCreate,
       SidRemoves, SidRemove, SidDrained, SidExitCalls, SidExitRefused, SidExitReturns,
       Attribute, UserEnters, UserCalls, UserRefused, UserReturns, SetParam, Begin, Returns,
       Refused, ecVars

\* The attribute goes: the mode is what it is, and what is on its way is known.
LEMMA AttributeGoes ==
  ASSUME AttributeGone, UNCHANGED <<callVars, perf>>
  PROVE  kept' = perf' /\ LateInv'
<1>1. kept' = perf' /\ overdue' = Overdue /\ UNCHANGED <<open, cur, what>>
  BY DEF AttributeGone, callVars, cmdVars
<1>2. \A i \in open \ {cur} : SetsPerf(i) => what[i].mode \in Overdue
  BY DEF Overdue, SetsPerf
<1> QED BY <1>1, <1>2 DEF LateInv, SetsPerf

\* What the exit asks for
LEMMA ExitLate ==
  ASSUME TypeInv, WhoWhat, LateInv, SidExitCalls \/ SidExitReturns
  PROVE  LateInv'
<1> USE DEF LateInv, SetsPerf
<1>1. CASE SidExitCalls
  <2>1. /\ sid = "exit" /\ sid' = "exit call" /\ UNCHANGED <<kept, overdue>>
        /\ cur = NoRqst /\ open' = open \union {cur'} /\ open \subseteq Ids /\ NoRqst \notin Ids
        /\ \A i \in Ids : i = cur' \/ what'[i] = what[i]
    BY <1>1, BeginCall, CallsAssumption DEF SidExitCalls, TypeInv, CallsInv, CallOthers
  <2> QED BY <2>1
<1>2. CASE SidExitReturns
  <2>1. /\ sid = "exit call" /\ sid' = "unbound" /\ UNCHANGED <<kept, wanted, overdue>>
        /\ open' \subseteq open /\ open \subseteq Ids
        /\ \A i \in Ids : what'[i] \in {what[i], Other}
    BY <1>2, ReturnCall DEF SidExitReturns, TypeInv, CallsInv, CallOthers
  <2>2. what[cur].mode = wanted
    BY <2>1, SetPerfParts DEF WhoWhat, WhatInv
  <2>3. \A i \in open' : SetsPerf(i)' => SetsPerf(i) /\ what'[i] = what[i]
    BY <2>1, ThreadNames
  <2>4. ASSUME kept # AsIs, NEW i \in open', SetsPerf(i)'
        PROVE  what'[i].mode \in overdue' \/ what'[i].mode = wanted'
    <3>1. CASE i = cur
      BY <2>1, <2>2, <2>3, <2>4, <3>1
    <3>2. CASE i # cur
      BY <2>1, <2>3, <2>4, <3>2
    <3> QED BY <3>1, <3>2
  <2> QED BY <2>1, <2>4
<1> QED BY <1>1, <1>2

LEMMA SidStepKept ==
  ASSUME TypeInv, WhoWhat, SidAll, Sid
  PROVE  SidAll'
<1>0. LateInv /\ AttrInv /\ KeptInv
  BY DEF SidAll
<1> USE DEF AttrInv, KeptInv
<1>1. perf' = perf
  BY SidKeepsPerf
<1>2. kept \in PerfModes \union {AsIs} /\ wanted \in PerfModes \union {AsIs}
  BY DEF TypeInv, SidOthers
<1>3. ASSUME AttrInv', KeptInv', kept' = AsIs PROVE SidAll'
  BY <1>3 DEF SidAll, LateInv
<1>4. CASE SidProbe
  BY <1>0, <1>3, <1>4 DEF SidProbe
<1>5. CASE SidInitCalls \/ SidInitRefused \/ SidInitReturns
  <2>1. /\ sid \in {"init", "init call"} /\ sid' \in {"init call", "unbound", "attr"}
        /\ UNCHANGED <<attr, user, kept, wanted, applied>>
    BY <1>5 DEF SidInitCalls, SidInitRefused, SidInitReturns
  <2> QED BY <1>0, <1>1, <1>3, <2>1
<1>6. ASSUME NEW ok \in BOOLEAN, SidCreate(ok) PROVE SidAll'
  <2>1. sid = "attr" /\ kept = AsIs /\ user = NoUser
    BY <1>0, <1>6 DEF SidCreate
  <2>2. CASE ok
    BY <1>0, <1>1, <1>3, <1>6, <2>1, <2>2 DEF SidCreate
  <2>3. CASE ~ok
    <3>1. /\ AttributeGone /\ UNCHANGED <<callVars, perf>>
          /\ attr' = ok /\ sid' = "exit" /\ UNCHANGED <<user, applied>>
      BY <1>1, <1>6, <2>3 DEF SidCreate
    <3>2. kept' = perf' /\ LateInv'
      BY <3>1, AttributeGoes
    <3> QED BY <1>0, <2>1, <2>3, <3>1, <3>2 DEF SidAll
  <2> QED BY <2>2, <2>3
<1>7. CASE SidRemove
  BY <1>0, <1>3, <1>7 DEF SidRemove
<1>8. CASE SidDrained
  <2>1. /\ AttributeGone /\ UNCHANGED <<callVars, perf>>
        /\ sid = "drain" /\ sid' = "exit" /\ user = NoUser /\ UNCHANGED <<attr, user, applied>>
    BY <1>1, <1>8 DEF SidDrained
  <2>2. kept' = perf' /\ LateInv'
    BY <2>1, AttributeGoes
  <2> QED BY <1>0, <2>1, <2>2 DEF SidAll
<1>9. CASE SidExitCalls
  <2>1. /\ cur' \notin executed' /\ sid = "exit" /\ sid' = "exit call"
        /\ UNCHANGED <<attr, user, kept, applied, overdue>>
    BY <1>9, CallsAssumption DEF SidExitCalls, Begin, Submit, TypeInv, CallsInv, CallOthers
  <2>2. LateInv'
    BY <1>0, <1>9, ExitLate
  <2> QED BY <1>0, <1>1, <2>1, <2>2 DEF SidAll
<1>10. CASE SidExitRefused
  <2>1. /\ sid = "exit" /\ sid' = "unbound" /\ UNCHANGED callVars
        /\ UNCHANGED <<attr, user, kept, wanted, applied, overdue>>
    BY <1>10 DEF SidExitRefused
  <2>2. LateInv'
    BY <1>0, <2>1 DEF LateInv, SetsPerf, callVars, cmdVars
  <2> QED BY <1>0, <1>1, <2>1, <2>2 DEF SidAll
<1>11. CASE SidExitReturns
  <2>1. Ok => cur \in executed
    BY DEF Ok, TypeInv, CallsInv, CmdInv
  <2>2. /\ sid = "exit call" /\ sid' = "unbound" /\ (applied' <=> Ok)
        /\ UNCHANGED <<attr, user, kept, wanted, overdue>>
    BY <1>11 DEF SidExitReturns
  <2>3. LateInv'
    BY <1>0, <1>11, ExitLate
  <2> QED BY <1>0, <1>1, <2>1, <2>2, <2>3 DEF SidAll
<1>12. CASE Attribute
  <2>1. /\ UNCHANGED <<sid, attr, kept, wanted, applied, overdue>>
        /\ user' # NoUser => attr \/ user # NoUser
        /\ attr \/ user # NoUser
    BY <1>12, UserParts DEF Attribute, UserEnters, UserCalls, UserRefused, UserReturns
  <2> QED BY <1>0, <1>1, <1>3, <2>1
<1>13. CASE SetParam
  <2>1. UNCHANGED <<sid, attr, user, kept, wanted, applied, overdue, callVars>>
    BY <1>13 DEF SetParam
  <2>2. LateInv'
    BY <1>0, <2>1 DEF LateInv, SetsPerf, callVars, cmdVars
  <2> QED BY <1>0, <1>1, <2>1, <2>2 DEF SidAll, callVars, cmdVars
<1> QED
  BY <1>4, <1>5, <1>6, <1>7, <1>8, <1>9, <1>10, <1>11, <1>12, <1>13
  DEF Sid, SidProbes, SidRemoves

\* A command that the EC executes while the attribute is gone, and sets the mode
LEMMA ExecutedKept ==
  ASSUME TypeInv, WhoWhat, SidAll, kept # AsIs, NEW i \in Ids, EcExecutes(i), SetsPerf(i)
  PROVE  \/ i = cur /\ sid = "exit call" /\ perf' = wanted
         \/ i # cur /\ perf' \in overdue
         \/ i # cur /\ sid = "unbound" /\ perf' = wanted
<1>1. i \in open /\ perf' = what[i].mode
  BY DEF EcExecutes, Execute, SetsPerf
<1>2. CASE i = cur
  <2>1. who \in {"sid", "user"}
    BY <1>2, CallsAssumption DEF SetsPerf, WhoWhat, WhatInv
  <2>2. user = NoUser
    BY DEF SidAll, AttrInv
  <2>3. who = "sid"
    BY <2>1, <2>2, UserParts DEF WhoWhat, WhoInv
  <2>4. sid = "exit call"
    BY <2>3 DEF WhoWhat, WhoInv, SidAll, AttrInv
  <2> QED BY <1>1, <1>2, <2>4, SetPerfParts DEF WhoWhat, WhatInv
<1>3. CASE i # cur
  BY <1>1, <1>3 DEF SidAll, LateInv
<1> QED BY <1>2, <1>3

LEMMA SidNext ==
  ASSUME TypeInv, WhoWhat, SidAll, [Next]_vars
  PROVE  SidAll'
<1>0. LateInv /\ AttrInv /\ KeptInv
  BY DEF SidAll
<1>1. sid = "exit call" => who = "sid"
  BY DEF WhoWhat, WhoInv
<1>2. ASSUME UNCHANGED <<sidVars, perf>>, OthersKept("sid"), OtherCalls PROVE SidAll'
  <2>1. LateInv'
    BY <1>0, <1>2, LateOthers DEF sidVars
  <2> QED BY <1>0, <1>1, <1>2, <2>1 DEF SidAll, OthersKept, AttrInv, KeptInv, sidVars
<1>3. CASE CallSteps
  <2>1. /\ UNCHANGED <<sidVars, cur>> /\ open' \subseteq open /\ open \subseteq Ids
        /\ \A i \in Ids : what'[i] \in {what[i], Other}
    BY <1>3, CallStepsKeep DEF TypeInv, CallsInv, CallOthers
  <2>2. LateInv'
    <3>1. \A i \in open' : SetsPerf(i)' => SetsPerf(i) /\ what'[i] = what[i]
      BY <2>1, ThreadNames DEF SetsPerf
    <3> QED BY <1>0, <2>1, <3>1 DEF LateInv, sidVars
  <2>3. AttrInv'
    BY <1>0, <2>1 DEF AttrInv, sidVars
  <2>4. ASSUME NEW i \in Ids, EcExecutes(i) PROVE KeptInv'
    <3>1. /\ executed' = executed \union {i}
          /\ perf' = IF SetsPerf(i) THEN what[i].mode ELSE perf
      BY <2>4 DEF EcExecutes, Execute, SetsPerf
    <3>2. CASE SetsPerf(i) /\ kept # AsIs
      <4>1. \/ i = cur /\ sid = "exit call" /\ perf' = wanted
            \/ i # cur /\ perf' \in overdue
            \/ i # cur /\ sid = "unbound" /\ perf' = wanted
        BY <2>4, <3>2, ExecutedKept
      <4> QED BY <1>0, <2>1, <3>1, <4>1 DEF KeptInv, sidVars
    <3>3. CASE ~SetsPerf(i) \/ kept = AsIs
      <4>1. kept # AsIs /\ sid = "exit call" => i # cur
        BY ZenonT(40), <3>3, SetPerfParts DEF SetsPerf, WhoWhat, WhatInv
      <4> QED BY ZenonT(40), <1>0, <2>1, <3>1, <3>3, <4>1 DEF KeptInv, sidVars
    <3> QED BY <3>2, <3>3
  <2>5. ASSUME CallEnds \/ Sleep \/ \E i \in Ids : CommandLost(i)
        PROVE  KeptInv'
    <3>1. UNCHANGED <<executed, perf>>
      BY <2>5 DEF CallEnds, Finish, Succeed, Fail, Sleep, CommandLost, Expire, callVars, cmdVars,
                  ecVars
    <3> QED BY <1>0, <2>1, <3>1 DEF KeptInv, sidVars
  <2>6. KeptInv'
    BY <1>3, <2>4, <2>5 DEF CallSteps
  <2> QED BY <2>2, <2>3, <2>6 DEF SidAll
<1>4. CASE SanSide
  BY <1>2, <1>4, SanKeepsOthers DEF SanSide
<1>5. CASE SidSide
  BY <1>5, SidStepKept DEF SidSide
<1>6. CASE DtxSide
  <2>1. UNCHANGED sidVars
    BY <1>6 DEF DtxSide, BaseSteps, WorkerSteps
  <2> QED BY <1>2, <1>6, <2>1, DtxKeepsOthers, ThreadNames
<1>7. CASE UNCHANGED vars
  BY <1>2, <1>7 DEF vars, callVars, cmdVars, ecVars, OthersKept, OtherCalls
<1> QED
  BY <1>3, <1>4, <1>5, <1>6, <1>7 DEF Next

LEMMA SidStart == Init => SidAll
BY DEF Init, SidInit, SidAll, LateInv, AttrInv, KeptInv

-----------------------------------------------------------------------------
(* What DTX reports *)

LEMMA WhoStart == Init => WhoWhat
<1> SUFFICES ASSUME Init PROVE WhoWhat
  OBVIOUS
<1>1. /\ who = "nobody" /\ cur = NoRqst /\ san = "idle" /\ sid = "unbound" /\ user = NoUser
      /\ \A w \in DtxWorkers : at[w] = "idle"
  BY DEF Init, CallsInit, CmdInit, SanInit, SidInit, DtxInit
<1> QED BY <1>1, ThreadNames, UserParts DEF WhoWhat, WhoInv, WhatInv, Callers

ReportInv == WorkerInv /\ LatestInv

LEMMA DtxParts ==
  ASSUME TypeInv
  PROVE  /\ pending \in [DtxWorkers -> Seq(Connections)]
         /\ at \in [DtxWorkers -> {"idle", "delay", "query", "call", "push", "switch"}]
         /\ event \in [DtxWorkers -> Connections]
         /\ queried \in [DtxWorkers -> OpModes \union {"error"}]
         /\ "attached" \in Latest /\ "detached" \in Latest
         /\ \A c \in Latest : c \in {"attached", "detached"}
BY DEF TypeInv, DtxOthers, Latest

\* An event comes, and the base has not settled after it if it came itself.
LEMMA AnnounceReport ==
  ASSUME TypeInv, NEW c \in Latest, Announce(c), dtx' = dtx, dtx, at' = at,
         settling' => c = "attached"
  PROVE  ReportInv'
<1>1. PICK w \in DtxWorkers : AnnouncedTo(w, c)
  BY AnnounceParts DEF TypeInv
<1>2. /\ \A v \in DtxWorkers : event'[v] \notin Latest
      /\ reported' = {} /\ announced'
  BY AnnounceParts DEF TypeInv
<1>3. ASSUME NEW v \in DtxWorkers PROVE ~InHand(v, "attached")' /\ ~InHand(v, "detached")'
  BY <1>2, DtxParts DEF InHand
<1>4. ASSUME NEW v \in DtxWorkers, settling' PROVE ~Queued(v, "detached")'
  <2>1. pending'[v] \in Seq(Connections) /\ DOMAIN pending'[v] = 1..Len(pending'[v])
    BY <1>1 DEF AnnouncedTo
  <2>2. \A i \in 1..Len(pending'[v]) : pending'[v][i] \in Latest => pending'[v][i] = "attached"
    BY <1>1, <1>4 DEF AnnouncedTo
  <2> QED BY <2>1, <2>2, DtxParts DEF Queued
<1>5. WorkerInv'
  <2>1. ASSUME NEW v \in DtxWorkers PROVE UntoldInv(v)' /\ SettlingInv(v)' /\ ToldInv(v)'
    BY <1>2, <1>3, <1>4, <2>1 DEF UntoldInv, SettlingInv, ToldInv
  <2> QED BY <2>1 DEF WorkerInv
<1>6. Queued(w, c)'
  <2>1. pending'[w] \in Seq(Connections) /\ Len(pending'[w]) >= 1
        /\ pending'[w][Len(pending'[w])] = c
    BY <1>1 DEF AnnouncedTo
  <2>2. Len(pending'[w]) \in DOMAIN pending'[w]
    BY <2>1
  <2> QED BY <2>1, <2>2 DEF Queued
<1>7. LatestInv'
  BY <1>6 DEF LatestInv
<1> QED BY <1>5, <1>7 DEF ReportInv

LEMMA BaseReport ==
  ASSUME TypeInv, ReportInv, Enable \/ Detach \/ Attach \/ Settle
  PROVE  ReportInv'
<1>0. WorkerInv /\ LatestInv
  BY DEF ReportInv
<1>1. CASE Enable
  <2>1. UNCHANGED <<settling, announced, pending, at, event, queried, reported, answers, opmode>>
        /\ dtx'
    BY <1>1 DEF Enable, callVars, ecVars
  <2> QED
    BY <1>0, <2>1 DEF ReportInv, WorkerInv, UntoldInv, SettlingInv, ToldInv, LatestInv, Reported,
                      Queued, InHand
\* With nobody told of it the workers have nothing to do.
<1>2. ASSUME ~dtx, UNCHANGED <<dtx, announced, pending, event, at>> PROVE ReportInv'
  <2>1. ~announced
    BY <1>0, <1>2 DEF LatestInv
  <2>2. ASSUME NEW v \in DtxWorkers PROVE UntoldInv(v)' /\ SettlingInv(v)' /\ ToldInv(v)'
    <3>1. at'[v] = "idle" /\ pending'[v] = <<>>
      BY <1>0, <1>2, <2>1, <2>2 DEF WorkerInv, UntoldInv
    <3> QED BY <3>1 DEF UntoldInv, SettlingInv, ToldInv, Queued, InHand
  <2>3. LatestInv'
    BY <1>2, <2>1 DEF LatestInv
  <2> QED BY <2>2, <2>3 DEF ReportInv, WorkerInv
<1>3. CASE Detach
  <2>1. ~settling' /\ UNCHANGED <<dtx, at>> /\ IF dtx THEN Announce("detached") ELSE Unheard
    BY <1>3 DEF Detach
  <2> QED BY <1>2, <2>1, AnnounceReport, DtxParts DEF Unheard
<1>4. CASE Attach
  <2>1. UNCHANGED <<dtx, at>> /\ IF dtx THEN Announce("attached") ELSE Unheard
    BY <1>4 DEF Attach
  <2> QED BY <1>2, <2>1, AnnounceReport, DtxParts DEF Unheard
<1>5. CASE Settle
  <2>1. /\ settling /\ ~settling'
        /\ UNCHANGED <<dtx, announced, pending, at, event, queried, reported>>
    BY <1>5 DEF Settle
  <2>2. ASSUME NEW v \in DtxWorkers PROVE UntoldInv(v)' /\ SettlingInv(v)' /\ ToldInv(v)'
    <3>1. UntoldInv(v) /\ SettlingInv(v)
      BY <1>0, <2>2 DEF WorkerInv
    <3>2. event[v] \in Latest => at[v] \in {"idle", "delay"}
      BY <2>1, <3>1, DtxParts DEF SettlingInv, InHand
    <3> QED BY <2>1, <3>1, <3>2 DEF UntoldInv, SettlingInv, ToldInv
  <2>3. LatestInv'
    BY <1>0, <2>1 DEF LatestInv, Queued, InHand
  <2> QED BY <2>2, <2>3 DEF ReportInv, WorkerInv
<1> QED BY <1>1, <1>3, <1>4, <1>5

\* What a worker leaves alone: the base, and what the others do.
LEMMA WorkerKeeps ==
  ASSUME TypeInv, NEW w \in DtxWorkers, Handle(w) \/ Update(w)
  PROVE  /\ UNCHANGED <<dtx, settling, announced, opmode>>
         /\ \A v \in DtxWorkers \ {w} :
               UNCHANGED <<pending[v], at[v], event[v], queried[v]>>
<1>1. UNCHANGED <<dtx, settling, announced, opmode>>
  BY DEF Handle, Update, Delay, Query, QueryRefused, QueryReturns, Queried, Push, ReportSwitch,
         Begin, Refused, Returns, ecVars
<1>2. ASSUME NEW v \in DtxWorkers \ {w}
      PROVE  UNCHANGED <<pending[v], at[v], event[v], queried[v]>>
  <2>1. CASE Handle(w)
    BY <1>2, <2>1, DtxParts DEF Handle
  <2>2. CASE Update(w)
    BY <1>2, <2>2, DtxParts
    DEF Update, Delay, Query, QueryRefused, QueryReturns, Queried, Push, ReportSwitch
  <2> QED BY <2>1, <2>2
<1> QED BY <1>1, <1>2

\* While a worker is in a call, or begins or returns from one, no other is.
LEMMA OneCalls ==
  ASSUME TypeInv, WhoWhat, NEW w \in DtxWorkers, Handle(w) \/ Update(w),
         NEW v \in DtxWorkers \ {w}
  PROVE  at[v] = "call" => answers' = answers
<1>1. at[v] = "call" => who = v
  BY DEF WhoWhat, WhoInv
<1>2. v # "nobody"
  BY ThreadNames
<1>3. \/ who \in {"nobody", w}
      \/ UNCHANGED answers
  BY DEF Handle, Update, Delay, Query, QueryRefused, QueryReturns, Queried, Push, ReportSwitch,
         Begin, Refused, Returns, callVars
<1> QED BY <1>1, <1>2, <1>3

LEMMA OthersReport ==
  ASSUME TypeInv, WhoWhat, WorkerInv, NEW w \in DtxWorkers, Handle(w) \/ Update(w),
         reported \subseteq reported', NEW v \in DtxWorkers \ {w}
  PROVE  UntoldInv(v)' /\ SettlingInv(v)' /\ ToldInv(v)'
<1>1. /\ UNCHANGED <<dtx, settling, announced, opmode>>
      /\ UNCHANGED <<pending[v], at[v], event[v], queried[v]>>
  BY WorkerKeeps
<1>2. at[v] = "call" => answers' = answers
  BY OneCalls
<1>3. UntoldInv(v) /\ SettlingInv(v) /\ ToldInv(v)
  BY DEF WorkerInv
<1> QED BY <1>1, <1>2, <1>3 DEF UntoldInv, SettlingInv, ToldInv, Queued, InHand

\* A worker takes the first event of its queue.
LEMMA HandleReport ==
  ASSUME TypeInv, WorkerInv, LatestInv, NEW w \in DtxWorkers, Handle(w)
  PROVE  UntoldInv(w)' /\ SettlingInv(w)' /\ ToldInv(w)' /\ LatestInv'
<1>1. /\ UNCHANGED <<dtx, settling, announced, opmode, reported>>
      /\ \A v \in DtxWorkers \ {w} : UNCHANGED <<pending[v], at[v], event[v]>>
  BY WorkerKeeps DEF Handle
<1>2. pending[w] \in Seq(Connections) /\ pending[w] # <<>> /\ at[w] = "idle"
  BY DtxParts DEF Handle
<1>3. /\ pending'[w] = Tail(pending[w]) /\ event'[w] = Head(pending[w])
      /\ at'[w] \in {"query", "delay"}
      /\ Head(pending[w]) = "attached" => at'[w] = "delay"
  BY DtxParts DEF Handle
<1>4. ASSUME NEW c, Queued(w, c)' PROVE Queued(w, c)
  <2>1. PICK i \in 1..Len(Tail(pending[w])) : Tail(pending[w])[i] = c
    BY <1>2, <1>3, <1>4 DEF Queued
  <2>2. i + 1 \in DOMAIN pending[w] /\ pending[w][i + 1] = c
    BY <1>2, <2>1
  <2> QED BY <2>2 DEF Queued
<1>5. ASSUME NEW c, InHand(w, c)' PROVE Queued(w, c)
  <2>1. 1 \in DOMAIN pending[w] /\ pending[w][1] = c
    BY <1>2, <1>3, <1>5 DEF InHand
  <2> QED BY <2>1 DEF Queued
<1>6. ASSUME NEW c, Queued(w, c) PROVE Queued(w, c)' \/ InHand(w, c)'
  <2>1. PICK i \in 1..Len(pending[w]) : pending[w][i] = c
    BY <1>2, <1>6 DEF Queued
  <2>2. CASE i = 1
    BY <1>2, <1>3, <2>1, <2>2 DEF InHand
  <2>3. CASE i # 1
    <3>1. i - 1 \in DOMAIN pending'[w] /\ pending'[w][i - 1] = c
      BY <1>2, <1>3, <2>1, <2>3
    <3> QED BY <3>1 DEF Queued
  <2> QED BY <2>2, <2>3
<1>7. announced
  BY <1>2 DEF WorkerInv, UntoldInv
<1>8. SettlingInv(w)'
  <2>1. SettlingInv(w)
    BY DEF WorkerInv
  <2>2. InHand(w, "attached")' => at'[w] = "delay"
    BY <1>3 DEF InHand
  <2> QED BY <1>1, <1>4, <1>5, <2>1, <2>2 DEF SettlingInv
<1>9. LatestInv'
  <2>1. CASE ~settling /\ Reported
    BY <1>1, <2>1 DEF LatestInv, Reported
  <2>2. ASSUME NEW v \in DtxWorkers, NEW c \in Latest, Queued(v, c) \/ InHand(v, c)
        PROVE  Queued(v, c)' \/ InHand(v, c)'
    <3>1. CASE v = w
      BY <1>2, <1>6, <2>2, <3>1 DEF InHand
    <3>2. CASE v # w
      BY <1>1, <2>2, <3>2 DEF Queued, InHand
    <3> QED BY <3>1, <3>2
  <2> QED BY <1>1, <1>7, <2>1, <2>2 DEF LatestInv
<1> QED BY <1>1, <1>3, <1>7, <1>8, <1>9 DEF UntoldInv, ToldInv

\* A worker asks, pushes what it is told, and sets the switch.
LEMMA UpdateReport ==
  ASSUME TypeInv, WorkerInv, LatestInv, NEW w \in DtxWorkers, Update(w)
  PROVE  UntoldInv(w)' /\ SettlingInv(w)' /\ ToldInv(w)' /\ LatestInv'
         /\ reported \subseteq reported'
<1>0. UntoldInv(w) /\ SettlingInv(w) /\ ToldInv(w)
  BY DEF WorkerInv
<1>1. /\ UNCHANGED <<dtx, settling, announced, opmode>>
      /\ \A v \in DtxWorkers \ {w} : UNCHANGED <<pending[v], at[v], event[v]>>
  BY WorkerKeeps
<1>2. UNCHANGED <<pending[w], event[w]>> /\ at[w] # "idle"
  BY DEF Update, Delay, Query, QueryRefused, QueryReturns, Queried, Push, ReportSwitch
<1>3. reported \subseteq reported'
  BY DEF Update, Delay, Query, QueryRefused, QueryReturns, Queried, Push, ReportSwitch
<1>4. announced /\ announced'
  BY <1>0, <1>1, <1>2 DEF UntoldInv
\* The worker is past its delay when the base has settled, and what it is told then.
<1>5. /\ settling /\ event[w] \in Latest => at'[w] = "delay"
      /\ ToldInv(w)'
  <2>1. settling /\ event[w] \in Latest => at[w] = "delay" /\ event[w] = "attached"
    BY <1>0, <1>2, DtxParts DEF SettlingInv, InHand
  <2>2. CASE Delay(w)
    <3>1. at'[w] = "query" /\ (event[w] = "attached" => ~settling)
      BY <2>2, DtxParts DEF Delay
    <3> QED BY <1>0, <1>1, <1>2, <2>1, <3>1 DEF ToldInv
  <2>3. CASE Query(w)
    <3>1. at[w] = "query" /\ at'[w] = "call" /\ answers' = {}
      BY <2>3, DtxParts DEF Query, Begin
    <3> QED BY <1>0, <1>1, <1>2, <2>1, <3>1 DEF ToldInv
  <2>4. CASE QueryRefused(w)
    <3>1. at[w] = "query" /\ at'[w] = "push" /\ queried'[w] = "error"
      BY <2>4, DtxParts DEF QueryRefused, Queried
    <3> QED BY <1>0, <1>1, <1>2, <2>1, <3>1 DEF ToldInv
  <2>5. CASE QueryReturns(w)
    <3>1. /\ at[w] = "call" /\ at'[w] = "push"
          /\ queried'[w] \in answers \/ queried'[w] = "error"
      BY <2>5, DtxParts DEF QueryReturns, Queried, Answer
    <3> QED BY <1>0, <1>1, <1>2, <2>1, <3>1 DEF ToldInv
  <2>6. CASE Push(w)
    <3>1. /\ at[w] = "push" /\ at'[w] = "switch" /\ queried'[w] = queried[w]
          /\ queried[w] \in reported'
      BY <2>6, DtxParts DEF Push
    <3> QED BY <1>0, <1>1, <1>2, <2>1, <3>1 DEF ToldInv
  <2>7. CASE ReportSwitch(w)
    <3>1. at[w] = "switch" /\ at'[w] = "idle"
      BY <2>7, DtxParts DEF ReportSwitch
    <3> QED BY <1>0, <1>1, <1>2, <2>1, <3>1 DEF ToldInv
  <2> QED BY <2>2, <2>3, <2>4, <2>5, <2>6, <2>7 DEF Update
<1>6. SettlingInv(w)'
  BY <1>0, <1>1, <1>2, <1>5, DtxParts DEF SettlingInv, Queued, InHand
<1>7. LatestInv'
  <2>1. CASE ~settling /\ Reported
    BY <1>1, <1>3, <2>1, DtxParts DEF LatestInv, Reported
  <2>2. ASSUME NEW v \in DtxWorkers, NEW c \in Latest, Queued(v, c) \/ InHand(v, c)
        PROVE  LatestInv'
    <3>1. CASE Queued(v, c)
      <4>1. Queued(v, c)'
        BY <1>1, <1>2, <3>1 DEF Queued
      <4> QED BY <1>1, <4>1 DEF LatestInv
    <3>2. CASE InHand(v, c) /\ v = w /\ ReportSwitch(w)
      <4>1. at[w] = "switch" /\ event[w] \in Latest
        BY <3>2 DEF ReportSwitch, InHand
      <4>2. queried[w] \in {opmode, "error"} /\ queried[w] \in reported
        BY <1>0, <4>1 DEF ToldInv
      <4>3. ~settling
        BY <1>0, <4>1, DtxParts DEF SettlingInv, InHand
      <4>4. Reported'
        BY <1>1, <1>3, <4>2 DEF Reported
      <4> QED BY <1>1, <4>3, <4>4 DEF LatestInv
    <3>3. CASE InHand(v, c) /\ (v # w \/ ~ReportSwitch(w))
      <4>1. at'[v] # "idle" /\ event'[v] = event[v]
        BY <1>1, <1>2, <3>3, DtxParts
        DEF InHand, Update, Delay, Query, QueryRefused, QueryReturns, Queried, Push
      <4>2. InHand(v, c)'
        BY <3>3, <4>1 DEF InHand
      <4> QED BY <1>1, <4>2 DEF LatestInv
    <3> QED BY <2>2, <3>1, <3>2, <3>3
  <2> QED BY <1>4, <2>1, <2>2 DEF LatestInv
<1> QED BY <1>3, <1>4, <1>5, <1>6, <1>7 DEF UntoldInv

LEMMA WorkerReport ==
  ASSUME TypeInv, WhoWhat, ReportInv, NEW w \in DtxWorkers, Handle(w) \/ Update(w)
  PROVE  ReportInv'
<1>1. WorkerInv /\ LatestInv
  BY DEF ReportInv
<1>2. UntoldInv(w)' /\ SettlingInv(w)' /\ ToldInv(w)' /\ LatestInv' /\ reported \subseteq reported'
  <2>1. CASE Handle(w)
    <3>1. reported' = reported
      BY <2>1 DEF Handle
    <3> QED BY <1>1, <2>1, <3>1, HandleReport
  <2>2. CASE Update(w)
    BY <1>1, <2>2, UpdateReport
  <2> QED BY <2>1, <2>2
<1>3. ASSUME NEW v \in DtxWorkers PROVE UntoldInv(v)' /\ SettlingInv(v)' /\ ToldInv(v)'
  BY <1>1, <1>2, <1>3, OthersReport
<1> QED BY <1>2, <1>3 DEF ReportInv, WorkerInv

LEMMA ReportNext ==
  ASSUME TypeInv, WhoWhat, ReportInv, [Next]_vars
  PROVE  ReportInv'
<1>1. \A w \in DtxWorkers : at[w] = "call" => who = w /\ what[cur] = GetOpmode
  BY DEF WhoWhat, WhoInv, WhatInv
<1>2. ASSUME UNCHANGED <<dtxVars, opmode>>,
             \A w \in DtxWorkers : at[w] = "call" => answers' \subseteq answers \union {opmode}
      PROVE  ReportInv'
  <2>1. WorkerInv'
    <3>1. ASSUME NEW w \in DtxWorkers PROVE UntoldInv(w)' /\ SettlingInv(w)' /\ ToldInv(w)'
      <4>1. UntoldInv(w) /\ SettlingInv(w) /\ ToldInv(w)
        BY <3>1 DEF ReportInv, WorkerInv
      <4> QED
        BY <1>2, <3>1, <4>1 DEF UntoldInv, SettlingInv, ToldInv, Queued, InHand, dtxVars
    <3> QED BY <3>1 DEF WorkerInv
  <2>2. LatestInv'
    BY <1>2 DEF ReportInv, LatestInv, Queued, InHand, Reported, dtxVars
  <2> QED BY <2>1, <2>2 DEF ReportInv
<1>3. ASSUME NEW i \in Ids, EcExecutes(i), UNCHANGED dtxVars
      PROVE  ReportInv'
  <2>1. opmode' = opmode
    BY <1>3 DEF EcExecutes
  <2>2. CASE i = cur /\ what[cur] = GetOpmode
    <3>1. answers' = answers \union {opmode}
      BY <1>3, <2>2, OtherParts DEF EcExecutes
    <3> QED BY <1>2, <1>3, <2>1, <3>1
  <2>3. CASE ~(i = cur /\ what[cur] = GetOpmode)
    <3>1. \A w \in DtxWorkers : at[w] = "call" => answers' = answers
      BY <1>1, <1>3, <2>3 DEF EcExecutes
    <3> QED BY <1>2, <1>3, <2>1, <3>1
  <2> QED BY <2>2, <2>3
<1>4. CASE (CallEnds \/ Sleep \/ \E i \in Ids : CommandLost(i)) /\ UNCHANGED dtxVars
  <2>1. UNCHANGED <<answers, opmode>>
    BY <1>4 DEF CallEnds, Sleep, CommandLost, callVars, ecVars
  <2> QED BY <1>2, <1>4, <2>1
<1>5. ASSUME \A w \in DtxWorkers : OthersKept(w), UNCHANGED <<dtxVars, opmode>>
      PROVE  ReportInv'
  BY <1>1, <1>2, <1>5 DEF OthersKept
<1>6. CASE SanSide
  BY <1>5, <1>6, SanKeepsOthers, ThreadNames DEF SanSide
<1>7. CASE SidSide
  BY <1>5, <1>7, SidKeepsOthers, ThreadNames DEF SidSide
<1>8. CASE DtxSide
  BY <1>8, BaseReport, WorkerReport DEF DtxSide, BaseSteps, WorkerSteps
<1>9. CASE UNCHANGED vars
  BY <1>2, <1>9 DEF vars, callVars, ecVars
<1> QED
  BY <1>3, <1>4, <1>6, <1>7, <1>8, <1>9 DEF Next, CallSteps

LEMMA ReportStart == Init => ReportInv
<1> SUFFICES ASSUME Init PROVE ReportInv
  OBVIOUS
<1>1. /\ ~announced /\ ~settling
      /\ \A w \in DtxWorkers : at[w] = "idle" /\ pending[w] = <<>>
  BY DEF Init, DtxInit
<1> QED BY <1>1 DEF ReportInv, WorkerInv, LatestInv, UntoldInv, SettlingInv, ToldInv

-----------------------------------------------------------------------------
(* The theorems *)

\* What san_evt's firmware request handler hands back is the truth, with any
\* number of tries: a mode of the device it reports was so at some time while the
\* request was on its way, or is the one made up because the EC was suspended, and
\* a command it reports as sent has been executed.
THEOREM FirmwareCorrect == Spec => []FirmwareToldTruth
<1>1. Init => SanAll /\ TypeInv /\ WhoWhat
  BY SanStart, TypeInit, WhoStart
<1>2. SanAll /\ TypeInv /\ WhoWhat /\ [Next]_vars => (SanAll /\ TypeInv /\ WhoWhat)'
  BY SanNext, TypeNext, WhoNext
<1>3. SanAll => FirmwareToldTruth
  BY DEF SanAll
<1> QED BY <1>1, <1>2, <1>3, PTL DEF Spec

\* When SID is unbound the mode is the one that was there when the attribute had
\* gone, or the one of the exit parameter, and that one if the request for it was
\* answered, but for what stores set whose calls ended before the attribute went:
\* nothing else, of any caller, comes after it.
THEOREM ExitModeCorrect == Spec => []ExitModeApplied
<1>1. Init => SidAll /\ TypeInv /\ WhoWhat
  BY SidStart, TypeInit, WhoStart
<1>2. SidAll /\ TypeInv /\ WhoWhat /\ [Next]_vars => (SidAll /\ TypeInv /\ WhoWhat)'
  BY SidNext, TypeNext, WhoNext
<1>3. SidAll => ExitModeApplied
  BY DEF SidAll, KeptInv, ExitModeApplied
<1> QED BY <1>1, <1>2, <1>3, PTL DEF Spec

\* When every connection event is handled and the base is at rest, the mode the
\* device is in has been pushed since the base last came or went, or an error: for
\* any number of events and of CPUs that handle them, in whatever order, and with
\* SAN and SID calling the EC in between.
THEOREM ReportCorrect == Spec => []ModeReported
<1>1. Init => ReportInv /\ TypeInv /\ WhoWhat
  BY ReportStart, TypeInit, WhoStart
<1>2. ReportInv /\ TypeInv /\ WhoWhat /\ [Next]_vars => (ReportInv /\ TypeInv /\ WhoWhat)'
  BY ReportNext, TypeNext, WhoNext
<1>3. ReportInv => ModeReported
  <2> SUFFICES ASSUME ReportInv, AllHandled, announced
               PROVE  Reported
    BY DEF ModeReported, Reported
  <2>1. \A w \in DtxWorkers, c \in Latest : ~Queued(w, c) /\ ~InHand(w, c)
    BY DEF AllHandled, Queued, InHand
  <2> QED BY <2>1 DEF ReportInv, LatestInv
<1> QED BY <1>1, <1>2, <1>3, PTL DEF Spec
=============================================================================
