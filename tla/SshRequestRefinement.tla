------------------------ MODULE SshRequestRefinement ------------------------
(***************************************************************************)
(* A request over the serial line keeps what SamCommand promises: every    *)
(* step of SshRequest is a step of SamCommand, or none.  What happens on   *)
(* the line to the host, and in the receive callback, is none; the EC      *)
(* taking a command off the line executes it.                              *)
(***************************************************************************)
EXTENDS SshRequestProofs

-----------------------------------------------------------------------------
(* The commands on the line *)

\* What a frame that is written adds to them ...
LEMMA TransmitCopies ==
  ASSUME TypeInv, NEW f \in CmdFrames \union HostAcks, Transmit(f)
  PROVE  /\ CopiesOnLine \subseteq CopiesOnLine'
         /\ CopiesOnLine' \subseteq CopiesOnLine \union {f.id}
         /\ f.type # "cmd" => CopiesOnLine' = CopiesOnLine
<1>1. toEc \in Seq(CmdFrames \union HostAcks)
  BY DEF TypeInv, TypeOK
<1>2. Elems(Append(toEc, f)) = Elems(toEc) \union {f}
  BY <1>1, ElemsAppend
<1>3. CASE toEc' = toEc
  BY <1>3 DEF CopiesOnLine
<1>4. CASE toEc' = Append(toEc, f)
  <2>1. Elems(toEc') = Elems(toEc) \union {f}
    BY <1>2, <1>4
  <2>2. \A i : i \in CopiesOnLine <=> \E g \in Elems(toEc) : g.type = "cmd" /\ g.id = i
    BY DEF CopiesOnLine
  <2>3. \A i : i \in CopiesOnLine' <=> \E g \in Elems(toEc') : g.type = "cmd" /\ g.id = i
    BY DEF CopiesOnLine
  <2> QED BY <2>1, <2>2, <2>3
<1> QED BY <1>3, <1>4 DEF Transmit

\* ... and what one that the EC takes off the line removes.
LEMMA TailCopies ==
  ASSUME TypeInv, toEc # <<>>, toEc' = Tail(toEc)
  PROVE  /\ CopiesOnLine' \subseteq CopiesOnLine
         /\ Head(toEc).type = "cmd" =>
                /\ Head(toEc).id \in CopiesOnLine \intersect Ids
                /\ CopiesOnLine \subseteq CopiesOnLine' \union {Head(toEc).id}
         /\ Head(toEc).type # "cmd" => CopiesOnLine' = CopiesOnLine
<1>1. toEc \in Seq(CmdFrames \union HostAcks)
  BY DEF TypeInv, TypeOK
<1>2. Head(toEc) \in CmdFrames \union HostAcks
  BY <1>1, ElemsTail
<1>3. Elems(toEc) = Elems(toEc') \union {Head(toEc)}
  BY <1>1, ElemsHeadTail
<1> QED BY <1>2, <1>3 DEF CopiesOnLine, CmdFrames, HostAcks

-----------------------------------------------------------------------------
(* The steps *)

CmdStep == [Cmd!CmdNext]_(Cmd!cmdVars)

LEMMA InitCmd == Init => Cmd!CmdInit
<1> SUFFICES ASSUME Init PROVE Cmd!CmdInit
  OBVIOUS
<1>1. CopiesOnLine = {}
  BY ElemsEmpty DEF Init, CopiesOnLine
<1> QED
  BY <1>1 DEF Init, Cmd!CmdInit, Cmd!NoOutcome, CurrentCmd, CurrentReads, OpenCmds,
      CallOutcome, CallSucceeds

\* A step within a call, or beside it, that leaves the commands on the line.
LEMMA Stutter ==
  ASSUME UNCHANGED <<req, status, taken, OpenCmds>>,
         \/ UNCHANGED <<pc, result>>
         \/ pc \in {"send", "wait", "rsp"} /\ pc' \in {"send", "wait", "rsp", "ack"}
  PROVE  CmdStep
<1>1. UNCHANGED <<CurrentCmd, CurrentReads, CallOutcome>>
  BY DEF CurrentCmd, CurrentReads, CallOutcome, CallSucceeds
<1> QED BY <1>1 DEF CmdStep, Cmd!cmdVars

\* A call that fails.
LEMMA FailStep ==
  ASSUME TypeInv, pc \in {"send", "wait", "rsp", "ack"}, pc' = "out", status' # "ok",
         UNCHANGED <<req, taken, CopiesOnLine>>
  PROVE  CmdStep
<1>1. UNCHANGED <<CurrentCmd, CurrentReads, OpenCmds>>
  BY DEF CurrentCmd, CurrentReads, OpenCmds
<1>2. CurrentCmd # NoRqst /\ ~CallOutcome.set
  BY RequestAssumption DEF TypeInv, CallerInv, CurrentCmd, CallOutcome
<1>3. CallOutcome' = [ok |-> FALSE, data |-> NoRqst, set |-> TRUE]
  <2>1. CallSucceeds' = FALSE /\ (pc' = "out") = TRUE
    BY DEF CallSucceeds
  <2> QED BY <2>1, Zenon DEF CallOutcome
<1> QED BY <1>1, <1>2, <1>3 DEF CmdStep, Cmd!CmdNext, Cmd!Finish, Cmd!Fail

\* A call that succeeds: the EC has received the command, and what is
\* returned is the response to it.
LEMMA SucceedStep ==
  ASSUME TypeInv, pc \in {"send", "wait", "rsp", "ack"}, pc' = "out", status' = "ok",
         req.id \in taken, result' = IF req.kind = "read" THEN req.id ELSE NoRqst,
         UNCHANGED <<req, taken, CopiesOnLine>>
  PROVE  CmdStep
<1>1. UNCHANGED <<CurrentCmd, CurrentReads, OpenCmds>>
  BY DEF CurrentCmd, CurrentReads, OpenCmds
<1>2. CurrentCmd # NoRqst /\ CurrentCmd \in taken /\ ~CallOutcome.set
  BY RequestAssumption DEF TypeInv, CallerInv, CurrentCmd, CallOutcome
<1>3. CallOutcome' = [ok |-> TRUE, data |-> IF CurrentReads THEN CurrentCmd ELSE NoRqst,
                      set |-> TRUE]
  BY DEF CallOutcome, CallSucceeds, CurrentReads, CurrentCmd
<1> QED BY <1>1, <1>2, <1>3 DEF CmdStep, Cmd!CmdNext, Cmd!Finish, Cmd!Succeed

LEMMA NextCmd ==
  ASSUME Quiet, IInv, IInv', [Next]_vars
  PROVE  CmdStep
<1> DEFINE Sound == TypeInv /\ ReturnInv /\ OutcomeInv
<1>1. TypeInv /\ ReturnInv /\ OutcomeInv /\ OutcomeInv'
  BY DEF IInv, TypeInv
<1>2. ASSUME NEW i \in Ids, NEW k \in Kinds, Begin(i, k) PROVE CmdStep
  <2>1. CopiesOnLine' = CopiesOnLine /\ i \notin CopiesOnLine
    BY <1>2 DEF Begin, Unused, CopiesOnLine
  <2>2. CurrentCmd = NoRqst /\ CurrentCmd' = i /\ CurrentReads' = (k = "read")
    BY <1>2 DEF Begin, CurrentCmd, CurrentReads
  <2>3. i \notin OpenCmds /\ OpenCmds' = OpenCmds \union {i} /\ taken' = taken \ {i}
    BY <1>2, <2>1 DEF Begin, OpenCmds
  <2>4. CallOutcome' = CallOutcome
    BY <1>2 DEF Begin, CallOutcome, CallSucceeds
  <2>5. Cmd!Submit(i, k = "read")
    BY <2>2, <2>3, <2>4 DEF Cmd!Submit
  <2> QED BY <2>5 DEF CmdStep, Cmd!CmdNext
<1>3. CASE WriteCmd
  <2>1. writer \in CmdFrames \union HostAcks /\ writer.id = req.id
    BY <1>1, <1>3 DEF WriteCmd, TypeInv, CallerInv, InLoop
  <2>2. OpenCmds' = OpenCmds
    BY <1>1, <1>3, <2>1, TransmitCopies DEF WriteCmd, OpenCmds
  <2> QED BY <1>3, <2>2, Stutter DEF WriteCmd, ecVars
<1>4. CASE WriteFails \/ GiveUp \/ RspTimeout
  <2>1. UNCHANGED CopiesOnLine
    BY <1>4 DEF WriteFails, GiveUp, RspTimeout, lineVars, CopiesOnLine
  <2> QED
    BY <1>1, <1>4, <2>1, FailStep DEF WriteFails, GiveUp, RspTimeout, FailWith, ecVars
<1>5. CASE AckCompleted
  <2>1. /\ UNCHANGED <<req, result, status, taken, CopiesOnLine>>
        /\ pc = "wait"
        /\ pc' \in {"rsp", "send", "out"}
        /\ pc' = "out" => req.kind # "read"
    BY <1>5 DEF AckCompleted, ecVars, lineVars, CopiesOnLine
  <2>2. CASE pc' = "out"
    <3>1. status' = "ok" /\ result' = NoRqst /\ req.id \in taken
      BY <1>1, <2>1, <2>2 DEF ReturnInv, OutcomeInv
    <3> QED BY <1>1, <2>1, <2>2, <3>1, SucceedStep
  <2>3. CASE pc' # "out"
    BY <2>1, <2>3, Stutter DEF OpenCmds
  <2> QED BY <2>2, <2>3
<1>6. CASE AckTimeout
  BY <1>6, Stutter DEF AckTimeout, ecVars, lineVars, OpenCmds, CopiesOnLine
<1>7. ASSUME NEW fits \in BOOLEAN, RspCompleted(fits) PROVE CmdStep
  <2>1. UNCHANGED <<req, taken, CopiesOnLine>> /\ pc = "rsp"
    BY <1>7 DEF RspCompleted, ecVars, lineVars, CopiesOnLine
  <2>2. CASE fits
    BY <1>7, <2>1, <2>2, Stutter DEF RspCompleted, OpenCmds
  <2>3. CASE ~fits
    BY <1>1, <1>7, <2>1, <2>3, FailStep DEF RspCompleted, FailWith
  <2> QED BY <2>2, <2>3
<1>8. CASE SendAck
  <2>1. /\ pc = "ack" /\ pc' = "out"
        /\ UNCHANGED <<req, result, taken>>
        /\ writer' = [type |-> "ack", id |-> packet.id]
        /\ Transmit(writer') \/ UNCHANGED toEc
    BY <1>8 DEF SendAck, FailWith, ecVars
  <2>2. writer' \in HostAcks
    BY <1>1, <2>1 DEF TypeInv, TypeOK, HostAcks, Packets
  <2>3. UNCHANGED CopiesOnLine
    <3>1. ASSUME Transmit(writer') PROVE UNCHANGED CopiesOnLine
      BY <1>1, <2>1, <2>2, <3>1, TransmitCopies
    <3> QED BY <2>1, <3>1 DEF CopiesOnLine
  <2>4. req.kind = "read" /\ req.id \in taken /\ result = req.id
    BY <1>1, <2>1 DEF TypeInv, CallerInv, OutcomeInv
  <2>5. CASE status' = "ok"
    BY <1>1, <2>1, <2>3, <2>4, <2>5, SucceedStep
  <2>6. CASE status' # "ok"
    BY <1>1, <2>1, <2>3, <2>6, FailStep
  <2> QED BY <2>5, <2>6
<1>9. CASE Return
  <2>1. /\ pc = "out" /\ pc' = "idle"
        /\ UNCHANGED <<taken, CopiesOnLine>>
    BY <1>9 DEF Return, ecVars, lineVars, CopiesOnLine
  <2>2. CallOutcome.set /\ CallOutcome' = Cmd!NoOutcome
    BY <2>1 DEF CallOutcome, CallSucceeds, Cmd!NoOutcome
  <2>3. CurrentCmd' = NoRqst /\ CurrentReads' = FALSE
    BY <2>1 DEF CurrentCmd, CurrentReads
  <2>4. OpenCmds' \in {OpenCmds, OpenCmds \ {CurrentCmd}}
    BY <2>1 DEF OpenCmds, CurrentCmd
  <2>5. Cmd!Return
    BY <2>1, <2>2, <2>3, <2>4 DEF Cmd!Return
  <2> QED BY <2>5 DEF CmdStep, Cmd!CmdNext
<1>10. CASE Receiver
  <2>1. UNCHANGED <<pc, req, status, result, taken, toEc>>
    BY <1>10 DEF Receiver, RcvInvalid, RcvCtrl, RcvCmd, hostVars, ecVars
  <2> QED BY <2>1, Stutter DEF OpenCmds, CopiesOnLine
<1>11. CASE EcTake
  <2> DEFINE i == Head(toEc).id
  <2>1. /\ toEc # <<>> /\ toEc' = Tail(toEc) /\ Head(toEc).type = "cmd"
        /\ taken' = taken \union {i}
        /\ UNCHANGED <<pc, req, status, result>>
    BY <1>11 DEF EcTake, hostVars
  <2>2. /\ i \in CopiesOnLine /\ i \in Ids
        /\ CopiesOnLine' \subseteq CopiesOnLine
        /\ CopiesOnLine \subseteq CopiesOnLine' \union {i}
    BY <1>1, <2>1, TailCopies
  <2>3. UNCHANGED <<CurrentCmd, CurrentReads, CallOutcome>>
    BY <2>1 DEF CurrentCmd, CurrentReads, CallOutcome, CallSucceeds
  <2>4. i \in OpenCmds
    BY <2>2 DEF OpenCmds
  <2> HIDE DEF i
  <2>5. OpenCmds' \in {OpenCmds, OpenCmds \ ({i} \ {CurrentCmd})}
    <3>1. CASE i \in OpenCmds'
      <4>1. OpenCmds' = OpenCmds
        BY <2>1, <2>2, <3>1 DEF OpenCmds
      <4> QED BY <4>1
    <3>2. CASE i \notin OpenCmds'
      <4>1. OpenCmds' = OpenCmds \ {i}
        BY <2>1, <2>2, <3>2 DEF OpenCmds
      <4>2. i # CurrentCmd
        BY <2>1, <2>2, <3>2, RequestAssumption DEF OpenCmds, CurrentCmd
      <4> QED BY <4>1, <4>2
    <3> QED BY <3>1, <3>2
  <2>6. Cmd!Execute(i)
    BY <2>1, <2>3, <2>4, <2>5 DEF Cmd!Execute
  <2> QED BY <2>2, <2>6 DEF CmdStep, Cmd!CmdNext
<1>12. CASE EcGarbled
  <2> DEFINE i == Head(toEc).id
  <2>1. /\ toEc # <<>> /\ toEc' = Tail(toEc)
        /\ UNCHANGED <<pc, req, status, result, taken>>
    BY <1>12 DEF EcGarbled, hostVars, ecVars
  <2>2. /\ CopiesOnLine' \subseteq CopiesOnLine
        /\ Head(toEc).type = "cmd" =>
               i \in CopiesOnLine /\ i \in Ids /\ CopiesOnLine \subseteq CopiesOnLine' \union {i}
        /\ Head(toEc).type # "cmd" => CopiesOnLine' = CopiesOnLine
    BY <1>1, <2>1, TailCopies
  <2>3. UNCHANGED <<CurrentCmd, CurrentReads, CallOutcome>>
    BY <2>1 DEF CurrentCmd, CurrentReads, CallOutcome, CallSucceeds
  <2> HIDE DEF i
  <2>4. CASE OpenCmds' = OpenCmds
    BY <2>1, <2>4, Stutter
  <2>5. CASE OpenCmds' # OpenCmds
    <3>1. /\ i \in OpenCmds \ {CurrentCmd} /\ i \in Ids
          /\ OpenCmds' = OpenCmds \ {i}
      BY <2>1, <2>2, <2>5, RequestAssumption DEF OpenCmds, CurrentCmd
    <3>2. Cmd!Expire(i)
      BY <2>1, <2>3, <3>1 DEF Cmd!Expire
    <3> QED BY <3>1, <3>2 DEF CmdStep, Cmd!CmdNext
  <2> QED BY <2>4, <2>5
<1>13. CASE EcAcked
  <2>1. /\ toEc # <<>> /\ toEc' = Tail(toEc) /\ Head(toEc).type = "ack"
        /\ UNCHANGED <<pc, req, status, result, taken>>
    BY <1>13 DEF EcAcked, hostVars
  <2>2. OpenCmds' = OpenCmds
    BY <1>1, <2>1, TailCopies DEF OpenCmds
  <2> QED BY <2>1, <2>2, Stutter
<1>14. CASE (\E r \in ecOut : EcSend(r) \/ EcForget(r)) \/ UNCHANGED vars
  <2>1. UNCHANGED <<pc, req, status, result, taken, toEc>>
    BY <1>14 DEF EcSend, EcForget, vars, hostVars, ecVars, lineVars
  <2> QED BY <2>1, Stutter DEF OpenCmds, CopiesOnLine
<1> QED
  BY <1>2, <1>3, <1>4, <1>5, <1>6, <1>7, <1>8, <1>9, <1>10, <1>11, <1>12, <1>13, <1>14
  DEF Next, Step, Caller, Ec

-----------------------------------------------------------------------------
\* If no frame of an earlier request is around when its ids are used again,
\* requests over the line are the calls that SamCommand promises: one at a
\* time, executed only while a copy is around, and truthful.
THEOREM CommandImplemented == ASSUME Quiet PROVE Spec => ImplementsCommand
<1>1. IInv /\ IInv' /\ [Next]_vars => [Cmd!CmdNext]_(Cmd!cmdVars)
  BY NextCmd DEF CmdStep
<1> QED BY <1>1, InitCmd, InvariantCorrect, PTL DEF Spec, ImplementsCommand, Cmd!CmdSpec
=============================================================================
