----------------------- MODULE SshRequestTriesProofs -----------------------
(***************************************************************************)
(* On a line that loses nothing, what a request's tries fail of: a proof   *)
(* by the invariant ReliableInv, on top of the one of SshRequest.          *)
(***************************************************************************)
EXTENDS SshRequestTries, SshRequestProofs

-----------------------------------------------------------------------------
\* An empty fifo has room for an ACK.
LEMMA RoomForAck ==
  ASSUME FifoCap >= 1, fifo = <<>>, NEW f, f.type = "ack"
  PROVE  FifoHasRoom(Packet(f))
<1>1. {i \in DOMAIN fifo : fifo[i].type = "cmd"} = {}
  BY EmptySeq
<1>2. Cardinality({i \in DOMAIN fifo : fifo[i].type = "cmd"}) = 0
  BY <1>1, FS_EmptySet
<1>3. FifoUsed = 0
  BY <1>2, RequestAssumption, EmptySeq DEF FifoUsed
<1>4. PacketSize(Packet(f)) = 1
  BY DEF PacketSize, Packet
<1> QED BY <1>3, <1>4, RequestAssumption DEF FifoHasRoom

\* A command is written behind the ACK of the last response at most.
LEMMA WriteUnderway ==
  ASSUME TypeInv, WireCap >= 2, NEW f \in CmdFrames \union HostAcks, Transmit(f),
         Len(toEc) <= 1, \A g \in Elems(toEc) : g.type = "ack"
  PROVE  /\ \/ toEc' = <<f>>
            \/ Len(toEc') = 2 /\ toEc'[1].type = "ack" /\ toEc'[2] = f
         /\ Elems(toEc') = Elems(toEc) \union {f}
<1>1. toEc \in Seq(CmdFrames \union HostAcks)
  BY DEF TypeInv, TypeOK
<1>2. toEc' = Append(toEc, f)
  BY <1>1, RequestAssumption, LenProperties DEF Transmit
<1>3. Elems(toEc') = Elems(toEc) \union {f}
  BY <1>1, <1>2, ElemsAppend
<1>4. Len(toEc) \in Nat /\ DOMAIN toEc = 1..Len(toEc)
  BY <1>1, LenProperties
<1>5. /\ Len(Append(toEc, f)) = Len(toEc) + 1
      /\ \A i \in 1..Len(toEc) : Append(toEc, f)[i] = toEc[i]
      /\ Append(toEc, f)[Len(toEc) + 1] = f
  BY <1>1, AppendProperties
<1>6. CASE toEc = <<>>
  BY <1>2, <1>3, <1>6
<1>7. CASE toEc # <<>>
  <2>1. Len(toEc) \in Nat \ {0}
    BY <1>1, <1>7, EmptySeq
  <2>2. Len(toEc) = 1
    BY <2>1
  <2>3. toEc[1] \in Elems(toEc)
    BY <1>4, <2>2 DEF Elems
  <2>4. Len(toEc') = 2 /\ toEc'[1] = toEc[1] /\ toEc'[2] = f
    BY <1>2, <1>5, <2>2
  <2> QED BY <1>3, <2>3, <2>4
<1> QED BY <1>6, <1>7

LEMMA OneElement ==
  ASSUME NEW S, NEW s \in Seq(S), Len(s) = 1
  PROVE  s = <<s[1]>>
<1>1. s[1] \in S
  <2>1. 1 \in 1..Len(s)
    OBVIOUS
  <2> QED BY <2>1, ElementOfSeq, Zenon
<1>2. <<s[1]>> \in Seq(S) /\ Len(<<s[1]>>) = 1 /\ <<s[1]>>[1] = s[1]
  BY <1>1
<1>3. \A i \in 1..Len(s) : s[i] = <<s[1]>>[i]
  BY <1>2
<1> HIDE DEF Seq
<1> QED BY <1>2, <1>3, SeqEqual

\* Where a command is, given the frame at the head of the line to the EC.
LEMMA UnderwayHead ==
  ASSUME TypeInv, toEc # <<>>, toEc' = Tail(toEc), writer \in CmdFrames
  PROVE  /\ CmdUnderway /\ Head(toEc).type = "cmd" => Head(toEc) = writer /\ toEc' = <<>>
         /\ CmdUnderway /\ Head(toEc).type = "ack" => toEc' = <<writer>>
         /\ Len(toEc) <= 1 => toEc' = <<>>
<1>1. toEc \in Seq(CmdFrames \union HostAcks)
  BY DEF TypeInv, TypeOK
<1>2. /\ Tail(toEc) \in Seq(CmdFrames \union HostAcks)
      /\ Len(Tail(toEc)) = Len(toEc) - 1
      /\ \A i \in 1..Len(Tail(toEc)) : Tail(toEc)[i] = toEc[i+1]
  BY <1>1, HeadTailProperties
<1>3. Len(toEc) \in Nat \ {0} /\ Head(toEc) = toEc[1]
  BY <1>1, LenProperties, EmptySeq
<1>4. CASE toEc = <<writer>>
  <2>1. Head(toEc) = writer /\ writer.type = "cmd" /\ Tail(toEc) = <<>>
    BY <1>4 DEF CmdFrames
  <2> QED BY <2>1
<1>5. CASE Len(toEc) = 2 /\ toEc[1].type = "ack" /\ toEc[2] = writer
  <2>1. Len(Tail(toEc)) = 1 /\ 1 \in 1..1 /\ 1 + 1 = 2
    BY <1>2, <1>5
  <2>2. Tail(toEc)[1] = writer
    BY <1>2, <1>5, <2>1
  <2>3. Tail(toEc) = <<writer>>
    BY <1>2, <2>1, <2>2, OneElement
  <2>4. Head(toEc).type = "ack" /\ ~(Len(toEc) <= 1)
    BY <1>3, <1>5
  <2> QED BY <2>3, <2>4
<1>6. Len(toEc) <= 1 => toEc' = <<>>
  <2> SUFFICES ASSUME Len(toEc) <= 1 PROVE Tail(toEc) = <<>>
    OBVIOUS
  <2>1. Len(Tail(toEc)) = 0
    BY <1>2, <1>3
  <2> QED BY <1>2, <2>1, EmptySeq
<1> QED BY <1>4, <1>5, <1>6 DEF CmdUnderway

LEMMA InitReliable == TriesInit => CountInv /\ ReliableInv
  BY ElemsEmpty, EmptySeq DEF TriesInit, Init, CountInv, ReliableInv, TryInv, InLoop

\* A wait has an answer pending, unless the ACK was discarded.
LEMMA NoTimeout ==
  ASSUME TypeInv, FifoInv, ReliableInv, ~lossy
  PROVE  /\ ~RspTimeout
         /\ AckTimeout => fifo = <<>> /\ ~AckUnderway /\ toEc = <<>> /\ TrySpoilt
<1>1. done = 0 /\ pc \in {"wait", "rsp"} => fifo = <<>>
  BY EmptySeq DEF FifoInv, TypeInv, TypeOK
<1>2. CmdUnderway /\ pc = "wait" => AckPending
  <2> SUFFICES ASSUME CmdUnderway, pc = "wait" PROVE AckPending
    OBVIOUS
  <2>1. writer.id = req.id /\ writer.type = "cmd"
    BY DEF TypeInv, CallerInv, InLoop, CmdFrames
  <2>2. writer \in Elems(toEc)
    <3>1. CASE toEc = <<writer>>
      BY <3>1 DEF Elems
    <3>2. CASE Len(toEc) = 2 /\ toEc[2] = writer
      <4>1. 2 \in DOMAIN toEc
        BY <3>2, LenProperties DEF TypeInv, TypeOK
      <4> QED BY <3>2, <4>1 DEF Elems
    <3> QED BY <3>1, <3>2 DEF CmdUnderway
  <2> QED BY <2>1, <2>2 DEF AckPending
<1>3. pc = "rsp" => RspPending
  BY DEF ReliableInv, TryInv, ResponseOwed, RspPending, TypeInv, CallerInv
<1>4. AckTimeout => pc = "wait" /\ fifo = <<>> /\ ~AckUnderway /\ ~CmdUnderway
  BY <1>1, <1>2 DEF AckTimeout, AckPending
<1>5. AckTimeout => toEc = <<>> /\ TrySpoilt
  BY <1>4 DEF ReliableInv, TryInv
<1> QED BY <1>3, <1>4, <1>5 DEF RspTimeout

\* No more tries than ACKs were discarded.
LEMMA NextCount ==
  ASSUME ~lossy, TypeInv, FifoInv, ReliableInv, CountInv, [TriesNext]_triesVars
  PROVE  CountInv'
<1> USE DEF CountInv
<1>1. CASE \E i \in Ids, k \in Kinds : Begin(i, k) /\ spoilt' = 0
  BY <1>1 DEF Begin
<1>2. CASE SpoilTry
  <2>1. try' = try /\ spoilt' \in {spoilt, spoilt + 1}
    BY <1>2 DEF SpoilTry, RcvInvalid, hostVars
  <2>2. try \in Nat
    BY DEF TypeInv, TypeOK
  <2> QED BY <2>1, <2>2
<1>3. CASE AckTimeout /\ UNCHANGED spoilt
  <2>1. spoilt > try /\ try' = try + 1 /\ try \in Nat
    BY <1>3, NoTimeout DEF AckTimeout, TrySpoilt, TypeInv, TypeOK
  <2> QED BY <1>3, <2>1
<1>4. CASE AckCompleted /\ UNCHANGED spoilt
  <2>1. pc = "wait" /\ done > 0 /\ done = Len(fifo) /\ TakePacket
    BY <1>4 DEF AckCompleted, FifoInv
  <2>2. packet' = fifo[1] /\ fifo # <<>>
    BY <2>1, TakeFirst
  <2>3. packet'.type = "ack"
    BY <2>1, <2>2 DEF ReliableInv, TryInv
  <2>4. try' = try
    BY <1>4, <2>3 DEF AckCompleted
  <2> QED BY <1>4, <2>4
<1>5. CASE Return /\ UNCHANGED spoilt
  BY <1>5 DEF Return
<1>6. CASE /\ UNCHANGED spoilt
           /\ \/ WriteCmd \/ WriteFails \/ GiveUp \/ RspTimeout \/ SendAck
              \/ \E fits \in BOOLEAN : RspCompleted(fits)
              \/ RcvCtrl \/ RcvCmd \/ Ec
  <2>1. try' = try
    BY <1>6
    DEF WriteCmd, WriteFails, GiveUp, RspTimeout, SendAck, RspCompleted, RcvCtrl, RcvCmd,
        Ec, EcTake, EcGarbled, EcAcked, EcSend, EcForget, hostVars
  <2> QED BY <1>6, <2>1
<1>7. CASE UNCHANGED triesVars
  BY <1>7 DEF triesVars, vars, hostVars
<1> QED BY <1>1, <1>2, <1>3, <1>4, <1>5, <1>6, <1>7 DEF TriesNext, TriesStep, Caller

LEMMA NextReliable ==
  ASSUME Quiet, ~lossy, FifoCap >= 1, WireCap >= 2,
         TypeInv, TypeInv', FifoInv, CountInv, ReliableInv,
         [TriesNext]_triesVars
  PROVE  ReliableInv'
<1> USE DEF ReliableInv, TryInv
<1>1. ASSUME NEW i \in Ids, NEW k \in Kinds, Begin(i, k), spoilt' = 0 PROVE ReliableInv'
  <2>1. /\ pc' = "send" /\ try' = 0 /\ fifo' = <<>> /\ req'.id = i /\ req'.kind = k
        /\ rcv'.state = "CONTROL" /\ rcv'.seq = counter.seq
        /\ writer'.seq = counter.seq /\ writer'.snc = (k # "plain")
        /\ toEc' = toEc
        /\ pc = "idle"
    BY <1>1 DEF Begin, ReceiverRestart, FifoInv, CmdFrame
  <2>2. \A f \in Elems(toEc) : f.id # i
    BY <1>1 DEF Begin, Unused
  <2>3. Elems(toHost') \subseteq Elems(toHost) \union {RestFrame}
    BY <1>1, EmptyEvalBufLine DEF Begin, ReceiverRestart, TypeInv
  <2>4. ~AckUnderway' /\ \A f \in Elems(toHost') : f.type # "retry"
    BY <1>1, <2>1, <2>3 DEF Begin, LineQuiet, AckUnderway, RestFrame
  <2> QED BY <1>1, <2>1, <2>2, <2>4 DEF InLoop
<1>2. CASE WriteCmd /\ UNCHANGED spoilt
  <2>1. writer \in CmdFrames /\ writer.type = "cmd"
    BY <1>2 DEF WriteCmd, TypeInv, CallerInv, InLoop, CmdFrames
  <2>2. /\ pc = "send" /\ pc' = "wait"
        /\ UNCHANGED <<try, req, writer, rcv, fifo, toHost>>
    BY <1>2 DEF WriteCmd, rcvVars
  <2>3. CmdUnderway' /\ Elems(toEc') = Elems(toEc) \union {writer}
    BY <1>2, <2>1, <2>2, WriteUnderway DEF WriteCmd, CmdUnderway
  <2>4. ~AckUnderway'
    BY <2>2 DEF AckUnderway
  <2> QED BY <2>1, <2>2, <2>3, <2>4 DEF InLoop
<1>3. CASE (WriteFails \/ GiveUp) /\ UNCHANGED spoilt
  <2>1. /\ pc = "send" /\ pc' = "out"
        /\ UNCHANGED <<req, fifo, toEc, toHost>>
    BY <1>3 DEF WriteFails, GiveUp, FailWith, rcvVars, lineVars
  <2> QED BY <2>1 DEF InLoop
<1>4. CASE AckCompleted /\ UNCHANGED spoilt
  <2>1. /\ pc = "wait" /\ done > 0 /\ done = Len(fifo) /\ TakePacket
        /\ UNCHANGED <<req, toEc, toHost, ecOut>>
    BY <1>4 DEF AckCompleted, FifoInv, ecVars, lineVars
  <2>2. packet' = fifo[1] /\ fifo # <<>>
    BY <2>1, TakeFirst
  <2>3. packet'.type = "ack" /\ toEc = <<>> /\ ResponseOwed
    BY <2>1, <2>2
  <2>4. try' = try /\ pc' = IF req.kind = "read" THEN "rsp" ELSE "out"
    BY <1>4, <2>3 DEF AckCompleted
  <2> QED BY <2>1, <2>3, <2>4, ElemsEmpty, EmptySeq DEF InLoop, ResponseOwed
<1>5. CASE (AckTimeout \/ RspTimeout) /\ UNCHANGED spoilt
  <2>1. /\ fifo = <<>> /\ ~AckUnderway /\ toEc = <<>>
        /\ pc = "wait" /\ pc' = "send"
        /\ UNCHANGED <<req, writer, rcv, fifo, toEc, toHost>>
    BY <1>5, NoTimeout DEF AckTimeout, rcvVars, lineVars
  <2>2. ~AckUnderway' /\ Len(toEc') = 0 /\ Elems(toEc') = {}
    BY <2>1, ElemsEmpty DEF AckUnderway
  <2> QED BY <2>1, <2>2 DEF InLoop
<1>6. ASSUME NEW fits \in BOOLEAN, RspCompleted(fits), UNCHANGED spoilt PROVE ReliableInv'
  BY <1>6, ElemsEmpty, EmptySeq
  DEF RspCompleted, FailWith, ecVars, lineVars, InLoop, ResponseOwed
<1>7. CASE SendAck /\ UNCHANGED spoilt
  <2>1. writer' \in HostAcks /\ writer'.type = "ack"
    BY <1>7 DEF SendAck, HostAcks, TypeInv, TypeOK, Packets
  <2>2. /\ toEc = <<>> /\ Transmit(writer') /\ pc' = "out"
        /\ UNCHANGED <<try, toHost>>
    BY <1>7 DEF SendAck
  <2>3. toEc' = <<writer'>> /\ Len(toEc') = 1
    BY <2>2, RequestAssumption DEF Transmit
  <2>4. Elems(toEc') = {writer'}
    BY <2>3 DEF Elems
  <2> QED BY <2>1, <2>2, <2>3, <2>4 DEF InLoop
<1>8. CASE Return /\ UNCHANGED spoilt
  <2>1. Elems(toHost') \subseteq Elems(toHost) \union {RestFrame}
    BY <1>8, EmptyEvalBufLine DEF Return, ReceiverDiscard, TypeInv
  <2> QED BY <1>8, <2>1 DEF Return, InLoop, RestFrame
<1>9. CASE SpoilTry
  <2>1. /\ UNCHANGED <<pc, try, req, writer, rcv, fifo, toEc, ecOut>>
        /\ spoilt' = IF pc = "wait" /\ AckUnderway /\ ~AckUnderway'
                     THEN spoilt + 1 ELSE spoilt
    BY <1>9 DEF SpoilTry, RcvInvalid, hostVars, rcvVars, ecVars
  <2>2. Elems(toHost') \subseteq Elems(toHost) \union {RestFrame}
    BY <1>9, InvalidLine DEF SpoilTry, TypeInv
  <2>3. /\ AckUnderway' => AckUnderway
        /\ \A f \in Elems(toHost') : f.type # "retry"
    BY <2>1, <2>2 DEF AckUnderway, RestFrame
  <2>4. CmdUnderway' = CmdUnderway /\ ResponseOwed' = ResponseOwed
    BY <2>1 DEF CmdUnderway, ResponseOwed
  <2>5. /\ TrySpoilt => TrySpoilt'
        /\ pc = "wait" /\ AckUnderway /\ ~AckUnderway' => TrySpoilt'
    BY <2>1 DEF CountInv, TrySpoilt, TypeInv, TypeOK
  <2> QED BY <2>1, <2>3, <2>4, <2>5 DEF InLoop
<1>10. CASE (RcvCtrl \/ RcvCmd) /\ UNCHANGED spoilt
  <2> DEFINE f == Head(toHost)
  <2>1. /\ f \in Elems(toHost) /\ f \in EcFrames
        /\ Elems(toHost) = {f} \union Elems(toHost')
        /\ UNCHANGED <<pc, req, toEc, ecOut, writer, try>>
    <3>1. toHost \in Seq(EcFrames) /\ toHost # <<>> /\ toHost' = Tail(toHost)
      BY <1>10 DEF RcvCtrl, RcvCmd, TakeFrame, TypeInv, TypeOK
    <3>2. Elems(toHost) = {f} \union Elems(toHost')
      BY <3>1, ElemsHeadTail
    <3> QED BY <1>10, <3>2, Receive DEF RcvCtrl, RcvCmd, hostVars
  <2>2. /\ CmdUnderway' = CmdUnderway /\ ResponseOwed' = ResponseOwed
        /\ TrySpoilt' = TrySpoilt
    BY <1>10, <2>1 DEF CmdUnderway, ResponseOwed, TrySpoilt
  <2>3. CASE UNCHANGED rcvVars
    <3>1. rcv' = rcv /\ fifo' = fifo
      BY <2>3 DEF rcvVars
    <3>2. AckUnderway' => AckUnderway
      BY <2>1, <3>1 DEF AckUnderway
    <3>3. ASSUME pc = "wait", fifo = <<>>, AckUnderway PROVE AckUnderway'
      <4>1. f.type = "ack" /\ f.num = rcv.seq => FALSE
        <5> SUFFICES ASSUME f.type = "ack", f.num = rcv.seq PROVE FALSE
          OBVIOUS
        <5>1. CtrlExpected(f) /\ FifoHasRoom(Packet(f))
          BY <3>3, RoomForAck DEF CtrlExpected, InLoop
        <5>2. Append(fifo, Packet(f)) # fifo
          <6>1. Packet(f) \in Packets /\ fifo \in Seq(Packets)
            BY <2>1 DEF Packet, Packets, EcFrames, TypeInv, TypeOK
          <6> QED BY <3>3, <6>1, AppendProperties
        <5> QED BY <1>10, <3>1, <5>1, <5>2 DEF RcvCtrl, RcvCmd, Deliver
      <4> QED BY <2>1, <3>1, <3>3, <4>1 DEF AckUnderway
    <3> QED BY <2>1, <2>2, <3>1, <3>2, <3>3 DEF InLoop
  <2>4. ASSUME NEW state \in {"DISCARD", "CONTROL", "COMMAND"}, Deliver(f, state),
               \/ f.type = "ack" /\ f.num = rcv.seq /\ rcv.state = "CONTROL"
               \/ f.type = "cmd" /\ rcv.state = "COMMAND"
        PROVE  ReliableInv'
    <3>1. /\ Len(fifo') = Len(fifo) + 1 /\ Len(fifo) \in Nat
          /\ DOMAIN fifo = 1..Len(fifo)
          /\ \A i \in DOMAIN fifo : fifo'[i] = fifo[i]
          /\ fifo'[Len(fifo) + 1] = Packet(f)
          /\ rcv'.seq = rcv.seq
          /\ Packet(f).type = f.type
      BY <2>1, <2>4, DeliverLast
    <3>2. fifo' # <<>>
      BY <3>1
    <3>3. CASE InLoop
      <4>1. CASE f.type = "ack"
        <5>1. AckUnderway
          BY <2>1, <2>4, <4>1 DEF AckUnderway
        <5>2. fifo = <<>> \/ fifo[1] \in Elems(fifo)
          <6>1. \A i \in DOMAIN fifo : fifo[i] \in Elems(fifo)
            BY Zenon DEF Elems
          <6>2. fifo = <<>> \/ Len(fifo) # 0
            BY EmptySeq DEF TypeInv, TypeOK
          <6> QED BY <3>1, <6>1, <6>2
        <5>3. pc = "wait" /\ fifo = <<>> /\ toEc = <<>> /\ ResponseOwed
          BY <2>4, <3>3, <4>1, <5>1, <5>2 DEF FifoInv, InLoop
        <5>4. fifo'[1].type = "ack"
          BY <3>1, <4>1, <5>3, EmptySeq
        <5> QED BY <2>1, <2>2, <3>1, <3>2, <5>3, <5>4 DEF InLoop
      <4>2. CASE f.type = "cmd"
        <5>1. fifo # <<>> /\ pc = "wait" /\ toEc = <<>> /\ ResponseOwed /\ fifo[1].type = "ack"
          BY <2>4, <3>3, <4>2 DEF InLoop
        <5>2. 1 \in DOMAIN fifo
          BY <3>1, <5>1, EmptySeq DEF TypeInv, TypeOK
        <5> QED BY <2>1, <2>2, <3>1, <3>2, <5>1, <5>2 DEF InLoop
      <4> QED BY <2>4, <4>1, <4>2
    <3>4. CASE ~InLoop
      BY <2>1, <2>2, <3>4 DEF InLoop
    <3> QED BY <3>3, <3>4
  <2> QED BY <1>10, <2>1, <2>3, <2>4, Receive
<1>11. CASE EcTake /\ UNCHANGED spoilt
  <2>1. /\ toEc # <<>> /\ toEc' = Tail(toEc) /\ Head(toEc).type = "cmd"
        /\ UNCHANGED <<pc, try, req, writer, rcv, fifo>>
    BY <1>11 DEF EcTake, hostVars, rcvVars
  <2>2. pc = "wait" /\ CmdUnderway /\ fifo = <<>>
    BY <2>1, TailEcElems
  <2>3. writer \in CmdFrames /\ writer.id = req.id
    BY <2>2 DEF TypeInv, CallerInv, InLoop
  <2>4. Head(toEc) = writer /\ toEc' = <<>>
    BY <2>1, <2>2, <2>3, UnderwayHead
  <2> DEFINE a == [type |-> "ack", num |-> writer.seq, id |-> writer.id]
  <2>5. Elems(toHost') = Elems(toHost) \union {a}
    BY <1>11, <2>4, TakeElems
  <2>6. AckUnderway'
    <3>1. a.type = "ack" /\ a.num = writer.seq
      OBVIOUS
    <3>2. writer.seq = rcv.seq /\ rcv'.seq = rcv.seq
      BY <2>1, <2>2 DEF InLoop
    <3> QED BY <2>5, <3>1, <3>2 DEF AckUnderway
  <2>7. ResponseOwed'
    <3> SUFFICES ASSUME req.kind = "read" PROVE \E r \in ecOut' : r.id = req.id
      BY <2>1 DEF ResponseOwed
    <3>1. writer.snc
      BY <2>2 DEF InLoop
    <3>2. [type |-> "cmd", num |-> writer.rqid, id |-> writer.id] \in ecOut'
      BY <1>11, <2>4, <3>1 DEF EcTake
    <3> QED BY <2>3, <3>2
  <2>8. \A g \in Elems(toHost') : g.type # "retry"
    BY <2>5
  <2> QED BY <2>1, <2>2, <2>4, <2>6, <2>7, <2>8, ElemsEmpty DEF InLoop
<1>12. CASE EcGarbled /\ UNCHANGED spoilt
  BY <1>12 DEF EcGarbled
<1>13. CASE EcAcked /\ UNCHANGED spoilt
  <2>1. /\ toEc # <<>> /\ toEc' = Tail(toEc) /\ Head(toEc).type = "ack"
        /\ UNCHANGED <<pc, try, req, writer, rcv, fifo, toHost>>
    BY <1>13 DEF EcAcked, hostVars, rcvVars
  <2>2. Elems(toEc') \subseteq Elems(toEc) /\ Head(toEc) \in Elems(toEc)
    BY <2>1, TailEcElems
  <2>3. AckUnderway' = AckUnderway /\ TrySpoilt' = TrySpoilt
    BY <1>13, <2>1 DEF AckUnderway, TrySpoilt
  <2>4. CASE pc = "wait"
    <3>1. writer \in CmdFrames /\ CmdUnderway
      BY <2>1, <2>4 DEF TypeInv, CallerInv, InLoop
    <3>2. toEc' = <<writer>>
      BY <2>1, <3>1, UnderwayHead
    <3>3. CmdUnderway'
      BY <2>1, <3>2 DEF CmdUnderway
    <3> QED BY <2>1, <2>2, <2>3, <2>4, <3>3 DEF InLoop
  <2>5. CASE pc # "wait"
    <3>1. Len(toEc) <= 1 /\ pc \notin {"rsp", "ack"}
      BY <2>1, <2>5
    <3>2. toEc' = <<>>
      <4>1. toEc \in Seq(CmdFrames \union HostAcks)
        BY DEF TypeInv, TypeOK
      <4>2. /\ Tail(toEc) \in Seq(CmdFrames \union HostAcks)
            /\ Len(Tail(toEc)) = Len(toEc) - 1
            /\ Len(toEc) \in Nat \ {0}
        BY <2>1, <4>1, HeadTailProperties, EmptySeq
      <4>3. Len(Tail(toEc)) = 0
        BY <3>1, <4>2
      <4> QED BY <2>1, <4>2, <4>3, EmptySeq
    <3>3. Len(toEc') = 0 /\ Elems(toEc') = {}
      BY <3>2, ElemsEmpty
    <3>4. pc \in {"idle", "send", "out"}
      BY <2>5, <3>1 DEF TypeInv, TypeOK
    <3> QED BY <2>1, <2>3, <3>3, <3>4 DEF InLoop
  <2> QED BY <2>4, <2>5
<1>14. ASSUME NEW r \in ecOut, EcSend(r) \/ EcForget(r), UNCHANGED spoilt PROVE ReliableInv'
  <2>1. UNCHANGED <<pc, try, req, writer, rcv, fifo, toEc>>
    BY <1>14 DEF EcSend, EcForget, hostVars, rcvVars, lineVars
  <2>2. r \in EcFrames /\ r.type = "cmd"
    BY DEF TypeInv, TypeOK, Responses, EcFrames, AnyId
  <2>3. toHost' = toHost \/ Elems(toHost') = Elems(toHost) \union {r}
    BY <1>14, <2>2, AppendHostElems DEF EcSend, EcForget, lineVars
  <2>4. /\ AckUnderway' = AckUnderway
        /\ \A g \in Elems(toHost') : g.type # "retry"
    BY <2>1, <2>2, <2>3 DEF AckUnderway
  <2>5. pc # "idle" /\ ResponseOwed => ResponseOwed'
    BY <1>14 DEF EcSend, EcForget, hostVars, ecVars, ResponseOwed
  <2>6. CmdUnderway' = CmdUnderway /\ TrySpoilt' = TrySpoilt
    BY <1>14, <2>1 DEF CmdUnderway, TrySpoilt
  <2> QED BY <2>1, <2>4, <2>5, <2>6 DEF InLoop
<1>15. CASE UNCHANGED triesVars
  BY <1>15
  DEF triesVars, vars, hostVars, rcvVars, ecVars, lineVars, InLoop, CmdUnderway, AckUnderway,
      ResponseOwed, TrySpoilt
<1> QED
  BY <1>1, <1>2, <1>3, <1>4, <1>5, <1>6, <1>7, <1>8, <1>9, <1>10, <1>11, <1>12,
     <1>13, <1>14, <1>15
  DEF TriesNext, TriesStep, Caller, Ec

\* On a line that loses nothing, and with room for an ACK in the fifo, a try
\* fails only because its ACK was discarded with the rest of a frame, and a
\* request only when this happened to every try: no request fails of what the
\* receiver, the fifo or the counters keep of an earlier one.
THEOREM ReliableCorrect ==
  ASSUME Quiet, FifoCap >= 1, WireCap >= 2
  PROVE  TriesSpec => []ReliableLineSucceeds
<1> DEFINE Reliable == ~lossy => CountInv /\ ReliableInv /\ ReliableLineSucceeds
<1>1. TriesInit => Init /\ Reliable
  BY InitReliable DEF TriesInit, Init, ReliableLineSucceeds
<1>2. [TriesNext]_triesVars => [Next]_vars
  BY DEF TriesNext, TriesStep, triesVars, vars, SpoilTry, Next, Step, Receiver
<1>3. IInv /\ IInv' /\ Reliable /\ [TriesNext]_triesVars => Reliable'
  <2> SUFFICES ASSUME IInv, IInv', ~lossy, CountInv, ReliableInv, ReliableLineSucceeds,
                      [TriesNext]_triesVars
               PROVE  CountInv' /\ ReliableInv' /\ ReliableLineSucceeds'
    <3>1. [TriesNext]_triesVars => lossy' = lossy
      BY DEF TriesNext, triesVars, vars
    <3> QED BY <3>1
  <2>1. TypeInv /\ TypeInv' /\ FifoInv /\ ReturnInv
    BY DEF IInv, TypeInv
  <2>2. CountInv' /\ ReliableInv'
    BY <2>1, NextCount, NextReliable
  <2>3. try' <= spoilt'
    BY <2>2 DEF CountInv
  <2>4. pc' = "out" => status' \in {"ok", "einval"} \/ spoilt' >= NumRetry
    <3>1. pc # "out" => status = "ok"
      BY <2>1 DEF ReturnInv
    <3>2. CASE \E b \in BOOLEAN : RspCompleted(b)
      BY <3>1, <3>2 DEF RspCompleted, FailWith
    <3>3. CASE \/ \E i \in Ids, k \in Kinds : Begin(i, k)
               \/ WriteCmd \/ AckCompleted \/ AckTimeout \/ SendAck \/ Return
      BY <3>1, <3>3 DEF Begin, WriteCmd, AckCompleted, AckTimeout, SendAck, Return
    <3>4. CASE GiveUp /\ UNCHANGED spoilt
      <4>1. try <= spoilt /\ try >= NumRetry /\ spoilt \in Nat /\ try \in Nat
        BY <2>1, <3>4 DEF GiveUp, CountInv, TypeInv, TypeOK
      <4> QED BY <3>4, <4>1, RequestAssumption
    <3>5. CASE SpoilTry
      <4>1. UNCHANGED <<pc, status>> /\ spoilt' \in {spoilt, spoilt + 1} /\ spoilt \in Nat
        BY <3>5 DEF SpoilTry, RcvInvalid, hostVars, CountInv
      <4> QED BY <4>1, RequestAssumption DEF ReliableLineSucceeds
    <3>6. CASE (RcvCtrl \/ RcvCmd \/ Ec) /\ UNCHANGED spoilt
      BY <3>6
      DEF ReliableLineSucceeds, RcvCtrl, RcvCmd, Ec, EcTake, EcGarbled, EcAcked, EcSend,
          EcForget, hostVars
    <3>7. CASE UNCHANGED triesVars
      BY <3>7 DEF ReliableLineSucceeds, triesVars, vars, hostVars
    <3>8. ~WriteFails /\ ~RspTimeout
      BY <2>1, NoTimeout DEF WriteFails
    <3> QED BY <3>2, <3>3, <3>4, <3>5, <3>6, <3>7, <3>8 DEF TriesNext, TriesStep, Caller
  <2> QED BY <2>2, <2>3, <2>4 DEF ReliableLineSucceeds
<1>4. TriesSpec => []IInv
  <2>1. TriesSpec => Spec
    BY <1>1, <1>2, PTL DEF TriesSpec, Spec
  <2> QED BY <2>1, InvariantCorrect, PTL
<1>5. Reliable => ReliableLineSucceeds
  BY DEF ReliableLineSucceeds
<1> QED BY <1>1, <1>3, <1>4, <1>5, PTL DEF TriesSpec
=============================================================================
