-------------------------- MODULE SshRequestProofs --------------------------
(***************************************************************************)
(* Proofs about SshRequest, for every set of requests, every number of     *)
(* retries, every range of the counters and every size of the fifo.  The   *)
(* theorems at the end follow from one inductive invariant, IInv; its      *)
(* conjuncts are proved in an order in which each rests on earlier ones.   *)
(***************************************************************************)
EXTENDS SshRequest, SequenceTheorems, FiniteSetTheorems, TLAPS

-----------------------------------------------------------------------------
(* Sequences, by their elements *)

LEMMA ElemsEmpty == Elems(<<>>) = {}
  BY DEF Elems

LEMMA ElemsIn ==
  ASSUME NEW S, NEW s \in Seq(S)
  PROVE  Elems(s) \subseteq S
  BY LenProperties, ElementOfSeq DEF Elems

LEMMA ElemsAppend ==
  ASSUME NEW S, NEW s \in Seq(S), NEW e \in S
  PROVE  /\ Append(s, e) \in Seq(S)
         /\ Append(s, e) # <<>>
         /\ Elems(Append(s, e)) = Elems(s) \union {e}
<1>1. /\ Append(s, e) \in Seq(S)
      /\ Len(Append(s, e)) = Len(s) + 1
      /\ \A i \in 1..Len(s) : Append(s, e)[i] = s[i]
      /\ Append(s, e)[Len(s) + 1] = e
  BY AppendProperties
<1>2. DOMAIN Append(s, e) = 1..(Len(s) + 1) /\ DOMAIN s = 1..Len(s) /\ Len(s) \in Nat
  BY <1>1, LenProperties
<1>3. Append(s, e) # <<>>
  BY <1>1, <1>2, EmptySeq
<1>4. Elems(Append(s, e)) \subseteq Elems(s) \union {e}
  BY <1>1, <1>2 DEF Elems
<1>5. Elems(s) \union {e} \subseteq Elems(Append(s, e))
  BY <1>1, <1>2 DEF Elems
<1> QED BY <1>1, <1>3, <1>4, <1>5

LEMMA ElemsTail ==
  ASSUME NEW S, NEW s \in Seq(S), s # <<>>
  PROVE  /\ Tail(s) \in Seq(S)
         /\ Head(s) \in Elems(s)
         /\ Head(s) \in S
         /\ Elems(Tail(s)) \subseteq Elems(s)
<1>1. /\ Tail(s) \in Seq(S)
      /\ Head(s) \in S
      /\ Len(Tail(s)) = Len(s) - 1
      /\ \A i \in 1..Len(Tail(s)) : Tail(s)[i] = s[i+1]
  BY HeadTailProperties
<1>2. DOMAIN Tail(s) = 1..(Len(s) - 1) /\ DOMAIN s = 1..Len(s) /\ Len(s) \in Nat \ {0}
  BY <1>1, LenProperties, EmptySeq
<1>3. Head(s) = s[1]
  BY <1>2
<1>4. Elems(Tail(s)) \subseteq Elems(s)
  BY <1>1, <1>2 DEF Elems
<1> QED BY <1>1, <1>2, <1>3, <1>4 DEF Elems

LEMMA ElemsHeadTail ==
  ASSUME NEW S, NEW s \in Seq(S), s # <<>>
  PROVE  Elems(s) = {Head(s)} \union Elems(Tail(s))
<1>1. /\ Tail(s) \in Seq(S)
      /\ Len(Tail(s)) = Len(s) - 1
      /\ \A i \in 1..Len(Tail(s)) : Tail(s)[i] = s[i+1]
      /\ DOMAIN Tail(s) = 1..Len(Tail(s))
  BY HeadTailProperties, LenProperties
<1>2. DOMAIN s = 1..Len(s) /\ Len(s) \in Nat \ {0}
  BY LenProperties, EmptySeq
<1>3. Head(s) = s[1]
  BY <1>2
<1>4. ASSUME NEW i \in DOMAIN s, i # 1 PROVE s[i] \in Elems(Tail(s))
  <2>1. i - 1 \in DOMAIN Tail(s) /\ Tail(s)[i - 1] = s[i]
    BY <1>1, <1>2, <1>4
  <2> QED BY <2>1 DEF Elems
<1>5. Elems(s) \subseteq {Head(s)} \union Elems(Tail(s))
  BY <1>3, <1>4 DEF Elems
<1> QED BY <1>5, ElemsTail

LEMMA ElemsFrom ==
  ASSUME NEW S, NEW s \in Seq(S), NEW n \in 1..Len(s)
  PROVE  /\ SubSeq(s, n + 1, Len(s)) \in Seq(S)
         /\ Elems(SubSeq(s, n + 1, Len(s))) \subseteq Elems(s)
<1> DEFINE t == SubSeq(s, n + 1, Len(s))
<1>1. Len(s) \in Nat /\ DOMAIN s = 1..Len(s) /\ n \in Nat
  BY LenProperties
<1>2. \E m \in Int, k \in Int : m = n + 1 /\ k = Len(s)
  <2>1. n + 1 \in Int /\ Len(s) \in Int
    BY <1>1
  <2> QED BY <2>1, Zenon
<1>3. PICK m \in Int, k \in Int : m = n + 1 /\ k = Len(s)
  BY <1>2, Zenon
<1>4. t = SubSeq(s, m, k) /\ \A i \in m..k : s[i] \in S
  BY <1>1, <1>3, ElementOfSeq
<1>5. /\ t \in Seq(S)
      /\ Len(t) = Len(s) - n
      /\ \A i \in 1..Len(t) : t[i] = s[i + n]
  <2>1. /\ SubSeq(s, m, k) \in Seq(S)
        /\ Len(SubSeq(s, m, k)) = IF m <= k THEN k - m + 1 ELSE 0
        /\ \A i \in 1..(k - m + 1) : SubSeq(s, m, k)[i] = s[m + i - 1]
    BY <1>4, SubSeqProperties
  <2> HIDE DEF t
  <2>2. Len(t) = Len(s) - n /\ k - m + 1 = Len(t)
    <3>1. Len(t) = IF m <= k THEN k - m + 1 ELSE 0
      BY <1>4, <2>1, Zenon
    <3>2. n \in 1..k /\ k \in Nat
      BY <1>1, <1>3
    <3> QED BY <1>3, <3>1, <3>2
  <2>3. ASSUME NEW i \in 1..Len(t) PROVE t[i] = s[i + n]
    <3>1. i \in 1..(k - m + 1) /\ m + i - 1 = i + n
      BY <1>1, <1>3, <2>2
    <3> QED BY <1>4, <2>1, <3>1
  <2> QED BY <1>4, <2>1, <2>2, <2>3
<1> HIDE DEF t
<1>6. DOMAIN t = 1..Len(t)
  BY <1>5, LenProperties
<1>7. ASSUME NEW i \in DOMAIN t PROVE t[i] \in Elems(s)
  <2>1. i + n \in DOMAIN s /\ t[i] = s[i + n]
    BY <1>1, <1>5, <1>6
  <2> QED BY <2>1 DEF Elems
<1>8. Elems(t) \subseteq Elems(s)
  BY <1>7 DEF Elems
<1> QED BY <1>5, <1>8 DEF t

LEMMA ElemsPrepend ==
  ASSUME NEW S, NEW s \in Seq(S), NEW e \in S
  PROVE  /\ <<e>> \o s \in Seq(S)
         /\ Elems(<<e>> \o s) = {e} \union Elems(s)
<1>1. <<e>> \in Seq(S) /\ Len(<<e>>) = 1 /\ <<e>>[1] = e
  OBVIOUS
<1>2. /\ <<e>> \o s \in Seq(S)
      /\ Len(<<e>> \o s) = 1 + Len(s)
      /\ \A i \in 1..1 : (<<e>> \o s)[i] = e
      /\ \A i \in 2..(1 + Len(s)) : (<<e>> \o s)[i] = s[i-1]
  BY <1>1, ConcatProperties
<1>3. Len(s) \in Nat /\ DOMAIN s = 1..Len(s) /\ DOMAIN (<<e>> \o s) = 1..(1 + Len(s))
  BY <1>2, LenProperties
<1>4. Elems(<<e>> \o s) \subseteq {e} \union Elems(s)
  BY <1>2, <1>3 DEF Elems
<1>5. e \in Elems(<<e>> \o s)
  BY <1>2, <1>3 DEF Elems
<1>6. ASSUME NEW i \in DOMAIN s PROVE s[i] \in Elems(<<e>> \o s)
  <2>1. i + 1 \in DOMAIN (<<e>> \o s) /\ i + 1 \in 2..(1 + Len(s)) /\ (i + 1) - 1 = i
    BY <1>3
  <2>2. (<<e>> \o s)[i + 1] = s[i]
    BY <1>2, <2>1
  <2> QED BY <2>1, <2>2 DEF Elems
<1> QED BY <1>2, <1>4, <1>5, <1>6 DEF Elems

-----------------------------------------------------------------------------
(* Identifiers *)

LEMMA CounterModPositive == CounterMod \in Nat \ {0}
  BY RequestAssumption DEF CounterMod

LEMMA RqstIdType ==
  ASSUME NEW c \in Nat
  PROVE  RqstId(c) \in 0..CounterMod-1
<1>1. c * EventMod \in Nat
  BY RequestAssumption
<1> QED BY <1>1, CounterModPositive DEF RqstId

\* The shift keeps the low bits free: what is sent is 0 or no less than the
\* number of event ids.
LEMMA RqstIdIsNoEvent ==
  ASSUME NEW c \in Nat
  PROVE  ~RqidIsEvent(RqstId(c))
<1> DEFINE q == (c * EventMod) \div CounterMod
           d == c - q * RqstMod
<1>1. /\ c * EventMod \in Nat /\ CounterMod \in Nat \ {0}
      /\ EventMod \in Nat \ {0} /\ RqstMod \in Nat \ {0}
  BY RequestAssumption, CounterModPositive
<1>2. q \in Int /\ c * EventMod = CounterMod * q + RqstId(c)
  BY <1>1 DEF RqstId
<1>3. d \in Int
  BY <1>1, <1>2
<1>4. RqstId(c) = EventMod * d
  <2>1. RqstId(c) = c * EventMod - (EventMod * RqstMod) * q
    BY <1>1, <1>2, RqstIdType DEF CounterMod
  <2> HIDE DEF q
  <2>2. c * EventMod - (EventMod * RqstMod) * q = EventMod * (c - q * RqstMod)
    BY <1>1, <1>2
  <2> QED BY <2>1, <2>2
<1>5. RqstId(c) \in Nat
  BY RqstIdType, CounterModPositive
<1>6. CASE d <= 0
  <2> HIDE DEF d
  <2>1. EventMod * d <= 0
    BY <1>1, <1>3, <1>6
  <2> QED BY <2>1, <1>4, <1>5, <1>1, <1>3 DEF RqidIsEvent
<1>7. CASE d >= 1
  <2> HIDE DEF d
  <2>1. EventMod * d >= EventMod
    BY <1>1, <1>3, <1>7
  <2> QED BY <2>1, <1>4, <1>5, <1>1, <1>3 DEF RqidIsEvent
<1> QED BY <1>3, <1>6, <1>7

-----------------------------------------------------------------------------
(* Type correctness, with the conditions on the caller it rests on *)

TypeInv == TypeOK /\ CallerInv

LEMMA InitType == Init => TypeInv
<1> SUFFICES ASSUME Init PROVE TypeInv
  OBVIOUS
<1>1. 0 \in 0..SeqMod-1 /\ 0 \in 0..CounterMod-1 /\ 0 \in 0..NumRetry
  BY RequestAssumption, CounterModPositive
<1>2. fifo \in Seq(Packets) /\ toHost \in Seq(EcFrames)
      /\ toEc \in Seq(CmdFrames \union HostAcks)
  BY EmptySeq DEF Init
<1> QED
  BY <1>1, <1>2
  DEF Init, TypeInv, TypeOK, CallerInv, InLoop, NoRequest, NoPacket, NoFrame,
      Kinds, AnyId, Packets

LEMMA TakePacketType ==
  ASSUME TypeOK, TakePacket
  PROVE  packet' \in Packets /\ fifo' \in Seq(Packets)
  BY ElemsTail DEF TypeOK, TakePacket

LEMMA TransmitType ==
  ASSUME TypeOK, NEW f \in CmdFrames \union HostAcks, Transmit(f)
  PROVE  toEc' \in Seq(CmdFrames \union HostAcks)
  BY ElemsAppend DEF TypeOK, Transmit

\* The line when the eval buffer has been emptied: a rest may be in front.
LEMMA EmptiedLine ==
  ASSUME NEW s \in Seq(EcFrames), NEW t \in WithoutBeginning(s)
  PROVE  /\ t \in Seq(EcFrames)
         /\ Elems(t) \subseteq Elems(s) \union {RestFrame}
<1>1. RestFrame \in EcFrames
  BY DEF RestFrame, EcFrames, AnyId
<1>2. <<RestFrame>> \o s \in Seq(EcFrames)
      /\ Elems(<<RestFrame>> \o s) = {RestFrame} \union Elems(s)
  BY <1>1, ElemsPrepend
<1>3. CASE s = <<>>
  <2>1. <<RestFrame>> \in Seq(EcFrames) /\ Elems(<<RestFrame>>) = {RestFrame}
    BY <1>1 DEF Elems
  <2> QED BY <1>3, <2>1 DEF WithoutBeginning
<1>4. CASE s # <<>>
  <2>1. Tail(s) \in Seq(EcFrames) /\ Elems(Tail(s)) \subseteq Elems(s)
    BY <1>4, ElemsTail
  <2>2. <<RestFrame>> \o Tail(s) \in Seq(EcFrames)
        /\ Elems(<<RestFrame>> \o Tail(s)) = {RestFrame} \union Elems(Tail(s))
    BY <1>1, <2>1, ElemsPrepend
  <2>3. t \in {s, <<RestFrame>> \o s, <<RestFrame>> \o Tail(s)}
    BY <1>4 DEF WithoutBeginning
  <2> QED BY <1>2, <2>1, <2>2, <2>3
<1> QED BY <1>3, <1>4

LEMMA EmptyEvalBufLine ==
  ASSUME TypeOK, EmptyEvalBuf
  PROVE  /\ toHost' \in Seq(EcFrames)
         /\ Elems(toHost') \subseteq Elems(toHost) \union {RestFrame}
  BY EmptiedLine DEF EmptyEvalBuf, TypeOK

LEMMA InvalidLine ==
  ASSUME TypeOK, RcvInvalid
  PROVE  /\ toHost' \in Seq(EcFrames)
         /\ Elems(toHost') \subseteq Elems(toHost) \union {RestFrame}
<1>1. toHost \in Seq(EcFrames)
  BY DEF TypeOK
<1>2. PICK n \in 1..Len(toHost) :
        toHost' \in WithoutBeginning(SubSeq(toHost, n + 1, Len(toHost)))
  BY DEF RcvInvalid
<1>3. /\ SubSeq(toHost, n + 1, Len(toHost)) \in Seq(EcFrames)
      /\ Elems(SubSeq(toHost, n + 1, Len(toHost))) \subseteq Elems(toHost)
  BY <1>1, ElemsFrom
<1> QED BY <1>2, <1>3, EmptiedLine

LEMMA DeliverType ==
  ASSUME TypeOK, NEW f \in EcFrames, f.type # "rest", NEW state \in {"DISCARD", "CONTROL", "COMMAND"},
         Deliver(f, state)
  PROVE  /\ fifo' \in Seq(Packets)
         /\ done' \in Nat
         /\ rcv' \in [state : {"DISCARD", "CONTROL", "COMMAND"}, pld : BOOLEAN,
                      seq : 0..SeqMod-1, rqid : 0..CounterMod-1]
<1>1. Packet(f) \in Packets
  BY DEF Packet, Packets, EcFrames
<1>2. Append(fifo, Packet(f)) \in Seq(Packets)
  BY <1>1, ElemsAppend DEF TypeOK
<1>3. [rcv EXCEPT !.state = state]
        \in [state : {"DISCARD", "CONTROL", "COMMAND"}, pld : BOOLEAN,
            seq : 0..SeqMod-1, rqid : 0..CounterMod-1]
  BY DEF TypeOK
<1> QED
  BY <1>2, <1>3 DEF TypeOK, Deliver

LEMMA CounterStep ==
  ASSUME NEW c \in [seq : 0..SeqMod-1, rqid : 0..CounterMod-1]
  PROVE  [seq |-> (c.seq + 1) % SeqMod, rqid |-> (c.rqid + 1) % CounterMod]
            \in [seq : 0..SeqMod-1, rqid : 0..CounterMod-1]
<1>1. SeqMod \in Nat \ {0} /\ CounterMod \in Nat \ {0}
  BY RequestAssumption, CounterModPositive
<1> QED BY <1>1

LEMMA NextType == TypeInv /\ [Next]_vars => TypeInv'
<1> SUFFICES ASSUME TypeInv, [Next]_vars PROVE TypeInv'
  OBVIOUS
<1>0. lossy' \in BOOLEAN
  BY DEF TypeInv, TypeOK, Next, vars
<1> USE RequestAssumption, <1>0 DEF TypeInv
<1>1. ASSUME NEW i \in Ids, NEW k \in Kinds, Begin(i, k) PROVE TypeInv'
  <2>1. RqstId(counter.rqid) \in 0..CounterMod-1
    BY RqstIdType, CounterModPositive DEF TypeOK
  <2>2. CmdFrame(i, k) \in CmdFrames /\ CmdFrame(i, k).id = i
    BY <2>1 DEF CmdFrame, CmdFrames, TypeOK
  <2>3. toHost' \in Seq(EcFrames)
    BY <1>1, EmptyEvalBufLine DEF Begin, ReceiverRestart
  <2> QED
    BY <1>1, <2>1, <2>2, <2>3
    DEF Begin, ReceiverRestart, TypeOK, CallerInv, InLoop, NoPacket, Packets, AnyId, Kinds
<1>2. CASE WriteCmd
  <2>1. toEc' \in Seq(CmdFrames \union HostAcks)
    BY <1>2, TransmitType DEF WriteCmd, CallerInv, InLoop
  <2> QED
    BY <1>2, <2>1 DEF WriteCmd, rcvVars, ecVars, TypeOK, CallerInv, InLoop
<1>3. CASE WriteFails \/ GiveUp \/ RspTimeout
  BY <1>3 DEF WriteFails, GiveUp, RspTimeout, FailWith, rcvVars, ecVars, lineVars,
     TypeOK, CallerInv, InLoop
<1>4. CASE AckCompleted
  <2>1. packet' \in Packets /\ fifo' \in Seq(Packets)
    BY <1>4, TakePacketType DEF AckCompleted
  <2>2. done' \in Nat
    BY <1>4 DEF AckCompleted, TypeOK
  <2>3. CASE packet'.type = "ack"
    <3>1. counter' \in [seq : 0..SeqMod-1, rqid : 0..CounterMod-1]
      <4>1. counter \in [seq : 0..SeqMod-1, rqid : 0..CounterMod-1]
        BY DEF TypeOK
      <4> QED BY <1>4, <2>3, <4>1, CounterStep DEF AckCompleted
    <3> QED
      BY <1>4, <2>1, <2>2, <2>3, <3>1
      DEF AckCompleted, ecVars, lineVars, TypeOK, CallerInv, InLoop
  <2>4. CASE packet'.type # "ack"
    BY <1>4, <2>1, <2>2, <2>4
    DEF AckCompleted, ecVars, lineVars, TypeOK, CallerInv, InLoop
  <2> QED BY <2>3, <2>4
<1>5. CASE AckTimeout
  BY <1>5 DEF AckTimeout, rcvVars, ecVars, lineVars, TypeOK, CallerInv, InLoop
<1>6. ASSUME NEW fits \in BOOLEAN, RspCompleted(fits) PROVE TypeInv'
  <2>1. packet' \in Packets /\ fifo' \in Seq(Packets)
    BY <1>6, TakePacketType DEF RspCompleted
  <2>2. done' \in Nat
    BY <1>6 DEF RspCompleted, TypeOK
  <2>3. packet'.id \in AnyId
    BY <2>1 DEF Packets
  <2> QED
    BY <1>6, <2>1, <2>2, <2>3
    DEF RspCompleted, FailWith, ecVars, lineVars, TypeOK, CallerInv, InLoop
<1>7. CASE SendAck
  <2>1. writer' \in HostAcks
    BY <1>7 DEF SendAck, HostAcks, TypeOK, Packets
  <2>2. toEc' \in Seq(CmdFrames \union HostAcks)
    BY <1>7, <2>1, TransmitType DEF SendAck, TypeOK
  <2> QED
    BY <1>7, <2>1, <2>2
    DEF SendAck, FailWith, rcvVars, ecVars, TypeOK, CallerInv, InLoop
<1>8. CASE Return
  <2>1. <<>> \in Seq(Packets)
    BY EmptySeq
  <2>2. [rcv EXCEPT !.state = "DISCARD"]
          \in [state : {"DISCARD", "CONTROL", "COMMAND"}, pld : BOOLEAN,
              seq : 0..SeqMod-1, rqid : 0..CounterMod-1]
    BY DEF TypeOK
  <2>3. NoRequest \in [id : AnyId, kind : Kinds] /\ NoPacket \in Packets /\ 0 \in 0..NumRetry
    BY DEF NoRequest, NoPacket, Packets, AnyId, Kinds
  <2>4. toHost' \in Seq(EcFrames)
    BY <1>8, EmptyEvalBufLine DEF Return, ReceiverDiscard
  <2> QED
    BY <1>8, <2>1, <2>2, <2>3, <2>4
    DEF Return, ReceiverDiscard, ecVars, TypeOK, CallerInv, InLoop, AnyId
<1>9. CASE RcvInvalid
  <2>1. toHost' \in Seq(EcFrames)
    BY <1>9, InvalidLine
  <2> QED BY <1>9, <2>1 DEF RcvInvalid, hostVars, rcvVars, ecVars, TypeOK, CallerInv, InLoop
<1>10. CASE RcvCtrl \/ RcvCmd
  <2>1. Head(toHost) \in EcFrames /\ toHost' \in Seq(EcFrames)
    <3>1. toHost \in Seq(EcFrames) /\ toHost # <<>> /\ toHost' = Tail(toHost)
      BY <1>10 DEF RcvCtrl, RcvCmd, TakeFrame, TypeOK
    <3> QED BY <3>1, ElemsTail
  <2>2. \/ UNCHANGED rcvVars
        \/ /\ Head(toHost).type # "rest"
           /\ \E state \in {"DISCARD", "CONTROL", "COMMAND"} : Deliver(Head(toHost), state)
    BY <1>10 DEF RcvCtrl, RcvCmd
  <2>3. /\ fifo' \in Seq(Packets)
        /\ done' \in Nat
        /\ rcv' \in [state : {"DISCARD", "CONTROL", "COMMAND"}, pld : BOOLEAN,
                     seq : 0..SeqMod-1, rqid : 0..CounterMod-1]
    BY <2>1, <2>2, DeliverType DEF rcvVars, TypeOK
  <2> QED
    BY <1>10, <2>1, <2>3, SMTT(30)
    DEF RcvCtrl, RcvCmd, hostVars, ecVars, TypeOK, CallerInv, InLoop
<1>11. CASE EcTake
  <2> DEFINE c == Head(toEc)
             a == [type |-> "ack", num |-> c.seq, id |-> c.id]
  <2>1. c \in CmdFrames /\ toEc' \in Seq(CmdFrames \union HostAcks)
    BY <1>11, ElemsTail DEF EcTake, TypeOK, HostAcks
  <2>2. a \in EcFrames
    BY <2>1 DEF CmdFrames, EcFrames, AnyId
  <2>3. toHost' \in Seq(EcFrames)
    <3>1. toHost \in Seq(EcFrames)
      BY DEF TypeOK
    <3>2. Append(toHost, a) \in Seq(EcFrames)
      BY <2>2, <3>1, ElemsAppend
    <3>3. toHost' = Append(toHost, a)
      BY <1>11 DEF EcTake
    <3> QED BY <3>2, <3>3
  <2>4. ecOut' \subseteq Responses /\ taken' \subseteq Ids
    <3>1. c.id \in Ids /\ [type |-> "cmd", num |-> c.rqid, id |-> c.id] \in Responses
      BY <2>1 DEF Responses, CmdFrames
    <3>2. ecOut \subseteq Responses /\ taken \subseteq Ids
      BY DEF TypeOK
    <3>3. /\ taken' = taken \union {c.id}
          /\ ecOut' \subseteq ecOut \union {[type |-> "cmd", num |-> c.rqid, id |-> c.id]}
      BY <1>11 DEF EcTake
    <3> QED BY <3>1, <3>2, <3>3
  <2> QED
    BY <1>11, <2>1, <2>3, <2>4
    DEF EcTake, hostVars, rcvVars, TypeOK, CallerInv, InLoop
<1>12. CASE EcGarbled
  <2>1. toEc' \in Seq(CmdFrames \union HostAcks)
    BY <1>12, ElemsTail DEF EcGarbled, TypeOK
  <2>2. RetryFrame \in EcFrames
    BY DEF RetryFrame, EcFrames, AnyId
  <2>3. toHost' \in Seq(EcFrames)
    <3>1. toHost \in Seq(EcFrames)
      BY DEF TypeOK
    <3>2. Append(toHost, RetryFrame) \in Seq(EcFrames)
      BY <2>2, <3>1, ElemsAppend
    <3> QED BY <1>12, <3>1, <3>2 DEF EcGarbled
  <2> QED
    BY <1>12, <2>1, <2>3
    DEF EcGarbled, hostVars, rcvVars, ecVars, TypeOK, CallerInv, InLoop
<1>13. CASE EcAcked
  <2>1. toEc' \in Seq(CmdFrames \union HostAcks)
    BY <1>13, ElemsTail DEF EcAcked, TypeOK
  <2>2. ecOut' \subseteq ecOut
    BY <1>13 DEF EcAcked
  <2> QED
    BY <1>13, <2>1, <2>2
    DEF EcAcked, hostVars, rcvVars, TypeOK, CallerInv, InLoop
<1>14. ASSUME NEW r \in ecOut, EcSend(r) \/ EcForget(r) PROVE TypeInv'
  <2>1. r \in EcFrames
    BY DEF TypeOK, Responses, EcFrames, AnyId
  <2>2. toHost' \in Seq(EcFrames)
    <3>1. toHost \in Seq(EcFrames)
      BY DEF TypeOK
    <3>2. Append(toHost, r) \in Seq(EcFrames)
      BY <2>1, <3>1, ElemsAppend
    <3> QED BY <1>14, <3>1, <3>2 DEF EcSend, EcForget, lineVars
  <2> QED
    BY <1>14, <2>2
    DEF EcSend, EcForget, hostVars, rcvVars, ecVars, lineVars, TypeOK, CallerInv, InLoop
<1>15. CASE UNCHANGED vars
  BY <1>15 DEF vars, hostVars, rcvVars, ecVars, lineVars, TypeOK, CallerInv, InLoop
<1> QED
  BY <1>1, <1>2, <1>3, <1>4, <1>5, <1>6, <1>7, <1>8, <1>9, <1>10, <1>11, <1>12,
     <1>13, <1>14, <1>15
  DEF Next, Step, Caller, Receiver, Ec

\* Every variable keeps to the values it is declared for.
THEOREM TypeCorrect == Spec => []TypeOK
<1>1. TypeInv => TypeOK
  BY DEF TypeInv
<1> QED BY <1>1, InitType, NextType, PTL DEF Spec

-----------------------------------------------------------------------------
(* The fifo and the completion *)

LEMMA InitFifo == Init => FifoInv
  BY DEF Init, FifoInv, InLoop

\* The first packet is consumed together with one completion.
LEMMA TakeFirst ==
  ASSUME TypeInv, done > 0, done = Len(fifo), TakePacket
  PROVE  /\ fifo # <<>>
         /\ packet' = fifo[1]
         /\ packet' \in Elems(fifo)
         /\ fifo' = Tail(fifo)
         /\ Len(fifo') = Len(fifo) - 1
         /\ DOMAIN fifo = 1..Len(fifo)
         /\ DOMAIN fifo' = 1..(Len(fifo) - 1)
         /\ \A i \in DOMAIN fifo' : fifo'[i] = fifo[i+1]
         /\ Elems(fifo') \subseteq Elems(fifo)
<1>1. fifo \in Seq(Packets) /\ fifo # <<>>
  BY EmptySeq DEF TypeInv, TypeOK
<1>2. packet' = Head(fifo) /\ fifo' = Tail(fifo)
  BY <1>1 DEF TakePacket
<1>3. Head(fifo) = fifo[1]
  BY <1>1
<1> QED
  BY <1>1, <1>2, <1>3, ElemsTail, HeadTailProperties, LenProperties

\* A packet is added together with one completion.
LEMMA DeliverLast ==
  ASSUME TypeInv, NEW f \in EcFrames, f.type # "rest",
         NEW state \in {"DISCARD", "CONTROL", "COMMAND"}, Deliver(f, state)
  PROVE  /\ Len(fifo') = Len(fifo) + 1
         /\ Len(fifo) \in Nat
         /\ DOMAIN fifo = 1..Len(fifo)
         /\ DOMAIN fifo' = 1..(Len(fifo) + 1)
         /\ \A i \in DOMAIN fifo : fifo'[i] = fifo[i]
         /\ fifo'[Len(fifo) + 1] = Packet(f)
         /\ Elems(fifo') = Elems(fifo) \union {Packet(f)}
         /\ done' = done + 1
         /\ rcv'.state = state
         /\ rcv'.seq = rcv.seq /\ rcv'.rqid = rcv.rqid /\ rcv'.pld = rcv.pld
         /\ Packet(f).type = f.type /\ Packet(f).id = f.id
<1>1. fifo \in Seq(Packets) /\ Packet(f) \in Packets
  BY DEF TypeInv, TypeOK, Packet, Packets, EcFrames
<1>2. fifo' = Append(fifo, Packet(f)) /\ done' = done + 1
  BY DEF Deliver
<1>3. /\ Append(fifo, Packet(f)) \in Seq(Packets)
      /\ Len(Append(fifo, Packet(f))) = Len(fifo) + 1
      /\ \A i \in 1..Len(fifo) : Append(fifo, Packet(f))[i] = fifo[i]
      /\ Append(fifo, Packet(f))[Len(fifo) + 1] = Packet(f)
  BY <1>1, AppendProperties
<1>4. Elems(Append(fifo, Packet(f))) = Elems(fifo) \union {Packet(f)}
  BY <1>1, ElemsAppend
<1>5. /\ rcv'.state = state
      /\ rcv'.seq = rcv.seq /\ rcv'.rqid = rcv.rqid /\ rcv'.pld = rcv.pld
  BY DEF Deliver, TypeInv, TypeOK
<1>6. Len(fifo) \in Nat /\ DOMAIN fifo = 1..Len(fifo)
      /\ DOMAIN Append(fifo, Packet(f)) = 1..(Len(fifo) + 1)
  BY <1>1, <1>3, LenProperties
<1>7. Packet(f).type = f.type /\ Packet(f).id = f.id
  BY DEF Packet
<1> QED
  BY <1>2, <1>3, <1>4, <1>5, <1>6, <1>7

\* What the receiver does with a frame it takes off the line.
LEMMA Receive ==
  ASSUME TypeInv, RcvCtrl \/ RcvCmd
  PROVE  LET f == Head(toHost) IN
         /\ f \in Elems(toHost)
         /\ f \in EcFrames /\ f.type # "rest"
         /\ Elems(toHost') \subseteq Elems(toHost)
         /\ UNCHANGED <<pc, req, taken, toEc, ecOut, status, result, writer>>
         /\ \/ UNCHANGED rcvVars
            \/ /\ f.type = "retry"
               /\ rcv.state = "CONTROL"
               /\ Deliver(f, "CONTROL")
            \/ /\ f.type = "ack" /\ f.num = rcv.seq
               /\ rcv.state = "CONTROL"
               /\ \E state \in {"COMMAND", "DISCARD"} : Deliver(f, state)
            \/ /\ f.type = "cmd" /\ f.num = rcv.rqid
               /\ rcv.state = "COMMAND"
               /\ Deliver(f, "DISCARD")
<1>1. toHost \in Seq(EcFrames) /\ toHost # <<>> /\ toHost' = Tail(toHost)
  BY DEF RcvCtrl, RcvCmd, TakeFrame, TypeInv, TypeOK
<1>2. /\ Head(toHost) \in Elems(toHost)
      /\ Head(toHost) \in EcFrames
      /\ Elems(toHost') \subseteq Elems(toHost)
  BY <1>1, ElemsTail
<1>3. CASE RcvCtrl
  BY <1>2, <1>3 DEF RcvCtrl, CtrlExpected, hostVars, ecVars, EcFrames
<1>4. CASE RcvCmd
  BY <1>2, <1>4 DEF RcvCmd, CmdExpected, hostVars, ecVars, EcFrames
<1> QED BY <1>3, <1>4

LEMMA NextFifo == TypeInv /\ FifoInv /\ [Next]_vars => FifoInv'
<1> SUFFICES ASSUME TypeInv, FifoInv, [Next]_vars PROVE FifoInv'
  OBVIOUS
<1>1. ASSUME NEW i \in Ids, NEW k \in Kinds, Begin(i, k) PROVE FifoInv'
  <2>1. fifo' = <<>> /\ done' = 0 /\ rcv'.state = "CONTROL" /\ pc' = "send"
    BY <1>1 DEF Begin, ReceiverRestart, FifoInv
  <2> QED BY <2>1, EmptySeq, ElemsEmpty DEF FifoInv, InLoop
<1>2. CASE WriteCmd \/ AckTimeout
  BY <1>2 DEF WriteCmd, AckTimeout, rcvVars, FifoInv, InLoop
<1>3. CASE WriteFails \/ GiveUp \/ RspTimeout \/ SendAck \/ \E b \in BOOLEAN : RspCompleted(b)
  <2>1. pc' \in {"out", "ack"}
    BY <1>3 DEF WriteFails, GiveUp, RspTimeout, SendAck, RspCompleted, FailWith
  <2> QED BY <2>1 DEF FifoInv, InLoop
<1>4. CASE AckCompleted
  <2>1. pc = "wait" /\ done > 0 /\ done' = done - 1 /\ TakePacket /\ rcv' = rcv
    BY <1>4 DEF AckCompleted
  <2>2. done = Len(fifo)
    BY <2>1 DEF FifoInv
  <2>3. /\ packet' = fifo[1]
        /\ packet' \in Elems(fifo)
        /\ Len(fifo') = Len(fifo) - 1
        /\ DOMAIN fifo = 1..Len(fifo)
        /\ DOMAIN fifo' = 1..(Len(fifo) - 1)
        /\ \A i \in DOMAIN fifo' : fifo'[i] = fifo[i+1]
        /\ Elems(fifo') \subseteq Elems(fifo)
    BY <2>1, <2>2, TakeFirst
  <2>4. Len(fifo) \in Nat /\ Len(fifo) > 0
    BY <2>1, <2>2 DEF TypeInv, TypeOK
  <2>5. /\ \A j \in DOMAIN fifo : \A i \in 1..(j-1) :
               fifo[i].type # "retry" => fifo[j].type = "cmd"
        /\ rcv.state = "CONTROL" => \A p \in Elems(fifo) : p.type = "retry"
        /\ rcv.state = "COMMAND" => \A p \in Elems(fifo) : p.type # "cmd"
    BY <2>1 DEF FifoInv, InLoop
  <2>6. CASE packet'.type = "ack"
    <3>1. pc' \in {"rsp", "out"}
      BY <1>4, <2>6 DEF AckCompleted
    <3>2. rcv'.state # "CONTROL"
      BY <2>1, <2>3, <2>5, <2>6
    <3>3. \A j \in DOMAIN fifo' : fifo'[j].type = "cmd"
      <4> SUFFICES ASSUME NEW j \in DOMAIN fifo' PROVE fifo'[j].type = "cmd"
        OBVIOUS
      <4>1. j+1 \in DOMAIN fifo /\ 1 \in 1..((j+1)-1) /\ fifo'[j] = fifo[j+1]
        BY <2>3, <2>4
      <4> QED BY <4>1, <2>3, <2>5, <2>6
    <3>4. \A p \in Elems(fifo') : p.type = "cmd"
      BY <3>3 DEF Elems
    <3> QED BY <3>1, <3>2, <3>4, <2>1, <2>2, <2>3 DEF FifoInv, InLoop
  <2>7. CASE packet'.type # "ack"
    <3>1. pc' = "send"
      BY <1>4, <2>7 DEF AckCompleted
    <3>2. ASSUME NEW j \in DOMAIN fifo', NEW i \in 1..(j-1), fifo'[i].type # "retry"
          PROVE  fifo'[j].type = "cmd"
      <4>1. /\ j+1 \in DOMAIN fifo /\ i+1 \in 1..((j+1)-1) /\ i \in DOMAIN fifo'
            /\ fifo'[j] = fifo[j+1] /\ fifo'[i] = fifo[i+1]
        BY <2>3, <2>4
      <4> QED BY <4>1, <3>2, <2>5
    <3> QED BY <3>1, <3>2, <2>1, <2>2, <2>3, <2>5 DEF FifoInv, InLoop
  <2> QED BY <2>6, <2>7
<1>5. CASE Return
  <2>1. pc' = "idle" /\ fifo' = <<>> /\ rcv'.state = "DISCARD"
    BY <1>5 DEF Return, ReceiverDiscard, TypeInv, TypeOK
  <2> QED BY <2>1 DEF FifoInv, InLoop
<1>6. CASE RcvCtrl \/ RcvCmd
  <2> DEFINE f == Head(toHost)
  <2>1. f \in EcFrames /\ f.type # "rest" /\ pc' = pc
    BY <1>6, Receive
  <2>2. CASE UNCHANGED rcvVars
    BY <2>1, <2>2 DEF rcvVars, FifoInv, InLoop
  <2>3. ASSUME NEW state \in {"DISCARD", "CONTROL", "COMMAND"}, Deliver(f, state),
               rcv.state # "DISCARD",
               f.type = "cmd" => rcv.state = "COMMAND" /\ state = "DISCARD",
               f.type # "cmd" => rcv.state = "CONTROL",
               f.type = "ack" => state # "CONTROL",
               f.type = "retry" => state = "CONTROL"
        PROVE  FifoInv'
    <3>1. /\ Len(fifo') = Len(fifo) + 1
          /\ Len(fifo) \in Nat
          /\ DOMAIN fifo = 1..Len(fifo)
          /\ DOMAIN fifo' = 1..(Len(fifo) + 1)
          /\ \A i \in DOMAIN fifo : fifo'[i] = fifo[i]
          /\ fifo'[Len(fifo) + 1] = Packet(f)
          /\ Elems(fifo') = Elems(fifo) \union {Packet(f)}
          /\ done' = done + 1
          /\ rcv'.state = state
          /\ Packet(f).type = f.type
      BY <2>1, <2>3, DeliverLast
    <3>2. f.type \in {"ack", "retry", "cmd"}
      BY <2>1 DEF EcFrames
    <3>3. pc # "idle"
      BY <2>3 DEF FifoInv
    <3>4. CASE InLoop
      <4>1. /\ \A j \in DOMAIN fifo : \A i \in 1..(j-1) :
                   fifo[i].type # "retry" => fifo[j].type = "cmd"
            /\ rcv.state = "CONTROL" => \A p \in Elems(fifo) : p.type = "retry"
            /\ rcv.state = "COMMAND" => \A p \in Elems(fifo) : p.type # "cmd"
        BY <3>4 DEF FifoInv
      <4>2. ASSUME NEW j \in DOMAIN fifo', NEW i \in 1..(j-1), fifo'[i].type # "retry"
            PROVE  fifo'[j].type = "cmd"
        <5>1. CASE j \in DOMAIN fifo
          <6>1. i \in DOMAIN fifo /\ fifo'[i] = fifo[i] /\ fifo'[j] = fifo[j]
            BY <3>1, <5>1
          <6> QED BY <4>1, <4>2, <5>1, <6>1
        <5>2. CASE j = Len(fifo) + 1
          <6>1. i \in DOMAIN fifo /\ fifo'[i] = fifo[i]
            BY <3>1, <5>2
          <6>2. fifo[i] \in Elems(fifo)
            BY <6>1 DEF Elems
          <6>3. rcv.state # "CONTROL"
            BY <4>1, <4>2, <6>1, <6>2
          <6> QED BY <2>3, <3>1, <3>2, <5>2, <6>3
        <5> QED BY <3>1, <5>1, <5>2
      <4>3. rcv'.state = "CONTROL" => \A p \in Elems(fifo') : p.type = "retry"
        BY <2>3, <3>1, <3>2, <4>1
      <4>4. rcv'.state = "COMMAND" => \A p \in Elems(fifo') : p.type # "cmd"
        BY <2>3, <3>1, <3>2, <4>1
      <4>5. done' = Len(fifo')
        BY <3>1, <3>4 DEF FifoInv, InLoop
      <4> QED BY <2>1, <3>3, <3>4, <4>2, <4>3, <4>4, <4>5 DEF FifoInv, InLoop
    <3>5. CASE pc = "rsp"
      <4>1. done' = Len(fifo')
        BY <3>1, <3>5 DEF FifoInv
      <4>2. rcv.state = "COMMAND" /\ f.type = "cmd" /\ state = "DISCARD"
        BY <2>3, <3>2, <3>5 DEF FifoInv
      <4> QED BY <2>1, <3>1, <3>5, <4>1, <4>2 DEF FifoInv, InLoop
    <3> QED BY <2>1, <3>3, <3>4, <3>5 DEF FifoInv, InLoop
  <2> QED BY <1>6, <2>2, <2>3, Receive
<1>7. CASE RcvInvalid \/ Ec \/ UNCHANGED vars
  <2>1. UNCHANGED <<pc, rcv, done, fifo>>
    BY <1>7 DEF RcvInvalid, Ec, EcTake, EcGarbled, EcAcked, EcSend, EcForget,
       vars, hostVars, rcvVars
  <2> QED BY <2>1 DEF FifoInv, InLoop
<1> QED
  BY <1>1, <1>2, <1>3, <1>4, <1>5, <1>6, <1>7 DEF Next, Step, Caller, Receiver

\* Every completion the caller consumes has its packet in the fifo.
THEOREM CompletionCorrect == Spec => []CompletionAssuresPacket
<1>1. TypeInv /\ FifoInv => CompletionAssuresPacket
  BY DEF TypeInv, TypeOK, FifoInv, CompletionAssuresPacket
<1> QED
  BY <1>1, InitType, NextType, InitFifo, NextFifo, PTL DEF Spec

\* The response stage reads responses only.
THEOREM RspStageCorrect == Spec => []RspStageReadsResponse
<1>1. TypeInv /\ FifoInv => RspStageReadsResponse
  <2> SUFFICES ASSUME TypeInv, FifoInv, pc = "rsp", done > 0
               PROVE  fifo # <<>> /\ Head(fifo).type = "cmd"
    BY DEF RspStageReadsResponse
  <2>1. fifo \in Seq(Packets) /\ fifo # <<>>
    BY EmptySeq DEF TypeInv, TypeOK, FifoInv
  <2>2. Head(fifo) \in Elems(fifo)
    BY <2>1, ElemsTail
  <2> QED BY <2>1, <2>2 DEF FifoInv
<1> QED
  BY <1>1, InitType, NextType, InitFifo, NextFifo, PTL DEF Spec

\* No frame waits in the fifo for the next request.
THEOREM IdleFifoCorrect == Spec => []FifoEmptyBetweenRequests
<1>1. FifoInv => FifoEmptyBetweenRequests
  BY DEF FifoInv, FifoEmptyBetweenRequests
<1> QED
  BY <1>1, InitType, NextType, InitFifo, NextFifo, PTL DEF Spec

-----------------------------------------------------------------------------
(* The elements of the lines after a step *)

LEMMA TransmitElems ==
  ASSUME TypeInv, NEW f \in CmdFrames \union HostAcks, Transmit(f)
  PROVE  Elems(toEc') \subseteq Elems(toEc) \union {f}
<1>1. toEc \in Seq(CmdFrames \union HostAcks)
  BY DEF TypeInv, TypeOK
<1>2. Elems(Append(toEc, f)) = Elems(toEc) \union {f}
  BY <1>1, ElemsAppend
<1> QED BY <1>2 DEF Transmit

LEMMA AppendHostElems ==
  ASSUME TypeInv, NEW f \in EcFrames, toHost' = Append(toHost, f)
  PROVE  Elems(toHost') = Elems(toHost) \union {f}
  BY ElemsAppend DEF TypeInv, TypeOK

LEMMA TailEcElems ==
  ASSUME TypeInv, toEc # <<>>, toEc' = Tail(toEc)
  PROVE  Elems(toEc') \subseteq Elems(toEc) /\ Head(toEc) \in Elems(toEc)
         /\ Head(toEc) \in CmdFrames \union HostAcks
  BY ElemsTail DEF TypeInv, TypeOK

LEMMA TakePacketElems ==
  ASSUME TypeInv, TakePacket
  PROVE  Elems(fifo') \subseteq Elems(fifo)
  BY ElemsTail DEF TypeInv, TypeOK, TakePacket

\* The frames EcTake handles and makes.
LEMMA TakeElems ==
  ASSUME TypeInv, EcTake
  PROVE  LET c == Head(toEc)
             a == [type |-> "ack", num |-> c.seq, id |-> c.id]
             r == [type |-> "cmd", num |-> c.rqid, id |-> c.id]
         IN  /\ c \in CmdFrames /\ c \in Elems(toEc) /\ c.type = "cmd"
             /\ Elems(toEc') \subseteq Elems(toEc)
             /\ Elems(toHost') = Elems(toHost) \union {a}
             /\ ecOut' \subseteq ecOut \union {r}
             /\ taken' = taken \union {c.id}
<1> DEFINE c == Head(toEc)
           a == [type |-> "ack", num |-> c.seq, id |-> c.id]
<1>1. toEc # <<>> /\ toEc' = Tail(toEc) /\ c.type = "cmd"
  BY DEF EcTake
<1>2. /\ c \in Elems(toEc) /\ Elems(toEc') \subseteq Elems(toEc)
      /\ c \in CmdFrames \union HostAcks
  BY <1>1, TailEcElems
<1>3. c \in CmdFrames
  BY <1>1, <1>2 DEF HostAcks
<1>4. a \in EcFrames
  BY <1>3 DEF CmdFrames, EcFrames, AnyId
<1>5. Elems(toHost') = Elems(toHost) \union {a}
  <2>1. toHost' = Append(toHost, a)
    BY DEF EcTake
  <2> QED BY <2>1, <1>4, AppendHostElems
<1> QED BY <1>1, <1>2, <1>3, <1>5 DEF EcTake

\* What the EC puts on the line without taking a command: no ACK.
LEMMA EcOtherElems ==
  ASSUME TypeInv, EcGarbled \/ EcAcked \/ \E r \in ecOut : EcSend(r) \/ EcForget(r)
  PROVE  /\ Elems(toEc') \subseteq Elems(toEc)
         /\ Elems(toHost') \subseteq Elems(toHost) \union {RetryFrame} \union ecOut
         /\ ecOut' \subseteq ecOut
         /\ UNCHANGED <<hostVars, rcvVars, taken>>
<1> USE DEF ecVars, lineVars
<1>1. CASE EcGarbled
  <2>1. Elems(toEc') \subseteq Elems(toEc)
    BY <1>1, TailEcElems DEF EcGarbled
  <2>2. RetryFrame \in EcFrames
    BY DEF RetryFrame, EcFrames, AnyId
  <2>3. Elems(toHost') \subseteq Elems(toHost) \union {RetryFrame}
    <3>1. CASE toHost' = Append(toHost, RetryFrame)
      BY <2>2, <3>1, AppendHostElems
    <3>2. CASE toHost' = toHost
      BY <3>2
    <3> QED BY <1>1, <3>1, <3>2 DEF EcGarbled
  <2> QED BY <1>1, <2>1, <2>3 DEF EcGarbled
<1>2. CASE EcAcked
  <2>1. Elems(toEc') \subseteq Elems(toEc)
    BY <1>2, TailEcElems DEF EcAcked
  <2> QED BY <1>2, <2>1 DEF EcAcked
<1>3. CASE \E r \in ecOut : EcSend(r)
  <2>1. PICK r \in ecOut : EcSend(r)
    BY <1>3
  <2>2. r \in EcFrames
    BY DEF TypeInv, TypeOK, Responses, EcFrames, AnyId
  <2>3. toHost' = Append(toHost, r)
    BY <2>1 DEF EcSend
  <2>4. Elems(toHost') = Elems(toHost) \union {r}
    BY <2>2, <2>3, AppendHostElems
  <2> QED BY <2>1, <2>4 DEF EcSend
<1>4. CASE \E r \in ecOut : EcForget(r)
  BY <1>4 DEF EcForget
<1> QED BY <1>1, <1>2, <1>3, <1>4

-----------------------------------------------------------------------------
(* ACKs and the requests the EC has received *)

LEMMA InitTaken == Init => TakenInv
  BY ElemsEmpty DEF Init, TakenInv

LEMMA NextTaken == TypeInv /\ FifoInv /\ TakenInv /\ [Next]_vars => TakenInv'
<1> SUFFICES ASSUME TypeInv, FifoInv, TakenInv, [Next]_vars PROVE TakenInv'
  OBVIOUS
<1> USE DEF TakenInv
<1>1. ASSUME NEW i \in Ids, NEW k \in Kinds, Begin(i, k) PROVE TakenInv'
  <2>1. fifo' = <<>> /\ taken' = taken \ {i}
    BY <1>1 DEF Begin, ReceiverRestart, FifoInv
  <2>2. \A f \in Elems(toHost) : f.id # i
    BY <1>1 DEF Begin, Unused
  <2>3. Elems(toHost') \subseteq Elems(toHost) \union {RestFrame}
    BY <1>1, EmptyEvalBufLine DEF Begin, ReceiverRestart, TypeInv
  <2> QED BY <2>1, <2>2, <2>3, ElemsEmpty DEF RestFrame
<1>2. CASE WriteCmd \/ WriteFails \/ GiveUp \/ AckTimeout \/ RspTimeout \/ SendAck
  BY <1>2 DEF WriteCmd, WriteFails, GiveUp, AckTimeout, RspTimeout, SendAck,
     rcvVars, ecVars, lineVars
<1>3. CASE AckCompleted \/ \E b \in BOOLEAN : RspCompleted(b)
  <2>1. TakePacket /\ toHost' = toHost /\ taken' = taken
    BY <1>3 DEF AckCompleted, RspCompleted, ecVars, lineVars
  <2> QED BY <2>1, TakePacketElems
<1>4. CASE Return
  <2>1. Elems(toHost') \subseteq Elems(toHost) \union {RestFrame}
    BY <1>4, EmptyEvalBufLine DEF Return, ReceiverDiscard, TypeInv
  <2> QED BY <1>4, <2>1, ElemsEmpty DEF Return, ReceiverDiscard, ecVars, RestFrame
<1>5. CASE RcvInvalid
  <2>1. Elems(toHost') \subseteq Elems(toHost) \union {RestFrame}
    BY <1>5, InvalidLine DEF TypeInv
  <2> QED BY <1>5, <2>1 DEF RcvInvalid, rcvVars, ecVars, RestFrame
<1>6. CASE RcvCtrl \/ RcvCmd
  <2> DEFINE f == Head(toHost)
  <2>1. /\ f \in Elems(toHost) /\ f \in EcFrames /\ f.type # "rest"
        /\ Elems(toHost') \subseteq Elems(toHost)
        /\ taken' = taken
    BY <1>6, Receive
  <2>2. CASE UNCHANGED rcvVars
    BY <2>1, <2>2 DEF rcvVars
  <2>3. ASSUME NEW state \in {"DISCARD", "CONTROL", "COMMAND"}, Deliver(f, state)
        PROVE  TakenInv'
    <3>1. Elems(fifo') = Elems(fifo) \union {Packet(f)}
          /\ Packet(f).type = f.type /\ Packet(f).id = f.id
      BY <2>1, <2>3, DeliverLast
    <3> QED BY <2>1, <3>1
  <2> QED BY <1>6, <2>2, <2>3, Receive
<1>7. CASE EcTake
  BY <1>7, TakeElems DEF EcTake, rcvVars
<1>8. CASE EcGarbled \/ EcAcked \/ \E r \in ecOut : EcSend(r) \/ EcForget(r)
  <2>1. /\ Elems(toHost') \subseteq Elems(toHost) \union {RetryFrame} \union ecOut
        /\ UNCHANGED <<hostVars, rcvVars, taken>>
    BY <1>8, EcOtherElems
  <2>2. \A f \in {RetryFrame} \union ecOut : f.type # "ack"
    BY DEF RetryFrame, TypeInv, TypeOK, Responses
  <2> QED BY <2>1, <2>2 DEF rcvVars
<1>9. CASE UNCHANGED vars
  BY <1>9 DEF vars, rcvVars, ecVars, lineVars
<1> QED
  BY <1>1, <1>2, <1>3, <1>4, <1>5, <1>6, <1>7, <1>8, <1>9
  DEF Next, Step, Caller, Receiver, Ec

-----------------------------------------------------------------------------
(* Frames, and the request they stem from *)

MatchAll == MatchInv /\ AcceptedIsForRequest

LEMMA InitMatch == Init => MatchAll
  BY ElemsEmpty DEF Init, MatchAll, MatchInv, AcceptedIsForRequest

LEMMA NextMatch ==
  Quiet /\ TypeInv /\ FifoInv /\ MatchAll /\ [Next]_vars => MatchAll'
<1> SUFFICES ASSUME Quiet, TypeInv, FifoInv, MatchAll, [Next]_vars PROVE MatchAll'
  OBVIOUS
<1> USE DEF MatchAll, AcceptedIsForRequest
<1>1. ASSUME NEW i \in Ids, NEW k \in Kinds, Begin(i, k) PROVE MatchAll'
  <2>1. /\ fifo' = <<>>
        /\ rcv'.seq = counter.seq /\ rcv'.rqid = RqstId(counter.rqid)
        /\ UNCHANGED <<toEc, ecOut>>
    BY <1>1 DEF Begin, ReceiverRestart, FifoInv
  <2>2. LineQuiet
    BY <1>1 DEF Begin
  <2>3. Elems(toHost') \subseteq Elems(toHost) \union {RestFrame}
    BY <1>1, EmptyEvalBufLine DEF Begin, ReceiverRestart, TypeInv
  <2> QED BY <2>1, <2>2, <2>3, ElemsEmpty DEF MatchInv, LineQuiet, RestFrame
<1>2. CASE WriteCmd
  <2>1. writer \in CmdFrames /\ writer.id = req.id
    BY <1>2 DEF WriteCmd, TypeInv, CallerInv, InLoop
  <2>2. Elems(toEc') \subseteq Elems(toEc) \union {writer}
    BY <1>2, <2>1, TransmitElems DEF WriteCmd
  <2>3. pc # "idle" /\ UNCHANGED <<req, rcv, fifo, toHost, ecOut>>
    BY <1>2 DEF WriteCmd, rcvVars, ecVars
  <2> QED BY <2>1, <2>2, <2>3 DEF MatchInv
<1>3. CASE WriteFails \/ GiveUp \/ AckTimeout \/ RspTimeout
  <2>1. pc # "idle" /\ UNCHANGED <<req, rcv, fifo, toHost, toEc, ecOut>>
    BY <1>3 DEF WriteFails, GiveUp, AckTimeout, RspTimeout, FailWith,
       rcvVars, ecVars, lineVars
  <2> QED BY <2>1 DEF MatchInv
<1>4. CASE AckCompleted \/ \E b \in BOOLEAN : RspCompleted(b)
  <2>1. TakePacket /\ pc # "idle" /\ UNCHANGED <<req, rcv, toHost, toEc, ecOut>>
    BY <1>4 DEF AckCompleted, RspCompleted, ecVars, lineVars
  <2> QED BY <2>1, TakePacketElems DEF MatchInv
<1>5. CASE SendAck
  <2>1. writer' \in HostAcks /\ writer'.type = "ack"
    BY <1>5 DEF SendAck, HostAcks, TypeInv, TypeOK, Packets
  <2>2. Elems(toEc') \subseteq Elems(toEc) \union {writer'}
    BY <1>5, <2>1, TransmitElems DEF SendAck
  <2>3. pc # "idle" /\ UNCHANGED <<req, rcv, fifo, toHost, ecOut>>
    BY <1>5 DEF SendAck, rcvVars, ecVars
  <2> QED BY <2>1, <2>2, <2>3 DEF MatchInv
<1>6. CASE Return
  BY <1>6, ElemsEmpty DEF Return, ReceiverDiscard, MatchInv
<1>7. CASE RcvInvalid
  <2>1. Elems(toHost') \subseteq Elems(toHost) \union {RestFrame}
    BY <1>7, InvalidLine DEF TypeInv
  <2>2. UNCHANGED <<pc, req, rcv, fifo, toEc, ecOut>>
    BY <1>7 DEF RcvInvalid, hostVars, rcvVars, ecVars
  <2> QED BY <2>1, <2>2 DEF MatchInv, RestFrame
<1>8. CASE RcvCtrl \/ RcvCmd
  <2> DEFINE f == Head(toHost)
  <2>1. /\ f \in Elems(toHost) /\ f \in EcFrames /\ f.type # "rest"
        /\ Elems(toHost') \subseteq Elems(toHost)
        /\ UNCHANGED <<pc, req, toEc, ecOut>>
    BY <1>8, Receive
  <2>2. CASE UNCHANGED rcvVars
    BY <2>1, <2>2 DEF rcvVars, MatchInv
  <2>3. ASSUME NEW state \in {"DISCARD", "CONTROL", "COMMAND"}, Deliver(f, state),
               rcv.state # "DISCARD",
               f.type = "ack" => f.num = rcv.seq,
               f.type = "cmd" => f.num = rcv.rqid
        PROVE  MatchAll'
    <3>1. /\ Elems(fifo') = Elems(fifo) \union {Packet(f)}
          /\ Packet(f).type = f.type /\ Packet(f).id = f.id
          /\ rcv'.seq = rcv.seq /\ rcv'.rqid = rcv.rqid
      BY <2>1, <2>3, DeliverLast
    <3>2. pc # "idle"
      BY <2>3 DEF FifoInv
    <3>3. f.type \in {"ack", "cmd"} => f.id = req.id
      BY <2>1, <2>3, <3>2 DEF MatchInv
    <3> QED BY <2>1, <3>1, <3>2, <3>3 DEF MatchInv
  <2> QED BY <1>8, <2>1, <2>2, <2>3, Receive
<1>9. CASE EcTake
  <2>1. UNCHANGED <<pc, req, rcv, fifo>>
    BY <1>9 DEF EcTake, hostVars, rcvVars
  <2> QED BY <1>9, <2>1, TakeElems DEF MatchInv
<1>10. CASE EcGarbled \/ EcAcked \/ \E r \in ecOut : EcSend(r) \/ EcForget(r)
  <2>1. /\ Elems(toEc') \subseteq Elems(toEc)
        /\ Elems(toHost') \subseteq Elems(toHost) \union {RetryFrame} \union ecOut
        /\ ecOut' \subseteq ecOut
        /\ UNCHANGED <<hostVars, rcvVars, taken>>
    BY <1>10, EcOtherElems
  <2>2. RetryFrame.type = "retry" /\ \A r \in ecOut : r.type = "cmd"
    BY DEF RetryFrame, TypeInv, TypeOK, Responses
  <2> QED BY <2>1, <2>2 DEF hostVars, rcvVars, MatchInv
<1>11. CASE UNCHANGED vars
  BY <1>11 DEF vars, hostVars, rcvVars, ecVars, lineVars, MatchInv
<1> QED
  BY <1>1, <1>2, <1>3, <1>4, <1>5, <1>6, <1>7, <1>8, <1>9, <1>10, <1>11
  DEF Next, Step, Caller, Receiver, Ec

-----------------------------------------------------------------------------
(* The outcome *)

LEMMA InitOutcome == Init => OutcomeInv
  BY DEF Init, OutcomeInv

LEMMA NextOutcome ==
  TypeInv /\ FifoInv /\ TakenInv /\ MatchAll /\ OutcomeInv /\ [Next]_vars => OutcomeInv'
<1> SUFFICES ASSUME TypeInv, FifoInv, TakenInv, MatchAll, OutcomeInv, [Next]_vars
             PROVE  OutcomeInv'
  OBVIOUS
<1> USE DEF OutcomeInv
<1>1. ASSUME NEW i \in Ids, NEW k \in Kinds, Begin(i, k) PROVE OutcomeInv'
  BY <1>1 DEF Begin
<1>2. CASE WriteCmd \/ AckTimeout \/ Return
  BY <1>2 DEF WriteCmd, AckTimeout, Return
<1>3. CASE WriteFails \/ GiveUp \/ RspTimeout
  BY <1>3 DEF WriteFails, GiveUp, RspTimeout, FailWith
<1>4. CASE AckCompleted
  <2>1. pc = "wait" /\ done > 0 /\ done = Len(fifo) /\ TakePacket
        /\ UNCHANGED <<req, status, taken>>
    BY <1>4 DEF AckCompleted, FifoInv, ecVars
  <2>2. packet' \in Elems(fifo)
    BY <2>1, TakeFirst
  <2>3. CASE packet'.type = "ack"
    <3>1. packet'.id = req.id /\ req.id \in taken
      BY <2>2, <2>3 DEF MatchAll, AcceptedIsForRequest, TakenInv
    <3>2. pc' = IF req.kind = "read" THEN "rsp" ELSE "out"
      BY <1>4, <2>3 DEF AckCompleted
    <3> QED BY <2>1, <3>1, <3>2
  <2>4. CASE packet'.type # "ack"
    BY <1>4, <2>4 DEF AckCompleted
  <2> QED BY <2>3, <2>4
<1>5. ASSUME NEW fits \in BOOLEAN, RspCompleted(fits) PROVE OutcomeInv'
  <2>1. pc = "rsp" /\ done > 0 /\ done = Len(fifo) /\ TakePacket
        /\ UNCHANGED <<req, taken>>
    BY <1>5 DEF RspCompleted, FifoInv, ecVars
  <2>2. packet' \in Elems(fifo)
    BY <2>1, TakeFirst
  <2>3. packet'.id = req.id
    BY <2>1, <2>2 DEF FifoInv, MatchAll, AcceptedIsForRequest
  <2> QED BY <1>5, <2>1, <2>3 DEF RspCompleted, FailWith
<1>6. CASE SendAck
  BY <1>6 DEF SendAck, FailWith, ecVars
<1>7. CASE RcvInvalid
  BY <1>7 DEF RcvInvalid, hostVars, ecVars
<1>8. CASE RcvCtrl \/ RcvCmd
  BY <1>8, Receive
<1>9. CASE EcTake
  BY <1>9 DEF EcTake, hostVars
<1>10. CASE EcGarbled \/ EcAcked \/ \E r \in ecOut : EcSend(r) \/ EcForget(r)
  BY <1>10, EcOtherElems DEF hostVars
<1>11. CASE UNCHANGED vars
  BY <1>11 DEF vars, hostVars, ecVars
<1> QED
  BY <1>1, <1>2, <1>3, <1>4, <1>5, <1>6, <1>7, <1>8, <1>9, <1>10, <1>11
  DEF Next, Step, Caller, Receiver, Ec

-----------------------------------------------------------------------------
(* Identifiers again: what a response is awaited under *)

\* No response is awaited under the id of an event.
THEOREM NoEventCorrect == Spec => []ResponseIsNoEvent
<1>1. Init => ResponseIsNoEvent
  BY DEF Init, ResponseIsNoEvent, RqidIsEvent
<1>2. TypeOK /\ ResponseIsNoEvent /\ [Next]_vars => ResponseIsNoEvent'
  <2> SUFFICES ASSUME TypeOK, ResponseIsNoEvent, [Next]_vars PROVE ResponseIsNoEvent'
    OBVIOUS
  <2>1. ASSUME NEW i \in Ids, NEW k \in Kinds, Begin(i, k) PROVE ResponseIsNoEvent'
    <3>1. rcv'.rqid = RqstId(counter.rqid)
      BY <2>1 DEF Begin, ReceiverRestart
    <3>2. counter.rqid \in Nat
      BY CounterModPositive DEF TypeOK
    <3>3. ~RqidIsEvent(RqstId(counter.rqid))
      BY <3>2, RqstIdIsNoEvent
    <3> QED BY <3>1, <3>3 DEF ResponseIsNoEvent
  <2>2. ASSUME rcv'.rqid = rcv.rqid PROVE ResponseIsNoEvent'
    BY <2>2 DEF ResponseIsNoEvent, RqidIsEvent
  <2>3. CASE Caller
    <3>1. CASE Return
      BY <3>1, <2>2 DEF Return, ReceiverDiscard, TypeOK
    <3>2. CASE ~Return
      BY <2>3, <2>2, <3>2
      DEF Caller, WriteCmd, WriteFails, GiveUp, AckCompleted, AckTimeout,
          RspCompleted, RspTimeout, SendAck, rcvVars
    <3> QED BY <3>1, <3>2
  <2>4. CASE Receiver
    BY <2>4, <2>2 DEF Receiver, RcvInvalid, RcvCtrl, RcvCmd, Deliver, rcvVars, TypeOK
  <2>5. CASE Ec \/ UNCHANGED vars
    BY <2>5, <2>2
    DEF Ec, EcTake, EcGarbled, EcAcked, EcSend, EcForget, vars, rcvVars
  <2> QED BY <2>1, <2>3, <2>4, <2>5 DEF Next, Step
<1> QED BY <1>1, <1>2, TypeCorrect, PTL DEF Spec

-----------------------------------------------------------------------------
(* What the caller is going to return *)

LEMMA InitReturn == Init => ReturnInv
  BY DEF Init, ReturnInv

LEMMA NextReturn == TypeInv /\ ReturnInv /\ [Next]_vars => ReturnInv'
<1> SUFFICES ASSUME TypeInv, ReturnInv, [Next]_vars PROVE ReturnInv'
  OBVIOUS
<1> USE DEF ReturnInv
<1>1. ASSUME NEW i \in Ids, NEW k \in Kinds, Begin(i, k) PROVE ReturnInv'
  BY <1>1 DEF Begin
<1>2. CASE WriteCmd \/ AckTimeout \/ WriteFails \/ GiveUp \/ RspTimeout
  BY <1>2 DEF WriteCmd, AckTimeout, WriteFails, GiveUp, RspTimeout, FailWith
<1>3. CASE AckCompleted
  BY <1>3 DEF AckCompleted
<1>4. ASSUME NEW fits \in BOOLEAN, RspCompleted(fits) PROVE ReturnInv'
  BY <1>4 DEF RspCompleted, FailWith, TypeInv, CallerInv
<1>5. CASE SendAck
  BY <1>5 DEF SendAck, FailWith, TypeInv, CallerInv
<1>6. CASE Return
  BY <1>6 DEF Return
<1>7. CASE Receiver \/ Ec \/ UNCHANGED vars
  BY <1>7
  DEF Receiver, RcvInvalid, RcvCtrl, RcvCmd, Ec, EcTake, EcGarbled, EcAcked, EcSend,
      EcForget, vars, hostVars
<1> QED
  BY <1>1, <1>2, <1>3, <1>4, <1>5, <1>6, <1>7 DEF Next, Step, Caller

-----------------------------------------------------------------------------
\* The inductive invariant holds.
THEOREM InvariantCorrect == Spec => []IInv
<1>1. IInv <=> /\ TypeInv /\ ReturnInv /\ FifoInv /\ TakenInv
               /\ Quiet => MatchAll /\ OutcomeInv
  BY DEF IInv, TypeInv, MatchAll
<1>2. Init => IInv
  BY <1>1, InitType, InitReturn, InitFifo, InitTaken, InitMatch, InitOutcome
<1>3. IInv /\ [Next]_vars => IInv'
  <2> SUFFICES ASSUME IInv, [Next]_vars PROVE IInv'
    OBVIOUS
  <2>1. TypeInv' /\ ReturnInv' /\ FifoInv' /\ TakenInv'
    BY <1>1, NextType, NextReturn, NextFifo, NextTaken
  <2>2. Quiet => MatchAll' /\ OutcomeInv'
    BY <1>1, NextMatch, NextOutcome
  <2> QED BY <2>1, <2>2 DEF IInv, TypeInv, MatchAll
<1> QED BY <1>2, <1>3, PTL DEF Spec

\* If no frame of an earlier request is around when its ids are used again,
\* the receiver accepts only frames of the request in progress ...
THEOREM AcceptedCorrect == ASSUME Quiet PROVE Spec => []AcceptedIsForRequest
<1>1. IInv => AcceptedIsForRequest
  BY DEF IInv
<1> QED BY <1>1, InvariantCorrect, PTL

\* ... and a request that returns 0 was received by the EC, and its data is
\* the response to it.
THEOREM OutcomeCorrect == ASSUME Quiet PROVE Spec => []OutcomeTruthful
<1>1. IInv => OutcomeTruthful
  BY DEF IInv, OutcomeInv, OutcomeTruthful
<1> QED BY <1>1, InvariantCorrect, PTL
=============================================================================
