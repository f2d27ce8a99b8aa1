----------------------------- MODULE SshRequest -----------------------------
(***************************************************************************)
(* One request over the serial line: surface_sam_ssh_rqst_unlocked with    *)
(* the receive callback that runs concurrently with it, and the embedded   *)
(* controller (EC) at the other end of the line.                           *)
(*                                                                         *)
(* The caller holds ec->lock, so there is one request at a time.  The      *)
(* receive callback and the caller share the receiver (its state, what it  *)
(* expects, the completion and the fifo) under receiver.lock: each of      *)
(* their critical sections is one action.  A frame carries the identity of *)
(* the request it stems from, which the code cannot see: it is what the    *)
(* properties compare.                                                     *)
(*                                                                         *)
(* A frame that the line garbles is dropped when it gets to the head of    *)
(* its direction: that stands for every path on which a receiver discards  *)
(* bytes, for one message or for several.  A request empties the eval      *)
(* buffer when it begins and when it ends; the rest of a frame that was    *)
(* half received then is no start of a message, and the host discards it   *)
(* with whatever has come behind it, on a line that loses nothing as well. *)
(***************************************************************************)
EXTENDS Integers, Sequences, FiniteSets

CONSTANTS
    Ids,        \* identities of requests, recycled when no frame carries them
    NoRqst,     \* no request
    NumRetry,   \* SSH_NUM_RETRY
    SeqMod,     \* 2^8: values of ssh_counters.seq
    EventMod,   \* 2^SURFACE_SAM_SSH_RQID_EVENT_BITS
    RqstMod,    \* 2^(16 - SURFACE_SAM_SSH_RQID_EVENT_BITS)
    FifoCap,    \* room of receiver.fifo, in control packets
    RspLen,     \* room a response takes in it
    WireCap,    \* bound: frames on the line in one direction
    Quiet       \* no frame of an earlier request is around when its ids are used again

ASSUME RequestAssumption ==
    /\ NoRqst \notin Ids
    /\ NumRetry \in Nat \ {0}
    /\ SeqMod \in Nat \ {0}
    /\ EventMod \in Nat \ {0}
    /\ RqstMod \in Nat \ {0}
    /\ FifoCap \in Nat
    /\ RspLen \in Nat \ {0}
    /\ WireCap \in Nat \ {0}
    /\ Quiet \in BOOLEAN

VARIABLES
    pc,         \* where the caller is in surface_sam_ssh_rqst_unlocked
    try,        \* its loop counter
    req,        \* its request: identity and kind
    packet,     \* its local struct ssh_fifo_packet
    result,     \* whose response was copied to the caller's buffer
    status,     \* its status
    counter,    \* ssh_counters
    writer,     \* the frame in the write buffer
    rcv,        \* receiver.state and receiver.expect
    done,       \* receiver.signal: completions not yet consumed
    fifo,       \* receiver.fifo, as packets
    lossy,      \* frames get lost or garbled, writes fail, answers come late
    toEc,       \* frames on the line to the EC
    toHost,     \* frames on the line to the host
    ecOut,      \* responses the EC repeats until they are acknowledged
    taken       \* requests the EC has received, until their identity is reused

hostVars == <<pc, try, req, packet, result, status, counter, writer>>
rcvVars  == <<rcv, done, fifo>>
ecVars   == <<ecOut, taken>>
lineVars == <<toEc, toHost>>
vars     == <<hostVars, rcvVars, ecVars, lossy, lineVars>>

-----------------------------------------------------------------------------
(* Frames, packets and identifiers *)

AnyId == Ids \union {NoRqst}

\* !rqst->snc; rqst->snc with a result buffer; rqst->snc without one.
Kinds == {"plain", "read", "unread"}

CounterMod == EventMod * RqstMod

\* Bugs: the 16 bits are forgotten, or the shift is.
RqstIdWide(c)      == c * EventMod
RqstIdUnshifted(c) == c

\* sam_rqid_to_rqst: a shift to the left in 16 bits.
RqstId(c) == (c * EventMod) % CounterMod

\* sam_rqid_is_event
RqidIsEvent(r) == r # 0 /\ r < EventMod

\* Frames of the host: a command, or the ACK of a response.
CmdFrames == [type : {"cmd"}, seq : 0..SeqMod-1, rqid : 0..CounterMod-1,
              id : Ids, snc : BOOLEAN]
HostAcks  == [type : {"ack"}, id : AnyId]

\* Frames of the EC: num is the SEQ of an ACK and the RQID of a response.
EcFrames  == [type : {"ack", "retry", "cmd", "rest"}, num : Nat, id : AnyId]
Responses == [type : {"cmd"}, num : Nat, id : Ids]

NoFrame   == [type |-> "none"]

Packets   == [type : {"none", "ack", "retry", "cmd"}, id : AnyId]

NoRequest == [id |-> NoRqst, kind |-> "plain"]

NoPacket  == [type |-> "none", id |-> NoRqst]

Packet(f) == [type |-> f.type, id |-> f.id]

RetryFrame == [type |-> "retry", num |-> 0, id |-> NoRqst]

\* What is still to come of a frame whose beginning is gone.
RestFrame == [type |-> "rest", num |-> 0, id |-> NoRqst]

Elems(s) == {s[i] : i \in DOMAIN s}

PacketSize(p) == IF p.type = "cmd" THEN RspLen ELSE 1

\* Bytes in use, in control packets.  A fifo holds at most one response.
FifoUsed == Len(fifo)
            + (RspLen - 1) * Cardinality({i \in DOMAIN fifo : fifo[i].type = "cmd"})

FifoHasRoom(p) == FifoUsed + PacketSize(p) <= FifoCap

-----------------------------------------------------------------------------
Init ==
    /\ pc = "idle"
    /\ try = 0
    /\ req = NoRequest
    /\ packet = NoPacket
    /\ result = NoRqst
    /\ status = "ok"
    /\ counter = [seq |-> 0, rqid |-> 0]
    /\ writer = NoFrame
    /\ rcv = [state |-> "DISCARD", pld |-> FALSE, seq |-> 0, rqid |-> 0]
    /\ done = 0
    /\ fifo = <<>>
    /\ lossy \in BOOLEAN
    /\ toEc = <<>>
    /\ toHost = <<>>
    /\ ecOut = {}
    /\ taken = {}

-----------------------------------------------------------------------------
(* The caller *)

CmdFrame(i, k) == [type |-> "cmd", seq |-> counter.seq,
                   rqid |-> RqstId(counter.rqid), id |-> i, snc |-> k # "plain"]

\* No frame carries the identity, so it can stand for a new request.
Unused(i) == \A f \in Elems(toEc) \union Elems(toHost) \union ecOut : f.id # i

\* No frame could be taken for one of the request that is about to start.
LineQuiet ==
    /\ \A f \in Elems(toEc) : f.type = "cmd" =>
            f.seq # counter.seq /\ f.rqid # RqstId(counter.rqid)
    /\ \A f \in Elems(toHost) :
            /\ f.type = "ack" => f.num # counter.seq
            /\ f.type = "cmd" => f.num # RqstId(counter.rqid)
    /\ \A r \in ecOut : r.num # RqstId(counter.rqid)

\* What the line may be when the eval buffer, which is a part of it, has been
\* emptied: the buffer may have held the beginning of a frame, of the first one
\* on the line or of an event in front of it.
WithoutBeginning(line) ==
    {line} \union
    (IF line = <<>> THEN {<<RestFrame>>}
     ELSE IF Head(line) = RestFrame THEN {}
     ELSE {<<RestFrame>> \o line, <<RestFrame>> \o Tail(line)})

EmptyEvalBuf == toHost' \in WithoutBeginning(toHost)

\* Bug: the completion is not reinitialised.
RestartKeepsSignal(k) ==
    /\ rcv' = [state |-> "CONTROL", pld |-> k # "plain",
               seq |-> counter.seq, rqid |-> RqstId(counter.rqid)]
    /\ EmptyEvalBuf
    /\ UNCHANGED <<done, fifo>>

\* ssh_receiver_restart
ReceiverRestart(k) ==
    /\ done' = 0
    /\ rcv' = [state |-> "CONTROL", pld |-> k # "plain",
               seq |-> counter.seq, rqid |-> RqstId(counter.rqid)]
    /\ EmptyEvalBuf
    /\ UNCHANGED fifo

\* Bug: the fifo is not reset.
DiscardKeepsFifo ==
    /\ rcv' = [rcv EXCEPT !.state = "DISCARD"]
    /\ EmptyEvalBuf
    /\ UNCHANGED <<fifo, done>>

\* ssh_receiver_discard
ReceiverDiscard ==
    /\ rcv' = [rcv EXCEPT !.state = "DISCARD"]
    /\ EmptyEvalBuf
    /\ fifo' = <<>>
    /\ UNCHANGED done

\* From the entry to the retry loop.  A payload that is too large is refused
\* before anything is touched: no step.
Begin(i, k) ==
    /\ pc = "idle"
    /\ Unused(i)
    /\ Quiet => LineQuiet
    /\ pc' = "send"
    /\ try' = 0
    /\ req' = [id |-> i, kind |-> k]
    /\ packet' = NoPacket
    /\ result' = NoRqst
    /\ status' = "ok"
    /\ writer' = CmdFrame(i, k)
    /\ ReceiverRestart(k)
    /\ taken' = taken \ {i}
    /\ UNCHANGED <<counter, ecOut, toEc>>

\* The line to the EC takes a frame; beyond WireCap the frame is lost.
Transmit(f) == toEc' = IF Len(toEc) < WireCap THEN Append(toEc, f) ELSE toEc

\* ssh_writer_flush at the head of the retry loop.
WriteCmd ==
    /\ pc = "send"
    /\ try < NumRetry
    /\ Transmit(writer)
    /\ pc' = "wait"
    /\ UNCHANGED <<try, req, packet, result, status, counter, writer,
                   rcvVars, ecVars, toHost>>

FailWith(s) ==
    /\ pc' = "out"
    /\ status' = s

WriteFails ==
    /\ pc = "send"
    /\ try < NumRetry
    /\ lossy
    /\ FailWith("write")
    /\ UNCHANGED <<try, req, packet, result, counter, writer,
                   rcvVars, ecVars, lineVars>>

GiveUp ==
    /\ pc = "send"
    /\ try >= NumRetry
    /\ FailWith("eio")
    /\ UNCHANGED <<try, req, packet, result, counter, writer,
                   rcvVars, ecVars, lineVars>>

\* kfifo_out copies what there is: nothing, when the fifo is empty.
TakePacket ==
    /\ packet' = IF fifo = <<>> THEN packet ELSE Head(fifo)
    /\ fifo' = IF fifo = <<>> THEN fifo ELSE Tail(fifo)

\* The wait for an ACK ends with a completion.
AckCompleted ==
    /\ pc = "wait"
    /\ done > 0
    /\ done' = done - 1
    /\ TakePacket
    /\ IF packet'.type = "ack"
       THEN /\ counter' = [seq  |-> (counter.seq + 1) % SeqMod,
                           rqid |-> (counter.rqid + 1) % CounterMod]
            /\ pc' = IF req.kind = "read" THEN "rsp" ELSE "out"
            /\ UNCHANGED try
       ELSE /\ try' = try + 1
            /\ pc' = "send"
            /\ UNCHANGED counter
    /\ UNCHANGED <<req, result, status, writer, rcv, ecVars, lineVars>>

\* The ACK the receiver expects is on the line.
AckUnderway == \E f \in Elems(toHost) : f.type = "ack" /\ f.num = rcv.seq

\* What is waited for is still to come; a timeout then means that it is late.
AckPending == AckUnderway \/ \E f \in Elems(toEc) : f.type = "cmd" /\ f.id = req.id

RspPending ==
    \/ \E r \in ecOut : r.id = req.id
    \/ \E f \in Elems(toHost) : f.type = "cmd" /\ f.num = rcv.rqid

\* Bug: the tries are not counted.
AckTimeoutForever ==
    /\ pc = "wait"
    /\ done = 0
    /\ lossy \/ ~AckPending
    /\ pc' = "send"
    /\ UNCHANGED <<try, req, packet, result, status, counter, writer,
                   rcvVars, ecVars, lineVars>>

\* The wait for an ACK times out.
AckTimeout ==
    /\ pc = "wait"
    /\ done = 0
    /\ lossy \/ ~AckPending
    /\ try' = try + 1
    /\ pc' = "send"
    /\ UNCHANGED <<req, packet, result, status, counter, writer,
                   rcvVars, ecVars, lineVars>>

\* The wait for the response ends with a completion; a response that is
\* larger than the caller's buffer stays in the fifo.
RspCompleted(fits) ==
    /\ pc = "rsp"
    /\ done > 0
    /\ done' = done - 1
    /\ TakePacket
    /\ IF fits
       THEN /\ result' = packet'.id
            /\ pc' = "ack"
            /\ UNCHANGED status
       ELSE /\ FailWith("einval")
            /\ UNCHANGED result
    /\ UNCHANGED <<try, req, counter, writer, rcv, ecVars, lineVars>>

RspTimeout ==
    /\ pc = "rsp"
    /\ done = 0
    /\ lossy \/ ~RspPending
    /\ FailWith("eio")
    /\ UNCHANGED <<try, req, packet, result, counter, writer,
                   rcvVars, ecVars, lineVars>>

\* The response is acknowledged with its own SEQ.
SendAck ==
    /\ pc = "ack"
    /\ writer' = [type |-> "ack", id |-> packet.id]
    /\ \/ /\ Transmit(writer')
          /\ pc' = "out"
          /\ UNCHANGED status
       \/ /\ lossy
          /\ FailWith("write")
          /\ UNCHANGED toEc
    /\ UNCHANGED <<try, req, packet, result, counter,
                   rcvVars, ecVars, toHost>>

\* The label out: the receiver is told to discard and the locals are gone.
Return ==
    /\ pc = "out"
    /\ pc' = "idle"
    /\ ReceiverDiscard
    /\ try' = 0
    /\ req' = NoRequest
    /\ packet' = NoPacket
    /\ result' = NoRqst
    /\ status' = "ok"
    /\ UNCHANGED <<counter, writer, ecVars, toEc>>

-----------------------------------------------------------------------------
(* The receive callback: one frame at the head of the line *)

TakeFrame == toHost' = Tail(toHost)

\* A damaged frame, or the rest of one: what has come with it is discarded as
\* well, which may be whole frames and the beginning of another.
RcvInvalid ==
    /\ toHost # <<>>
    /\ lossy \/ Head(toHost) = RestFrame
    /\ \E n \in 1..Len(toHost) :
            toHost' \in WithoutBeginning(SubSeq(toHost, n + 1, Len(toHost)))
    /\ UNCHANGED <<hostVars, rcvVars, ecVars, toEc>>

Deliver(f, state) ==
    /\ fifo' = Append(fifo, Packet(f))
    /\ done' = done + 1
    /\ rcv' = [rcv EXCEPT !.state = state]

\* Bugs: one of the two checks is missing.
CtrlInAnyState(f) == f.type = "ack" => f.num = rcv.seq
CtrlOfAnySeq(f)   == rcv.state = "CONTROL"

CtrlExpected(f) ==
    /\ rcv.state = "CONTROL"
    /\ f.type = "ack" => f.num = rcv.seq

\* ssh_receive_msg_ctrl on a valid frame
RcvCtrl ==
    /\ toHost # <<>>
    /\ Head(toHost).type \in {"ack", "retry"}
    /\ TakeFrame
    /\ LET f == Head(toHost) IN
       IF CtrlExpected(f) /\ FifoHasRoom(Packet(f))
       THEN Deliver(f, IF f.type = "retry" THEN "CONTROL"
                       ELSE IF rcv.pld THEN "COMMAND" ELSE "DISCARD")
       ELSE UNCHANGED rcvVars
    /\ UNCHANGED <<hostVars, ecVars, toEc>>

\* Bug: the request id is not checked.
CmdOfAnyRqid(f) == ~RqidIsEvent(f.num) /\ rcv.state = "COMMAND"

CmdExpected(f) ==
    /\ ~RqidIsEvent(f.num)
    /\ rcv.state = "COMMAND"
    /\ f.num = rcv.rqid

\* ssh_receive_msg_cmd on a valid frame.  Events are not on this line.
RcvCmd ==
    /\ toHost # <<>>
    /\ Head(toHost).type = "cmd"
    /\ TakeFrame
    /\ LET f == Head(toHost) IN
       IF CmdExpected(f) /\ FifoHasRoom(Packet(f))
       THEN Deliver(f, "DISCARD")
       ELSE UNCHANGED rcvVars
    /\ UNCHANGED <<hostVars, ecVars, toEc>>

-----------------------------------------------------------------------------
(* The EC, as src/ relies on it *)

Room == Len(toHost) < WireCap

\* It acknowledges every command it receives, and owes a response if asked.
EcTake ==
    /\ toEc # <<>>
    /\ Head(toEc).type = "cmd"
    /\ Room
    /\ toEc' = Tail(toEc)
    /\ LET c == Head(toEc) IN
       /\ toHost' = Append(toHost, [type |-> "ack", num |-> c.seq, id |-> c.id])
       /\ taken' = taken \union {c.id}
       /\ ecOut' = IF c.snc
                   THEN ecOut \union {[type |-> "cmd", num |-> c.rqid, id |-> c.id]}
                   ELSE ecOut
    /\ UNCHANGED <<hostVars, rcvVars>>

\* A garbled frame is lost or answered with RETRY.
EcGarbled ==
    /\ lossy
    /\ toEc # <<>>
    /\ toEc' = Tail(toEc)
    /\ \/ UNCHANGED toHost
       \/ Room /\ toHost' = Append(toHost, RetryFrame)
    /\ UNCHANGED <<hostVars, rcvVars, ecVars>>

EcAcked ==
    /\ toEc # <<>>
    /\ Head(toEc).type = "ack"
    /\ toEc' = Tail(toEc)
    /\ ecOut' = {r \in ecOut : r.id # Head(toEc).id}
    /\ UNCHANGED <<hostVars, rcvVars, taken, toHost>>

EcSend(r) ==
    /\ Room
    /\ toHost' = Append(toHost, r)
    /\ UNCHANGED <<hostVars, rcvVars, ecVars, toEc>>

\* It gives up on a response that is not acknowledged.
EcForget(r) ==
    /\ lossy \/ pc = "idle" \/ r.id # req.id \/ req.kind # "read"
    /\ ecOut' = ecOut \ {r}
    /\ UNCHANGED <<hostVars, rcvVars, taken, lineVars>>

-----------------------------------------------------------------------------
Caller ==
    \/ WriteCmd \/ WriteFails \/ GiveUp
    \/ AckCompleted \/ AckTimeout
    \/ \E fits \in BOOLEAN : RspCompleted(fits)
    \/ RspTimeout \/ SendAck \/ Return

Receiver == RcvInvalid \/ RcvCtrl \/ RcvCmd

Ec ==
    \/ EcTake \/ EcGarbled \/ EcAcked
    \/ \E r \in ecOut : EcSend(r) \/ EcForget(r)

Step ==
    \/ \E i \in Ids, k \in Kinds : Begin(i, k)
    \/ Caller
    \/ Receiver
    \/ Ec

\* The line is what it is.
Next == Step /\ UNCHANGED lossy

Spec == Init /\ [][Next]_vars

-----------------------------------------------------------------------------
(* Properties *)

TypeOK ==
    /\ pc \in {"idle", "send", "wait", "rsp", "ack", "out"}
    /\ try \in 0..NumRetry
    /\ req \in [id : AnyId, kind : Kinds]
    /\ packet \in Packets
    /\ result \in AnyId
    /\ status \in {"ok", "write", "eio", "einval"}
    /\ counter \in [seq : 0..SeqMod-1, rqid : 0..CounterMod-1]
    /\ writer \in CmdFrames \union HostAcks \union {NoFrame}
    /\ rcv \in [state : {"DISCARD", "CONTROL", "COMMAND"}, pld : BOOLEAN,
                seq : 0..SeqMod-1, rqid : 0..CounterMod-1]
    /\ done \in Nat
    /\ fifo \in Seq(Packets)
    /\ lossy \in BOOLEAN
    /\ toEc \in Seq(CmdFrames \union HostAcks)
    /\ toHost \in Seq(EcFrames)
    /\ ecOut \subseteq Responses
    /\ taken \subseteq Ids

\* "completion assures valid packet": the caller ignores the length kfifo_out
\* returns, so every completion it can consume must have a packet in the fifo.
CompletionAssuresPacket ==
    pc \in {"wait", "rsp"} => done <= Len(fifo)

\* The response stage does not look at packet.type: what it consumes must be
\* a response, never a RETRY or an ACK left over from the retry loop.
RspStageReadsResponse ==
    pc = "rsp" /\ done > 0 => fifo # <<>> /\ Head(fifo).type = "cmd"

\* ssh_receiver_restart does not empty the fifo: no frame may have got into it
\* since the last ssh_receiver_discard, or the next request would read it.
FifoEmptyBetweenRequests ==
    pc = "idle" => fifo = <<>> /\ rcv.state = "DISCARD"

\* "check if it is for our request": an ACK or a response that the receiver
\* hands to the caller stems from the caller's request.
AcceptedIsForRequest ==
    \A p \in Elems(fifo) : p.type \in {"ack", "cmd"} => p.id = req.id

\* The status 0 means that the EC has received this very request, and the
\* data handed to the caller is the response to it.
OutcomeTruthful ==
    pc = "out" /\ status = "ok" =>
        /\ req.id \in taken
        /\ req.kind = "read" => result = req.id

\* The id a response is awaited under is never one of an event: it would go
\* to the event handlers and the request would time out.
ResponseIsNoEvent == ~RqidIsEvent(rcv.rqid)

-----------------------------------------------------------------------------
(* The inductive invariant *)

InLoop == pc \in {"send", "wait"}

\* What the variables of the caller hold where it uses them.
CallerInv ==
    /\ pc = "wait" => try < NumRetry
    /\ InLoop => writer \in CmdFrames /\ writer.id = req.id
    /\ pc \in {"rsp", "ack"} => req.kind = "read"
    /\ pc # "idle" => req.id \in Ids

\* One completion for each packet in the fifo, and the packets in the order
\* RETRY ... RETRY ACK response, as far as the receiver's state has got.
FifoInv ==
    /\ pc \in {"send", "wait", "rsp"} => done = Len(fifo)
    /\ pc = "idle" => fifo = <<>> /\ rcv.state = "DISCARD"
    /\ InLoop =>
        /\ \A j \in DOMAIN fifo : \A i \in 1..(j-1) :
                fifo[i].type # "retry" => fifo[j].type = "cmd"
        /\ rcv.state = "CONTROL" => \A p \in Elems(fifo) : p.type = "retry"
        /\ rcv.state = "COMMAND" => \A p \in Elems(fifo) : p.type # "cmd"
    /\ pc = "rsp" =>
        /\ rcv.state # "CONTROL"
        /\ \A p \in Elems(fifo) : p.type = "cmd"

\* An ACK is of a request the EC has received.
TakenInv ==
    /\ \A f \in Elems(toHost) : f.type = "ack" => f.id \in taken
    /\ \A p \in Elems(fifo) : p.type = "ack" => p.id \in taken

\* What the receiver would accept stems from the request in progress.
MatchInv ==
    pc # "idle" =>
        /\ \A f \in Elems(toEc) :
                f.type = "cmd" /\ (f.seq = rcv.seq \/ f.rqid = rcv.rqid) => f.id = req.id
        /\ \A f \in Elems(toHost) :
                /\ f.type = "ack" /\ f.num = rcv.seq => f.id = req.id
                /\ f.type = "cmd" /\ f.num = rcv.rqid => f.id = req.id
        /\ \A r \in ecOut : r.num = rcv.rqid => r.id = req.id

OutcomeInv ==
    /\ pc \in {"rsp", "ack"} \/ (pc = "out" /\ status = "ok") => req.id \in taken
    /\ pc = "ack" \/ (pc = "out" /\ status = "ok" /\ req.kind = "read") =>
            result = req.id

\* What the caller is going to return, before it knows.
ReturnInv ==
    /\ pc # "out" => status = "ok"
    /\ pc \notin {"ack", "out"} \/ req.kind # "read" => result = NoRqst

IInv ==
    /\ TypeOK
    /\ CallerInv
    /\ ReturnInv
    /\ FifoInv
    /\ TakenInv
    /\ Quiet => MatchInv /\ AcceptedIsForRequest /\ OutcomeInv

-----------------------------------------------------------------------------
(* What a caller is promised, without the line *)

\* The command of the call in progress, and whether it asks for an answer.
CurrentCmd == IF pc = "idle" THEN NoRqst ELSE req.id

CurrentReads == pc # "idle" /\ req.kind = "read"

\* Commands of which a copy is on the line, or may yet be written.
CopiesOnLine == {f.id : f \in {g \in Elems(toEc) : g.type = "cmd"}}

OpenCmds == CopiesOnLine \union (IF pc = "idle" THEN {} ELSE {req.id})

CallSucceeds == pc = "out" /\ status = "ok"

CallOutcome == [ok   |-> CallSucceeds,
                data |-> IF CallSucceeds THEN result ELSE NoRqst,
                set  |-> pc = "out"]

Cmd == INSTANCE SamCommand WITH
    cur      <- CurrentCmd,
    reads    <- CurrentReads,
    open     <- OpenCmds,
    executed <- taken,
    outcome  <- CallOutcome

\* The requests over the line are calls as SamCommand promises them.
ImplementsCommand == Cmd!CmdSpec

\* Every call ends and returns, whatever the line and the EC do: a line that may
\* lose frames, and answers late, does anything that one which must not does.
CallsEnd == lossy => Cmd!CmdFairness
=============================================================================
