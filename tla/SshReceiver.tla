----------------------------- MODULE SshReceiver -----------------------------
(***************************************************************************)
(* The reassembly of messages in ssh_receive_buf: bytes arrive in chunks   *)
(* that respect no boundary, are collected in the eval buffer and taken    *)
(* out of it message by message.  A byte is its position in the stream the *)
(* EC sends, so the eval buffer, which is filled at one end and emptied at *)
(* the other, is an interval of positions.  What a message is worth once   *)
(* it is recognised is the subject of SshRequest and SshEvents.            *)
(*                                                                         *)
(* Bytes in the middle of a message are assumed not to look like SYNC.     *)
(***************************************************************************)
EXTENDS Integers, Sequences

CONSTANTS
    NumMsgs,    \* bound: messages in the stream
    CmdLens,    \* values of ctrl->len: command frame and payload
    Defects,    \* what the line, or a lack of room, may do to a message
    Cap,        \* SSH_EVAL_BUF_LEN
    Chunks,     \* sizes of the chunks the tty layer passes on
    MaxResets   \* bound: requests that empty the eval buffer

ASSUME ReceiverAssumption ==
    /\ NumMsgs \in Nat
    /\ CmdLens \subseteq 8..255
    /\ Defects \subseteq {"syn", "type", "ctrlcrc", "ter", "cmdtype", "pldcrc",
                          "short", "noroom"}
    /\ Cap \in Nat \ {0}
    /\ Chunks \subseteq Nat \ {0}
    /\ MaxResets \in Nat

VARIABLES
    stream,     \* the messages the EC sends
    lo, hi,     \* the eval buffer holds the bytes from lo to hi - 1
    evaluating, \* ssh_receive_buf is in its loop
    delivered,  \* the messages handled, by index
    resets      \* how often the eval buffer was emptied

vars == <<stream, lo, hi, evaluating, delivered, resets>>

-----------------------------------------------------------------------------
(* Messages and their place in the stream *)

MsgLenCtrl == 10        \* SSH_MSG_LEN_CTRL
MsgLenCmdBase == 10     \* SSH_MSG_LEN_CMD_BASE
LenSyncCtrl == 6        \* SYNC and control frame
LenSyncCtrlCrc == 8     \* with its CRC

CtrlDefects == {"syn", "type", "ctrlcrc", "ter", "short"}
CmdDefects == {"syn", "type", "ctrlcrc", "cmdtype", "pldcrc", "short", "noroom"}

Messages ==
    [type : {"ctrl"}, len : {0}, defect : {"none"} \union (Defects \intersect CtrlDefects)]
    \union
    [type : {"cmd"}, len : CmdLens, defect : {"none"} \union (Defects \intersect CmdDefects)]

\* The length the code computes, and the one the message has: the line may
\* have dropped a byte of it.
MsgLen(m) == IF m.type = "ctrl" THEN MsgLenCtrl ELSE MsgLenCmdBase + m.len

BytesOf(m) == IF m.defect = "short" THEN MsgLen(m) - 1 ELSE MsgLen(m)

Indices == DOMAIN stream

\* Where the messages of a stream start, and where it ends
Starts(s) ==
    LET at[i \in 1..(Len(s) + 1)] == IF i = 1 THEN 0 ELSE at[i-1] + BytesOf(s[i-1])
    IN  at

Start(i) == Starts(stream)[i]

Total == Start(Len(stream) + 1)

Intact(i) == stream[i].defect = "none"

Init ==
    /\ stream \in [1..NumMsgs -> Messages]
    /\ lo = 0
    /\ hi = 0
    /\ evaluating = FALSE
    /\ delivered = <<>>
    /\ resets = 0

-----------------------------------------------------------------------------
(* ssh_receive_buf *)

Minimum(a, b) == IF a < b THEN a ELSE b

\* What does not fit is left to the tty layer, which offers it again.
ReceiveBuf(n) ==
    /\ ~evaluating
    /\ hi < Total
    /\ LET used == Minimum(Minimum(n, Total - hi), Cap - (hi - lo)) IN
       /\ used > 0
       /\ hi' = hi + used
    /\ evaluating' = TRUE
    /\ UNCHANGED <<stream, lo, delivered, resets>>

\* The values ssh_eval_buf returns, and whether it handled the message.
NeedMore  == [used |-> 0, handled |-> FALSE]
Discard(n) == [used |-> n, handled |-> FALSE]
Handle(n) == [used |-> n, handled |-> TRUE]

\* Bug: the length is not checked.
EvalCtrlUnchecked(m, size) ==
    IF m.defect \in {"ter", "short"} THEN Discard(size) ELSE Handle(MsgLenCtrl)

\* ssh_receive_msg_ctrl; when a byte is missing, so is the end of TERM.
EvalCtrl(m, size) ==
    IF size < MsgLenCtrl THEN NeedMore
    ELSE IF m.defect \in {"ter", "short"} THEN Discard(size)
    ELSE IF m.defect = "ctrlcrc" THEN Discard(MsgLenCtrl)
    ELSE Handle(MsgLenCtrl)

\* Bugs: the checksum is ignored, or taken as a reason to discard everything,
\* or to wait for more.
BadPayloadIgnored(m, size)  == Handle(MsgLen(m))
BadPayloadDiscards(m, size) == Discard(size)
BadPayloadWaits(m, size)    == NeedMore

\* The length is certified by the CRC of the control frame, so only the
\* message is discarded when that of the payload is wrong.
BadPayload(m, size) == Discard(MsgLen(m))

\* ssh_receive_msg_cmd; without room in the fifo it discards the length of a
\* control message.
EvalCmd(m, size) ==
    IF size < LenSyncCtrlCrc THEN NeedMore
    ELSE IF m.defect = "ctrlcrc" THEN Discard(size)
    ELSE IF size < MsgLen(m) THEN NeedMore
    ELSE IF m.defect = "cmdtype" THEN Discard(size)
    ELSE IF m.defect \in {"pldcrc", "short"} THEN BadPayload(m, size)
    ELSE IF m.defect = "noroom" THEN Discard(MsgLenCtrl)
    ELSE Handle(MsgLen(m))

\* ssh_eval_buf, on the bytes from lo
EvalBuf(size) ==
    IF size < LenSyncCtrl THEN NeedMore
    ELSE IF \A i \in Indices : Start(i) = lo => stream[i].defect \in {"syn", "type"}
         THEN Discard(size)
         ELSE LET m == stream[CHOOSE i \in Indices : Start(i) = lo] IN
              IF m.type = "ctrl" THEN EvalCtrl(m, size) ELSE EvalCmd(m, size)

\* The loop goes on while there are bytes and a message is taken out ...
Evaluate ==
    /\ evaluating
    /\ lo < hi
    /\ LET r == EvalBuf(hi - lo) IN
       /\ r.used > 0
       /\ lo' = lo + r.used
       /\ delivered' = IF r.handled
                       THEN Append(delivered, CHOOSE i \in Indices : Start(i) = lo)
                       ELSE delivered
    /\ UNCHANGED <<stream, hi, evaluating, resets>>

\* Bug: one message is taken out of each chunk.
StopEarly ==
    /\ evaluating
    /\ evaluating' = FALSE
    /\ UNCHANGED <<stream, lo, hi, delivered, resets>>

\* ... and what is left stays in the buffer.
StopEvaluating ==
    /\ evaluating
    /\ lo < hi => EvalBuf(hi - lo).used = 0
    /\ evaluating' = FALSE
    /\ UNCHANGED <<stream, lo, hi, delivered, resets>>

\* ssh_receiver_restart or ssh_receiver_discard, of a request
EmptyEvalBuf ==
    /\ ~evaluating
    /\ resets < MaxResets
    /\ resets' = resets + 1
    /\ lo' = hi
    /\ UNCHANGED <<stream, hi, evaluating, delivered>>

-----------------------------------------------------------------------------
Next ==
    \/ \E n \in Chunks : ReceiveBuf(n)
    \/ Evaluate
    \/ StopEvaluating
    \/ EmptyEvalBuf

Spec == Init /\ [][Next]_vars

\* The tty layer passes on what it has, and the loop runs to its end.
FairSpec == Spec /\ WF_vars((\E n \in Chunks : ReceiveBuf(n)) \/ Evaluate \/ StopEvaluating)

-----------------------------------------------------------------------------
(* Properties *)

TypeOK ==
    /\ stream \in [1..NumMsgs -> Messages]
    /\ lo \in 0..hi
    /\ hi \in 0..Total
    /\ evaluating \in BOOLEAN
    /\ delivered \in Seq(1..NumMsgs)
    /\ resets \in 0..MaxResets

\* Whatever the line does to the stream and however it is cut into chunks: only
\* intact messages are handled, none twice, and in the order they were sent.
DeliveredGenuine ==
    /\ \A k \in DOMAIN delivered : Intact(delivered[k])
    /\ \A k \in 1..(Len(delivered) - 1) : delivered[k] < delivered[k+1]

Passed(i) == Start(i) + BytesOf(stream[i]) <= lo

Handled(i) == \E k \in DOMAIN delivered : delivered[k] = i

\* No message is damaged but in what its checksums cover, and no request
\* intervenes.
LimitedDamage ==
    /\ resets = 0
    /\ \A i \in Indices :
        \/ Intact(i)
        \/ stream[i].defect = "pldcrc"
        \/ stream[i].defect = "ctrlcrc" /\ stream[i].type = "ctrl"

\* The checksum of a payload limits the damage to its message: what follows it
\* is handled.  The same goes for the checksum of a control message.  And when
\* nothing is damaged no message is lost.
ChecksumLimitsDamage ==
    LimitedDamage => \A i \in Indices : Passed(i) /\ Intact(i) => Handled(i)

\* Between two chunks no complete message waits at the front of the buffer.
NothingLeftBehind ==
    ~evaluating => \A i \in Indices :
        Start(i) = lo => Start(i) + MsgLen(stream[i]) > hi

\* What was handled has left the buffer ...
BehindInv == \A k \in DOMAIN delivered : Passed(delivered[k])

\* ... and with limited damage the buffer starts where a message does, or at
\* the end of the stream.
FrontInv ==
    LimitedDamage =>
        \E j \in 1..(NumMsgs + 1) :
            /\ lo = Start(j)
            /\ \A i \in 1..(j-1) : Intact(i) => Handled(i)

\* The inductive invariant
IInv ==
    /\ TypeOK
    /\ DeliveredGenuine
    /\ NothingLeftBehind
    /\ BehindInv
    /\ FrontInv

\* A message that fills the eval buffer before it is complete, with nothing
\* wrong in what is looked at till then, is waited for.
Stuck ==
    /\ hi - lo = Cap
    /\ \E i \in Indices :
        /\ Start(i) = lo
        /\ MsgLen(stream[i]) > Cap
        /\ stream[i].defect \notin {"syn", "type", "ctrlcrc"}

\* Whatever is wrong with the stream, it is read to its end or up to a message
\* that is longer than the eval buffer.
StreamReadOrStuck == <>[](hi = Total \/ Stuck)

\* SSH_EVAL_BUF_LEN "also works for reading" (surface_sam_ssh.c:66): the whole
\* stream is read.  This does not hold if a message is longer than that, and no
\* run claims it (README.md, section 5).
StreamRead == <>[](hi = Total)
=============================================================================
