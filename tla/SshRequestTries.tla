--------------------------- MODULE SshRequestTries ---------------------------
(***************************************************************************)
(* SshRequest with a history variable that counts, on a line that loses    *)
(* nothing, the tries of a request whose ACK the host itself has discarded. *)
(***************************************************************************)
EXTENDS SshRequest

VARIABLE spoilt     \* tries of the request in progress whose ACK was discarded

triesVars == <<vars, spoilt>>

TriesInit == Init /\ spoilt = 0

\* The ACK that is waited for is among the frames discarded with a rest.
SpoilTry ==
    /\ RcvInvalid
    /\ spoilt' = IF ~lossy /\ pc = "wait" /\ AckUnderway /\ ~AckUnderway'
                 THEN spoilt + 1 ELSE spoilt

TriesStep ==
    \/ \E i \in Ids, k \in Kinds : Begin(i, k) /\ spoilt' = 0
    \/ SpoilTry
    \/ (Caller \/ RcvCtrl \/ RcvCmd \/ Ec) /\ UNCHANGED spoilt

TriesNext == TriesStep /\ UNCHANGED lossy

TriesSpec == TriesInit /\ [][TriesNext]_triesVars

\* A caller that can go on does: writes and waits are bounded by their
\* timeouts.  Nothing is assumed of the line or of the EC.
TriesFairSpec == TriesSpec /\ WF_triesVars(Caller /\ UNCHANGED <<lossy, spoilt>>)

-----------------------------------------------------------------------------
\* When the line loses nothing and the EC answers in time, a try fails only
\* because its ACK was discarded behind the rest of a frame, and a request only
\* when this has happened to every try: no answer to an earlier request, no
\* repeated response, no packet left in the fifo and no lack of room gets in the
\* way, and the response is never lost to the caller.
ReliableLineSucceeds ==
    ~lossy =>
        /\ try <= spoilt
        /\ pc = "out" => status \in {"ok", "einval"} \/ spoilt >= NumRetry

-----------------------------------------------------------------------------
(* The inductive invariant *)

\* The command of a try is written behind the ACK of the last response at most.
CmdUnderway ==
    \/ toEc = <<writer>>
    \/ Len(toEc) = 2 /\ toEc[1].type = "ack" /\ toEc[2] = writer

\* A response is repeated until it is acknowledged.
ResponseOwed == req.kind = "read" => \E r \in ecOut : r.id = req.id

\* The ACK of this try was discarded.
TrySpoilt == spoilt > try

CountInv == spoilt \in Nat /\ try <= spoilt

\* Where the exchange is: the command is on its way, then its ACK, unless that
\* was discarded, then the ACK is in the fifo.
TryInv ==
    /\ pc = "send" => fifo = <<>> /\ ~AckUnderway
    /\ pc = "wait" =>
        \/ CmdUnderway /\ fifo = <<>> /\ ~AckUnderway
        \/ /\ toEc = <<>> /\ ResponseOwed
           /\ \/ fifo = <<>> /\ AckUnderway
              \/ fifo = <<>> /\ TrySpoilt
              \/ fifo # <<>> /\ fifo[1].type = "ack"
    /\ pc \in {"rsp", "ack"} => toEc = <<>> /\ ResponseOwed

ReliableInv ==
    /\ \A f \in Elems(toHost) : f.type # "retry"
    /\ pc # "idle" => \A f \in Elems(toEc) :
            f.type = "ack" /\ f.id = req.id => pc = "out"
    /\ pc # "wait" => Len(toEc) <= 1 /\ \A f \in Elems(toEc) : f.type = "ack"
    /\ InLoop => writer.seq = rcv.seq /\ (req.kind = "read" => writer.snc)
    /\ InLoop /\ fifo = <<>> => rcv.state = "CONTROL"
    /\ TryInv
=============================================================================
