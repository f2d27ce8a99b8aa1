------------------------- MODULE SshReceiverProofs -------------------------
(***************************************************************************)
(* Proofs about SshReceiver, for streams of any length, messages of any    *)
(* size, any of the defects, buffers and chunks of any size and any number *)
(* of resets.  They follow from one inductive invariant, IInv.             *)
(***************************************************************************)
EXTENDS SshReceiver, SequenceTheorems, WellFoundedInduction, TLAPS

-----------------------------------------------------------------------------
(* Sums: where the messages start.  The induction is on a set of numbers,  *)
(* the counterexamples, which has a least element if it has any.           *)

LEMMA LeastNat ==
  ASSUME NEW T \in SUBSET Nat, T # {}
  PROVE  \E n \in T : \A m \in T : n <= m
<1>1. \E n \in T : \A m \in T : ~(<<m, n>> \in OpToRel(<, Nat))
  BY NatLessThanWellFounded, WFMin, Zenon
<1>2. \A m \in Nat, n \in Nat : m < n => <<m, n>> \in OpToRel(<, Nat)
  BY Zenon DEF OpToRel
<1>3. \A m, n \in Nat : ~(m < n) => n <= m
  OBVIOUS
<1> QED BY <1>1, <1>2, <1>3

\* A set that holds 0 and the successor of what it holds holds all numbers.
LEMMA Numbers ==
  ASSUME NEW S, 0 \in S, \A n \in Nat : n \in S => n + 1 \in S
  PROVE  Nat \subseteq S
<1> SUFFICES ASSUME Nat \ S # {} PROVE FALSE
  OBVIOUS
<1>1. PICK n \in Nat \ S : \A m \in Nat \ S : n <= m
  BY LeastNat
<1>2. n # 0 /\ n - 1 \in Nat /\ ~(n <= n - 1) /\ (n - 1) + 1 = n
  BY <1>1
<1>3. n - 1 \in S
  BY <1>1, <1>2
<1>4. n \in S
  BY <1>2, <1>3
<1> QED BY <1>1, <1>4

\* The sums of the numbers in b are a function ...
IsSums(f, b, k) ==
    /\ f \in [1..(k+1) -> Nat]
    /\ f[1] = 0
    /\ \A i \in 1..k : f[i+1] = f[i] + b[i]

LEMMA SumsExist ==
  ASSUME NEW n \in Nat, NEW b \in [1..n -> Nat]
  PROVE  \E f : IsSums(f, b, n)
<1> DEFINE S == {k \in Nat : k <= n => \E f : IsSums(f, b, k)}
<1>1. \A k : k \in S <=> k \in Nat /\ (k <= n => \E f : IsSums(f, b, k))
  BY Zenon
<1> HIDE DEF S
<1>2. 0 \in S
  <2>1. IsSums([i \in 1..1 |-> 0], b, 0)
    BY DEF IsSums
  <2> QED BY <1>1, <2>1
<1>3. ASSUME NEW k \in Nat, k \in S PROVE k + 1 \in S
  <2> SUFFICES ASSUME k + 1 <= n PROVE \E f : IsSums(f, b, k + 1)
    BY <1>1
  <2>1. k <= n /\ k + 1 \in 1..n
    OBVIOUS
  <2>2. PICK f : IsSums(f, b, k)
    BY <1>1, <1>3, <2>1
  <2> DEFINE g == [i \in 1..((k+1)+1) |-> IF i = k + 2 THEN f[k+1] + b[k+1] ELSE f[i]]
  <2>3. /\ b[k+1] \in Nat /\ f[k+1] \in Nat
        /\ f \in [1..(k+1) -> Nat] /\ f[1] = 0
        /\ \A i \in 1..k : f[i+1] = f[i] + b[i]
    BY <2>1, <2>2 DEF IsSums
  <2>4. g \in [1..((k+1)+1) -> Nat] /\ g[1] = 0
    BY <2>3
  <2>5. ASSUME NEW i \in 1..(k+1) PROVE g[i+1] = g[i] + b[i]
    BY <2>3
  <2>6. IsSums(g, b, k + 1)
    <3> HIDE DEF g
    <3> QED BY <2>4, <2>5 DEF IsSums
  <2> QED BY <2>6
<1>4. n \in S
  BY <1>2, <1>3, Numbers
<1> QED BY <1>1, <1>4

\* ... and a function that is defined by the recursion is one of their sums.
LEMMA SumsRecursive ==
  ASSUME NEW n \in Nat, NEW b \in [1..n -> Nat], NEW f
  PROVE  f = [i \in 1..(n+1) |-> IF i = 1 THEN 0 ELSE f[i-1] + b[i-1]] <=> IsSums(f, b, n)
<1>1. ASSUME IsSums(f, b, n), NEW i \in 1..(n+1)
      PROVE  f[i] = IF i = 1 THEN 0 ELSE f[i-1] + b[i-1]
  <2>1. CASE i = 1
    BY <1>1, <2>1 DEF IsSums
  <2>2. CASE i # 1
    <3>1. i - 1 \in 1..n /\ (i - 1) + 1 = i
      BY <2>2
    <3> QED BY <1>1, <2>2, <3>1 DEF IsSums
  <2> QED BY <2>1, <2>2
<1>2. ASSUME f = [i \in 1..(n+1) |-> IF i = 1 THEN 0 ELSE f[i-1] + b[i-1]]
      PROVE  IsSums(f, b, n)
  <2>1. /\ DOMAIN f = 1..(n+1)
        /\ f = [i \in 1..(n+1) |-> f[i]]
        /\ \A i \in 1..(n+1) : f[i] = IF i = 1 THEN 0 ELSE f[i-1] + b[i-1]
    BY <1>2, Zenon
  <2>2. f[1] = 0
    <3>1. 1 \in 1..(n+1)
      OBVIOUS
    <3> QED BY <2>1, <3>1, Zenon
  <2>3. ASSUME NEW i \in 1..n PROVE f[i+1] = f[i] + b[i]
    <3>1. i + 1 \in 1..(n+1) /\ i + 1 # 1 /\ (i + 1) - 1 = i
      OBVIOUS
    <3> QED BY <2>1, <3>1
  <2> DEFINE S == {k \in Nat : k <= n => f[k+1] \in Nat}
  <2>4. \A k : k \in S <=> k \in Nat /\ (k <= n => f[k+1] \in Nat)
    OBVIOUS
  <2> HIDE DEF S
  <2>5. 0 \in S
    BY <2>2, <2>4
  <2>6. ASSUME NEW k \in Nat, k \in S PROVE k + 1 \in S
    <3> SUFFICES ASSUME k + 1 <= n PROVE f[(k+1)+1] \in Nat
      BY <2>4
    <3>1. k <= n /\ k + 1 \in 1..n
      OBVIOUS
    <3>2. f[k+1] \in Nat /\ b[k+1] \in Nat
      BY <2>4, <2>6, <3>1
    <3> QED BY <2>3, <3>1, <3>2
  <2>7. ASSUME NEW i \in 1..(n+1) PROVE f[i] \in Nat
    <3>1. i - 1 \in Nat /\ i - 1 <= n /\ (i - 1) + 1 = i
      OBVIOUS
    <3>2. i - 1 \in S
      BY <2>5, <2>6, <3>1, Numbers
    <3> QED BY <2>4, <3>1, <3>2
  <2> QED BY <2>1, <2>2, <2>3, <2>7 DEF IsSums
<1>3. ASSUME IsSums(f, b, n)
      PROVE  f = [i \in 1..(n+1) |-> IF i = 1 THEN 0 ELSE f[i-1] + b[i-1]]
  <2>1. f = [i \in 1..(n+1) |-> f[i]]
    BY <1>3 DEF IsSums
  <2> QED BY <1>1, <1>3, <2>1
<1> QED BY <1>2, <1>3

-----------------------------------------------------------------------------
(* The stream *)

Streams == [1..NumMsgs -> Messages]

LEMMA MessageIs ==
  ASSUME NEW m \in Messages
  PROVE  /\ MsgLen(m) \in Nat /\ 10 <= MsgLen(m)
         /\ m.type = "ctrl" => /\ MsgLen(m) = 10
                               /\ m.defect \in {"none"} \union CtrlDefects
         /\ m.type # "ctrl" => /\ 18 <= MsgLen(m)
                               /\ m.defect \in {"none"} \union CmdDefects
         /\ BytesOf(m) \in Nat /\ 9 <= BytesOf(m) /\ BytesOf(m) <= MsgLen(m)
         /\ m.defect # "short" => BytesOf(m) = MsgLen(m)
<1>1. CASE m \in [type : {"ctrl"}, len : {0},
                  defect : {"none"} \union (Defects \intersect CtrlDefects)]
  BY <1>1 DEF MsgLen, BytesOf, MsgLenCtrl
<1>2. CASE m \in [type : {"cmd"}, len : CmdLens,
                  defect : {"none"} \union (Defects \intersect CmdDefects)]
  <2>1. m.len \in CmdLens /\ m.type = "cmd"
    BY <1>2
  <2>2. m.len \in Nat /\ 8 <= m.len
    <3>1. \A l \in CmdLens : l \in Nat /\ 8 <= l
      BY ReceiverAssumption
    <3> QED BY <2>1, <3>1
  <2> QED BY <1>2, <2>1, <2>2 DEF MsgLen, BytesOf, MsgLenCmdBase
<1> QED BY <1>1, <1>2 DEF Messages

\* The messages follow one another.
LEMMA StartsIs ==
  ASSUME NEW s \in Streams
  PROVE  /\ Len(s) = NumMsgs
         /\ Starts(s) \in [1..(NumMsgs + 1) -> Nat]
         /\ Starts(s)[1] = 0
         /\ \A i \in 1..NumMsgs : Starts(s)[i+1] = Starts(s)[i] + BytesOf(s[i])
<1> DEFINE b == [i \in 1..NumMsgs |-> BytesOf(s[i])]
           F(f) == [i \in 1..(NumMsgs+1) |-> IF i = 1 THEN 0 ELSE f[i-1] + BytesOf(s[i-1])]
           G(f) == [i \in 1..(NumMsgs+1) |-> IF i = 1 THEN 0 ELSE f[i-1] + b[i-1]]
<1>1. NumMsgs \in Nat /\ \A i \in 1..NumMsgs : s[i] \in Messages
  BY ReceiverAssumption DEF Streams
<1>2. Len(s) = NumMsgs
  BY <1>1, LenProperties, SeqDef DEF Streams
<1>3. b \in [1..NumMsgs -> Nat]
  BY <1>1, MessageIs
<1>4. ASSUME NEW f PROVE F(f) = G(f)
  <2>1. \A i \in 1..(NumMsgs+1) : i # 1 => b[i-1] = BytesOf(s[i-1])
    BY <1>1
  <2> QED BY <2>1
<1>5. \A i \in 1..NumMsgs : b[i] = BytesOf(s[i])
  OBVIOUS
<1>6. Starts(s) = CHOOSE f : f = F(f)
  BY <1>2 DEF Starts
<1> HIDE DEF b
<1>7. \A f : f = G(f) <=> IsSums(f, b, NumMsgs)
  BY <1>1, <1>3, SumsRecursive
<1> HIDE DEF F, G
<1>8. \E f : f = F(f)
  BY <1>1, <1>3, <1>4, <1>7, SumsExist
<1>9. Starts(s) = F(Starts(s))
  BY <1>6, <1>8
<1>10. IsSums(Starts(s), b, NumMsgs)
  BY <1>4, <1>7, <1>9
<1> QED BY <1>2, <1>5, <1>10 DEF IsSums

LEMMA StartsGrow ==
  ASSUME NEW s \in Streams, NEW i \in 1..NumMsgs, NEW j \in 1..(NumMsgs + 1), i < j
  PROVE  Starts(s)[i] + BytesOf(s[i]) <= Starts(s)[j]
<1> DEFINE A == Starts(s)
           S == {k \in Nat : i + 1 + k <= NumMsgs + 1 => A[i+1] <= A[i+1+k]}
<1>1. NumMsgs \in Nat
  BY ReceiverAssumption
<1>2. /\ \A k \in 1..(NumMsgs + 1) : A[k] \in Nat
      /\ \A k \in 1..NumMsgs : A[k+1] = A[k] + BytesOf(s[k]) /\ BytesOf(s[k]) \in Nat
  <2>1. \A k \in 1..NumMsgs : s[k] \in Messages
    BY DEF Streams
  <2> QED BY <2>1, StartsIs, MessageIs
<1>3. \A k : k \in S <=> k \in Nat /\ (i + 1 + k <= NumMsgs + 1 => A[i+1] <= A[i+1+k])
  OBVIOUS
<1> HIDE DEF A, S
<1>4. 0 \in S
  <2>1. i + 1 \in 1..(NumMsgs + 1) /\ i + 1 + 0 = i + 1
    BY <1>1
  <2>2. A[i+1] \in Nat
    BY <1>2, <2>1
  <2> QED BY <1>3, <2>1, <2>2
<1>5. ASSUME NEW k \in Nat, k \in S PROVE k + 1 \in S
  <2> SUFFICES ASSUME i + 1 + (k + 1) <= NumMsgs + 1 PROVE A[i+1] <= A[i+1+(k+1)]
    BY <1>3
  <2>1. /\ i + 1 + k <= NumMsgs + 1 /\ i + 1 + k \in 1..NumMsgs
        /\ i + 1 \in 1..(NumMsgs + 1) /\ i + 1 + k \in 1..(NumMsgs + 1)
        /\ i + 1 + (k + 1) = (i + 1 + k) + 1
    BY <1>1
  <2>2. /\ A[i+1] <= A[i+1+k] /\ A[i+1] \in Nat /\ A[i+1+k] \in Nat
        /\ A[(i+1+k)+1] = A[i+1+k] + BytesOf(s[i+1+k]) /\ BytesOf(s[i+1+k]) \in Nat
    BY <1>2, <1>3, <1>5, <2>1
  <2> QED BY <2>1, <2>2
<1>6. j - (i + 1) \in Nat /\ i + 1 + (j - (i + 1)) = j /\ j <= NumMsgs + 1
  BY <1>1
<1>7. j - (i + 1) \in S
  BY <1>4, <1>5, <1>6, Numbers
<1>8. A[i+1] <= A[j] /\ A[i+1] = A[i] + BytesOf(s[i])
  BY <1>2, <1>3, <1>6, <1>7
<1> QED BY <1>8 DEF A

\* The same of the stream that is read
LEMMA StreamIs ==
  ASSUME stream \in Streams
  PROVE  /\ NumMsgs \in Nat /\ Indices = 1..NumMsgs
         /\ Total = Start(NumMsgs + 1)
         /\ \A i \in 1..(NumMsgs + 1) : Start(i) \in Nat
         /\ Start(1) = 0
         /\ \A i \in 1..NumMsgs :
               /\ stream[i] \in Messages
               /\ Start(i + 1) = Start(i) + BytesOf(stream[i])
         /\ \A i \in 1..NumMsgs, j \in 1..(NumMsgs + 1) :
               i < j => Start(i) + BytesOf(stream[i]) <= Start(j)
<1>1. NumMsgs \in Nat /\ Indices = 1..NumMsgs /\ \A i \in 1..NumMsgs : stream[i] \in Messages
  BY ReceiverAssumption DEF Streams, Indices
<1> QED BY <1>1, StartsIs, StartsGrow DEF Total, Start

\* A byte of the stream belongs to one message.
LEMMA StartUnique ==
  ASSUME stream \in Streams, NEW i \in 1..(NumMsgs + 1), NEW j \in 1..(NumMsgs + 1),
         Start(i) = Start(j)
  PROVE  i = j
<1>1. NumMsgs \in Nat /\ Start(i) \in Nat
  BY StreamIs
<1>2. ASSUME NEW k \in 1..(NumMsgs + 1), NEW l \in 1..(NumMsgs + 1), k < l
      PROVE  Start(k) < Start(l)
  <2>1. k \in 1..NumMsgs
    BY <1>1, <1>2
  <2>2. /\ Start(k) \in Nat /\ Start(l) \in Nat /\ stream[k] \in Messages
        /\ Start(k) + BytesOf(stream[k]) <= Start(l)
    BY <1>2, <2>1, StreamIs
  <2>3. BytesOf(stream[k]) \in Nat /\ 9 <= BytesOf(stream[k])
    BY <2>2, MessageIs
  <2> QED BY <2>2, <2>3
<1>3. i \in Nat /\ j \in Nat /\ ~(Start(i) < Start(j)) /\ ~(Start(j) < Start(i))
  BY <1>1
<1>4. ~(i < j) /\ ~(j < i)
  BY <1>2, <1>3
<1> QED BY <1>3, <1>4

-----------------------------------------------------------------------------
(* What is taken out of the buffer *)

Limited(m) ==
    \/ m.defect \in {"none", "pldcrc"}
    \/ m.defect = "ctrlcrc" /\ m.type = "ctrl"

LEMMA EvalCtrlIs ==
  ASSUME NEW m \in Messages, m.type = "ctrl", m.defect \notin {"syn", "type"},
         NEW size \in Nat \ {0}
  PROVE  LET r == EvalCtrl(m, size) IN
         /\ r.used \in Nat /\ r.used <= size
         /\ MsgLen(m) <= size => r.used > 0
         /\ r.handled => m.defect = "none" /\ r.used = MsgLen(m)
         /\ Limited(m) /\ r.used > 0 =>
               r.used = MsgLen(m) /\ (m.defect = "none" => r.handled)
<1>1. MsgLen(m) = 10 /\ m.defect \in {"none", "ctrlcrc", "ter", "short"}
  BY MessageIs DEF CtrlDefects
<1> QED BY <1>1 DEF EvalCtrl, NeedMore, Discard, Handle, MsgLenCtrl, Limited

LEMMA EvalCmdIs ==
  ASSUME NEW m \in Messages, m.type # "ctrl", m.defect \notin {"syn", "type"},
         NEW size \in Nat \ {0}
  PROVE  LET r == EvalCmd(m, size) IN
         /\ r.used \in Nat /\ r.used <= size
         /\ MsgLen(m) <= size => r.used > 0
         /\ r.handled => m.defect = "none" /\ r.used = MsgLen(m)
         /\ Limited(m) /\ r.used > 0 =>
               r.used = MsgLen(m) /\ (m.defect = "none" => r.handled)
<1>1. /\ MsgLen(m) \in Nat /\ 18 <= MsgLen(m)
      /\ m.defect \in {"none", "ctrlcrc", "cmdtype", "pldcrc", "short", "noroom"}
  BY MessageIs DEF CmdDefects
<1> HIDE DEF MsgLen
<1> QED BY <1>1 DEF EvalCmd, BadPayload, NeedMore, Discard, Handle, MsgLenCtrl, LenSyncCtrlCrc, Limited

LEMMA EvalBufIs ==
  ASSUME stream \in Streams, NEW size \in Nat \ {0}
  PROVE  LET r == EvalBuf(size) IN
         /\ r.used \in Nat /\ r.used <= size
         /\ r.handled => \E i \in Indices :
               Start(i) = lo /\ Intact(i) /\ r.used = BytesOf(stream[i])
         /\ \A i \in Indices : Start(i) = lo =>
               /\ MsgLen(stream[i]) <= size => r.used > 0
               /\ Limited(stream[i]) /\ r.used > 0 =>
                     r.used = BytesOf(stream[i]) /\ (Intact(i) => r.handled)
<1> DEFINE r == EvalBuf(size)
           P == /\ r.used \in Nat /\ r.used <= size
                /\ r.handled => \E i \in Indices :
                      Start(i) = lo /\ Intact(i) /\ r.used = BytesOf(stream[i])
                /\ \A i \in Indices : Start(i) = lo =>
                      /\ MsgLen(stream[i]) <= size => r.used > 0
                      /\ Limited(stream[i]) /\ r.used > 0 =>
                            r.used = BytesOf(stream[i]) /\ (Intact(i) => r.handled)
<1>1. \A i \in Indices : stream[i] \in Messages /\ 10 <= MsgLen(stream[i]) /\ MsgLen(stream[i]) \in Nat
  BY StreamIs, MessageIs
<1>2. CASE size < LenSyncCtrl
  <2>1. r = NeedMore
    BY <1>2 DEF EvalBuf
  <2>2. \A i \in Indices : ~(MsgLen(stream[i]) <= size)
    BY <1>1, <1>2 DEF LenSyncCtrl
  <2> QED BY <2>1, <2>2 DEF NeedMore
<1>3. CASE /\ ~(size < LenSyncCtrl)
           /\ \A i \in Indices : Start(i) = lo => stream[i].defect \in {"syn", "type"}
  <2>1. r = Discard(size)
    BY <1>3 DEF EvalBuf
  <2>2. \A i \in Indices : Start(i) = lo => ~Limited(stream[i])
    BY <1>3 DEF Limited
  <2> QED BY <2>1, <2>2 DEF Discard
<1>4. CASE /\ ~(size < LenSyncCtrl)
           /\ ~\A i \in Indices : Start(i) = lo => stream[i].defect \in {"syn", "type"}
  <2>1. PICK i \in Indices : Start(i) = lo /\ stream[i].defect \notin {"syn", "type"}
    BY <1>4
  <2>2. \A k \in Indices : Start(k) = lo => k = i
    BY <2>1, StartUnique, StreamIs
  <2>3. (CHOOSE k \in Indices : Start(k) = lo) = i
    BY <2>1, <2>2
  <2> DEFINE m == stream[i]
  <2>4. r = IF m.type = "ctrl" THEN EvalCtrl(m, size) ELSE EvalCmd(m, size)
    BY <1>4, <2>3 DEF EvalBuf
  <2>5. m \in Messages /\ m.defect \notin {"syn", "type"}
    BY <1>1, <2>1
  <2> HIDE DEF r, m
  <2>6. /\ r.used \in Nat /\ r.used <= size
        /\ MsgLen(m) <= size => r.used > 0
        /\ r.handled => m.defect = "none" /\ r.used = MsgLen(m)
        /\ Limited(m) /\ r.used > 0 =>
              r.used = MsgLen(m) /\ (m.defect = "none" => r.handled)
    <3>1. CASE m.type = "ctrl"
      BY <2>4, <2>5, <3>1, EvalCtrlIs
    <3>2. CASE m.type # "ctrl"
      BY <2>4, <2>5, <3>2, EvalCmdIs
    <3> QED BY <3>1, <3>2
  <2>7. m.defect = "none" \/ Limited(m) => BytesOf(m) = MsgLen(m)
    BY <2>5, MessageIs DEF Limited
  <2>8. /\ r.handled => \E k \in Indices :
              Start(k) = lo /\ Intact(k) /\ r.used = BytesOf(stream[k])
    BY <2>1, <2>6, <2>7 DEF Intact, m
  <2>9. ASSUME NEW k \in Indices, Start(k) = lo
        PROVE  /\ MsgLen(stream[k]) <= size => r.used > 0
               /\ Limited(stream[k]) /\ r.used > 0 =>
                     r.used = BytesOf(stream[k]) /\ (Intact(k) => r.handled)
    BY <2>2, <2>6, <2>7, <2>9 DEF Intact, m
  <2> QED BY <2>6, <2>8, <2>9, Zenon DEF r
<1>5. P
  BY <1>2, <1>3, <1>4, Zenon
<1> QED BY <1>5, Zenon

-----------------------------------------------------------------------------
(* The inductive invariant *)

LEMMA InitInv == Init => IInv
<1> SUFFICES ASSUME Init PROVE IInv
  OBVIOUS
<1>1. stream \in Streams /\ lo = 0 /\ hi = 0 /\ delivered = <<>> /\ resets = 0
  BY DEF Init, Streams
<1>2. NumMsgs \in Nat /\ Total \in Nat /\ Start(1) = 0 /\ MaxResets \in Nat
  <2>1. NumMsgs + 1 \in 1..(NumMsgs + 1) /\ NumMsgs \in Nat
    BY ReceiverAssumption
  <2> QED BY <1>1, <2>1, StreamIs, ReceiverAssumption
<1>3. TypeOK
  <2>1. lo \in 0..hi /\ hi \in 0..Total /\ resets \in 0..MaxResets
    BY <1>1, <1>2
  <2>2. delivered \in Seq(1..NumMsgs)
    BY <1>1
  <2> QED BY <2>1, <2>2 DEF TypeOK, Init
<1>4. DeliveredGenuine /\ BehindInv
  BY <1>1 DEF DeliveredGenuine, BehindInv
<1>5. NothingLeftBehind
  <2>1. ASSUME NEW i \in Indices, Start(i) = 0 PROVE Start(i) + MsgLen(stream[i]) > 0
    BY <1>1, <2>1, StreamIs, MessageIs
  <2> QED BY <1>1, <2>1 DEF NothingLeftBehind
<1>6. FrontInv
  <2>1. 1 \in 1..(NumMsgs + 1) /\ lo = Start(1) /\ 1..(1-1) = {}
    BY <1>1, <1>2
  <2> QED BY <2>1 DEF FrontInv
<1> QED BY <1>3, <1>4, <1>5, <1>6 DEF IInv

\* A step that leaves the stream and what was handled alone
LEMMA SameStream ==
  ASSUME stream' = stream, delivered' = delivered
  PROVE  /\ \A i : Start(i)' = Start(i) /\ Intact(i)' = Intact(i) /\ Handled(i)' = Handled(i)
         /\ Indices' = Indices /\ Total' = Total
         /\ DeliveredGenuine' = DeliveredGenuine
  BY DEF Start, Intact, Handled, Indices, Total, DeliveredGenuine

LEMMA NextReceive ==
  ASSUME IInv, NEW n \in Chunks, ReceiveBuf(n)
  PROVE  IInv'
<1> USE DEF ReceiveBuf
<1>1. /\ lo \in Nat /\ hi \in Nat /\ lo <= hi /\ Total \in Nat /\ hi <= Total
      /\ n \in Nat \ {0} /\ Cap \in Nat \ {0}
  <2>1. lo \in Nat /\ hi \in Nat /\ lo <= hi /\ hi <= Total /\ stream \in Streams
    BY DEF IInv, TypeOK, Streams
  <2>2. Total \in Nat
    <3>1. NumMsgs + 1 \in 1..(NumMsgs + 1)
      BY ReceiverAssumption
    <3> QED BY <2>1, <3>1, StreamIs
  <2> QED BY <2>1, <2>2, ReceiverAssumption
<1>2. hi' \in Nat /\ hi < hi' /\ hi' <= Total
  BY <1>1 DEF Minimum
<1>3. /\ \A i : Start(i)' = Start(i) /\ Intact(i)' = Intact(i) /\ Handled(i)' = Handled(i)
      /\ Indices' = Indices /\ Total' = Total
      /\ DeliveredGenuine' = DeliveredGenuine
  BY SameStream
<1>4. TypeOK'
  BY <1>1, <1>2, <1>3 DEF IInv, TypeOK
<1>5. NothingLeftBehind'
  BY DEF NothingLeftBehind
<1>6. LimitedDamage' = LimitedDamage
  BY <1>3 DEF LimitedDamage
<1>7. BehindInv' /\ FrontInv'
  BY <1>3, <1>6 DEF IInv, BehindInv, FrontInv, Passed
<1> QED BY <1>3, <1>4, <1>5, <1>7 DEF IInv

LEMMA NextStop ==
  ASSUME IInv, StopEvaluating \/ UNCHANGED vars
  PROVE  IInv'
<1>1. /\ UNCHANGED <<stream, lo, hi, delivered, resets>> /\ evaluating' \in BOOLEAN
      /\ \A i : Start(i)' = Start(i) /\ Intact(i)' = Intact(i) /\ Handled(i)' = Handled(i)
      /\ Indices' = Indices /\ Total' = Total
      /\ DeliveredGenuine' = DeliveredGenuine
  BY SameStream DEF IInv, TypeOK, StopEvaluating, vars
<1>2. TypeOK'
  BY <1>1 DEF IInv, TypeOK
<1>3. LimitedDamage' = LimitedDamage
  BY <1>1 DEF LimitedDamage
<1>4. BehindInv' /\ FrontInv'
  BY <1>1, <1>3 DEF IInv, BehindInv, FrontInv, Passed
<1>5. ASSUME StopEvaluating PROVE NothingLeftBehind'
  <2> SUFFICES ASSUME NEW i \in Indices, Start(i) = lo
               PROVE  Start(i) + MsgLen(stream[i]) > hi
    BY <1>1 DEF NothingLeftBehind
  <2>1. stream \in Streams /\ lo \in Nat /\ hi \in Nat /\ lo <= hi
    <3>1. lo \in 0..hi /\ hi \in 0..Total /\ stream \in Streams
      BY DEF IInv, TypeOK, Streams
    <3> QED BY <3>1
  <2>2. MsgLen(stream[i]) \in Nat /\ 10 <= MsgLen(stream[i])
    BY <2>1, StreamIs, MessageIs
  <2>3. CASE lo < hi
    <3>1. hi - lo \in Nat \ {0} /\ EvalBuf(hi - lo).used = 0
      BY <1>5, <2>1, <2>3 DEF StopEvaluating
    <3>2. ~(MsgLen(stream[i]) <= hi - lo)
      BY <2>1, <3>1, EvalBufIs
    <3> QED BY <2>1, <2>2, <3>2
  <2>4. CASE ~(lo < hi)
    BY <2>1, <2>2, <2>4
  <2> QED BY <2>3, <2>4
<1>6. ASSUME UNCHANGED vars PROVE NothingLeftBehind'
  <2>1. NothingLeftBehind /\ evaluating' = evaluating
    BY <1>6 DEF IInv, vars
  <2> QED BY <1>1, <2>1 DEF NothingLeftBehind
<1> QED BY <1>1, <1>2, <1>4, <1>5, <1>6 DEF IInv

LEMMA NextEmpty ==
  ASSUME IInv, EmptyEvalBuf
  PROVE  IInv'
<1> USE DEF EmptyEvalBuf
<1>1. /\ stream \in Streams /\ lo \in Nat /\ hi \in Nat /\ lo <= hi /\ hi <= Total
      /\ resets \in Nat /\ resets < MaxResets /\ MaxResets \in Nat
  <2>1. lo \in 0..hi /\ hi \in 0..Total /\ stream \in Streams /\ resets \in 0..MaxResets
    BY DEF IInv, TypeOK, Streams
  <2> QED BY <2>1, ReceiverAssumption
<1>2. /\ \A i : Start(i)' = Start(i) /\ Intact(i)' = Intact(i) /\ Handled(i)' = Handled(i)
      /\ Indices' = Indices /\ Total' = Total
      /\ DeliveredGenuine' = DeliveredGenuine
  BY SameStream
<1>3. TypeOK'
  <2>1. lo' \in 0..hi' /\ hi' \in 0..Total' /\ resets' \in 0..MaxResets
    BY <1>1, <1>2 DEF IInv, TypeOK
  <2> QED BY <2>1 DEF IInv, TypeOK
<1>4. NothingLeftBehind'
  <2> SUFFICES ASSUME NEW i \in Indices, Start(i) = hi
               PROVE  Start(i) + MsgLen(stream[i]) > hi
    BY <1>2 DEF NothingLeftBehind
  <2>1. MsgLen(stream[i]) \in Nat /\ 10 <= MsgLen(stream[i])
    BY <1>1, StreamIs, MessageIs
  <2> QED BY <1>1, <2>1
<1>5. BehindInv'
  <2>1. ASSUME NEW k \in DOMAIN delivered PROVE Passed(delivered[k])'
    <3>1. delivered[k] \in Indices /\ Passed(delivered[k])
      BY <1>1, StreamIs DEF IInv, TypeOK, BehindInv
    <3>2. Start(delivered[k]) + BytesOf(stream[delivered[k]]) \in Nat
      BY <1>1, <3>1, StreamIs, MessageIs
    <3> QED BY <1>1, <1>2, <3>1, <3>2 DEF Passed
  <2> QED BY <2>1 DEF BehindInv
<1>6. FrontInv'
  BY <1>1 DEF FrontInv, LimitedDamage
<1> QED BY <1>2, <1>3, <1>4, <1>5, <1>6 DEF IInv

LEMMA NextEvaluate ==
  ASSUME IInv, Evaluate
  PROVE  IInv'
<1> DEFINE size == hi - lo
           r == EvalBuf(size)
           first == CHOOSE i \in Indices : Start(i) = lo
<1>1. /\ stream \in Streams /\ lo \in Nat /\ hi \in Nat /\ lo < hi /\ hi <= Total
      /\ delivered \in Seq(1..NumMsgs)
      /\ size \in Nat \ {0} /\ evaluating /\ evaluating' = evaluating
      /\ UNCHANGED <<stream, hi, resets>>
  <2>1. lo \in 0..hi /\ hi \in 0..Total /\ stream \in Streams /\ lo < hi
    BY DEF IInv, TypeOK, Streams, Evaluate
  <2> QED BY <2>1 DEF IInv, TypeOK, Evaluate
<1>2. r.used > 0 /\ lo' = lo + r.used
  BY DEF Evaluate
<1>3. delivered' = IF r.handled THEN Append(delivered, first) ELSE delivered
  BY DEF Evaluate
<1>4. /\ r.used \in Nat /\ r.used <= size
      /\ r.handled => \E i \in Indices :
            Start(i) = lo /\ Intact(i) /\ r.used = BytesOf(stream[i])
      /\ \A i \in Indices : Start(i) = lo =>
               (Limited(stream[i]) => r.used = BytesOf(stream[i]) /\ (Intact(i) => r.handled))
  BY <1>1, <1>2, EvalBufIs, Zenon
<1>5. /\ NumMsgs \in Nat /\ Indices = 1..NumMsgs
      /\ \A i \in 1..(NumMsgs + 1) : Start(i) \in Nat
      /\ \A i \in 1..NumMsgs :
            /\ Start(i + 1) = Start(i) + BytesOf(stream[i])
            /\ BytesOf(stream[i]) \in Nat /\ 9 <= BytesOf(stream[i])
      /\ \A i \in 1..NumMsgs, j \in 1..(NumMsgs + 1) :
            i < j => Start(i) + BytesOf(stream[i]) <= Start(j)
  BY <1>1, StreamIs, MessageIs
<1>6. ASSUME NEW i \in Indices, Start(i) = lo PROVE first = i
  <2>1. \A k \in Indices : Start(k) = lo => k = i
    BY <1>1, <1>5, <1>6, StartUnique
  <2> QED BY <1>6, <2>1
<1> HIDE DEF size, r, first
<1>7. /\ \A i : Start(i)' = Start(i) /\ Intact(i)' = Intact(i)
      /\ Indices' = Indices /\ Total' = Total
  BY <1>1 DEF Start, Intact, Indices, Total
<1>8. lo' \in Nat /\ lo < lo' /\ lo' <= hi
  BY <1>1, <1>2, <1>4 DEF size
<1>9. NothingLeftBehind'
  BY <1>1 DEF NothingLeftBehind
<1>10. ASSUME r.handled
       PROVE  /\ delivered' \in Seq(1..NumMsgs) /\ DeliveredGenuine' /\ BehindInv'
              /\ \A i : Handled(i) \/ i = first => Handled(i)'
  <2>1. /\ first \in 1..NumMsgs /\ Start(first) = lo /\ Intact(first)
        /\ lo' = Start(first) + BytesOf(stream[first])
        /\ delivered' = Append(delivered, first)
    BY <1>2, <1>3, <1>4, <1>5, <1>6, <1>10
  <2>2. /\ delivered' \in Seq(1..NumMsgs) /\ Len(delivered') = Len(delivered) + 1
        /\ \A k \in 1..Len(delivered) : delivered'[k] = delivered[k] /\ delivered[k] \in 1..NumMsgs
        /\ delivered'[Len(delivered) + 1] = first
        /\ Len(delivered) \in Nat
        /\ DOMAIN delivered = 1..Len(delivered) /\ DOMAIN delivered' = 1..Len(delivered')
    <3>1. /\ Len(delivered) \in Nat /\ DOMAIN delivered = 1..Len(delivered)
          /\ \A k \in 1..Len(delivered) : delivered[k] \in 1..NumMsgs
      BY <1>1, LenProperties, ElementOfSeq
    <3>2. /\ delivered' \in Seq(1..NumMsgs) /\ Len(delivered') = Len(delivered) + 1
          /\ \A k \in 1..Len(delivered) : delivered'[k] = delivered[k]
          /\ delivered'[Len(delivered) + 1] = first
      BY <1>1, <2>1, AppendProperties
    <3>3. DOMAIN delivered' = 1..Len(delivered')
      BY <3>2, LenProperties
    <3> QED BY <3>1, <3>2, <3>3
  <2>3. ASSUME NEW k \in 1..Len(delivered) PROVE delivered[k] < first
    <3>1. Start(delivered[k]) + BytesOf(stream[delivered[k]]) <= lo
      <4>1. Passed(delivered[k])
        BY <2>2 DEF IInv, BehindInv
      <4> QED BY <4>1 DEF Passed
    <3>2. delivered[k] \in 1..NumMsgs
      BY <2>2
    <3>3. delivered[k] # first
      <4>1. BytesOf(stream[first]) \in Nat /\ 9 <= BytesOf(stream[first])
        BY <1>5, <2>1
      <4> QED BY <1>1, <2>1, <3>1, <4>1
    <3>4. ~(first < delivered[k])
      <4>1. /\ BytesOf(stream[first]) \in Nat /\ 9 <= BytesOf(stream[first])
            /\ BytesOf(stream[delivered[k]]) \in Nat /\ Start(delivered[k]) \in Nat
            /\ first < delivered[k] => Start(first) + BytesOf(stream[first]) <= Start(delivered[k])
        <5>1. first \in 1..NumMsgs /\ delivered[k] \in 1..(NumMsgs + 1)
          BY <2>1, <3>2, ReceiverAssumption
        <5> QED BY <1>5, <3>2, <5>1
      <4> QED BY <1>1, <2>1, <3>1, <4>1
    <3> QED BY <2>1, <3>2, <3>3, <3>4
  <2>4. DeliveredGenuine'
    <3>1. \A k \in DOMAIN delivered' : Intact(delivered'[k])
      BY <2>1, <2>2 DEF IInv, DeliveredGenuine
    <3>2. \A k \in 1..(Len(delivered') - 1) : delivered'[k] < delivered'[k+1]
      <4> SUFFICES ASSUME NEW k \in 1..(Len(delivered') - 1)
                   PROVE  delivered'[k] < delivered'[k+1]
        OBVIOUS
      <4>1. k \in 1..Len(delivered) /\ delivered'[k] = delivered[k]
        BY <2>2
      <4>2. CASE k = Len(delivered)
        BY <2>2, <2>3, <4>1, <4>2
      <4>3. CASE k # Len(delivered)
        <5>1. k \in 1..(Len(delivered) - 1) /\ k + 1 \in 1..Len(delivered)
          <6>1. Len(delivered) \in Nat /\ k \in 1..Len(delivered) /\ k # Len(delivered)
            BY <2>2, <4>1, <4>3
          <6> QED BY <6>1
        <5> QED BY <2>2, <4>1, <5>1 DEF IInv, DeliveredGenuine
      <4> QED BY <4>2, <4>3
    <3> QED BY <1>7, <3>1, <3>2 DEF DeliveredGenuine, Intact
  <2>5. ASSUME NEW k \in DOMAIN delivered'
        PROVE  Start(delivered'[k]) + BytesOf(stream[delivered'[k]]) <= lo'
    <3>1. CASE k \in 1..Len(delivered)
      <4>1. /\ Start(delivered[k]) + BytesOf(stream[delivered[k]]) <= lo
            /\ delivered'[k] = delivered[k] /\ delivered[k] \in 1..NumMsgs
        BY <2>2, <3>1 DEF IInv, BehindInv, Passed
      <4>2. Start(delivered[k]) \in Nat /\ BytesOf(stream[delivered[k]]) \in Nat
        <5>1. delivered[k] \in 1..(NumMsgs + 1)
          BY <1>5, <4>1
        <5> QED BY <1>5, <4>1, <5>1
      <4> QED BY <1>1, <1>8, <4>1, <4>2
    <3>2. CASE k = Len(delivered) + 1
      BY <1>8, <2>1, <2>2, <3>2
    <3> QED BY <2>2, <3>1, <3>2
  <2>6. BehindInv'
    BY <1>1, <1>7, <2>5 DEF BehindInv, Passed
  <2>7. \A i : Handled(i) \/ i = first => Handled(i)'
    BY <2>2 DEF Handled
  <2> QED BY <2>2, <2>4, <2>6, <2>7
<1>11. ASSUME ~r.handled
       PROVE  /\ delivered' = delivered /\ DeliveredGenuine' /\ BehindInv'
              /\ \A i : Handled(i) => Handled(i)'
  <2>1. delivered' = delivered
    BY <1>3, <1>11
  <2>2. DeliveredGenuine' /\ \A i : Handled(i) => Handled(i)'
    BY <1>1, <2>1, SameStream DEF IInv
  <2>3. ASSUME NEW k \in DOMAIN delivered
        PROVE  Start(delivered[k]) + BytesOf(stream[delivered[k]]) <= lo'
    <3>1. Passed(delivered[k]) /\ delivered[k] \in 1..NumMsgs
      BY <1>1, LenProperties DEF IInv, BehindInv
    <3>2. \A i \in 1..NumMsgs : Start(i) \in Nat /\ BytesOf(stream[i]) \in Nat
      BY <1>5
    <3>3. Start(delivered[k]) \in Nat /\ BytesOf(stream[delivered[k]]) \in Nat
      BY <3>1, <3>2, Zenon
    <3> QED BY <1>1, <1>8, <3>1, <3>3 DEF Passed
  <2> QED BY <1>1, <1>7, <2>1, <2>2, <2>3 DEF BehindInv, Passed
<1>12. TypeOK'
  <2>1. lo' \in 0..hi' /\ hi' \in 0..Total'
    BY <1>1, <1>7, <1>8
  <2>2. delivered' \in Seq(1..NumMsgs)
    BY <1>1, <1>10, <1>11
  <2> QED BY <1>1, <2>1, <2>2 DEF IInv, TypeOK
<1>13. FrontInv'
  <2> SUFFICES ASSUME LimitedDamage'
               PROVE  \E j \in 1..(NumMsgs + 1) :
                         lo' = Start(j) /\ \A i \in 1..(j-1) : Intact(i) => Handled(i)'
    BY <1>7 DEF FrontInv
  <2>1. LimitedDamage /\ \A i \in Indices : Limited(stream[i])
    BY <1>1, <1>7 DEF LimitedDamage, Limited, Intact
  <2>2. PICK j \in 1..(NumMsgs + 1) :
           lo = Start(j) /\ \A i \in 1..(j-1) : Intact(i) => Handled(i)
    BY <2>1 DEF IInv, FrontInv
  <2>3. j \in 1..NumMsgs
    <3>1. lo < Total /\ Total = Start(NumMsgs + 1)
      <4>1. NumMsgs \in Nat /\ Total = Start(NumMsgs + 1)
        BY <1>1, StreamIs, Zenon
      <4>2. Start(NumMsgs + 1) \in Nat
        BY <1>5, <4>1
      <4>3. lo < hi /\ hi <= Total /\ lo \in Nat /\ hi \in Nat
        BY <1>1, Zenon
      <4> QED BY <4>1, <4>2, <4>3
    <3>2. ASSUME j = NumMsgs + 1 PROVE FALSE
      <4>1. lo = Total
        BY <2>2, <3>1, <3>2, Zenon
      <4> QED BY <1>1, <3>1, <4>1
    <3> QED BY <1>5, <3>2
  <2>4. r.used = BytesOf(stream[j]) /\ (Intact(j) => r.handled) /\ first = j
    BY <1>4, <1>5, <1>6, <2>1, <2>2, <2>3
  <2>5. lo' = Start(j + 1) /\ j + 1 \in 1..(NumMsgs + 1)
    BY <1>2, <1>5, <2>2, <2>3, <2>4
  <2>6. ASSUME NEW i \in 1..((j+1)-1), Intact(i) PROVE Handled(i)'
    <3>1. CASE i = j
      BY <1>10, <2>4, <2>6, <3>1
    <3>2. CASE i # j
      <4>1. i \in 1..(j-1)
        BY <3>2
      <4> QED BY <1>10, <1>11, <2>2, <2>6, <4>1
    <3> QED BY <3>1, <3>2
  <2> QED BY <2>5, <2>6
<1> QED BY <1>9, <1>10, <1>11, <1>12, <1>13 DEF IInv

\* The inductive invariant holds.
THEOREM InvariantCorrect == Spec => []IInv
<1>1. IInv /\ [Next]_vars => IInv'
  BY NextReceive, NextEvaluate, NextStop, NextEmpty DEF Next
<1> QED BY <1>1, InitInv, PTL DEF Spec

\* The variables keep their types.
THEOREM TypeCorrect == Spec => []TypeOK
<1>1. IInv => TypeOK
  BY DEF IInv
<1> QED BY <1>1, InvariantCorrect, PTL

\* Only intact messages are handled, each once and in order.
THEOREM GenuineCorrect == Spec => []DeliveredGenuine
<1>1. IInv => DeliveredGenuine
  BY DEF IInv
<1> QED BY <1>1, InvariantCorrect, PTL

\* Between two chunks no complete message waits.
THEOREM NothingLeftCorrect == Spec => []NothingLeftBehind
<1>1. IInv => NothingLeftBehind
  BY DEF IInv
<1> QED BY <1>1, InvariantCorrect, PTL

\* The damage a checksum detects is limited to its message: what follows
\* is handled.
THEOREM LimitedCorrect == Spec => []ChecksumLimitsDamage
<1>1. IInv => ChecksumLimitsDamage
  <2> SUFFICES ASSUME IInv, LimitedDamage, NEW i \in Indices, Passed(i), Intact(i)
               PROVE  Handled(i)
    BY DEF ChecksumLimitsDamage
  <2>1. stream \in Streams
    BY DEF IInv, TypeOK, Streams
  <2>2. PICK j \in 1..(NumMsgs + 1) :
           lo = Start(j) /\ \A k \in 1..(j-1) : Intact(k) => Handled(k)
    BY DEF IInv, FrontInv
  <2>3. /\ NumMsgs \in Nat /\ i \in 1..NumMsgs /\ Start(i) \in Nat /\ Start(j) \in Nat
        /\ BytesOf(stream[i]) \in Nat /\ 9 <= BytesOf(stream[i])
    BY <2>1, StreamIs, MessageIs
  <2>4. i # j
    BY <2>2, <2>3 DEF Passed
  <2>5. ~(j < i)
    <3>1. ASSUME j < i PROVE FALSE
      <4>1. j \in 1..NumMsgs /\ i \in 1..(NumMsgs + 1)
        BY <2>3, <3>1
      <4>2. /\ Start(j) + BytesOf(stream[j]) <= Start(i)
            /\ BytesOf(stream[j]) \in Nat
        BY <2>1, <3>1, <4>1, StreamIs, MessageIs
      <4> QED BY <2>2, <2>3, <4>2 DEF Passed
    <3> QED BY <3>1
  <2>6. i \in 1..(j-1)
    BY <2>3, <2>4, <2>5
  <2> QED BY <2>2, <2>6
<1> QED BY <1>1, InvariantCorrect, PTL
=============================================================================
