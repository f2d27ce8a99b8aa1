-------------------------- MODULE DtxClientsProofs --------------------------
(***************************************************************************)
(* Proofs about DtxClients, for every number of files and workers and      *)
(* every size of the buffers.  The list of open files is treated without   *)
(* an order on it: what matters is which sets are closed under next.       *)
(***************************************************************************)
EXTENDS DtxClients, SequenceTheorems, TLAPS

-----------------------------------------------------------------------------
(* Positions in a buffer *)

\* The remainder by the size of a buffer, of what the code computes with.
LEMMA Remainder ==
  ASSUME NEW x \in Int
  PROVE  /\ 0 <= x /\ x < BufSize => x % BufSize = x
         /\ BufSize <= x /\ x < 2 * BufSize => x % BufSize = x - BufSize
         /\ -BufSize <= x /\ x < 0 => x % BufSize = x + BufSize
         /\ x % BufSize \in 0..BufSize-1
<1>1. BufSize \in Nat \ {0, 1}
  BY ClientsAssumption
<1> DEFINE q == x \div BufSize
           r == x % BufSize
<1>2. q \in Int /\ r \in 0..BufSize-1 /\ x = BufSize * q + r
  BY <1>1
<1> HIDE DEF q, r
<1>3. CASE q = 0
  BY <1>1, <1>2, <1>3 DEF r
<1>4. CASE q = 1
  BY <1>1, <1>2, <1>4 DEF r
<1>5. CASE q = -1
  BY <1>1, <1>2, <1>5 DEF r
<1>6. CASE q >= 2
  <2>1. BufSize * q >= 2 * BufSize
    BY <1>1, <1>2, <1>6
  <2> QED BY <1>1, <1>2, <2>1 DEF r
<1>7. CASE q <= -2
  <2>1. BufSize * q <= -2 * BufSize
    BY <1>1, <1>2, <1>7
  <2> QED BY <1>1, <1>2, <2>1 DEF r
<1> QED BY <1>2, <1>3, <1>4, <1>5, <1>6, <1>7

LEMMA StepType == ASSUME NEW i \in 0..BufSize-1 PROVE Step(i) \in 0..BufSize-1
<1>1. i + 1 \in Int
  BY ClientsAssumption
<1> QED BY <1>1, Remainder DEF Step

LEMMA StepIs ==
  ASSUME NEW i \in 0..BufSize-1
  PROVE  Step(i) = IF i = BufSize - 1 THEN 0 ELSE i + 1
<1>1. i + 1 \in Int /\ 0 <= i + 1 /\ i + 1 <= BufSize /\ BufSize \in Nat \ {0, 1} /\ i \in Int
  BY ClientsAssumption
<1>2. CASE i = BufSize - 1
  BY <1>1, <1>2, Remainder DEF Step
<1>3. CASE i # BufSize - 1
  BY <1>1, <1>3, Remainder DEF Step
<1> QED BY <1>2, <1>3

-----------------------------------------------------------------------------
(* Type correctness, and what is pushed *)

TypeInv == TypeOK /\ EventInv

LEMMA InitType == Init => TypeInv
<1> SUFFICES ASSUME Init PROVE TypeInv
  OBVIOUS
<1>1. 0 \in 0..BufSize-1 /\ 0 \in 0..MaxRead
  BY ClientsAssumption
<1>2. NoEvents \in [0..BufSize-1 -> Events \union {NoEvent}]
  BY DEF NoEvents
<1> QED
  BY <1>1, <1>2 DEF Init, TypeInv, TypeOK, EventInv, DriverSteps, Nodes

LEMMA NextType == TypeInv /\ [Next]_vars => TypeInv'
<1> SUFFICES ASSUME TypeInv, [Next]_vars PROVE TypeInv'
  OBVIOUS
<1> USE DEF TypeInv, EventInv, driverVars, listVars, bufVars, readVars, pushVars
<1>1. ASSUME NEW f \in Files, Open(f) \/ Release(f) \/ IoctlStart(f) PROVE TypeInv'
  <2>1. /\ f \in Nodes /\ ListHead \in Nodes
        /\ \A n \in Nodes : next[n] \in Nodes /\ prev[n] \in Nodes
        /\ Traversing \subseteq Workers
    BY DEF Nodes, TypeOK, Traversing
  <2>2. CASE Open(f)
    BY <2>1, <2>2 DEF Open, TypeOK
  <2>3. CASE Release(f)
    BY <2>1, <2>3 DEF Release, TypeOK
  <2>4. CASE IoctlStart(f)
    BY <2>4 DEF IoctlStart, TypeOK
  <2> QED BY <1>1, <2>2, <2>3, <2>4
<1>2. ASSUME NEW f \in Files, Free(f) PROVE TypeInv'
  <2>1. NoEvents \in [0..BufSize-1 -> Events \union {NoEvent}] /\ 0 \in 0..BufSize-1
    BY ClientsAssumption DEF NoEvents
  <2> QED BY <1>2, <2>1 DEF Free, TypeOK
<1>3. ASSUME NEW f \in Files, NEW n \in 1..MaxRead, ReadStart(f, n) PROVE TypeInv'
  <2>1. n \in 0..MaxRead
    BY ClientsAssumption
  <2> QED BY <1>3, <2>1 DEF ReadStart, TypeOK
<1>4. ASSUME NEW f \in Files, ReadCheck(f) \/ ReadInterrupted(f) \/ ReadDone(f)
      PROVE  TypeInv'
  <2>1. ReadReturns(f) => /\ rd' \in [Files -> {"idle", "check", "sleep", "copy"}]
                          /\ want' \in [Files -> 0..MaxRead]
                          /\ got' \in [Files -> 0..MaxRead]
    BY ClientsAssumption DEF ReadReturns, TypeOK
  <2>2. CASE ReadCheck(f)
    <3>1. /\ rd' \in [Files -> {"idle", "check", "sleep", "copy"}]
          /\ want' \in [Files -> 0..MaxRead]
          /\ got' \in [Files -> 0..MaxRead]
      BY <2>1, <2>2 DEF ReadCheck, TypeOK
    <3>2. waitq' \subseteq Files
      BY <2>2 DEF ReadCheck, TypeOK
    <3>3. UNCHANGED <<driverVars, listVars, file, grace, bufVars, pushVars, ioctl>>
      BY <2>2 DEF ReadCheck
    <3> QED BY <3>1, <3>2, <3>3 DEF TypeOK
  <2>3. CASE ReadInterrupted(f) \/ ReadDone(f)
    BY <2>1, <2>3 DEF ReadInterrupted, ReadDone, TypeOK
  <2> QED BY <1>4, <2>2, <2>3
<1>5. ASSUME NEW f \in Files, ReadCopy(f) \/ ReadFault(f) PROVE TypeInv'
  <2>1. 0 \in 0..MaxRead /\ Step(tail[f]) \in 0..BufSize-1
    BY ClientsAssumption, StepType DEF TypeOK
  <2>2. got[f] < want[f] => got[f] + 1 \in 0..MaxRead
    BY ClientsAssumption DEF TypeOK
  <2>3. CASE ReadCopy(f)
    BY <2>1, <2>2, <2>3 DEF ReadCopy, TypeOK
  <2>4. CASE ReadFault(f)
    BY <2>1, <2>4 DEF ReadFault, ReadReturns, TypeOK
  <2> QED BY <1>5, <2>3, <2>4
<1>6. CASE IoctlEnd
  BY <1>6 DEF IoctlEnd, TypeOK
<1>7. ASSUME NEW w \in Workers, NEW e \in Events \ {OpMode}, HandleEvent(w, e)
      PROVE  TypeInv'
  BY <1>7 DEF HandleEvent, TypeOK
<1>8. ASSUME NEW w \in Workers, PushStart(w) PROVE TypeInv'
  BY <1>8, ClientsAssumption DEF PushStart, TypeOK, Nodes
<1>9. ASSUME NEW w \in Workers, Push(w) PROVE TypeInv'
  <2> DEFINE f == at[w]
  <2>1. f \in Files /\ ev[w] \in Events /\ f # Nowhere
    BY <1>9, ClientsAssumption DEF Push, TypeOK
  <2>2. Step(head[f]) \in 0..BufSize-1 /\ Step(tail[f]) \in 0..BufSize-1
    BY <2>1, StepType DEF TypeOK
  <2>3. head' \in [Files -> 0..BufSize-1] /\ tail' \in [Files -> 0..BufSize-1]
    BY <1>9, <2>1, <2>2 DEF Push, TypeOK
  <2>4. buf' \in [Files -> [0..BufSize-1 -> Events \union {NoEvent}]]
    BY <1>9, <2>1 DEF Push, TypeOK
  <2>5. at' \in [Workers -> Nodes \union {Nowhere, InHandler}]
    BY <1>9, <2>1 DEF Push, TypeOK, Nodes
  <2>6. \A v \in Workers : at'[v] # Nowhere => at[v] # Nowhere
    BY <1>9, <2>1 DEF Push, TypeOK
  <2> QED BY <1>9, <2>3, <2>4, <2>5, <2>6 DEF Push, TypeOK
<1>10. ASSUME NEW w \in Workers, PushEnd(w) PROVE TypeInv'
  <2>1. /\ rd' \in [Files -> {"idle", "check", "sleep", "copy"}]
        /\ waitq' \subseteq Files
        /\ grace' \in [Files -> SUBSET Workers]
    BY <1>10 DEF PushEnd, WakeUp, TypeOK
  <2>2. /\ at' \in [Workers -> Nodes \union {Nowhere, InHandler}]
        /\ ev' \in [Workers -> Events \union {NoEvent}]
    <3>1. OpMode \in Events
      BY ClientsAssumption
    <3>2. CASE ev[w] = Connection
      BY <1>10, <3>1, <3>2 DEF PushEnd, TypeOK
    <3>3. CASE ev[w] # Connection
      BY <1>10, <3>3 DEF PushEnd, TypeOK
    <3> QED BY <3>2, <3>3
  <2>3. ASSUME NEW v \in Workers, at'[v] # Nowhere PROVE ev'[v] \in Events
    <3>1. at \in [Workers -> Nodes \union {Nowhere, InHandler}]
          /\ ev \in [Workers -> Events \union {NoEvent}]
      BY DEF TypeOK
    <3>2. CASE v # w
      <4>1. at'[v] = at[v] /\ ev'[v] = ev[v]
        BY <1>10, <3>1, <3>2 DEF PushEnd
      <4> QED BY <2>3, <4>1
    <3>3. CASE v = w
      <4>1. ev[w] = Connection /\ ev'[w] = OpMode
        BY <1>10, <2>3, <3>1, <3>3 DEF PushEnd
      <4> QED BY <3>3, <4>1, ClientsAssumption
    <3> QED BY <3>2, <3>3
  <2>4. TypeOK'
    BY <1>10, <2>1, <2>2, SMTT(30) DEF PushEnd, TypeOK
  <2> QED BY <2>3, <2>4
<1>11. CASE ProbeInit
  BY <1>11 DEF ProbeInit, TypeOK, DriverSteps, Nodes
<1>12. CASE Probing
  BY <1>12
  DEF Probing, ProbeRegister, ProbeHandler, ProbeEvents, ProbeUndone, ProbeFails, TypeOK,
      DriverSteps
<1>13. CASE RemoveStart \/ DisableEvents \/ EventsDisabled \/ Deregister
  BY <1>13 DEF RemoveStart, DisableEvents, EventsDisabled, Deregister, TypeOK, DriverSteps
<1>14. CASE RemoveWakes
  BY <1>14 DEF RemoveWakes, WakeUp, TypeOK, DriverSteps
<1>15. CASE UNCHANGED vars
  BY <1>15 DEF vars, TypeOK
<1> QED
  BY <1>1, <1>2, <1>3, <1>4, <1>5, <1>6, <1>7, <1>8, <1>9, <1>10, <1>11, <1>12, <1>13,
     <1>14, <1>15
  DEF Next, Reader, Worker, Removing

\* Every variable keeps to the values it is declared for.
THEOREM TypeCorrect == Spec => []TypeOK
<1>1. TypeInv => TypeOK
  BY DEF TypeInv
<1> QED BY <1>1, InitType, NextType, PTL DEF Spec

-----------------------------------------------------------------------------
(* Commands *)

LEMMA NextCommand == CommandWhileActive /\ [Next]_vars => CommandWhileActive'
<1> SUFFICES ASSUME CommandWhileActive, [Next]_vars PROVE CommandWhileActive'
  OBVIOUS
<1> USE DEF CommandWhileActive, driverVars
<1>1. ASSUME NEW f \in Files,
             \/ Open(f) \/ Release(f) \/ Free(f) \/ Reader(f) \/ ReadInterrupted(f)
             \/ \E n \in 1..MaxRead : ReadStart(f, n)
      PROVE  CommandWhileActive'
  BY <1>1
  DEF Open, Release, Free, Reader, ReadStart, ReadCheck, ReadCopy, ReadFault, ReadDone,
      ReadInterrupted
<1>2. ASSUME NEW f \in Files, IoctlStart(f) PROVE CommandWhileActive'
  BY <1>2 DEF IoctlStart
<1>3. CASE IoctlEnd
  BY <1>3 DEF IoctlEnd
<1>4. ASSUME NEW w \in Workers, Worker(w) \/ \E e \in Events : HandleEvent(w, e)
      PROVE  CommandWhileActive'
  BY <1>4 DEF Worker, PushStart, Push, PushEnd, HandleEvent
<1>5. CASE ProbeInit \/ RemoveStart
  BY <1>5 DEF ProbeInit, RemoveStart
<1>6. CASE Probing \/ Removing \/ UNCHANGED vars
  BY <1>6
  DEF Probing, ProbeRegister, ProbeHandler, ProbeEvents, ProbeUndone, ProbeFails, Removing,
      DisableEvents, EventsDisabled, RemoveWakes, Deregister, vars
<1> QED BY <1>1, <1>2, <1>3, <1>4, <1>5, <1>6 DEF Next

\* No command is on its way to the EC while the device is not active.
THEOREM CommandCorrect == Spec => []CommandWhileActive
<1>1. Init => CommandWhileActive
  BY DEF Init, CommandWhileActive
<1> QED BY <1>1, NextCommand, PTL DEF Spec

-----------------------------------------------------------------------------
(* The list *)

LEMMA LinkedNodes == ListHead \in Linked /\ Linked \subseteq Nodes
  BY DEF Linked, Nodes

\* A set that is closed under next holds every open file.
LEMMA ClosedHoldsOpen ==
  ASSUME ListInv, NEW S \in SUBSET Nodes, ClosedFromHead(S)
  PROVE  Linked \subseteq S
  BY DEF ListInv, Listed, Linked, ClosedFromHead

\* list_add_tail_rcu
LEMMA OpenList ==
  ASSUME TypeOK, ListInv, NEW f \in Files, Open(f)
  PROVE  ListInv'
<1> DEFINE p == prev[ListHead]
<1>1. /\ f \notin Linked /\ f \in Nodes
      /\ Linked' = Linked \union {f}
  BY ClientsAssumption DEF Open, Linked, TypeOK, Nodes
<1>2. p \in Linked /\ next[p] = ListHead /\ p # f
  BY <1>1, LinkedNodes DEF ListInv, LinkInv
<1>3. ListHead \in Nodes /\ ListHead # f /\ p \in Nodes
  BY <1>2, LinkedNodes, ClientsAssumption
<1>4. /\ next'[f] = ListHead /\ next'[p] = f
      /\ \A n \in Nodes \ {f, p} : next'[n] = next[n]
  BY <1>1, <1>2, <1>3 DEF Open, TypeOK
<1>5. /\ prev'[f] = p /\ prev'[ListHead] = f
      /\ \A n \in Nodes \ {f, ListHead} : prev'[n] = prev[n]
  BY <1>1, <1>2, <1>3 DEF Open, TypeOK
<1> HIDE DEF p
<1>6. \A n \in Linked : n \in Nodes /\ next[n] \in Linked /\ prev[n] \in Linked
                       /\ prev[next[n]] = n /\ next[prev[n]] = n
  BY LinkedNodes DEF ListInv, LinkInv
<1>7. LinkInv'
  <2> SUFFICES ASSUME NEW n \in Linked'
               PROVE  /\ next'[n] \in Linked' /\ prev'[n] \in Linked'
                      /\ prev'[next'[n]] = n /\ next'[prev'[n]] = n
    BY DEF LinkInv
  <2>1. prev[ListHead] = p
    BY DEF p
  <2>2. CASE n = f
    BY <1>1, <1>2, <1>4, <1>5, <2>2, LinkedNodes
  <2>3. CASE n # f
    <3>1. n \in Linked
      BY <1>1, <2>3
    <3>2. next'[n] \in Linked' /\ prev'[next'[n]] = n
      <4>1. CASE n = p
        BY <1>1, <1>4, <1>5, <4>1
      <4>2. CASE n # p
        <5>1. next'[n] = next[n] /\ next[n] # f /\ next[n] # ListHead
          BY <1>1, <1>4, <1>6, <2>1, <2>3, <3>1, <4>2
        <5> QED BY <1>1, <1>5, <1>6, <3>1, <5>1
      <4> QED BY <4>1, <4>2
    <3>3. prev'[n] \in Linked' /\ next'[prev'[n]] = n
      <4>1. CASE n = ListHead
        BY <1>1, <1>4, <1>5, <4>1
      <4>2. CASE n # ListHead
        <5>1. prev'[n] = prev[n] /\ prev[n] # f /\ prev[n] # p
          BY <1>1, <1>2, <1>5, <1>6, <2>3, <3>1, <4>2
        <5> QED BY <1>1, <1>4, <1>6, <3>1, <5>1
      <4> QED BY <4>1, <4>2
    <3> QED BY <3>2, <3>3
  <2> QED BY <2>2, <2>3
<1>8. ASSUME NEW S \in SUBSET Nodes, ListHead \in S, \A n \in S : next'[n] \in S
      PROVE  Linked' \subseteq S
  <2>1. ClosedFromHead(S \intersect Linked)
    <3> SUFFICES ASSUME NEW n \in S \intersect Linked PROVE next[n] \in S \intersect Linked
      BY <1>8, LinkedNodes DEF ClosedFromHead
    <3>1. next[n] \in Linked
      BY <1>6
    <3>2. CASE n = p
      BY <1>2, <1>8, <3>1, <3>2
    <3>3. CASE n # p
      BY <1>1, <1>4, <1>6, <1>8, <3>1, <3>3
    <3> QED BY <3>2, <3>3
  <2>2. Linked \subseteq S
    BY <2>1, ClosedHoldsOpen
  <2>3. f \in S
    BY <1>2, <1>4, <1>8, <2>2
  <2> QED BY <1>1, <2>2, <2>3
<1>9. \A g \in Files : file'[g] = "open" => g \in Listed'
  BY <1>8 DEF Listed, Linked, ClosedFromHead
<1> QED BY <1>7, <1>9 DEF ListInv

\* list_del_rcu
LEMMA ReleaseList ==
  ASSUME TypeOK, ListInv, NEW f \in Files, Release(f)
  PROVE  ListInv'
<1> DEFINE p == prev[f]
           q == next[f]
<1>1. /\ f \in Linked /\ f \in Nodes /\ f # ListHead
      /\ Linked' = Linked \ {f}
  BY ClientsAssumption DEF Release, Linked, TypeOK, Nodes
<1>2. p \in Linked /\ q \in Linked /\ next[p] = f /\ prev[q] = f
  BY <1>1 DEF ListInv, LinkInv
<1>3. p \in Nodes /\ q \in Nodes
  BY <1>2, LinkedNodes
<1>4. /\ next'[p] = q
      /\ \A n \in Nodes \ {p} : next'[n] = next[n]
  BY <1>3 DEF Release, TypeOK
<1>5. /\ prev'[q] = p
      /\ \A n \in Nodes \ {q} : prev'[n] = prev[n]
  BY <1>3 DEF Release, TypeOK
<1>6. \A n \in Linked : n \in Nodes /\ next[n] \in Linked /\ prev[n] \in Linked
                       /\ prev[next[n]] = n /\ next[prev[n]] = n
  BY LinkedNodes DEF ListInv, LinkInv
<1>7. next[f] = q /\ prev[f] = p
  OBVIOUS
<1> HIDE DEF p, q
<1>8. LinkInv'
  <2> SUFFICES ASSUME NEW n \in Linked'
               PROVE  /\ next'[n] \in Linked' /\ prev'[n] \in Linked'
                      /\ prev'[next'[n]] = n /\ next'[prev'[n]] = n
    BY DEF LinkInv
  <2>1. n \in Linked /\ n # f
    BY <1>1
  <2>2. next'[n] \in Linked' /\ prev'[next'[n]] = n
    <3>1. CASE n = p
      <4>1. q # f
        BY <1>2, <1>6, <1>7, <2>1, <3>1
      <4> QED BY <1>1, <1>2, <1>4, <1>5, <3>1, <4>1
    <3>2. CASE n # p
      <4>1. next'[n] = next[n] /\ next[n] # f /\ next[n] # q
        BY <1>2, <1>4, <1>6, <1>7, <2>1, <3>2
      <4> QED BY <1>1, <1>5, <1>6, <2>1, <4>1
    <3> QED BY <3>1, <3>2
  <2>3. prev'[n] \in Linked' /\ next'[prev'[n]] = n
    <3>1. CASE n = q
      <4>1. p # f
        BY <1>2, <1>6, <1>7, <2>1, <3>1
      <4> QED BY <1>1, <1>2, <1>4, <1>5, <3>1, <4>1
    <3>2. CASE n # q
      <4>1. prev'[n] = prev[n] /\ prev[n] # f /\ prev[n] # p
        BY <1>2, <1>5, <1>6, <1>7, <2>1, <3>2
      <4> QED BY <1>1, <1>4, <1>6, <2>1, <4>1
    <3> QED BY <3>1, <3>2
  <2> QED BY <2>2, <2>3
<1>9. ASSUME NEW S \in SUBSET Nodes, ListHead \in S, \A n \in S : next'[n] \in S
      PROVE  Linked' \subseteq S
  <2>1. CASE p \in S
    <3>1. ClosedFromHead(S \union {f})
      <4> SUFFICES ASSUME NEW n \in S \union {f} PROVE next[n] \in S \union {f}
        BY <1>9 DEF ClosedFromHead
      <4>1. CASE n = f
        BY <1>4, <1>7, <1>9, <2>1, <4>1
      <4>2. CASE n = p
        BY <1>2, <4>2
      <4>3. CASE n # f /\ n # p
        BY <1>4, <1>9, <4>3
      <4> QED BY <4>1, <4>2, <4>3
    <3>2. Linked \subseteq S \union {f}
      BY <1>1, <3>1, ClosedHoldsOpen
    <3> QED BY <1>1, <3>2
  <2>2. CASE p \notin S
    <3> DEFINE T == (S \intersect Linked) \ {f}
    <3>1. ClosedFromHead(T)
      <4> SUFFICES ASSUME NEW n \in T PROVE next[n] \in T
        BY <1>1, <1>9, LinkedNodes DEF ClosedFromHead
      <4>1. n \in Linked /\ n # p /\ n \in S /\ n \in Nodes
        BY <1>6, <2>2
      <4>2. next[n] \in Linked /\ next[n] # f
        BY <1>6, <1>7, <4>1
      <4>3. next[n] \in S
        BY <1>4, <1>9, <4>1
      <4> QED BY <4>2, <4>3
    <3>2. Linked \subseteq T
      BY <3>1, ClosedHoldsOpen
    <3> QED BY <1>1, <3>2
  <2> QED BY <2>1, <2>2
<1>10. \A g \in Files : file'[g] = "open" => g \in Listed'
  BY <1>9 DEF Listed, Linked, ClosedFromHead
<1> QED BY <1>8, <1>10 DEF ListInv

\* A step that opens and releases no file, and initialises no list.
OtherStep ==
    /\ UNCHANGED listVars
    /\ \A f \in Files : file'[f] = "open" <=> file[f] = "open"

LEMMA OtherSteps ==
  ASSUME TypeOK, [Next]_vars, ~ProbeInit, \A f \in Files : ~Open(f) /\ ~Release(f)
  PROVE  OtherStep
<1> USE DEF OtherStep
<1>1. ASSUME NEW f \in Files, Free(f) PROVE OtherStep
  BY <1>1 DEF Free, TypeOK
<1>2. ASSUME NEW f \in Files,
             \/ Reader(f) \/ ReadInterrupted(f) \/ IoctlStart(f)
             \/ \E n \in 1..MaxRead : ReadStart(f, n)
      PROVE  OtherStep
  BY <1>2
  DEF Reader, ReadStart, ReadCheck, ReadCopy, ReadFault, ReadDone, ReadInterrupted, IoctlStart
<1>3. ASSUME NEW w \in Workers, Worker(w) \/ \E e \in Events : HandleEvent(w, e)
      PROVE  OtherStep
  BY <1>3 DEF Worker, PushStart, Push, PushEnd, HandleEvent
<1>4. CASE IoctlEnd \/ RemoveStart \/ UNCHANGED vars
  BY <1>4 DEF IoctlEnd, RemoveStart, vars
<1>5. CASE Probing \/ Removing
  BY <1>5
  DEF Probing, ProbeRegister, ProbeHandler, ProbeEvents, ProbeUndone, ProbeFails, Removing,
      DisableEvents, EventsDisabled, RemoveWakes, Deregister
<1> QED BY <1>1, <1>2, <1>3, <1>4, <1>5 DEF Next

LEMMA OtherList ==
  ASSUME OtherStep
  PROVE  Linked' = Linked /\ (ListInv => ListInv')
<1>1. Linked' = Linked
  BY DEF OtherStep, Linked
<1>2. Listed' = Listed
  BY DEF OtherStep, listVars, Listed, ClosedFromHead
<1> QED BY <1>1, <1>2 DEF OtherStep, listVars, ListInv, LinkInv

\* INIT_LIST_HEAD, when no file is open
LEMMA ProbeList ==
  ASSUME ~Rebind, TypeOK, ProbeInit
  PROVE  ListInv' /\ Linked' = {ListHead} /\ next'[ListHead] = ListHead
<1>1. \A f \in Files : file'[f] = "closed"
  BY DEF ProbeInit
<1>2. Linked' = {ListHead}
  BY <1>1 DEF Linked
<1>3. next'[ListHead] = ListHead /\ prev'[ListHead] = ListHead
  BY DEF ProbeInit, TypeOK, Nodes
<1> QED BY <1>1, <1>2, <1>3 DEF ListInv, LinkInv

LEMMA InitList == Init => ListInv /\ GraceInv /\ WorkerInv
<1> SUFFICES ASSUME Init PROVE ListInv /\ GraceInv /\ WorkerInv
  OBVIOUS
<1>1. \A f \in Files : file[f] = "closed" /\ grace[f] = {}
  BY DEF Init
<1>2. Linked = {ListHead} /\ next[ListHead] = ListHead /\ prev[ListHead] = ListHead
  BY <1>1 DEF Linked, Init, Nodes
<1>3. Traversing = {}
  BY ClientsAssumption DEF Init, Traversing, Nodes
<1> QED BY <1>1, <1>2, <1>3 DEF ListInv, LinkInv, GraceInv, WorkerInv

LEMMA NextList == ~Rebind /\ TypeOK /\ ListInv /\ [Next]_vars => ListInv'
<1> SUFFICES ASSUME ~Rebind, TypeOK, ListInv, [Next]_vars PROVE ListInv'
  OBVIOUS
<1>1. CASE \E f \in Files : Open(f) \/ Release(f)
  BY <1>1, OpenList, ReleaseList
<1>2. CASE ProbeInit
  BY <1>2, ProbeList
<1> QED BY <1>1, <1>2, OtherSteps, OtherList

-----------------------------------------------------------------------------
(* The workers in it *)

LEMMA NextGrace == TypeOK /\ GraceInv /\ [Next]_vars => GraceInv'
<1> SUFFICES ASSUME TypeOK, GraceInv, [Next]_vars PROVE GraceInv'
  OBVIOUS
<1> USE DEF GraceInv, Traversing
<1>1. ASSUME NEW f \in Files, Release(f) PROVE GraceInv'
  BY <1>1 DEF Release, TypeOK, pushVars
<1>2. ASSUME NEW w \in Workers, PushStart(w) PROVE GraceInv'
  <2>1. next[ListHead] \in Nodes
    BY DEF TypeOK, Nodes
  <2> QED BY <1>2, <2>1 DEF PushStart, TypeOK
<1>3. ASSUME NEW w \in Workers, Push(w) PROVE GraceInv'
  <2>1. at[w] \in Files /\ next[at[w]] \in Nodes
    BY <1>3 DEF Push, TypeOK, Nodes
  <2> QED BY <1>3, <2>1 DEF Push, TypeOK
<1>4. ASSUME NEW w \in Workers, PushEnd(w) PROVE GraceInv'
  BY <1>4 DEF PushEnd, TypeOK
<1>5. ASSUME NEW w \in Workers, NEW e \in Events, HandleEvent(w, e) PROVE GraceInv'
  <2>1. at[w] \notin Nodes
    BY <1>5, ClientsAssumption DEF HandleEvent, Nodes
  <2> QED BY <1>5, <2>1 DEF HandleEvent, TypeOK
<1>6. ASSUME UNCHANGED <<grace, at>> PROVE GraceInv'
  BY <1>6
<1>7. ASSUME NEW f \in Files,
             \/ Open(f) \/ Free(f) \/ Reader(f) \/ ReadInterrupted(f) \/ IoctlStart(f)
             \/ \E n \in 1..MaxRead : ReadStart(f, n)
      PROVE  UNCHANGED <<grace, at>>
  BY <1>7
  DEF Open, Free, Reader, ReadStart, ReadCheck, ReadCopy, ReadFault, ReadDone,
      ReadInterrupted, IoctlStart, pushVars
<1>8. CASE IoctlEnd \/ ProbeInit \/ RemoveStart \/ UNCHANGED vars
  BY <1>6, <1>8 DEF IoctlEnd, ProbeInit, RemoveStart, vars, pushVars
<1>9. CASE Probing \/ Removing
  BY <1>6, <1>9
  DEF Probing, ProbeRegister, ProbeHandler, ProbeEvents, ProbeUndone, ProbeFails, Removing,
      DisableEvents, EventsDisabled, RemoveWakes, Deregister, pushVars
<1> QED BY <1>1, <1>2, <1>3, <1>4, <1>5, <1>6, <1>7, <1>8, <1>9 DEF Next, Worker

\* What one worker sees it gets to nothing else from.
SeesOn(w) == at[w] \in Visible(w) /\ \A n \in Visible(w) : next[n] \in Visible(w)

LEMMA OpenWorker ==
  ASSUME TypeOK, LinkInv, WorkerInv, NEW f \in Files, Open(f)
  PROVE  WorkerInv'
<1> DEFINE p == prev[ListHead]
<1>1. p \in Linked /\ p \in Nodes /\ f \in Nodes /\ f \notin Linked
  BY LinkedNodes, ClientsAssumption DEF LinkInv, Open, Linked, Nodes
<1>2. /\ next'[f] = ListHead /\ next'[p] = f
      /\ \A n \in Nodes \ {f, p} : next'[n] = next[n]
  BY <1>1, ClientsAssumption DEF Open, TypeOK, Nodes
<1>3. Traversing' = Traversing /\ at' = at
  BY DEF Open, pushVars, Traversing
<1>4. ASSUME NEW w \in Traversing PROVE SeesOn(w)'
  <2>1. Visible(w)' = Visible(w) \union {f}
    BY DEF Open, Visible, Linked, TypeOK
  <2>2. SeesOn(w) /\ f \notin Visible(w) /\ ListHead \in Visible(w)
    <3>1. SeesOn(w)
      BY DEF WorkerInv, SeesOn
    <3>2. f \notin Visible(w) /\ ListHead \in Visible(w)
      BY ClientsAssumption DEF Open, Visible, Linked
    <3> QED BY <3>1, <3>2
  <2>3. Visible(w) \subseteq Nodes
    BY DEF Visible, Linked, Nodes
  <2> HIDE DEF p
  <2>4. ASSUME NEW n \in Visible(w) \union {f} PROVE next'[n] \in Visible(w) \union {f}
    BY <1>2, <2>2, <2>3 DEF SeesOn
  <2> QED BY <1>3, <2>1, <2>2, <2>4 DEF SeesOn
<1> QED BY <1>3, <1>4 DEF WorkerInv, SeesOn

LEMMA ReleaseWorker ==
  ASSUME TypeOK, LinkInv, WorkerInv, NEW f \in Files, Release(f)
  PROVE  WorkerInv'
<1> DEFINE p == prev[f]
<1>1. f \in Linked /\ f \in Nodes /\ p \in Nodes
  BY LinkedNodes DEF LinkInv, Release, Linked, Nodes
<1>2. next[p] = f
  BY <1>1 DEF LinkInv
<1>3. /\ next'[p] = next[f]
      /\ \A n \in Nodes \ {p} : next'[n] = next[n]
  BY <1>1 DEF Release, TypeOK
<1>4. Traversing' = Traversing /\ at' = at
  BY DEF Release, pushVars, Traversing
<1>5. ASSUME NEW w \in Traversing PROVE SeesOn(w)'
  <2>1. Visible(w)' = Visible(w)
    <3>1. /\ file[f] = "open" /\ file'[f] = "releasing" /\ w \in grace'[f]
          /\ \A g \in Files \ {f} : file'[g] = file[g] /\ grace'[g] = grace[g]
      BY DEF Release, TypeOK
    <3>2. \A n : n \in Visible(w) <=> \/ n = ListHead
                                      \/ n \in Files /\ file[n] = "open"
                                      \/ n \in Files /\ file[n] = "releasing" /\ w \in grace[n]
      BY DEF Visible, Linked
    <3>3. \A n : n \in Visible(w)' <=> \/ n = ListHead
                                       \/ n \in Files /\ file'[n] = "open"
                                       \/ n \in Files /\ file'[n] = "releasing" /\ w \in grace'[n]
      BY DEF Visible, Linked
    <3>4. \A n : n \in Visible(w)' <=> n \in Visible(w)
      BY <3>1, <3>2, <3>3
    <3> QED BY <3>4
  <2>2. SeesOn(w) /\ f \in Visible(w) /\ Visible(w) \subseteq Nodes
    BY <1>1 DEF WorkerInv, SeesOn, Visible, Linked, Nodes
  <2> HIDE DEF p
  <2>3. ASSUME NEW n \in Visible(w) PROVE next'[n] \in Visible(w)
    BY <1>3, <2>2 DEF SeesOn
  <2> QED BY <1>4, <2>1, <2>2, <2>3 DEF SeesOn
<1> QED BY <1>4, <1>5 DEF WorkerInv, SeesOn

LEMMA NextWorker ==
  ASSUME ~Rebind, TypeOK, LinkInv, GraceInv, WorkerInv, [Next]_vars
  PROVE  WorkerInv'
<1> USE DEF WorkerInv, listVars
<1>1. ASSUME NEW f \in Files, Open(f) \/ Release(f) PROVE WorkerInv'
  BY <1>1, OpenWorker, ReleaseWorker
<1>2. ASSUME NEW f \in Files, Free(f) PROVE WorkerInv'
  <2>1. \A w : Visible(w)' = Visible(w)
    BY <1>2 DEF Free, Visible, Linked, TypeOK
  <2> QED BY <1>2, <2>1 DEF Free, Traversing, pushVars
<1>3. ASSUME NEW w \in Workers, PushStart(w) PROVE WorkerInv'
  <2>1. w \notin Traversing
    BY <1>3, ClientsAssumption DEF PushStart, Traversing, Nodes
  <2>2. \A v : Visible(v)' = Visible(v)
    BY <1>3 DEF PushStart, Visible, Linked
  <2>3. Visible(w) = Linked
    BY <2>1 DEF GraceInv, Visible
  <2>4. /\ at'[w] = next[ListHead] /\ next' = next
        /\ \A v \in Workers \ {w} : at'[v] = at[v]
    BY <1>3 DEF PushStart, TypeOK
  <2>5. ASSUME NEW v \in Traversing', v # w PROVE v \in Traversing /\ at'[v] = at[v]
    BY <2>4, <2>5 DEF Traversing
  <2>6. \A n \in Linked : next[n] \in Linked
    BY DEF LinkInv
  <2> QED BY <2>2, <2>3, <2>4, <2>5, <2>6, LinkedNodes
<1>4. ASSUME NEW w \in Workers, Push(w) PROVE WorkerInv'
  <2>1. \A v : Visible(v)' = Visible(v)
    BY <1>4 DEF Push, Visible, Linked
  <2>2. /\ at'[w] = next[at[w]] /\ next' = next
        /\ \A v \in Workers \ {w} : at'[v] = at[v]
    BY <1>4 DEF Push, TypeOK
  <2>3. w \in Traversing
    BY <1>4 DEF Push, Traversing, Nodes
  <2>4. ASSUME NEW v \in Traversing', v # w PROVE v \in Traversing /\ at'[v] = at[v]
    BY <2>2, <2>4 DEF Traversing
  <2> QED BY <2>1, <2>2, <2>3, <2>4
<1>5. ASSUME NEW w \in Workers, PushEnd(w) PROVE WorkerInv'
  <2>1. \A v \in Workers \ {w} : Visible(v)' = Visible(v) /\ at'[v] = at[v]
    BY <1>5 DEF PushEnd, Visible, Linked, TypeOK
  <2>2. at'[w] \in {Nowhere, InHandler} /\ next' = next
    BY <1>5 DEF PushEnd, TypeOK
  <2>3. Traversing' \subseteq Traversing \ {w}
    BY <2>1, <2>2, ClientsAssumption DEF Traversing, Nodes
  <2>4. Traversing \subseteq Workers
    BY DEF Traversing
  <2> QED BY <2>1, <2>2, <2>3, <2>4
<1>6. ASSUME NEW w \in Workers, NEW e \in Events, HandleEvent(w, e) PROVE WorkerInv'
  <2>1. \A v : Visible(v)' = Visible(v)
    BY <1>6 DEF HandleEvent, Visible, Linked
  <2>2. /\ at'[w] = InHandler /\ next' = next
        /\ \A v \in Workers \ {w} : at'[v] = at[v]
    BY <1>6 DEF HandleEvent, TypeOK
  <2>3. ASSUME NEW v \in Traversing' PROVE v \in Traversing /\ at'[v] = at[v]
    BY <2>2, <2>3, ClientsAssumption DEF Traversing, Nodes
  <2> QED BY <2>1, <2>2, <2>3
<1>7. CASE ProbeInit
  <2>1. \A f \in Files : file[f] = "closed" /\ file'[f] = "closed"
    BY <1>7 DEF ProbeInit
  <2>2. \A w : Visible(w) = {ListHead} /\ Visible(w)' = {ListHead}
    BY <2>1 DEF Visible, Linked
  <2>3. Traversing' = Traversing /\ at' = at
    BY <1>7 DEF ProbeInit, Traversing, pushVars
  <2>4. next'[ListHead] = ListHead
    BY <1>7, ProbeList
  <2> QED BY <2>2, <2>3, <2>4
<1>8. ASSUME UNCHANGED <<at, grace, file, next>> PROVE WorkerInv'
  <2>1. \A w : Visible(w)' = Visible(w)
    BY <1>8 DEF Visible, Linked
  <2> QED BY <1>8, <2>1 DEF Traversing
<1>9. ASSUME NEW f \in Files,
             \/ Reader(f) \/ ReadInterrupted(f) \/ IoctlStart(f)
             \/ \E n \in 1..MaxRead : ReadStart(f, n)
      PROVE  UNCHANGED <<at, grace, file, next>>
  BY <1>9
  DEF Reader, ReadStart, ReadCheck, ReadCopy, ReadFault, ReadDone, ReadInterrupted,
      IoctlStart, pushVars
<1>10. CASE IoctlEnd \/ RemoveStart \/ UNCHANGED vars
  BY <1>8, <1>10 DEF IoctlEnd, RemoveStart, vars, pushVars
<1>11. CASE Probing \/ Removing
  BY <1>8, <1>11
  DEF Probing, ProbeRegister, ProbeHandler, ProbeEvents, ProbeUndone, ProbeFails, Removing,
      DisableEvents, EventsDisabled, RemoveWakes, Deregister, pushVars
<1> QED
  BY <1>1, <1>2, <1>3, <1>4, <1>5, <1>6, <1>7, <1>8, <1>9, <1>10, <1>11 DEF Next, Worker

-----------------------------------------------------------------------------
\* The inductive invariant holds.
THEOREM InvariantCorrect == Spec => []IInv
<1>1. Init => IInv
  BY InitType, InitList DEF Init, IInv, TypeInv, CommandWhileActive
<1>2. IInv /\ [Next]_vars => IInv'
  <2> SUFFICES ASSUME IInv, [Next]_vars PROVE IInv'
    OBVIOUS
  <2>1. TypeOK' /\ EventInv' /\ CommandWhileActive'
    BY NextType, NextCommand DEF IInv, TypeInv
  <2>2. ASSUME ~Rebind PROVE ListInv' /\ GraceInv' /\ WorkerInv'
    BY <2>2, NextList, NextGrace, NextWorker DEF IInv, ListInv
  <2> QED BY <2>1, <2>2 DEF IInv
<1> QED BY <1>1, <1>2, PTL DEF Spec

\* If the driver is bound again only after all files were closed, no worker
\* writes to a client whose memory is freed ...
THEOREM ClientAliveCorrect == ASSUME ~Rebind PROVE Spec => []ClientAlive
<1>1. IInv => ClientAlive
  BY ClientsAssumption
  DEF IInv, WorkerInv, Traversing, Visible, Linked, Nodes, ClientAlive
<1> QED BY <1>1, InvariantCorrect, PTL

\* ... and every file that is open gets the events.
THEOREM ServedCorrect == ASSUME ~Rebind PROVE Spec => []OpenFileServed
<1>1. IInv => OpenFileServed
  BY DEF IInv, ListInv, OpenFileServed
<1> QED BY <1>1, InvariantCorrect, PTL

-----------------------------------------------------------------------------
(* The ring buffers are queues *)

Positions == 0..BufSize-1

Contents == Events \union {NoEvent}

\* What a buffer b with the positions h and t holds.
Fill(h, t) == (h - t) % BufSize

Ring(b, h, t) == [i \in 1..Fill(h, t) |-> b[(t + i - 1) % BufSize]]

LEMMA QueueIsRing ==
  ASSUME NEW f
  PROVE  /\ Queue(f) = Ring(buf[f], head[f], tail[f])
         /\ Queue(f)' = Ring(buf'[f], head'[f], tail'[f])
  BY DEF Queue, Ring, Fill

LEMMA FillIs ==
  ASSUME NEW h \in Positions, NEW t \in Positions
  PROVE  /\ Fill(h, t) = IF h >= t THEN h - t ELSE h - t + BufSize
         /\ Fill(h, t) \in Positions
<1>1. BufSize \in Nat \ {0, 1} /\ h \in 0..BufSize-1 /\ t \in 0..BufSize-1
  BY ClientsAssumption DEF Positions
<1>2. h - t \in Int /\ h - t < BufSize /\ -BufSize <= h - t
  BY <1>1
<1>3. CASE h >= t
  BY <1>1, <1>2, <1>3, Remainder DEF Fill, Positions
<1>4. CASE h < t
  <2>1. h - t < 0 /\ ~(h >= t)
    BY <1>1, <1>4
  <2>2. (h - t) % BufSize = (h - t) + BufSize /\ (h - t) % BufSize \in 0..BufSize-1
    BY <1>2, <2>1, Remainder
  <2> QED BY <2>1, <2>2 DEF Fill, Positions
<1> QED BY <1>1, <1>3, <1>4

LEMMA Wrapped ==
  ASSUME NEW x \in Int, 0 <= x, x < 2 * BufSize
  PROVE  /\ x % BufSize = IF x < BufSize THEN x ELSE x - BufSize
         /\ x % BufSize \in Positions
<1>1. BufSize \in Nat \ {0, 1} /\ x % BufSize \in 0..BufSize-1
  BY ClientsAssumption, Remainder
<1>2. CASE x < BufSize
  BY <1>1, <1>2, Remainder DEF Positions
<1>3. CASE ~(x < BufSize)
  <2>1. BufSize <= x
    BY <1>1, <1>3
  <2>2. x % BufSize = x - BufSize
    BY <2>1, Remainder, Zenon
  <2> QED BY <1>1, <1>3, <2>2, Zenon DEF Positions
<1> QED BY <1>2, <1>3, Zenon

LEMMA PositionIs ==
  ASSUME NEW t \in Positions, NEW i \in 1..BufSize
  PROVE  /\ (t + i - 1) % BufSize = IF t + i - 1 < BufSize THEN t + i - 1 ELSE t + i - 1 - BufSize
         /\ (t + i - 1) % BufSize \in Positions
<1>1. BufSize \in Nat \ {0, 1} /\ t \in 0..BufSize-1
  BY ClientsAssumption DEF Positions
<1>2. t + i - 1 \in Int /\ 0 <= t + i - 1 /\ t + i - 1 < 2 * BufSize
  BY <1>1
<1>3. PICK x \in Int : x = t + i - 1
  BY <1>2
<1>4. 0 <= x /\ x < 2 * BufSize
  BY <1>2, <1>3
<1>5. x % BufSize = (IF x < BufSize THEN x ELSE x - BufSize) /\ x % BufSize \in Positions
  BY <1>4, Wrapped
<1> QED BY <1>1, <1>3, <1>5

LEMMA RingType ==
  ASSUME NEW b \in [Positions -> Contents], NEW h \in Positions, NEW t \in Positions
  PROVE  /\ Ring(b, h, t) \in Seq(Contents)
         /\ Len(Ring(b, h, t)) = Fill(h, t)
         /\ Fill(h, t) \in Nat /\ Fill(h, t) < BufSize
         /\ \A i \in 1..Fill(h, t) : Ring(b, h, t)[i] = b[(t + i - 1) % BufSize]
<1>1. Fill(h, t) \in Nat /\ Fill(h, t) < BufSize /\ BufSize \in Nat
  <2>1. Fill(h, t) \in Positions
    BY FillIs
  <2> QED BY <2>1, ClientsAssumption DEF Positions
<1>2. \A i \in 1..Fill(h, t) : b[(t + i - 1) % BufSize] \in Contents
  BY <1>1, PositionIs
<1>3. Ring(b, h, t) \in [1..Fill(h, t) -> Contents]
  BY <1>2 DEF Ring
<1>4. Ring(b, h, t) \in Seq(Contents) /\ Len(Ring(b, h, t)) = Fill(h, t)
  BY <1>1, <1>3, SeqDef, LenProperties
<1> QED BY <1>1, <1>4 DEF Ring

LEMMA RingEmpty ==
  ASSUME NEW b \in [Positions -> Contents], NEW h \in Positions
  PROVE  Ring(b, h, h) = <<>>
<1>1. Fill(h, h) = 0
  BY FillIs, ClientsAssumption DEF Positions
<1> QED BY <1>1, RingType, EmptySeq

\* Moving the tail on takes the oldest event ...
LEMMA RingGet ==
  ASSUME NEW b \in [Positions -> Contents], NEW h \in Positions, NEW t \in Positions, h # t
  PROVE  /\ Ring(b, h, t) # <<>>
         /\ Ring(b, h, Step(t)) = Tail(Ring(b, h, t))
<1> DEFINE n == Fill(h, t)
           s == Ring(b, h, t)
           r == Ring(b, h, Step(t))
<1>1. BufSize \in Nat \ {0, 1} /\ h \in 0..BufSize-1 /\ t \in 0..BufSize-1
  BY ClientsAssumption DEF Positions
<1>2. Step(t) \in Positions /\ Step(t) = IF t = BufSize - 1 THEN 0 ELSE t + 1
  BY <1>1, StepType, StepIs DEF Positions
<1>3. n \in Nat /\ n > 0 /\ n < BufSize /\ Fill(h, Step(t)) = n - 1
  <2>1. /\ n = IF h >= t THEN h - t ELSE h - t + BufSize
        /\ Fill(h, Step(t)) = IF h >= Step(t) THEN h - Step(t) ELSE h - Step(t) + BufSize
    BY <1>2, FillIs
  <2> QED BY <1>1, <1>2, <2>1
<1>4. /\ s \in Seq(Contents) /\ Len(s) = n
      /\ \A i \in 1..n : s[i] = b[(t + i - 1) % BufSize]
  BY RingType
<1>5. /\ r \in Seq(Contents) /\ Len(r) = n - 1
      /\ \A i \in 1..(n-1) : r[i] = b[(Step(t) + i - 1) % BufSize]
  <2>1. /\ r \in Seq(Contents) /\ Len(r) = Fill(h, Step(t))
        /\ \A i \in 1..Fill(h, Step(t)) : r[i] = b[(Step(t) + i - 1) % BufSize]
    BY <1>2, RingType, Zenon
  <2> QED BY <1>3, <2>1, Zenon
<1> HIDE DEF n, s, r
<1>6. s # <<>>
  BY <1>3, <1>4
<1>7. /\ Tail(s) \in Seq(Contents) /\ Len(Tail(s)) = n - 1
      /\ \A i \in 1..(n-1) : Tail(s)[i] = s[i+1]
  BY <1>4, <1>6, HeadTailProperties
<1>8. ASSUME NEW i \in 1..(n-1) PROVE r[i] = Tail(s)[i]
  <2>1. i \in 1..BufSize /\ i + 1 \in 1..BufSize /\ i + 1 \in 1..n /\ i \in Int
    BY <1>1, <1>3
  <2>2. (Step(t) + i - 1) % BufSize
          = IF Step(t) + i - 1 < BufSize THEN Step(t) + i - 1 ELSE Step(t) + i - 1 - BufSize
    BY <1>2, <2>1, PositionIs
  <2>3. (t + (i+1) - 1) % BufSize
          = IF t + (i+1) - 1 < BufSize THEN t + (i+1) - 1 ELSE t + (i+1) - 1 - BufSize
    BY <2>1, PositionIs
  <2>4. (Step(t) + i - 1) % BufSize = (t + (i+1) - 1) % BufSize
    <3> HIDE DEF Step
    <3> QED BY <1>1, <1>2, <1>3, <2>1, <2>2, <2>3
  <2> QED BY <1>4, <1>5, <1>7, <2>1, <2>4
<1>9. r = Tail(s)
  BY <1>3, <1>5, <1>7, <1>8, SeqEqual
<1> QED BY <1>6, <1>9 DEF r, s

\* ... and writing at the head adds one, while the buffer does not get full.
LEMMA RingPut ==
  ASSUME NEW b \in [Positions -> Contents], NEW h \in Positions, NEW t \in Positions,
         NEW e \in Contents, Step(h) # t
  PROVE  /\ Ring([b EXCEPT ![h] = e], Step(h), t) = Append(Ring(b, h, t), e)
         /\ Len(Ring(b, h, t)) # BufSize - 1
<1> DEFINE n == Fill(h, t)
           c == [b EXCEPT ![h] = e]
           s == Ring(b, h, t)
           r == Ring(c, Step(h), t)
<1>1. BufSize \in Nat \ {0, 1} /\ h \in 0..BufSize-1 /\ t \in 0..BufSize-1
  BY ClientsAssumption DEF Positions
<1>2. Step(h) \in Positions /\ Step(h) = IF h = BufSize - 1 THEN 0 ELSE h + 1
  BY <1>1, StepType, StepIs DEF Positions
<1>3. n = IF h >= t THEN h - t ELSE h - t + BufSize
  BY FillIs
<1>4. n \in Nat /\ n < BufSize - 1 /\ Fill(Step(h), t) = n + 1
  <2>1. Fill(Step(h), t) = IF Step(h) >= t THEN Step(h) - t ELSE Step(h) - t + BufSize
    BY <1>2, FillIs
  <2> QED BY <1>1, <1>2, <1>3, <2>1
<1>5. c \in [Positions -> Contents]
  OBVIOUS
<1>6. /\ s \in Seq(Contents) /\ Len(s) = n
      /\ \A i \in 1..n : s[i] = b[(t + i - 1) % BufSize]
  BY RingType
<1>7. /\ r \in Seq(Contents) /\ Len(r) = n + 1
      /\ \A i \in 1..(n+1) : r[i] = c[(t + i - 1) % BufSize]
  <2> HIDE DEF c, n
  <2>1. /\ r \in Seq(Contents) /\ Len(r) = Fill(Step(h), t)
        /\ \A i \in 1..Fill(Step(h), t) : r[i] = c[(t + i - 1) % BufSize]
    BY <1>2, <1>5, RingType
  <2> HIDE DEF r
  <2> QED BY <1>4, <2>1
<1>8. c[h] = e /\ \A p \in Positions \ {h} : c[p] = b[p]
  OBVIOUS
<1> HIDE DEF n, s, r, c
<1>9. /\ Append(s, e) \in Seq(Contents) /\ Len(Append(s, e)) = n + 1
      /\ \A i \in 1..n : Append(s, e)[i] = s[i]
      /\ Append(s, e)[n + 1] = e
  BY <1>6, AppendProperties
<1>10. ASSUME NEW i \in 1..(n+1) PROVE r[i] = Append(s, e)[i]
  <2>1. i \in 1..BufSize /\ i \in Int
    BY <1>1, <1>4
  <2>2. /\ (t + i - 1) % BufSize
             = IF t + i - 1 < BufSize THEN t + i - 1 ELSE t + i - 1 - BufSize
        /\ (t + i - 1) % BufSize \in Positions
    BY <2>1, PositionIs
  <2>3. CASE i = n + 1
    <3>1. (t + i - 1) % BufSize = h
      BY <1>1, <1>3, <1>4, <2>2, <2>3
    <3> QED BY <1>7, <1>8, <1>9, <2>3, <3>1
  <2>4. CASE i # n + 1
    <3>1. i \in 1..n /\ (t + i - 1) % BufSize # h
      BY <1>1, <1>3, <1>4, <2>1, <2>2, <2>4
    <3> QED BY <1>6, <1>7, <1>8, <1>9, <2>2, <3>1
  <2> QED BY <2>3, <2>4
<1>11. r = Append(s, e)
  BY <1>4, <1>7, <1>9, <1>10, SeqEqual
<1>12. Len(s) # BufSize - 1
  BY <1>1, <1>4, <1>6
<1> QED BY <1>11, <1>12 DEF r, s, c

\* When it does, the oldest event is dropped.
LEMMA RingOverrun ==
  ASSUME NEW b \in [Positions -> Contents], NEW h \in Positions, NEW t \in Positions,
         NEW e \in Contents, Step(h) = t
  PROVE  /\ Ring([b EXCEPT ![h] = e], Step(h), Step(t)) = Append(Tail(Ring(b, h, t)), e)
         /\ Len(Ring(b, h, t)) = BufSize - 1
<1>1. BufSize \in Nat \ {0, 1} /\ h \in 0..BufSize-1 /\ t \in 0..BufSize-1
  BY ClientsAssumption DEF Positions
<1>2. /\ Step(t) \in Positions /\ Step(t) = IF t = BufSize - 1 THEN 0 ELSE t + 1
      /\ t = IF h = BufSize - 1 THEN 0 ELSE h + 1
  BY <1>1, StepType, StepIs DEF Positions
<1>3. h # t /\ Step(h) # Step(t)
  BY <1>1, <1>2
<1>4. Ring(b, h, Step(t)) = Tail(Ring(b, h, t))
  BY <1>3, RingGet
<1>5. Ring([b EXCEPT ![h] = e], Step(h), Step(t)) = Append(Ring(b, h, Step(t)), e)
  BY <1>2, <1>3, RingPut
<1>6. Fill(h, t) = BufSize - 1
  <2>1. Fill(h, t) = IF h >= t THEN h - t ELSE h - t + BufSize
    BY FillIs
  <2> QED BY <1>1, <1>2, <2>1
<1> QED BY <1>4, <1>5, <1>6, RingType

-----------------------------------------------------------------------------
(* Every step is a step of the queues, or none *)

Used == {f \in Files : file[f] # "closed"}

AllQueues == [f \in Files |-> Queue(f)]

QueuesStep == [Queues!QueuesNext]_(Queues!queuesVars)

LEMMA StutterQueues ==
  ASSUME UNCHANGED bufVars, Used' = Used
  PROVE  QueuesStep
<1>1. \A f : Queue(f)' = Queue(f)
  BY DEF bufVars, Queue
<1> QED BY <1>1 DEF QueuesStep, Queues!queuesVars, Used

LEMMA GetStep ==
  ASSUME TypeOK, NEW f \in Files, ~Empty(f),
         tail' = [tail EXCEPT ![f] = Step(@)], UNCHANGED <<file, buf, head>>
  PROVE  QueuesStep
<1>1. /\ buf[f] \in [Positions -> Contents] /\ head[f] \in Positions /\ tail[f] \in Positions
      /\ head[f] # tail[f]
  BY DEF TypeOK, Positions, Contents, Empty
<1>2. /\ tail'[f] = Step(tail[f])
      /\ \A g \in Files \ {f} : tail'[g] = tail[g]
  BY DEF TypeOK
<1>3. Queue(f) # <<>> /\ Queue(f)' = Tail(Queue(f))
  BY <1>1, <1>2, RingGet, QueueIsRing
<1>4. \A g \in Files \ {f} : Queue(g)' = Queue(g)
  BY <1>2 DEF Queue
<1>5. AllQueues' = [AllQueues EXCEPT ![f] = Tail(@)]
  BY <1>3, <1>4 DEF AllQueues
<1>6. AllQueues[f] # <<>> /\ Used' = Used
  BY <1>3 DEF AllQueues, Used
<1>7. Queues!Get(f)
  BY <1>5, <1>6 DEF Queues!Get, AllQueues, Used
<1> QED BY <1>7 DEF QueuesStep, Queues!QueuesNext

LEMMA PutStep ==
  ASSUME TypeOK, EventInv, ClientAlive, NEW w \in Workers, Push(w),
         NEW f \in Files, f = at[w], NEW e, e = ev[w]
  PROVE  QueuesStep
<1>1. f \in Files /\ f \in Used
  BY DEF Push, ClientAlive, Used
<1>2. e \in Events /\ e \in Contents
  BY <1>1, ClientsAssumption DEF EventInv, Contents
<1>3. buf[f] \in [Positions -> Contents] /\ head[f] \in Positions /\ tail[f] \in Positions
  BY <1>1 DEF TypeOK, Positions, Contents
<1>4. /\ buf'[f] = [buf[f] EXCEPT ![head[f]] = e]
      /\ head'[f] = Step(head[f])
      /\ tail'[f] = IF Step(head[f]) = tail[f] THEN Step(tail[f]) ELSE tail[f]
  BY <1>1 DEF Push, TypeOK
<1>5. /\ \A g \in Files \ {f} : buf'[g] = buf[g] /\ head'[g] = head[g] /\ tail'[g] = tail[g]
      /\ file' = file
  BY <1>1 DEF Push, TypeOK
<1>6. Queue(f)' = Append(IF Len(Queue(f)) = BufSize - 1 THEN Tail(Queue(f)) ELSE Queue(f), e)
  <2> DEFINE b == buf[f]
             h == head[f]
             t == tail[f]
  <2>1. /\ b \in [Positions -> Contents] /\ h \in Positions /\ t \in Positions
        /\ Queue(f) = Ring(b, h, t)
    BY <1>3, QueueIsRing
  <2>2. Queue(f)' = Ring([b EXCEPT ![h] = e], Step(h), IF Step(h) = t THEN Step(t) ELSE t)
    BY <1>4, QueueIsRing
  <2> HIDE DEF b, h, t
  <2>3. CASE Step(h) = t
    <3>1. /\ Ring([b EXCEPT ![h] = e], Step(h), Step(t)) = Append(Tail(Ring(b, h, t)), e)
          /\ Len(Ring(b, h, t)) = BufSize - 1
      BY <1>2, <2>1, <2>3, RingOverrun
    <3> QED BY <2>1, <2>2, <2>3, <3>1
  <2>4. CASE Step(h) # t
    <3>1. /\ Ring([b EXCEPT ![h] = e], Step(h), t) = Append(Ring(b, h, t), e)
          /\ Len(Ring(b, h, t)) # BufSize - 1
      BY <1>2, <2>1, <2>4, RingPut
    <3> QED BY <2>1, <2>2, <2>4, <3>1
  <2> QED BY <2>3, <2>4
<1>7. \A g \in Files \ {f} : Queue(g)' = Queue(g)
  BY <1>5 DEF Queue
<1>8. AllQueues' = [AllQueues EXCEPT ![f] = Append(IF Len(@) = BufSize - 1 THEN Tail(@) ELSE @, e)]
  <2> DEFINE q == Append(IF Len(Queue(f)) = BufSize - 1 THEN Tail(Queue(f)) ELSE Queue(f), e)
  <2>1. AllQueues[f] = Queue(f)
    BY <1>1 DEF AllQueues
  <2>2. Queue(f)' = q
    BY <1>6
  <2> HIDE DEF q
  <2>3. \A g \in Files : Queue(g)' = IF g = f THEN q ELSE Queue(g)
    BY <1>7, <2>2
  <2>4. AllQueues' = [g \in Files |-> IF g = f THEN q ELSE Queue(g)]
    BY <2>3 DEF AllQueues
  <2>5. AllQueues' = [AllQueues EXCEPT ![f] = q]
    BY <2>4 DEF AllQueues
  <2> QED BY <2>1, <2>5 DEF q
<1>9. Used' = Used
  BY <1>5 DEF Used
<1>10. Queues!Put(f, e)
  BY <1>1, <1>8, <1>9 DEF Queues!Put, AllQueues, Used
<1> QED BY <1>1, <1>2, <1>10 DEF QueuesStep, Queues!QueuesNext

LEMMA FreeStep ==
  ASSUME TypeOK, NEW f \in Files, Free(f)
  PROVE  QueuesStep
<1>1. Used' = Used \ {f} /\ f \in Used
  BY DEF Free, Used, TypeOK
<1>2. /\ buf'[f] = NoEvents /\ head'[f] = 0 /\ tail'[f] = 0
      /\ \A g \in Files \ {f} : buf'[g] = buf[g] /\ head'[g] = head[g] /\ tail'[g] = tail[g]
  BY DEF Free, TypeOK
<1>3. NoEvents \in [Positions -> Contents] /\ 0 \in Positions
  BY ClientsAssumption DEF NoEvents, Positions, Contents
<1>4. Queue(f)' = <<>>
  BY <1>2, <1>3, RingEmpty, QueueIsRing
<1>5. \A g \in Files \ {f} : Queue(g)' = Queue(g)
  BY <1>2 DEF Queue
<1>6. AllQueues' = [AllQueues EXCEPT ![f] = <<>>]
  BY <1>4, <1>5 DEF AllQueues
<1>7. Queues!Drop(f)
  BY <1>1, <1>6 DEF Queues!Drop, AllQueues, Used
<1> QED BY <1>7 DEF QueuesStep, Queues!QueuesNext

LEMMA CreateStep ==
  ASSUME TypeOK, NEW f \in Files, Open(f)
  PROVE  QueuesStep
<1>1. Used' = Used \union {f} /\ f \notin Used
  BY DEF Open, Used, TypeOK
<1>2. \A g : Queue(g)' = Queue(g)
  BY DEF Open, bufVars, Queue
<1>3. AllQueues' = AllQueues
  BY <1>2 DEF AllQueues
<1>4. Queues!Create(f)
  BY <1>1, <1>3 DEF Queues!Create, AllQueues, Used
<1> QED BY <1>4 DEF QueuesStep, Queues!QueuesNext

LEMMA InitQueues == Init => Queues!QueuesInit
<1> SUFFICES ASSUME Init PROVE Queues!QueuesInit
  OBVIOUS
<1>1. NoEvents \in [Positions -> Contents] /\ 0 \in Positions
  BY ClientsAssumption DEF NoEvents, Positions, Contents
<1>2. \A f \in Files : Queue(f) = <<>>
  BY <1>1, RingEmpty, QueueIsRing DEF Init
<1> QED BY <1>2 DEF Queues!QueuesInit, Init

LEMMA NextQueues ==
  ASSUME TypeOK, EventInv, ClientAlive, [Next]_vars
  PROVE  QueuesStep
<1>1. ASSUME NEW f \in Files, Open(f) \/ Free(f) PROVE QueuesStep
  BY <1>1, CreateStep, FreeStep
<1>2. ASSUME NEW f \in Files, Release(f) PROVE QueuesStep
  <2>1. Used' = Used
    BY <1>2 DEF Release, Used, TypeOK
  <2> QED BY <1>2, <2>1, StutterQueues DEF Release
<1>3. ASSUME NEW f \in Files, ReadCopy(f) \/ ReadFault(f) PROVE QueuesStep
  BY <1>3, GetStep DEF ReadCopy, ReadFault
<1>4. ASSUME NEW w \in Workers, Push(w) PROVE QueuesStep
  BY <1>4, PutStep DEF Push
<1>5. ASSUME UNCHANGED <<bufVars, file>> PROVE QueuesStep
  BY <1>5, StutterQueues DEF Used
<1>6. ASSUME NEW f \in Files,
             \/ ReadCheck(f) \/ ReadDone(f) \/ ReadInterrupted(f) \/ IoctlStart(f)
             \/ \E n \in 1..MaxRead : ReadStart(f, n)
      PROVE  QueuesStep
  BY <1>5, <1>6 DEF ReadStart, ReadCheck, ReadDone, ReadInterrupted, IoctlStart
<1>7. ASSUME NEW w \in Workers,
             PushStart(w) \/ PushEnd(w) \/ \E e \in Events : HandleEvent(w, e)
      PROVE  QueuesStep
  BY <1>5, <1>7 DEF PushStart, PushEnd, HandleEvent
<1>8. CASE IoctlEnd \/ ProbeInit \/ RemoveStart \/ UNCHANGED vars
  BY <1>5, <1>8 DEF IoctlEnd, ProbeInit, RemoveStart, vars
<1>9. CASE Probing \/ Removing
  BY <1>5, <1>9
  DEF Probing, ProbeRegister, ProbeHandler, ProbeEvents, ProbeUndone, ProbeFails, Removing,
      DisableEvents, EventsDisabled, RemoveWakes, Deregister
<1> QED
  BY <1>1, <1>2, <1>3, <1>4, <1>5, <1>6, <1>7, <1>8, <1>9 DEF Next, Reader, Worker

\* Under the same condition the buffer of each file, pushed into by any number
\* of workers and read at the same time, is a queue of its last events.
THEOREM QueuesImplemented == ASSUME ~Rebind PROVE Spec => ImplementsQueues
<1>1. IInv /\ ClientAlive /\ [Next]_vars => [Queues!QueuesNext]_(Queues!queuesVars)
  BY NextQueues DEF IInv, QueuesStep
<1> QED
  BY <1>1, InitQueues, InvariantCorrect, ClientAliveCorrect, PTL
  DEF Spec, ImplementsQueues, Queues!QueuesSpec
=============================================================================
