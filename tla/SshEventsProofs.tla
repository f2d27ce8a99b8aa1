-------------------------- MODULE SshEventsProofs --------------------------
(***************************************************************************)
(* Proofs about SshEvents, for every set of events in flight, of ids and   *)
(* of clients and every number of workers.  The conjuncts of the inductive *)
(* invariant IInv are proved one after the other; a step of an action that *)
(* leaves alone what a conjunct is about is discharged by UNCHANGED.       *)
(***************************************************************************)
EXTENDS SshEvents, SequenceTheorems, TLAPS

-----------------------------------------------------------------------------
(* Types, the callback and the reference count *)

BaseInv == TypeOK /\ CallbackInv /\ FreedAfterLastUse

LEMMA InitBase == Init => BaseInv
<1> SUFFICES ASSUME Init PROVE BaseInv
  OBVIOUS
<1>1. ackQueue \in Seq(Works)
  BY EmptySeq DEF Init
<1>2. TypeOK
  BY <1>1, EventsAssumption
  DEF Init, TypeOK, AckStates, EvtStates, Delays, DriverSteps
<1>3. CallbackInv
  BY DEF Init, CallbackInv
<1>4. FreedAfterLastUse
  BY DEF Init, FreedAfterLastUse, Users
<1> QED BY <1>2, <1>3, <1>4 DEF BaseInv

\* Dropping a use drops the count.
LEMMA PutCounts ==
  ASSUME BaseInv, NEW w \in Works, Users(w) # 0, Put(w)
  PROVE  /\ ref' \in [Works -> 0..2]
         /\ ref'[w] = Users(w) - 1
         /\ \A v \in Works : v # w => ref'[v] = ref[v]
  BY DEF BaseInv, TypeOK, FreedAfterLastUse, Users, Put

LEMMA EndAckBase ==
  ASSUME BaseInv, ackQueue # <<>>, ack[Head(ackQueue)] # "none", EndAck(Head(ackQueue))
  PROVE  BaseInv'
<1> DEFINE w == Head(ackQueue)
<1>1. ackQueue \in Seq(Works)
  BY DEF BaseInv, TypeOK
<1>2. w \in Works /\ Tail(ackQueue) \in Seq(Works)
  BY <1>1, HeadTailProperties
<1>3. Users(w) \in {1, 2}
  BY <1>2 DEF Users
<1>4. /\ ref' \in [Works -> 0..2]
      /\ ref'[w] = Users(w) - 1
      /\ \A v \in Works : v # w => ref'[v] = ref[v]
  BY <1>2, <1>3, PutCounts DEF EndAck
<1>5. TypeOK'
  BY <1>2, <1>4 DEF EndAck, clientVars, BaseInv, TypeOK, AckStates
<1>6. CallbackInv'
  BY DEF EndAck, BaseInv, CallbackInv
<1>7. FreedAfterLastUse'
  <2>1. ack' = [ack EXCEPT ![w] = "none"] /\ evt' = evt
    BY DEF EndAck
  <2> QED BY <1>2, <1>4, <2>1 DEF BaseInv, TypeOK, FreedAfterLastUse, Users
<1> QED BY <1>5, <1>6, <1>7 DEF BaseInv

\* The actions of clients and of the driver leave the events alone.
ClientStep == \E r \in Rqids : SetHandler(r) \/ RemoveHandler(r) \/ RemovingClient(r)
DriverStep == RemoveDriver \/ RemovingDriver \/ ProbeDriver

LEMMA OutsideBase ==
  ASSUME BaseInv, ClientStep \/ DriverStep
  PROVE  BaseInv'
<1>1. UNCHANGED <<workVars, ackQueue, rcv, delay>>
  BY DEF ClientStep, DriverStep, SetHandler, RemoveHandler, RemovingClient, FlushHandler,
     FreeClient, RemoveDriver, RemovingDriver, FlushedAck, ClearHandlers, Uninitialize,
     Reflush, Close, Closed, DestroyAckQueue, DestroyEvtQueue, ProbeDriver
<1>2. CallbackInv' /\ FreedAfterLastUse'
  BY <1>1 DEF workVars, BaseInv, CallbackInv, FreedAfterLastUse, Users
<1>3. EvtWorks \in SUBSET Works /\ AckWorks \in SUBSET Works
  BY DEF EvtWorks, AckWorks
<1>4. TypeOK'
  <2>1. CASE ClientStep
    BY <1>1, <1>3, <2>1
    DEF ClientStep, SetHandler, RemoveHandler, RemovingClient, FlushHandler, FreeClient,
        workVars, driverVars, BaseInv, TypeOK
  <2>2. CASE RemoveDriver \/ ProbeDriver
    BY <1>1, <1>3, <2>2
    DEF RemoveDriver, ProbeDriver, workVars, clientVars, BaseInv, TypeOK, DriverSteps
  <2>3. CASE RemovingDriver
    BY <1>1, <1>3, <2>3
    DEF RemovingDriver, FlushedAck, ClearHandlers, Uninitialize, Reflush, Close, Closed,
        DestroyAckQueue, DestroyEvtQueue, workVars, clientVars, BaseInv, TypeOK, DriverSteps
  <2> QED BY <2>1, <2>2, <2>3 DEF DriverStep
<1> QED BY <1>2, <1>4 DEF BaseInv

LEMMA NextBase == BaseInv /\ [Next]_vars => BaseInv'
<1> SUFFICES ASSUME BaseInv, [Next]_vars PROVE BaseInv'
  OBVIOUS
<1> USE EventsAssumption DEF BaseInv
<1>1. ASSUME NEW w \in Works, NEW r \in Rqids, Receive(w, r) PROVE BaseInv'
  <2>1. Append(ackQueue, w) \in Seq(Works)
    BY AppendProperties DEF TypeOK
  <2>2. TypeOK'
    BY <1>1, <2>1
    DEF Receive, References, clientVars, driverVars, TypeOK, AckStates, EvtStates
  <2>3. ack[w] = "none" /\ evt[w] = "none"
    BY <1>1 DEF Receive, References, FreedAfterLastUse, Users
  <2>4. CallbackInv'
    BY <1>1, <2>3 DEF Receive, References, TypeOK, CallbackInv
  <2>5. FreedAfterLastUse'
    BY <1>1, <2>3 DEF Receive, References, TypeOK, FreedAfterLastUse, Users
  <2> QED BY <2>2, <2>4, <2>5
<1>2. CASE LookUpDelay
  <2>1. delay' \in {"now", "later", "immediate"}
    BY <1>2 DEF LookUpDelay, DelaysOf
  <2>2. delay' = "immediate" => Immediate # {}
    BY <1>2 DEF LookUpDelay, DelaysOf
  <2> QED
    BY <1>2, <2>1, <2>2
    DEF LookUpDelay, workVars, clientVars, driverVars, TypeOK, Delays, CallbackInv,
        FreedAfterLastUse, Users
<1>3. CASE QueueEvent
  <2>1. rcv \in Works /\ evt[rcv] = "receiving"
    BY <1>3 DEF QueueEvent, TypeOK, CallbackInv
  <2>2. TypeOK'
    BY <1>3, <2>1 DEF QueueEvent, clientVars, driverVars, TypeOK, EvtStates, Delays
  <2>3. CallbackInv'
    BY <1>3, <2>1 DEF QueueEvent, TypeOK, CallbackInv
  <2>4. FreedAfterLastUse'
    BY <1>3, <2>1 DEF QueueEvent, TypeOK, FreedAfterLastUse, Users
  <2> QED BY <2>2, <2>3, <2>4
<1>4. CASE RunImmediately
  <2>1. rcv \in Works /\ evt[rcv] = "receiving"
    BY <1>4 DEF RunImmediately, TypeOK, CallbackInv
  <2>2. TypeOK'
    BY <1>4, <2>1
    DEF RunImmediately, Found, clientVars, driverVars, TypeOK, EvtStates, Delays
  <2>3. CallbackInv'
    BY <1>4, <2>1 DEF RunImmediately, TypeOK, CallbackInv
  <2>4. FreedAfterLastUse'
    BY <1>4, <2>1 DEF RunImmediately, TypeOK, FreedAfterLastUse, Users
  <2> QED BY <2>2, <2>3, <2>4
<1>5. CASE StartAck
  <2>1. Head(ackQueue) \in Works
    BY <1>5, HeadTailProperties DEF StartAck, TypeOK
  <2> QED
    BY <1>5, <2>1
    DEF StartAck, clientVars, driverVars, TypeOK, AckStates, CallbackInv,
        FreedAfterLastUse, Users
<1>6. CASE SendAck \/ SkipAck
  BY <1>6, EndAckBase DEF SendAck, SkipAck
<1>7. ASSUME NEW w \in Works, TimerFires(w) \/ StartEvent(w) PROVE BaseInv'
  <2>1. evt[w] \in {"delayed", "queued"} /\ evt' = [evt EXCEPT ![w] = evt'[w]]
        /\ evt'[w] \in {"queued", "running"}
    BY <1>7 DEF TimerFires, StartEvent, TypeOK
  <2>2. TypeOK'
    BY <1>7 DEF TimerFires, StartEvent, Found, clientVars, driverVars, TypeOK, EvtStates
  <2>3. UNCHANGED <<rcv, delay, ref, ack>>
    BY <1>7 DEF TimerFires, StartEvent
  <2>4. CallbackInv'
    BY <2>1, <2>3 DEF TypeOK, CallbackInv
  <2>5. FreedAfterLastUse'
    BY <2>1, <2>3 DEF TypeOK, FreedAfterLastUse, Users
  <2> QED BY <2>2, <2>4, <2>5
<1>8. ASSUME NEW w \in Works, FinishEvent(w) PROVE BaseInv'
  <2>1. evt[w] \in {"running", "immediate"}
    BY <1>8 DEF FinishEvent
  <2>2. Users(w) \in {1, 2}
    BY <2>1 DEF Users
  <2>3. /\ ref' \in [Works -> 0..2]
        /\ ref'[w] = Users(w) - 1
        /\ \A v \in Works : v # w => ref'[v] = ref[v]
    BY <1>8, <2>2, PutCounts DEF FinishEvent
  <2>4. TypeOK'
    BY <1>8, <2>3 DEF FinishEvent, TypeOK, EvtStates
  <2>5. CallbackInv'
    BY <1>8, <2>1 DEF FinishEvent, TypeOK, CallbackInv
  <2>6. evt' = [evt EXCEPT ![w] = "none"] /\ ack' = ack
    BY <1>8 DEF FinishEvent
  <2>7. FreedAfterLastUse'
    BY <2>1, <2>3, <2>6 DEF TypeOK, FreedAfterLastUse, Users
  <2> QED BY <2>4, <2>5, <2>7
<1>9. CASE ClientStep \/ DriverStep
  BY <1>9, OutsideBase
<1>10. CASE UNCHANGED vars
  BY <1>10
  DEF vars, workVars, clientVars, driverVars, TypeOK, CallbackInv, FreedAfterLastUse, Users
<1> QED
  BY <1>1, <1>2, <1>3, <1>4, <1>5, <1>6, <1>7, <1>8, <1>9, <1>10
  DEF Next, Callback, AckThread, EvtWorker, ClientStep, DriverStep

\* Every variable keeps to the values it is declared for.
THEOREM TypeCorrect == Spec => []TypeOK
<1>1. BaseInv => TypeOK
  BY DEF BaseInv
<1> QED BY <1>1, InitBase, NextBase, PTL DEF Spec

\* The memory of an event is freed after its last use, and not before.
THEOREM FreedCorrect == Spec => []FreedAfterLastUse
<1>1. BaseInv => FreedAfterLastUse
  BY DEF BaseInv
<1> QED BY <1>1, InitBase, NextBase, PTL DEF Spec

-----------------------------------------------------------------------------
(* Handlers and the data of their clients *)

LEMMA InitHandler == Init => HandlerInv
  BY EventsAssumption DEF Init, HandlerInv

LEMMA NextHandler == BaseInv /\ HandlerInv /\ [Next]_vars => HandlerInv'
<1> SUFFICES ASSUME BaseInv, HandlerInv, [Next]_vars PROVE HandlerInv'
  OBVIOUS
<1> USE EventsAssumption DEF HandlerInv, BaseInv
<1>1. ASSUME NEW w \in Works, NEW r \in Rqids, Receive(w, r) PROVE HandlerInv'
  <2>1. evt[w] = "none"
    BY <1>1 DEF Receive, References, FreedAfterLastUse, Users
  <2>2. evt' = [evt EXCEPT ![w] = "receiving"] /\ UNCHANGED <<got, clientVars>>
    BY <1>1 DEF Receive
  <2> QED BY <2>1, <2>2 DEF clientVars, TypeOK
<1>2. CASE QueueEvent
  <2>1. rcv \in Works /\ evt[rcv] = "receiving"
    BY <1>2 DEF QueueEvent, TypeOK, CallbackInv
  <2>2. got[rcv] = NoHandler
    BY <2>1
  <2> QED BY <1>2, <2>1, <2>2 DEF QueueEvent, clientVars, TypeOK
<1>3. CASE RunImmediately
  <2>1. rcv \in Works /\ Immediate # {}
    BY <1>3 DEF RunImmediately, TypeOK, CallbackInv
  <2>2. /\ evt' = [evt EXCEPT ![rcv] = "immediate"]
        /\ got' = [got EXCEPT ![rcv] = Found(rcv)]
        /\ UNCHANGED clientVars
    BY <1>3 DEF RunImmediately
  <2> QED BY <2>1, <2>2 DEF clientVars, TypeOK
<1>4. ASSUME NEW w \in Works, TimerFires(w) PROVE HandlerInv'
  BY <1>4 DEF TimerFires, clientVars, TypeOK
<1>5. ASSUME NEW w \in Works, StartEvent(w) PROVE HandlerInv'
  <2>1. /\ evt' = [evt EXCEPT ![w] = "running"]
        /\ got' = [got EXCEPT ![w] = Found(w)]
        /\ UNCHANGED clientVars
    BY <1>5 DEF StartEvent
  <2>2. Found(w) # NoHandler => client[Found(w)] = "bound"
    BY DEF Found
  <2> QED BY <2>1, <2>2 DEF clientVars, TypeOK
<1>6. ASSUME NEW w \in Works, FinishEvent(w) PROVE HandlerInv'
  <2>1. /\ evt' = [evt EXCEPT ![w] = "none"]
        /\ got' = [got EXCEPT ![w] = NoHandler]
        /\ pending' = [r \in Rqids |-> pending[r] \ {w}]
        /\ UNCHANGED <<handler, client>>
    BY <1>6 DEF FinishEvent
  <2>2. ASSUME NEW v \in Works, got'[v] # NoHandler
        PROVE  v # w /\ got'[v] = got[v] /\ evt'[v] = evt[v] /\ got[v] \in Rqids
    BY <2>1, <2>2 DEF TypeOK
  <2>3. \A v \in Works : evt'[v] = "immediate" => Immediate # {}
    BY <2>1 DEF TypeOK
  <2> QED BY <2>1, <2>2, <2>3 DEF TypeOK
<1>7. ASSUME NEW r \in Rqids, SetHandler(r) PROVE HandlerInv'
  BY <1>7 DEF SetHandler, workVars, TypeOK
<1>8. ASSUME NEW r \in Rqids, RemoveHandler(r) PROVE HandlerInv'
  BY <1>8 DEF RemoveHandler, workVars, TypeOK
<1>9. ASSUME NEW r \in Rqids, FlushHandler(r) PROVE HandlerInv'
  <2>1. /\ client' = [client EXCEPT ![r] = "flushing"]
        /\ pending' = [pending EXCEPT ![r] = EvtWorks]
        /\ client[r] = "removing"
        /\ UNCHANGED <<workVars, handler>>
    BY <1>9 DEF FlushHandler
  <2>2. ASSUME NEW w \in Works, got[w] = r, evt[w] = "running"
        PROVE  w \in pending'[r]
    BY <2>1, <2>2 DEF TypeOK, EvtWorks, InEvtQueue
  <2> QED BY <2>1, <2>2 DEF workVars, TypeOK
<1>10. ASSUME NEW r \in Rqids, FreeClient(r) PROVE HandlerInv'
  <2>1. /\ client' = [client EXCEPT ![r] = "unbound"]
        /\ client[r] = "flushing"
        /\ pending[r] = {}
        /\ UNCHANGED <<workVars, handler, pending>>
    BY <1>10 DEF FreeClient
  <2> QED BY <2>1 DEF workVars, TypeOK
<1>11. CASE ClearHandlers
  BY <1>11 DEF ClearHandlers, workVars
<1>12. ASSUME UNCHANGED <<evt, got, clientVars>> PROVE HandlerInv'
  BY <1>12 DEF clientVars
<1>13. CASE RemoveDriver \/ ProbeDriver \/ FlushedAck \/ Uninitialize \/ Reflush
            \/ Close \/ Closed \/ DestroyAckQueue \/ DestroyEvtQueue
  BY <1>12, <1>13
  DEF RemoveDriver, ProbeDriver, FlushedAck, Uninitialize, Reflush, Close, Closed,
      DestroyAckQueue, DestroyEvtQueue, workVars
<1>14. CASE AckThread \/ LookUpDelay \/ UNCHANGED vars
  BY <1>12, <1>14
  DEF AckThread, StartAck, SendAck, SkipAck, EndAck, LookUpDelay, vars, workVars
<1> QED
  BY <1>1, <1>2, <1>3, <1>4, <1>5, <1>6, <1>7, <1>8, <1>9, <1>10, <1>11, <1>13, <1>14
  DEF Next, Callback, EvtWorker, RemovingClient, RemovingDriver

\* Unless a handler is run from the receive callback, the data of a client is
\* never freed under its running handler.
THEOREM HandlerDataCorrect == ASSUME Immediate = {} PROVE Spec => []HandlerDataAlive
<1>1. BaseInv /\ HandlerInv => HandlerDataAlive
  BY DEF BaseInv, TypeOK, HandlerInv, HandlerDataAlive
<1> QED
  BY <1>1, InitBase, NextBase, InitHandler, NextHandler, PTL DEF Spec

-----------------------------------------------------------------------------
(* The removal of the driver *)

LEMMA InitDriver == Init => DriverInv
  BY DEF Init, DriverInv

LEMMA NextDriver == BaseInv /\ HandlerInv /\ DriverInv /\ [Next]_vars => DriverInv'
<1> SUFFICES ASSUME BaseInv, HandlerInv, DriverInv, [Next]_vars PROVE DriverInv'
  OBVIOUS
<1> USE EventsAssumption DEF DriverInv, BaseInv
<1>1. ASSUME NEW w \in Works, NEW r \in Rqids, Receive(w, r) PROVE DriverInv'
  BY <1>1 DEF Receive, References, Open, clientVars, driverVars, TypeOK
<1>2. CASE Callback
  <2>1. UNCHANGED <<ack, clientVars, driverVars>>
    BY <1>2 DEF Callback, LookUpDelay, QueueEvent, RunImmediately, workVars
  <2>2. rcv # NoWork
    BY <1>2 DEF Callback, LookUpDelay, QueueEvent, RunImmediately
  <2> QED BY <2>1, <2>2 DEF clientVars, driverVars
<1>3. CASE StartAck
  <2>1. Head(ackQueue) \in Works
    BY <1>3, HeadTailProperties DEF StartAck, TypeOK
  <2>2. ecState = "INITIALIZED"
    BY <1>3 DEF StartAck
  <2> QED BY <1>3, <2>1, <2>2 DEF StartAck, clientVars, driverVars
<1>4. CASE SendAck \/ SkipAck
  <2>1. Head(ackQueue) \in Works
    BY <1>4, HeadTailProperties DEF SendAck, SkipAck, TypeOK
  <2>2. EndAck(Head(ackQueue))
    BY <1>4 DEF SendAck, SkipAck
  <2>3. /\ ack' = [ack EXCEPT ![Head(ackQueue)] = "none"]
        /\ drainAck' = drainAck \ {Head(ackQueue)}
        /\ UNCHANGED <<rcv, client, drv, ecState>>
    BY <2>2 DEF EndAck, clientVars
  <2> QED BY <2>1, <2>3 DEF TypeOK
<1>5. ASSUME NEW w \in Works, EvtWorker(w) PROVE DriverInv'
  <2>1. UNCHANGED <<ack, client, drv, drainAck, ecState>>
    BY <1>5 DEF EvtWorker, TimerFires, StartEvent, FinishEvent, clientVars, driverVars
  <2>2. rcv' \in {rcv, NoWork}
    BY <1>5 DEF EvtWorker, TimerFires, StartEvent, FinishEvent
  <2> QED BY <2>1, <2>2
<1>6. ASSUME NEW r \in Rqids, SetHandler(r) \/ RemoveHandler(r) \/ RemovingClient(r)
      PROVE  DriverInv'
  <2>1. client' = [client EXCEPT ![r] = client'[r]] /\ (client[r] # "unbound" \/ drv = "bound")
    BY <1>6 DEF SetHandler, RemoveHandler, RemovingClient, FlushHandler, FreeClient, TypeOK
  <2>2. UNCHANGED <<ack, rcv, driverVars>>
    BY <1>6 DEF SetHandler, RemoveHandler, RemovingClient, FlushHandler, FreeClient, workVars
  <2> QED BY <2>1, <2>2 DEF driverVars, TypeOK
<1>7. CASE RemoveDriver \/ ProbeDriver
  BY <1>7 DEF RemoveDriver, ProbeDriver, workVars, clientVars
<1>8. CASE RemovingDriver
  <2>1. UNCHANGED <<ack, rcv, client>>
    BY <1>8
    DEF RemovingDriver, FlushedAck, ClearHandlers, Uninitialize, Reflush, Close, Closed,
        DestroyAckQueue, DestroyEvtQueue, workVars, clientVars
  <2>2. CASE Reflush
    <3>1. drainAck' = AckWorks /\ drv = "uninit" /\ drv' = "reflushAck" /\ ecState' = ecState
      BY <2>2 DEF Reflush
    <3> QED BY <2>1, <3>1 DEF AckWorks, InAckQueue
  <2>3. CASE FlushedAck
    BY <2>1, <2>3 DEF FlushedAck
  <2>4. CASE Closed
    BY <2>1, <2>4 DEF Closed
  <2>5. CASE ClearHandlers \/ Uninitialize \/ Close \/ DestroyAckQueue \/ DestroyEvtQueue
    BY <2>1, <2>5
    DEF ClearHandlers, Uninitialize, Close, DestroyAckQueue, DestroyEvtQueue
  <2> QED BY <1>8, <2>2, <2>3, <2>4, <2>5 DEF RemovingDriver
<1>9. CASE UNCHANGED vars
  BY <1>9 DEF vars, workVars, clientVars, driverVars
<1> QED
  BY <1>1, <1>2, <1>3, <1>4, <1>5, <1>6, <1>7, <1>8, <1>9 DEF Next, AckThread

\* The inductive invariant holds.
THEOREM InvariantCorrect == Spec => []IInv
<1>1. BaseInv /\ HandlerInv /\ DriverInv => IInv
  BY DEF IInv, BaseInv
<1> QED
  BY <1>1, InitBase, NextBase, InitHandler, NextHandler, InitDriver, NextDriver,
     PTL
  DEF Spec

\* After the device is closed no event is ACKed and no handler runs: also not
\* one that was run from the receive callback.
THEOREM SilentCorrect == Spec => []SilentAfterClose
<1>1. IInv => SilentAfterClose
  <2> SUFFICES ASSUME IInv, drv \in {"destroyAck", "destroyEvt", "unbound"}, NEW w \in Works
               PROVE  ack[w] # "sending" /\ got[w] = NoHandler
    BY DEF SilentAfterClose
  <2>1. ack[w] # "sending" /\ rcv = NoWork /\ \A r \in Rqids : client[r] = "unbound"
    BY DEF IInv, DriverInv
  <2>2. evt[w] # "immediate"
    BY <2>1, EventsAssumption DEF IInv, CallbackInv
  <2>3. got[w] = NoHandler
    BY <2>1, <2>2 DEF IInv, TypeOK, HandlerInv
  <2> QED BY <2>1, <2>3
<1> QED BY <1>1, InvariantCorrect, PTL
=============================================================================
