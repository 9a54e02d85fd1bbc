------------------------- MODULE ManagerServiceProofs -------------------------
(***************************************************************************)
(* Theorems about ManagerService.  That it implements DatanodeRpc gives it *)
(* the invariant proved there; the queue of the lock is added to it.       *)
(***************************************************************************)
EXTENDS ManagerService, DatanodeRpcProofs

\* A call at the lock is an addDevice whose request has passed the checks.
QueueInv ==
    /\ data_services_ \subseteq Nat
    /\ mutex_ \in Seq(Calls)
    /\ \A i \in DOMAIN mutex_ :
        /\ stage[mutex_[i]] = "handling"
        /\ AwaitsLock(mutex_[i])
        /\ \A j \in DOMAIN mutex_ : mutex_[i] = mutex_[j] => i = j

-----------------------------------------------------------------------------
(* Implementation of DatanodeRpc.                                          *)

USE DEF None, Exception, OK

\* The checks answer with a code of handlers.
LEMMA CheckCodes == \A request : addDeviceCheck(request) \in Codes
BY ManagerCodes, RpcAssumption DEF addDeviceCheck

\* Every step of the manager service is one of DatanodeRpc.
LEMMA ManagerStep == [ManagerNext]_allVars => [Next]_vars
<1> SUFFICES ASSUME [ManagerNext]_allVars PROVE [Next]_vars
  OBVIOUS
<1>1. ASSUME NEW c \in Calls, Handle(c) PROVE Next
  <2>1. CASE Invoke(c)
    BY <2>1 DEF Invoke, Next, ServerNext
  <2>2. CASE addDeviceRefused(c)
    BY <2>2, CheckCodes DEF addDeviceRefused, Next, ServerNext
  <2>3. CASE addDevice(c)
    BY <2>3, ManagerCodes, RpcAssumption DEF addDevice, Next, ServerNext
  <2>4. CASE delDevice(c)
    BY <2>4, RpcAssumption DEF delDevice, Next, ServerNext
  <2> QED BY <1>1, <2>1, <2>2, <2>3, <2>4 DEF Handle
<1>2. ASSUME ManagerCrash PROVE Next
  BY <1>2 DEF ManagerCrash, Next, ServerNext
<1>3. ASSUME NEW c \in Calls, ReceiveUnknown(c) PROVE Next
  BY <1>3 DEF Next, ServerNext
<1>4. ASSUME ClientNext \/ \E order \in Registrations : Start(order) PROVE Next
  BY <1>4 DEF Next, ServerNext
<1>5. CASE UNCHANGED allVars
  BY <1>5 DEF allVars
<1> QED BY <1>1, <1>2, <1>3, <1>4, <1>5 DEF ManagerNext

\* The manager service is built from the actions of DatanodeRpc, so what is
\* proved of DatanodeRpc holds of it.
LEMMA ManagerImplementsRpc == ManagerSpec => Spec
<1>1. ManagerInit => Init
  BY DEF ManagerInit
<1> QED BY <1>1, ManagerStep, PTL DEF ManagerSpec, Spec

\* A call of the manager service is answered by its own handler.
THEOREM ManagerOwnHandler == ManagerSpec => []AnsweredByOwnHandler
BY ManagerImplementsRpc, OwnHandlerHolds, PTL

-----------------------------------------------------------------------------
(* The queue of the lock.                                                  *)

\* What becomes of the queue when calls, handlers and queue stay, and no call
\* that is in it stops being handled.
LEMMA QueueKept ==
    ASSUME QueueInv, UNCHANGED <<managerVars, handlers_>>,
           \A i \in DOMAIN mutex_ : /\ stage'[mutex_[i]] = "handling"
                                    /\ call'[mutex_[i]] = call[mutex_[i]]
    PROVE  QueueInv'
BY DEF QueueInv, managerVars, AwaitsLock, HandlerOf, RequestOf

\* A step keeps the queue.
LEMMA QueueStep == RpcInv /\ QueueInv /\ [ManagerNext]_allVars => QueueInv'
<1> SUFFICES ASSUME RpcInv, QueueInv, [ManagerNext]_allVars PROVE QueueInv'
  OBVIOUS
<1>t. TypeOK /\ \A i \in DOMAIN mutex_ : mutex_[i] \in Calls
  BY DEF RpcInv, QueueInv
<1> USE <1>t DEF TypeOK
<1>1. ASSUME NEW c \in Calls, Invoke(c) PROVE QueueInv'
  <2>1. stage[c] = "inbound" /\ \A i \in DOMAIN mutex_ : mutex_[i] # c
    BY <1>1 DEF Invoke, Receive, QueueInv
  <2>2. /\ stage' = [stage EXCEPT ![c] = "handling"]
        /\ UNCHANGED <<call, handlers_, data_services_>>
        /\ mutex_' = mutex_ \/ (AwaitsLock(c) /\ mutex_' = Append(mutex_, c))
    BY <1>1 DEF Invoke, Receive, serverVars
  <2>3. CASE mutex_' = mutex_
    BY <2>1, <2>2, <2>3 DEF QueueInv, AwaitsLock, HandlerOf, RequestOf
  <2>4. CASE AwaitsLock(c) /\ mutex_' = Append(mutex_, c)
    BY <2>1, <2>2, <2>4 DEF QueueInv, AwaitsLock, HandlerOf, RequestOf
  <2> QED BY <2>2, <2>3, <2>4
<1>2. ASSUME NEW c \in Calls, addDevice(c) PROVE QueueInv'
  <2>1. /\ mutex_ # <<>> /\ c = mutex_[1] /\ mutex_' = Tail(mutex_)
        /\ stage' = [stage EXCEPT ![c] = "answered"]
        /\ UNCHANGED <<call, handlers_, data_services_>>
    BY <1>2 DEF addDevice, HandlerReturns, serverVars, QueueInv
  <2>2. /\ Tail(mutex_) \in Seq(Calls)
        /\ \A i \in DOMAIN Tail(mutex_) : i + 1 \in DOMAIN mutex_ /\ Tail(mutex_)[i] = mutex_[i + 1]
        /\ \A i \in DOMAIN Tail(mutex_) : i \in Nat \ {0} /\ 1 \in DOMAIN mutex_
    BY <2>1 DEF QueueInv
  <2>3. \A i \in DOMAIN Tail(mutex_) : mutex_[i + 1] # c
    BY <2>1, <2>2 DEF QueueInv
  <2> QED BY <2>1, <2>2, <2>3 DEF QueueInv, AwaitsLock, HandlerOf, RequestOf
<1>3. ASSUME NEW c \in Calls, addDeviceRefused(c) \/ delDevice(c) PROVE QueueInv'
  <2>1. \A i \in DOMAIN mutex_ : mutex_[i] # c
    BY <1>3 DEF addDeviceRefused, delDevice, QueueInv, AwaitsLock, AddDevice, DelDevice
  <2>2. \A i \in DOMAIN mutex_ : /\ stage'[mutex_[i]] = "handling"
                                  /\ call'[mutex_[i]] = call[mutex_[i]]
    BY <1>3, <2>1 DEF addDeviceRefused, delDevice, HandlerReturns, QueueInv
  <2>3. UNCHANGED <<managerVars, handlers_>>
    BY <1>3 DEF addDeviceRefused, delDevice, HandlerReturns, serverVars
  <2> QED BY <2>2, <2>3, QueueKept
<1>4. ASSUME ManagerCrash PROVE QueueInv'
  BY <1>4 DEF ManagerCrash, QueueInv
<1>5. ASSUME NEW c \in Calls, ReceiveUnknown(c), UNCHANGED managerVars PROVE QueueInv'
  <2>1. \A i \in DOMAIN mutex_ : mutex_[i] # c
    BY <1>5 DEF ReceiveUnknown, QueueInv
  <2>2. \A i \in DOMAIN mutex_ : /\ stage'[mutex_[i]] = "handling"
                                  /\ call'[mutex_[i]] = call[mutex_[i]]
    BY <1>5, <2>1 DEF ReceiveUnknown, QueueInv
  <2> QED BY <1>5, <2>2, QueueKept DEF ReceiveUnknown, serverVars
<1>6. ASSUME NEW order \in Registrations, Start(order), UNCHANGED managerVars PROVE QueueInv'
  <2>1. DOMAIN mutex_ = {}
    BY <1>6 DEF Start, QueueInv, RpcInv, AtServer, NoHandlers
  <2> QED BY <1>6, <2>1 DEF QueueInv, managerVars
<1>7. ASSUME ClientNext, UNCHANGED managerVars PROVE QueueInv'
  <2>1. UNCHANGED handlers_
    BY <1>7 DEF ClientNext, Connect, Break, Silence, Close, Closed, Destroy, Terminate, Send,
                Deliver, Fail, Lose, serverVars
  <2>2. ASSUME NEW d \in Calls, stage[d] = "handling"
        PROVE  stage'[d] = "handling" /\ call'[d] = call[d]
    BY <1>7, <2>2 DEF ClientNext, Connect, Break, Silence, Close, Closed, Destroy, Terminate, Send,
                Deliver, Fail, Lose
  <2> QED BY <1>7, <2>1, <2>2, QueueKept DEF QueueInv
<1>8. CASE UNCHANGED allVars
  BY <1>8, QueueKept DEF allVars, vars, QueueInv
<1> QED BY <1>1, <1>2, <1>3, <1>4, <1>5, <1>6, <1>7, <1>8 DEF ManagerNext, Handle

\* A request that passes the checks after decoding was right as it was sent: a
\* cluster or datanode id cut short may read as the right one, but the disk id
\* lies behind both and would be 0.
LEMMA DecodedIsSent ==
    ASSUME NEW op \in Operations, NEW m \in Messages(op), addDeviceCheck(Decode(m)) = OK
    PROVE  /\ cluster_id(m.fields) = ClusterId
           /\ datanode_id(m.fields) = DatanodeId
           /\ disk_id(m.fields) # 0
<1>1. m.fields \in [1..3 -> Nat]
  BY ManagerAssumption DEF Messages
<1>2. m.zero \in 0..2
  <2>1. /\ RequestFields[op] = <<"message", "string", "uint">>
        /\ Len(RequestFields[op]) = 3
    BY ManagerAssumption DEF RequestFields, AddDevice, DelDevice
  <2> QED BY <2>1 DEF Messages
<1>3. Decode(m)[1] = ClusterId /\ Decode(m)[2] = DatanodeId /\ Decode(m)[3] # 0
  BY DEF addDeviceCheck, cluster_id, datanode_id, disk_id,
         ClusterIdNotMatch, DatanodeIdNotMatch, ArgumentInvalid
<1>4. m.zero = 0
  BY <1>1, <1>2, <1>3 DEF Decode
<1> QED BY <1>1, <1>3, <1>4 DEF Decode, cluster_id, datanode_id, disk_id

\* A step keeps what was answered OK as it was asked.
LEMMA AddedStep ==
    RpcInv /\ QueueInv /\ AddedAsAsked /\ [ManagerNext]_allVars => AddedAsAsked'
<1> SUFFICES ASSUME RpcInv, QueueInv, AddedAsAsked, [ManagerNext]_allVars PROVE AddedAsAsked'
  OBVIOUS
<1> USE DEF RpcInv, TypeOK
<1>1. ASSUME NEW c \in Calls, addDevice(c) PROVE AddedAsAsked'
  <2>1. /\ AwaitsLock(c)
        /\ UNCHANGED call
        /\ \A d \in Calls \ {c} : answer'[d] = answer[d]
    BY <1>1 DEF addDevice, HandlerReturns, QueueInv
  <2>2. PICK op \in Operations : call[c].message \in Messages(op)
    <3>1. call[c] \in Requests
      BY <1>1 DEF addDevice, HandlerReturns
    <3> QED BY <3>1 DEF Requests
  <2>3. addDeviceCheck(Decode(call[c].message)) = OK
    BY <2>1 DEF AwaitsLock, RequestOf
  <2> QED BY <2>1, <2>2, <2>3, DecodedIsSent DEF AddedAsAsked
<1>2. ASSUME NEW c \in Calls, addDeviceRefused(c) PROVE AddedAsAsked'
  BY <1>2 DEF addDeviceRefused, HandlerReturns, AddedAsAsked
<1>3. ASSUME NEW c \in Calls, delDevice(c) PROVE AddedAsAsked'
  BY <1>3 DEF delDevice, HandlerReturns, AddedAsAsked, AddDevice, DelDevice
<1>4. ASSUME NEW c \in Calls, ReceiveUnknown(c) PROVE AddedAsAsked'
  BY <1>4 DEF ReceiveUnknown, AddedAsAsked, AddDevice
<1>5. ASSUME NEW c \in Calls, NEW k \in Callers, NEW op \in Operations, NEW m \in Messages(op),
             Send(c, k, op, m)
      PROVE  AddedAsAsked'
  BY <1>5 DEF Send, AnswerInPlace, NoAnswer, AddedAsAsked, AddDevice
<1>6. ASSUME UNCHANGED <<call, answer>> PROVE AddedAsAsked'
  BY <1>6 DEF AddedAsAsked
<1>7. ASSUME NEW k \in Callers,
             \/ Connect(k) \/ Break(k) \/ Silence(k) \/ Close(k) \/ Closed(k) \/ Destroy(k) \/ Terminate(k)
      PROVE  AddedAsAsked'
  BY <1>6, <1>7 DEF Connect, Break, Silence, Close, Closed, Destroy, Terminate
<1>8. ASSUME NEW c \in Calls, Invoke(c) \/ Lose(c) \/ Deliver(c) \/ Fail(c) PROVE AddedAsAsked'
  BY <1>6, <1>8 DEF Invoke, Receive, Lose, Deliver, Fail
<1>9. ASSUME ManagerCrash \/ (\E order \in Registrations : Start(order)) \/ UNCHANGED allVars
      PROVE  AddedAsAsked'
  BY <1>6, <1>9 DEF ManagerCrash, Crash, Start, allVars, vars
<1> QED BY <1>1, <1>2, <1>3, <1>4, <1>5, <1>7, <1>8, <1>9 DEF ManagerNext, ClientNext, Handle

\* The invariant of DatanodeRpc with the queue and the answers.
LEMMA ManagerInvariant == ManagerSpec => [](RpcInv /\ QueueInv /\ AddedAsAsked)
<1>1. ManagerInit => QueueInv /\ AddedAsAsked
  BY DEF ManagerInit, Init, QueueInv, AddedAsAsked, NoAnswer, AddDevice
<1>2. ManagerSpec => []RpcInv
  BY ManagerImplementsRpc, RpcInvariant, PTL
<1> QED BY <1>1, <1>2, QueueStep, AddedStep, PTL DEF ManagerSpec

-----------------------------------------------------------------------------
(* Theorems.                                                               *)

\* addDevice is answered OK only as asked for in the bytes that were sent.
THEOREM AddedAsAskedHolds == ManagerSpec => []AddedAsAsked
BY ManagerInvariant, PTL

\* Calls at the lock are being handled, with their requests, each once.
THEOREM LockedCallsHold == ManagerSpec => []LockedCallsAreAlive
<1>1. RpcInv /\ QueueInv => LockedCallsAreAlive
  BY DEF RpcInv, QueueInv, LockedCallsAreAlive, RequestLivesWithHandler
<1> QED BY <1>1, ManagerInvariant, PTL

\* End to end: a caller is told that its device was added only if addDevice
\* accepted it and it was as sent, whatever becomes of connections, of the server
\* and of the requests in between.  It says something once the caller's defect is
\* repaired: see NoCodeIsTold.
THEOREM ToldAddedAsAskedHolds == ManagerSpec => []ToldAddedAsAsked
<1>1. ManagerSpec => []ToldIsAnswered
  BY ManagerImplementsRpc, ToldIsAnsweredHolds, PTL
<1>2. ToldIsAnswered /\ AddedAsAsked => ToldAddedAsAsked
  BY RpcAssumption DEF ToldIsAnswered, AddedAsAsked, ToldAddedAsAsked
<1> QED BY <1>1, <1>2, AddedAsAskedHolds, PTL

\* What RemoteCall promises of a call holds of the calls of the manager service, with
\* its checks and its lock: one run at most, one report, and that a true one.
THEOREM ManagerImplementsRemoteCall == ManagerSpec => ImplementsRemoteCall
BY ManagerImplementsRpc, RpcRefinement, PTL
=============================================================================
