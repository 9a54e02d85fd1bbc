---------------------------- MODULE ManagerService ----------------------------
(***************************************************************************)
(* ManagerService (manager_service.cc): the handlers of the device server, *)
(* on top of its RPC layer.  addDevice refuses at once, or waits for       *)
(* mutex_; all run on shard 0.  The configuration has been accepted:       *)
(* neither id of it is empty.                                              *)
(***************************************************************************)
EXTENDS DatanodeRpc

CONSTANTS
    ClusterId,          \* of the configuration
    DatanodeId

ASSUME ManagerAssumption ==
    /\ Operations = {AddDevice, DelDevice}
    /\ Registrations = {<<AddDevice, DelDevice>>}
    /\ \A op \in Operations : Payloads[op] \subseteq [1..3 -> Nat]
    /\ ClusterId \in Nat \ {0}
    /\ DatanodeId \in Nat \ {0}

ClusterIdNotMatch == "PANCAKE_STORE_CLUSTER_ID_NOT_MATCH"
DatanodeIdNotMatch == "DATANODE_SERVICE_DATANODE_ID_NOT_MATCH"
ArgumentInvalid == "DATANODE_SERVICE_REQUEST_ARGUMENT_INVALID"

ASSUME ManagerCodes == {ClusterIdNotMatch, DatanodeIdNotMatch, ArgumentInvalid} \subseteq Codes

VARIABLES
    data_services_,     \* the disks that are served
    mutex_              \* calls of addDevice that hold (the first) or await the lock

managerVars == <<data_services_, mutex_>>
allVars == <<vars, managerVars>>

\* The fields that both device requests have.
cluster_id(request) == request[1]
datanode_id(request) == request[2]
disk_id(request) == request[3]

\* Mutant of addDeviceCheck: a disk id that was not set is let through.
addDeviceCheckNoDisk(request) ==
    IF cluster_id(request) # ClusterId THEN ClusterIdNotMatch
    ELSE IF datanode_id(request) # DatanodeId THEN DatanodeIdNotMatch
    ELSE OK

\* The checks in front of the lock; OK to go on.
addDeviceCheck(request) ==
    IF cluster_id(request) # ClusterId THEN ClusterIdNotMatch
    ELSE IF datanode_id(request) # DatanodeId THEN DatanodeIdNotMatch
    ELSE IF disk_id(request) = 0 THEN ArgumentInvalid
    ELSE OK

\* The request as the handler of a call sees it.
RequestOf(c) == Decode(call[c].message)

ManagerInit ==
    /\ Init
    /\ data_services_ = {}
    /\ mutex_ = <<>>

\* with_lock of an addDevice whose request passes the checks.
AwaitsLock(c) == HandlerOf(c) = AddDevice /\ addDeviceCheck(RequestOf(c)) = OK

Invoke(c) ==
    /\ Receive(c)
    /\ mutex_' = IF AwaitsLock(c) THEN Append(mutex_, c) ELSE mutex_
    /\ UNCHANGED data_services_

addDeviceRefused(c) ==
    /\ stage[c] = "handling"
    /\ HandlerOf(c) = AddDevice
    /\ addDeviceCheck(RequestOf(c)) # OK
    /\ HandlerReturns(c, addDeviceCheck(RequestOf(c)))
    /\ UNCHANGED managerVars

\* Mutant of addDevice: the lock is not passed on when the disk is known or not.
addDeviceKeepsLock(c) ==
    /\ mutex_ # <<>> /\ c = Head(mutex_)
    /\ HandlerReturns(c, OK)
    /\ UNCHANGED managerVars

\* Under the lock.  The known disk is refused with the code of another error;
\* nothing is put into data_services_.
addDevice(c) ==
    /\ mutex_ # <<>> /\ c = Head(mutex_)
    /\ HandlerReturns(c, IF disk_id(RequestOf(c)) \in data_services_ THEN ClusterIdNotMatch ELSE OK)
    /\ mutex_' = Tail(mutex_)
    /\ UNCHANGED data_services_

\* delDevice looks at nothing and changes nothing.
delDevice(c) ==
    /\ stage[c] = "handling"
    /\ HandlerOf(c) = DelDevice
    /\ HandlerReturns(c, OK)
    /\ UNCHANGED managerVars

\* A new process starts with a new ManagerService.
ManagerCrash ==
    /\ Crash
    /\ mutex_' = <<>>
    /\ data_services_' = {}

Handle(c) == Invoke(c) \/ addDeviceRefused(c) \/ addDevice(c) \/ delDevice(c)

ManagerNext ==
    \/ (ClientNext \/ \E order \in Registrations : Start(order)) /\ UNCHANGED managerVars
    \/ \E c \in Calls : ReceiveUnknown(c) /\ UNCHANGED managerVars
    \/ \E c \in Calls : Handle(c)
    \/ ManagerCrash

ManagerSpec == ManagerInit /\ [][ManagerNext]_allVars

\* The reactor runs every continuation that is ready, and the lock is FIFO; a
\* connection that is up delivers, and one that is gone is noticed.
Fairness ==
    \A c \in Calls :
        /\ WF_allVars(ReceiveUnknown(c) /\ UNCHANGED managerVars)
        /\ WF_allVars(Handle(c))
        /\ WF_allVars((Deliver(c) \/ Fail(c)) /\ UNCHANGED managerVars)

FairSpec == ManagerSpec /\ Fairness

-----------------------------------------------------------------------------
(* Properties.                                                             *)

\* addDevice answers OK only to a caller that asked, in the bytes it sent, for a
\* disk (not 0) of this datanode of this cluster: a request cut short in decoding,
\* with the failure ignored (datanode.cc 23), does not get through the checks.
AddedAsAsked ==
    \A c \in Calls : answer[c].by = AddDevice /\ answer[c].code = OK =>
        LET sent == call[c].message.fields
        IN  cluster_id(sent) = ClusterId /\ datanode_id(sent) = DatanodeId /\ disk_id(sent) # 0

\* End to end: a caller that is told that its device was added asked, in the bytes
\* it sent, for a disk of this datanode of this cluster, and its request was
\* handled by addDevice.
ToldAddedAsAsked ==
    \A c \in Calls : call[c].op = AddDevice /\ reported[c] = OK =>
        LET sent == call[c].message.fields
        IN  /\ answer[c] = [by |-> AddDevice, code |-> OK]
            /\ cluster_id(sent) = ClusterId
            /\ datanode_id(sent) = DatanodeId
            /\ disk_id(sent) # 0

\* The calls at the lock are distinct, still being handled, and the requests they
\* captured by reference (manager_service.cc 53) still exist, while connections
\* break and other calls come and go: nobody waits behind a call that is over.
LockedCallsAreAlive ==
    \A i \in DOMAIN mutex_ :
        /\ stage[mutex_[i]] = "handling"
        /\ mutex_[i] \in live
        /\ \A j \in DOMAIN mutex_ : mutex_[i] = mutex_[j] => i = j

\* A call that was made is reported to its owner, with its answer or as failed,
\* unless the client process is terminated first or its connection goes silent,
\* which no timeout notices: neither the wait for the lock nor a stop of the server
\* leaves it open.
EveryCallReported ==
    \A c \in Calls : stage[c] # None ~>
        \/ reported[c] # None
        \/ \E k \in Callers : call[c].caller = k /\ connection[k] \in {"silent", "gone"}

\* A caller that was closed comes to have all its calls reported, those that a
\* silent peer left open too (stop() in Close fails them): its owner, who has to wait
\* for them as their continuations keep raw pointers to the caller and to the
\* response, does not wait for ever.
ClosedCallerIsDone ==
    \A k \in Callers : k \in closed_ ~>
        \/ \A c \in Calls : call[c].caller = k => reported[c] # None
        \/ connection[k] = "gone"

\* "Failed to parse add_device response": reported when an answer is not a
\* serialised response, which none of the server's is.
ParseFailureIsReal == \A c \in Calls : reported[c] # ParseFailed
=============================================================================
