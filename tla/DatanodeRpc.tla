----------------------------- MODULE DatanodeRpc -----------------------------
(***************************************************************************)
(* The RPC layer (src/rpc) of a datanode server and the caller classes     *)
(* (src/pkg/rpc_caller) at its other end.  A call is made through a        *)
(* caller's connection, dispatched by its verb, decoded, handed to the     *)
(* handler registered for that verb, and answered; the caller turns the    *)
(* answer, or the exception of a connection that is gone, into an error    *)
(* code.  In this module the handlers are any: they return a code or an    *)
(* exception, at any time.  ManagerService gives the handlers of the       *)
(* device server.  The transport (Seastar) is external.                    *)
(***************************************************************************)
EXTENDS Naturals, Sequences

CONSTANTS
    Callers,            \* objects of a caller class, all in one client process
    Calls,              \* bound: each is made once
    Operations,         \* of the server, each with a Register function
    Registrations,      \* the orders in which a program may call those
    Payloads,           \* bound: for each operation, the field values it is sent
    Codes,              \* error codes that handlers return
    MaySilence,         \* whether a peer may vanish without closing a connection
    Repaired            \* defects taken as repaired; {} is the code as it stands

None == "none"
Exception == "exception"
AddDevice == "AddDevice"
DelDevice == "DelDevice"
OK == "PANCAKE_STORE_OK"
InvokeFailed == "RPC_CALLER_INVOKE_FAILED"
ParseFailed == "RPC_CALLER_RESPONSE_PARSE_FAILED"

\* The kinds of the fields of each request, in the order of their numbers.
RequestFields ==
    [AddDevice |-> <<"message", "string", "uint">>,
     DelDevice |-> <<"message", "string", "uint">>,
     AddExtent |-> <<"message", "string", "uint", "uint", "uint", "uint", "uint">>,
     DelExtent |-> <<"message", "string", "uint", "uint", "uint">>,
     SealExtent |-> <<"message", "string", "uint", "uint", "uint">>,
     ListExtents |-> <<"message", "string", "uint", "uint", "uint">>,
     WriteAt |-> <<"message", "uint", "uint", "uint", "bytes", "uint">>,
     ReadAt |-> <<"message", "uint", "uint", "uint", "uint">>]

ASSUME RpcAssumption ==
    /\ Operations \subseteq DOMAIN RequestFields
    /\ \A order \in Registrations :
        /\ order \in Seq(Operations) /\ order # <<>>
        /\ \A i, j \in DOMAIN order : order[i] = order[j] => i = j
        /\ AddDevice \in Operations => order[1] = AddDevice
    /\ OK \in Codes
    /\ Codes \cap {None, Exception, InvokeFailed, ParseFailed} = {}

\* A serialised request: the values of its fields (0 is the default, which a
\* message, a string or a number has when it is not set), the first field whose
\* bytes hold a zero byte, 0 if none does (a varint holds none), and what the part
\* of this field in front of that byte reads as, which may be a value as well.
Messages(op) ==
    {m \in [fields : Payloads[op], zero : 0..Len(RequestFields[op]),
            part : {0} \cup UNION {{f[i] : i \in DOMAIN f} : f \in Payloads[op]}] :
        IF m.zero = 0 THEN m.part = 0
        ELSE /\ RequestFields[op][m.zero] \in {"message", "string", "bytes"}
             /\ m.part \in {0} \cup {f[m.zero] : f \in Payloads[op]}}

\* ParseFromString(request_data.c_str()): the bytes end at the first zero byte.
\* The fields in front of it are set, the one that holds it in part, those behind
\* it are not, and that parsing fails is not noticed.
Decode(m) ==
    [i \in DOMAIN m.fields |->
        IF m.zero = 0 \/ i < m.zero THEN m.fields[i] ELSE IF i = m.zero THEN m.part ELSE 0]

\* The verb a Register function uses.  A verb is named for its operation.
RegisterVerb(op) == IF "verb" \in Repaired THEN op ELSE AddDevice

\* The verb that the macro of the operation's caller sends.
Verb(op) == op

\* Mutant of Registered: a later registration of a verb replaces an earlier one.
RegisteredLast(order) ==
    [verb \in {RegisterVerb(order[i]) : i \in DOMAIN order} |->
        order[CHOOSE i \in DOMAIN order :
                /\ RegisterVerb(order[i]) = verb
                /\ \A j \in DOMAIN order : RegisterVerb(order[j]) = verb => j <= i]]

\* The handlers after the Register functions were called in this order: the
\* first registration of a verb stays.
Registered(order) ==
    [verb \in {RegisterVerb(order[i]) : i \in DOMAIN order} |->
        order[CHOOSE i \in DOMAIN order :
                /\ RegisterVerb(order[i]) = verb
                /\ \A j \in DOMAIN order : RegisterVerb(order[j]) = verb => i <= j]]

\* What a call asks, and through which caller.
Requests == UNION {[caller : Callers, op : {op}, message : Messages(op)] : op \in Operations}

NoHandlers == [verb \in {} |-> None]
NoCall == [caller |-> None, op |-> None, message |-> [fields |-> <<>>, zero |-> 0, part |-> 0]]
NoAnswer == [by |-> None, code |-> None]

VARIABLES
    server,             \* "down", or "listening" once started
    handlers_,          \* of the server's protocol object: verb -> operation
    call,               \* of each call: who made it, and what it asks
    stage,              \* of each call: where its request or its answer is
    answer,             \* of each call: what the server has sent back
    live,               \* calls whose request and response objects exist
    connection,         \* of each caller: state of its client_
    closed_,            \* callers whose closed_ is true
    reported            \* of each call: the code its caller returned

serverVars == <<server, handlers_>>
callerVars == <<connection, closed_>>
vars == <<server, handlers_, call, stage, answer, live, connection, closed_, reported>>

Stages == {None, "inbound", "handling", "answered", "lost", "done"}

\* With the types: the handlers are those of one order of registrations, and what a
\* method of a caller ends with is a code, never the exception it was sent.
TypeOK ==
    /\ server \in {"down", "listening"}
    /\ handlers_ = NoHandlers \/ \E order \in Registrations : handlers_ = Registered(order)
    /\ call \in [Calls -> Requests \cup {NoCall}]
    /\ stage \in [Calls -> Stages]
    /\ \A c \in Calls : call[c] = NoCall <=> stage[c] = None
    /\ answer \in [Calls -> [by : Operations \cup {None}, code : Codes \cup {None, Exception}]]
    /\ live \subseteq Calls
    /\ connection \in [Callers -> {None, "open", "silent", "broken", "stopped", "gone"}]
    /\ closed_ \subseteq Callers
    /\ reported \in [Calls -> Codes \cup {None, InvokeFailed, ParseFailed}]

Init ==
    /\ server = "down"
    /\ handlers_ = NoHandlers
    /\ call = [c \in Calls |-> NoCall]
    /\ stage = [c \in Calls |-> None]
    /\ answer = [c \in Calls |-> NoAnswer]
    /\ live = {}
    /\ connection = [k \in Callers |-> None]
    /\ closed_ = {}
    /\ reported = [c \in Calls |-> None]

-----------------------------------------------------------------------------
(* The server.                                                             *)

\* The handlers are registered and the server listens.  When the port is in use,
\* or the library refuses a second handler for a verb, Start throws and the
\* process stays down.
Start(order) ==
    /\ server = "down"
    /\ server' = "listening"
    /\ handlers_' = Registered(order)
    /\ UNCHANGED <<call, stage, answer, live, callerVars, reported>>

\* The process of the server stops: all that it held is gone, and connections
\* break.  Answers already sent are kept as history.
Crash ==
    /\ server = "listening"
    /\ server' = "down"
    /\ handlers_' = NoHandlers
    /\ stage' = [c \in Calls |-> IF stage[c] \in {"inbound", "handling", "answered"}
                                 THEN "lost" ELSE stage[c]]
    /\ live' = {}
    /\ connection' = [k \in Callers |-> IF connection[k] = "open" THEN "broken" ELSE connection[k]]
    /\ UNCHANGED <<call, answer, closed_, reported>>

\* A verb without a handler is answered by the transport, with an exception.
ReceiveUnknown(c) ==
    /\ server = "listening"
    /\ stage[c] = "inbound"
    /\ Verb(call[c].op) \notin DOMAIN handlers_
    /\ stage' = [stage EXCEPT ![c] = "answered"]
    /\ answer' = [answer EXCEPT ![c] = [by |-> None, code |-> Exception]]
    /\ UNCHANGED <<serverVars, call, live, callerVars, reported>>

HandlerOf(c) == handlers_[Verb(call[c].op)]

\* Mutant of Receive: request and response are gone when the lambda returns.
ReceiveReleases(c) ==
    /\ server = "listening"
    /\ stage[c] = "inbound"
    /\ Verb(call[c].op) \in DOMAIN handlers_
    /\ stage' = [stage EXCEPT ![c] = "handling"]
    /\ UNCHANGED <<serverVars, call, answer, live, callerVars, reported>>

\* The lambda of the verb: request and response are allocated, the request is
\* decoded, and the handler is called.
Receive(c) ==
    /\ server = "listening"
    /\ stage[c] = "inbound"
    /\ Verb(call[c].op) \in DOMAIN handlers_
    /\ stage' = [stage EXCEPT ![c] = "handling"]
    /\ live' = live \cup {c}
    /\ UNCHANGED <<serverVars, call, answer, callerVars, reported>>

\* Mutant of HandlerReturns: finish_cb is run on success only.
HandlerReturnsKeeps(c, code) ==
    /\ stage[c] = "handling"
    /\ stage' = [stage EXCEPT ![c] = "answered"]
    /\ answer' = [answer EXCEPT ![c] = [by |-> HandlerOf(c), code |-> code]]
    /\ live' = IF code = OK THEN live \ {c} ELSE live
    /\ UNCHANGED <<serverVars, call, callerVars, reported>>

\* The continuation of the handler: its code is put into the response, which is
\* sent, and both objects are deleted.
HandlerReturns(c, code) ==
    /\ stage[c] = "handling"
    /\ stage' = [stage EXCEPT ![c] = "answered"]
    /\ answer' = [answer EXCEPT ![c] = [by |-> HandlerOf(c), code |-> code]]
    /\ live' = live \ {c}
    /\ UNCHANGED <<serverVars, call, callerVars, reported>>

\* A handler that ends with an exception: .then is passed over, so nothing is
\* deleted, and the exception is sent.
HandlerThrows(c) ==
    /\ stage[c] = "handling"
    /\ stage' = [stage EXCEPT ![c] = "answered"]
    /\ answer' = [answer EXCEPT ![c] = [by |-> None, code |-> Exception]]
    /\ UNCHANGED <<serverVars, call, live, callerVars, reported>>

-----------------------------------------------------------------------------
(* The callers and their connections.                                      *)

\* The constructor.
Connect(k) ==
    /\ connection[k] = None
    /\ connection' = [connection EXCEPT ![k] = IF server = "listening" THEN "open" ELSE "broken"]
    /\ UNCHANGED <<serverVars, call, stage, answer, live, closed_, reported>>

\* A method of the caller: the request is serialised and sent.
Send(c, k, op, m) ==
    /\ stage[c] = None
    /\ connection[k] \notin {None, "gone"}
    /\ call' = [call EXCEPT ![c] = [caller |-> k, op |-> op, message |-> m]]
    /\ stage' = [stage EXCEPT ![c] = IF connection[k] = "open" THEN "inbound" ELSE "lost"]
    /\ UNCHANGED <<serverVars, answer, live, callerVars, reported>>

\* Mutant of ReportOf: the method has no handle_exception, so that the exception
\* goes on to its owner.
ReportOfThrows(a) ==
    IF a.code = Exception THEN Exception
    ELSE IF "answer" \in Repaired THEN a.code ELSE ParseFailed

\* Mutant of ReportOf: an exception is not told from an answer without a code.
ReportOfForgets(a) == IF a.code = Exception THEN OK ELSE ParseFailed

\* What the caller makes of an answer: every answer is a serialised response, so
\* ParseFromString returns true, which is taken for the failure.
ReportOf(a) ==
    IF a.code = Exception THEN InvokeFailed
    ELSE IF "answer" \in Repaired THEN a.code ELSE ParseFailed

Deliver(c) ==
    /\ stage[c] = "answered"
    /\ connection[call[c].caller] = "open"
    /\ stage' = [stage EXCEPT ![c] = "done"]
    /\ reported' = [reported EXCEPT ![c] = ReportOf(answer[c])]
    /\ UNCHANGED <<serverVars, call, answer, live, callerVars>>

\* Mutant of Fail: the handler of the exception returns the code it was given.
FailTellsOK(c) ==
    /\ stage[c] # None
    /\ reported[c] = None
    /\ connection[call[c].caller] \in {"broken", "stopped"}
    /\ reported' = [reported EXCEPT ![c] = OK]
    /\ UNCHANGED <<serverVars, call, stage, answer, live, callerVars>>

\* The client fails the calls that wait on a connection that is broken or
\* stopped; handle_exception.
Fail(c) ==
    /\ stage[c] # None
    /\ reported[c] = None
    /\ connection[call[c].caller] \in {"broken", "stopped"}
    /\ reported' = [reported EXCEPT ![c] = InvokeFailed]
    /\ UNCHANGED <<serverVars, call, stage, answer, live, callerVars>>

\* The connection is lost, and both ends notice.
Break(k) ==
    /\ connection[k] = "open"
    /\ connection' = [connection EXCEPT ![k] = "broken"]
    /\ UNCHANGED <<serverVars, call, stage, answer, live, closed_, reported>>

\* The connection carries nothing any more, and nobody notices.
Silence(k) ==
    /\ MaySilence
    /\ connection[k] = "open"
    /\ connection' = [connection EXCEPT ![k] = "silent"]
    /\ UNCHANGED <<serverVars, call, stage, answer, live, closed_, reported>>

\* A request that had not reached the server when its connection went.
Lose(c) ==
    /\ stage[c] = "inbound"
    /\ connection[call[c].caller] # "open"
    /\ stage' = [stage EXCEPT ![c] = "lost"]
    /\ UNCHANGED <<serverVars, call, answer, live, callerVars, reported>>

\* Mutant of Close: closed_ is set and the client is not stopped.
CloseLeavesClient(k) ==
    /\ connection[k] \in {"open", "silent", "broken"}
    /\ closed_' = closed_ \cup {k}
    /\ UNCHANGED <<serverVars, call, stage, answer, live, connection, reported>>

\* Close asks the client to stop; closed_ is set when it has.
Close(k) ==
    /\ connection[k] \in {"open", "silent", "broken"}
    /\ connection' = [connection EXCEPT ![k] = "stopped"]
    /\ UNCHANGED <<serverVars, call, stage, answer, live, closed_, reported>>

Closed(k) ==
    /\ connection[k] = "stopped"
    /\ k \notin closed_
    /\ closed_' = closed_ \cup {k}
    /\ UNCHANGED <<serverVars, call, stage, answer, live, connection, reported>>

\* The destructor of a closed caller; its owner has waited for its calls.
Destroy(k) ==
    /\ connection[k] = "stopped"
    /\ k \in closed_
    /\ \A c \in Calls : call[c].caller = k => reported[c] # None
    /\ connection' = [connection EXCEPT ![k] = "gone"]
    /\ UNCHANGED <<serverVars, call, stage, answer, live, closed_, reported>>

\* The destructor of a caller that is not closed: std::terminate.
Terminate(k) ==
    /\ connection[k] \notin {None, "gone"}
    /\ k \notin closed_
    /\ connection' = [j \in Callers |-> "gone"]
    /\ UNCHANGED <<serverVars, call, stage, answer, live, closed_, reported>>

ClientNext ==
    \/ \E k \in Callers : \/ Connect(k) \/ Break(k) \/ Silence(k) \/ Close(k)
                          \/ Closed(k) \/ Destroy(k) \/ Terminate(k)
                          \/ \E c \in Calls, op \in Operations :
                                \E m \in Messages(op) : Send(c, k, op, m)
    \/ \E c \in Calls : Deliver(c) \/ Fail(c) \/ Lose(c)

ServerNext ==
    \/ \E order \in Registrations : Start(order)
    \/ Crash
    \/ \E c \in Calls : \/ ReceiveUnknown(c) \/ Receive(c) \/ HandlerThrows(c)
                        \/ \E code \in Codes : HandlerReturns(c, code)

Next == ClientNext \/ ServerNext

Spec == Init /\ [][Next]_vars

-----------------------------------------------------------------------------
(* Properties.                                                             *)

\* The lambda that answers a call is the one of the operation that was called:
\* request and response are decoded as what they are.  All Register functions
\* use one verb (datanode.cc 19-219), so this rests on which registration of the
\* verb stays, and on the order in which the program calls them.
AnsweredByOwnHandler ==
    \A c \in Calls : answer[c].by # None => answer[c].by = call[c].op

\* The request that a handler refers to (datanode.cc 30, manager_service.cc 53)
\* exists until the handler has ended, whatever becomes of its connection
\* meanwhile; afterwards it exists only if the handler ended with an exception.
RequestLivesWithHandler ==
    \A c \in Calls :
        /\ stage[c] = "handling" => c \in live
        /\ c \in live /\ stage[c] # "handling" => answer[c].code = Exception

\* A caller is told one code, once: its handler's own, or that the call failed.
\* A handler runs at most once per call and OK is never told for one that did
\* not return it.
outcome == [c \in Calls |-> IF answer[c].by = call[c].op THEN answer[c].code ELSE None]
Abstract == INSTANCE RemoteCall
ImplementsRemoteCall == Abstract!Spec
=============================================================================
