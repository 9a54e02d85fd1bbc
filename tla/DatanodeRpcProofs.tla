-------------------------- MODULE DatanodeRpcProofs --------------------------
(***************************************************************************)
(* Theorems about DatanodeRpc, for all callers, calls, operations and      *)
(* handlers, with and without the repairs.                                 *)
(***************************************************************************)
EXTENDS DatanodeRpc, TLAPS

\* A call is at the server only while the server runs.
AtServer ==
    /\ server = "down" => handlers_ = NoHandlers
    /\ \A k \in Callers : connection[k] = "open" => server = "listening"
    /\ \A c \in Calls : stage[c] = "handling" => Verb(call[c].op) \in DOMAIN handlers_

\* An answer stands where the call has been answered, and nowhere before.
AnswerInPlace ==
    \A c \in Calls :
        /\ stage[c] \in {None, "inbound", "handling"} => answer[c] = NoAnswer
        /\ stage[c] \in {"answered", "done"} => answer[c].code # None
        /\ answer[c].code = Exception => answer[c].by = None
        /\ answer[c].code \in Codes => answer[c].by # None
        /\ answer[c].code = None => answer[c].by = None

\* A call is reported once: a report on a failed connection is final, because
\* the connection does not come back.
ReportIsFinal ==
    \A c \in Calls :
        /\ stage[c] = None => reported[c] = None
        /\ reported[c] # None /\ stage[c] # "done" =>
            connection[call[c].caller] \in {"broken", "stopped", "gone"}

RpcInv ==
    /\ TypeOK
    /\ AtServer
    /\ AnswerInPlace
    /\ ReportIsFinal
    /\ AnsweredByOwnHandler
    /\ RequestLivesWithHandler

-----------------------------------------------------------------------------
(* Operations, requests and registrations.                                 *)

\* Operations are the named ones; none of them is None.
LEMMA OperationsNamed == None \notin Operations
BY RpcAssumption DEF RequestFields, None

\* The parts of a request.
LEMMA RequestParts ==
    \A r \in Requests : r.caller \in Callers /\ r.op \in Operations /\ r # NoCall
BY OperationsNamed DEF Requests, NoCall

\* What Send puts together is a request.
LEMMA RequestMade ==
    ASSUME NEW k \in Callers, NEW op \in Operations, NEW m \in Messages(op)
    PROVE  [caller |-> k, op |-> op, message |-> m] \in Requests
BY DEF Requests

\* The handlers that answer are those of operations.
LEMMA RegisteredOperations ==
    ASSUME NEW order \in Registrations, NEW verb \in DOMAIN Registered(order)
    PROVE  Registered(order)[verb] \in Operations
<1> DEFINE First(i) == /\ RegisterVerb(order[i]) = verb
                       /\ \A j \in DOMAIN order : RegisterVerb(order[j]) = verb => i <= j
<1>1. /\ order \in Seq(Operations) /\ order # <<>>
      /\ \A i, j \in DOMAIN order : order[i] = order[j] => i = j
  BY RpcAssumption
<1>2. PICK n \in DOMAIN order : RegisterVerb(order[n]) = verb
  BY DEF Registered
<1>3. \E i \in DOMAIN order : First(i)
  <2>1. CASE "verb" \in Repaired
    BY <1>1, <1>2, <2>1 DEF RegisterVerb
  <2>2. CASE "verb" \notin Repaired
    <3>1. 1 \in DOMAIN order /\ \A j \in DOMAIN order : 1 <= j
      BY <1>1
    <3> QED BY <1>2, <2>2, <3>1 DEF RegisterVerb
  <2> QED BY <2>1, <2>2
<1>4. Registered(order)[verb] = order[CHOOSE i \in DOMAIN order : First(i)]
  BY DEF Registered
<1> QED BY <1>1, <1>3, <1>4

\* The handler found under the verb of an operation is the operation's own: with
\* one verb for all it is the first registered, AddDevice.
LEMMA OwnRegistration ==
    ASSUME NEW order \in Registrations, NEW op \in Operations,
           Verb(op) \in DOMAIN Registered(order)
    PROVE  Registered(order)[Verb(op)] = op
<1> DEFINE First(i) == /\ RegisterVerb(order[i]) = op
                       /\ \A j \in DOMAIN order : RegisterVerb(order[j]) = op => i <= j
<1>1. /\ order \in Seq(Operations) /\ order # <<>>
      /\ \A i, j \in DOMAIN order : order[i] = order[j] => i = j
      /\ AddDevice \in Operations => order[1] = AddDevice
  BY RpcAssumption
<1>2. PICK n \in DOMAIN order : RegisterVerb(order[n]) = op
  BY DEF Registered, Verb
<1>4. Registered(order)[op] = order[CHOOSE i \in DOMAIN order : First(i)]
  BY DEF Registered, Verb
<1>5. CASE "verb" \in Repaired
  <2>1. First(n)
    BY <1>1, <1>2, <1>5 DEF RegisterVerb
  <2>2. \A i \in DOMAIN order : First(i) => order[i] = op
    BY <1>5 DEF RegisterVerb
  <2> QED BY <1>2, <1>4, <2>1, <2>2 DEF Verb
<1>6. CASE "verb" \notin Repaired
  <2>1. 1 \in DOMAIN order /\ \A j \in DOMAIN order : j \in Nat /\ 1 <= j
    BY <1>1
  <2>2. op = AddDevice /\ order[1] = op /\ First(1)
    BY <1>1, <1>2, <1>6, <2>1 DEF RegisterVerb
  <2>3. \A i \in DOMAIN order : First(i) => i = 1
    BY <2>1, <2>2
  <2> QED BY <1>4, <2>1, <2>2, <2>3 DEF Verb
<1> QED BY <1>5, <1>6

-----------------------------------------------------------------------------
(* Every step keeps the invariant: one lemma per conjunct, one step per    *)
(* action.                                                                 *)

USE DEF None, Exception, InvokeFailed, ParseFailed, OK
\* A step keeps the types.
LEMMA TypeStep == RpcInv /\ [Next]_vars => TypeOK'
<1> SUFFICES ASSUME RpcInv, [Next]_vars PROVE TypeOK'
  OBVIOUS
<1> USE DEF RpcInv, TypeOK, Stages
<1>1. ASSUME NEW order \in Registrations, Start(order) PROVE TypeOK'
  BY <1>1 DEF Start, serverVars, callerVars
<1>2. ASSUME Crash PROVE TypeOK'
  BY <1>2 DEF Crash, serverVars, callerVars
<1>3. ASSUME NEW c \in Calls, ReceiveUnknown(c) PROVE TypeOK'
  BY RpcAssumption, <1>3 DEF ReceiveUnknown, serverVars, callerVars
<1>4. ASSUME NEW c \in Calls, Receive(c) PROVE TypeOK'
  BY <1>4 DEF Receive, serverVars, callerVars
<1>5. ASSUME NEW c \in Calls, HandlerThrows(c) PROVE TypeOK'
  BY RpcAssumption, <1>5 DEF HandlerThrows, serverVars, callerVars
<1>6. ASSUME NEW c \in Calls, Deliver(c) PROVE TypeOK'
  BY <1>6 DEF Deliver, ReportOf, AnswerInPlace, serverVars, callerVars
<1>7. ASSUME NEW c \in Calls, Fail(c) PROVE TypeOK'
  BY <1>7 DEF Fail, serverVars, callerVars
<1>8. ASSUME NEW c \in Calls, Lose(c) PROVE TypeOK'
  BY RequestParts, <1>8 DEF Lose, serverVars, callerVars
<1>9. ASSUME NEW c \in Calls, NEW code \in Codes, HandlerReturns(c, code) PROVE TypeOK'
  BY RegisteredOperations, <1>9 DEF HandlerReturns, HandlerOf, AtServer, NoHandlers, serverVars, callerVars
<1>10. ASSUME NEW k \in Callers, Connect(k) PROVE TypeOK'
  BY <1>10 DEF Connect, serverVars, callerVars
<1>11. ASSUME NEW k \in Callers, Break(k) PROVE TypeOK'
  BY <1>11 DEF Break, serverVars, callerVars
<1>12. ASSUME NEW k \in Callers, Silence(k) PROVE TypeOK'
  BY <1>12 DEF Silence, serverVars, callerVars
<1>13. ASSUME NEW k \in Callers, Close(k) PROVE TypeOK'
  BY <1>13 DEF Close, serverVars, callerVars
<1>14. ASSUME NEW k \in Callers, Closed(k) PROVE TypeOK'
  BY <1>14 DEF Closed, serverVars, callerVars
<1>15. ASSUME NEW k \in Callers, Destroy(k) PROVE TypeOK'
  BY <1>15 DEF Destroy, serverVars, callerVars
<1>16. ASSUME NEW k \in Callers, Terminate(k) PROVE TypeOK'
  BY <1>16 DEF Terminate, serverVars, callerVars
<1>17. ASSUME NEW c \in Calls, NEW k \in Callers, NEW op \in Operations, NEW m \in Messages(op), Send(c, k, op, m) PROVE TypeOK'
  BY RequestMade, RequestParts, <1>17 DEF Send, serverVars, callerVars
<1>18. CASE UNCHANGED vars
  BY <1>18 DEF vars
<1> QED BY <1>1, <1>2, <1>3, <1>4, <1>5, <1>6, <1>7, <1>8, <1>9, <1>10, <1>11, <1>12, <1>13, <1>14, <1>15, <1>16, <1>17, <1>18 DEF Next, ClientNext, ServerNext

\* A step keeps calls at the server that runs.
LEMMA AtServerStep == RpcInv /\ [Next]_vars => AtServer'
<1> SUFFICES ASSUME RpcInv, [Next]_vars PROVE AtServer'
  OBVIOUS
<1> USE RequestParts DEF RpcInv, TypeOK, AtServer, Stages
<1>1. ASSUME NEW order \in Registrations, Start(order) PROVE AtServer'
  BY <1>1 DEF Start, NoHandlers, serverVars, callerVars
<1>2. ASSUME Crash PROVE AtServer'
  BY <1>2 DEF Crash, serverVars, callerVars
<1>3. ASSUME NEW c \in Calls, ReceiveUnknown(c) PROVE AtServer'
  BY <1>3 DEF ReceiveUnknown, serverVars, callerVars
<1>4. ASSUME NEW c \in Calls, Receive(c) PROVE AtServer'
  BY <1>4 DEF Receive, serverVars, callerVars
<1>5. ASSUME NEW c \in Calls, HandlerThrows(c) PROVE AtServer'
  BY <1>5 DEF HandlerThrows, serverVars, callerVars
<1>6. ASSUME NEW c \in Calls, Deliver(c) PROVE AtServer'
  BY <1>6 DEF Deliver, serverVars, callerVars
<1>7. ASSUME NEW c \in Calls, Fail(c) PROVE AtServer'
  BY <1>7 DEF Fail, serverVars, callerVars
<1>8. ASSUME NEW c \in Calls, Lose(c) PROVE AtServer'
  BY <1>8 DEF Lose, serverVars, callerVars
<1>9. ASSUME NEW c \in Calls, NEW code \in Codes, HandlerReturns(c, code) PROVE AtServer'
  BY <1>9 DEF HandlerReturns, serverVars, callerVars
<1>10. ASSUME NEW k \in Callers, Connect(k) PROVE AtServer'
  BY <1>10 DEF Connect, serverVars, callerVars
<1>11. ASSUME NEW k \in Callers, Break(k) PROVE AtServer'
  BY <1>11 DEF Break, serverVars, callerVars
<1>12. ASSUME NEW k \in Callers, Silence(k) PROVE AtServer'
  BY <1>12 DEF Silence, serverVars, callerVars
<1>13. ASSUME NEW k \in Callers, Close(k) PROVE AtServer'
  BY <1>13 DEF Close, serverVars, callerVars
<1>14. ASSUME NEW k \in Callers, Closed(k) PROVE AtServer'
  BY <1>14 DEF Closed, serverVars, callerVars
<1>15. ASSUME NEW k \in Callers, Destroy(k) PROVE AtServer'
  BY <1>15 DEF Destroy, serverVars, callerVars
<1>16. ASSUME NEW k \in Callers, Terminate(k) PROVE AtServer'
  BY <1>16 DEF Terminate, serverVars, callerVars
<1>17. ASSUME NEW c \in Calls, NEW k \in Callers, NEW op \in Operations, NEW m \in Messages(op), Send(c, k, op, m) PROVE AtServer'
  BY <1>17 DEF Send, serverVars, callerVars
<1>18. CASE UNCHANGED vars
  BY <1>18 DEF vars
<1> QED BY <1>1, <1>2, <1>3, <1>4, <1>5, <1>6, <1>7, <1>8, <1>9, <1>10, <1>11, <1>12, <1>13, <1>14, <1>15, <1>16, <1>17, <1>18 DEF Next, ClientNext, ServerNext

\* A step keeps answers in their place.
LEMMA AnswerStep == RpcInv /\ [Next]_vars => AnswerInPlace'
<1> SUFFICES ASSUME RpcInv, [Next]_vars PROVE AnswerInPlace'
  OBVIOUS
<1> USE RpcAssumption DEF RpcInv, TypeOK, AnswerInPlace, Stages, NoAnswer
<1>1. ASSUME NEW order \in Registrations, Start(order) PROVE AnswerInPlace'
  BY <1>1 DEF Start, serverVars, callerVars
<1>2. ASSUME Crash PROVE AnswerInPlace'
  BY <1>2 DEF Crash, serverVars, callerVars
<1>3. ASSUME NEW c \in Calls, ReceiveUnknown(c) PROVE AnswerInPlace'
  BY <1>3 DEF ReceiveUnknown, serverVars, callerVars
<1>4. ASSUME NEW c \in Calls, Receive(c) PROVE AnswerInPlace'
  BY <1>4 DEF Receive, serverVars, callerVars
<1>5. ASSUME NEW c \in Calls, HandlerThrows(c) PROVE AnswerInPlace'
  BY <1>5 DEF HandlerThrows, serverVars, callerVars
<1>6. ASSUME NEW c \in Calls, Deliver(c) PROVE AnswerInPlace'
  BY <1>6 DEF Deliver, serverVars, callerVars
<1>7. ASSUME NEW c \in Calls, Fail(c) PROVE AnswerInPlace'
  BY <1>7 DEF Fail, serverVars, callerVars
<1>8. ASSUME NEW c \in Calls, Lose(c) PROVE AnswerInPlace'
  BY <1>8 DEF Lose, serverVars, callerVars
<1>9. ASSUME NEW c \in Calls, NEW code \in Codes, HandlerReturns(c, code) PROVE AnswerInPlace'
  BY RegisteredOperations, OperationsNamed, <1>9 DEF HandlerReturns, HandlerOf, AtServer, NoHandlers, serverVars, callerVars
<1>10. ASSUME NEW k \in Callers, Connect(k) PROVE AnswerInPlace'
  BY <1>10 DEF Connect, serverVars, callerVars
<1>11. ASSUME NEW k \in Callers, Break(k) PROVE AnswerInPlace'
  BY <1>11 DEF Break, serverVars, callerVars
<1>12. ASSUME NEW k \in Callers, Silence(k) PROVE AnswerInPlace'
  BY <1>12 DEF Silence, serverVars, callerVars
<1>13. ASSUME NEW k \in Callers, Close(k) PROVE AnswerInPlace'
  BY <1>13 DEF Close, serverVars, callerVars
<1>14. ASSUME NEW k \in Callers, Closed(k) PROVE AnswerInPlace'
  BY <1>14 DEF Closed, serverVars, callerVars
<1>15. ASSUME NEW k \in Callers, Destroy(k) PROVE AnswerInPlace'
  BY <1>15 DEF Destroy, serverVars, callerVars
<1>16. ASSUME NEW k \in Callers, Terminate(k) PROVE AnswerInPlace'
  BY <1>16 DEF Terminate, serverVars, callerVars
<1>17. ASSUME NEW c \in Calls, NEW k \in Callers, NEW op \in Operations, NEW m \in Messages(op), Send(c, k, op, m) PROVE AnswerInPlace'
  BY <1>17 DEF Send, serverVars, callerVars
<1>18. CASE UNCHANGED vars
  BY <1>18 DEF vars
<1> QED BY <1>1, <1>2, <1>3, <1>4, <1>5, <1>6, <1>7, <1>8, <1>9, <1>10, <1>11, <1>12, <1>13, <1>14, <1>15, <1>16, <1>17, <1>18 DEF Next, ClientNext, ServerNext

\* A step keeps reports final.
LEMMA ReportStep == RpcInv /\ [Next]_vars => ReportIsFinal'
<1> SUFFICES ASSUME RpcInv, [Next]_vars PROVE ReportIsFinal'
  OBVIOUS
<1> USE RequestParts DEF RpcInv, TypeOK, ReportIsFinal, Stages
<1>1. ASSUME NEW order \in Registrations, Start(order) PROVE ReportIsFinal'
  BY <1>1 DEF Start, serverVars, callerVars
<1>2. ASSUME Crash PROVE ReportIsFinal'
  BY <1>2 DEF Crash, serverVars, callerVars
<1>3. ASSUME NEW c \in Calls, ReceiveUnknown(c) PROVE ReportIsFinal'
  BY <1>3 DEF ReceiveUnknown, serverVars, callerVars
<1>4. ASSUME NEW c \in Calls, Receive(c) PROVE ReportIsFinal'
  BY <1>4 DEF Receive, serverVars, callerVars
<1>5. ASSUME NEW c \in Calls, HandlerThrows(c) PROVE ReportIsFinal'
  BY <1>5 DEF HandlerThrows, serverVars, callerVars
<1>6. ASSUME NEW c \in Calls, Deliver(c) PROVE ReportIsFinal'
  BY <1>6 DEF Deliver, ReportOf, serverVars, callerVars
<1>7. ASSUME NEW c \in Calls, Fail(c) PROVE ReportIsFinal'
  BY <1>7 DEF Fail, serverVars, callerVars
<1>8. ASSUME NEW c \in Calls, Lose(c) PROVE ReportIsFinal'
  BY <1>8 DEF Lose, serverVars, callerVars
<1>9. ASSUME NEW c \in Calls, NEW code \in Codes, HandlerReturns(c, code) PROVE ReportIsFinal'
  BY <1>9 DEF HandlerReturns, serverVars, callerVars
<1>10. ASSUME NEW k \in Callers, Connect(k) PROVE ReportIsFinal'
  BY <1>10 DEF Connect, serverVars, callerVars
<1>11. ASSUME NEW k \in Callers, Break(k) PROVE ReportIsFinal'
  BY <1>11 DEF Break, serverVars, callerVars
<1>12. ASSUME NEW k \in Callers, Silence(k) PROVE ReportIsFinal'
  BY <1>12 DEF Silence, serverVars, callerVars
<1>13. ASSUME NEW k \in Callers, Close(k) PROVE ReportIsFinal'
  BY <1>13 DEF Close, serverVars, callerVars
<1>14. ASSUME NEW k \in Callers, Closed(k) PROVE ReportIsFinal'
  BY <1>14 DEF Closed, serverVars, callerVars
<1>15. ASSUME NEW k \in Callers, Destroy(k) PROVE ReportIsFinal'
  BY <1>15 DEF Destroy, serverVars, callerVars
<1>16. ASSUME NEW k \in Callers, Terminate(k) PROVE ReportIsFinal'
  BY <1>16 DEF Terminate, serverVars, callerVars
<1>17. ASSUME NEW c \in Calls, NEW k \in Callers, NEW op \in Operations, NEW m \in Messages(op), Send(c, k, op, m) PROVE ReportIsFinal'
  BY RequestMade, <1>17 DEF Send, serverVars, callerVars
<1>18. CASE UNCHANGED vars
  BY <1>18 DEF vars
<1> QED BY <1>1, <1>2, <1>3, <1>4, <1>5, <1>6, <1>7, <1>8, <1>9, <1>10, <1>11, <1>12, <1>13, <1>14, <1>15, <1>16, <1>17, <1>18 DEF Next, ClientNext, ServerNext

\* A step keeps answers with the handlers of their operations.
LEMMA OwnHandlerStep == RpcInv /\ [Next]_vars => AnsweredByOwnHandler'
<1> SUFFICES ASSUME RpcInv, [Next]_vars PROVE AnsweredByOwnHandler'
  OBVIOUS
<1> USE RequestParts DEF RpcInv, TypeOK, AnsweredByOwnHandler, AnswerInPlace, NoAnswer, Stages
<1>1. ASSUME NEW order \in Registrations, Start(order) PROVE AnsweredByOwnHandler'
  BY <1>1 DEF Start, serverVars, callerVars
<1>2. ASSUME Crash PROVE AnsweredByOwnHandler'
  BY <1>2 DEF Crash, serverVars, callerVars
<1>3. ASSUME NEW c \in Calls, ReceiveUnknown(c) PROVE AnsweredByOwnHandler'
  BY <1>3 DEF ReceiveUnknown, serverVars, callerVars
<1>4. ASSUME NEW c \in Calls, Receive(c) PROVE AnsweredByOwnHandler'
  BY <1>4 DEF Receive, serverVars, callerVars
<1>5. ASSUME NEW c \in Calls, HandlerThrows(c) PROVE AnsweredByOwnHandler'
  BY <1>5 DEF HandlerThrows, serverVars, callerVars
<1>6. ASSUME NEW c \in Calls, Deliver(c) PROVE AnsweredByOwnHandler'
  BY <1>6 DEF Deliver, serverVars, callerVars
<1>7. ASSUME NEW c \in Calls, Fail(c) PROVE AnsweredByOwnHandler'
  BY <1>7 DEF Fail, serverVars, callerVars
<1>8. ASSUME NEW c \in Calls, Lose(c) PROVE AnsweredByOwnHandler'
  BY <1>8 DEF Lose, serverVars, callerVars
<1>9. ASSUME NEW c \in Calls, NEW code \in Codes, HandlerReturns(c, code) PROVE AnsweredByOwnHandler'
  BY OwnRegistration, <1>9 DEF HandlerReturns, HandlerOf, AtServer, NoHandlers, serverVars, callerVars
<1>10. ASSUME NEW k \in Callers, Connect(k) PROVE AnsweredByOwnHandler'
  BY <1>10 DEF Connect, serverVars, callerVars
<1>11. ASSUME NEW k \in Callers, Break(k) PROVE AnsweredByOwnHandler'
  BY <1>11 DEF Break, serverVars, callerVars
<1>12. ASSUME NEW k \in Callers, Silence(k) PROVE AnsweredByOwnHandler'
  BY <1>12 DEF Silence, serverVars, callerVars
<1>13. ASSUME NEW k \in Callers, Close(k) PROVE AnsweredByOwnHandler'
  BY <1>13 DEF Close, serverVars, callerVars
<1>14. ASSUME NEW k \in Callers, Closed(k) PROVE AnsweredByOwnHandler'
  BY <1>14 DEF Closed, serverVars, callerVars
<1>15. ASSUME NEW k \in Callers, Destroy(k) PROVE AnsweredByOwnHandler'
  BY <1>15 DEF Destroy, serverVars, callerVars
<1>16. ASSUME NEW k \in Callers, Terminate(k) PROVE AnsweredByOwnHandler'
  BY <1>16 DEF Terminate, serverVars, callerVars
<1>17. ASSUME NEW c \in Calls, NEW k \in Callers, NEW op \in Operations, NEW m \in Messages(op), Send(c, k, op, m) PROVE AnsweredByOwnHandler'
  BY RequestMade, <1>17 DEF Send, serverVars, callerVars
<1>18. CASE UNCHANGED vars
  BY <1>18 DEF vars
<1> QED BY <1>1, <1>2, <1>3, <1>4, <1>5, <1>6, <1>7, <1>8, <1>9, <1>10, <1>11, <1>12, <1>13, <1>14, <1>15, <1>16, <1>17, <1>18 DEF Next, ClientNext, ServerNext

\* A step keeps requests alive with their handlers.
LEMMA LiveStep == RpcInv /\ [Next]_vars => RequestLivesWithHandler'
<1> SUFFICES ASSUME RpcInv, [Next]_vars PROVE RequestLivesWithHandler'
  OBVIOUS
<1> USE DEF RpcInv, TypeOK, RequestLivesWithHandler, AnswerInPlace, NoAnswer, Stages
<1>1. ASSUME NEW order \in Registrations, Start(order) PROVE RequestLivesWithHandler'
  BY <1>1 DEF Start, serverVars, callerVars
<1>2. ASSUME Crash PROVE RequestLivesWithHandler'
  BY <1>2 DEF Crash, serverVars, callerVars
<1>3. ASSUME NEW c \in Calls, ReceiveUnknown(c) PROVE RequestLivesWithHandler'
  BY <1>3 DEF ReceiveUnknown, serverVars, callerVars
<1>4. ASSUME NEW c \in Calls, Receive(c) PROVE RequestLivesWithHandler'
  BY <1>4 DEF Receive, serverVars, callerVars
<1>5. ASSUME NEW c \in Calls, HandlerThrows(c) PROVE RequestLivesWithHandler'
  BY <1>5 DEF HandlerThrows, serverVars, callerVars
<1>6. ASSUME NEW c \in Calls, Deliver(c) PROVE RequestLivesWithHandler'
  BY <1>6 DEF Deliver, serverVars, callerVars
<1>7. ASSUME NEW c \in Calls, Fail(c) PROVE RequestLivesWithHandler'
  BY <1>7 DEF Fail, serverVars, callerVars
<1>8. ASSUME NEW c \in Calls, Lose(c) PROVE RequestLivesWithHandler'
  BY <1>8 DEF Lose, serverVars, callerVars
<1>9. ASSUME NEW c \in Calls, NEW code \in Codes, HandlerReturns(c, code) PROVE RequestLivesWithHandler'
  BY RpcAssumption, <1>9 DEF HandlerReturns, serverVars, callerVars
<1>10. ASSUME NEW k \in Callers, Connect(k) PROVE RequestLivesWithHandler'
  BY <1>10 DEF Connect, serverVars, callerVars
<1>11. ASSUME NEW k \in Callers, Break(k) PROVE RequestLivesWithHandler'
  BY <1>11 DEF Break, serverVars, callerVars
<1>12. ASSUME NEW k \in Callers, Silence(k) PROVE RequestLivesWithHandler'
  BY <1>12 DEF Silence, serverVars, callerVars
<1>13. ASSUME NEW k \in Callers, Close(k) PROVE RequestLivesWithHandler'
  BY <1>13 DEF Close, serverVars, callerVars
<1>14. ASSUME NEW k \in Callers, Closed(k) PROVE RequestLivesWithHandler'
  BY <1>14 DEF Closed, serverVars, callerVars
<1>15. ASSUME NEW k \in Callers, Destroy(k) PROVE RequestLivesWithHandler'
  BY <1>15 DEF Destroy, serverVars, callerVars
<1>16. ASSUME NEW k \in Callers, Terminate(k) PROVE RequestLivesWithHandler'
  BY <1>16 DEF Terminate, serverVars, callerVars
<1>17. ASSUME NEW c \in Calls, NEW k \in Callers, NEW op \in Operations, NEW m \in Messages(op), Send(c, k, op, m) PROVE RequestLivesWithHandler'
  BY <1>17 DEF Send, serverVars, callerVars
<1>18. CASE UNCHANGED vars
  BY <1>18 DEF vars
<1> QED BY <1>1, <1>2, <1>3, <1>4, <1>5, <1>6, <1>7, <1>8, <1>9, <1>10, <1>11, <1>12, <1>13, <1>14, <1>15, <1>16, <1>17, <1>18 DEF Next, ClientNext, ServerNext

\* The invariant holds at first, and along every step.
LEMMA RpcInvariant == Spec => []RpcInv
<1>1. Init => RpcInv
  BY RpcAssumption DEF Init, RpcInv, TypeOK, Stages, AtServer, AnswerInPlace, ReportIsFinal, AnsweredByOwnHandler,
         RequestLivesWithHandler, NoAnswer, NoCall
<1>2. RpcInv /\ [Next]_vars => RpcInv'
  BY TypeStep, AtServerStep, AnswerStep, ReportStep, OwnHandlerStep, LiveStep DEF RpcInv
<1> QED BY <1>1, <1>2, PTL DEF Spec

-----------------------------------------------------------------------------
(* Theorems.                                                               *)

\* Every state is of its type (TypeOK), whatever handlers, callers and network do.
THEOREM RpcTypeCorrect == Spec => []TypeOK
BY RpcInvariant, PTL DEF RpcInv

\* A call is never answered by the handler of another operation, although all
\* Register functions of datanode.cc use the verb of AddDevice.
THEOREM OwnHandlerHolds == Spec => []AnsweredByOwnHandler
BY RpcInvariant, PTL DEF RpcInv

\* The request object exists as long as the handler that refers to it, and
\* longer only after an exception.
THEOREM RequestLivesHolds == Spec => []RequestLivesWithHandler
BY RpcInvariant, PTL DEF RpcInv

\* What a step does to the mapped variables: a handler that returns is Run, a
\* report is Report, all else is a stutter.
LEMMA RefinementStep == RpcInv /\ [Next]_vars => [Abstract!Next]_(Abstract!vars)
<1> SUFFICES ASSUME RpcInv, [Next]_vars PROVE [Abstract!Next]_(Abstract!vars)
  OBVIOUS
<1> USE DEF RpcInv, TypeOK
<1>1. ASSUME NEW c \in Calls, NEW code \in Codes, HandlerReturns(c, code)
      PROVE  Abstract!Run(c)
  <2>1. stage[c] = "handling" /\ answer[c] = NoAnswer /\ outcome[c] = None
    BY <1>1 DEF HandlerReturns, AnswerInPlace, outcome, NoAnswer
  <2>2. HandlerOf(c) = call[c].op
    BY <2>1, RequestParts, OwnRegistration DEF HandlerOf, AtServer, NoHandlers
  <2>3. outcome' = [outcome EXCEPT ![c] = code]
    BY <1>1, <2>2 DEF HandlerReturns, outcome, serverVars, callerVars
  <2> QED BY <1>1, <2>1, <2>3 DEF HandlerReturns, Abstract!Run
<1>2. ASSUME NEW c \in Calls, Deliver(c) PROVE Abstract!Report(c)
  <2>1. stage[c] = "answered" /\ connection[call[c].caller] = "open"
    BY <1>2 DEF Deliver
  <2>2. reported[c] = None
    BY <2>1 DEF ReportIsFinal
  <2>3. answer[c].code # None
    BY <2>1 DEF AnswerInPlace
  <2>4. CASE answer[c].code = Exception
    <3>1. reported' = [reported EXCEPT ![c] = InvokeFailed] /\ UNCHANGED outcome
      BY <1>2, <2>4 DEF Deliver, ReportOf, outcome
    <3> QED BY <2>2, <3>1 DEF Abstract!Report
  <2>5. CASE answer[c].code \in Codes
    <3>1. outcome[c] = answer[c].code /\ outcome[c] # None
      BY <2>3, <2>5 DEF outcome, AnsweredByOwnHandler, AnswerInPlace
    <3>2. /\ ReportOf(answer[c]) \in {outcome[c], ParseFailed}
          /\ reported' = [reported EXCEPT ![c] = ReportOf(answer[c])]
          /\ UNCHANGED outcome
      BY <1>2, <2>5, <3>1, RpcAssumption DEF Deliver, ReportOf, outcome
    <3> QED BY <2>2, <3>1, <3>2 DEF Abstract!Report
  <2> QED BY <2>3, <2>4, <2>5
<1>3. ASSUME NEW c \in Calls, Fail(c) PROVE Abstract!Report(c)
  BY <1>3 DEF Fail, outcome, Abstract!Report
<1>4. ASSUME NEW c \in Calls, ReceiveUnknown(c) \/ HandlerThrows(c) PROVE UNCHANGED <<outcome, reported>>
  <2>1. answer[c] = NoAnswer /\ call[c].op # None
    BY <1>4, RequestParts, OperationsNamed DEF ReceiveUnknown, HandlerThrows, AnswerInPlace
  <2> QED BY <1>4, <2>1 DEF ReceiveUnknown, HandlerThrows, outcome, NoAnswer
<1>5. ASSUME NEW c \in Calls, NEW k \in Callers, NEW op \in Operations, NEW m \in Messages(op),
             Send(c, k, op, m)
      PROVE  UNCHANGED <<outcome, reported>>
  <2>1. answer[c] = NoAnswer
    BY <1>5 DEF Send, AnswerInPlace
  <2> QED BY <1>5, <2>1, OperationsNamed DEF Send, outcome, NoAnswer
<1>6. ASSUME UNCHANGED <<call, answer, reported>> PROVE UNCHANGED <<outcome, reported>>
  BY <1>6 DEF outcome
<1>7. ASSUME NEW k \in Callers,
             \/ Connect(k) \/ Break(k) \/ Silence(k) \/ Close(k) \/ Closed(k) \/ Destroy(k) \/ Terminate(k)
      PROVE  UNCHANGED <<outcome, reported>>
  BY <1>6, <1>7 DEF Connect, Break, Silence, Close, Closed, Destroy, Terminate
<1>8. ASSUME NEW c \in Calls, Receive(c) \/ Lose(c) PROVE UNCHANGED <<outcome, reported>>
  BY <1>6, <1>8 DEF Receive, Lose
<1>9. ASSUME Crash \/ (\E order \in Registrations : Start(order)) \/ UNCHANGED vars
      PROVE  UNCHANGED <<outcome, reported>>
  BY <1>6, <1>9 DEF Crash, Start, vars
<1> QED
  BY <1>1, <1>2, <1>3, <1>4, <1>5, <1>7, <1>8, <1>9
     DEF Next, ClientNext, ServerNext, Abstract!Next, Abstract!vars

\* The RPC layer implements RemoteCall: a handler is run at most once per call,
\* and the caller is told its code, or a failure, once.
THEOREM RpcRefinement == Spec => ImplementsRemoteCall
<1>1. Init => Abstract!Init
  BY DEF Init, Abstract!Init, outcome, NoAnswer, NoCall
<1> QED BY <1>1, RefinementStep, RpcInvariant, PTL DEF Spec, ImplementsRemoteCall, Abstract!Spec

-----------------------------------------------------------------------------
(* What callers are told.                                                  *)

\* A caller that is told a code of handlers is told the one that the handler of
\* its operation returned to this call; and if it is told that the answer could
\* not be parsed, that handler has returned.
ToldIsAnswered ==
    \A c \in Calls :
        /\ reported[c] \in Codes => answer[c] = [by |-> call[c].op, code |-> reported[c]]
        /\ reported[c] = ParseFailed => answer[c].by = call[c].op /\ answer[c].code \in Codes

\* The same, in terms of RemoteCall, whose steps keep it.
Told ==
    \A c \in Calls :
        \/ reported[c] \in {None, InvokeFailed}
        \/ outcome[c] # None /\ reported[c] \in {outcome[c], ParseFailed}

\* RemoteCall tells nothing but what the handler returned, or a failure.
LEMMA ToldStep ==
    ASSUME TypeOK, Told, [Abstract!Next]_(Abstract!vars)
    PROVE  Told'
<1>1. outcome = [c \in Calls |-> outcome[c]]
  BY DEF outcome
<1>2. reported = [c \in Calls |-> reported[c]]
  BY DEF TypeOK
<1>3. ASSUME NEW c \in Calls, Abstract!Run(c) PROVE Told'
  <2>1. PICK code \in Codes : outcome' = [outcome EXCEPT ![c] = code]
    BY <1>3 DEF Abstract!Run
  <2>2. outcome[c] = None /\ UNCHANGED reported
    BY <1>3 DEF Abstract!Run
  <2>3. code # None
    BY RpcAssumption
  <2> HIDE DEF outcome
  <2> QED BY <1>1, <2>1, <2>2, <2>3 DEF Told
<1>4. ASSUME NEW c \in Calls, Abstract!Report(c) PROVE Told'
  <2>1. PICK code \in {outcome[c], ParseFailed, InvokeFailed} \ {None} :
          /\ outcome[c] = None => code = InvokeFailed
          /\ reported' = [reported EXCEPT ![c] = code]
    BY <1>4 DEF Abstract!Report
  <2>2. UNCHANGED outcome
    BY <1>4 DEF Abstract!Report
  <2> HIDE DEF outcome
  <2> QED BY <1>2, <2>1, <2>2 DEF Told
<1>5. CASE UNCHANGED Abstract!vars
  <2>1. UNCHANGED <<outcome, reported>>
    BY <1>5 DEF Abstract!vars
  <2> HIDE DEF outcome
  <2> QED BY <2>1 DEF Told
<1> QED BY <1>3, <1>4, <1>5 DEF Abstract!Next

\* No caller is told the code of another call or of another operation, and none
\* is told a code that no handler returned: the layer invents nothing, through
\* lost connections, crashes and late answers.
THEOREM ToldIsAnsweredHolds == Spec => []ToldIsAnswered
<1>1. Init => Told
  BY DEF Init, Told
<1>2. RpcInv /\ Told /\ [Next]_vars => Told'
  BY RefinementStep, ToldStep DEF RpcInv
<1>3. RpcInv /\ Told => ToldIsAnswered
  <2> SUFFICES ASSUME RpcInv, Told, NEW c \in Calls, reported[c] \in Codes \cup {ParseFailed}
               PROVE  /\ answer[c].by = call[c].op /\ answer[c].code \in Codes
                      /\ reported[c] \in Codes =>
                            answer[c] = [by |-> call[c].op, code |-> reported[c]]
    BY DEF ToldIsAnswered
  <2>1. outcome[c] # None /\ reported[c] \in {outcome[c], ParseFailed}
    BY RpcAssumption DEF Told
  <2>2. answer[c].by = call[c].op /\ answer[c].code = outcome[c]
    BY <2>1 DEF outcome
  <2>3. answer[c].code \in Codes
    <3>1. call[c].op # None
      <4>1. answer[c] # NoAnswer
        BY <2>1, <2>2 DEF NoAnswer
      <4>2. call[c] # NoCall /\ call[c] \in Requests
        BY <4>1 DEF RpcInv, AnswerInPlace, TypeOK
      <4> QED BY <4>2, RequestParts, OperationsNamed
    <3>2. answer[c].by # None /\ answer[c].code \in Codes \cup {None, Exception}
      BY <2>2, <3>1 DEF RpcInv, TypeOK
    <3> QED BY <2>1, <2>2, <3>2 DEF RpcInv, AnswerInPlace
  <2>4. answer[c] = [by |-> answer[c].by, code |-> answer[c].code]
    BY DEF RpcInv, TypeOK
  <2>5. reported[c] \in Codes => reported[c] = outcome[c]
    BY <2>1, RpcAssumption
  <2> QED BY <2>2, <2>3, <2>4, <2>5
<1> QED BY <1>1, <1>2, <1>3, RpcInvariant, PTL DEF Spec

\* No caller has been told a code of handlers.
Untold == \A c \in Calls : reported[c] \notin Codes

\* As the code stands no caller is ever told what its handler returned:
\* ParseFromString returning true is taken for a failure (datanode_caller.cc).
THEOREM NoCodeIsTold ==
    ASSUME "answer" \notin Repaired
    PROVE  Spec => []Untold
<1> USE DEF Untold
<1>1. Init => Untold
  BY RpcAssumption DEF Init
<1>2. ASSUME RpcInv, Untold, [Next]_vars PROVE Untold'
  <2>1. ASSUME NEW c \in Calls, Deliver(c) PROVE Untold'
    BY <1>2, <2>1, RpcAssumption DEF Deliver, ReportOf, RpcInv, TypeOK
  <2>2. ASSUME NEW c \in Calls, Fail(c) PROVE Untold'
    BY <1>2, <2>2, RpcAssumption DEF Fail, RpcInv, TypeOK
  <2>3. ASSUME UNCHANGED reported PROVE Untold'
    BY <1>2, <2>3
  <2>4. ASSUME NEW k \in Callers,
               \/ Connect(k) \/ Break(k) \/ Silence(k) \/ Close(k) \/ Closed(k)
               \/ Destroy(k) \/ Terminate(k)
        PROVE  UNCHANGED reported
    BY <2>4 DEF Connect, Break, Silence, Close, Closed, Destroy, Terminate
  <2>5. ASSUME NEW c \in Calls, NEW k \in Callers, NEW op, NEW m, Send(c, k, op, m)
        PROVE  UNCHANGED reported
    BY <2>5 DEF Send
  <2>6. ASSUME ServerNext \/ UNCHANGED vars \/ \E c \in Calls : Lose(c) PROVE UNCHANGED reported
    BY <2>6 DEF ServerNext, Start, Crash, ReceiveUnknown, Receive, HandlerThrows, HandlerReturns,
                Lose, vars
  <2> QED BY <1>2, <2>1, <2>2, <2>3, <2>4, <2>5, <2>6 DEF Next, ClientNext
<1> QED BY <1>1, <1>2, RpcInvariant, PTL DEF Spec

\* AddDevice is the one operation that is being handled, and the one that was
\* answered by a handler.
OneHandler ==
    \A c \in Calls : /\ stage[c] = "handling" => call[c].op = AddDevice
                     /\ answer[c].by \in {None, AddDevice}

\* As the code stands no handler but AddDevice is ever run, on any server: every
\* Register function uses its verb, and every other verb is unknown.
THEOREM OnlyAddDeviceIsRun ==
    ASSUME "verb" \notin Repaired
    PROVE  Spec => []OneHandler
<1> DEFINE ByAddDevice == \A c \in Calls : answer[c].by \in {None, AddDevice}
<1>1. Init => ByAddDevice
  BY DEF Init, NoAnswer
<1>2. ASSUME RpcInv PROVE \A c \in Calls : stage[c] = "handling" => call[c].op = AddDevice
  <2> SUFFICES ASSUME NEW c \in Calls, stage[c] = "handling" PROVE call[c].op = AddDevice
    OBVIOUS
  <2>1. Verb(call[c].op) \in DOMAIN handlers_
    BY <1>2 DEF RpcInv, AtServer
  <2>2. PICK order \in Registrations : handlers_ = Registered(order)
    BY <1>2, <2>1 DEF RpcInv, TypeOK, NoHandlers
  <2> QED BY <2>1, <2>2 DEF Registered, RegisterVerb, Verb
<1>3. ASSUME RpcInv, ByAddDevice, [Next]_vars PROVE ByAddDevice'
  <2>1. ASSUME NEW c \in Calls, NEW code \in Codes, HandlerReturns(c, code) PROVE ByAddDevice'
    <3>1. stage[c] = "handling" /\ call[c].op = AddDevice
      BY <1>2, <1>3, <2>1 DEF HandlerReturns
    <3>2. HandlerOf(c) = call[c].op
      BY <1>3, <3>1, RequestParts, OwnRegistration
         DEF HandlerOf, AtServer, NoHandlers, RpcInv, TypeOK
    <3> QED BY <1>3, <2>1, <3>1, <3>2 DEF HandlerReturns, RpcInv, TypeOK
  <2>2. ASSUME NEW c \in Calls, ReceiveUnknown(c) \/ HandlerThrows(c) PROVE ByAddDevice'
    BY <1>3, <2>2 DEF ReceiveUnknown, HandlerThrows, RpcInv, TypeOK
  <2>3. ASSUME UNCHANGED answer PROVE ByAddDevice'
    BY <1>3, <2>3
  <2>4. ASSUME NEW k \in Callers,
               \/ Connect(k) \/ Break(k) \/ Silence(k) \/ Close(k) \/ Closed(k)
               \/ Destroy(k) \/ Terminate(k)
        PROVE  UNCHANGED answer
    BY <2>4 DEF Connect, Break, Silence, Close, Closed, Destroy, Terminate
  <2>5. ASSUME NEW c \in Calls, NEW k \in Callers, NEW op, NEW m, Send(c, k, op, m)
        PROVE  UNCHANGED answer
    BY <2>5 DEF Send
  <2>6. ASSUME NEW c \in Calls, Deliver(c) \/ Fail(c) \/ Lose(c) \/ Receive(c)
        PROVE  UNCHANGED answer
    BY <2>6 DEF Deliver, Fail, Lose, Receive
  <2>7. ASSUME Crash \/ (\E order \in Registrations : Start(order)) \/ UNCHANGED vars
        PROVE  UNCHANGED answer
    BY <2>7 DEF Crash, Start, vars
  <2> QED BY <1>3, <2>1, <2>2, <2>3, <2>4, <2>5, <2>6, <2>7 DEF Next, ClientNext, ServerNext
<1>4. RpcInv /\ ByAddDevice => OneHandler
  BY <1>2 DEF OneHandler
<1> QED BY <1>1, <1>3, <1>4, RpcInvariant, PTL DEF Spec
=============================================================================
