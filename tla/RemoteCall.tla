------------------------------ MODULE RemoteCall ------------------------------
(***************************************************************************)
(* What a remote call through the datanode's RPC layer promises to whoever *)
(* makes it: the handler of the called operation is run at most once, the  *)
(* caller is told one error code and it stays so, and the code is the      *)
(* handler's own or one of the two codes of the caller class.              *)
(* RPC_CALLER_INVOKE_FAILED leaves open whether the handler has run, runs, *)
(* or will run; RPC_CALLER_RESPONSE_PARSE_FAILED means that it has run.    *)
(***************************************************************************)
CONSTANTS
    Calls,
    Codes,              \* error codes of handlers
    InvokeFailed,
    ParseFailed,
    None                \* no code yet

VARIABLES
    outcome,            \* of each call, the code of the handler that was run
    reported            \* of each call, the code its caller was told

vars == <<outcome, reported>>

Init ==
    /\ outcome = [c \in Calls |-> None]
    /\ reported = [c \in Calls |-> None]

Run(c) ==
    /\ outcome[c] = None
    /\ \E code \in Codes : outcome' = [outcome EXCEPT ![c] = code]
    /\ UNCHANGED reported

Report(c) ==
    /\ reported[c] = None
    /\ \E code \in {outcome[c], ParseFailed, InvokeFailed} \ {None} :
        /\ outcome[c] = None => code = InvokeFailed
        /\ reported' = [reported EXCEPT ![c] = code]
    /\ UNCHANGED outcome

Next == \E c \in Calls : Run(c) \/ Report(c)

Spec == Init /\ [][Next]_vars
=============================================================================
