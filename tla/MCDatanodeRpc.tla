---------------------------- MODULE MCDatanodeRpc ----------------------------
(***************************************************************************)
(* TLC instance of DatanodeRpc: the data operations of DatanodeServer, for *)
(* which the repository has no handlers, registered in either order.       *)
(***************************************************************************)
EXTENDS DatanodeRpc, TLC

\* The last one is of a server that does not offer all that its callers know.
MCRegistrations == {<<"WriteAt", "ReadAt">>, <<"ReadAt", "WriteAt">>, <<"WriteAt">>}
MCPayloads == [WriteAt |-> {<<1, 1, 1, 1, 1, 1>>}, ReadAt |-> {<<1, 1, 1, 1, 1>>}]
Symmetry == Permutations(Calls) \cup Permutations(Callers)
=============================================================================
