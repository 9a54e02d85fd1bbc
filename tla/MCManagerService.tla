--------------------------- MODULE MCManagerService ---------------------------
(* ManagerService with a few requests, for TLC.                            *)
EXTENDS ManagerService, TLC

\* Cluster, datanode and disk: right for the node of the configuration (1, 1),
\* of another cluster, for another datanode, and without a disk.
MCPayloads ==
    [AddDevice |-> {<<1, 1, 1>>, <<2, 1, 1>>, <<1, 2, 1>>, <<1, 1, 0>>},
     DelDevice |-> {<<1, 1, 1>>}]
\* For the runs with two callers and with liveness: one to accept, one to refuse.
MCFewPayloads ==
    [AddDevice |-> {<<1, 1, 1>>, <<1, 2, 1>>}, DelDevice |-> {<<1, 1, 1>>}]
MCRegistrations == {<<AddDevice, DelDevice>>}

\* Calls and callers are interchangeable; used by the runs without liveness.
Symmetry == Permutations(Calls) \cup Permutations(Callers)
=============================================================================
