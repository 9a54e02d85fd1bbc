CONSTANTS
    Callers = {k1}
    Calls = {c1, c2}
    Operations = {"AddDevice", "DelDevice"}
    Registrations <- MCRegistrations
    Payloads <- MCPayloads
    Codes = {"PANCAKE_STORE_OK", "PANCAKE_STORE_CLUSTER_ID_NOT_MATCH", "DATANODE_SERVICE_DATANODE_ID_NOT_MATCH", "DATANODE_SERVICE_REQUEST_ARGUMENT_INVALID"}
    MaySilence = TRUE
    Repaired = {}
    ClusterId = 1
    DatanodeId = 1
SPECIFICATION ManagerSpec
SYMMETRY Symmetry
INVARIANTS
    AddedAsAsked
    LockedCallsAreAlive
    AnsweredByOwnHandler
