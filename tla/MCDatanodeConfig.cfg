CONSTANTS
    Nodes <- MCNodes
    k_system_min_listen_port = 4
    U16 = 8
    Repaired = {"scalar"}
SPECIFICATION Spec
INVARIANTS TypeOK ServesItsFile
