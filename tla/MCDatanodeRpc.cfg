SPECIFICATION Spec
CONSTANTS
    Callers = {k1, k2}
    Calls = {c1, c2}
    Operations = {"WriteAt", "ReadAt"}
    Registrations <- MCRegistrations
    Payloads <- MCPayloads
    Codes = {"PANCAKE_STORE_OK", "HANDLER_ERROR"}
    MaySilence = TRUE
    Repaired = {"verb", "answer"}
SYMMETRY Symmetry
INVARIANTS TypeOK RequestLivesWithHandler
PROPERTY ImplementsRemoteCall
