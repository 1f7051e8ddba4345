SPECIFICATION Spec
CONSTANTS
    LineBytes = 3
    SigBytes = 2
    Contracts <- MCContracts
    Newcomers <- MCNewcomers
    MaxChanges = 3
CHECK_DEADLOCK FALSE
INVARIANTS
    Decoded
    RegisteredWasListed
    StableNodesRegistered
