SPECIFICATION Spec
CONSTANTS
    n1 = n1  n2 = n2
    i1 = i1  i2 = i2
    NoNode = NoNode
    Uuids = {n1, n2}
    Initial = {n1}
    Inits = {i1, i2}
    Faults = {"send_error", "garbled", "throw", "no_primary"}
    MaxDuration = 2
    MaxStatus = 4
    MaxSends = 1
CHECK_DEADLOCK FALSE
SYMMETRY InitSymmetry
INVARIANTS
    InitHandlerOnce
    ListedNodesPolled
    FastestIsFastest
