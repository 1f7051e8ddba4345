SPECIFICATION Spec
CONSTANTS
    o1 = o1  o2 = o2  o3 = o3
    u1 = u1  c1 = c1
    NumSwarms = 1
    Uuids = {u1}
    Ops = {o1, o2, o3}
    Kind <- MCKind
    Uuid <- MCUuid
    Failures = TRUE
    MaxRetry = 5
    Opens = {o2}
    Sync = {o1, o3}
    Calls = {c1}
    Methods = {"quick_read"}
    MaxInits = 1
CHECK_DEADLOCK FALSE
INVARIANTS
    QuickReadTruthful
