SPECIFICATION FairSpec
CONSTANTS
    o1 = o1  o2 = o2  o3 = o3
    u1 = u1  u2 = u2
    NumSwarms = 2
    Uuids = {u1, u2}
    Ops = {o1, o2, o3}
    Kind <- MCKind
    Uuid <- MCUuid
    Failures = TRUE
    MaxRetry = 5
CHECK_DEADLOCK FALSE
INVARIANTS
    CacheSound
    GoodNewsTrue
    BadNewsOnce
PROPERTIES
    EveryOpCallsBack
