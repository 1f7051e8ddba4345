SPECIFICATION FairSpec
CONSTANTS
    Ports = {1, 2}
    Errors = {0, 5}
    MaxCalls = 4
CHECK_DEADLOCK FALSE
INVARIANTS
    NotifiedOnceWhenReady
    ResultOnce
PROPERTIES
    NotificationArrives
