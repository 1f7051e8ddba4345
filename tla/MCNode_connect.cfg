SPECIFICATION FairSpec
CONSTANTS
    m1 = m1  m2 = m2  m3 = m3
    Msgs = {m1, m2, m3}
    Faults = {"connect", "handshake", "ssl", "handler_throw"}
    MaxConnects = 4
    MaxBreaks = 0
    MaxBackoff = 2
    LateExpiry = FALSE
CHECK_DEADLOCK FALSE
INVARIANTS
    ExactlyOneSender
    InOrderExactlyOnce
PROPERTIES
    CallbackCalled
