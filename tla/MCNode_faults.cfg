SPECIFICATION Spec
CONSTANTS
    m1 = m1  m2 = m2  m3 = m3
    Msgs = {m1, m2}
    Faults = {"connect", "handshake", "ssl", "handler_throw", "break",
              "handler_close", "destroy"}
    MaxConnects = 3
    MaxBreaks = 1
    MaxBackoff = 1
    LateExpiry = TRUE
CHECK_DEADLOCK FALSE
INVARIANT SomebodyActs
