SPECIFICATION FairSpec
CONSTANTS
    r1 = r1  r2 = r2
    v1 = v1  v2 = v2  q1 = q1
    n1 = n1  n2 = n2  n3 = n3  n4 = n4
    Requests = {r1, r2}
    IoRequests = {}
    QuickReads = {r2}
    Nodes = {n1, n2, n3, n4}
    Faulty = {}
    Values = {v1, v2, q1}
    QuickValues = {q1}
    Answer <- MCAnswer
    NoSender = NoSender
    NoValue = NoValue
    Timeout = Timeout
    SwarmSizes = {4}
    ErrorKinds = {"too_large"}
    EarlyExpiry = FALSE
    MaxSends = 2
CHECK_DEADLOCK FALSE
PROPERTY EveryRequestAnswered
