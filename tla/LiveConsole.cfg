SPECIFICATION LiveSpec
CONSTANTS
    p1 = p1  p2 = p2
    h1 = h1  h2 = h2
    c1 = c1
    Pod = {p1, p2}
    Handler = {h1, h2}
    Serves <- Apart
    Console = {c1}
    Broker = {"redis", "memory"}
    MaxVersion = 2
    MaxSockets = 2
    MaxReads = 1
    MaxFaults = 1
CHECK_DEADLOCK FALSE
INVARIANTS
    TypeOK
    ConnectedIsCurrent
PROPERTIES
    BroadcastArrives
    PageReconnects
