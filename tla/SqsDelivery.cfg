SPECIFICATION LiveSpec
CONSTANTS
    w1 = w1  w2 = w2
    e1 = e1  l1 = l1  x1 = x1
    NoReceipt = NoReceipt
    Worker = {w1, w2}
    Event = {e1}
    Alerting = {e1}
    Legacy = {}
    Malformed = {x1}
    MaxReceive = 2
    BatchSize = 2
    FaultLimit = 1
INVARIANTS
    TypeOK
    ReceiveIsAccountedFor
    CopiesFollowTopic
PROPERTIES
    ImplementsQueue
    QueueDrains
