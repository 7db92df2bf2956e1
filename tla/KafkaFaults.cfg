SPECIFICATION Spec
SYMMETRY Symmetry
CONSTANTS
    p1 = p1
    e1 = e1  e2 = e2  e3 = e3
    NoOne = NoOne
    Worker = {w1, w2}
    Partition = {p1}
    EventId = {e1, e2, e3}
    Log <- GarbledLog
    MaxAttempts = 2
    FaultBound <- ManyFaults
INVARIANTS
    TypeOK
    CommittedIsAccountedFor
    PartitionOrder
    OrderlyCommitIsStored
    WritesArePaidFor
PROPERTIES
    CommitMonotone
    DeadLetterAfterMaxAttempts
    ImplementsDelivery
