SPECIFICATION Spec
CONSTANTS
    p1 = p1
    e1 = e1  e2 = e2  e3 = e3
    NoOne = NoOne
    Worker = {w1, w2}
    Partition = {p1}
    EventId = {e1, e2, e3}
    Log <- MistypedLog
    MaxAttempts = 2
    FaultBound <- NoFaults
INVARIANTS
    CommittedIsStored
