SPECIFICATION LiveSpec
CONSTANTS
    p1 = p1
    e1 = e1  e2 = e2  e3 = e3
    NoOne = NoOne
    Worker = {w1, w2}
    Partition = {p1}
    EventId = {e1, e2, e3}
    Log <- MixedLog
    MaxAttempts = 2
    FaultBound <- OrderlyFaults
PROPERTIES
    EveryRecordSettled
    EveryRecordCommitted
