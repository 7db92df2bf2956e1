SPECIFICATION Spec
CONSTANTS
    m1 = m1  m2 = m2  w1 = w1  w2 = w2  c1 = c1
    Manager = {m1}
    FieldWorker = {w1}
    Client = {}
    DirectTarget = {}
    MaxRequests = 3
    MaxFaults = 0
SYMMETRY Symmetry
INVARIANTS
    CompletionResolves
