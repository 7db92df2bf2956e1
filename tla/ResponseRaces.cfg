SPECIFICATION Spec
CONSTANTS
    m1 = m1  m2 = m2  w1 = w1  w2 = w2  c1 = c1
    Manager = {m1, m2}
    FieldWorker = {w1, w2}
    Client = {c1}
    DirectTarget = {"in_progress"}
    MaxRequests = 4
    MaxFaults = 1
SYMMETRY Symmetry
INVARIANTS
    TypeOK
    OrderIsApproved
    ReviewIsQueued
    ResolutionIsEarned
    CompletionIsAccepted
    DecisionsAreCarriedOut
