SPECIFICATION Spec
CONSTANTS
    h1 = h1  h2 = h2
    d1 = d1  d2 = d2
    c1 = c1
    bearing = bearing  noise = noise
    Handler = {h1, h2}
    Word = {bearing, noise}
    Doc = {d1, d2}
    Words <- SomeWords
    Name <- OneName
    TopK = 1
    Case = {c1}
    Truth <- Cases
    MockCause <- Wear
    Answers <- ModelAnswers
    Asked <- Questions
    Direct <- Clients
    Setting <- Three
    Old <- Tables
    MaxRequests = 4
    MaxFaults = 1
SYMMETRY Symmetry
INVARIANTS
    TypeOK
    CompletedHasNote
    CitedIsBacked
    EvaluationRepeats
    SummaryIsCurrent
PROPERTIES
    ReopenedUnseen
