SPECIFICATION Spec
CONSTANTS
    h1 = h1  h2 = h2
    Handler = {h1, h2}
    MaxRequests = 6
    MaxFaults = 1
SYMMETRY Symmetry
INVARIANTS
    TypeOK
    NoStageSkipped
    EventsAreWrites
