SPECIFICATION Spec
CONSTANTS
    h1 = h1  h2 = h2
    r1 = r1  r2 = r2
    s1 = s1  s2 = s2
    Handler = {h1, h2}
    Replica = {r1, r2}
    Sensor = {s1, s2}
    Setting <- RacesAndOrder
SYMMETRY Symmetry
INVARIANTS
    TypeOK
    StreakIsPaidFor
    StoredIsAnnounced
    OneOpenInOrder
    StreakIsDetected
    StreakIsConsecutive
