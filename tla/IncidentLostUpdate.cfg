SPECIFICATION Spec
CONSTANTS
    h1 = h1  h2 = h2
    Handler = {h1, h2}
    MaxRequests = 3
    MaxFaults = 0
PROPERTIES
    MovesAreAllowed
