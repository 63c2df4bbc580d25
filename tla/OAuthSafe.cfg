CONSTANTS
    Clients = {k1}
    Codes = {c1}
    MaxPairs = 2
    Requests = {r1, r2}
    Faults = {"conflict", "crash"}
    None = None
    k1 = k1
    c1 = c1
    r1 = r1
    r2 = r2
SPECIFICATION Spec
INVARIANTS PairsWhole RotatedGone DisconnectHolds
PROPERTIES CodesKeepPromise
SYMMETRY Symmetry
CHECK_DEADLOCK FALSE
