CONSTANTS
    Callers = {c1}
    Callbacks = {}
    States = {}
    MaxRefresh = 1
    MaxOutages = 0
    Faults = {}
    None = None
    c1 = c1
    c2 = c2
    b1 = b1
    b2 = b2
    s1 = s1
SPECIFICATION Spec
INVARIANTS TokensDropped
CHECK_DEADLOCK FALSE
