CONSTANTS
    Callers = {c1, c2}
    Callbacks = {b1}
    States = {s1}
    MaxRefresh = 2
    MaxOutages = 1
    Faults = {"lost"}
    None = None
    c1 = c1
    c2 = c2
    b1 = b1
    b2 = b2
    s1 = s1
SPECIFICATION FairSpec
PROPERTIES CallsReturn DeadGrantSurfaces
CHECK_DEADLOCK FALSE
