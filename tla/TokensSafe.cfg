CONSTANTS
    Callers = {c1, c2}
    Callbacks = {b1, b2}
    States = {s1}
    MaxRefresh = 3
    MaxOutages = 1
    Faults = {"revoke", "lost", "restart"}
    None = None
    c1 = c1
    c2 = c2
    b1 = b1
    b2 = b2
    s1 = s1
SPECIFICATION Spec
INVARIANTS NeverReplaysReplaced StateUsedOnce
SYMMETRY Symmetry
CHECK_DEADLOCK FALSE
