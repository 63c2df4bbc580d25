CONSTANTS
    Keys = {1, 2}
    ProxyKeys = {}
    CredKeys = {1}
    Confs = {c1}
    Lists = {l1}
    MaxSecret = 1
    Admins = {a1, a2}
    Faults = {}
    None = None
    c1 = c1
    c2 = c2
    l1 = l1
    l2 = l2
    a1 = a1
    a2 = a2
SPECIFICATION FairSpec
INVARIANTS EditsPromised ErrorsAreCurrent NativesInSync
PROPERTIES Converges
CHECK_DEADLOCK FALSE
