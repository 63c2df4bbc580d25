CONSTANTS
    Keys = {1, 2}
    ProxyKeys = {1, 2}
    CredKeys = {}
    Confs = {c1}
    Lists = {l1}
    MaxSecret = 0
    Admins = {a1}
    Faults = {"external", "abort"}
    None = None
    c1 = c1
    c2 = c2
    l1 = l1
    l2 = l2
    a1 = a1
    a2 = a2
SPECIFICATION Spec
INVARIANTS RoutedRunning
PROPERTIES KeepServing RuntimesLive
VIEW WithoutHistory
CHECK_DEADLOCK FALSE
