CONSTANTS
    Keys = {k1, k2}
    Admins = {a1, a2}
    Tokens = {t1}
    MaxWrites = 1
    MaxCrashes = 1
    KEEP = 2
    Faults = {"rotate"}
    None = None
    k1 = k1
    k2 = k2
    a1 = a1
    a2 = a2
    t1 = t1
    t2 = t2
SPECIFICATION FairSpec
INVARIANTS NeverEmptied KeyFits StagedMeansStopping
PROPERTIES Reversible ShownIsStaged ReplacedAtOnce ComesBack
CHECK_DEADLOCK FALSE
