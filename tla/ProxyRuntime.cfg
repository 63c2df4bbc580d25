CONSTANTS
    Calls = {q1, q2, h1}
    Probes = {h1}
    q1 = q1
    q2 = q2
    h1 = h1
SPECIFICATION FairSpec
INVARIANTS DropIsSeen StoppedForGood
PROPERTIES DrainIsKept Recovers CallsReturn StopReturns
CHECK_DEADLOCK FALSE
