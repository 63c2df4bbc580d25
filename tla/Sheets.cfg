CONSTANTS
    Calls = {s1, s2}
    Keys = {A, B}
    CAP = 2
    PAGE = 2
    MAX_RETRIES = 2
    MaxRows = 4
    MaxEdits = 1
    Faults = {"lost"}
    s1 = s1
    s2 = s2
    A = A
    B = B
SPECIFICATION Spec
INVARIANTS AppendsBounded KeyedWrites ColumnsRoundTrip
PROPERTIES ReadsFar
SYMMETRY Symmetry
CHECK_DEADLOCK FALSE
