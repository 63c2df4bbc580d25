CONSTANTS
    Days = {1, 2}
    Caps = {1, 2}
    BATCH_ROWS = 2
    MaxRows = 6
    MaxPatches = 1
SPECIFICATION Spec
INVARIANTS Accounted NoHoles
PROPERTIES SparesTheCap PrunedEnough
CHECK_DEADLOCK FALSE
