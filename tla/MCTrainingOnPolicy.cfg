SPECIFICATION Spec
CONSTANTS
    Absent = Absent
    Torn = Torn
    NaN = NaN
    Infinity = Infinity
    Epochs = 4
    Patience = 2
    Totals = {1, 2, NaN}
    Updates = 2
    StepsPerUpdate = 3
    CloningRuns = 2
    PpoRuns = 2
INVARIANTS
    OnPolicy
CHECK_DEADLOCK FALSE
