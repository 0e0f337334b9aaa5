CONSTANTS
    Rows = {1}
    Batch = 1
    MaxRef = 3
    MaxCrashes = 0
SPECIFICATION Spec
INVARIANTS
    NeverPaidTwice
CHECK_DEADLOCK FALSE
