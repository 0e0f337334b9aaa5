CONSTANTS
    Calls = {c1}
    MaxErrors = 1
SPECIFICATION Spec
INVARIANTS
    NeverDoubleRefund
CHECK_DEADLOCK FALSE
