CONSTANTS
    Calls = {c1, c2}
    Listeners = {l1, l2}
    Operators = {o1}
    NoOne = NoOne
    MaxRestarts = 1
SPECIFICATION Spec
SYMMETRY CallSymmetry
INVARIANTS
    MarkerNamesOwnCall
    WaitingCallsAreTimed
    OneLiveCallPerListener
PROPERTIES
    EndedCallsStayEnded
CHECK_DEADLOCK FALSE
