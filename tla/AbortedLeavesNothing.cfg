CONSTANTS
    Requests = {r1, r2}
    Names = {n1, n2}
    Usernames = {u1, u2}
    Nobody = Nobody
    MaxFaults = 0
SPECIFICATION Spec
INVARIANTS
    AbortedLeavesNothing
CHECK_DEADLOCK FALSE
