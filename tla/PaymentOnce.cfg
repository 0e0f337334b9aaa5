CONSTANTS
    Payments = {1}
    Routings = {{1}}
    Requests = {r1, r2}
    Reconciler = Reconciler
    EnforceAuth = TRUE
    BatchLimit = 1
    MaxCrashes = 0
    MaxUnproven = 0
SPECIFICATION Spec
INVARIANTS
    CreditedAtMostOnce
CHECK_DEADLOCK FALSE
