CONSTANTS
    Payments = {1}
    Routings = {{}, {1}}
    Requests = {r1, r2, r3}
    Reconciler = Reconciler
    EnforceAuth = FALSE
    BatchLimit = 1
    MaxCrashes = 2
    MaxUnproven = 2
SPECIFICATION Spec
INVARIANTS
    CreditsArePaidFor
    CompletedIffCredited
    OnlyExpiryLosesMoney
PROPERTIES
    OnlyPushFailureDowngrades
SYMMETRY RequestSymmetry
CHECK_DEADLOCK FALSE
