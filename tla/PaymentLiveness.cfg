CONSTANTS
    Payments = {1, 2}
    Routings = {{}, {1}, {1, 2}}
    Requests = {}
    Reconciler = Reconciler
    EnforceAuth = TRUE
    BatchLimit = 1
    MaxCrashes = 1
    MaxUnproven = 0
SPECIFICATION FairSpec
PROPERTIES
    PendingResolves
CHECK_DEADLOCK FALSE
