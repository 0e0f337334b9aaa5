CONSTANTS
    Calls = {c1, c2}
    MaxErrors = 2
    Rows = {1}
    CrowdRows = {1, 2}
    Batch = 1
    MaxRef = 3
    MaxPayoutCrashes = 1
    MaxAirtimeCrashes = 2
SPECIFICATION PayoutsSpec
INVARIANTS
    CreditIsConserved
    OneRefundInFlight
    PaidOnce
    RowsTellTheTruth
PROPERTIES
    RefundArrives
    DecidedPayoutsSettle
CHECK_DEADLOCK FALSE
