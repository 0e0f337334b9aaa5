CONSTANTS
    Tasks = {t1, t2}
    Sync = Sync
    Amounts = {1, 2}
    MaxGiven = 3
    MaxRestarts = 1
    Users = {1, 2}
    Scans = {t1, t2}
    Requests = {q1, q2}
    NumberOfWinners = 1
    MaxEdits = 1
    MaxFaults = 1
SPECIFICATION CreditsSpec
INVARIANTS
    BalanceIsExplained
    ChargedIffPlaying
    PrizesFollowRows
    RefundedOnceUnlessReopened
PROPERTIES
    OnlyStaleReadersOvertake
SYMMETRY Symmetry
CHECK_DEADLOCK FALSE
