CONSTANTS
    Users = {u1, u2}
    Requests = {r1, r2, r3}
    MaxFailures = 1
    Categories = {c1, c2}
    Cost = 1
    VoteCredits = 2
    Options = {o1, o2}
    MaxEdits = 1
    Keys = {u1, u2}
    NoKey = "none"
    MessageCredits = 3
    MaxAttempts = 2
    MaxSwitches = 1
SPECIFICATION ParticipationSpec
INVARIANTS
    SentOnce
PROPERTIES
    KeepsBallot
    OnlyLateReadersReopen
SYMMETRY Symmetry
CHECK_DEADLOCK FALSE
