CONSTANTS
    A = {a1, a2}
    B = {b1, b2}
    R = {r1, r2, r3}
    D = {s1}
    Devices = {d1, d2}
    Messages = {m}
    AnsweredCalls = {c}
    Tokens = {1, 2, 3, 4}
    Books <- TwoBooks
    Board <- TwoPartners
    Crowd <- TwoFans
    MaxThread = 3
    MaxClock = 1
    MaxFaults = 1
    MaxCodes = 2
    MaxAttempts = 1
    MaxResets = 2
    MaxOutages = 1
    MaxHits = 2
    MaxMessages = 3
    MaxRestarts = 1
SPECIFICATION Spec
INVARIANTS
    AccountsAreWhole
    ClientsKeepAToken
    RevokedIsOut
    OneAccountPerToken
    SocketsAreCounted
    ThreadsAreTrue
    CountsFollowRows
    ReportsAgree
PROPERTIES
    OnlyLateReadersOverwrite
SYMMETRY Symmetry
CHECK_DEADLOCK FALSE
