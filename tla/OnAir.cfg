CONSTANTS
    ShowIds = {1, 2}
    NoShow = NoShow
    Unknown = Unknown
    Slots = 3
    Days = 2
    Plans <- EveningAndNextDay
    Calls = {call}
    Messages = {message}
    Moderators = {m1, m2}
    MaxTime = 3
    MaxEdits = 2
    MaxFailures = 1
    Guests = {request}
    Admins = {a1, a2}
    MaxChanges = 2
    Requests = {"a", "b"}
    FilesOf <- TwoUploads
    MAX_CONCURRENT_JOBS = 1
    MaxStops = 1
    Callers = {c1, c2}
    maxRetries = 1
    MaxOutages = 2
SPECIFICATION Spec
INVARIANTS
    ScreenShowsApproved
PROPERTIES
    OnlyFinishedShowsHangUp
    CallsEnd
    ListenersCatchUp
    DecisionsSettle
    CachesFollow
    UploadsEndWhole
    RedisComesBack
CHECK_DEADLOCK FALSE
