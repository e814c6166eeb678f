SPECIFICATION ComponentsSpec
CONSTANTS
    Request = {1, 2}
    MaxRequests = 3
    MaxStep = 2
    MaxBans = 1
    Caller = {"c1", "c2"}
    MaxAttempts = 1
    MaxCodes = 1
    Place = {"a", "b"}
    Slot = {1, 2, 3}
    MaxAsks = 2
    MaxVisits = 3
    MaxTile = 1
    MaxWire = 2
    MaxTroubles = 1
    MaxRounds = 1
    Foreign = {8, 12}
    MinSize = 4
    TileSize = 2
    UndoDepth = 1
    Touched <- DrawnAt
    Painted = {0, 4}
    Schedules <- Written
    Resized = {4}
    Speeds = {0, 2}
    MaxEdits = 1
    MaxBuilds = 2
    NoSheet = NoSheet
    Unset = Unset
    Garbled = Garbled
    Calm = Calm
    Case = {1, 2, 3}
    GuestCase = {2}
    QueueLimit = 2
    AuditPage = 1
    MaxReports = 2
    MaxNow = 1
    MaxLogged = 4
    MaxLookups = 2
    MaxMoves = 1
    Job = {j1, j2}
    MaxGuests = 1
    MaxLogins = 1
    MaxTokens = 2
    MaxMishaps = 2
    MaxGestures = 6
    Tab = {"tab"}
    UseOf <- Wanted
    Email = {"e1", "e2"}
    Net = {"n1", "n2"}
    MaxChallenges = 2
    IssuesBeforeRound = 1
    RiskBeforeRound = 1
    RadioLimit = 1
    MaxSlips = 1
    Sighted = {1, 2}
    Self = 1
    Hideout = {1, 2}
    AmbientFrameSkip = 2
    MaxSamples = 2
    MaxSceneTicks = 3
    MaxSceneCalls = 2
INVARIANTS
    OnlyTheOwnerIsInside
    CodeWorksOnce
    SessionIsConsistent
    ClientShowsTheGame
    ChecksHold
    WireIsUnderstood
    MapsPlayAsDrawn
    ConsoleIsHonest
    TabKnowsWhoItIs
    MusicObeysTheSwitch
CHECK_DEADLOCK FALSE
