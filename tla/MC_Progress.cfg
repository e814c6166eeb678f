SPECIFICATION ProgressSpec
CONSTANTS
    User = {u1, u2}
    NoUser = NoUser
    Capacity = 2
    MinPlayers = 1
    SurvivorsToWin = 0
    Origins = {"created"}
    MaxGames = 1
    MaxKicks = 0
    MaxBans = 2
    JoinLock = 2
    JoinBudget = 5
    BudgetWindow = 8
    MapLock = 3
    MaxMapChanges = 1
    Human = {1}
    Still = {2}
    Chaser = {3}
    RespawnDelay = 2
    Reporter = {"p1"}
    Sweeper = {"w1", "w2"}
    MaxSweepFaults = 2
    MaxSanctions = 2
    GameServer = {"g1", "g2", "g3"}
    MinServers = 1
    MaxServers = 2
    MaxFaults = 1
    Upgrade = {"u1"}
    Backend = {"b1"}
    PathOf <- Path
    ReadBudget = 1
    LookupBudget = 1
INVARIANTS
    EvidenceIsKept
PROPERTIES
    StatusMeansBans
    RoomsMoveOn
    HostMayStart
    ExpiredReplaysGo
    FleetHoldsItsSize
    EveryDownloadEnds
    TrainingGoesOn
CHECK_DEADLOCK FALSE
