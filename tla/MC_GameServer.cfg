SPECIFICATION GameServerSpec
CONSTANTS
    User = {u1, u2, u3}
    NoUser = NoUser
    Capacity = 3
    MinPlayers = 2
    SurvivorsToWin = 1
    Origins = {"created", "adopted"}
    MaxGames = 2
    MaxKicks = 1
    Player = {1, 2, 3}
    WinnersWanted = 1
    MaxMatchTicks = 2
    RotateTicks = 1
    MaxSkillRequests = 1
    Viewer = {"v1", "v2"}
    Tile = {"t1"}
    FramesPerChunk = 2
    MaxDrops = 1
    Socket = {"s1", "s2"}
    Actor = {"a"}
    Ticket = {"t1", "t2"}
    OwnerOf <- Owner
    IpOf <- Address
    MaxConnections = 3
    MaxUnauthenticatedPerIp = 2
    MaxAuthenticatedPerIp = 2
    MaxReservations = 2
    Recorder = {"r1", "r2"}
    SpoolLimit = 3
    FrameLimit = 2
    Download = {"q1", "q2", "q3"}
    MaxDownloads = 2
    RateBound = 1
    AbusiveFactor = 2
    AbusiveWindows = 3
    MaxPackets = 4
    Cast = {1, 2, 3}
    Watched = {1}
    SnapshotEvery = 2
    ChunkFrames = 2
    MaxTicks = 5
    MaxIncidents = 1
    MaxIncremental = 1
    Ring = 6
    Key = {"left"}
    Sector = {1}
    MaxFlight = 1
    MaxDropped = 1
    Upgrade = {"u1", "u2"}
    Backend = {"b1"}
    PathOf <- Path
    ReadBudget = 1
    LookupBudget = 2
SYMMETRY Symmetry
INVARIANTS
    RoomIsSound
    OneLivingTagger
    ResultTellsTheMatch
    EverybodySeesTheMap
    SocketsAreAccountedFor
    ReplayBudgetsHold
    OnlyFloodsAreClosed
    ReplayIsTheMatch
    UpgradesAreServed
    ControlsAreObeyed
PROPERTIES
    FrozenRoomStandsStill
CHECK_DEADLOCK FALSE
