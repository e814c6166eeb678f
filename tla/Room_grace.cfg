SPECIFICATION Spec
CONSTANTS
    User = {u1, u2}
    NoUser = NoUser
    Capacity = 3
    MinPlayers = 1
    SurvivorsToWin = 0
    Origins = {"created"}
    MaxGames = 1
    MaxKicks = 0
\* a closed room stays closed
CHECK_DEADLOCK FALSE
PROPERTIES
    GraceOnlyReleasesTheSeat
