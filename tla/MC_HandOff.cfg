SPECIFICATION Spec
CONSTANTS
    Server = {s1, s2}
    User = {u1, u2}
    Transfer = {t1, t2}
    NoServer = NoServer
    NoTransfer = NoTransfer
    Unlisted = Unlisted
    Listed = Listed
SYMMETRY Symmetry
\* a room that closed or died is never rebuilt
CHECK_DEADLOCK FALSE
INVARIANTS
    SingleAuthority
    RoutesLeadToTheRoom
PROPERTIES
    OnlyDeathOrEmptinessLosesTheRoom
    ImplementsOwnership
