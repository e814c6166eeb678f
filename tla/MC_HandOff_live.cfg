SPECIFICATION FairSpec
CONSTANTS
    Server = {s1, s2}
    User = {u1}
    Transfer = {t1}
    NoServer = NoServer
    NoTransfer = NoTransfer
    Unlisted = Unlisted
    Listed = Listed
\* a room that closed or died is never rebuilt
CHECK_DEADLOCK FALSE
PROPERTIES NobodyStaysInLimbo
