SPECIFICATION Spec
CONSTANTS
    Server = {s1, s2}
    User = {u1, u2}
    Transfer = {t1}
    NoServer = NoServer
    NoTransfer = NoTransfer
    Unlisted = Unlisted
    Listed = Listed
SYMMETRY Symmetry
CHECK_DEADLOCK FALSE
INVARIANTS KickedStaysOut
