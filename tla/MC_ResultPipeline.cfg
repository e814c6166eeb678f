SPECIFICATION ScopedSpec
CONSTANTS
    Server = {s1, s2}
    Worker = {w1}
    Request = {q1}
    NoServer = NoServer
    NoMatch = NoMatch
    MaxMatch = 2
    MaxCopies = 1
    MaxMoves = 1
    MaxGrants = 1
    MaxEntries = 1
SYMMETRY Symmetry
INVARIANTS
    GrantsFollowStoredResults
    EachGrantPlaysOnce
    NoResultIsLost
