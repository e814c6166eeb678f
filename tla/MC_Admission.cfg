SPECIFICATION FairScopedSpec
CONSTANTS
    User = {u1}
    Room = {r1, r2}
    Request = {q1, q2}
    NoRequest = NoRequest
    NoRoom = NoRoom
    MaxMatch = 2
    Scopes = {"rooms", "games", "lobby"}
\* everybody may have what he wants
CHECK_DEADLOCK FALSE
PROPERTIES
    ClaimsGuardTheSeats
    NobodyIsLockedOut
