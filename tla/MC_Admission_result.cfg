SPECIFICATION ScopedSpec
CONSTANTS
    User = {u1}
    Room = {r1, r2}
    Request = {q1, q2}
    NoRequest = NoRequest
    NoRoom = NoRoom
    MaxMatch = 2
    Scopes = {"games"}
\* everybody may have what he wants
CHECK_DEADLOCK FALSE
INVARIANTS
    AssignmentOutlivesTheGame
