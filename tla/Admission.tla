------------------------------ MODULE Admission ------------------------------
(* Who sits where, over three systems: RoomsService of the matching server    *)
(* (rooms.service.ts) reserves the user's active-room claim in Redis and his  *)
(* assignment to a match row in the database, then has the in-game server     *)
(* hold a seat; the in-game server's registry (registry.ts) keeps the claim   *)
(* alive while the seat is taken and removes it afterwards.  Every request    *)
(* is a chain of awaits on three systems: it may stop, time out or be         *)
(* overtaken by another request of the same user between any two of them.     *)
(*                                                                            *)
(* Abstracted: one in-game server (HandOff has the moves between servers);    *)
(* passwords, capacity, room locks, draining and rate limits, which become    *)
(* refusals that may come at any time; the second of two identical commands,  *)
(* which the reply cache answers without executing it.                        *)
EXTENDS Naturals, FiniteSets

CONSTANTS User,
          Room,        \* room ids of the in-game server
          Request,     \* requests to RoomsService; each has a fresh requestId
          MaxMatch,    \* bound: match rows of one room
          NoRequest, NoRoom

\* A seat is free, held for a request, or has its member in it.
Free == "free"
Member == "member"

ASSUME AdmissionAssumption ==
    /\ User # {} /\ NoRoom \notin Room
    /\ NoRequest \notin Request \cup {Free, Member} /\ {Free, Member} \cap Request = {}
    /\ MaxMatch \in Nat \ {0}

VARIABLES
    claim,      \* Redis: the active-room key of each user
    cooldown,   \* Redis: roomRejoin keys
    marker,     \* Redis: room-kicked keys
    row,        \* database: the newest match row of each room, 0 without one
    assigned,   \* database: match_assignments
    phase,      \* in-game server: whether the room exists
    seat,       \* and who has which seat: held for a request, or a member
    banned,     \* #kickedUsers
    game,       \* the match id the room played last, 0 before its first game
    roster,     \* the players of that game
    result,     \* and how far its result is
    tracked,    \* registry: #trackedSeats
    release,    \* registry: #pendingReleases
    pub,        \* registry: where #publishOnce waits for Redis
    req,        \* matching server: the requests
    cmd         \* command streams: what became of a request's command

redisVars == <<claim, cooldown, marker>>
dbVars == <<row, assigned>>
seatVars == <<phase, seat, banned>>
gameVars == <<game, roster, result>>
registryVars == <<tracked, release, pub>>
vars == <<redisVars, dbVars, seatVars, gameVars, registryVars, req, cmd>>

Match == 1..MaxMatch
NoClaim == [state |-> "none", req |-> NoRequest, room |-> NoRoom]
Reservation(q) == [state |-> "reservation", req |-> q, room |-> NoRoom]
Assignment(q, r) == [state |-> "assigned", req |-> q, room |-> r]
Claim == [state : {"none", "reservation", "assigned"},
          req : Request \cup {NoRequest}, room : Room \cup {NoRoom}]

Kind == {"join", "quick", "create", "resume", "evict"}
Step == {"idle", "claim", "select", "insert", "sent", "assign",
         "retry", "undoClaim", "undoRow", "done", "dead"}
RequestRow == [kind : Kind, user : User, room : Room \cup {NoRoom}, step : Step,
               row : 0..MaxMatch, tried : SUBSET Room, granted : BOOLEAN]
NewRequest == [kind |-> "join", user |-> CHOOSE u \in User : TRUE, room |-> NoRoom,
               step |-> "idle", row |-> 0, tried |-> {}, granted |-> FALSE]
Over == {"idle", "done", "dead"}
Waiting == {"queued", "read"}

TrackedSeat == [on : BOOLEAN, joined : BOOLEAN, req : Request \cup {NoRequest}]
PendingRelease == [on : BOOLEAN, cooldown : BOOLEAN, kicked : BOOLEAN]
Publishing == [at : {"idle", "read", "flush", "sync"}, room : Room \cup {NoRoom}, user : User,
               raw : Claim, tracked : TrackedSeat]
Untracked == [on |-> FALSE, joined |-> FALSE, req |-> NoRequest]
NoRelease == [on |-> FALSE, cooldown |-> FALSE, kicked |-> FALSE]
Idle == [at |-> "idle", room |-> NoRoom, user |-> CHOOSE u \in User : TRUE,
         raw |-> NoClaim, tracked |-> Untracked]

AdmissionTypeOK ==
    /\ claim \in [User -> Claim]
    /\ cooldown \subseteq Room \X User /\ marker \subseteq Room \X User
    /\ row \in [Room -> 0..MaxMatch]
    /\ assigned \subseteq Room \X Match \X User
    /\ phase \in [Room -> {"none", "open", "closed"}]
    /\ seat \in [Room -> [User -> Request \cup {Free, Member}]]
    /\ banned \subseteq Room \X User
    /\ game \in [Room -> 0..MaxMatch]
    /\ roster \in [Room -> SUBSET User]
    /\ result \in [Room -> {"none", "running", "pending", "recorded", "invalid"}]
    /\ tracked \in [Room -> [User -> TrackedSeat]]
    /\ release \in [Room -> [User -> PendingRelease]]
    /\ pub \in Publishing
    /\ req \in [Request -> RequestRow]
    /\ cmd \in [Request -> {"none", "queued", "read", "ok", "refused"}]

\* Rooms start absent, or open with one row and nobody inside but the lobby's
\* others, who are not modelled.
Init ==
    /\ claim = [u \in User |-> NoClaim]
    /\ cooldown = {} /\ marker = {}
    /\ assigned = {}
    /\ phase \in [Room -> {"none", "open"}]
    /\ row = [r \in Room |-> IF phase[r] = "open" THEN 1 ELSE 0]
    /\ seat = [r \in Room |-> [u \in User |-> Free]]
    /\ banned = {}
    /\ game = [r \in Room |-> 0] /\ roster = [r \in Room |-> {}]
    /\ result = [r \in Room |-> "none"]
    /\ tracked = [r \in Room |-> [u \in User |-> Untracked]]
    /\ release = [r \in Room |-> [u \in User |-> NoRelease]]
    /\ pub = Idle
    /\ req = [q \in Request |-> NewRequest]
    /\ cmd = [q \in Request |-> "none"]

------------------------------------------------------------------------------
(* Requests to RoomsService.                                                  *)

Goto(q, step) == req' = [req EXCEPT ![q] = [@ EXCEPT !.step = step]]

\* isJoinBlocked
JoinBlocked(u, r) == <<r, u>> \in marker \cup cooldown

Begin(q, kind, u, r, step) ==
    /\ req[q].step = "idle"
    /\ req' = [req EXCEPT ![q] = [kind |-> kind, user |-> u, room |-> r, step |-> step,
                                  row |-> 0, tried |-> {r}, granted |-> FALSE]]

\* join and joinByCode up to the claim: requireActor, the limits, readLiveRoom.
BeginJoin(q, u, r) ==
    /\ ~ JoinBlocked(u, r) /\ phase[r] = "open"
    /\ Begin(q, "join", u, r, "claim")
    /\ UNCHANGED <<redisVars, dbVars, seatVars, gameVars, registryVars, cmd>>

\* quickJoin shuffles the waiting rooms; the first candidate is chosen with the claim.
BeginQuickJoin(q, u, r) ==
    /\ ~ JoinBlocked(u, r) /\ phase[r] = "open"
    /\ Begin(q, "quick", u, r, "claim")
    /\ UNCHANGED <<redisVars, dbVars, seatVars, gameVars, registryVars, cmd>>

BeginCreate(q, u, r) ==
    /\ phase[r] = "none" /\ \A p \in Request : req[p].room # r
    /\ Begin(q, "create", u, r, "claim")
    /\ UNCHANGED <<redisVars, dbVars, seatVars, gameVars, registryVars, cmd>>

\* SET NX: whoever has a claim already is told where.
ClaimableUnlessReserved(u) == claim[u].state # "reservation"
Claimable(u) == claim[u] = NoClaim

\* claimActiveRoom
ClaimActiveRoom(q) ==
    LET u == req[q].user IN
    /\ req[q].step = "claim"
    /\ IF Claimable(u)
       THEN /\ claim' = [claim EXCEPT ![u] = Reservation(q)]
            /\ IF req[q].kind = "create"
               THEN Goto(q, "sent") /\ cmd' = [cmd EXCEPT ![q] = "queued"]
               ELSE Goto(q, "select") /\ UNCHANGED cmd
       ELSE Goto(q, "done") /\ UNCHANGED <<claim, cmd>>
    /\ UNCHANGED <<cooldown, marker, dbVars, seatVars, gameVars, registryVars>>

\* addAssignmentByRoom finds the newest row of the room.  FOR UPDATE then waits for
\* whoever holds that row, but the row it waits for was chosen before the wait.
AfterSelect(r) == IF row[r] = 0 THEN "undoClaim" ELSE "insert"

SelectRow(q) ==
    LET r == req[q].room IN
    /\ req[q].step = "select"
    /\ req' = [req EXCEPT ![q] = [@ EXCEPT !.row = row[r], !.step = AfterSelect(r)]]
    /\ UNCHANGED <<redisVars, dbVars, seatVars, gameVars, registryVars, cmd>>

\* The insert of addAssignmentByRoom (on conflict do nothing), then sendCommand.
InsertAssignment(q) ==
    LET r == req[q].room IN
    /\ req[q].step = "insert"
    /\ IF req[q].row <= row[r]
       THEN /\ assigned' = assigned \cup {<<r, req[q].row, req[q].user>>}
            /\ Goto(q, "sent") /\ cmd' = [cmd EXCEPT ![q] = "queued"]
       ELSE Goto(q, "undoClaim") /\ UNCHANGED <<assigned, cmd>>
    /\ UNCHANGED <<redisVars, row, seatVars, gameVars, registryVars>>

\* A positive reply to join or quickJoin: assignActiveRoom swaps the reservation
\* for the assignment, and only then does the client get its ticket.  A
\* create first gives the match row its room (confirmRoom).
ConfirmRoom(q) ==
    LET r == req[q].room IN
    /\ req[q].step = "sent" /\ req[q].kind = "create" /\ cmd[q] = "ok"
    /\ row' = [row EXCEPT ![r] = 1]
    /\ assigned' = assigned \cup {<<r, 1, req[q].user>>}
    /\ req' = [req EXCEPT ![q] = [@ EXCEPT !.row = 1, !.step = "assign"]]
    /\ UNCHANGED <<redisVars, seatVars, gameVars, registryVars, cmd>>

AssignActiveRoom(q) ==
    LET u == req[q].user IN
    /\ \/ req[q].step = "assign"
       \/ req[q].step = "sent" /\ req[q].kind \in {"join", "quick"} /\ cmd[q] = "ok"
    /\ IF claim[u] = Reservation(q)
       THEN /\ claim' = [claim EXCEPT ![u] = Assignment(q, req[q].room)]
            /\ req' = [req EXCEPT ![q] = [@ EXCEPT !.step = "done", !.granted = TRUE]]
       ELSE /\ Goto(q, IF req[q].kind = "quick" THEN "undoRow" ELSE "undoClaim")
            /\ UNCHANGED claim
    /\ UNCHANGED <<cooldown, marker, dbVars, seatVars, gameVars, registryVars, cmd>>

\* A negative reply.  quickJoin turns to the next room (TryNextRoom).
Rejected(q) ==
    /\ req[q].step = "sent" /\ cmd[q] = "refused"
    /\ \/ req[q].kind \in {"join", "create"} /\ Goto(q, "undoClaim")
       \/ req[q].kind = "quick" /\ Goto(q, "retry")
       \/ req[q].kind \in {"resume", "evict"} /\ Goto(q, "done")
    /\ UNCHANGED <<redisVars, dbVars, seatVars, gameVars, registryVars, cmd>>

\* COMMAND_TIMEOUT: the deadline passed without a reply and without a stored one.
\* The outcome is unknown; the command may still be executed, or have been.
CommandTimeout(q) ==
    /\ req[q].step = "sent"
    /\ \/ req[q].kind \in {"join", "create"} /\ Goto(q, "undoClaim")
       \/ req[q].kind = "quick" /\ Goto(q, "undoRow")
       \/ req[q].kind \in {"resume", "evict"} /\ Goto(q, "done")
    /\ UNCHANGED <<redisVars, dbVars, seatVars, gameVars, registryVars, cmd>>

\* compareAndDelete of the reservation; join and create then turn to the database.
Unclaim(q) ==
    LET u == req[q].user IN
    /\ req[q].step = "undoClaim"
    /\ claim' = [claim EXCEPT ![u] = IF @ = Reservation(q) THEN NoClaim ELSE @]
    /\ Goto(q, IF req[q].kind # "quick" /\ req[q].row # 0 THEN "undoRow" ELSE "done")
    /\ UNCHANGED <<cooldown, marker, dbVars, seatVars, gameVars, registryVars, cmd>>

\* removeAssignment, or discardIssuedMatch, which takes the row and its assignments.
Unassign(q) ==
    LET r == req[q].room IN
    /\ req[q].step = "undoRow"
    /\ IF req[q].kind = "create"
       THEN /\ row' = [row EXCEPT ![r] = 0]
            /\ assigned' = {a \in assigned : a[1] # r}
       ELSE /\ assigned' = assigned \ {<<r, req[q].row, req[q].user>>}
            /\ UNCHANGED row
    /\ Goto(q, IF req[q].kind = "quick" THEN "undoClaim" ELSE "done")
    /\ UNCHANGED <<redisVars, seatVars, gameVars, registryVars, cmd>>

\* A quickJoin that turns to another room.
Candidate(q, r) ==
    [req[q] EXCEPT !.room = r, !.row = 0, !.step = "select", !.tried = @ \cup {r}]

\* The loop of quickJoin: take the assignment back and go on to the next candidate
\* that looks joinable; after the last one, give the claim back.
TryNextRoom(q) ==
    LET u == req[q].user IN
    /\ req[q].step = "retry"
    /\ assigned' = assigned \ {<<req[q].room, req[q].row, u>>}
    /\ \/ Goto(q, "undoClaim") /\ UNCHANGED cmd
       \/ /\ \E r \in Room \ req[q].tried :
               /\ phase[r] = "open" /\ ~ JoinBlocked(u, r)
               /\ req' = [req EXCEPT ![q] = Candidate(q, r)]
          /\ cmd' = [cmd EXCEPT ![q] = "none"]
    /\ UNCHANGED <<redisVars, row, seatVars, gameVars, registryVars>>

\* resume: only the room the claim names, and the seat must still be there.
BeginResume(q, u) ==
    /\ claim[u].state = "assigned" /\ phase[claim[u].room] = "open"
    /\ Begin(q, "resume", u, claim[u].room, "sent")
    /\ cmd' = [cmd EXCEPT ![q] = "queued"]
    /\ UNCHANGED <<redisVars, dbVars, seatVars, gameVars, registryVars>>

\* evictActor: a sanction kicks the user from the room his claim names.
BeginEvict(q, u) ==
    /\ claim[u].state = "assigned"
    /\ Begin(q, "evict", u, claim[u].room, "sent")
    /\ cmd' = [cmd EXCEPT ![q] = "queued"]
    /\ UNCHANGED <<redisVars, dbVars, seatVars, gameVars, registryVars>>

Answered(q) ==
    /\ req[q].step = "sent" /\ cmd[q] = "ok" /\ req[q].kind \in {"resume", "evict"}
    /\ Goto(q, "done")
    /\ UNCHANGED <<redisVars, dbVars, seatVars, gameVars, registryVars, cmd>>

\* The matching server dies in the middle of a request.
RequestDies(q) ==
    /\ req[q].step \notin Over
    /\ Goto(q, "dead")
    /\ UNCHANGED <<redisVars, dbVars, seatVars, gameVars, registryVars, cmd>>

MatchStep(q) ==
    \/ \E u \in User :
        \/ \E r \in Room : BeginJoin(q, u, r) \/ BeginQuickJoin(q, u, r) \/ BeginCreate(q, u, r)
        \/ BeginResume(q, u) \/ BeginEvict(q, u)
    \/ ClaimActiveRoom(q) \/ SelectRow(q) \/ InsertAssignment(q)
    \/ ConfirmRoom(q) \/ AssignActiveRoom(q) \/ Rejected(q) \/ CommandTimeout(q)
    \/ Unclaim(q) \/ Unassign(q) \/ TryNextRoom(q) \/ Answered(q) \/ RequestDies(q)

------------------------------------------------------------------------------
(* The in-game server: the command consumer, one command at a time, and rooms. *)

Queued(q, kinds) ==
    /\ cmd[q] = "queued" /\ req[q].kind \in kinds
    /\ \A p \in Request : cmd[p] # "read"

Reply(q, answer) == cmd' = [cmd EXCEPT ![q] = answer]

Taken(r, u) == seat[r][u] # Free

\* A table of rooms and users with one entry changed.
Put(table, r, u, entry) == [table EXCEPT ![r] = [@ EXCEPT ![u] = entry]]

\* rooms.get(roomId)?.hasUser(userId)
SeatStandsWithTheRoom(r, u) == phase[r] = "open"
SeatStands(r, u) == phase[r] = "open" /\ Taken(r, u)

\* A room others have made keeps a member who is not modelled.
Created(r) == \E q \in Request : req[q].kind = "create" /\ req[q].room = r
Populated(r, seats) == ~ Created(r) \/ \E u \in User : seats[u] = Member

\* trackSeat: a release that still waits is dropped, except a kick.
TrackSeat(r, u, q) ==
    /\ release' = IF release[r][u].kicked THEN release ELSE Put(release, r, u, NoRelease)
    /\ tracked' = IF tracked[r][u].on THEN tracked
                  ELSE Put(tracked, r, u, [on |-> TRUE, joined |-> FALSE, req |-> q])

\* Anything but success: draining, expired, full, locked, a wrong password.
Refuse(q) ==
    /\ cmd[q] = "read" \/ Queued(q, Kind)
    /\ Reply(q, "refused")
    /\ UNCHANGED <<redisVars, dbVars, seatVars, gameVars, registryVars, req>>

CreateRoom(q) ==
    LET r == req[q].room
        u == req[q].user IN
    /\ Queued(q, {"create"}) /\ phase[r] = "none"
    /\ phase' = [phase EXCEPT ![r] = "open"]
    /\ seat' = Put(seat, r, u, q)
    /\ TrackSeat(r, u, q)
    /\ Reply(q, "ok")
    /\ UNCHANGED <<redisVars, dbVars, banned, gameVars, pub, req>>

\* #reserveJoin reads the two keys of the user first ...
ReadBlocks(q) ==
    /\ Queued(q, {"join", "quick"})
    /\ Reply(q, IF JoinBlocked(req[q].user, req[q].room) THEN "refused" ELSE "read")
    /\ UNCHANGED <<redisVars, dbVars, seatVars, gameVars, registryVars, req>>

\* ... and holds the seat after the await.  The command of quickJoin has an id of
\* its own, which no reservation names.
ReserveJoin(q) ==
    LET r == req[q].room
        u == req[q].user IN
    /\ cmd[q] = "read"
    /\ phase[r] = "open" /\ Populated(r, seat[r])
    /\ <<r, u>> \notin banned /\ ~ Taken(r, u)
    /\ seat' = Put(seat, r, u, q)
    /\ TrackSeat(r, u, IF req[q].kind = "quick" THEN NoRequest ELSE q)
    /\ Reply(q, "ok")
    /\ UNCHANGED <<redisVars, dbVars, phase, banned, gameVars, pub, req>>

ReserveResume(q) ==
    LET r == req[q].room
        u == req[q].user IN
    /\ Queued(q, {"resume"})
    /\ phase[r] = "open" /\ seat[r][u] = Member
    /\ TrackSeat(r, u, NoRequest)
    /\ Reply(q, "ok")
    /\ UNCHANGED <<redisVars, dbVars, seatVars, gameVars, pub, req>>

\* Users leave their seats; a created room without members closes.
Vacate(r, gone) ==
    LET seats == [u \in User |-> IF u \in gone THEN Free ELSE seat[r][u]]
    IN  IF Populated(r, seats)
        THEN seat' = [seat EXCEPT ![r] = seats] /\ UNCHANGED <<phase, result>>
        ELSE /\ seat' = [seat EXCEPT ![r] = [u \in User |-> Free]]
             /\ phase' = [phase EXCEPT ![r] = "closed"]
             /\ result' = [result EXCEPT ![r] = IF @ = "running" THEN "none" ELSE @]

\* #kickUser: forceKick, noteKicked and noteReleased.
KickUser(q) ==
    LET r == req[q].room
        u == req[q].user IN
    /\ Queued(q, {"evict"}) /\ phase[r] = "open"
    /\ Vacate(r, {u})
    /\ banned' = banned \cup {<<r, u>>}
    /\ release' = Put(release, r, u, [on |-> TRUE, kicked |-> TRUE,
                                      cooldown |-> release[r][u].cooldown \/ seat[r][u] = Member])
    /\ tracked' = Put(tracked, r, u, Untracked)
    /\ Reply(q, "ok")
    /\ UNCHANGED <<redisVars, dbVars, game, roster, pub, req>>

\* The client presents the ticket of the seat held for it (admitReservation).
Admit(q) ==
    LET r == req[q].room
        u == req[q].user IN
    /\ req[q].granted /\ seat[r][u] = q
    /\ seat' = Put(seat, r, u, Member)
    /\ UNCHANGED <<redisVars, dbVars, phase, banned, gameVars, registryVars, req, cmd>>

\* A command is executed at most 6 s after it was sent (deadlineAt), a hold lasts
\* 15 s: when it ends, no command of a request that was given up is still waiting.
Outlived(u) == \A q \in Request : req[q].user = u /\ cmd[q] \in Waiting => req[q].step = "sent"

\* The hold runs out; a member leaves, or is not back when his grace ends.
HoldExpires(r, u) ==
    /\ seat[r][u] \in Request /\ Outlived(u)
    /\ Vacate(r, {u})
    /\ UNCHANGED <<redisVars, dbVars, banned, game, roster, registryVars, req, cmd>>

Leave(r, u) ==
    /\ seat[r][u] = Member
    /\ Vacate(r, {u})
    /\ UNCHANGED <<redisVars, dbVars, banned, game, roster, registryVars, req, cmd>>

\* The next game of a room has the id of a row no game was played with.
StartGame(r) ==
    /\ phase[r] = "open" /\ row[r] > game[r] /\ result[r] \in {"none", "recorded"}
    /\ \E u \in User : seat[r][u] = Member
    /\ game' = [game EXCEPT ![r] = row[r]]
    /\ roster' = [roster EXCEPT ![r] = {u \in User : seat[r][u] = Member}]
    /\ result' = [result EXCEPT ![r] = "running"]
    /\ UNCHANGED <<redisVars, dbVars, seatVars, registryVars, req, cmd>>

EndGame(r) ==
    /\ result[r] = "running"
    /\ result' = [result EXCEPT ![r] = "pending"]
    /\ UNCHANGED <<redisVars, dbVars, seatVars, game, roster, registryVars, req, cmd>>

GameServerStep ==
    \/ \E q \in Request :
        \/ Refuse(q) \/ CreateRoom(q) \/ ReadBlocks(q) \/ ReserveJoin(q) \/ ReserveResume(q)
        \/ KickUser(q) \/ Admit(q)
    \/ \E r \in Room :
        \/ \E u \in User : HoldExpires(r, u) \/ Leave(r, u)
        \/ StartGame(r) \/ EndGame(r)

------------------------------------------------------------------------------
(* The registry's publish loop, one Redis round trip at a time.               *)

\* #flushPendingReleases, one entry: dropped when the user is back.  Otherwise the
\* cooldown and the kick marker are written, if there is one to write, and the claim
\* is read, in the same round trip when there is none.
FlushRelease(r, u) ==
    LET entry == release[r][u]
        keys  == entry.cooldown \/ entry.kicked
    IN  /\ pub.at = "idle" /\ entry.on
        /\ IF ~ entry.kicked /\ SeatStands(r, u)
           THEN /\ release' = Put(release, r, u, NoRelease)
                /\ UNCHANGED <<redisVars, pub>>
           ELSE /\ cooldown' = cooldown \cup {k \in {<<r, u>>} : entry.cooldown}
                /\ marker' = marker \cup {k \in {<<r, u>>} : entry.kicked}
                /\ pub' = [Idle EXCEPT !.at = IF keys THEN "read" ELSE "flush",
                                       !.room = r, !.user = u,
                                       !.raw = IF keys THEN NoClaim ELSE claim[u]]
                /\ UNCHANGED <<claim, release>>
        /\ UNCHANGED <<dbVars, seatVars, gameVars, tracked, req, cmd>>

ReadClaim ==
    /\ pub.at = "read"
    /\ pub' = [pub EXCEPT !.at = "flush", !.raw = claim[pub.user]]
    /\ UNCHANGED <<redisVars, dbVars, seatVars, gameVars, tracked, release, req, cmd>>

\* compareAndDelete of the claim that was read, if it names this room.
MatchesNow(r, u) == claim[u].state = "assigned" /\ claim[u].room = r
StillMatches(r, u) == pub.raw.state = "assigned" /\ pub.raw.room = r /\ claim[u] = pub.raw

\* #deleteMatchingActiveRoom, the end of an entry of the flush.
DeleteMatchingActiveRoom ==
    LET r == pub.room
        u == pub.user
    IN  /\ pub.at = "flush"
        /\ claim' = IF StillMatches(r, u) THEN [claim EXCEPT ![u] = NoClaim] ELSE claim
        /\ release' = Put(release, r, u, NoRelease)
        /\ pub' = Idle
        /\ UNCHANGED <<cooldown, marker, dbVars, seatVars, gameVars, tracked, req, cmd>>

\* #synchronizeTrackedSeats, one seat: its claim is read, or its release queued.
SynchronizeSeat(r, u) ==
    LET t == tracked[r][u] IN
    /\ pub.at = "idle" /\ t.on
    /\ IF SeatStands(r, u)
       THEN LET now == [t EXCEPT !.joined = @ \/ seat[r][u] = Member]
            IN  /\ tracked' = Put(tracked, r, u, now)
                /\ pub' = [at |-> "sync", room |-> r, user |-> u, raw |-> claim[u], tracked |-> now]
                /\ UNCHANGED release
       ELSE /\ release' = Put(release, r, u, [on |-> TRUE,
                                              cooldown |-> phase[r] = "open" /\ t.joined,
                                              kicked |-> phase[r] = "open" /\ <<r, u>> \in banned])
            /\ tracked' = Put(tracked, r, u, Untracked)
            /\ UNCHANGED pub
    /\ UNCHANGED <<redisVars, dbVars, seatVars, gameVars, req, cmd>>

\* #claimBelongsToSeat
ClaimBelongsToSeat(c, r, t) ==
    \/ c.state = "reservation" /\ c.req = t.req
    \/ c.state = "assigned" /\ c.room = r

\* The claim that was read is refreshed; a member without one gets one back (SET NX).
RefreshClaim ==
    LET u == pub.user
        refreshed == ClaimBelongsToSeat(pub.raw, pub.room, pub.tracked) /\ claim[u] = pub.raw
    IN  /\ pub.at = "sync"
        /\ claim' = IF ~ refreshed /\ pub.tracked.joined /\ claim[u] = NoClaim
                    THEN [claim EXCEPT ![u] = Assignment(NoRequest, pub.room)] ELSE claim
        /\ pub' = Idle
        /\ UNCHANGED <<cooldown, marker, dbVars, seatVars, gameVars, tracked, release, req, cmd>>

\* Redis fails: the pass ends here and everything is tried again in the next one.
PublishFails ==
    /\ pub.at # "idle"
    /\ pub' = Idle
    /\ UNCHANGED <<redisVars, dbVars, seatVars, gameVars, tracked, release, req, cmd>>

RegistryStep ==
    \/ \E r \in Room, u \in User : FlushRelease(r, u) \/ SynchronizeSeat(r, u)
    \/ ReadClaim \/ DeleteMatchingActiveRoom \/ RefreshClaim \/ PublishFails

------------------------------------------------------------------------------
(* Redis forgets and the database records.                                    *)

\* Whether somebody renews a claim before its TTL (30 s) is over: the request that
\* reserved it, or its command, is still going (6 s at most; a quickJoin may spend 6 s
\* on each of many rooms, and lose its claim on the way), or the registry has its
\* seat and renews the claim, or removes it, long before.  An in-game server that
\* cannot reach Redis for a whole TTL is outside of this model.
KeptAlive(u) ==
    \/ /\ claim[u].state = "reservation"
       /\ Cardinality(req[claim[u].req].tried) <= 1
       /\ req[claim[u].req].step \notin Over \/ cmd[claim[u].req] \in Waiting
    \/ \E r \in Room :
        \/ tracked[r][u].on /\ Taken(r, u) /\ ClaimBelongsToSeat(claim[u], r, tracked[r][u])
        \/ claim[u].room = r /\ (tracked[r][u].on \/ release[r][u].on)

ClaimExpires(u) ==
    /\ claim[u] # NoClaim /\ ~ KeptAlive(u)
    /\ claim' = [claim EXCEPT ![u] = NoClaim]
    /\ UNCHANGED <<cooldown, marker, dbVars, seatVars, gameVars, registryVars, req, cmd>>

BlockExpires(r, u) ==
    /\ JoinBlocked(u, r)
    /\ cooldown' = cooldown \ {<<r, u>>} /\ marker' = marker \ {<<r, u>>}
    /\ UNCHANGED <<claim, dbVars, seatVars, gameVars, registryVars, req, cmd>>

\* record: a result with one player who is not assigned to its row is no result.
IsAssignedParticipantSubset(r) == \A u \in roster[r] : <<r, game[r], u>> \in assigned

Record(r) ==
    /\ result[r] = "pending"
    /\ result' = [result EXCEPT ![r] = IF IsAssignedParticipantSubset(r) THEN "recorded" ELSE "invalid"]
    /\ UNCHANGED <<redisVars, dbVars, seatVars, game, roster, registryVars, req, cmd>>

\* issueNextMatch: the next row, with a copy of the assignments of the recorded one.
IssueNextMatch(r) ==
    LET copied == {a \in assigned : a[1] = r /\ a[2] = game[r]} IN
    /\ result[r] = "recorded" /\ row[r] = game[r] /\ row[r] < MaxMatch /\ copied # {}
    /\ row' = [row EXCEPT ![r] = @ + 1]
    /\ assigned' = assigned \cup {<<r, row[r] + 1, a[3]>> : a \in copied}
    /\ UNCHANGED <<redisVars, seatVars, gameVars, registryVars, req, cmd>>

StoreStep ==
    \/ \E u \in User : ClaimExpires(u) \/ \E r \in Room : BlockExpires(r, u)
    \/ \E r \in Room : Record(r) \/ IssueNextMatch(r)

Next == GameServerStep \/ RegistryStep \/ StoreStep \/ \E q \in Request : MatchStep(q)

Spec == Init /\ [][Next]_vars

------------------------------------------------------------------------------
\* Nobody is a member of two rooms: the active-room claim is what makes a user sit
\* in one room at a time, although it is taken, renewed and removed by different
\* processes and seats outlive the requests that made them.
OneRoomAtATime ==
    \A u \in User : Cardinality({r \in Room : seat[r][u] = Member}) <= 1

\* Every taken seat is in the registry's list, so its claim is renewed while it is
\* taken and removed after it (trackSeat, noteReleased, #synchronizeTrackedSeats).
EverySeatIsWatched ==
    \A r \in Room, u \in User : Taken(r, u) => tracked[r][u].on

\* The claims keep the seats apart: one room for each user, and no taken seat
\* whose claim nobody would renew or remove (rooms.service.ts, registry.ts).
ClaimsKeepSeatsApart == AdmissionTypeOK /\ OneRoomAtATime /\ EverySeatIsWatched

\* The clean-up after one seat never takes the claim of the seat that followed it
\* (registry.ts, trackSeat: the clean-up of a seat that came back to life must not
\* delete the new claim).
CleanUpSparesTheNextSeat ==
    [][\A u \in User, r \in Room :
          claim[u].state = "assigned" /\ claim[u].room = r /\ claim'[u] = NoClaim
              => seat[r][u] \notin {Member, claim[u].req}]_vars

\* Both: what the claims promise of the seats at every moment, and of what is
\* cleaned up after them.
ClaimsGuardTheSeats == []ClaimsKeepSeatsApart /\ CleanUpSparesTheNextSeat

\* Everybody who was let into a game is assigned to its match until its result is
\* in ("the assignment is 'who was let into this room', so it outlives the game",
\* result.service.ts, addAssignmentByRoom).
AssignmentOutlivesTheGame ==
    \A r \in Room : result[r] \in {"running", "pending"} => IsAssignedParticipantSubset(r)

------------------------------------------------------------------------------
\* A request that runs goes on or dies; the consumer, the publish loop and Redis'
\* clock never stop.  Clients may do nothing for ever.
Fairness ==
    /\ \A q \in Request :
        /\ WF_vars(req[q].step # "idle" /\ MatchStep(q))
        /\ WF_vars(Refuse(q) \/ CreateRoom(q) \/ ReadBlocks(q) \/ ReserveJoin(q)
                      \/ ReserveResume(q) \/ KickUser(q))
    /\ \A r \in Room, u \in User : SF_vars(SynchronizeSeat(r, u))
    /\ SF_vars(\E r \in Room, u \in User : FlushRelease(r, u))
    /\ SF_vars(ReadClaim) /\ SF_vars(DeleteMatchingActiveRoom) /\ WF_vars(RefreshClaim)
    /\ WF_vars(\E r \in Room, u \in User : HoldExpires(r, u))
    /\ \A u \in User : WF_vars(ClaimExpires(u))

FairSpec == Spec /\ Fairness

\* Whoever has no seat gets rid of his claim and can go elsewhere, whatever became
\* of the request that took it.
NobodyIsLockedOut ==
    \A u \in User :
        claim[u] # NoClaim ~> claim[u] = NoClaim \/ \E r \in Room : seat[r][u] = Member
==============================================================================
