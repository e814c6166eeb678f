-------------------------------- MODULE Room --------------------------------
(***************************************************************************)
(* One room of an in-game server: its lobby roster (rooms/lobby-state.ts), *)
(* its state machine (rooms/room.ts, room-state.ts), the guards RoomManager *)
(* puts in front of it, and the game session it starts (game/).            *)
(*                                                                         *)
(* The process is single threaded, so a step is one handler: a client      *)
(* message, a control command, a socket event, a sweep of the 100 ms timer *)
(* or a tick of the simulation, with everything it calls.                  *)
(*                                                                         *)
(* Time is left open: a deadline (seat hold 15 s, reconnect grace 5 s,     *)
(* countdown 9 s, post-game 10 s) has passed when a sweep says so.  Refusals *)
(* that depend on time or on the rest of the server (start lock, draining, *)
(* result backlog, wrong password) are requests that do not happen.        *)
(***************************************************************************)
EXTENDS Naturals, FiniteSets

CONSTANTS User,            \* players
          NoUser,
          Capacity,        \* seats of the room, numbered from 1
          MinPlayers,      \* GAMEPLAY.MIN_PLAYERS_TO_START
          SurvivorsToWin,  \* GAMEPLAY.SURVIVORS_TO_WIN
          Origins,         \* how rooms come to be here: by CREATE_ROOM, by ADOPT_ROOM
          MaxGames,        \* bound on the games played in the room
          MaxKicks         \* bound on the users kicked from it

ASSUME RoomAssumption ==
    /\ NoUser \notin User
    /\ IsFiniteSet(User)
    /\ Capacity \in Nat \ {0}
    /\ MinPlayers \in Nat \ {0} /\ SurvivorsToWin \in Nat
    /\ SurvivorsToWin < MinPlayers
    /\ Origins \subseteq {"created", "adopted"}
    /\ MaxGames \in Nat /\ MaxKicks \in Nat

Seat == 1..Capacity
Nowhere == 0      \* the seat of somebody who has none

VARIABLES
    phase,      \* RoomStateMachine.#state
    frozen,     \* Room.#handingOff
    locked,     \* Room.#locked
    \* LobbyRoster
    held,       \* seat reserved for a user who has not connected yet
    seat,       \* seat (= playerId) of each member
    conn,       \* connection, admissionPendingUntil and reconnectUntil of a member
    role,       \* PlayerRole of a member
    eligible,   \* members with spectatorEligible
    inGame,     \* members with inCurrentGame
    seniors,    \* joinedOrder: the members who joined before each member
    host,       \* #hostUserId
    kicked,     \* Room.#kickedUsers
    \* the game
    snapshot,   \* seats in #startSnapshot, {} when it is null
    alive,      \* seats of the session's world that are alive
    identity,   \* GameSession.#identities: who had the seat when the game began
    session,    \* the game session: none, running, or saving its replay
    played,     \* #playedGames
    granted,    \* #grantedMatchId is set
    reported,   \* the last game's result went to the outbox
    \* history
    lockedUser  \* who sat there when the start snapshot was taken

rosterVars == <<held, seat, conn, role, eligible, inGame, seniors, host>>
gameVars == <<snapshot, alive, identity, session>>
matchVars == <<played, granted, reported>>
vars == <<phase, frozen, locked, held, seat, conn, role, eligible, inGame, seniors, host,
          kicked, snapshot, alive, identity, session, played, granted, reported, lockedUser>>

Phase   == {"Allocating", "Waiting", "Countdown", "Playing", "PostGame", "Closed"}
Conn    == {"none", "pending", "online", "away", "resuming"}
Role    == {"Player", "Waiting", "Spectator"}
Session == {"none", "running", "saving"}

TypeOK ==
    /\ phase \in Phase /\ frozen \in BOOLEAN /\ locked \in BOOLEAN
    /\ held \in [User -> Seat \cup {Nowhere}]
    /\ seat \in [User -> Seat \cup {Nowhere}]
    /\ conn \in [User -> Conn]
    /\ role \in [User -> Role]
    /\ eligible \subseteq User /\ inGame \subseteq User
    /\ seniors \in [User -> SUBSET User]
    /\ host \in User \cup {NoUser}
    /\ kicked \subseteq User
    /\ snapshot \subseteq Seat /\ alive \subseteq Seat
    /\ identity \in [Seat -> User \cup {NoUser}]
    /\ session \in Session
    /\ played \in 0..MaxGames /\ granted \in BOOLEAN /\ reported \in BOOLEAN
    /\ lockedUser \in [Seat -> User \cup {NoUser}]

NoIdentity == [s \in Seat |-> NoUser]

Members == {u \in User : seat[u] # Nowhere}
Holders == {u \in User : held[u] # Nowhere}
Online  == {u \in User : conn[u] = "online"}

\* Orders in which the members of an adopted room can have joined.
Orders(us) ==
    {o \in [User -> SUBSET us] :
        /\ \A u \in User \ us : o[u] = {}
        /\ \A u, v \in us : u \in o[v] => v \notin o[u] /\ o[u] \subseteq o[v]
        /\ \A u, v \in us : u = v \/ u \in o[v] \/ v \in o[u]}

InitCommon ==
    /\ frozen = FALSE
    /\ role = [u \in User |-> "Player"]
    /\ eligible = {} /\ inGame = {} /\ kicked = {}
    /\ snapshot = {} /\ alive = {} /\ session = "none"
    /\ identity = NoIdentity
    /\ lockedUser = NoIdentity

\* CREATE_ROOM: the owner holds the first seat.
Created ==
    /\ "created" \in Origins
    /\ phase = "Allocating" /\ locked = FALSE
    /\ \E owner \in User : held = [u \in User |-> IF u = owner THEN 1 ELSE Nowhere]
    /\ seat = [u \in User |-> Nowhere]
    /\ conn = [u \in User |-> "none"]
    /\ seniors = [u \in User |-> {}] /\ host = NoUser
    /\ played = 0 /\ granted = FALSE /\ reported = FALSE

\* ADOPT_ROOM: the members of a waiting room, all disconnected within their grace.
Adopted ==
    /\ "adopted" \in Origins
    /\ phase = "Waiting" /\ locked \in BOOLEAN
    /\ held = [u \in User |-> Nowhere]
    /\ \E us \in SUBSET User :
         /\ us # {}
         /\ seat \in [User -> Seat \cup {Nowhere}]
         /\ Members = us
         /\ \A u, v \in us : seat[u] = seat[v] => u = v
         /\ conn = [u \in User |-> IF u \in us THEN "away" ELSE "none"]
         /\ seniors \in Orders(us)
         /\ host \in us
    /\ played \in {0, 1} \cap 0..MaxGames
    /\ granted = (played > 0) /\ reported = (played > 0)

Init == InitCommon /\ (Created \/ Adopted)

------------------------------------------------------------------------------
(* The roster.                                                              *)

\* #firstFreeSeat over the seats no hold and no member has.
FreeSeats(blocked) == {s \in Seat : s \notin blocked /\ \A u \in User : held[u] # s /\ seat[u] # s}
FirstFreeSeat(blocked) == CHOOSE s \in FreeSeats(blocked) : \A t \in FreeSeats(blocked) : s <= t

\* While a game runs its locked numbers are not given away, not even the ones
\* whose player has left the room.
NothingBlocked == {}
Blocked == IF phase = "Playing" THEN snapshot ELSE {}

Without(f, us, none) == [u \in User |-> IF u \in us THEN none ELSE f[u]]

\* LobbyRoster.remove: the host's place goes to the member who joined first.
NextHost(gone) ==
    LET left == Members \ gone
    IN  IF host \notin gone THEN host
        ELSE IF left = {} THEN NoUser ELSE CHOOSE u \in left : seniors[u] \subseteq gone

SeniorsWithout(gone) == [u \in User |-> IF u \in gone THEN {} ELSE seniors[u] \ gone]

RemoveMembers(gone) ==
    /\ seat' = Without(seat, gone, Nowhere)
    /\ conn' = [u \in User |-> IF u \in gone THEN "none" ELSE conn[u]]
    /\ role' = Without(role, gone, "Player")
    /\ eligible' = eligible \ gone
    /\ inGame' = inGame \ gone
    /\ seniors' = SeniorsWithout(gone)
    /\ host' = NextHost(gone)

------------------------------------------------------------------------------
(* The session's world.  A death between ticks or in one of them may end    *)
(* the match: finishGame puts the room in POST_GAME at once, the result goes *)
(* out when the replay is saved.                                            *)
MatchOver(rest) == Cardinality(rest) <= SurvivorsToWin

\* eliminateDisconnected(playerIds) and what a room without members does next:
\* close(), which stops a session that is not already finished.
KillAndSettle(dead, membersLeft) ==
    LET killed == session = "running" /\ dead \cap alive # {}
        rest   == IF killed THEN alive \ dead ELSE alive
        ended  == killed /\ MatchOver(rest)
        empty  == membersLeft = {}
    IN  /\ alive' = rest
        /\ phase' = IF empty THEN "Closed" ELSE IF ended THEN "PostGame" ELSE phase
        /\ session' = IF ended THEN "saving"
                      ELSE IF empty /\ session = "running" THEN "none" ELSE session
        /\ UNCHANGED <<snapshot, identity>>

------------------------------------------------------------------------------
(* Coming in.  RoomManager turns away everything but a disconnect while the *)
(* room is frozen for a hand-off.                                           *)

\* RESERVE_JOIN.
ReserveJoin(u) ==
    /\ ~ frozen /\ ~ locked /\ phase \in {"Waiting", "Playing"}
    /\ u \notin kicked /\ u \notin Members \cup Holders
    /\ FreeSeats(Blocked) # {}
    /\ held' = [held EXCEPT ![u] = FirstFreeSeat(Blocked)]
    /\ UNCHANGED <<phase, frozen, locked, seat, conn, role, eligible, inGame, seniors, host,
                   kicked, gameVars, matchVars, lockedUser>>

\* admitReservation of a fresh ticket: the hold becomes a member without a
\* connection.  Who comes in during a game waits for the next one.
Admit(u) ==
    /\ ~ frozen /\ held[u] # Nowhere
    /\ phase \in {"Allocating", "Waiting", "Playing"}
    /\ seat' = [seat EXCEPT ![u] = held[u]]
    /\ held' = [held EXCEPT ![u] = Nowhere]
    /\ conn' = [conn EXCEPT ![u] = "pending"]
    /\ role' = [role EXCEPT ![u] = IF phase = "Playing" THEN "Waiting" ELSE "Player"]
    /\ inGame' = IF phase = "Playing" THEN inGame ELSE inGame \cup {u}
    /\ seniors' = [seniors EXCEPT ![u] = Members]
    /\ host' = IF host = NoUser THEN u ELSE host
    /\ phase' = IF phase = "Allocating" THEN "Waiting" ELSE phase
    /\ UNCHANGED <<frozen, locked, eligible, kicked, gameVars, matchVars, lockedUser>>

\* RESERVE_RESUME and the admission of its ticket: a member within the grace.
AdmitResume(u) ==
    /\ ~ frozen /\ phase # "Closed" /\ conn[u] = "away"
    /\ conn' = [conn EXCEPT ![u] = "resuming"]
    /\ UNCHANGED <<phase, frozen, locked, held, seat, role, eligible, inGame, seniors, host,
                   kicked, gameVars, matchVars, lockedUser>>

\* onConnect, bindConnection: the socket behind the admission.
Bind(u) ==
    /\ ~ frozen /\ phase # "Closed" /\ conn[u] \in {"pending", "resuming"}
    /\ conn' = [conn EXCEPT ![u] = "online"]
    /\ UNCHANGED <<phase, frozen, locked, held, seat, role, eligible, inGame, seniors, host,
                   kicked, gameVars, matchVars, lockedUser>>

\* Who is out of the game at once when the socket closes.
OutWhateverHePlays(u) == phase = "Playing" /\ u \notin eligible
OutOnDisconnect(u) == phase = "Playing" /\ u \in inGame /\ u \notin eligible

\* A socket closes.  Seat and elimination are separate: the seat is kept for the
\* grace, but somebody alive in a running game is out at once.
Disconnect(u) ==
    /\ phase # "Closed" /\ conn[u] = "online"
    /\ conn' = [conn EXCEPT ![u] = "away"]
    /\ IF OutOnDisconnect(u)
       THEN /\ eligible' = eligible \cup {u}
            /\ role' = [role EXCEPT ![u] = "Spectator"]
            /\ KillAndSettle({seat[u]}, Members)
       ELSE UNCHANGED <<eligible, role, phase, gameVars>>
    /\ UNCHANGED <<frozen, locked, held, seat, inGame, seniors, host, kicked, matchVars, lockedUser>>

------------------------------------------------------------------------------
(* Going out.                                                               *)

\* #removeMember with the lifecycle told of it.
Depart(u) ==
    /\ RemoveMembers({u})
    /\ KillAndSettle({seat[u]}, Members \ {u})
    /\ held' = IF Members = {u} THEN [v \in User |-> Nowhere] ELSE held
    /\ UNCHANGED <<frozen, locked, matchVars, lockedUser>>

\* lobby.leave; not during the countdown.
Leave(u) ==
    /\ ~ frozen /\ phase \in {"Waiting", "PostGame", "Playing"} /\ conn[u] = "online"
    /\ Depart(u)
    /\ UNCHANGED kicked

\* RELEASE_SEAT: a hold or a member, in any state.
ReleaseSeat(u) ==
    /\ ~ frozen /\ phase # "Closed"
    /\ \/ /\ held[u] # Nowhere
          /\ held' = [held EXCEPT ![u] = Nowhere]
          /\ phase' = IF Members \cup Holders = {u} THEN "Closed" ELSE phase
          /\ UNCHANGED <<frozen, locked, seat, conn, role, eligible, inGame, seniors, host,
                         gameVars, matchVars, lockedUser>>
       \/ held[u] = Nowhere /\ u \in Members /\ Depart(u)
    /\ UNCHANGED kicked

\* lobby.kick by the host.
Kick(h, u) ==
    /\ ~ frozen /\ phase = "Waiting" /\ host = h /\ conn[h] = "online"
    /\ u \in Members \ {h}
    /\ kicked' = kicked \cup {u} /\ Cardinality(kicked') <= MaxKicks
    /\ Depart(u)

\* KICK_USER: a sanction, in any state, whether the user is here or not.
ForceKick(u) ==
    /\ ~ frozen /\ phase # "Closed"
    /\ kicked' = kicked \cup {u} /\ Cardinality(kicked') <= MaxKicks
    /\ IF u \in Members
       THEN Depart(u)
       ELSE /\ held' = [held EXCEPT ![u] = Nowhere]
            /\ UNCHANGED <<phase, frozen, locked, seat, conn, role, eligible, inGame, seniors,
                           host, gameVars, matchVars, lockedUser>>

------------------------------------------------------------------------------
(* The lobby.                                                               *)
PassHost(h, u) ==
    /\ ~ frozen /\ phase = "Waiting" /\ host = h /\ conn[h] = "online" /\ u \in Members
    /\ host' = u
    /\ UNCHANGED <<phase, frozen, locked, held, seat, conn, role, eligible, inGame, seniors,
                   kicked, gameVars, matchVars, lockedUser>>

SetLocked(h) ==
    /\ ~ frozen /\ phase = "Waiting" /\ host = h /\ conn[h] = "online"
    /\ locked' = ~ locked
    /\ UNCHANGED <<phase, frozen, rosterVars, kicked, gameVars, matchVars, lockedUser>>

\* lobby.setSlot: the seat is the number in the game, so it only moves outside one.
MoveSlot(u, s) ==
    /\ ~ frozen /\ phase \in {"Waiting", "PostGame"} /\ conn[u] = "online"
    /\ \A v \in User \ {u} : seat[v] # s /\ held[v] # s
    /\ seat' = [seat EXCEPT ![u] = s]
    /\ UNCHANGED <<phase, frozen, locked, held, conn, role, eligible, inGame, seniors, host,
                   kicked, gameVars, matchVars, lockedUser>>

\* A second game needs the match id the match server grants once it has the
\* first result.
MayPlay == played = 0 \/ granted

\* lobby.start: lock the connected members in, drop the holds.
RequestStart(h) ==
    /\ ~ frozen /\ phase = "Waiting" /\ host = h /\ conn[h] = "online"
    /\ Cardinality(Online) >= MinPlayers
    /\ MayPlay
    /\ played < MaxGames
    /\ played' = played + 1 /\ granted' = FALSE /\ reported' = FALSE
    /\ held' = [u \in User |-> Nowhere]
    /\ snapshot' = {seat[u] : u \in Online}
    /\ lockedUser' = [s \in Seat |-> IF \E u \in Online : seat[u] = s
                                     THEN CHOOSE u \in Online : seat[u] = s ELSE NoUser]
    /\ phase' = "Countdown"
    /\ UNCHANGED <<frozen, locked, seat, conn, role, eligible, inGame, seniors, host, kicked,
                   alive, identity, session>>

\* lobby.spectate: somebody who is out watches or waits.
SetSpectating(u) ==
    /\ ~ frozen /\ phase = "Playing" /\ conn[u] = "online" /\ u \in eligible
    /\ role' = [role EXCEPT ![u] = IF @ = "Spectator" THEN "Waiting" ELSE "Spectator"]
    /\ UNCHANGED <<phase, frozen, locked, held, seat, conn, eligible, inGame, seniors, host,
                   kicked, gameVars, matchVars, lockedUser>>

\* GRANT_MATCH, sent once the result of the last game is stored.
GrantMatch ==
    /\ ~ frozen /\ phase # "Closed" /\ reported
    /\ granted' = TRUE
    /\ UNCHANGED <<phase, frozen, locked, rosterVars, kicked, gameVars, played, reported,
                   lockedUser>>

------------------------------------------------------------------------------
(* The 100 ms sweep.                                                        *)

\* The countdown is over: GameLifecycle.startGame puts every locked seat into
\* the world, alive, and remembers who sits there now.
BeginPlaying ==
    /\ phase' = "Playing"
    /\ session' = "running"
    /\ alive' = snapshot
    /\ identity' = [s \in Seat |-> IF \E u \in User : seat'[u] = s
                                   THEN CHOOSE u \in User : seat'[u] = s ELSE NoUser]
    /\ inGame' = {u \in User : seat'[u] \in snapshot}
    /\ role' = [u \in User |-> IF seat'[u] = Nowhere \/ seat'[u] \in snapshot
                               THEN "Player" ELSE "Waiting"]
    /\ eligible' = {}
    /\ UNCHANGED <<snapshot, lockedUser>>

\* POST_GAME is over: everybody is a plain member again.
BackToLobby ==
    /\ phase' = "Waiting"
    /\ role' = [u \in User |-> "Player"]
    /\ eligible' = {} /\ inGame' = {} /\ snapshot' = {}
    /\ lockedUser' = NoIdentity
    /\ UNCHANGED <<alive, identity, session>>

ExpirableUnlessResuming == {u \in User : conn[u] \in {"pending", "away"}}
Expirable == {u \in User : conn[u] \in {"pending", "away", "resuming"}}

\* advance() does nothing in a frozen room.
AdvancingAlways == phase # "Closed"
Advancing == ~ frozen /\ phase # "Closed"

\* #advance.  "gone": members whose admission or grace ran out; they lose their
\* seat and the lifecycle is not told.  "lapsed": a resuming socket that never
\* came, back to its grace.  "late": expired holds.  "over": the phase's time is up.
Sweep(gone, lapsed, late, over) ==
    /\ Advancing /\ (over => phase \in {"Countdown", "PostGame"})
    /\ LET left  == Members \ gone
           empty == left = {} /\ (phase # "Allocating" \/ Holders \subseteq late)
       IN
       /\ seat' = Without(seat, gone, Nowhere)
       /\ conn' = [u \in User |-> IF u \in gone THEN "none"
                                  ELSE IF u \in lapsed THEN "away" ELSE conn[u]]
       /\ seniors' = SeniorsWithout(gone)
       /\ host' = NextHost(gone)
       /\ held' = Without(held, IF empty THEN User ELSE late, Nowhere)
       /\ \/ ~ empty /\ over /\ phase = "Countdown" /\ BeginPlaying
          \/ ~ empty /\ over /\ phase = "PostGame" /\ BackToLobby
          \/ /\ empty \/ ~ over
             /\ phase' = IF empty THEN "Closed" ELSE phase
             /\ session' = IF empty /\ session = "running" THEN "none" ELSE session
             /\ role' = Without(role, gone, "Player")
             /\ eligible' = eligible \ gone
             /\ inGame' = inGame \ gone
             /\ UNCHANGED <<snapshot, alive, identity, lockedUser>>
    /\ UNCHANGED <<frozen, locked, kicked, matchVars>>

SweepSome ==
    \E gone \in SUBSET Expirable :
        \E lapsed \in SUBSET {u \in User \ gone : conn[u] = "resuming"}, late \in SUBSET Holders :
            \E over \in BOOLEAN : Sweep(gone, lapsed, late, over)

------------------------------------------------------------------------------
(* The game loop.                                                           *)

\* GameSession.step: the world kills some, the room is told of each, and the
\* match may be over, by survivors or by its time limit.
GameStep(dead, timeUp) ==
    /\ session = "running" /\ dead \subseteq alive
    /\ alive' = alive \ dead
    /\ LET out == {u \in inGame \ eligible : seat[u] \in dead} IN
         /\ eligible' = eligible \cup out
         /\ role' = [u \in User |-> IF u \in out THEN "Spectator" ELSE role[u]]
    /\ IF timeUp \/ MatchOver(alive')
       THEN phase' = "PostGame" /\ session' = "saving"
       ELSE UNCHANGED <<phase, session>>
    /\ UNCHANGED <<frozen, locked, held, seat, conn, inGame, seniors, host, kicked, snapshot,
                   identity, matchVars, lockedUser>>

\* The replay is saved, perhaps after the room closed: onFinished hands the
\* result to the outbox and drops the session with its world.
SaveReplay ==
    /\ session = "saving"
    /\ session' = "none" /\ reported' = TRUE
    /\ alive' = {} /\ identity' = NoIdentity
    /\ UNCHANGED <<phase, frozen, locked, rosterVars, kicked, snapshot, played, granted,
                   lockedUser>>

------------------------------------------------------------------------------
(* The hand-off's view of the room (HandOff.tla).                           *)
Freeze ==
    /\ ~ frozen /\ phase = "Waiting" /\ Holders = {} /\ Online # {}
    /\ MayPlay
    /\ \A u \in Members : conn[u] \in {"online", "away"}
    /\ frozen' = TRUE
    /\ UNCHANGED <<phase, locked, rosterVars, kicked, gameVars, matchVars, lockedUser>>

CancelHandOff ==
    /\ frozen /\ phase # "Closed"
    /\ frozen' = FALSE
    /\ UNCHANGED <<phase, locked, rosterVars, kicked, gameVars, matchVars, lockedUser>>

\* releaseAfterHandOff: the members go on elsewhere.
ReleaseAfterHandOff ==
    /\ frozen /\ phase # "Closed"
    /\ phase' = "Closed"
    /\ conn' = [u \in User |-> IF conn[u] = "online" THEN "none" ELSE conn[u]]
    /\ UNCHANGED <<frozen, locked, held, seat, role, eligible, inGame, seniors, host, kicked,
                   gameVars, matchVars, lockedUser>>

------------------------------------------------------------------------------
UserStep(u) ==
    \/ ReserveJoin(u) \/ Admit(u) \/ AdmitResume(u) \/ Bind(u) \/ Disconnect(u)
    \/ Leave(u) \/ ReleaseSeat(u) \/ ForceKick(u) \/ SetSpectating(u)
    \/ SetLocked(u) \/ RequestStart(u)
    \/ \E v \in User : Kick(u, v) \/ PassHost(u, v)
    \/ \E s \in Seat : MoveSlot(u, s)

GameOver == \E dead \in SUBSET alive, timeUp \in BOOLEAN : GameStep(dead, timeUp)

Next ==
    \/ \E u \in User : UserStep(u)
    \/ SweepSome
    \/ GameOver
    \/ SaveReplay \/ GrantMatch
    \/ Freeze \/ CancelHandOff \/ ReleaseAfterHandOff

Spec == Init /\ [][Next]_vars

------------------------------------------------------------------------------
\* snapshotAccess: what a connected member is shown of the running game.
Access(u) ==
    LET receives == phase = "Playing" /\ conn[u] = "online"
    IN  IF receives /\ role[u] = "Spectator" /\ u \in eligible THEN "unfiltered"
        ELSE IF receives /\ role[u] = "Player" /\ u \in inGame /\ u \notin eligible
             THEN "filtered" ELSE "none"

\* acceptInput: whose input the simulation takes.
Steers(u) ==
    phase = "Playing" /\ conn[u] = "online" /\ role[u] = "Player" /\ u \notin eligible

Held(u) == IF held[u] # Nowhere THEN held[u] ELSE seat[u]

\* Two users never have the same number, be it promised or taken: a hold made
\* during a game, a move in POST_GAME and a late admission never collide.
SeatsAreExclusive ==
    \A u, v \in Members \cup Holders : Held(u) = Held(v) => u = v

\* From the countdown to the end of the game a locked number belongs to the
\* player locked in with it or to nobody: nobody else gets the body, the replay
\* or the result of somebody who left (reserveJoin's lockedPlayerIds, moveSlot).
LockedNumbersKeepTheirPlayer ==
    phase \in {"Countdown", "Playing"} =>
        \A s \in snapshot :
            /\ \A u \in Members \cup Holders : Held(u) = s => u = lockedUser[s]
            /\ session = "running" => identity[s] \in {lockedUser[s], NoUser}

\* The whole map is shown only to a player of this game who is dead in it, and
\* only somebody alive in the world sees through its eyes or steers it: the
\* lobby's flags and the simulation never drift apart (snapshotAccess, acceptInput).
VisionMatchesTheWorld ==
    \A u \in User :
        /\ Access(u) = "unfiltered" => seat[u] \in snapshot \ alive /\ lockedUser[seat[u]] = u
        /\ Access(u) = "filtered" \/ Steers(u) => seat[u] \in alive /\ u \in inGame

\* Whoever was kicked has neither a seat nor a promise of one.
KickedHaveNoSeat == kicked \cap (Members \cup Holders) = {}

\* A room that is listed has a host among its members, whatever left it and in
\* whichever order; only an Allocating room is empty.
SomebodyHosts ==
    /\ phase \in {"Waiting", "Countdown", "Playing", "PostGame"} => host \in Members
    /\ phase = "Allocating" => Members = {} /\ host = NoUser

\* A session runs exactly while its room plays, and a new game never begins while
\* the last one still saves its replay: onFinished cannot remove its successor.
SessionFollowsTheRoom ==
    /\ session = "running" <=> phase = "Playing"
    /\ session = "saving" => phase \in {"PostGame", "Waiting", "Closed"} /\ ~ granted

\* The roster is sound: every number has one owner, nobody kicked keeps one, and
\* a listed room has its host (lobby-state.ts reserve, moveSlot, remove, kick).
RosterIsSound ==
    /\ TypeOK
    /\ SeatsAreExclusive
    /\ LockedNumbersKeepTheirPlayer
    /\ KickedHaveNoSeat
    /\ SomebodyHosts

\* The game and the lobby agree on whether a game runs, and on who is alive in it
\* (game-lifecycle.ts onFinished, room.ts snapshotAccess and acceptInput).
GameMatchesTheLobby == SessionFollowsTheRoom /\ VisionMatchesTheWorld

\* A room is sound: its roster, and the agreement of its game and its lobby
\* (lobby-state.ts, game-lifecycle.ts, room.ts).
RoomIsSound == RosterIsSound /\ GameMatchesTheLobby

\* While a room is frozen for a hand-off its roster, its kicked users and its
\* match stay what the exported copy says; only sockets may drop.
FrozenRoomStandsStill ==
    [][frozen /\ frozen' => UNCHANGED <<held, seat, seniors, host, kicked, locked, matchVars>>]_vars

\* In a game that goes on, a seat is lost to the grace timer only when its player
\* is no longer alive ("the elimination was over at the disconnect", room.ts
\* #advance).
GraceOnlyReleasesTheSeat ==
    [][SweepSome /\ phase = "Playing" /\ phase' = "Playing" =>
         \A u \in Members \ Members' : seat[u] \notin alive]_vars

------------------------------------------------------------------------------
(* Progress.  The sweep runs for ever and every deadline passes; a hand-off   *)
(* is settled (HandOff.tla) and leaves the room to the sweep again, so what a *)
(* thawed room lets pass again and again does pass (SF).  A game has a time   *)
(* limit.                                                                     *)
PhaseTimeIsUp ==
    \E gone \in SUBSET Expirable, late \in SUBSET Holders : Sweep(gone, {}, late, TRUE)

DeadlineOf(u) ==
    \E gone \in SUBSET Expirable : u \in gone /\ Sweep(gone, {}, {}, FALSE)

Fairness ==
    /\ WF_vars(phase \in {"Countdown", "PostGame"} /\ PhaseTimeIsUp)
    /\ WF_vars(\E dead \in SUBSET alive : GameStep(dead, TRUE))
    /\ WF_vars(CancelHandOff \/ ReleaseAfterHandOff)
    /\ \A u \in User : SF_vars(DeadlineOf(u))

FairSpec == Spec /\ Fairness

\* Nobody keeps a seat without a connection: whoever dropped out, or never
\* connected, is back or is gone in the end, however often a resume is begun and
\* whatever game or hand-off comes between (reconnectUntil is never extended).
SeatsAreNotKeptForEver ==
    \A u \in User : conn[u] \in {"pending", "away", "resuming"} ~>
                       conn[u] \in {"online", "none"} \/ phase = "Closed"

\* A room does not get stuck in a countdown, a game or a result screen.
EveryGameEnds ==
    phase \in {"Countdown", "Playing", "PostGame"} ~> phase \in {"Waiting", "Closed"}

\* Nothing in a room is for ever: a deadline that somebody's return or death races
\* with comes, and every game makes room for the next (room.ts #advance).
RoomsMoveOn == SeatsAreNotKeptForEver /\ EveryGameEnds
==============================================================================
