--------------------------- MODULE ClientSession ----------------------------
(* One browser tab: the session with a game server (client/src/game/          *)
(* GameSession.ts) and the pages that use it (LobbyPage, GamePage, the pages   *)
(* that ask for a seat, lobbyLeave.ts).                                        *)
(*                                                                            *)
(* connectionGeneration is kept as what its comparisons tell: whether a socket *)
(* or a request was begun since the last disconnect(). Answers of the match    *)
(* server and events of the network come in any order and at any time.         *)
EXTENDS Naturals, FiniteSets

CONSTANTS Place,        \* rooms
          Slot,         \* sockets of the tab at one time
          MaxAsks,      \* resumes of one room in flight
          MaxVisits     \* pages visited, seats asked for, lost connections

ASSUME ClientSessionAssumption ==
  /\ Slot \subseteq Nat \ {0} /\ IsFiniteSet(Slot)
  /\ IsFiniteSet(Place) /\ "none" \notin Place
  /\ MaxAsks \in Nat \ {0} /\ MaxVisits \in Nat

NoPlace == "none"

VARIABLES conn,        \* state.status
          roomOf,      \* state.roomId
          stored,      \* ACTIVE_ROOM_KEY in sessionStorage
          socket,      \* this.socket, 0 for null
          socks,       \* what the browser and the closures know of each socket
          timer,       \* reconnectTimer: the room it will ask for
          downSince,   \* reconnectStartedAt is set
          resumes,     \* resumeRoom calls of this generation in flight, by room
          page,        \* the page and its room
          asked,       \* seats a page has asked for, by joining or resuming
          leaves,      \* pendingLeaves
          unloading,   \* pageUnloading
          visits,      \* how much has happened, for the bound
          crossed,     \* connect() has met a resume of its own generation
          stuck        \* the page was unloading with its connection lost

sessionVars == <<conn, roomOf, stored, socket, socks, timer, downSince, resumes,
                 page, asked, leaves, unloading, visits, crossed, stuck>>

Free == [at |-> "free", room |-> NoPlace, by |-> "page", authed |-> FALSE,
         settled |-> FALSE, retryable |-> TRUE, fresh |-> FALSE]
Rooms == [name |-> "rooms", room |-> NoPlace]
Lobby(r) == [name |-> "lobby", room |-> r]
Game(r) == [name |-> "game", room |-> r]
Seat(r, how) == [room |-> r, how |-> how]

SessionInit ==
  /\ conn = "idle" /\ roomOf = NoPlace /\ stored = NoPlace
  /\ socket = 0 /\ socks = [s \in Slot |-> Free]
  /\ timer = NoPlace /\ downSince = FALSE /\ resumes = [r \in Place |-> 0]
  /\ page = Rooms /\ asked = {} /\ leaves = {} /\ unloading = FALSE
  /\ visits = 0 /\ crossed = FALSE /\ stuck = FALSE

Visit == visits < MaxVisits /\ visits' = visits + 1

-----------------------------------------------------------------------------
\* A socket of its own for every connection: the first that is free.
NextSlot == CHOOSE s \in Slot : /\ socks[s].at = "free"
                                /\ \A t \in Slot : socks[t].at = "free" => s <= t
SomeSlot == \E s \in Slot : socks[s].at = "free"

\* closeSocket() closes what this.socket holds, and forgets it.
WithSocketClosed == IF socket # 0 /\ socks[socket].at \in {"connecting", "open"}
                    THEN [socks EXCEPT ![socket].at = "closing"] ELSE socks

\* openSocket, with a ticket that has not run out.
NewSocket(r, by) == [Free EXCEPT !.at = "connecting", !.room = r, !.by = by, !.fresh = TRUE]

\* connect(): the tab gives up what it had and opens a socket to r, or the ticket
\* has run out by now.
ConnectTo(r, expired) ==
  /\ SomeSlot
  /\ timer' = NoPlace /\ downSince' = FALSE
  /\ roomOf' = r
  /\ conn' = (IF expired THEN "disconnected" ELSE "connecting")
  /\ socks' = (IF expired THEN WithSocketClosed
               ELSE [WithSocketClosed EXCEPT ![NextSlot] = NewSocket(r, "page")])
  /\ socket' = (IF expired THEN 0 ELSE NextSlot)
  /\ crossed' = (crossed \/ \E q \in Place : resumes[q] > 0)

\* disconnect(): what was begun before belongs to an earlier generation, so that
\* resumes in flight come to nothing.
DisconnectSession ==
  /\ timer' = NoPlace /\ downSince' = FALSE
  /\ socks' = [s \in Slot |-> [WithSocketClosed[s] EXCEPT !.fresh = FALSE]]
  /\ socket' = 0 /\ conn' = "idle" /\ roomOf' = NoPlace /\ stored' = NoPlace
  /\ resumes' = [r \in Place |-> 0]
  /\ UNCHANGED crossed

\* finishDisconnected()
Finish ==
  /\ timer' = NoPlace /\ downSince' = FALSE /\ conn' = "disconnected"
  /\ stored' = IF unloading THEN stored ELSE NoPlace

\* scheduleReconnect(): nothing when a timer runs or the page is going; the end when
\* the time is up, which it cannot be at the first attempt.
Reschedule(giveUp) ==
  IF timer # NoPlace \/ unloading THEN UNCHANGED <<conn, timer, downSince, stored>>
  ELSE IF giveUp THEN downSince /\ Finish
  ELSE /\ conn' = "reconnecting" /\ timer' = roomOf /\ downSince' = TRUE
       /\ UNCHANGED stored

\* The promise of a socket is rejected: a page shows it, the chain of a resume tries
\* again while it is still the tab's.
Rejected(s, giveUp) ==
  IF ~socks[s].settled /\ socks[s].by = "resume" /\ socks[s].fresh /\ conn = "reconnecting"
  THEN Reschedule(giveUp)
  ELSE ~giveUp /\ UNCHANGED <<conn, timer, downSince, stored>>

-----------------------------------------------------------------------------
(* The socket's events.                                                       *)

Opened(s) ==
  /\ socks[s].at = "connecting"
  /\ socks' = [socks EXCEPT ![s].at = "open"]
  /\ UNCHANGED <<conn, roomOf, stored, socket, timer, downSince, resumes, page, asked,
                 leaves, unloading, visits, crossed, stuck>>

\* auth.ok. What a socket says that is no longer the session's is not heard. The
\* page that asked for the seat goes to the lobby, or stays in its room.
AuthOk(s) ==
  /\ socks[s].at = "open" /\ ~socks[s].settled
  /\ socket = s
  /\ conn' = "connected" /\ roomOf' = socks[s].room /\ stored' = socks[s].room
  /\ socks' = [socks EXCEPT ![s].authed = TRUE, ![s].settled = TRUE]
  /\ downSince' = (downSince /\ (socks[s].by = "page" \/ ~socks[s].fresh))
  /\ page' = (IF socks[s].by = "resume" \/ page.room = socks[s].room THEN page
              ELSE Lobby(socks[s].room))
  /\ leaves' = IF page' = Lobby(socks[s].room) THEN leaves \ {socks[s].room} ELSE leaves
  /\ UNCHANGED <<socket, timer, resumes, asked, unloading, visits, crossed, stuck>>

\* A refusal before auth.ok: the server sends error and closes. AUTH_FAILED and its
\* like are not to be retried.
SeatRefused(s, retryable, giveUp) ==
  /\ socks[s].at = "open" /\ ~socks[s].settled /\ socket = s
  /\ IF retryable THEN Rejected(s, giveUp)
     ELSE ~giveUp /\ Finish
  /\ socks' = [socks EXCEPT ![s].settled = TRUE, ![s].retryable = retryable,
                            ![s].at = "closing"]
  /\ UNCHANGED <<roomOf, socket, resumes, page, asked, leaves, unloading, visits, crossed, stuck>>

\* KICKED and ROOM_CLOSED end the session; on the lobby page that is noticed, and
\* the tab goes back to the list of rooms. Other errors are answers to commands.
Kicked(s) ==
  /\ socks[s].at = "open" /\ socks[s].authed /\ socket = s
  /\ IF page = Lobby(roomOf)
     THEN DisconnectSession /\ page' = Rooms
     ELSE /\ timer' = NoPlace /\ downSince' = FALSE /\ conn' = "disconnected"
          /\ stored' = NoPlace
          /\ socks' = [socks EXCEPT ![s].retryable = FALSE]
          /\ UNCHANGED <<roomOf, socket, resumes, page, crossed>>
  /\ UNCHANGED <<asked, leaves, unloading, visits, stuck>>

\* The network or the server ends a connection, the browser tells it as an error
\* and a close; a ticket runs out before auth.ok.
Lost(s, giveUp) ==
  /\ socks[s].at \in {"connecting", "open"}
  /\ Visit
  /\ \/ ~socks[s].settled
     \/ socks[s].settled /\ ~giveUp
  /\ IF socks[s].settled THEN UNCHANGED <<conn, timer, downSince, stored>>
     ELSE Rejected(s, giveUp)
  /\ socks' = [socks EXCEPT ![s].at = "closing", ![s].settled = TRUE]
  /\ UNCHANGED <<roomOf, socket, resumes, page, asked, leaves, unloading, crossed, stuck>>

\* The close event; and one that also heeds sockets the session has given up.
AnySocket(s) == TRUE
OwnSocket(s) == s = socket

Closed(s, giveUp) ==
  /\ socks[s].at = "closing"
  /\ socks' = [socks EXCEPT ![s] = Free]
  /\ IF ~OwnSocket(s)
     THEN ~giveUp /\ UNCHANGED <<socket, conn, timer, downSince, stored, stuck>>
     ELSE /\ socket' = 0
          /\ stuck' = (stuck \/ (socks[s].authed /\ unloading))
          /\ IF socks[s].authed /\ socks[s].retryable /\ ~unloading /\ socks[s].fresh
             THEN Reschedule(giveUp)
             ELSE IF socks[s].authed \/ ~socks[s].retryable THEN ~giveUp /\ Finish
             ELSE Rejected(s, giveUp)
  /\ UNCHANGED <<roomOf, resumes, page, asked, leaves, unloading, visits, crossed>>

-----------------------------------------------------------------------------
(* Reconnecting.                                                              *)

TimerFires ==
  /\ timer # NoPlace /\ resumes[timer] < MaxAsks
  /\ resumes' = [resumes EXCEPT ![timer] = @ + 1]
  /\ timer' = NoPlace
  /\ UNCHANGED <<conn, roomOf, stored, socket, socks, downSince, page, asked, leaves,
                 unloading, visits, crossed, stuck>>

\* The match server grants a seat, or refuses one, or the ticket is too old.
StillReconnecting == conn = "reconnecting"

ResumeGranted(r) ==
  /\ resumes[r] > 0 /\ SomeSlot
  /\ resumes' = [resumes EXCEPT ![r] = @ - 1]
  /\ IF StillReconnecting
     THEN /\ socks' = [socks EXCEPT ![NextSlot] = NewSocket(r, "resume")]
          /\ socket' = NextSlot
          /\ UNCHANGED downSince
     ELSE /\ downSince' = (downSince /\ conn # "connected")
          /\ UNCHANGED <<socks, socket>>
  /\ UNCHANGED <<conn, roomOf, stored, timer, page, asked, leaves, unloading, visits,
                 crossed, stuck>>

ResumeFails(r, giveUp) ==
  /\ resumes[r] > 0
  /\ resumes' = [resumes EXCEPT ![r] = @ - 1]
  /\ IF conn = "reconnecting" THEN Reschedule(giveUp)
     ELSE ~giveUp /\ UNCHANGED <<conn, timer, downSince, stored>>
  /\ UNCHANGED <<roomOf, socket, socks, page, asked, leaves, unloading, visits, crossed, stuck>>

-----------------------------------------------------------------------------
(* The pages.                                                                 *)

\* A page asks for a seat: the list of rooms to join one quickly, its neighbours to
\* create or to join one; the lobby and the game page to resume the room of their
\* address when the session is not in it.
AskToJoin(r) == page = Rooms /\ asked' = asked \cup {Seat(r, "join")}

ResumeForTheLobby(r) ==
  page = Lobby(r) /\ roomOf # r /\ asked' = asked \cup {Seat(r, "resume")}

RecoverTheGame(r) ==
  /\ page = Game(r) /\ roomOf = NoPlace /\ conn # "reconnecting"
  /\ asked' = asked \cup {Seat(r, "resume")}

Ask(r) ==
  /\ Visit
  /\ AskToJoin(r) \/ ResumeForTheLobby(r) \/ RecoverTheGame(r)
  /\ UNCHANGED <<conn, roomOf, stored, socket, socks, timer, downSince, resumes, page,
                 leaves, unloading, crossed, stuck>>

\* The answer, wherever the tab has gone meanwhile.
Granted(r, expired) ==
  /\ \E how \in {"join", "resume"} :
       Seat(r, how) \in asked /\ asked' = asked \ {Seat(r, how)}
  /\ ConnectTo(r, expired)
  /\ UNCHANGED <<stored, resumes, page, leaves, unloading, visits, stuck>>

\* resumeRoom forgets the room it could not resume.
NotGranted(r) ==
  /\ \E how \in {"join", "resume"} :
       /\ Seat(r, how) \in asked /\ asked' = asked \ {Seat(r, how)}
       /\ stored' = IF how = "resume" THEN NoPlace ELSE stored
  /\ UNCHANGED <<conn, roomOf, socket, socks, timer, downSince, resumes, page, leaves,
                 unloading, visits, crossed, stuck>>

\* The lobby page is mounted: by a link to a room one is in already, or by going
\* back. Mounting takes a pending leave back.
TakenBack(r) == leaves \ {r}

EnterLobby(r) ==
  /\ Visit
  /\ page.name # "lobby"
  /\ page' = Lobby(r)
  /\ leaves' = TakenBack(r)
  /\ UNCHANGED <<conn, roomOf, stored, socket, socks, timer, downSince, resumes, asked,
                 unloading, crossed, stuck>>

\* game.starting takes the lobby to the game page, without leaving the room; the game
\* page may also be reached by its address, and left by going back.
EnterGame(r) ==
  /\ Visit
  /\ \/ page = Lobby(r) /\ roomOf = r /\ conn = "connected"
     \/ page = Rooms
  /\ page' = Game(r)
  /\ UNCHANGED <<conn, roomOf, stored, socket, socks, timer, downSince, resumes, asked,
                 leaves, unloading, crossed, stuck>>

GoBackFromGame ==
  /\ Visit
  /\ page.name = "game"
  /\ page' = Rooms
  /\ UNCHANGED <<conn, roomOf, stored, socket, socks, timer, downSince, resumes, asked,
                 leaves, unloading, crossed, stuck>>

\* exitRoom and exitGame: lobby.leave if it can be sent, and disconnect.
Exit(name) ==
  /\ Visit
  /\ page.name = name
  /\ page' = Rooms
  /\ DisconnectSession
  /\ UNCHANGED <<asked, leaves, unloading, stuck>>

\* The lobby page is unmounted some other way: the seat is given up a little later.
WalkOut ==
  /\ Visit
  /\ page.name = "lobby"
  /\ page' = Rooms
  /\ leaves' = IF roomOf = page.room /\ ~unloading THEN leaves \cup {page.room} ELSE leaves
  /\ UNCHANGED <<conn, roomOf, stored, socket, socks, timer, downSince, resumes, asked,
                 unloading, crossed, stuck>>

LeaveFires(r) ==
  /\ r \in leaves
  /\ leaves' = leaves \ {r}
  /\ IF roomOf = r THEN DisconnectSession
     ELSE UNCHANGED <<conn, roomOf, stored, socket, socks, timer, downSince, resumes, crossed>>
  /\ UNCHANGED <<page, asked, unloading, visits, stuck>>

\* beforeunload and pagehide, pageshow of a page that was kept, and a page that is
\* loaded anew: only sessionStorage survives.
Unload ==
  /\ ~unloading /\ Visit
  /\ unloading' = TRUE
  /\ stuck' = (stuck \/ conn = "reconnecting")
  /\ UNCHANGED <<conn, roomOf, stored, socket, socks, timer, downSince, resumes, page,
                 asked, leaves, crossed>>

PageShow ==
  /\ unloading
  /\ unloading' = FALSE
  /\ UNCHANGED <<conn, roomOf, stored, socket, socks, timer, downSince, resumes, page,
                 asked, leaves, visits, crossed, stuck>>

Reload ==
  /\ unloading
  /\ conn' = "idle" /\ roomOf' = NoPlace /\ socket' = 0
  /\ socks' = [s \in Slot |-> Free]
  /\ timer' = NoPlace /\ downSince' = FALSE /\ resumes' = [r \in Place |-> 0]
  /\ asked' = {} /\ leaves' = {} /\ unloading' = FALSE /\ crossed' = FALSE /\ stuck' = FALSE
  /\ UNCHANGED <<stored, page, visits>>

SocketEvent(s) ==
  \/ Opened(s) \/ AuthOk(s) \/ Kicked(s)
  \/ \E giveUp \in BOOLEAN : Lost(s, giveUp) \/ Closed(s, giveUp)
  \/ \E giveUp, retryable \in BOOLEAN : SeatRefused(s, retryable, giveUp)

Browse(r) ==
  \/ Ask(r) \/ NotGranted(r) \/ EnterLobby(r) \/ EnterGame(r) \/ LeaveFires(r)
  \/ \E expired \in BOOLEAN : Granted(r, expired)
  \/ ResumeGranted(r)
  \/ \E giveUp \in BOOLEAN : ResumeFails(r, giveUp)

SessionNext ==
  \/ \E s \in Slot : SocketEvent(s)
  \/ \E r \in Place : Browse(r)
  \/ TimerFires \/ GoBackFromGame \/ WalkOut
  \/ Exit("lobby") \/ Exit("game")
  \/ Unload \/ PageShow \/ Reload

SessionSpec == SessionInit /\ [][SessionNext]_sessionVars

-----------------------------------------------------------------------------
\* A session that says it is connected has an authenticated socket of the room it
\* shows, and the tab will find that room after a reload.
ConnectedMeansConnected ==
  conn = "connected" =>
    /\ socket # 0 /\ socks[socket].authed
    /\ socks[socket].room = roomOf
    /\ stored \in {roomOf, NoPlace}

\* The tab never holds two live sockets: every one but the session's own is being
\* closed (closeSocket, openSocket).
OneLiveSocket ==
  \A s \in Slot \ {socket} : socks[s].at \notin {"connecting", "open"}

\* A session that says it is reconnecting has something under way that will end it:
\* a timer, a request or a socket (scheduleReconnect). Left out is a page that lost
\* its connection while unloading and was kept after all.
ReconnectingIsUnderWay ==
  conn = "reconnecting" =>
    \/ timer # NoPlace
    \/ \E r \in Place : resumes[r] > 0
    \/ socket # 0 /\ socks[socket].fresh /\ ~socks[socket].settled
    \/ stuck \/ unloading

\* Nobody is thrown out of a room by the page he left it with (lobbyLeave.ts).
LeaveSparesTheLobby == page.name = "lobby" => page.room \notin leaves

\* The tab's session is what its pages believe it is. Left out is a tab where a page
\* connected while a resume was in flight: connect() begins no new generation, the
\* resume may open a socket later on, and the timer that it meets is then lost.
SessionIsConsistent ==
  /\ LeaveSparesTheLobby
  /\ ~crossed => ConnectedMeansConnected /\ OneLiveSocket /\ ReconnectingIsUnderWay

=============================================================================
