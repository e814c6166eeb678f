----------------------------- MODULE Connections ----------------------------
(* The sockets of a game server, from the upgrade to the close event:        *)
(* transport/ws-transport.ts, gateway/connection-manager.ts, ticket-auth.ts  *)
(* and ticket-store.ts, with the seats of the room they ask for              *)
(* (rooms/room.ts admitReservation, bindConnection, disconnect).             *)
(*                                                                           *)
(* A socket that was closed by either side still has its record until the    *)
(* close event; authenticate waits twice, before and after it looks the      *)
(* ticket up, and anything may happen to the socket meanwhile.               *)
EXTENDS Naturals, FiniteSets

CONSTANTS Socket,      \* bound: sockets ever opened
          Actor,       \* users and guests
          Ticket, OwnerOf,   \* tickets the server issued, and for whom
          IpOf,              \* the address each socket comes from
          MaxConnections, MaxUnauthenticatedPerIp, MaxAuthenticatedPerIp,
          MaxReservations    \* bound: seats reserved or resumed, per user

\* No socket, no ticket, or a record whose user is not known yet.
Nobody == "nobody"

ASSUME ConnectionsAssumption ==
  /\ OwnerOf \in [Ticket -> Actor] /\ IsFiniteSet(Socket)
  /\ Nobody \notin Socket \cup Ticket \cup Actor /\ "none" \notin Actor
  /\ {MaxConnections, MaxUnauthenticatedPerIp, MaxAuthenticatedPerIp,
      MaxReservations} \subseteq Nat

VARIABLES ready,       \* readyState of the socket
          record,      \* its record in the connection manager and the user there
          auth,        \* how far acceptSocket's handler has come
          presented,   \* the ticket it presented
          unauthByIp, authByIp, activeUsers,
          ticketState, \* unissued, live, gone
          place,       \* the user's seat: none, held, pending, bound, away
          boundTo,     \* member.connection
          reserved,    \* seats reserved so far
          admittedBy   \* history: the sockets each ticket let in

connectionVars == <<ready, record, auth, presented, unauthByIp, authByIp, activeUsers,
                    ticketState, place, boundTo, reserved, admittedBy>>

Ip == {IpOf[s] : s \in Socket}

ConnectionsTypeOK ==
  /\ ready \in [Socket -> {"unused", "open", "closing", "closed"}]
  /\ record \in [Socket -> {"none"} \cup {Nobody} \cup Actor]
  /\ auth \in [Socket -> {"idle", "looking", "admitted", "refused", "done"}]
  /\ ticketState \in [Ticket -> {"unissued", "live", "gone"}]
  /\ place \in [Actor -> {"none", "held", "pending", "bound", "away"}]
  /\ presented \in [Socket -> Ticket \cup {Nobody}]
  /\ activeUsers \in [Actor -> Socket \cup {Nobody}]
  /\ boundTo \in [Actor -> Socket \cup {Nobody}]
  /\ unauthByIp \in [Ip -> Nat] /\ authByIp \in [Ip -> Nat] /\ reserved \in [Actor -> Nat]
  /\ admittedBy \in [Ticket -> SUBSET Socket]

ConnectionsInit ==
  /\ ready = [s \in Socket |-> "unused"] /\ record = [s \in Socket |-> "none"]
  /\ auth = [s \in Socket |-> "idle"] /\ presented = [s \in Socket |-> Nobody]
  /\ unauthByIp = [i \in Ip |-> 0] /\ authByIp = [i \in Ip |-> 0]
  /\ activeUsers = [a \in Actor |-> Nobody]
  /\ ticketState = [t \in Ticket |-> "unissued"]
  /\ place = [a \in Actor |-> "none"] /\ boundTo = [a \in Actor |-> Nobody]
  /\ reserved = [a \in Actor |-> 0] /\ admittedBy = [t \in Ticket |-> {}]

ipVars == <<unauthByIp, authByIp, activeUsers>>
roomVars == <<ticketState, place, boundTo, reserved, admittedBy>>

-----------------------------------------------------------------------------
\* A join or a resume reserves the seat and issues its ticket.
IssueTicket(t) ==
  LET a == OwnerOf[t]
  IN  /\ ticketState[t] = "unissued" /\ reserved[a] < MaxReservations
      /\ place[a] \in {"none", "held", "away"}
      /\ ticketState' = [ticketState EXCEPT ![t] = "live"]
      /\ place' = [place EXCEPT ![a] = IF @ = "none" THEN "held" ELSE @]
      /\ reserved' = [reserved EXCEPT ![a] = @ + 1]
      /\ UNCHANGED <<ready, record, auth, presented, boundTo, admittedBy>> /\ UNCHANGED ipVars

\* A ticket or a seat outlives its time; a pending admission that is not bound is
\* given up, or falls back to the seat that was kept for the resume.
TicketExpires(t) ==
  /\ ticketState[t] = "live"
  /\ ticketState' = [ticketState EXCEPT ![t] = "gone"]
  /\ UNCHANGED <<ready, record, auth, presented, place, boundTo, reserved, admittedBy>>
  /\ UNCHANGED ipVars

SeatExpires(a) ==
  /\ place[a] \in {"held", "pending", "away"}
  /\ \E next \in {"none"} \cup (IF place[a] = "pending" THEN {"away"} ELSE {}) :
       place' = [place EXCEPT ![a] = next]
  /\ UNCHANGED <<ready, record, auth, presented, ticketState, boundTo, reserved, admittedBy>>
  /\ UNCHANGED ipVars

\* The member leaves, is kicked, or the room closes: the room lets the seat go and
\* closes the connection.
Dismiss(a) ==
  /\ place[a] = "bound"
  /\ place' = [place EXCEPT ![a] = "none"]
  /\ boundTo' = [boundTo EXCEPT ![a] = Nobody]
  /\ ready' = [ready EXCEPT ![boundTo[a]] = "closing"]
  /\ UNCHANGED <<record, auth, presented, ticketState, reserved, admittedBy>>
  /\ UNCHANGED ipVars

\* onUpgrade and acceptSocket: canOpen, and open.
CanOpen(ip) ==
  /\ Cardinality({s \in Socket : record[s] # "none"}) < MaxConnections
  /\ unauthByIp[ip] < MaxUnauthenticatedPerIp

AcceptSocket(s) ==
  /\ ready[s] = "unused" /\ CanOpen(IpOf[s])
  /\ ready' = [ready EXCEPT ![s] = "open"]
  /\ record' = [record EXCEPT ![s] = Nobody]
  /\ unauthByIp' = [unauthByIp EXCEPT ![IpOf[s]] = @ + 1]
  /\ UNCHANGED <<auth, presented, authByIp, activeUsers>> /\ UNCHANGED roomVars

\* The first message: an auth message with a ticket. Anything else, and a second
\* message while the first is looked up, closes the socket.
Presents(s, t) ==
  /\ ready[s] = "open" /\ auth[s] = "idle"
  /\ auth' = [auth EXCEPT ![s] = "looking"]
  /\ presented' = [presented EXCEPT ![s] = t]
  /\ UNCHANGED <<ready, record>> /\ UNCHANGED ipVars /\ UNCHANGED roomVars

CanAuthenticate(s, a) ==
  /\ record[s] = Nobody
  /\ activeUsers[a] = Nobody
  /\ authByIp[IpOf[s]] < MaxAuthenticatedPerIp

\* admitReservation: the seat that is held, or the one kept for a reconnection.
\* A seat kept for a resume and one that is resumed are both "away" and
\* "pending" here; Room.tla tells them apart.
Admits(a) == place[a] \in {"held", "away"}

\* consumeWhen deletes the ticket it admitted; and one that keeps it.
Kept(t) == ticketState
Consumed(t) == [ticketState EXCEPT ![t] = "gone"]

\* authenticate after its first wait. A refused ticket stays usable.
Authenticate(s) ==
  LET t == presented[s]
      a == OwnerOf[t]
      ip == IpOf[s]
      lets == ticketState[t] = "live" /\ CanAuthenticate(s, a) /\ Admits(a)
  IN  /\ auth[s] = "looking"
      /\ auth' = [auth EXCEPT ![s] = IF lets THEN "admitted" ELSE "refused"]
      /\ IF lets
         THEN /\ ticketState' = Consumed(t)
              /\ place' = [place EXCEPT ![a] = "pending"]
              /\ record' = [record EXCEPT ![s] = a]
              /\ unauthByIp' = [unauthByIp EXCEPT ![ip] = @ - 1]
              /\ authByIp' = [authByIp EXCEPT ![ip] = @ + 1]
              /\ activeUsers' = [activeUsers EXCEPT ![a] = s]
              /\ admittedBy' = [admittedBy EXCEPT ![t] = @ \cup {s}]
         ELSE UNCHANGED <<ticketState, place, record, unauthByIp, authByIp, activeUsers,
                          admittedBy>>
      /\ UNCHANGED <<ready, presented, boundTo, reserved>>

\* The handler after the second wait binds the connection only while the socket
\* is open; and one that does not look again.
NeverClosed(s) == TRUE
StillOpen(s) == ready[s] = "open"

\* The rest of the handler: refused or closed meanwhile, an error and a close;
\* otherwise onConnect, whose exception also closes the socket.
Answer(s) ==
  LET a == OwnerOf[presented[s]]
      lets == auth[s] = "admitted" /\ StillOpen(s)
      binds == lets /\ place[a] = "pending"
  IN  /\ auth[s] \in {"admitted", "refused"}
      /\ auth' = [auth EXCEPT ![s] = IF lets THEN "done" ELSE "idle"]
      /\ presented' = IF lets THEN presented ELSE [presented EXCEPT ![s] = Nobody]
      /\ ready' = [ready EXCEPT ![s] = IF @ = "open" /\ ~binds THEN "closing" ELSE @]
      /\ place' = [place EXCEPT ![a] = IF binds THEN "bound" ELSE @]
      /\ boundTo' = [boundTo EXCEPT ![a] = IF binds THEN s ELSE @]
      /\ UNCHANGED <<record, ticketState, reserved, admittedBy>> /\ UNCHANGED ipVars

\* The auth timeout, a frame the protocol forbids, backpressure, or the peer:
\* whatever begins to close the socket.
BeginClose(s) ==
  /\ ready[s] = "open"
  /\ ready' = [ready EXCEPT ![s] = "closing"]
  /\ UNCHANGED <<record, auth, presented>> /\ UNCHANGED ipVars /\ UNCHANGED roomVars

\* ConnectionManager.close.
UserFreed(s) ==
  [a \in Actor |-> IF record[s] = a /\ activeUsers[a] = s THEN Nobody ELSE activeUsers[a]]

\* The close event. onDisconnect follows only for an authenticated socket, and
\* the room ignores it unless the seat is bound to that socket.
CloseEvent(s) ==
  LET ip == IpOf[s]
      a == OwnerOf[presented[s]]
      leaves == auth[s] = "done" /\ boundTo[a] = s
  IN  /\ ready[s] \in {"open", "closing"}
      /\ ready' = [ready EXCEPT ![s] = "closed"]
      /\ record' = [record EXCEPT ![s] = "none"]
      /\ unauthByIp' = [unauthByIp EXCEPT ![ip] = IF record[s] = Nobody THEN @ - 1 ELSE @]
      /\ authByIp' = [authByIp EXCEPT ![ip] = IF record[s] \in Actor THEN @ - 1 ELSE @]
      /\ activeUsers' = UserFreed(s)
      /\ place' = IF leaves THEN [place EXCEPT ![a] = "away"] ELSE place
      /\ boundTo' = IF leaves THEN [boundTo EXCEPT ![a] = Nobody] ELSE boundTo
      /\ UNCHANGED <<auth, presented, ticketState, reserved, admittedBy>>

ConnectionsNext ==
  \/ \E t \in Ticket : IssueTicket(t) \/ TicketExpires(t)
  \/ \E a \in Actor : SeatExpires(a) \/ Dismiss(a)
  \/ \E s \in Socket : \/ AcceptSocket(s)
                       \/ \E t \in Ticket : Presents(s, t)
                       \/ Authenticate(s) \/ Answer(s)
                       \/ BeginClose(s) \/ CloseEvent(s)

ConnectionsSpec == ConnectionsInit /\ [][ConnectionsNext]_connectionVars

-----------------------------------------------------------------------------
\* A ticket lets at most one socket in, however many present it and whatever
\* became of the first (ticket-store.ts consumeWhen).
OneSocketPerTicket == \A t \in Ticket : Cardinality(admittedBy[t]) <= 1

\* The seat the room believes connected is bound to a socket that still has its
\* record, under that very user, so that its close event will reach the room
\* (ws-transport.ts acceptSocket, room.ts bindConnection).
BoundSeatsHaveTheirSocket ==
  \A a \in Actor : place[a] = "bound" =>
    /\ boundTo[a] \in Socket
    /\ record[boundTo[a]] = a
    /\ ready[boundTo[a]] \in {"open", "closing"}

\* The limits are counted on what really is connected: the counters per address
\* and the table of active users agree with the records
\* (connection-manager.ts authenticate, close).
CountersMatchTheSockets ==
  /\ \A i \in Ip :
       /\ unauthByIp[i] = Cardinality({s \in Socket : IpOf[s] = i /\ record[s] = Nobody})
       /\ authByIp[i] = Cardinality({s \in Socket : IpOf[s] = i /\ record[s] \in Actor})
  /\ \A a \in Actor :
       {s \in Socket : record[s] = a} = {activeUsers[a]} \ {Nobody}

\* Tickets, seats and counters all agree with the sockets that exist, in whatever
\* order they authenticate, are replaced, time out and close (ws-transport.ts).
SocketsAreAccountedFor ==
  /\ ConnectionsTypeOK
  /\ OneSocketPerTicket
  /\ BoundSeatsHaveTheirSocket
  /\ CountersMatchTheSockets

=============================================================================
