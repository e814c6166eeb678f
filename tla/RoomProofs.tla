-------------------------- MODULE RoomProofs ---------------------------
(***************************************************************************)
(* One room is sound for any users, seats, games and kicks: what Room.tla  *)
(* says of its roster and of its game, proved from an inductive invariant. *)
(***************************************************************************)
EXTENDS Room, FiniteSetTheorems, WellFoundedInduction, TLAPS

-----------------------------------------------------------------------------
(* The inductive invariant.                                                  *)

\* A number has one owner: nobody has a hold and a seat, or a number of somebody else.
NumbersInv ==
  /\ \A u \in User : held[u] # Nowhere => seat[u] = Nowhere
  /\ \A u, v \in User : u # v =>
       /\ seat[u] # Nowhere => seat[u] # seat[v] /\ seat[u] # held[v]
       /\ held[u] # Nowhere => held[u] # held[v]

\* Whoever has a connection, or flags of the current game, is a member.
MembersInv ==
  /\ \A u \in User : conn[u] # "none" => seat[u] # Nowhere
  /\ eligible \subseteq inGame
  /\ \A u \in inGame : seat[u] # Nowhere

\* From the countdown on a locked number is promised to nobody and is its player's.
LockInv ==
  phase \in {"Countdown", "Playing"} =>
    /\ \A u \in User : held[u] \notin snapshot
    /\ \A u \in User : seat[u] \in snapshot => u = lockedUser[seat[u]]
    /\ \A s \in snapshot : session = "running" => identity[s] \in {lockedUser[s], NoUser}

KickInv == \A u \in kicked : seat[u] = Nowhere /\ held[u] = Nowhere

\* joinedOrder orders the members.
SeniorityInv ==
  /\ \A u \in User : seniors[u] \subseteq Members
  /\ \A u, v \in User : u \in seniors[v] => v \notin seniors[u] /\ seniors[u] \subseteq seniors[v]
  /\ \A u, v \in Members : u = v \/ u \in seniors[v] \/ v \in seniors[u]

\* A game is counted before its countdown; until its result is out no other is granted.
PhaseInv ==
  /\ played = 0 => session = "none" /\ phase \in {"Allocating", "Waiting", "Closed"}
  /\ phase \in {"Countdown", "Playing"} \/ session = "saving" => ~granted /\ ~reported
  /\ phase = "Countdown" => session = "none"

\* A room is frozen while it waits, with no game left to save.
FrozenInv == frozen => phase \in {"Waiting", "Closed"} /\ session = "none"

\* In a running game: who plays is who has a locked number, who is out is dead, who is
\* not is alive, and everybody else waits.
PlayInv ==
  phase = "Playing" =>
    \A u \in User : seat[u] # Nowhere =>
      /\ u \in inGame <=> seat[u] \in snapshot
      /\ u \in inGame /\ u \notin eligible => seat[u] \in alive
      /\ u \in eligible => seat[u] \notin alive
      /\ u \notin inGame => role[u] = "Waiting"

RoomInv ==
  /\ TypeOK /\ NumbersInv /\ MembersInv /\ LockInv /\ KickInv /\ SeniorityInv /\ SomebodyHosts
  /\ SessionFollowsTheRoom /\ PhaseInv /\ FrozenInv /\ PlayInv

\* The invariant gives what the room promises: the same facts, in the words of the lobby.
LEMMA RoomInvIsSound ==
  ASSUME RoomInv
  PROVE  RoomIsSound
<1> USE RoomAssumption DEF Members, Holders, Nowhere
<1>1. SeatsAreExclusive
  <2> SUFFICES ASSUME NEW u \in Members \cup Holders, NEW v \in Members \cup Holders,
                      Held(u) = Held(v), u # v
               PROVE  FALSE
    BY DEF SeatsAreExclusive
  <2> QED
    BY DEF RoomInv, NumbersInv, Held
<1>2. LockedNumbersKeepTheirPlayer
  <2> SUFFICES ASSUME phase \in {"Countdown", "Playing"}, NEW s \in snapshot
               PROVE  /\ \A u \in Members \cup Holders : Held(u) = s => u = lockedUser[s]
                      /\ session = "running" => identity[s] \in {lockedUser[s], NoUser}
    BY DEF LockedNumbersKeepTheirPlayer
  <2> QED
    BY DEF RoomInv, LockInv, Held
<1>3. KickedHaveNoSeat
  BY DEF RoomInv, KickInv, KickedHaveNoSeat
<1>4. VisionMatchesTheWorld
  <2> SUFFICES ASSUME NEW u \in User
               PROVE  /\ Access(u) = "unfiltered" =>
                           seat[u] \in snapshot \ alive /\ lockedUser[seat[u]] = u
                      /\ Access(u) = "filtered" \/ Steers(u) => seat[u] \in alive /\ u \in inGame
    BY DEF VisionMatchesTheWorld
  <2>1. ASSUME phase = "Playing", conn[u] = "online"
        PROVE  /\ u \in inGame <=> seat[u] \in snapshot
               /\ u \in inGame /\ u \notin eligible => seat[u] \in alive
               /\ u \in eligible => u \in inGame /\ seat[u] \notin alive
               /\ u \notin inGame => role[u] = "Waiting"
               /\ seat[u] \in snapshot => u = lockedUser[seat[u]]
    BY <2>1 DEF RoomInv, MembersInv, PlayInv, LockInv
  <2>2. Access(u) = "unfiltered" =>
          /\ phase = "Playing" /\ conn[u] = "online" /\ u \in eligible
    BY DEF Access
  <2>3. Access(u) = "filtered" =>
          /\ phase = "Playing" /\ conn[u] = "online" /\ u \in inGame /\ u \notin eligible
    BY DEF Access
  <2>4. Steers(u) => /\ phase = "Playing" /\ conn[u] = "online" /\ role[u] = "Player"
                     /\ u \notin eligible
    BY DEF Steers
  <2>5. Access(u) = "unfiltered" => seat[u] \in snapshot \ alive /\ lockedUser[seat[u]] = u
    BY <2>1, <2>2
  <2>6. Access(u) = "filtered" => seat[u] \in alive /\ u \in inGame
    BY <2>1, <2>3
  <2>7. Steers(u) => seat[u] \in alive /\ u \in inGame
    BY <2>1, <2>4
  <2> QED
    BY <2>5, <2>6, <2>7
<1> QED
  BY <1>1, <1>2, <1>3, <1>4 DEF RoomInv, RoomIsSound, RosterIsSound, GameMatchesTheLobby

-----------------------------------------------------------------------------
(* The two choices the lobby makes.                                          *)

\* A set of numbers that is not empty has a first one.
LEMMA FirstNumber ==
  ASSUME NEW T, T \subseteq Nat, T # {}
  PROVE  \E s \in T : \A t \in T : s <= t
<1>1. PICK s \in T : \A t \in T : ~ (<<t, s>> \in OpToRel(<, Nat))
  BY NatLessThanWellFounded, WFMin
<1>2. \A t \in T : ~ (t < s)
  BY <1>1 DEF OpToRel
<1> QED
  BY <1>2

\* #firstFreeSeat finds a number that nobody has and no game has locked.
LEMMA FirstFree ==
  ASSUME NEW blocked, FreeSeats(blocked) # {}
  PROVE  /\ FirstFreeSeat(blocked) \in Seat \ blocked
         /\ \A u \in User : held[u] # FirstFreeSeat(blocked) /\ seat[u] # FirstFreeSeat(blocked)
<1>1. FreeSeats(blocked) \subseteq Nat
  BY RoomAssumption DEF FreeSeats, Seat
<1>2. \E s \in FreeSeats(blocked) : \A t \in FreeSeats(blocked) : s <= t
  BY <1>1, FirstNumber
<1>3. FirstFreeSeat(blocked) \in FreeSeats(blocked)
  BY <1>2 DEF FirstFreeSeat
<1> QED
  BY <1>3 DEF FreeSeats

\* Among members who stay, somebody joined before all others who stay.
LEMMA SomebodyIsSenior ==
  ASSUME TypeOK, SeniorityInv, NEW gone, Members \ gone # {}
  PROVE  \E u \in Members \ gone : seniors[u] \subseteq gone
<1> DEFINE left == Members \ gone
           T == {Cardinality(seniors[u]) : u \in left}
<1>1. \A u \in User : IsFiniteSet(seniors[u]) /\ Cardinality(seniors[u]) \in Nat
  BY RoomAssumption, FS_Subset, FS_CardinalityType DEF TypeOK
<1>2. left \subseteq User
  BY DEF Members
<1>3. T \subseteq Nat /\ T # {}
  BY <1>1, <1>2
<1>4. \E n \in T : \A m \in T : n <= m
  <2> HIDE DEF T
  <2> QED
    BY <1>3, FirstNumber
<1>5. PICK u \in left : \A v \in left : Cardinality(seniors[u]) <= Cardinality(seniors[v])
  BY <1>4
<1>6. ASSUME NEW v \in seniors[u], v \notin gone
      PROVE  FALSE
  <2>1. v \in left /\ v \in User /\ u \in User
    BY <1>2, <1>6 DEF SeniorityInv
  <2>2. seniors[v] \subseteq seniors[u] /\ v \notin seniors[v]
    BY <1>6, <2>1 DEF SeniorityInv
  <2>3. Cardinality(seniors[v]) <= Cardinality(seniors[u]) /\ seniors[v] # seniors[u]
    BY <1>1, <1>6, <2>1, <2>2, FS_Subset
  <2>4. Cardinality(seniors[v]) # Cardinality(seniors[u])
    BY <1>1, <2>1, <2>2, <2>3, FS_Subset
  <2> QED
    BY <1>1, <1>5, <2>1, <2>3, <2>4
<1> QED
  BY <1>5, <1>6

\* LobbyRoster.remove: the next host is a member who stays, if there is one.
LEMMA Heir ==
  ASSUME TypeOK, SeniorityInv, NEW gone \in SUBSET User
  PROVE  /\ NextHost(gone) \in User \cup {NoUser}
         /\ host \in Members /\ Members \ gone # {} => NextHost(gone) \in Members \ gone
         /\ host = NoUser => NextHost(gone) = NoUser
<1>1. CASE host \notin gone
  BY <1>1 DEF NextHost, TypeOK
<1>2. CASE host \in gone /\ Members \ gone = {}
  BY <1>2, RoomAssumption DEF NextHost, TypeOK
<1>3. CASE host \in gone /\ Members \ gone # {}
  <2>1. \E u \in Members \ gone : seniors[u] \subseteq gone
    BY <1>3, SomebodyIsSenior
  <2>2. NextHost(gone) = CHOOSE u \in Members \ gone : seniors[u] \subseteq gone
    BY <1>3 DEF NextHost
  <2>3. NextHost(gone) \in Members \ gone
    BY <2>1, <2>2
  <2> QED
    BY <1>3, <2>3, RoomAssumption DEF Members
<1> QED
  BY <1>1, <1>2, <1>3

-----------------------------------------------------------------------------
(* How a room begins.                                                        *)
LEMMA RoomInvInit == Init => RoomInv
<1> SUFFICES ASSUME Init PROVE RoomInv
  OBVIOUS
<1> USE RoomAssumption DEF Nowhere, Members
<1>1. InitCommon
  BY DEF Init
<1>2. CASE Created
  <2>1. PICK owner \in User : held = [u \in User |-> IF u = owner THEN 1 ELSE Nowhere]
    BY <1>2 DEF Created
  <2>a. held \in [User -> Seat \cup {Nowhere}]
    BY <2>1 DEF Seat
  <2>b. /\ phase = "Allocating" /\ locked = FALSE /\ host = NoUser /\ played \in 0..MaxGames
        /\ granted = FALSE /\ reported = FALSE
    BY <1>2 DEF Created
  <2>c. seat \in [User -> Seat \cup {Nowhere}] /\ conn \in [User -> Conn]
        /\ seniors \in [User -> SUBSET User]
    BY <1>2 DEF Created, Conn
  <2>2. TypeOK
    BY <1>1, <2>a, <2>b, <2>c DEF InitCommon, TypeOK, Phase, Role, Session, NoIdentity
  <2>3. NumbersInv /\ MembersInv /\ KickInv
    BY <1>1, <1>2, <2>1 DEF Created, InitCommon, NumbersInv, MembersInv, KickInv
  <2>4. SeniorityInv /\ SomebodyHosts
    BY <1>1, <1>2 DEF Created, InitCommon, SeniorityInv, SomebodyHosts
  <2>5. SessionFollowsTheRoom /\ PhaseInv /\ FrozenInv /\ PlayInv /\ LockInv
    BY <1>1, <1>2 DEF Created, InitCommon, SessionFollowsTheRoom, PhaseInv, FrozenInv, PlayInv,
                      LockInv
  <2> QED
    BY <2>2, <2>3, <2>4, <2>5 DEF RoomInv
<1>3. CASE Adopted
  <2>1. PICK us \in SUBSET User :
          /\ us # {} /\ seat \in [User -> Seat \cup {Nowhere}] /\ Members = us
          /\ \A u, v \in us : seat[u] = seat[v] => u = v
          /\ conn = [u \in User |-> IF u \in us THEN "away" ELSE "none"]
          /\ seniors \in Orders(us) /\ host \in us
    BY <1>3 DEF Adopted
  <2>2. played \in 0..MaxGames /\ granted \in BOOLEAN /\ reported \in BOOLEAN
    BY <1>3 DEF Adopted
  <2>3. /\ phase = "Waiting" /\ locked \in BOOLEAN /\ held = [u \in User |-> Nowhere]
    BY <1>3 DEF Adopted
  <2>4. TypeOK
    BY <1>1, <2>1, <2>2, <2>3
       DEF InitCommon, TypeOK, Phase, Conn, Role, Session, Seat, NoIdentity, Orders
  <2>5. NumbersInv /\ MembersInv /\ KickInv
    BY <1>1, <2>1, <2>3 DEF InitCommon, NumbersInv, MembersInv, KickInv
  <2>6. SeniorityInv
    <3>1. \A u \in User : seniors[u] \subseteq us /\ (u \notin us => seniors[u] = {})
      BY <2>1 DEF Orders
    <3>2. \A u, v \in us : u \in seniors[v] => v \notin seniors[u] /\ seniors[u] \subseteq seniors[v]
      BY <2>1 DEF Orders
    <3>3. \A u, v \in us : u = v \/ u \in seniors[v] \/ v \in seniors[u]
      BY <2>1 DEF Orders
    <3> QED
      BY <2>1, <3>1, <3>2, <3>3 DEF SeniorityInv
  <2>7. SomebodyHosts
    BY <2>1, <2>3 DEF SomebodyHosts
  <2>8. SessionFollowsTheRoom /\ PhaseInv /\ FrozenInv /\ PlayInv /\ LockInv
    BY <1>1, <2>3 DEF InitCommon, SessionFollowsTheRoom, PhaseInv, FrozenInv, PlayInv, LockInv
  <2> QED
    BY <2>4, <2>5, <2>6, <2>7, <2>8 DEF RoomInv
<1> QED
  BY <1>2, <1>3 DEF Init

-----------------------------------------------------------------------------
(* Coming in.                                                                *)
LEMMA ReserveJoinKeeps ==
  ASSUME RoomInv, NEW u \in User, ReserveJoin(u)
  PROVE  RoomInv'
<1> USE RoomAssumption DEF Nowhere, Members, Holders
<1> DEFINE s == FirstFreeSeat(Blocked)
<1>1. /\ s \in Seat \ Blocked /\ s # Nowhere
      /\ \A v \in User : held[v] # s /\ seat[v] # s
  BY FirstFree DEF ReserveJoin, Seat
<1>2. /\ held' = [held EXCEPT ![u] = s]
      /\ u \notin kicked /\ seat[u] = Nowhere /\ phase \in {"Waiting", "Playing"}
  BY DEF ReserveJoin
<1>3. UNCHANGED <<phase, frozen, locked, seat, conn, role, eligible, inGame, seniors, host,
                  kicked, snapshot, alive, identity, session, played, granted, reported, lockedUser>>
  BY DEF ReserveJoin, gameVars, matchVars
<1> HIDE DEF s
<1>4. TypeOK'
  BY <1>1, <1>2, <1>3 DEF RoomInv, TypeOK
<1>5. /\ held \in [User -> Seat \cup {Nowhere}]
      /\ \A v \in User : held'[v] = IF v = u THEN s ELSE held[v]
  BY <1>2 DEF RoomInv, TypeOK
<1>6. NumbersInv'
  BY <1>1, <1>2, <1>3, <1>5 DEF RoomInv, NumbersInv
<1>7. LockInv' /\ KickInv'
  BY <1>1, <1>2, <1>3, <1>5 DEF RoomInv, LockInv, KickInv, Blocked, TypeOK
<1>8. MembersInv' /\ SeniorityInv' /\ SomebodyHosts'
  BY <1>3 DEF RoomInv, MembersInv, SeniorityInv, SomebodyHosts
<1>9. SessionFollowsTheRoom' /\ PhaseInv' /\ FrozenInv' /\ PlayInv'
  BY <1>3 DEF RoomInv, SessionFollowsTheRoom, PhaseInv, FrozenInv, PlayInv
<1> QED
  BY <1>4, <1>6, <1>7, <1>8, <1>9 DEF RoomInv

LEMMA AdmitKeeps ==
  ASSUME RoomInv, NEW u \in User, Admit(u)
  PROVE  RoomInv'
<1> USE RoomAssumption DEF Nowhere, Members
<1>1. /\ held[u] # Nowhere /\ held[u] \in Seat /\ seat[u] = Nowhere
      /\ phase \in {"Allocating", "Waiting", "Playing"} /\ ~frozen
      /\ phase' = IF phase = "Allocating" THEN "Waiting" ELSE phase
      /\ host' = IF host = NoUser THEN u ELSE host
      /\ inGame' = IF phase = "Playing" THEN inGame ELSE inGame \cup {u}
  BY DEF Admit, RoomInv, TypeOK, NumbersInv
<1>2. UNCHANGED <<frozen, locked, eligible, kicked, snapshot, alive, identity, session, played,
                  granted, reported, lockedUser>>
  BY DEF Admit, gameVars, matchVars
<1>3. \A v \in User :
        /\ seat'[v] = IF v = u THEN held[u] ELSE seat[v]
        /\ held'[v] = IF v = u THEN Nowhere ELSE held[v]
        /\ conn'[v] = IF v = u THEN "pending" ELSE conn[v]
        /\ role'[v] = IF v = u THEN (IF phase = "Playing" THEN "Waiting" ELSE "Player") ELSE role[v]
        /\ seniors'[v] = IF v = u THEN Members ELSE seniors[v]
  BY DEF Admit, RoomInv, TypeOK
<1>4. TypeOK'
  BY <1>1, <1>2 DEF Admit, RoomInv, TypeOK, Phase, Conn, Role
<1>5. NumbersInv' /\ KickInv'
  <2>0. /\ \A v \in User : held[v] # Nowhere => seat[v] = Nowhere
        /\ \A v, w \in User : v # w =>
             /\ seat[v] # Nowhere => seat[v] # seat[w] /\ seat[v] # held[w]
             /\ held[v] # Nowhere => held[v] # held[w]
    BY DEF RoomInv, NumbersInv
  <2>n. \A v \in User : /\ seat'[v] = IF v = u THEN held[u] ELSE seat[v]
                        /\ held'[v] = IF v = u THEN Nowhere ELSE held[v]
    BY <1>3
  <2>m. held[u] # Nowhere /\ seat[u] = Nowhere
    BY <1>1
  <2>a. \A a \in User : held'[a] # Nowhere => seat'[a] = Nowhere
    BY <2>0, <2>n
  <2>b. ASSUME NEW a \in User, NEW b \in User, a # b
        PROVE  /\ seat'[a] # Nowhere => seat'[a] # seat'[b] /\ seat'[a] # held'[b]
               /\ held'[a] # Nowhere => held'[a] # held'[b]
    <3>1. CASE a = u
      BY <2>0, <2>n, <2>m, <2>b, <3>1
    <3>2. CASE b = u
      BY <2>0, <2>n, <2>m, <2>b, <3>2
    <3>3. CASE a # u /\ b # u
      BY <2>0, <2>n, <2>b, <3>3
    <3> QED
      BY <3>1, <3>2, <3>3
  <2>1. NumbersInv'
    BY <2>a, <2>b DEF NumbersInv
  <2>2. u \notin kicked /\ kicked' = kicked /\ kicked \subseteq User
    BY <1>1, <1>2 DEF RoomInv, KickInv, TypeOK
  <2>3. KickInv'
    BY <1>3, <2>2 DEF RoomInv, KickInv
  <2> QED
    BY <2>1, <2>3
<1>6. MembersInv'
  BY <1>1, <1>2, <1>3 DEF RoomInv, MembersInv, TypeOK
<1>7. LockInv'
  <2> SUFFICES ASSUME phase' = "Playing" PROVE LockInv'
    BY <1>1 DEF LockInv
  <2>1. phase = "Playing"
    BY <1>1
  <2>2. Nowhere \notin snapshot /\ held[u] \notin snapshot
    BY <2>1 DEF RoomInv, LockInv, TypeOK, Seat
  <2>3. \A v \in User : held'[v] \notin snapshot'
    BY <1>2, <1>3, <2>1, <2>2 DEF RoomInv, LockInv
  <2>4. \A v \in User : seat'[v] \in snapshot' => v = lockedUser'[seat'[v]]
    BY <1>2, <1>3, <2>1, <2>2 DEF RoomInv, LockInv
  <2> QED
    BY <1>2, <2>1, <2>3, <2>4 DEF RoomInv, LockInv
<1>8. SeniorityInv'
  <2>1. Members' = Members \cup {u} /\ u \notin Members
    BY <1>1, <1>3
  <2>2. \A v \in User : u \notin seniors[v]
    BY <2>1 DEF RoomInv, SeniorityInv
  <2>3. \A v \in User : seniors'[v] \subseteq Members'
    BY <1>3, <2>1 DEF RoomInv, SeniorityInv
  <2>4. ASSUME NEW a \in User, NEW b \in User, a \in seniors'[b]
        PROVE  b \notin seniors'[a] /\ seniors'[a] \subseteq seniors'[b]
    <3> HIDE DEF Members
    <3> QED
      BY <1>3, <2>1, <2>2, <2>4 DEF RoomInv, SeniorityInv
  <2>5. \A a, b \in Members' : a = b \/ a \in seniors'[b] \/ b \in seniors'[a]
    <3>1. Members \subseteq User
      OBVIOUS
    <3> HIDE DEF Members
    <3> QED
      BY <1>3, <2>1, <3>1 DEF RoomInv, SeniorityInv
  <2> QED
    BY <2>3, <2>4, <2>5 DEF SeniorityInv
<1>9. SomebodyHosts'
  BY <1>1, <1>3 DEF RoomInv, SomebodyHosts, TypeOK
<1>10. SessionFollowsTheRoom' /\ FrozenInv'
  BY <1>1, <1>2 DEF RoomInv, SessionFollowsTheRoom, FrozenInv
<1>11. PhaseInv'
  BY <1>1, <1>2 DEF RoomInv, PhaseInv
<1>12. PlayInv'
  BY <1>1, <1>2, <1>3 DEF RoomInv, PlayInv, LockInv, MembersInv
<1> QED
  BY <1>4, <1>5, <1>6, <1>7, <1>8, <1>9, <1>10, <1>11, <1>12 DEF RoomInv

\* Sockets that come and go, the host's place, the lock, the spectators and the grant
\* touch no number and no world.
LEMMA SocketsKeep ==
  ASSUME RoomInv, NEW u \in User, AdmitResume(u) \/ Bind(u)
  PROVE  RoomInv'
<1> USE DEF Nowhere, Members
<1>1. UNCHANGED <<phase, frozen, locked, held, seat, role, eligible, inGame, seniors, host,
                  kicked, snapshot, alive, identity, session, played, granted, reported, lockedUser>>
  BY DEF AdmitResume, Bind, gameVars, matchVars
<1>2. conn' \in [User -> Conn] /\ \A v \in User : conn'[v] # "none" => conn[v] # "none"
  BY DEF AdmitResume, Bind, RoomInv, TypeOK, Conn
<1>3. TypeOK' /\ MembersInv'
  BY <1>1, <1>2 DEF RoomInv, TypeOK, MembersInv
<1>4. NumbersInv' /\ LockInv' /\ KickInv' /\ SeniorityInv' /\ SomebodyHosts'
  BY <1>1 DEF RoomInv, NumbersInv, LockInv, KickInv, SeniorityInv, SomebodyHosts
<1>5. SessionFollowsTheRoom' /\ PhaseInv' /\ FrozenInv' /\ PlayInv'
  BY <1>1 DEF RoomInv, SessionFollowsTheRoom, PhaseInv, FrozenInv, PlayInv
<1> QED
  BY <1>3, <1>4, <1>5 DEF RoomInv

-----------------------------------------------------------------------------
(* Going out.                                                                *)

\* Removing members and holds leaves the numbers distinct, the rest in order, and a
\* host among those who stay (lobby-state.ts remove).
LEMMA RemovalKeeps ==
  ASSUME RoomInv, NEW gone \in SUBSET User,
         seat' = Without(seat, gone, Nowhere), seniors' = SeniorsWithout(gone),
         host' = NextHost(gone),
         \A v \in User : held'[v] \in {held[v], Nowhere}
  PROVE  /\ seat' \in [User -> Seat \cup {Nowhere}]
         /\ seniors' \in [User -> SUBSET User] /\ host' \in User \cup {NoUser}
         /\ Members' = Members \ gone
         /\ NumbersInv' /\ SeniorityInv'
         /\ host \in Members /\ Members' # {} => host' \in Members'
         /\ host = NoUser => host' = NoUser
<1>1. \A v \in User : seat'[v] = IF v \in gone THEN Nowhere ELSE seat[v]
  BY DEF Without
<1>2. \A v \in User : seniors'[v] = IF v \in gone THEN {} ELSE seniors[v] \ gone
  BY DEF SeniorsWithout
<1>3. seat' \in [User -> Seat \cup {Nowhere}]
  BY DEF Without, RoomInv, TypeOK
<1>4. seniors' \in [User -> SUBSET User]
  BY DEF SeniorsWithout, RoomInv, TypeOK
<1>5. Members' = Members \ gone
  BY <1>1 DEF Members
<1>6. host' \in User \cup {NoUser}
      /\ (host \in Members /\ Members' # {} => host' \in Members')
      /\ (host = NoUser => host' = NoUser)
  BY <1>5, Heir DEF RoomInv
<1>7. NumbersInv'
  <2>1. /\ \A v \in User : held[v] # Nowhere => seat[v] = Nowhere
        /\ \A v, w \in User : v # w =>
             /\ seat[v] # Nowhere => seat[v] # seat[w] /\ seat[v] # held[w]
             /\ held[v] # Nowhere => held[v] # held[w]
    BY DEF RoomInv, NumbersInv
  <2>2. \A v \in User : seat'[v] \in {seat[v], Nowhere} /\ held'[v] \in {held[v], Nowhere}
    BY <1>1
  <2>3. \A v \in User : held'[v] # Nowhere => seat'[v] = Nowhere
    BY <2>1, <2>2
  <2>4. ASSUME NEW a \in User, NEW b \in User, a # b
        PROVE  /\ seat'[a] # Nowhere => seat'[a] # seat'[b] /\ seat'[a] # held'[b]
               /\ held'[a] # Nowhere => held'[a] # held'[b]
    BY <2>1, <2>2, <2>4
  <2> QED
    BY <2>3, <2>4 DEF NumbersInv
<1>8. SeniorityInv'
  <2>1. /\ \A u \in User : seniors[u] \subseteq Members
        /\ \A u, v \in User : u \in seniors[v] =>
             v \notin seniors[u] /\ seniors[u] \subseteq seniors[v]
        /\ \A u, v \in Members : u = v \/ u \in seniors[v] \/ v \in seniors[u]
    BY DEF RoomInv, SeniorityInv
  <2>2. Members \subseteq User
    BY DEF Members
  <2>0. ASSUME NEW u \in User, NEW x
        PROVE  x \in seniors'[u] <=> u \notin gone /\ x \in seniors[u] /\ x \notin gone
    <3>1. CASE u \in gone
      BY <1>2, <3>1
    <3>2. CASE u \notin gone
      <4>1. seniors'[u] = seniors[u] \ gone
        BY <1>2, <3>2
      <4> QED
        BY <3>2, <4>1
    <3> QED
      BY <3>1, <3>2
  <2>3. \A u \in User : seniors'[u] \subseteq Members'
    BY <1>5, <2>0, <2>1
  <2>4. ASSUME NEW u \in User, NEW v \in User, u \in seniors'[v]
        PROVE  v \notin seniors'[u] /\ seniors'[u] \subseteq seniors'[v]
    BY <2>0, <2>1, <2>4
  <2>5. \A u, v \in Members' : u = v \/ u \in seniors'[v] \/ v \in seniors'[u]
    BY <1>5, <2>0, <2>1, <2>2
  <2> QED
    BY <2>3, <2>4, <2>5 DEF SeniorityInv
<1> QED
  BY <1>3, <1>4, <1>5, <1>6, <1>7, <1>8

\* What a death, and a room that empties, do to game and phase: nothing begins, and what
\* ends is saved (game-lifecycle.ts eliminateDisconnected, room.ts close).
LEMMA Settled ==
  ASSUME RoomInv, NEW dead, NEW left, KillAndSettle(dead, left), UNCHANGED matchVars
  PROVE  /\ phase' \in {phase, "PostGame", "Closed"} /\ session' \in Session
         /\ alive' \subseteq alive
         /\ left = {} => phase' = "Closed"
         /\ phase' = "PostGame" => phase \in {"PostGame", "Playing"}
         /\ phase' = "Playing" => phase = "Playing" /\ alive' = alive \ dead
         /\ session' = "running" => session = "running"
         /\ SessionFollowsTheRoom' /\ PhaseInv'
         /\ UNCHANGED <<snapshot, identity>>
<1> DEFINE killed == session = "running" /\ dead \cap alive # {}
           rest == IF killed THEN alive \ dead ELSE alive
           ended == killed /\ MatchOver(rest)
<1>1. /\ alive' = rest
      /\ phase' = IF left = {} THEN "Closed" ELSE IF ended THEN "PostGame" ELSE phase
      /\ session' = IF ended THEN "saving"
                    ELSE IF left = {} /\ session = "running" THEN "none" ELSE session
      /\ UNCHANGED <<snapshot, identity>>
  BY DEF KillAndSettle
<1>2. /\ session = "running" <=> phase = "Playing"
      /\ session = "saving" => phase \in {"PostGame", "Waiting", "Closed"} /\ ~ granted
      /\ session \in Session
  BY DEF RoomInv, SessionFollowsTheRoom, TypeOK
<1>3. /\ played = 0 => session = "none" /\ phase \in {"Allocating", "Waiting", "Closed"}
      /\ phase \in {"Countdown", "Playing"} \/ session = "saving" => ~granted /\ ~reported
      /\ phase = "Countdown" => session = "none"
  BY DEF RoomInv, PhaseInv
<1>4. played' = played /\ granted' = granted /\ reported' = reported
  BY DEF matchVars
<1>5. ended => session = "running"
  OBVIOUS
<1>6. rest \subseteq alive /\ (session = "running" => rest = alive \ dead)
  OBVIOUS
<1> HIDE DEF ended, rest, killed
<1>7. SessionFollowsTheRoom'
  BY <1>1, <1>2, <1>3, <1>4, <1>5 DEF SessionFollowsTheRoom, Session
<1>8. PhaseInv'
  BY <1>1, <1>2, <1>3, <1>4, <1>5 DEF PhaseInv, Session
<1> QED
  BY <1>1, <1>2, <1>5, <1>6, <1>7, <1>8 DEF Session

\* #removeMember: whoever leaves, is released or is kicked takes nothing with him but
\* his own number, body and flags.
LEMMA DepartKeeps ==
  ASSUME RoomInv, NEW u \in Members, ~frozen, Depart(u),
         kicked' \in {kicked, kicked \cup {u}}
  PROVE  RoomInv'
<1>1. u \in User /\ seat[u] # Nowhere /\ held[u] = Nowhere
  BY DEF Members, RoomInv, NumbersInv
<1>2. /\ seat' = Without(seat, {u}, Nowhere) /\ seniors' = SeniorsWithout({u})
      /\ host' = NextHost({u})
      /\ eligible' = eligible \ {u} /\ inGame' = inGame \ {u}
  BY DEF Depart, RemoveMembers
<1>3. \A v \in User : /\ seat'[v] = IF v = u THEN Nowhere ELSE seat[v]
                      /\ conn'[v] = IF v = u THEN "none" ELSE conn[v]
                      /\ role'[v] = IF v = u THEN "Player" ELSE role[v]
  BY DEF Depart, RemoveMembers, Without
<1>4. held' \in {held, [v \in User |-> Nowhere]}
  BY DEF Depart
<1>5. held' \in [User -> Seat \cup {Nowhere}] /\ \A v \in User : held'[v] \in {held[v], Nowhere}
  BY <1>4 DEF RoomInv, TypeOK
<1>6. conn' \in [User -> Conn] /\ role' \in [User -> Role]
  BY DEF Depart, RemoveMembers, Without, RoomInv, TypeOK, Conn, Role
<1>7. /\ KillAndSettle({seat[u]}, Members \ {u})
      /\ UNCHANGED <<frozen, locked, matchVars, lockedUser>>
  BY DEF Depart
<1>8. /\ seat' \in [User -> Seat \cup {Nowhere}]
      /\ seniors' \in [User -> SUBSET User] /\ host' \in User \cup {NoUser}
      /\ Members' = Members \ {u}
      /\ NumbersInv' /\ SeniorityInv'
      /\ host \in Members /\ Members' # {} => host' \in Members'
      /\ host = NoUser => host' = NoUser
  BY <1>1, <1>2, <1>5, RemovalKeeps
<1>9. /\ phase' \in {phase, "PostGame", "Closed"} /\ session' \in Session
      /\ alive' \subseteq alive
      /\ Members \ {u} = {} => phase' = "Closed"
      /\ phase' = "PostGame" => phase \in {"PostGame", "Playing"}
      /\ phase' = "Playing" => phase = "Playing" /\ alive' = alive \ {seat[u]}
      /\ session' = "running" => session = "running"
      /\ SessionFollowsTheRoom' /\ PhaseInv'
      /\ UNCHANGED <<snapshot, identity>>
  BY <1>7, Settled
<1>10. TypeOK'
  BY <1>1, <1>2, <1>5, <1>6, <1>7, <1>8, <1>9 DEF RoomInv, TypeOK, Phase, matchVars
<1>11. MembersInv'
  BY <1>1, <1>2, <1>3 DEF RoomInv, MembersInv, TypeOK
<1>12. LockInv'
  <2> SUFFICES ASSUME phase' \in {"Countdown", "Playing"} PROVE LockInv'
    BY DEF LockInv
  <2>1. phase \in {"Countdown", "Playing"} /\ Nowhere \notin snapshot
    BY <1>9 DEF RoomInv, TypeOK, Seat, Nowhere
  <2> QED
    BY <1>3, <1>5, <1>7, <1>9, <2>1 DEF RoomInv, LockInv
<1>13. KickInv'
  BY <1>1, <1>3, <1>5 DEF RoomInv, KickInv, TypeOK
<1>14. SomebodyHosts'
  BY <1>1, <1>8, <1>9 DEF RoomInv, SomebodyHosts
<1>15. FrozenInv'
  BY <1>7 DEF FrozenInv
<1>16. PlayInv'
  <2> SUFFICES ASSUME phase' = "Playing", NEW v \in User, seat'[v] # Nowhere
               PROVE  /\ v \in inGame' <=> seat'[v] \in snapshot'
                      /\ v \in inGame' /\ v \notin eligible' => seat'[v] \in alive'
                      /\ v \in eligible' => seat'[v] \notin alive'
                      /\ v \notin inGame' => role'[v] = "Waiting"
    BY DEF PlayInv
  <2>1. v # u /\ seat'[v] = seat[v] /\ seat[v] # seat[u] /\ role'[v] = role[v]
    BY <1>1, <1>3 DEF RoomInv, NumbersInv
  <2> QED
    BY <1>2, <1>9, <2>1 DEF RoomInv, PlayInv
<1> QED
  BY <1>8, <1>9, <1>10, <1>11, <1>12, <1>13, <1>14, <1>15, <1>16 DEF RoomInv

LEMMA LeavingKeeps ==
  ASSUME RoomInv, NEW u \in User,
         Leave(u) \/ (\E h \in User : Kick(h, u)) \/ ReleaseSeat(u) \/ ForceKick(u)
  PROVE  RoomInv'
<1>1. CASE Leave(u)
  <2>1. u \in Members
    BY <1>1 DEF Leave, Members, RoomInv, MembersInv
  <2>2. ~frozen /\ Depart(u) /\ kicked' = kicked
    BY <1>1 DEF Leave
  <2> QED
    BY <2>1, <2>2, DepartKeeps
<1>2. CASE \E h \in User : Kick(h, u)
  <2>1. u \in Members /\ ~frozen /\ Depart(u) /\ kicked' = kicked \cup {u}
    BY <1>2 DEF Kick
  <2> QED
    BY <2>1, DepartKeeps
<1>3. ASSUME \/ ForceKick(u) /\ u \notin Members
             \/ ReleaseSeat(u) /\ held[u] # Nowhere
      PROVE  RoomInv'
  <2>1. /\ held' = [held EXCEPT ![u] = Nowhere] /\ seat[u] = Nowhere
        /\ kicked' \in {kicked, kicked \cup {u}} /\ ~frozen
        /\ UNCHANGED <<frozen, locked, seat, conn, role, eligible, inGame, seniors, host,
                       gameVars, matchVars, lockedUser>>
    BY <1>3 DEF ForceKick, ReleaseSeat, Members, RoomInv, NumbersInv
  <2>2. UNCHANGED <<frozen, locked, seat, conn, role, eligible, inGame, seniors, host, snapshot,
                    alive, identity, session, played, granted, reported, lockedUser>>
    BY <2>1 DEF gameVars, matchVars
  <2>3. phase' = phase \/ (phase' = "Closed" /\ phase # "Playing")
    <3>1. CASE ForceKick(u) /\ u \notin Members
      BY <3>1 DEF ForceKick
    <3>2. CASE ReleaseSeat(u) /\ held[u] # Nowhere
      <4>1. phase' = IF Members \cup Holders = {u} THEN "Closed" ELSE phase
        BY <3>2 DEF ReleaseSeat
      <4>2. phase = "Playing" => host \in Members /\ host # u
        BY <3>2 DEF RoomInv, SomebodyHosts, NumbersInv, Members
      <4>3. phase = "Playing" => Members \cup Holders # {u}
        BY <4>2
      <4> QED
        BY <4>1, <4>3
    <3> QED
      BY <1>3, <3>1, <3>2
  <2>4. /\ held' \in [User -> Seat \cup {Nowhere}]
        /\ \A v \in User : held'[v] = IF v = u THEN Nowhere ELSE held[v]
    BY <2>1 DEF RoomInv, TypeOK
  <2>5. TypeOK'
    BY <2>1, <2>2, <2>3, <2>4 DEF RoomInv, TypeOK, Phase
  <2>6. NumbersInv'
    BY <2>2, <2>4 DEF RoomInv, NumbersInv
  <2>7. LockInv'
    BY <2>2, <2>3, <2>4 DEF RoomInv, LockInv, TypeOK, Seat, Nowhere
  <2>8. KickInv'
    BY <2>1, <2>2, <2>4 DEF RoomInv, KickInv, TypeOK
  <2>9. Members' = Members
    BY <2>2 DEF Members
  <2>10. MembersInv' /\ SeniorityInv' /\ SomebodyHosts'
    BY <2>2, <2>3, <2>9 DEF RoomInv, MembersInv, SeniorityInv, SomebodyHosts
  <2>11. SessionFollowsTheRoom' /\ PhaseInv' /\ FrozenInv' /\ PlayInv'
    BY <2>1, <2>2, <2>3 DEF RoomInv, SessionFollowsTheRoom, PhaseInv, FrozenInv, PlayInv
  <2> QED
    BY <2>5, <2>6, <2>7, <2>8, <2>10, <2>11 DEF RoomInv
<1>4. CASE ReleaseSeat(u) /\ held[u] = Nowhere
  <2>1. u \in Members /\ ~frozen /\ Depart(u) /\ kicked' = kicked
    BY <1>4 DEF ReleaseSeat
  <2> QED
    BY <2>1, DepartKeeps
<1>5. CASE ForceKick(u) /\ u \in Members
  <2>1. ~frozen /\ Depart(u) /\ kicked' = kicked \cup {u}
    BY <1>5 DEF ForceKick
  <2> QED
    BY <1>5, <2>1, DepartKeeps
<1> QED
  BY <1>1, <1>2, <1>3, <1>4, <1>5

\* A socket that closes: the seat stays, whoever was alive is out (onDisconnect).
LEMMA DisconnectKeeps ==
  ASSUME RoomInv, NEW u \in User, Disconnect(u)
  PROVE  RoomInv'
<1>1. /\ seat[u] # Nowhere /\ conn' = [conn EXCEPT ![u] = "away"] /\ phase # "Closed"
      /\ UNCHANGED <<frozen, locked, held, seat, inGame, seniors, host, kicked, played, granted,
                     reported, lockedUser>>
  BY DEF Disconnect, RoomInv, MembersInv, matchVars
<1>2. conn' \in [User -> Conn] /\ \A v \in User : conn'[v] # "none" => seat[v] # Nowhere
  BY <1>1 DEF RoomInv, TypeOK, MembersInv, Conn
<1>3. NumbersInv' /\ KickInv' /\ SeniorityInv' /\ Members' = Members /\ u \in Members
  BY <1>1 DEF RoomInv, NumbersInv, KickInv, SeniorityInv, Members
<1>4. CASE ~OutOnDisconnect(u)
  <2>1. UNCHANGED <<eligible, role, phase, snapshot, alive, identity, session>>
    BY <1>4 DEF Disconnect, gameVars
  <2>2. TypeOK' /\ MembersInv'
    BY <1>1, <1>2, <2>1 DEF RoomInv, TypeOK, MembersInv
  <2>3. LockInv' /\ SomebodyHosts' /\ SessionFollowsTheRoom' /\ PhaseInv' /\ FrozenInv' /\ PlayInv'
    BY <1>1, <1>3, <2>1 DEF RoomInv, LockInv, SomebodyHosts, SessionFollowsTheRoom, PhaseInv,
                            FrozenInv, PlayInv
  <2> QED
    BY <1>3, <2>2, <2>3 DEF RoomInv
<1>5. CASE OutOnDisconnect(u)
  <2>1. /\ phase = "Playing" /\ u \in inGame /\ u \notin eligible
        /\ eligible' = eligible \cup {u} /\ role' = [role EXCEPT ![u] = "Spectator"]
        /\ KillAndSettle({seat[u]}, Members)
    BY <1>5 DEF Disconnect, OutOnDisconnect
  <2>2. /\ phase' \in {phase, "PostGame", "Closed"} /\ session' \in Session
        /\ alive' \subseteq alive
        /\ phase' = "PostGame" => phase \in {"PostGame", "Playing"}
        /\ phase' = "Playing" => phase = "Playing" /\ alive' = alive \ {seat[u]}
        /\ session' = "running" => session = "running"
        /\ SessionFollowsTheRoom' /\ PhaseInv'
        /\ UNCHANGED <<snapshot, identity>>
    BY <1>1, <2>1, Settled DEF matchVars
  <2>3. role' \in [User -> Role] /\ \A v \in User : v # u => role'[v] = role[v]
    BY <2>1 DEF RoomInv, TypeOK, Role
  <2>4. TypeOK'
    BY <1>1, <1>2, <2>1, <2>2, <2>3 DEF RoomInv, TypeOK, Phase
  <2>5. MembersInv'
    BY <1>1, <1>2, <2>1 DEF RoomInv, MembersInv
  <2>6. LockInv'
    BY <1>1, <2>1, <2>2 DEF RoomInv, LockInv
  <2>7. SomebodyHosts'
    BY <1>1, <1>3, <2>1, <2>2 DEF RoomInv, SomebodyHosts
  <2>8. FrozenInv'
    BY <1>1, <2>1 DEF RoomInv, FrozenInv
  <2>9. PlayInv'
    <3> SUFFICES ASSUME phase' = "Playing", NEW v \in User, seat'[v] # Nowhere
                 PROVE  /\ v \in inGame' <=> seat'[v] \in snapshot'
                        /\ v \in inGame' /\ v \notin eligible' => seat'[v] \in alive'
                        /\ v \in eligible' => seat'[v] \notin alive'
                        /\ v \notin inGame' => role'[v] = "Waiting"
      BY DEF PlayInv
    <3>1. v # u => seat[v] # seat[u]
      BY <1>1 DEF RoomInv, NumbersInv
    <3> QED
      BY <1>1, <2>1, <2>2, <2>3, <3>1 DEF RoomInv, PlayInv
  <2> QED
    BY <1>3, <2>2, <2>4, <2>5, <2>6, <2>7, <2>8, <2>9 DEF RoomInv
<1> QED
  BY <1>4, <1>5

-----------------------------------------------------------------------------
(* The lobby.                                                                *)

\* The host's place, the lock, the spectators' choice and the grant touch no number.
LEMMA LobbyKeeps ==
  ASSUME RoomInv,
         \/ \E h, u \in User : PassHost(h, u)
         \/ \E u \in User : SetLocked(u) \/ SetSpectating(u)
         \/ GrantMatch
  PROVE  RoomInv'
<1>1. UNCHANGED <<phase, frozen, held, seat, conn, eligible, inGame, seniors, kicked,
                  snapshot, alive, identity, session, played, reported, lockedUser>>
  BY DEF PassHost, SetLocked, SetSpectating, GrantMatch, rosterVars, gameVars, matchVars
<1>2. host' = host \/ (host' \in Members /\ phase = "Waiting")
  BY DEF PassHost, SetLocked, SetSpectating, GrantMatch, rosterVars
<1>3. role' \in [User -> Role] /\ \A v \in User : role'[v] # role[v] => v \in eligible
  BY DEF PassHost, SetLocked, SetSpectating, GrantMatch, rosterVars, RoomInv, TypeOK, Role
<1>4. locked' \in BOOLEAN
  BY DEF PassHost, SetLocked, SetSpectating, GrantMatch, RoomInv, TypeOK
<1>5. granted' = granted \/ (granted' = TRUE /\ reported)
  BY DEF PassHost, SetLocked, SetSpectating, GrantMatch, matchVars
<1>6. granted' \in BOOLEAN
  BY <1>5 DEF RoomInv, TypeOK
<1>7. Members' = Members /\ Members \subseteq User
  BY <1>1 DEF Members
<1>8. TypeOK'
  BY <1>1, <1>2, <1>3, <1>4, <1>6, <1>7 DEF RoomInv, TypeOK
<1>9. NumbersInv' /\ MembersInv' /\ LockInv' /\ KickInv' /\ SeniorityInv' /\ FrozenInv'
  BY <1>1, <1>7 DEF RoomInv, NumbersInv, MembersInv, LockInv, KickInv, SeniorityInv, FrozenInv
<1>10. SomebodyHosts'
  BY <1>1, <1>2, <1>7 DEF RoomInv, SomebodyHosts
<1>11. SessionFollowsTheRoom'
  BY <1>1, <1>5 DEF RoomInv, SessionFollowsTheRoom, PhaseInv
<1>12. PhaseInv'
  BY <1>1, <1>5 DEF RoomInv, PhaseInv
<1>13. PlayInv'
  BY <1>1, <1>3 DEF RoomInv, PlayInv, MembersInv
<1> QED
  BY <1>8, <1>9, <1>10, <1>11, <1>12, <1>13 DEF RoomInv

\* Another seat, outside a game (setSlot).
LEMMA MoveSlotKeeps ==
  ASSUME RoomInv, NEW u \in User, NEW s \in Seat, MoveSlot(u, s)
  PROVE  RoomInv'
<1>1. /\ seat[u] # Nowhere /\ s # Nowhere /\ phase \in {"Waiting", "PostGame"}
      /\ \A v \in User \ {u} : seat[v] # s /\ held[v] # s
  BY RoomAssumption DEF MoveSlot, RoomInv, MembersInv, Seat, Nowhere
<1>2. /\ seat' \in [User -> Seat \cup {Nowhere}]
      /\ \A v \in User : seat'[v] = IF v = u THEN s ELSE seat[v]
  BY DEF MoveSlot, RoomInv, TypeOK
<1>3. UNCHANGED <<phase, frozen, locked, held, conn, role, eligible, inGame, seniors, host, kicked,
                  snapshot, alive, identity, session, played, granted, reported, lockedUser>>
  BY DEF MoveSlot, gameVars, matchVars
<1>4. held[u] = Nowhere /\ u \notin kicked
  BY <1>1 DEF RoomInv, NumbersInv, KickInv
<1>5. TypeOK'
  BY <1>2, <1>3 DEF RoomInv, TypeOK
<1>6. NumbersInv'
  <2>1. \A v \in User : held'[v] # Nowhere => seat'[v] = Nowhere
    BY <1>2, <1>3, <1>4 DEF RoomInv, NumbersInv
  <2>2. ASSUME NEW a \in User, NEW b \in User, a # b
        PROVE  /\ seat'[a] # Nowhere => seat'[a] # seat'[b] /\ seat'[a] # held'[b]
               /\ held'[a] # Nowhere => held'[a] # held'[b]
    BY <1>1, <1>2, <1>3, <2>2 DEF RoomInv, NumbersInv
  <2> QED
    BY <2>1, <2>2 DEF NumbersInv
<1>7. Members' = Members
  BY <1>1, <1>2 DEF Members
<1>8. MembersInv'
  BY <1>1, <1>2, <1>3 DEF RoomInv, MembersInv, TypeOK
<1>9. KickInv'
  BY <1>2, <1>3, <1>4 DEF RoomInv, KickInv, TypeOK
<1>10. LockInv' /\ PlayInv'
  BY <1>1, <1>3 DEF LockInv, PlayInv
<1>11. SeniorityInv' /\ SomebodyHosts'
  BY <1>3, <1>7 DEF RoomInv, SeniorityInv, SomebodyHosts
<1>12. SessionFollowsTheRoom' /\ PhaseInv' /\ FrozenInv'
  BY <1>3 DEF RoomInv, SessionFollowsTheRoom, PhaseInv, FrozenInv
<1> QED
  BY <1>5, <1>6, <1>8, <1>9, <1>10, <1>11, <1>12 DEF RoomInv

\* Nothing is being saved in a room that may play its first or its next game.
LEMMA NothingToSave ==
  ASSUME RoomInv, phase = "Waiting", MayPlay
  PROVE  session = "none"
BY DEF MayPlay, RoomInv, PhaseInv, SessionFollowsTheRoom, TypeOK, Session

\* Everybody who is connected is locked in with his number (requestStart).
LEMMA StartKeeps ==
  ASSUME RoomInv, NEW h \in User, RequestStart(h)
  PROVE  RoomInv'
<1>1. /\ phase = "Waiting" /\ phase' = "Countdown" /\ session = "none" /\ ~frozen
      /\ played' \in 1..MaxGames /\ granted' = FALSE /\ reported' = FALSE
      /\ held' = [u \in User |-> Nowhere]
  <2>1. played' = played + 1 /\ played < MaxGames /\ played \in 0..MaxGames /\ MaxGames \in Nat
    BY RoomAssumption DEF RequestStart, RoomInv, TypeOK
  <2> QED
    BY <2>1, NothingToSave DEF RequestStart
<1>2. UNCHANGED <<frozen, locked, seat, conn, role, eligible, inGame, seniors, host, kicked,
                  alive, identity, session>>
  BY DEF RequestStart
<1>3. /\ snapshot' = {seat[u] : u \in Online}
      /\ lockedUser' = [s \in Seat |-> IF \E u \in Online : seat[u] = s
                                       THEN CHOOSE u \in Online : seat[u] = s ELSE NoUser]
  BY DEF RequestStart
<1>4. Online \subseteq User /\ \A u \in Online : seat[u] \in Seat
  BY DEF Online, RoomInv, MembersInv, TypeOK
<1>5. \A u, v \in User : seat[u] \in Seat /\ seat[u] = seat[v] => u = v
  BY DEF RoomInv, NumbersInv, Seat, Nowhere
<1>6. snapshot' \subseteq Seat /\ Nowhere \notin snapshot'
  BY <1>3, <1>4 DEF Seat, Nowhere
<1>7. ASSUME NEW s \in Seat
      PROVE  /\ lockedUser'[s] \in User \cup {NoUser}
             /\ \A u \in Online : seat[u] = s => lockedUser'[s] = u
  BY <1>3, <1>4, <1>5
<1>8. lockedUser' \in [Seat -> User \cup {NoUser}]
  BY <1>3, <1>7
<1>9. TypeOK'
  <2>1. played' \in 0..MaxGames
    BY <1>1, RoomAssumption
  <2>2. held' \in [User -> Seat \cup {Nowhere}] /\ phase' \in Phase
    BY <1>1 DEF Phase
  <2>3. granted' \in BOOLEAN /\ reported' \in BOOLEAN
    BY <1>1, Zenon
  <2> QED
    BY <1>2, <1>6, <1>8, <2>1, <2>2, <2>3 DEF RoomInv, TypeOK
<1>10. NumbersInv'
  BY <1>1, <1>2 DEF RoomInv, NumbersInv
<1>11. MembersInv' /\ SeniorityInv' /\ Members' = Members
  BY <1>2 DEF RoomInv, MembersInv, SeniorityInv, Members
<1>12. KickInv'
  BY <1>1, <1>2 DEF RoomInv, KickInv, TypeOK
<1>13. LockInv'
  <2>1. \A u \in User : held'[u] \notin snapshot'
    BY <1>1, <1>6
  <2>2. ASSUME NEW u \in User, seat'[u] \in snapshot'
        PROVE  u = lockedUser'[seat'[u]]
    <3>1. PICK v \in Online : seat[v] = seat[u]
      BY <1>2, <1>3, <2>2
    <3>2. v = u
      BY <1>4, <1>5, <3>1
    <3> QED
      BY <1>2, <1>4, <1>7, <3>1, <3>2
  <2> QED
    BY <1>1, <1>2, <2>1, <2>2 DEF LockInv
<1>14. SomebodyHosts'
  BY <1>1, <1>2, <1>11 DEF RoomInv, SomebodyHosts
<1>15. SessionFollowsTheRoom' /\ PhaseInv' /\ FrozenInv' /\ PlayInv'
  BY <1>1, <1>2 DEF SessionFollowsTheRoom, PhaseInv, FrozenInv, PlayInv
<1> QED
  BY <1>9, <1>10, <1>11, <1>12, <1>13, <1>14, <1>15 DEF RoomInv

-----------------------------------------------------------------------------
(* The game loop and the hand-off.                                           *)

\* A tick kills some, and the lobby is told of each (GameSession.step).
LEMMA GameStepKeeps ==
  ASSUME RoomInv, NEW dead, NEW timeUp, GameStep(dead, timeUp)
  PROVE  RoomInv'
<1> DEFINE out == {u \in inGame \ eligible : seat[u] \in dead}
<1>1. /\ session = "running" /\ phase = "Playing" /\ ~frozen
      /\ alive' = alive \ dead /\ eligible' = eligible \cup out
      /\ role' = [u \in User |-> IF u \in out THEN "Spectator" ELSE role[u]]
      /\ \/ phase' = "PostGame" /\ session' = "saving"
         \/ phase' = phase /\ session' = session
  BY DEF GameStep, RoomInv, SessionFollowsTheRoom, FrozenInv
<1>2. UNCHANGED <<frozen, locked, held, seat, conn, inGame, seniors, host, kicked, snapshot,
                  identity, played, granted, reported, lockedUser>>
  BY DEF GameStep, matchVars
<1>3. TypeOK'
  BY <1>1, <1>2 DEF RoomInv, TypeOK, Phase, Session, Role
<1>4. NumbersInv' /\ KickInv' /\ SeniorityInv' /\ Members' = Members
  BY <1>2 DEF RoomInv, NumbersInv, KickInv, SeniorityInv, Members
<1>5. MembersInv'
  BY <1>1, <1>2 DEF RoomInv, MembersInv
<1>6. LockInv' /\ SomebodyHosts'
  BY <1>1, <1>2, <1>4 DEF RoomInv, LockInv, SomebodyHosts
<1>7. SessionFollowsTheRoom' /\ PhaseInv' /\ FrozenInv'
  BY <1>1, <1>2 DEF RoomInv, SessionFollowsTheRoom, PhaseInv, FrozenInv
<1>8. PlayInv'
  <2> SUFFICES ASSUME phase' = "Playing", NEW v \in User, seat'[v] # Nowhere
               PROVE  /\ v \in inGame' <=> seat'[v] \in snapshot'
                      /\ v \in inGame' /\ v \notin eligible' => seat'[v] \in alive'
                      /\ v \in eligible' => seat'[v] \notin alive'
                      /\ v \notin inGame' => role'[v] = "Waiting"
    BY DEF PlayInv
  <2>1. /\ v \in inGame <=> seat[v] \in snapshot
        /\ v \in inGame /\ v \notin eligible => seat[v] \in alive
        /\ v \in eligible => seat[v] \notin alive
        /\ v \notin inGame => role[v] = "Waiting"
    BY <1>1, <1>2 DEF RoomInv, PlayInv
  <2> QED
    BY <1>1, <1>2, <2>1
<1> QED
  BY <1>3, <1>4, <1>5, <1>6, <1>7, <1>8 DEF RoomInv

\* The replay is saved and the result is out (onFinished).
LEMMA SaveReplayKeeps ==
  ASSUME RoomInv, SaveReplay
  PROVE  RoomInv'
<1>1. /\ session = "saving" /\ session' = "none" /\ reported' = TRUE
      /\ alive' = {} /\ identity' = NoIdentity /\ ~frozen
      /\ phase \in {"PostGame", "Waiting", "Closed"} /\ played # 0
  BY DEF SaveReplay, RoomInv, SessionFollowsTheRoom, FrozenInv, PhaseInv
<1>2. UNCHANGED <<phase, frozen, locked, held, seat, conn, role, eligible, inGame, seniors, host,
                  kicked, snapshot, played, granted, lockedUser>>
  BY DEF SaveReplay, rosterVars
<1>3. TypeOK'
  BY <1>1, <1>2 DEF RoomInv, TypeOK, Session, NoIdentity
<1>4. NumbersInv' /\ MembersInv' /\ KickInv' /\ SeniorityInv' /\ SomebodyHosts' /\ FrozenInv'
  BY <1>1, <1>2 DEF RoomInv, NumbersInv, MembersInv, KickInv, SeniorityInv, SomebodyHosts,
                    FrozenInv, Members
<1>5. LockInv' /\ SessionFollowsTheRoom' /\ PhaseInv' /\ PlayInv'
  BY <1>1, <1>2 DEF LockInv, SessionFollowsTheRoom, PhaseInv, PlayInv
<1> QED
  BY <1>3, <1>4, <1>5 DEF RoomInv

\* A room that is frozen, thawed, or released to its peer keeps everything else.
LEMMA HandOffKeeps ==
  ASSUME RoomInv, Freeze \/ CancelHandOff \/ ReleaseAfterHandOff
  PROVE  RoomInv'
<1>1. UNCHANGED <<locked, held, seat, role, eligible, inGame, seniors, host, kicked,
                  snapshot, alive, identity, session, played, granted, reported, lockedUser>>
  BY DEF Freeze, CancelHandOff, ReleaseAfterHandOff, rosterVars, gameVars, matchVars
<1>2. /\ frozen' \in BOOLEAN
      /\ phase' = phase \/ (phase' = "Closed" /\ phase # "Playing")
      /\ frozen' => phase' \in {"Waiting", "Closed"} /\ session = "none"
  <2>1. CASE Freeze
    BY <2>1, NothingToSave DEF Freeze
  <2>2. CASE CancelHandOff
    <3>1. frozen' = FALSE /\ phase' = phase
      BY <2>2 DEF CancelHandOff
    <3>2. frozen' \in BOOLEAN /\ ~(frozen')
      BY <3>1, Zenon
    <3>3. phase' = phase \/ (phase' = "Closed" /\ phase # "Playing")
      BY <3>1
    <3>4. frozen' => phase' \in {"Waiting", "Closed"} /\ session = "none"
      BY <3>2, Zenon
    <3> QED
      BY <3>2, <3>3, <3>4, Zenon
  <2>3. CASE ReleaseAfterHandOff
    BY <2>3 DEF ReleaseAfterHandOff, RoomInv, TypeOK, FrozenInv
  <2> QED
    BY <2>1, <2>2, <2>3
<1>3. conn' \in [User -> Conn] /\ \A u \in User : conn'[u] # "none" => conn[u] # "none"
  BY DEF Freeze, CancelHandOff, ReleaseAfterHandOff, rosterVars, RoomInv, TypeOK, Conn
<1>4. TypeOK'
  BY <1>1, <1>2, <1>3 DEF RoomInv, TypeOK, Phase
<1>5. NumbersInv' /\ KickInv' /\ SeniorityInv' /\ Members' = Members
  BY <1>1 DEF RoomInv, NumbersInv, KickInv, SeniorityInv, Members
<1>6. MembersInv'
  BY <1>1, <1>3 DEF RoomInv, MembersInv
<1>7. LockInv' /\ SomebodyHosts' /\ PlayInv'
  BY <1>1, <1>2, <1>5 DEF RoomInv, LockInv, SomebodyHosts, PlayInv
<1>8. SessionFollowsTheRoom' /\ PhaseInv' /\ FrozenInv'
  BY <1>1, <1>2 DEF RoomInv, SessionFollowsTheRoom, PhaseInv, FrozenInv
<1> QED
  BY <1>4, <1>5, <1>6, <1>7, <1>8 DEF RoomInv

-----------------------------------------------------------------------------
(* The sweep.                                                                *)

\* The countdown is over: every locked seat that is still taken begins alive, whoever has
\* no locked seat waits, and the session knows the locked players (startGame).
LEMMA BeginKeeps ==
  ASSUME RoomInv, phase = "Countdown", ~frozen, BeginPlaying,
         UNCHANGED <<frozen, locked, kicked, matchVars>>,
         seat' \in [User -> Seat \cup {Nowhere}], conn' \in [User -> Conn],
         seniors' \in [User -> SUBSET User],
         held' \in [User -> Seat \cup {Nowhere}],
         \A v \in User : /\ seat'[v] \in {seat[v], Nowhere} /\ held'[v] \in {held[v], Nowhere}
                         /\ conn'[v] # "none" => seat'[v] # Nowhere,
         NumbersInv', SeniorityInv', host' \in Members'
  PROVE  RoomInv'
<1>1. /\ phase' = "Playing" /\ session' = "running" /\ alive' = snapshot /\ eligible' = {}
      /\ inGame' = {u \in User : seat'[u] \in snapshot}
      /\ role' = [u \in User |-> IF seat'[u] = Nowhere \/ seat'[u] \in snapshot
                                 THEN "Player" ELSE "Waiting"]
      /\ snapshot' = snapshot /\ lockedUser' = lockedUser
  BY DEF BeginPlaying
<1>2. identity' = [s \in Seat |-> IF \E u \in User : seat'[u] = s
                                  THEN CHOOSE u \in User : seat'[u] = s ELSE NoUser]
  BY DEF BeginPlaying
<1>3. played' = played /\ granted' = granted /\ reported' = reported
  BY DEF matchVars
<1>4. ASSUME NEW s \in Seat
      PROVE  identity'[s] = NoUser \/ (identity'[s] \in User /\ seat'[identity'[s]] = s)
  BY <1>2, <1>4
<1>5. identity' \in [Seat -> User \cup {NoUser}]
  BY <1>2, <1>4
<1>6. snapshot \subseteq Seat /\ Nowhere \notin snapshot
  BY DEF RoomInv, TypeOK, Seat, Nowhere
<1>7. host' \in User
  BY DEF Members
<1>8. TypeOK'
  BY <1>1, <1>3, <1>5, <1>6, <1>7 DEF RoomInv, TypeOK, Phase, Session, Role
<1>9. MembersInv'
  BY <1>1, <1>6 DEF MembersInv
<1>10. LockInv'
  <2>1. \A v \in User : held'[v] \notin snapshot'
    BY <1>1, <1>6 DEF RoomInv, LockInv
  <2>2. \A v \in User : seat'[v] \in snapshot' => v = lockedUser'[seat'[v]]
    BY <1>1, <1>6 DEF RoomInv, LockInv
  <2>3. ASSUME NEW s \in snapshot'
        PROVE  identity'[s] \in {lockedUser'[s], NoUser}
    BY <1>1, <1>4, <1>6, <2>2, <2>3
  <2> QED
    BY <2>1, <2>2, <2>3 DEF LockInv
<1>11. KickInv'
  BY DEF RoomInv, KickInv, TypeOK
<1>12. SomebodyHosts' /\ SessionFollowsTheRoom' /\ FrozenInv'
  BY <1>1 DEF SomebodyHosts, SessionFollowsTheRoom, FrozenInv
<1>13. PhaseInv'
  BY <1>1, <1>3 DEF RoomInv, PhaseInv
<1>14. PlayInv'
  BY <1>1 DEF PlayInv
<1> QED
  BY <1>8, <1>9, <1>10, <1>11, <1>12, <1>13, <1>14 DEF RoomInv

\* Whatever deadlines pass in one sweep, and whatever phase ends with them (#advance).
LEMMA SweepKeeps ==
  ASSUME RoomInv, NEW gone \in SUBSET Expirable,
         NEW lapsed \in SUBSET {u \in User \ gone : conn[u] = "resuming"},
         NEW late \in SUBSET Holders, NEW over \in BOOLEAN, Sweep(gone, lapsed, late, over)
  PROVE  RoomInv'
<1> DEFINE left == Members \ gone
           empty == left = {} /\ (phase # "Allocating" \/ Holders \subseteq late)
<1>1. gone \in SUBSET User /\ gone \subseteq Members
  BY DEF Expirable, Members, RoomInv, MembersInv
<1>2. /\ ~frozen /\ phase # "Closed" /\ (over => phase \in {"Countdown", "PostGame"})
      /\ seat' = Without(seat, gone, Nowhere) /\ seniors' = SeniorsWithout(gone)
      /\ host' = NextHost(gone)
      /\ held' = Without(held, IF empty THEN User ELSE late, Nowhere)
      /\ UNCHANGED <<frozen, locked, kicked, matchVars>>
  BY DEF Sweep, Advancing
<1>3. conn' = [u \in User |-> IF u \in gone THEN "none" ELSE IF u \in lapsed THEN "away"
                              ELSE conn[u]]
  BY DEF Sweep
<1>4. \/ ~ empty /\ over /\ phase = "Countdown" /\ BeginPlaying
      \/ ~ empty /\ over /\ phase = "PostGame" /\ BackToLobby
      \/ /\ empty \/ ~ over
         /\ phase' = IF empty THEN "Closed" ELSE phase
         /\ session' = IF empty /\ session = "running" THEN "none" ELSE session
         /\ role' = Without(role, gone, "Player")
         /\ eligible' = eligible \ gone /\ inGame' = inGame \ gone
         /\ UNCHANGED <<snapshot, alive, identity, lockedUser>>
  BY DEF Sweep
<1>5. empty => left = {}
  OBVIOUS
<1>6. phase # "Allocating" => (empty <=> left = {})
  OBVIOUS
<1> HIDE DEF empty
<1>7. /\ held' \in [User -> Seat \cup {Nowhere}] /\ \A v \in User : held'[v] \in {held[v], Nowhere}
  BY <1>2 DEF Without, RoomInv, TypeOK
<1>8. /\ seat' \in [User -> Seat \cup {Nowhere}]
      /\ seniors' \in [User -> SUBSET User] /\ host' \in User \cup {NoUser}
      /\ Members' = Members \ gone
      /\ NumbersInv' /\ SeniorityInv'
      /\ host \in Members /\ Members' # {} => host' \in Members'
      /\ host = NoUser => host' = NoUser
  BY <1>1, <1>2, <1>7, RemovalKeeps
<1>9. \A v \in User : seat'[v] = IF v \in gone THEN Nowhere ELSE seat[v]
  BY <1>2 DEF Without
<1>10. /\ conn' \in [User -> Conn]
       /\ \A v \in User : conn'[v] # "none" => v \notin gone /\ conn[v] # "none"
  BY <1>3 DEF RoomInv, TypeOK, Conn
<1>11. \A v \in User : conn'[v] # "none" => seat'[v] # Nowhere
  BY <1>9, <1>10 DEF RoomInv, MembersInv
<1>12. KickInv'
  BY <1>2, <1>7, <1>9 DEF RoomInv, KickInv, TypeOK
<1>13. played' = played /\ granted' = granted /\ reported' = reported
  BY <1>2 DEF matchVars
<1>14. CASE ~ empty /\ over /\ phase = "Countdown" /\ BeginPlaying
  <2>1. host' \in Members'
    BY <1>6, <1>8, <1>14 DEF RoomInv, SomebodyHosts
  <2>2. \A v \in User : /\ seat'[v] \in {seat[v], Nowhere} /\ held'[v] \in {held[v], Nowhere}
                        /\ conn'[v] # "none" => seat'[v] # Nowhere
    BY <1>7, <1>9, <1>11
  <2> QED
    BY <1>2, <1>7, <1>8, <1>10, <1>14, <2>1, <2>2, BeginKeeps
<1>15. CASE ~ empty /\ over /\ phase = "PostGame" /\ BackToLobby
  <2>1. /\ phase' = "Waiting" /\ role' = [u \in User |-> "Player"]
        /\ eligible' = {} /\ inGame' = {} /\ snapshot' = {} /\ lockedUser' = NoIdentity
        /\ UNCHANGED <<alive, identity, session>>
    BY <1>15 DEF BackToLobby
  <2>2. TypeOK'
    BY <1>2, <1>7, <1>8, <1>10, <1>13, <2>1 DEF RoomInv, TypeOK, Phase, Role, NoIdentity
  <2>3. MembersInv' /\ LockInv' /\ PlayInv'
    BY <1>11, <2>1 DEF MembersInv, LockInv, PlayInv
  <2>4. SomebodyHosts'
    BY <1>6, <1>8, <1>15, <2>1 DEF RoomInv, SomebodyHosts
  <2>5. SessionFollowsTheRoom' /\ PhaseInv'
    BY <1>13, <1>15, <2>1 DEF RoomInv, SessionFollowsTheRoom, PhaseInv
  <2>6. FrozenInv'
    BY <1>2 DEF FrozenInv
  <2> QED
    BY <1>8, <1>12, <2>2, <2>3, <2>4, <2>5, <2>6 DEF RoomInv
<1>16. ASSUME /\ phase' = IF empty THEN "Closed" ELSE phase
              /\ session' = IF empty /\ session = "running" THEN "none" ELSE session
              /\ role' = Without(role, gone, "Player")
              /\ eligible' = eligible \ gone /\ inGame' = inGame \ gone
              /\ UNCHANGED <<snapshot, alive, identity, lockedUser>>
       PROVE  RoomInv'
  <2>1. role' \in [User -> Role] /\ \A v \in User : v \notin gone => role'[v] = role[v]
    BY <1>16 DEF Without, RoomInv, TypeOK, Role
  <2>2. phase' \in Phase /\ session' \in Session
    BY <1>16 DEF RoomInv, TypeOK, Phase, Session
  <2>3. TypeOK'
    BY <1>2, <1>7, <1>8, <1>10, <1>13, <1>16, <2>1, <2>2 DEF RoomInv, TypeOK
  <2>4. MembersInv'
    BY <1>9, <1>11, <1>16 DEF RoomInv, MembersInv, TypeOK
  <2>5. LockInv'
    <3> SUFFICES ASSUME phase' \in {"Countdown", "Playing"} PROVE LockInv'
      BY DEF LockInv
    <3>1. phase \in {"Countdown", "Playing"} /\ Nowhere \notin snapshot
          /\ (session' = "running" => session = "running")
      BY <1>16 DEF RoomInv, TypeOK, Seat, Nowhere
    <3> QED
      BY <1>7, <1>9, <1>16, <3>1 DEF RoomInv, LockInv
  <2>6. SomebodyHosts'
    BY <1>5, <1>6, <1>8, <1>16 DEF RoomInv, SomebodyHosts
  <2>7. SessionFollowsTheRoom' /\ PhaseInv'
    BY <1>13, <1>16 DEF RoomInv, SessionFollowsTheRoom, PhaseInv
  <2>8. FrozenInv'
    BY <1>2 DEF FrozenInv
  <2>9. PlayInv'
    <3> SUFFICES ASSUME phase' = "Playing", NEW v \in User, seat'[v] # Nowhere
                 PROVE  /\ v \in inGame' <=> seat'[v] \in snapshot'
                        /\ v \in inGame' /\ v \notin eligible' => seat'[v] \in alive'
                        /\ v \in eligible' => seat'[v] \notin alive'
                        /\ v \notin inGame' => role'[v] = "Waiting"
      BY DEF PlayInv
    <3>1. phase = "Playing" /\ v \notin gone /\ seat'[v] = seat[v]
      BY <1>9, <1>16
    <3> QED
      BY <1>16, <2>1, <3>1 DEF RoomInv, PlayInv
  <2> QED
    BY <1>8, <1>12, <2>3, <2>4, <2>5, <2>6, <2>7, <2>8, <2>9 DEF RoomInv
<1> QED
  BY <1>4, <1>14, <1>15, <1>16

-----------------------------------------------------------------------------
(* The theorems.                                                             *)

\* Every handler, sweep and tick keeps the invariant.
LEMMA RoomInvNext == RoomInv /\ [Next]_vars => RoomInv'
<1> SUFFICES ASSUME RoomInv, [Next]_vars PROVE RoomInv'
  OBVIOUS
<1>1. ASSUME NEW u \in User, UserStep(u) PROVE RoomInv'
  <2>1. CASE ReserveJoin(u)
    BY <2>1, ReserveJoinKeeps
  <2>2. CASE Admit(u)
    BY <2>2, AdmitKeeps
  <2>3. CASE AdmitResume(u) \/ Bind(u)
    BY <2>3, SocketsKeep
  <2>4. CASE Disconnect(u)
    BY <2>4, DisconnectKeeps
  <2>5. CASE Leave(u) \/ ReleaseSeat(u) \/ ForceKick(u)
    BY <2>5, LeavingKeeps
  <2>6. CASE SetSpectating(u) \/ SetLocked(u)
    BY <2>6, LobbyKeeps
  <2>7. CASE RequestStart(u)
    BY <2>7, StartKeeps
  <2>8. CASE \E v \in User : Kick(u, v) \/ PassHost(u, v)
    <3>1. PICK v \in User : Kick(u, v) \/ PassHost(u, v)
      BY <2>8
    <3>2. CASE Kick(u, v)
      BY <3>2, LeavingKeeps
    <3>3. CASE PassHost(u, v)
      BY <3>3, LobbyKeeps
    <3> QED
      BY <3>1, <3>2, <3>3
  <2>9. CASE \E s \in Seat : MoveSlot(u, s)
    BY <2>9, MoveSlotKeeps
  <2> QED
    BY <1>1, <2>1, <2>2, <2>3, <2>4, <2>5, <2>6, <2>7, <2>8, <2>9 DEF UserStep
<1>2. CASE SweepSome
  BY <1>2, SweepKeeps DEF SweepSome
<1>3. CASE GameOver
  BY <1>3, GameStepKeeps DEF GameOver
<1>4. CASE SaveReplay
  BY <1>4, SaveReplayKeeps
<1>5. CASE GrantMatch
  BY <1>5, LobbyKeeps
<1>6. CASE Freeze \/ CancelHandOff \/ ReleaseAfterHandOff
  BY <1>6, HandOffKeeps
<1>7. CASE UNCHANGED vars
  <2> USE <1>7 DEF vars
  <2>1. TypeOK' /\ NumbersInv' /\ MembersInv' /\ LockInv' /\ KickInv'
    BY DEF RoomInv, TypeOK, NumbersInv, MembersInv, LockInv, KickInv
  <2>2. SeniorityInv' /\ SomebodyHosts'
    BY DEF RoomInv, SeniorityInv, SomebodyHosts, Members
  <2>3. SessionFollowsTheRoom' /\ PhaseInv' /\ FrozenInv' /\ PlayInv'
    BY DEF RoomInv, SessionFollowsTheRoom, PhaseInv, FrozenInv, PlayInv
  <2> QED
    BY <2>1, <2>2, <2>3 DEF RoomInv
<1> QED
  BY <1>1, <1>2, <1>3, <1>4, <1>5, <1>6, <1>7 DEF Next

\* The inductive invariant of a room, type correctness included (room.ts, lobby-state.ts).
THEOREM RoomInvariant == Spec => []RoomInv
<1> QED
  BY RoomInvInit, RoomInvNext, PTL DEF Spec

\* Whatever its players, timers, ticks and the match server do in whichever order, a room
\* is sound: one owner to a number, no seat for the kicked, a host, a session that follows
\* the room, and nobody who sees more than his state in the world allows (room.ts).
THEOREM RoomsAreSound == Spec => []RoomIsSound
<1> QED
  BY RoomInvariant, RoomInvIsSound, PTL

\* What a step leaves of a frozen room.
Still == frozen /\ frozen' =>
           UNCHANGED <<held, seat, seniors, host, kicked, locked, matchVars>>

\* In a frozen room only sockets drop, and a released one only closes.
LEMMA FrozenStep ==
  ASSUME RoomInv, [Next]_vars
  PROVE  Still
<1> SUFFICES ASSUME frozen, frozen', Next
             PROVE  UNCHANGED <<held, seat, seniors, host, kicked, locked, matchVars>>
  BY DEF Still, vars, matchVars
<1>1. session = "none"
  BY DEF RoomInv, FrozenInv
<1>2. ASSUME NEW u \in User, UserStep(u) PROVE Disconnect(u)
  BY <1>2 DEF UserStep, ReserveJoin, Admit, AdmitResume, Bind, Leave, ReleaseSeat, ForceKick,
              SetSpectating, SetLocked, RequestStart, Kick, PassHost, MoveSlot
<1>3. ~SweepSome /\ ~GameOver /\ ~SaveReplay /\ ~GrantMatch /\ ~Freeze /\ ~CancelHandOff
  <2>1. ~SweepSome
    BY DEF SweepSome, Sweep, Advancing
  <2>2. ~GameOver /\ ~SaveReplay
    BY <1>1 DEF GameOver, GameStep, SaveReplay
  <2>3. ~GrantMatch /\ ~Freeze /\ ~CancelHandOff
    BY DEF GrantMatch, Freeze, CancelHandOff
  <2> QED
    BY <2>1, <2>2, <2>3
<1>4. CASE \E u \in User : Disconnect(u)
  BY <1>4 DEF Disconnect
<1>5. CASE ReleaseAfterHandOff
  BY <1>5 DEF ReleaseAfterHandOff
<1> QED
  BY <1>2, <1>3, <1>4, <1>5 DEF Next

\* What was exported of a frozen room stays true of it until it thaws: the copy its peer
\* adopts is the room as it is (exportForHandOff, room-manager.ts).
THEOREM FrozenStands == Spec => FrozenRoomStandsStill
<1>1. RoomInv /\ [Next]_vars => Still
  BY FrozenStep
<1>2. Spec => [][Still]_vars
  BY <1>1, RoomInvariant, PTL DEF Spec
<1> QED
  BY <1>2, PTL DEF FrozenRoomStandsStill, Still
=============================================================================
