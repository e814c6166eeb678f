---------------------------- MODULE RoomOwnership ----------------------------
(***************************************************************************)
(* What a room's hand-off between in-game servers promises: one room has   *)
(* one owner, its roster changes only there, and a move carries the roster *)
(* along in one step, also when the owner dies in the middle of it.        *)
(* HandOff.tla is the protocol that implements this over Redis.            *)
(***************************************************************************)
CONSTANTS Server,    \* in-game server processes
          User,      \* players
          Nobody     \* the owner of a room that is gone

VARIABLES owner,     \* the server whose copy of the room counts, or Nobody
          members    \* the roster of that copy

ovars == <<owner, members>>

OwnershipTypeOK ==
    /\ owner \in Server \cup {Nobody}
    /\ members \subseteq User

OInit ==
    /\ owner \in Server
    /\ members \in SUBSET User
    /\ members # {}

\* Joins, leaves and kicks happen at the owner; the last one out closes the room.
Edit ==
    /\ owner # Nobody
    /\ members' \in SUBSET User
    /\ owner' = IF members' = {} THEN Nobody ELSE owner

\* The room changes hands with its roster intact.  A peer that was already
\* taking the room over may also do so after the owner died.
Move ==
    /\ members # {}
    /\ owner' \in Server
    /\ UNCHANGED members

\* The owning process dies: the room is lost for good, or its exported roster
\* waits for a peer to take it over.
Lose ==
    /\ owner # Nobody
    /\ owner' = Nobody
    /\ members' \in {members, {}}

ONext == Edit \/ Move \/ Lose

OwnershipSpec == OInit /\ [][ONext]_ovars
==============================================================================
