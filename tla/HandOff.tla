------------------------------- MODULE HandOff -------------------------------
(***************************************************************************)
(* Moving one waiting room from a draining in-game server to a peer        *)
(* (server-game/src/rooms/hand-off.ts, redis/command-consumer.ts #adoptRoom *)
(* and the fenced directory of redis/registry.ts).                         *)
(*                                                                         *)
(* Source and peer never talk: they share a transfer key in Redis, the     *)
(* room's directory entry and every member's active-room claim.  The peer  *)
(* commits by one atomic multi-key compare-and-set; the source cancels by  *)
(* a compare-and-set of the transfer key.  Any Redis call may fail before  *)
(* or after it took effect, commands are delivered late and more than      *)
(* once, and processes die at any step.                                    *)
(*                                                                         *)
(* A server's room object and its pending transfer live in memory; a step  *)
(* of a server is the code between two awaits.                             *)
(***************************************************************************)
EXTENDS FiniteSets

CONSTANTS Server,      \* in-game server ids (a restarted process gets a new id)
          User,        \* players
          Transfer,    \* transfer ids (randomUUID); bounds the number of attempts
          NoServer,    \* an absent Redis value
          NoTransfer,
          Unlisted,    \* no publishing round has the room on its list
          Listed       \* one has, and its turn has not come

ASSUME HandOffAssumption ==
    /\ NoServer \notin Server
    /\ NoTransfer \notin Transfer
    /\ Unlisted \notin Server \cup {NoServer}
    /\ Listed \notin Server \cup {NoServer, Unlisted}

VARIABLES
    \* memory of each server
    copy,        \* what the server holds of the room
    roster,      \* members of that copy
    kicked,      \* Room.#kickedUsers of that copy
    draining,    \* servers that are being put to sleep
    step,        \* where the source's hand-off loop stands
    out,         \* the source's transfer: transferId / pendingByManager entry
    adopting,    \* the peer's staged adoption: #stagedAdoptions entry
    astep,       \* where the peer's #adoptRoom stands
    seen,        \* the publishing round: Unlisted, Listed, or the entry #publishRoom has read
    \* Redis
    key,         \* handoff:<transferId>
    cmds,        \* AdoptRoom commands in the peers' streams
    handled,     \* transfers whose command has a cached reply
    directory,   \* serverId in the room's directory entry
    claim,       \* serverId in each user's active-room claim on this room
    marker,      \* users with a live room-kicked marker
    \* history
    banned,      \* users ever kicked from this room
    belated      \* servers whose round put an entry of theirs up for a room moved away

srcVars == <<step, out>>
peerVars == <<adopting, astep, handled>>
redisVars == <<key, cmds, directory, claim, marker>>
vars == <<copy, roster, kicked, draining, step, out, adopting, astep, seen,
          key, cmds, handled, directory, claim, marker, banned, belated>>

CopyState == {"absent", "staged", "active", "frozen", "dead"}
KeyState  == {"none", "pending", "committed", "cancelled"}
SrcStep   == {"idle", "announce", "send", "cas", "read"}
PeerStep  == {"idle", "readkey", "claim", "reconcile"}
Command   == [id: Transfer, from: Server, to: Server, members: SUBSET User]

TypeOK ==
    /\ copy \in [Server -> CopyState]
    /\ roster \in [Server -> SUBSET User]
    /\ kicked \in [Server -> SUBSET User]
    /\ draining \subseteq Server
    /\ step \in [Server -> SrcStep]
    /\ out \in [Server -> Transfer \cup {NoTransfer}]
    /\ adopting \in [Server -> Transfer \cup {NoTransfer}]
    /\ astep \in [Server -> PeerStep]
    /\ seen \in [Server -> Server \cup {NoServer, Unlisted, Listed}]
    /\ key \in [Transfer -> KeyState]
    /\ cmds \subseteq Command
    /\ handled \subseteq Transfer
    /\ directory \in Server \cup {NoServer}
    /\ claim \in [User -> Server \cup {NoServer}]
    /\ marker \subseteq User
    /\ banned \subseteq User
    /\ belated \subseteq Server

\* One server owns a waiting room with some members; everything is published.
Init ==
    \E s \in Server, us \in SUBSET User :
        /\ us # {}
        /\ copy = [x \in Server |-> IF x = s THEN "active" ELSE "absent"]
        /\ roster = [x \in Server |-> IF x = s THEN us ELSE {}]
        /\ directory = s
        /\ claim = [u \in User |-> IF u \in us THEN s ELSE NoServer]
        /\ kicked = [x \in Server |-> {}]
        /\ draining = {}
        /\ step = [x \in Server |-> "idle"]
        /\ out = [x \in Server |-> NoTransfer]
        /\ adopting = [x \in Server |-> NoTransfer]
        /\ astep = [x \in Server |-> "idle"]
        /\ seen = [x \in Server |-> Unlisted]
        /\ key = [t \in Transfer |-> "none"]
        /\ cmds = {}
        /\ handled = {}
        /\ marker = {}
        /\ banned = {}
        /\ belated = {}

------------------------------------------------------------------------------
(* The room's own life on the server that holds it.  A frozen room answers  *)
(* RoomLocked or BadState to all of this (RoomManager).                     *)

\* RoomManager lets a request through to the room.
ServingWhileFrozen(s) == copy[s] \in {"active", "frozen"}
Serving(s) == copy[s] = "active"

\* RESERVE_JOIN and the admission that follows it, reduced to its checks: the
\* Redis kick marker, the server not draining, the room's own kicked list.
Join(s, u) ==
    /\ Serving(s) /\ s \notin draining
    /\ claim[u] = NoServer
    /\ u \notin roster[s] /\ u \notin marker /\ u \notin kicked[s]
    /\ roster' = [roster EXCEPT ![s] = @ \cup {u}]
    /\ claim' = [claim EXCEPT ![u] = s]
    /\ UNCHANGED <<copy, kicked, draining, srcVars, peerVars, seen,
                   key, cmds, directory, marker, banned, belated>>

\* A room without members closes; its object leaves the manager.
AfterRemoval(s, rest) == IF rest = {} THEN "absent" ELSE copy[s]

\* lobby.leave, RELEASE_SEAT or an expired grace period.  The registry deletes
\* the claim only while it names this server.
Leave(s, u) ==
    /\ Serving(s) /\ u \in roster[s]
    /\ LET rest == roster[s] \ {u} IN
         /\ roster' = [roster EXCEPT ![s] = rest]
         /\ copy' = [copy EXCEPT ![s] = AfterRemoval(s, rest)]
    /\ claim' = [claim EXCEPT ![u] = IF @ = s THEN NoServer ELSE @]
    /\ UNCHANGED <<kicked, draining, srcVars, peerVars, seen,
                   key, cmds, directory, marker, banned, belated>>

\* lobby.kick or KICK_USER: the room remembers it, the registry writes a marker.
Kick(s, u) ==
    /\ Serving(s) /\ u \in roster[s]
    /\ LET rest == roster[s] \ {u} IN
         /\ roster' = [roster EXCEPT ![s] = rest]
         /\ copy' = [copy EXCEPT ![s] = AfterRemoval(s, rest)]
    /\ kicked' = [kicked EXCEPT ![s] = @ \cup {u}]
    /\ claim' = [claim EXCEPT ![u] = IF @ = s THEN NoServer ELSE @]
    /\ marker' = marker \cup {u}
    /\ banned' = banned \cup {u}
    /\ UNCHANGED <<draining, srcVars, peerVars, seen, key, cmds, directory, belated>>

\* DRAIN_SERVER or SIGTERM.
BeginDrain(s) ==
    /\ s \notin draining /\ copy[s] # "dead"
    /\ draining' = draining \cup {s}
    /\ UNCHANGED <<copy, roster, kicked, srcVars, peerVars, seen, redisVars, banned, belated>>

\* The process dies with all it has in memory.  Redis keeps what it has.
Crash(s) ==
    /\ copy[s] # "dead"
    /\ copy' = [copy EXCEPT ![s] = "dead"]
    /\ roster' = [roster EXCEPT ![s] = {}]
    /\ kicked' = [kicked EXCEPT ![s] = {}]
    /\ step' = [step EXCEPT ![s] = "idle"]
    /\ out' = [out EXCEPT ![s] = NoTransfer]
    /\ adopting' = [adopting EXCEPT ![s] = NoTransfer]
    /\ astep' = [astep EXCEPT ![s] = "idle"]
    /\ seen' = [seen EXCEPT ![s] = Unlisted]
    /\ UNCHANGED <<draining, handled, redisVars, banned, belated>>

------------------------------------------------------------------------------
(* The registry's publishing loop (every 2 s, and on every change).         *)

\* The round takes the projections of all rooms once ...
ListRooms(s) ==
    /\ copy[s] \in {"active", "frozen"} /\ seen[s] = Unlisted
    /\ seen' = [seen EXCEPT ![s] = Listed]
    /\ UNCHANGED <<copy, roster, kicked, draining, srcVars, peerVars,
                   redisVars, banned, belated>>

\* ... and publishes room by room, so by its turn the room may be gone.  It is left out
\* when another server owns the entry, or when there is none and the room is frozen.
MayPublish(s) == directory = s \/ (directory = NoServer /\ copy[s] # "frozen")

PublishRead(s) ==
    /\ seen[s] = Listed
    /\ seen' = [seen EXCEPT ![s] = IF MayPublish(s) THEN directory ELSE Unlisted]
    /\ UNCHANGED <<copy, roster, kicked, draining, srcVars, peerVars,
                   redisVars, banned, belated>>

\* The fenced write: set-if-absent, or compare-and-set against the value read.
UnfencedEntry(s) == s
EntryAfterWrite(s) == IF directory = seen[s] THEN s ELSE directory

\* (History: the entry is put up by a server that has the room no more.)
Belated(s) == directory = NoServer /\ seen[s] = NoServer /\ copy[s] \notin {"active", "frozen"}

PublishWrite(s) ==
    /\ seen[s] \notin {Unlisted, Listed}
    /\ directory' = EntryAfterWrite(s)
    /\ seen' = [seen EXCEPT ![s] = Unlisted]
    /\ belated' = IF Belated(s) THEN belated \cup {s} ELSE belated
    /\ UNCHANGED <<copy, roster, kicked, draining, srcVars, peerVars,
                   key, cmds, claim, marker, banned>>

\* A call of the round throws before it took effect: the round is over.
PublishFails(s) ==
    /\ seen[s] # Unlisted
    /\ seen' = [seen EXCEPT ![s] = Unlisted]
    /\ UNCHANGED <<copy, roster, kicked, draining, srcVars, peerVars,
                   redisVars, banned, belated>>

\* The entry of a room that is no longer here is deleted only while it is ours.
Unpublish(s) ==
    /\ copy[s] = "absent" /\ directory = s
    /\ directory' = NoServer
    /\ UNCHANGED <<copy, roster, kicked, draining, srcVars, peerVars, seen,
                   key, cmds, claim, marker, banned, belated>>

\* #synchronizeTrackedSeats: a member whose claim was lost gets it back, unless
\* somebody else has it or the room is frozen.
RestoreClaim(s, u) ==
    /\ copy[s] = "active" /\ u \in roster[s] /\ claim[u] = NoServer
    /\ claim' = [claim EXCEPT ![u] = s]
    /\ UNCHANGED <<copy, roster, kicked, draining, srcVars, peerVars, seen,
                   key, cmds, directory, marker, banned, belated>>

\* #publishKickMarkers refreshes the markers of every room the server still has.
RefreshMarkers(s) ==
    /\ copy[s] \in {"active", "frozen"}
    /\ marker' = marker \cup kicked[s]
    /\ UNCHANGED <<copy, roster, kicked, draining, srcVars, peerVars, seen,
                   key, cmds, directory, claim, banned, belated>>

\* TTLs run out: 6 s for the directory entry and the kick markers, 30 s for a
\* claim.  They do so whenever the owner is dead or cut off from Redis.
Expire ==
    /\ \/ directory' = NoServer /\ UNCHANGED <<claim, marker>>
       \/ \E u \in User : /\ claim' = [claim EXCEPT ![u] = NoServer]
                          /\ UNCHANGED <<directory, marker>>
       \/ \E u \in marker : /\ marker' = marker \ {u}
                            /\ UNCHANGED <<directory, claim>>
    /\ UNCHANGED <<copy, roster, kicked, draining, srcVars, peerVars, seen,
                   key, cmds, banned, belated>>

------------------------------------------------------------------------------
(* The source: handOffWaitingRooms, run again and again while it drains.    *)

\* freezeForHandOff.  canHandOff also wants the room in its lobby with a granted
\* next match, no open admission and a live connection: those are the room's
\* business (Room.tla), here the room may or may not be movable.
Freeze(s, t) ==
    /\ s \in draining /\ copy[s] = "active" /\ step[s] = "idle"
    /\ key[t] = "none" /\ \A x \in Server : out[x] # t
    /\ copy' = [copy EXCEPT ![s] = "frozen"]
    /\ out' = [out EXCEPT ![s] = t]
    /\ step' = [step EXCEPT ![s] = "announce"]
    /\ UNCHANGED <<roster, kicked, draining, peerVars, seen, redisVars, banned, belated>>

\* setPxIfAbsent(handoff key, pending) succeeded; the transfer is now remembered.
Announce(s) ==
    /\ step[s] = "announce"
    /\ key' = [key EXCEPT ![out[s]] = "pending"]
    /\ step' = [step EXCEPT ![s] = "send"]
    /\ UNCHANGED <<copy, roster, kicked, draining, out, peerVars, seen,
                   cmds, directory, claim, marker, banned, belated>>

\* It threw, perhaps after the key was written: no command was sent, unfreeze.
AnnounceFails(s) ==
    /\ step[s] = "announce"
    /\ key' \in {key, [key EXCEPT ![out[s]] = "pending"]}
    /\ copy' = [copy EXCEPT ![s] = "active"]
    /\ out' = [out EXCEPT ![s] = NoTransfer]
    /\ step' = [step EXCEPT ![s] = "idle"]
    /\ UNCHANGED <<roster, kicked, draining, peerVars, seen,
                   cmds, directory, claim, marker, banned, belated>>

\* exportForHandOff and xAdd of AdoptRoom to the chosen peer; the call may fail
\* with the command in the stream or not.  Either way the source goes on to settle.
Send(s, p) ==
    /\ step[s] = "send" /\ p # s
    /\ cmds' \in {cmds, cmds \cup {[id |-> out[s], from |-> s, to |-> p,
                                    members |-> roster[s]]}}
    /\ step' = [step EXCEPT ![s] = "cas"]
    /\ UNCHANGED <<copy, roster, kicked, draining, out, peerVars, seen,
                   key, directory, claim, marker, banned, belated>>

\* A later round of the loop takes up an unresolved transfer again.
ResumeSettle(s) ==
    /\ step[s] = "idle" /\ out[s] # NoTransfer /\ copy[s] = "frozen"
    /\ step' = [step EXCEPT ![s] = "cas"]
    /\ UNCHANGED <<copy, roster, kicked, draining, out, peerVars, seen, redisVars, banned, belated>>

\* settle: compare-and-set pending -> cancelled, contending with the peer's commit.
NotCancelled(t) == key
CancelledUnlessCommitted(t) ==
    [key EXCEPT ![t] = IF @ = "pending" THEN "cancelled" ELSE @]

SettleCas(s) ==
    /\ step[s] = "cas"
    /\ key' = CancelledUnlessCommitted(out[s])
    /\ step' = [step EXCEPT ![s] = "read"]
    /\ UNCHANGED <<copy, roster, kicked, draining, out, peerVars, seen,
                   cmds, directory, claim, marker, banned, belated>>

\* Either call of settle throws: the source remains frozen with the transfer pending.
SettleFails(s) ==
    /\ \/ step[s] = "cas" /\ key' \in {key, CancelledUnlessCommitted(out[s])}
       \/ step[s] = "read" /\ UNCHANGED key
    /\ step' = [step EXCEPT ![s] = "idle"]
    /\ UNCHANGED <<copy, roster, kicked, draining, out, peerVars, seen,
                   cmds, directory, claim, marker, banned, belated>>

\* settle reads the outcome: committed drops the copy (forgetRoom,
\* releaseAfterHandOff, sweep), cancelled thaws it, anything else stays frozen.
SettleRead(s) ==
    /\ step[s] = "read"
    /\ step' = [step EXCEPT ![s] = "idle"]
    /\ CASE key[out[s]] = "committed" ->
              /\ copy' = [copy EXCEPT ![s] = "absent"]
              /\ roster' = [roster EXCEPT ![s] = {}]
              /\ kicked' = [kicked EXCEPT ![s] = {}]
              /\ out' = [out EXCEPT ![s] = NoTransfer]
         [] key[out[s]] = "cancelled" ->
              /\ copy' = [copy EXCEPT ![s] = "active"]
              /\ out' = [out EXCEPT ![s] = NoTransfer]
              /\ UNCHANGED <<roster, kicked>>
         [] OTHER -> UNCHANGED <<copy, roster, kicked, out>>
    /\ UNCHANGED <<draining, peerVars, seen, redisVars, banned, belated>>

------------------------------------------------------------------------------
(* The peer: #adoptRoom, run by the command consumer one command at a time. *)

\* process(): a command whose reply is cached is answered from the cache.
FirstDelivery(p, c) == c \in cmds /\ c.to = p /\ c.id \notin handled

\* A first delivery is refused without a trace of the room: expired, draining,
\* the room already here (active, frozen or staged), server full, unknown map.
Refuse(p, c) ==
    /\ FirstDelivery(p, c)
    /\ copy[p] # "dead" /\ astep[p] = "idle" /\ adopting[p] # c.id
    /\ handled' = handled \cup {c.id}
    /\ UNCHANGED <<copy, roster, kicked, draining, srcVars, adopting, astep, seen,
                   redisVars, banned, belated>>

\* RoomManager.adoptRoom(payload, staged): the room is built but not listed.
Stage(p, c) ==
    /\ FirstDelivery(p, c)
    /\ p \notin draining /\ copy[p] = "absent" /\ astep[p] = "idle"
    /\ c.members # {}
    /\ copy' = [copy EXCEPT ![p] = "staged"]
    /\ roster' = [roster EXCEPT ![p] = c.members]
    /\ adopting' = [adopting EXCEPT ![p] = c.id]
    /\ astep' = [astep EXCEPT ![p] = "readkey"]
    /\ UNCHANGED <<kicked, draining, srcVars, seen, handled, redisVars, banned, belated>>

\* Redelivery of a command whose outcome could not be read: the staged room is
\* still here, and neither the deadline nor draining turns it away.
Redeliver(p) ==
    /\ copy[p] = "staged" /\ astep[p] = "idle"
    /\ astep' = [astep EXCEPT ![p] = "readkey"]
    /\ UNCHANGED <<copy, roster, kicked, draining, srcVars, adopting, handled, seen,
                   redisVars, banned, belated>>

\* commitAdoptedRoom: list the room and remember the reply.
Activate(p) ==
    /\ copy' = [copy EXCEPT ![p] = "active"]
    /\ adopting' = [adopting EXCEPT ![p] = NoTransfer]
    /\ astep' = [astep EXCEPT ![p] = "idle"]
    /\ handled' = handled \cup {adopting[p]}
    /\ UNCHANGED <<roster, kicked>>

\* discardStagedRoom and a failure reply.
Discard(p) ==
    /\ copy' = [copy EXCEPT ![p] = "absent"]
    /\ roster' = [roster EXCEPT ![p] = {}]
    /\ adopting' = [adopting EXCEPT ![p] = NoTransfer]
    /\ astep' = [astep EXCEPT ![p] = "idle"]
    /\ handled' = handled \cup {adopting[p]}
    /\ UNCHANGED kicked

\* The first read of the transfer key: already committed, or go and claim.
ReadKey(p) ==
    /\ astep[p] = "readkey"
    /\ IF key[adopting[p]] = "committed"
       THEN Activate(p)
       ELSE /\ astep' = [astep EXCEPT ![p] = "claim"]
            /\ UNCHANGED <<copy, roster, kicked, adopting, handled>>
    /\ UNCHANGED <<draining, srcVars, seen, redisVars, banned, belated>>

ReadKeyFails(p) ==
    /\ astep[p] = "readkey"
    /\ astep' = [astep EXCEPT ![p] = "reconcile"]
    /\ UNCHANGED <<copy, roster, kicked, draining, srcVars, adopting, handled, seen,
                   redisVars, banned, belated>>

\* claimAdoptedRoom's fence: the transfer pending, the directory entry and the
\* claim of every member still the source's.
FenceWithoutTransfer(c) ==
    /\ directory = c.from
    /\ \A u \in c.members : claim[u] = c.from
Fence(c) ==
    /\ key[c.id] = "pending"
    /\ directory = c.from
    /\ \A u \in c.members : claim[u] = c.from

\* compareAndSetMany moves the key, the directory entry and all claims at once.
CommitKeys(p, c) ==
    /\ key' = [key EXCEPT ![c.id] = "committed"]
    /\ directory' = p
    /\ claim' = [u \in User |-> IF u \in c.members THEN p ELSE claim[u]]

\* It succeeds and says so.
Claim(p, c) ==
    /\ astep[p] = "claim" /\ c \in cmds /\ c.id = adopting[p]
    /\ Fence(c)
    /\ CommitKeys(p, c)
    /\ Activate(p)
    /\ UNCHANGED <<draining, srcVars, seen, cmds, marker, banned, belated>>

\* It fails the fence, or the call breaks before or after it took effect.
ClaimFails(p, c) ==
    /\ astep[p] = "claim" /\ c \in cmds /\ c.id = adopting[p]
    /\ \/ UNCHANGED <<key, directory, claim>>
       \/ Fence(c) /\ CommitKeys(p, c)
    /\ astep' = [astep EXCEPT ![p] = "reconcile"]
    /\ UNCHANGED <<copy, roster, kicked, draining, srcVars, adopting, handled, seen,
                   cmds, marker, banned, belated>>

\* After an error the transfer key decides, whatever the error was.
ReconcileDiscarding(p) ==
    /\ astep[p] = "reconcile"
    /\ Discard(p)
    /\ UNCHANGED <<draining, srcVars, seen, redisVars, banned, belated>>

Reconcile(p) ==
    /\ astep[p] = "reconcile"
    /\ IF key[adopting[p]] = "committed" THEN Activate(p) ELSE Discard(p)
    /\ UNCHANGED <<draining, srcVars, seen, redisVars, banned, belated>>

\* The key cannot be read either: no reply, no ack, the staged room stays.
ReconcileFails(p) ==
    /\ astep[p] = "reconcile"
    /\ astep' = [astep EXCEPT ![p] = "idle"]
    /\ UNCHANGED <<copy, roster, kicked, draining, srcVars, adopting, handled, seen,
                   redisVars, banned, belated>>

------------------------------------------------------------------------------
RoomStep(s) ==
    \/ \E u \in User : Join(s, u) \/ Leave(s, u) \/ Kick(s, u) \/ RestoreClaim(s, u)
    \/ BeginDrain(s) \/ Crash(s)
    \/ ListRooms(s) \/ PublishRead(s) \/ PublishWrite(s) \/ PublishFails(s)
    \/ Unpublish(s) \/ RefreshMarkers(s)

SourceStep(s) ==
    \/ \E t \in Transfer : Freeze(s, t)
    \/ Announce(s) \/ AnnounceFails(s)
    \/ \E p \in Server : Send(s, p)
    \/ ResumeSettle(s) \/ SettleCas(s) \/ SettleFails(s) \/ SettleRead(s)

PeerStepOf(p) ==
    \/ \E c \in cmds : Refuse(p, c) \/ Stage(p, c) \/ Claim(p, c) \/ ClaimFails(p, c)
    \/ Redeliver(p) \/ ReadKey(p) \/ ReadKeyFails(p)
    \/ Reconcile(p) \/ ReconcileFails(p)

Next ==
    \/ \E s \in Server : RoomStep(s) \/ SourceStep(s) \/ PeerStepOf(s)
    \/ Expire

Spec == Init /\ [][Next]_vars

------------------------------------------------------------------------------
(* Which copy counts.  Until the peer's compare-and-set the source's, frozen *)
(* or not; from then on the peer's, listed or not.                           *)
Authoritative(s) ==
    \/ copy[s] = "active"
    \/ copy[s] = "frozen" /\ key[out[s]] # "committed"
    \/ copy[s] = "staged" /\ key[adopting[s]] = "committed"

\* Two servers never both hold the copy that counts; in particular no two ever
\* run the same room, whatever call fails after having taken effect (hand-off.ts
\* settle against command-consumer.ts #adoptRoom).
SingleAuthority ==
    \A s, p \in Server : Authoritative(s) /\ Authoritative(p) => s = p

\* A step after which no copy counts any more killed the process that held it,
\* or took the last member out of it.
LossIsDeathOrEmptiness ==
    \A s \in Server :
        Authoritative(s) /\ ~ (\E p \in Server : Authoritative(p)')
        => copy'[s] = "dead" \/ (copy[s] = "active" /\ Cardinality(roster[s]) = 1)

\* The copy that counts disappears only with its process or its last member: a
\* settled, reconciled or refused transfer never drops a room both sides gave up
\* (settle releases and #adoptRoom discards on the same key).
OnlyDeathOrEmptinessLosesTheRoom == [][LossIsDeathOrEmptiness]_vars

\* While a room lives, its directory entry and its members' active-room claims name
\* the server whose copy counts or are absent: a publisher that read the entry before
\* the move, or a registry that cleans up after it, never sends a player to the old
\* server (registry.ts #publishRoom, forgetRoom).  The exception is an entry that ran
\* out at the new server and that a round begun before the move finds missing: the old
\* server puts up its own.  The room does not run there, then or ever again.
RoutesLeadToTheRoom ==
    /\ \A s \in Server : Authoritative(s) =>
           /\ directory \in {s, NoServer} \cup belated
           /\ \A u \in roster[s] : claim[u] \in {s, NoServer}
    /\ \A p \in belated : copy[p] \notin {"active", "frozen"}

\* A user kicked from the room does not get back in while the room lives.
KickedStaysOut ==
    \A s \in Server : copy[s] = "active" => roster[s] \cap banned = {}

------------------------------------------------------------------------------
(* Why it works.  SingleAuthority is not inductive on its own: it rests on    *)
(* what a source and a peer remember of their transfer and on what a command  *)
(* in a stream still promises.                                                *)
Open == {c \in cmds : key[c.id] = "pending"}

\* A room is frozen exactly while its transfer is open here, ids are not reused,
\* and before the command is sent nobody else can have touched the key.
SourceInv ==
    \A s \in Server :
        /\ copy[s] = "frozen" <=> out[s] # NoTransfer
        /\ step[s] # "idle" => copy[s] = "frozen"
        /\ \A p \in Server : out[s] # NoTransfer /\ out[p] = out[s] => p = s
        /\ step[s] = "announce" => key[out[s]] = "none"
        /\ step[s] = "send" => /\ key[out[s]] = "pending"
                              /\ \A c \in cmds : c.id # out[s]

\* A room is staged exactly while its adoption is open, for a command sent here.
PeerInv ==
    \A p \in Server :
        /\ copy[p] = "staged" <=> adopting[p] # NoTransfer
        /\ astep[p] # "idle" => copy[p] = "staged"
        /\ copy[p] = "staged" => \E c \in cmds : c.id = adopting[p] /\ c.to = p

\* A command's transfer was announced; while it is pending its source is frozen
\* on it or dead, and the room of a dead source runs nowhere.  Once committed it
\* is never taken up from the beginning again.
CommandInv ==
    /\ \A c, d \in cmds : c.id = d.id => c = d
    /\ \A c \in cmds : key[c.id] # "none"
    /\ \A c \in Open : \/ copy[c.from] = "dead"
                       \/ copy[c.from] = "frozen" /\ out[c.from] = c.id
    /\ \A c, d \in Open : c = d
    /\ \A c \in Open : copy[c.from] = "dead" => \A s \in Server : ~ Authoritative(s)
    /\ \A c \in cmds : key[c.id] = "committed" =>
           c.id \in handled \/ adopting[c.to] = c.id \/ copy[c.to] = "dead"

\* The inductive invariant: with it, no open command can ever commit next to a
\* copy that counts, whichever of source and peer is dead, late or unsure.
HandOffInv ==
    /\ TypeOK
    /\ SingleAuthority
    /\ SourceInv
    /\ PeerInv
    /\ CommandInv

\* A server that will not have the room again: it is dead, it drains without the room,
\* or the room is nowhere and no transfer is open.
Gone(s) ==
    \/ copy[s] = "dead"
    \/ copy[s] = "absent" /\ s \in draining
    \/ /\ copy[s] \notin {"active", "frozen"}
       /\ \A p \in Server : ~ Authoritative(p)
       /\ Open = {}

\* A publisher writes over its own entry or over none.  One that has the room and found
\* none is the only copy that counts: nobody can take the room over from there before
\* its write, because the fence wants the entry.  One that has listed the room has it
\* still or has lost it for good, as has every server whose belated entry was put up.
PublisherInv ==
    \A s \in Server :
        /\ seen[s] \in {s, NoServer, Unlisted, Listed}
        /\ copy[s] = "frozen" => s \in draining
        /\ seen[s] # Unlisted => copy[s] \in {"active", "frozen"} \/ Gone(s)
        /\ s \in belated => Gone(s)
        /\ seen[s] = NoServer /\ copy[s] \in {"active", "frozen"} =>
               /\ directory # s
               /\ \A p \in Server : Authoritative(p) => p = s
               /\ \A c \in Open : c.from = s

\* A room has members; a command in a stream carries the roster of its frozen
\* source, and a staged room the roster of its command.
RosterInv ==
    /\ \A s \in Server : copy[s] \in {"active", "frozen", "staged"} => roster[s] # {}
    /\ \A c \in cmds : c.members # {}
    /\ \A p \in Server, c \in cmds :
           copy[p] = "staged" /\ c.id = adopting[p] => roster[p] = c.members
    /\ \A c \in Open : copy[c.from] = "frozen" => roster[c.from] = c.members

------------------------------------------------------------------------------
(* The protocol implements RoomOwnership.  A source that died with its       *)
(* transfer open leaves a roster that the peer may still take over.          *)
Owner ==
    IF \E s \in Server : Authoritative(s)
    THEN CHOOSE s \in Server : Authoritative(s)
    ELSE NoServer

Members ==
    IF Owner # NoServer THEN roster[Owner]
    ELSE IF Open # {} THEN (CHOOSE c \in Open : TRUE).members
    ELSE {}

Ownership == INSTANCE RoomOwnership
                 WITH Nobody <- NoServer, owner <- Owner, members <- Members

\* Every behaviour of the protocol is one of a room that has a single owner and
\* moves in one step with the roster it has at that moment: no join, leave or
\* kick is lost between exportForHandOff and commitAdoptedRoom.
ImplementsOwnership == Ownership!OwnershipSpec

------------------------------------------------------------------------------
(* Progress.  The drain loop runs every second and the command consumer polls *)
(* for ever, so a step that stays possible is taken (WF); Redis errors do not *)
(* go on for ever, so a call retried again and again succeeds once (SF).      *)
Fairness ==
    \A s \in Server :
        /\ WF_vars(Announce(s) \/ AnnounceFails(s))
        /\ WF_vars(\E p \in Server : Send(s, p))
        /\ WF_vars(ResumeSettle(s))
        /\ SF_vars(SettleCas(s))
        /\ SF_vars(SettleRead(s))
        /\ WF_vars(Redeliver(s))
        /\ SF_vars(ReadKey(s))
        /\ WF_vars(\E c \in cmds : Claim(s, c) \/ ClaimFails(s, c))
        /\ SF_vars(Reconcile(s))

FairSpec == Spec /\ Fairness

\* A frozen room is thawed or released and a staged one listed or discarded:
\* no error and no crash of the other side leaves players in a room that
\* answers nothing ("source remains frozen" until Redis proves the outcome).
NobodyStaysInLimbo ==
    \A s \in Server : copy[s] \in {"frozen", "staged"} ~> copy[s] \in {"active", "absent", "dead"}
==============================================================================
