---------------------------- MODULE ResultPipeline ----------------------------
(***************************************************************************)
(* The way of a match result from the in-game server that played it to the *)
(* database, and of the next match id back to the room                     *)
(* (server-game/src/redis/result-outbox.ts, result-journal.ts,             *)
(* server-match/src/results/result.worker.ts, result.service.ts).          *)
(*                                                                         *)
(* One Match-mode room, played again and again.  nextMatchId is a function *)
(* of the finished id, so the ids of the room are 0, 1, 2, ...  The room   *)
(* may move between games; a move is one step (HandOff!ImplementsOwnership).*)
(*                                                                         *)
(* A step is the code between two awaits.  A call that fails after it took *)
(* effect is the step followed by a Throw.                                 *)
(***************************************************************************)
EXTENDS Naturals, Sequences, FiniteSets

CONSTANTS Server,     \* in-game servers; they share the journal directory
          Worker,     \* result workers, one per matching server
          Request,    \* resume requests that may be under way together
          NoServer, NoMatch,
          MaxMatch,   \* bound: ids 0..MaxMatch are issued
          MaxCopies,  \* bound: entries of one result in the stream
          MaxMoves,   \* bound: moves of the room
          MaxGrants,  \* bound: grants waiting in one command stream
          MaxEntries  \* ResultOutboxOptions.maxEntries

ASSUME PipelineAssumption ==
    /\ NoServer \notin Server
    /\ MaxMatch \in Nat /\ NoMatch \notin 0..MaxMatch
    /\ MaxCopies \in Nat /\ MaxMoves \in Nat /\ MaxGrants \in Nat /\ MaxEntries \in Nat

Match  == 0..MaxMatch
Result == [match: Match, server: Server]
Entry  == [result: Result, copy: 1..MaxCopies]
MatchOrNone  == Match \cup {NoMatch}
ServerOrNone == Server \cup {NoServer}

VARIABLES
    \* the room
    at,        \* the server that has it
    current,   \* Room.matchId
    granted,   \* Room.#grantedMatchId
    played,    \* #playedGames > 0
    playing,   \* between requestStart and the end of the game
    connected, \* enough members have a connection here to start
    drained,   \* servers that gave the room away
    \* memory and disk of the in-game servers
    dead,      \* servers that crashed
    saving,    \* games that ended, whose recorder is still saving
    queue,     \* ResultOutbox.#queue; #journalFailed while it is not empty
    publishing,\* result a flush took the lease for
    journal,   \* the shared journal directory
    \* Redis
    lease,     \* matches with a live result-publish key
    stream,    \* result stream entries that are not acknowledged
    receipt,   \* matches with a result-persisted key
    grants,    \* GRANT_MATCH commands in each server's stream
    directory, \* the room's directory entry: serverId and pendingMatchId
    \* PostgreSQL
    row,       \* serverId of each issued match; NoServer: no such row
    recorded,  \* matches with resultRecordedAt
    unassigned,\* matches where the assignment of somebody who plays is missing
    \* the matching servers
    wstep, wentry, wowner, \* processEntry: position, entry, ownerServerId
    request,   \* resume(): position and what it read of the directory
    \* history
    finished,  \* results of all games played to the end
    perished,  \* results that died with their process before they were on disk
    plays      \* games started with each id

roomVars   == <<at, current, granted, played, playing, connected, drained>>
outboxVars == <<saving, queue, publishing, journal>>
workerVars == <<wstep, wentry, wowner>>
histVars   == <<finished, perished, plays>>
vars == <<roomVars, dead, outboxVars, lease, stream, receipt, grants, directory,
          row, recorded, unassigned, workerVars, request, histVars>>

WorkerStep == {"idle", "owner", "issue", "reassign", "send", "receipt", "ack"}

TypeOK ==
    /\ at \in ServerOrNone /\ current \in Match /\ granted \in MatchOrNone
    /\ played \in BOOLEAN /\ playing \in BOOLEAN /\ connected \in BOOLEAN
    /\ drained \subseteq Server
    /\ dead \subseteq Server
    /\ saving \in [Server -> SUBSET Result]
    /\ queue \in [Server -> SUBSET Result]
    /\ publishing \in [Server -> SUBSET Result]
    /\ journal \subseteq Result
    /\ lease \subseteq Match /\ receipt \subseteq Match /\ recorded \subseteq Match
    /\ unassigned \subseteq Match
    /\ stream \subseteq Entry
    /\ grants \in [Server -> Seq(Match)]
    /\ directory \in [server: ServerOrNone, pending: MatchOrNone]
    /\ row \in [Match -> ServerOrNone]
    /\ wstep \in [Worker -> WorkerStep]
    /\ wentry \in [Worker -> SUBSET Entry]
    /\ wowner \in [Worker -> ServerOrNone]
    /\ request \in [Request -> [step: {"idle", "reassign", "reserve"},
                                server: ServerOrNone, match: MatchOrNone]]
    /\ finished \subseteq Result /\ perished \subseteq Result
    /\ plays \in [Match -> Nat]

NoRequest == [step |-> "idle", server |-> NoServer, match |-> NoMatch]

\* RoomProjection.pendingMatchId
PendingMatch == IF played THEN granted ELSE current

\* The matching server issued match 0 to some server, which made the room.
Init ==
    /\ at \in Server
    /\ current = 0 /\ granted = NoMatch
    /\ played = FALSE /\ playing = FALSE /\ connected = TRUE /\ drained = {}
    /\ dead = {}
    /\ saving = [s \in Server |-> {}]
    /\ queue = [s \in Server |-> {}]
    /\ publishing = [s \in Server |-> {}]
    /\ journal = {} /\ lease = {} /\ receipt = {} /\ recorded = {} /\ stream = {}
    /\ unassigned = {}
    /\ grants = [s \in Server |-> <<>>]
    /\ directory = [server |-> at, pending |-> 0]
    /\ row = [m \in Match |-> IF m = 0 THEN at ELSE NoServer]
    /\ wstep = [w \in Worker |-> "idle"]
    /\ wentry = [w \in Worker |-> {}]
    /\ wowner = [w \in Worker |-> NoServer]
    /\ request = [q \in Request |-> NoRequest]
    /\ finished = {} /\ perished = {} /\ plays = [m \in Match |-> 0]

------------------------------------------------------------------------------
(* The room and its server.                                                  *)

\* canStartNewGame: nothing waits for the disk, and the journal is not full.  The
\* flag #journalFailed falls only at the next flush; a start that it still refuses is
\* a step the host does not take.
CanStartNewGame(s) == queue[s] = {} /\ Cardinality(journal) < MaxEntries

\* The id of the next game: the first has the room's, every other a granted one.
OwnId == IF played /\ current < MaxMatch THEN current + 1 ELSE current
GameId == IF played THEN granted ELSE current

\* requestStart, which uses up the grant.
RequestStart ==
    /\ at # NoServer /\ ~ playing /\ connected
    /\ CanStartNewGame(at)
    /\ GameId # NoMatch
    /\ current' = GameId
    /\ granted' = IF played THEN NoMatch ELSE granted
    /\ played' = TRUE /\ playing' = TRUE
    /\ plays' = [plays EXCEPT ![current'] = @ + 1]
    /\ UNCHANGED <<at, connected, drained, dead, outboxVars, lease, stream, receipt,
                   grants, directory, row, recorded, unassigned, workerVars, request,
                   finished, perished>>

\* The session ends: result screen and lobby follow while the replay is saved.
GameEnds ==
    /\ playing
    /\ playing' = FALSE
    /\ LET r == [match |-> current, server |-> at] IN
         /\ saving' = [saving EXCEPT ![at] = @ \cup {r}]
         /\ finished' = finished \cup {r}
    /\ UNCHANGED <<at, current, granted, played, connected, drained, dead, queue,
                   publishing, journal, lease, stream, receipt, grants, directory,
                   row, recorded, unassigned, workerVars, request, perished, plays>>

\* Everybody left: the room closes, a running game is stopped without a result.
RoomCloses ==
    /\ at # NoServer
    /\ at' = NoServer /\ playing' = FALSE /\ connected' = FALSE
    /\ UNCHANGED <<current, granted, played, drained, dead, outboxVars, lease, stream,
                   receipt, grants, directory, row, recorded, unassigned, workerVars, request, histVars>>

\* A waiting room moves, while its entry names it (HandOff!Fence).  Only a server that
\* drains gives it away; draining is for ever (HandOff!BeginDrain) and refuses ADOPT_ROOM,
\* so no server gets the room a second time.  canHandOff: a room that has played needs
\* its grant.
RoomMoves(p) ==
    /\ at # NoServer /\ p \notin {at} \cup drained \cup dead
    /\ directory.server = at
    /\ Cardinality(drained) < MaxMoves
    /\ ~ playing /\ (played => granted # NoMatch)
    /\ at' = p /\ connected' = FALSE /\ drained' = drained \cup {at}
    /\ directory' = [server |-> p, pending |-> PendingMatch]
    /\ UNCHANGED <<current, granted, played, playing, dead, outboxVars, lease, stream,
                   receipt, grants, row, recorded, unassigned, workerVars, request, histVars>>

NoEntry == [server |-> NoServer, pending |-> NoMatch]

\* The registry publishes the room, or takes its entry down; another server's entry
\* it leaves alone until that has run out.
PublishRoom ==
    /\ directory' = IF at # NoServer /\ directory.server \in {at, NoServer}
                    THEN [server |-> at, pending |-> PendingMatch]
                    ELSE NoEntry
    /\ UNCHANGED <<roomVars, dead, outboxVars, lease, stream, receipt, grants,
                   row, recorded, unassigned, workerVars, request, histVars>>

\* The entry's 6 s are over while its server does not reach Redis ...
EntryRunsOut ==
    /\ directory.server # NoServer
    /\ directory' = NoEntry
    /\ UNCHANGED <<roomVars, dead, outboxVars, lease, stream, receipt, grants,
                   row, recorded, unassigned, workerVars, request, histVars>>

\* ... and one that gave the room away puts up its own, from a round begun before the
\* move (HandOff!Belated), with an id that was pending then.
BelatedEntry(s, m) ==
    /\ s \in drained \ dead /\ directory.server = NoServer
    /\ m # NoMatch => row[m] # NoServer
    /\ directory' = [server |-> s, pending |-> m]
    /\ UNCHANGED <<roomVars, dead, outboxVars, lease, stream, receipt, grants,
                   row, recorded, unassigned, workerVars, request, histVars>>

\* The process dies: its room, its running saves and its queue are gone.
ServerDies(s) ==
    /\ s \notin dead
    /\ dead' = dead \cup {s}
    /\ perished' = perished \cup ((saving[s] \cup queue[s]) \ journal)
    /\ saving' = [saving EXCEPT ![s] = {}]
    /\ queue' = [queue EXCEPT ![s] = {}]
    /\ publishing' = [publishing EXCEPT ![s] = {}]
    /\ IF at = s
       THEN at' = NoServer /\ playing' = FALSE /\ connected' = FALSE
       ELSE UNCHANGED <<at, playing, connected>>
    /\ UNCHANGED <<current, granted, played, drained, journal, lease, stream, receipt,
                   grants, directory, row, recorded, unassigned, workerVars, request,
                   finished, plays>>

------------------------------------------------------------------------------
(* The outbox.                                                               *)

\* append: link(2) never replaces an entry of the same match.
NoConflict(rs) == \A r \in rs, j \in journal : r.match = j.match => r = j

\* #persistPending: done reaches the disk, kept stays in memory because an append
\* threw.  Both have the entry whose link worked and whose directory sync did not.
\* The queue is a set: what is behind an entry that fails may overtake it.
Persist(s, pending) ==
    \E done, kept \in SUBSET pending :
        /\ pending = done \cup kept /\ NoConflict(done)
        /\ journal' = journal \cup done
        /\ queue' = [queue EXCEPT ![s] = kept]

\* onFinished, enqueue: the recorder has saved, the result goes to queue and disk.
Enqueue(s, r) ==
    /\ r \in saving[s]
    /\ saving' = [saving EXCEPT ![s] = @ \ {r}]
    /\ Persist(s, queue[s] \cup {r})
    /\ UNCHANGED <<roomVars, dead, publishing, lease, stream, receipt, grants, directory,
                   row, recorded, unassigned, workerVars, request, histVars>>

\* #flushJournal begins: what failed before goes to the disk, or waits on.
PersistPending(s) ==
    /\ queue[s] # {}
    /\ Persist(s, queue[s])
    /\ UNCHANGED <<roomVars, dead, saving, publishing, lease, stream, receipt, grants,
                   directory, row, recorded, unassigned, workerVars, request, histVars>>

\* isPersisted said yes, and only then may the file go.
Sent(r) == \E e \in stream : e.result = r
Persisted(r) == r.match \in receipt

Acknowledge(s, r) ==
    /\ s \notin dead /\ r \in journal /\ publishing[s] = {}
    /\ Persisted(r)
    /\ journal' = journal \ {r}
    /\ UNCHANGED <<roomVars, dead, saving, queue, publishing, lease, stream,
                   receipt, grants, directory, row, recorded, unassigned, workerVars, request, histVars>>

\* It said no: take the shared lease, or leave the entry to who has it.  The answer
\* may be old when the lease is taken; that is a lease taken at once that has expired.
TakeLease(s, r) ==
    /\ s \notin dead /\ r \in journal /\ publishing[s] = {}
    /\ ~ Persisted(r) /\ r.match \notin lease
    /\ lease' = lease \cup {r.match}
    /\ publishing' = [publishing EXCEPT ![s] = {r}]
    /\ UNCHANGED <<roomVars, dead, saving, queue, journal, stream, receipt,
                   grants, directory, row, recorded, unassigned, workerVars, request, histVars>>

\* xAdd to the result stream.
Publish(s, e) ==
    /\ publishing[s] = {e.result} /\ e \notin stream
    /\ stream' = stream \cup {e}
    /\ publishing' = [publishing EXCEPT ![s] = {}]
    /\ UNCHANGED <<roomVars, dead, saving, queue, journal, lease, receipt,
                   grants, directory, row, recorded, unassigned, workerVars, request, histVars>>

\* It threw, before or after it took effect; the lease is given back if that works.
PublishFails(s) ==
    /\ publishing[s] # {}
    /\ publishing' = [publishing EXCEPT ![s] = {}]
    /\ \E r \in publishing[s] :
         /\ lease' \in {lease, lease \ {r.match}}
         /\ \/ UNCHANGED stream
            \/ \E n \in 1..MaxCopies : stream' = stream \cup {[result |-> r, copy |-> n]}
    /\ UNCHANGED <<roomVars, dead, saving, queue, journal, receipt,
                   grants, directory, row, recorded, unassigned, workerVars, request, histVars>>

\* 30 s are over.
LeaseExpires(m) ==
    /\ m \in lease
    /\ lease' = lease \ {m}
    /\ UNCHANGED <<roomVars, dead, outboxVars, stream, receipt, grants, directory,
                   row, recorded, unassigned, workerVars, request, histVars>>

\* Redis drops a receipt after its TTL, or a stream entry beyond MAXLEN.
RedisForgets ==
    /\ \/ \E m \in receipt : receipt' = receipt \ {m} /\ UNCHANGED stream
       \/ \E e \in stream : stream' = stream \ {e} /\ UNCHANGED receipt
    /\ UNCHANGED <<roomVars, dead, outboxVars, lease, grants, directory,
                   row, recorded, unassigned, workerVars, request, histVars>>

------------------------------------------------------------------------------
(* The result worker: processEntry, one entry at a time, but another worker   *)
(* claims an entry that has been idle for 30 s.                               *)

TheResult(w) == (CHOOSE e \in wentry[w] : TRUE).result
NextMatchId(m) == m + 1

\* record: the row is the authority; it must name the sender, and everybody who played
\* must be assigned to it (the row's room is always this one).
RowNamesSender(r) == row[r.match] = r.server
Recordable(r) == RowNamesSender(r) /\ r.match \notin unassigned
Outcome(r) ==
    IF r.match \in recorded THEN "duplicate"
    ELSE IF Recordable(r) THEN "stored" ELSE "invalid"

\* A refused result is acknowledged in the stream, without a receipt.
SettleRefused(r) == "owner"
AfterRecord(r) == IF Outcome(r) = "invalid" THEN "ack" ELSE "owner"

\* What the transaction leaves behind.
Committed(r) == IF Outcome(r) = "stored" THEN recorded \cup {r.match} ELSE recorded

Record(w, e) ==
    /\ wstep[w] = "idle" /\ e \in stream
    /\ recorded' = Committed(e.result)
    /\ wentry' = [wentry EXCEPT ![w] = {e}]
    /\ wstep' = [wstep EXCEPT ![w] = AfterRecord(e.result)]
    /\ UNCHANGED <<roomVars, dead, outboxVars, lease, stream, receipt, grants, directory,
                   row, unassigned, wowner, request, histVars>>

\* grantNextMatch reads the directory; without an entry the result's server.
ReadOwner(w) ==
    /\ wstep[w] = "owner"
    /\ wowner' = [wowner EXCEPT ![w] = IF directory.server = NoServer
                                       THEN TheResult(w).server ELSE directory.server]
    /\ wstep' = [wstep EXCEPT ![w] = "issue"]
    /\ UNCHANGED <<roomVars, dead, outboxVars, lease, stream, receipt, grants, directory,
                   row, recorded, unassigned, wentry, request, histVars>>

\* issueNextMatch: the successor's row with the assignments of the match before, unless
\* it has been played already or nobody is assigned any more.  At the bound on ids it
\* answers null.
MayIssue(r) == r.match \in recorded /\ row[r.match] = r.server /\ NextMatchId(r.match) \in Match \ recorded

IssueNextMatch(w) ==
    LET r == TheResult(w)  next == NextMatchId(r.match) IN
    /\ wstep[w] = "issue"
    /\ \/ /\ MayIssue(r) => row[next] = NoServer /\ r.match \in unassigned
          /\ wstep' = [wstep EXCEPT ![w] = "receipt"]
          /\ UNCHANGED <<row, unassigned>>
       \/ /\ MayIssue(r)
          /\ wstep' = [wstep EXCEPT ![w] = "reassign"]
          /\ row' = [row EXCEPT ![next] = IF @ = NoServer THEN wowner[w] ELSE @]
          /\ unassigned' = IF row[next] = NoServer /\ r.match \in unassigned
                           THEN unassigned \cup {next} ELSE unassigned
    /\ UNCHANGED <<roomVars, dead, outboxVars, lease, stream, receipt, grants, directory,
                   recorded, wentry, wowner, request, histVars>>

\* reassignPendingMatch touches a row without a recorded result.
Reassigned(m, s) ==
    [row EXCEPT ![m] = IF @ # NoServer /\ m \notin recorded THEN s ELSE @]

ReassignToOwner(w) ==
    /\ wstep[w] = "reassign"
    /\ row' = Reassigned(NextMatchId(TheResult(w).match), wowner[w])
    /\ wstep' = [wstep EXCEPT ![w] = "send"]
    /\ UNCHANGED <<roomVars, dead, outboxVars, lease, stream, receipt, grants, directory,
                   recorded, unassigned, wentry, wowner, request, histVars>>

SendGrant(w) ==
    /\ wstep[w] = "send" /\ Len(grants[wowner[w]]) < MaxGrants
    /\ grants' = [grants EXCEPT ![wowner[w]] = Append(@, NextMatchId(TheResult(w).match))]
    /\ wstep' = [wstep EXCEPT ![w] = "receipt"]
    /\ UNCHANGED <<roomVars, dead, outboxVars, lease, stream, receipt, directory,
                   row, recorded, unassigned, wentry, wowner, request, histVars>>

WriteReceipt(w) ==
    /\ wstep[w] = "receipt"
    /\ receipt' = receipt \cup {TheResult(w).match}
    /\ wstep' = [wstep EXCEPT ![w] = "ack"]
    /\ UNCHANGED <<roomVars, dead, outboxVars, lease, stream, grants, directory,
                   row, recorded, unassigned, wentry, wowner, request, histVars>>

\* xAck, or an exception at any point: then the entry stays pending.
Ack(w) ==
    /\ wstep[w] = "ack"
    /\ stream' = stream \ wentry[w]
    /\ wstep' = [wstep EXCEPT ![w] = "idle"]
    /\ wentry' = [wentry EXCEPT ![w] = {}]
    /\ wowner' = [wowner EXCEPT ![w] = NoServer]
    /\ UNCHANGED <<roomVars, dead, outboxVars, lease, receipt, grants, directory,
                   row, recorded, unassigned, request, histVars>>

Throw(w) ==
    /\ wstep[w] # "idle"
    /\ wstep' = [wstep EXCEPT ![w] = "idle"]
    /\ wentry' = [wentry EXCEPT ![w] = {}]
    /\ wowner' = [wowner EXCEPT ![w] = NoServer]
    /\ UNCHANGED <<roomVars, dead, outboxVars, lease, stream, receipt, grants, directory,
                   row, recorded, unassigned, request, histVars>>

------------------------------------------------------------------------------
(* The command consumer.  A command that was read but not executed is claimed *)
(* again after 30 s; the deadline of a grant is 15 s, so it is then expired.  *)

\* grantMatchId ignores a replay of the id that has started.
AnyGrant(m) == TRUE
FreshGrant(m) == m # current

GrantMatch(s) ==
    /\ s \notin dead /\ grants[s] # <<>>
    /\ grants' = [grants EXCEPT ![s] = Tail(@)]
    /\ granted' = IF at = s /\ FreshGrant(Head(grants[s])) THEN Head(grants[s]) ELSE granted
    /\ UNCHANGED <<at, current, played, playing, connected, drained, dead, outboxVars, lease,
                   stream, receipt, directory, row, recorded, unassigned, workerVars, request, histVars>>

GrantExpires(s) ==
    /\ grants[s] # <<>>
    /\ grants' = [grants EXCEPT ![s] = Tail(@)]
    /\ UNCHANGED <<roomVars, dead, outboxVars, lease, stream, receipt, directory,
                   row, recorded, unassigned, workerVars, request, histVars>>

------------------------------------------------------------------------------
(* A member comes back: resume() of the matching server.                      *)

ResumeReads(q) ==
    /\ request[q].step = "idle" /\ directory.server # NoServer
    /\ request' = [request EXCEPT ![q] = [step |-> "reassign", server |-> directory.server,
                                          match |-> directory.pending]]
    /\ UNCHANGED <<roomVars, dead, outboxVars, lease, stream, receipt, grants, directory,
                   row, recorded, unassigned, workerVars, histVars>>

ResumeReassigns(q) ==
    /\ request[q].step = "reassign"
    /\ row' = IF request[q].match = NoMatch THEN row
              ELSE Reassigned(request[q].match, request[q].server)
    /\ request' = [request EXCEPT ![q].step = "reserve"]
    /\ UNCHANGED <<roomVars, dead, outboxVars, lease, stream, receipt, grants, directory,
                   recorded, unassigned, workerVars, histVars>>

\* RESERVE_RESUME, ticket and socket; it fails where the room is no longer.
ResumeConnects(q) ==
    /\ request[q].step = "reserve"
    /\ connected' = (connected \/ (at # NoServer /\ at = request[q].server))
    /\ request' = [request EXCEPT ![q] = NoRequest]
    /\ UNCHANGED <<at, current, granted, played, playing, drained, dead, outboxVars, lease,
                   stream, receipt, grants, directory, row, recorded, unassigned, workerVars, histVars>>

------------------------------------------------------------------------------
(* Joins of the matching server, reduced to what they do to the assignments.  *)

\* A rejoin that is undone takes away the assignment of the join before it
\* (Admission!AssignmentOutlivesTheGame).
JoinIsUndone(m) ==
    /\ row[m] # NoServer /\ m \notin unassigned
    /\ unassigned' = unassigned \cup {m}
    /\ UNCHANGED <<roomVars, dead, outboxVars, lease, stream, receipt, grants, directory,
                   row, recorded, workerVars, request, histVars>>

\* addAssignmentByRoom: whoever joins again is assigned to the room's latest match.
JoinIsRepeated(m) ==
    /\ m \in unassigned /\ \A k \in Match : row[k] # NoServer => k <= m
    /\ unassigned' = unassigned \ {m}
    /\ UNCHANGED <<roomVars, dead, outboxVars, lease, stream, receipt, grants, directory,
                   row, recorded, workerVars, request, histVars>>

------------------------------------------------------------------------------
EntryStep == \/ PublishRoom \/ EntryRunsOut
             \/ \E s \in Server, m \in MatchOrNone : BelatedEntry(s, m)

RoomStep == \/ RequestStart \/ GameEnds \/ RoomCloses
            \/ \E p \in Server : RoomMoves(p)
            \/ EntryStep

OutboxStep(s) ==
    \/ ServerDies(s) \/ PersistPending(s) \/ PublishFails(s)
    \/ \E r \in saving[s] : Enqueue(s, r)
    \/ \E r \in journal : Acknowledge(s, r) \/ TakeLease(s, r)
    \/ \E e \in Entry : Publish(s, e)
    \/ GrantMatch(s) \/ GrantExpires(s)

WorkerStepOf(w) ==
    \/ \E e \in stream : Record(w, e)
    \/ ReadOwner(w) \/ IssueNextMatch(w) \/ ReassignToOwner(w) \/ SendGrant(w)
    \/ WriteReceipt(w) \/ Ack(w) \/ Throw(w)

ResumeStep(q) == ResumeReads(q) \/ ResumeReassigns(q) \/ ResumeConnects(q)

JoinStep == \E m \in Match : JoinIsUndone(m) \/ JoinIsRepeated(m)

RedisStep == RedisForgets \/ \E m \in Match : LeaseExpires(m)

Next ==
    \/ RoomStep
    \/ \E s \in Server : OutboxStep(s)
    \/ \E w \in Worker : WorkerStepOf(w)
    \/ \E q \in Request : ResumeStep(q)
    \/ JoinStep
    \/ RedisStep

Spec == Init /\ [][Next]_vars

------------------------------------------------------------------------------
\* A game that was played to its end is in the database, or somebody who will send
\* it still has it: the running save, the queue or the journal.  Only a process that
\* dies before the file is linked takes a result along.  In particular nothing is
\* acknowledged that the database does not have (ResultJournal.acknowledge).
NoResultIsLost ==
    \A r \in finished :
        \/ r.match \in recorded
        \/ r \in journal \cup perished
        \/ \E s \in Server : r \in saving[s] \cup queue[s]

\* A room plays, and is promised, only ids the matching server issued, and a next
\* one only after the result before it is stored (BASE.md 593: the in-game server
\* never makes an id itself, and gets one right after the result is stored).
GrantsFollowStoredResults ==
    \A m \in {current, granted} \cap Match :
        row[m] # NoServer /\ \A k \in Match : k < m => k \in recorded

\* A grant is good for one game; a grant that Redis or a worker repeats neither
\* starts its id again nor replaces a later one (Room.grantMatchId).  It needs a
\* single worker: grantMatchId knows only the id that is current, so the grant of a
\* worker that stalled past a whole game is taken for a new one.
EachGrantPlaysOnce == \A m \in Match : plays[m] <= 1

------------------------------------------------------------------------------
(* Why no result is lost: a receipt, and a worker that is past record(), prove  *)
(* that the database has the result; and only rows of the database, each made   *)
(* after the result before it, become grants.                                   *)
ReceiptInv ==
    /\ receipt \subseteq recorded
    /\ \A w \in Worker :
         wstep[w] \in WorkerStep \ {"idle", "ack"} =>
             \E e \in Entry : wentry[w] = {e} /\ e.result.match \in recorded

Issued == {m \in Match : row[m] # NoServer /\ \A k \in Match : k < m => k \in recorded}

GrantInv ==
    /\ \A m \in Match : row[m] # NoServer => m \in Issued
    /\ current \in Issued /\ granted \in Issued \cup {NoMatch}
    /\ \A s \in Server : grants[s] \in Seq(Issued)
    /\ \A w \in Worker : wstep[w] \in {"reassign", "send"} =>
           \E e \in Entry : wentry[w] = {e} /\ NextMatchId(e.result.match) \in Issued

\* Who is named by a running game, a worker's grant or a resume is a server.
PlaceInv ==
    /\ playing => at # NoServer
    /\ \A w \in Worker : wstep[w] \in {"issue", "reassign", "send"} => wowner[w] # NoServer
    /\ \A q \in Request : request[q].step = "reassign" => request[q].server # NoServer

\* The inductive invariant: what receipts, workers and grants in flight prove
\* about the database.
PipelineInv == TypeOK /\ PlaceInv /\ NoResultIsLost /\ ReceiptInv /\ GrantInv

(* Why a single worker grants no id twice: it offers only ids without a stored *)
(* result, so the ids in a command stream never fall, and those that wait for  *)
(* the room are not older than what it plays or was promised.                  *)

\* Only games that ended leave a result, a stored one too.
TraceInv ==
    /\ journal \subseteq finished
    /\ \A s \in Server : saving[s] \cup queue[s] \cup publishing[s] \subseteq finished
    /\ \A e \in stream \cup UNION {wentry[w] : w \in Worker} : e.result \in finished
    /\ playing \/ finished # {} \/ recorded # {} => played

\* Who ever had the room, and who a grant may be sent to, has it or gave it away.
HomeInv ==
    at # NoServer =>
        /\ at \notin drained
        /\ directory.server \in drained \cup {at, NoServer}
        /\ \A w \in Worker : wowner[w] \in drained \cup {at, NoServer}
        /\ \A r \in finished : r.server \in drained \cup {at}
        /\ \A s \in Server : grants[s] # <<>> => s \in drained \cup {at}

\* The latest id the room plays or was promised.
Latest == IF granted = NoMatch THEN current ELSE granted

OrderInv ==
    /\ \A w \in Worker : wstep[w] \in {"reassign", "send"} =>
           \A e \in wentry[w] : NextMatchId(e.result.match) \notin recorded
    /\ at # NoServer => \A i, j \in 1..Len(grants[at]) :
           Latest <= grants[at][i] /\ (i <= j => grants[at][i] <= grants[at][j])

OnceInv ==
    /\ ~ played => current = 0 /\ granted = NoMatch
    /\ granted # NoMatch => current < granted
    /\ \A m \in Match : plays[m] <= 1 /\ (plays[m] > 0 => played /\ m <= current)

\* Inductive with a single worker only.
SingleWorkerInv == PipelineInv /\ TraceInv /\ HomeInv /\ OrderInv /\ OnceInv

------------------------------------------------------------------------------
(* Progress.  The outbox flushes every 2 s and the worker polls for ever (WF);  *)
(* leases run out; disk, Redis and database do not fail for ever (SF for calls  *)
(* that may fail each time).                                                    *)
Fairness ==
    /\ WF_vars(PublishRoom)
    /\ \A s \in Server :
         /\ WF_vars(PersistPending(s))
         /\ WF_vars(\E r \in saving[s] : Enqueue(s, r))
         /\ WF_vars(\E r \in journal : Acknowledge(s, r))
         /\ \A m \in Match :
              /\ SF_vars(\E r \in journal : r.match = m /\ TakeLease(s, r))
              /\ SF_vars(\E e \in Entry : e.result.match = m /\ Publish(s, e))
         /\ WF_vars(GrantMatch(s))
    /\ \A m \in Match : WF_vars(LeaseExpires(m))
    /\ \A w \in Worker :
         /\ \A m \in Match : SF_vars(\E e \in stream : e.result.match = m /\ Record(w, e))
         /\ SF_vars(ReadOwner(w)) /\ SF_vars(IssueNextMatch(w))
         /\ SF_vars(ReassignToOwner(w)) /\ SF_vars(SendGrant(w))
         /\ SF_vars(WriteReceipt(w)) /\ SF_vars(Ack(w))

FairSpec == Spec /\ Fairness

\* A game that was played to its end is stored in the end if its row names the server
\* that played it and all its players are assigned, at once or after a resume, a grant
\* that was late or a repeated join made up for a refusal, unless its process died
\* before the result was on disk or no in-game server is left to send it.
AcceptableResultsAreStored ==
    \A r \in Result :
        <>[](r \in finished /\ Recordable(r))
        => <>(r.match \in recorded \/ r \in perished \/ dead = Server)
==============================================================================
