# swITch: TLA+ models of the game, its servers and its client

swITch is a real-time multiplayer tag game. Players sign in at a *matching server*, which assigns
them to a room on one of several *in-game servers*; a *gateway* routes their WebSocket there, and a
*supervisor* starts and drains in-game servers. The servers share Redis (directory, claims, command
streams) and the matching servers share PostgreSQL. This directory holds TLA+ specifications of the
parts whose correctness depends on the order in which several actors take their steps, the TLC
configurations that check them, and TLAPS proofs.

Paths below are relative to the repository root (`src/` in `PROJECT.json`).

## 1. Inventory

| Part | State it keeps | Operations | Talks to | What is hard |
|---|---|---|---|---|
| Room and lobby (`server-game/src/rooms/room.ts`, `lobby-state.ts`, `room-state.ts`) | members with seats, teams, flags, host; pending admissions; room state; kicked users; granted next match; frozen bit | reserve join/resume, attach, detach, leave, kick, rearrange, start, sweep, result screen, freeze/thaw | room manager, game lifecycle, registry (callbacks) | seats are taken and freed by eight handlers in any order; grace, countdown and result timers race with players' requests |
| Room manager (`room-manager.ts`) | rooms by id, staged adoptions | create, adopt (staged / commit / discard), release, sweep, control-plane commands | command consumer, hand-off | checks made here are on the room as it was before the call |
| Hand-off (`rooms/hand-off.ts`, `command-consumer.ts #adoptRoom`, `registry.ts`) | frozen source, staged copy, transfer key, directory entry, claims | freeze, announce, send, settle; stage, claim, reconcile | Redis only | two processes agree through compare-and-set while any call may fail after it took effect and either may die |
| Game session, lifecycle, simulation (`server-game/src/game`, `simulation`) | one session and one world per running game | start, tick, skills, end, stop, publish, record | room, scheduler, recorder, outbox | who is the tagger after tags, switches, rotations and departures of one tick; changes collected in one tick and published in another |
| Replay (`server-game/src/replay`, `shared/src/replay`, `client/src/replay`) | chunks, the recorders' shared memory budget, tickets | record, sign, store, download, open, seek, analyse | session, transport, page | the end of a match between two frames; a budget given back once; seeking across key frames |
| Results (`redis/result-outbox.ts`, `result-journal.ts`; `server-match/src/results`) | in-memory queue, journal files, publish lease, stream, match rows, receipts | enqueue, flush, record, issue next match, grant, acknowledge | disk, Redis streams, PostgreSQL | at-least-once delivery, crashes between every two writes, a command deadline |
| Room assignment (`server-match/src/rooms`) | user claims, assignments | create, join, quick join, resume, evict; compensation | command streams, PostgreSQL | three systems and no transaction over them |
| Command consumer, registry (`server-game/src/redis`) | reply cache; published entries, claims, release queue | poll, execute, reply; publish, forget, heartbeat | room manager, Redis | redelivery; what was read before an await is stale after it |
| Start lock (`lobby-state.ts`) | grants of the rolling window, unlock time | join, map change | room | a budget over a sliding window |
| Tickets, connections, rate limits (`server-game/src/gateway`, `transport`) | one-time tickets, connections, counters per address, buckets | upgrade, authenticate, replace, time out, close; check, sweep | room manager | two sockets for one user, a close between two awaits |
| Accounts, MFA, sessions (`server-match/src/auth`, `session`, `mfa`, `user`) | rows, sessions, challenges, codes | login, refresh, reset, change, second factors, deletion, human check | clients, mail, Redis | two requests of one account; a token that comes twice |
| Sanctions, reports, retention, administration (`server-match/src`) | bans, cases, holds, audit log | create, revoke, reconcile; report, act, sweep; list | game servers, operators | clean-up racing reports; lists that move while they are read |
| Gateway, supervisor (`server-gateway`, `server-supervisor`) | cached registry view; processes | route, relay; start, drain, put to sleep | Redis, processes | a stale view; late heartbeats |
| Training ground (`server-game/src/training`) | targets, roles, the chase zone | tick | simulation | roles that change hands when somebody leaves in the middle of a tick |
| Client (`client/src`) | session, buffers, screen, scene, identity, input, music | messages, frames, effects, user's actions | gateway, matching server | answers after the page has moved on, effects that run later than the message they are about |
| Shared contracts (`shared/src`) | | encode, decode, compare | everybody | absent against empty, cut frames, numbers that wrap |
| Map tools (`tools/MapBuilder`, `map-loader.ts`) | a sheet, its history, files | edit, undo, save, build, load | disk, game server | the same rules in three programs; a build while the author goes on |
| Deployment, scripts, styles, forms | | | | I/O and layout |

`PROJECT.json` lists every part with its status, and under `hazards` the lines where these
difficulties bite.

## 2. Modules

    RoomOwnership        what a move of a room promises
      ^ implemented by
    HandOff              source, peer, Redis                     MC_HandOff      HandOffProofs
    ResultPipeline       outbox, journal, worker, grants         MC_ResultPipeline, MC_ResultStored  ResultPipelineProofs
    Admission            claims, assignments, seats              MC_Admission    AdmissionProofs

    in-game server                                               MC_GameServer
      Room               one room, its lobby, game and timers                    RoomProofs
      Match              the rules of one match                                  MatchProofs
      Broadcast          frames to the viewers and the replay                    MatchProofs
      Replays            budgets and downloads                                   MatchProofs
      Playback           from a match to its replay's file and page
      Controls           from a finger to a step                                 MatchProofs
      Connections, RateLimit, Gateway                                            EdgeProofs

    platform and client                                          MC_Components
      Accounts, Codes                                                            MatchServerProofs
      HumanCheck, ClientSession, Identity, Music, Console                        ClientProofs
      MapTools                                                                   EdgeProofs
      ClientGame, Scene, Wire

    what must get on                                             MC_Progress
      Room, StartLock, Training, Sanctions, Evidence, Fleet, Gateway             MatchServerProofs

The modules meet where the code does. `Room` has `Freeze`, `CancelHandOff` and
`ReleaseAfterHandOff` as the two ends of a move, `HandOff` has everything between them, and what it
shows (`ImplementsOwnership`: a move is one step that keeps the members) is what
`ResultPipeline!RoomMoves` uses. `Room!GrantMatch` and `Room!SaveReplay` are the two ends of the
result pipeline as one room sees them. `Admission` gives a room its seats and `Connections` its
sockets. `Match` is what happens between `Room`'s start and end of a game, `Broadcast` what is sent of
it, `Wire` how, `ClientGame` what arrives and `Scene` what is drawn.

A step is always the code between two awaits. Synchronous code is one step however long it is,
because every process is a single Node.js event loop (and a browser tab is one too).

### RoomOwnership, HandOff
The abstract specification: a room has at most one owner and a set of members; members come and
go, the owner dies, or the room moves *in one step with the members it has at that moment*.

In `HandOff` a waiting room moves from a draining server to a peer. Variables fall in three groups:
what each server keeps in memory (`copy`, `roster`, `kicked`, the position of the hand-off loop
`step`/`out` and of `#adoptRoom` `astep`/`adopting`, and the publishing round, `seen`), what Redis
keeps (`key`, `cmds`, `handled`, `directory`, `claim`, `marker`) and two history variables (`banned`,
`belated`). A publishing round collects the projections of all rooms once (`ListRooms`) and then awaits
room by room (`PublishRead`, `PublishWrite`): when a room's turn comes it may have been moved away, and the
round goes on with what it collected. `belated` names the servers that put an entry up in that way.

Every Redis call has a variant that fails, and when the call writes, the failure may come before or
after the write took effect (`AnnounceFails`, `Send`, `SettleFails`, `ClaimFails`, `ReadKeyFails`,
`ReconcileFails`, `PublishFails`). `Crash` loses a server's memory at any step; a restarted server has a new id and
is thus another element of `Server`. `Expire` lets any TTL run out at any time. Commands stay in
`cmds` for ever, so that they are late and repeated as often as possible; `handled` is the reply
cache (`operation:<requestId>`). Left out: the choice of the peer by load (any peer may be chosen),
the batch over several rooms (rooms share none of these keys), the payload's lobby settings, and the
transfer key's 24 h TTL, far above every other time in the protocol.

### Room
One room with its lobby, admissions, game session and timers, driven by the room manager. A user's
seat is held (`held`), or taken (`seat`) with `conn` telling whether its owner is connected, has
not connected yet, is in grace or is resuming. The room goes Waiting -> Countdown -> Playing ->
PostGame -> Waiting. Every action is one synchronous handler of `room.ts`, including the host
succession, elimination, end-of-game check and closing that it triggers in the same call. Deadlines
are events without a clock: an expiry is possible whenever its timer is armed; the order of two
timers armed at different times is therefore freer than in the code, which is sound for the safety
properties. The world is reduced to who is alive in it (`Match` has the rest).

### ResultPipeline
One Match-mode room that is played again and again, the in-game servers it may be on, the shared
journal directory, Redis, PostgreSQL and the result workers. `nextMatchId` is a function of the id
of the finished match, so the ids of a room are numbered 0, 1, 2, ...

| State | Code |
|---|---|
| `at`, `current`, `granted`, `played`, `playing`, `connected` | the room: `matchId`, `#grantedMatchId`, `#playedGames`, its state |
| `drained` | the servers that gave the room away: they drain for ever and refuse `AdoptRoom` (`command-consumer.ts:351`) |
| `saving`, `queue`, `publishing`, `journal` | `GameSession.#finish` waiting for the recorder; `ResultOutbox.#queue`; a flush between lease and `addStreamEntry`; the journal files |
| `lease`, `stream`, `receipt`, `grants`, `directory` | Redis: `result-publish`, the result stream's pending entries, `result-persisted`, the command streams, the room's directory entry |
| `row`, `recorded`, `unassigned` | PostgreSQL: `serverId` and `resultRecordedAt` of a match; the matches in which somebody who plays has no `match_assignments` row |
| `wstep`, `wentry`, `wowner` | `processEntry` and `grantNextMatch`, await by await |
| `request` | `RoomsService.resume` between reading the directory, reassigning and connecting |

Failures: `Persist` may link some files, keep others queued, and fail in between; `PublishFails`
is an `addStreamEntry` that threw before or after it took effect; `Throw` ends `processEntry` at any
await, after which the entry is claimed again; `ServerDies` loses memory and keeps the disk;
`LeaseExpires`, `EntryRunsOut` and `RedisForgets` let TTLs and `MAXLEN` take what they may; `GrantExpires` is a
command executed after its deadline; `BelatedEntry` is the old entry of a room that `HandOff` shows can
come back.
`Record` refuses a result whose match is another server's (`RowNamesSender`) or whose players are not all
assigned to it, and the worker then acknowledges the entry without a receipt, so that the outbox sends
it again. Assignments are taken away and given back by joins that are undone and repeated
(`JoinIsUndone`, `JoinIsRepeated`; `Admission` has the requests themselves), and the next match takes over
those there are. The remaining refusal, a `roomId` that differs from the row's, cannot meet the results of one
room: the row was issued with the room's own id. The queue is a set, since the order of results of one room does
not matter to anything it is used for; a result is its match and its server.

### Admission
`RoomsService` of the matching server: a request reserves the user's claim in Redis and his
assignment to a match row, then has the in-game server hold a seat; the registry keeps the claim
alive while the seat is taken. Every request is a chain of awaits on three systems and may stop,
time out or be overtaken between any two. Refusals by password, capacity, lock or limits may come at
any time. The clocks are kept only as an order: a command's deadline (6 s) is shorter than a seat's
hold (15 s), which is shorter than a claim's TTL (30 s), and a heartbeat (2 s) is shorter than all.

### The in-game server
- `Match`: a tick is `BeginTick`, one `UseSkill` per queued request in the order of the player
  numbers, and `EndTick`, with nothing in between; who is in reach and who touches whom is any
  choice.
- `Broadcast`: of a snapshot only the map is kept. A frame carries the changes since the last
  publication, a full snapshot all of it; viewers come, drop, stop and resume spectating; a socket
  may be congested.
- `Replays`: the recorders' shared spool, and downloads with one-time tickets. `Playback`: from the
  recorder through the signed container to the player that seeks in it and the analysis of it; a
  world is one tile, who lives, who is tagger, and whether one player sees another.
- `Controls`: keys and joystick, the page's loop, sequence numbers that wrap (a `Ring` instead of
  2^16), packets dropped by the rate limiter, connections lost and resumed, games that begin anew.
- `Connections`: sockets from the upgrade to the close event, which may come at each await of
  `authenticate`, with tickets, replacement, counters per address and seats. `RateLimit`: windows and
  buckets of one subject. `Gateway`: upgrades over a cached list with budgeted lookups, and one
  relayed download with its timers.
- `StartLock`: the lock after joins and map changes, tick by tick. `Training`: targets, roles, pads
  and the chase zone.

### The platform
- `Accounts`: one account; every HTTP request is a process whose steps are its reads and its
  transactions (login, second factors, refresh rotation with its duplicate window, change, reset,
  revocation, deletion, bans). `Codes`: a mailed code, every Redis call a step, callers that die or
  outlive their claim. `HumanCheck`: challenges, rounds and proofs, on the server and in the page.
- `Sanctions`: bans of one account against a clock. `Evidence`: a match, its replay, the case about
  it and the clean-up in several processes. `Console`: what operators see of lists that change while
  they are read.
- `Fleet`: the supervisor with late or missing heartbeats.

### The client, contracts and tools
- `ClientSession`: sockets, resumes and timers of a tab, with answers in any order. `ClientGame`: the
  messages and frames of a room, the buffers that hold them until there is a page, an engine and a
  map, and the pages that follow the room. `Scene`: the renderer's layers, sprites, camera and
  sounds. `Identity`: who a tab is while refreshes, logins and logouts overlap. `Music`: downloads,
  cache and switch.
- `Wire`: the snapshot codec byte by byte, merging and re-encoding included, and which commands the
  game server's codec accepts. `MapTools`: the editor with undo, save and build, the builder's storm,
  the loader and the game's timeline.

## 3. Runs

| Run | Instance | States | What it shows |
|---|---|---|---|
| `handoff_safety` | 2 servers, 2 users, 2 transfers | 475,704 | `SingleAuthority`, `RoutesLeadToTheRoom`, `OnlyDeathOrEmptinessLosesTheRoom`, the refinement `ImplementsOwnership` |
| `handoff_progress` | 2 servers, 1 user, 1 transfer | 11,388 | `NobodyStaysInLimbo` |
| `results_rematch` | 2 servers, 1 worker; 3 matches, or one move with a resume, or joins that are undone | 1,035,865 | `NoResultIsLost`, `GrantsFollowStoredResults`, `EachGrantPlaysOnce` |
| `results_stored` | 2 servers, 1 worker, 1 match, joins that are undone; crashes, or one move with a resume | 55,746 | `AcceptableResultsAreStored` |
| `admission` | 1 user, 2 rooms, 2 requests, in three scopes | 103,567 | `ClaimsGuardTheSeats`, `NobodyIsLockedOut` |
| `game_server` | ten parts, below | 297,913 | eleven properties of the in-game server |
| `components` | seventeen parts, below | 395,792 | ten properties of platform and client |
| `components_progress` | seven parts, below | 56,185 | eight properties, most of them liveness |
| `handoff_forgets_kicks` | 2 servers, 2 users, 1 transfer | | finding: `KickedStaysOut` is violated |
| `room_grace_leaves_a_ghost` | 2 users, 1 game | | finding: `GraceOnlyReleasesTheSeat` is violated |
| `admission_undo_forgets_players` | 1 user, 2 requests | | finding: `AssignmentOutlivesTheGame` is violated |
| `broadcast_backpressure` | 1 viewer | | finding: `CongestedViewersCatchUp` is violated |

`game_server`, `components` and `components_progress` are *sums*: the first step of a behaviour
chooses a `part`, whose component then moves while all others stay where they began. One run thus
checks many components, each in its own instance, without multiplying their states. Some
components appear in several parts ("scopes"), each of which enumerates one kind of disturbance
fully: three users through two games, or two users who rearrange the lobby of a created or adopted
room; tokens, second factors or bans of an account; the list, one case or the audit log of the
console; the picture, the camera or the events of the scene. The restrictions of a scope stand
beside its `Next` in the MC module, and only they differ from the component's own specification.

### What the merged properties say
- `RoomIsSound`: seats are exclusive and within the capacity, kicked users have none, somebody
  hosts, locked-in numbers keep their player, the session follows the room's state, and what a member
  sees agrees with the world. `FrozenRoomStandsStill`: nothing of a frozen room that was exported
  changes before it thaws.
- `OneLivingTagger`, `ResultTellsTheMatch`: a running match has one tagger and he lives; winners are
  those who were never out, and catches add up.
- `EverybodySeesTheMap`: viewers and replay show the map but for what they are owed next.
- `SocketsAreAccountedFor`, `OnlyFloodsAreClosed`, `UpgradesAreServed`, `ReplayBudgetsHold`: counters,
  tickets, seats, budgets and buckets agree with what exists, whatever closes in between.
- `ReplayIsTheMatch`: every picture of the player is the world of its tick, the analysis is the
  match's, and a file that was changed is not shown. `ControlsAreObeyed`: no newer packet is taken
  for an old one, and nobody walks on after the page stopped listening.
- `OnlyTheOwnerIsInside`: no session outlives a password change, a reset, a revocation, a ban or a
  reused token, and none opens past a second factor. `CodeWorksOnce`, `ChecksHold`: one code, one
  operation; one proof, one use, and no page that waits for nothing.
- `SessionIsConsistent`, `ClientShowsTheGame`, `TabKnowsWhoItIs`, `MusicObeysTheSwitch`: what the tab
  believes is what is, through lost connections, late answers and pages left in the middle.
- `WireIsUnderstood`, `MapsPlayAsDrawn`, `ConsoleIsHonest`: what is written is read; the three
  programs agree on a map whose cells change once a tick; a list read in pages misses and repeats nothing that stood still, and no case
  is sanctioned twice.
- `EvidenceIsKept`, `StatusMeansBans`, `ExpiredReplaysGo`, `RoomsMoveOn`, `HostMayStart`,
  `FleetHoldsItsSize`, `EveryDownloadEnds`, `TrainingGoesOn`: what must not be deleted is not, and what
  must happen does.

Where the code is known to fall short, a property has a marked exception (`belated`, `crossed`,
`stuck`, `strayed`, `overtaken`, `restarted`, ...): a history variable that records that the race of section
5 has happened. The property then holds in every behaviour without that race, and the race is a
reachable part of the model.

Every property of a passing run has a mutant in `PROJECT.json`: a plausible slip in the code under
which the property fails.

### Bounds, and why they are enough
- *Two servers, two transfers* (`HandOff`): a room that a cancelled transfer left where it was tries
  again, so every late command, late publish and repeated reply of the first meets the second. All four safety properties are
  proved for any number.
- *Three matches* (`results_rematch`): a grant can meet its predecessor's and its successor's
  game. `MaxEntries = 1` fills the outbox with one result; repeated grants come from results that are
  delivered again, not from a longer queue. `MaxCopies = 1` bounds the unacknowledged entries of one
  result at a time, not over time. The run has three scopes (`InScope`): the room is played on one server,
  and the last game begins and does not end; it moves once, with a resume and entries that run out; or it
  moves while joins are undone and repeated.
- *One match, refused and accepted* (`results_stored`): a result is refused while an assignment is missing, or
  while the row names the other server, and accepted after a repeated join, a late grant or a resume.
  Either servers die and Redis forgets, or the room moves (`scope`).
- *Three users, three seats, two games* (`Room`): one to play, one to leave and one to take the
  freed number; the second game starts while the first is still being saved.
- *Three players, two ticks* (`Match`): a tagger, a victim and a third who leaves or switches in the
  same tick, in a first tick, a rotation and the last one.
- *Two sockets and two tickets of one actor, two upgrades of one server*: the smallest numbers at which a
  replacement or a shared lookup exists. *Three downloads for two places*: two requests can read one ticket
  before either deletes it, and a third meets a full pool.
- *Two processes that clean up* (`Evidence`, in `components_progress`): their rounds overlap and contend for
  the lock until the player is reported; from then on one of them goes on, since the replay is held and there
  is nothing left to expire (safety for any number of them is `EvidenceKept`, section 4).
- *A ring of six* (`Controls`): numbers wrap within the run; `2 * (MaxDropped + 1) < Ring` is the
  assumption under which the comparison of halves can work, as 90 packets/s do for 2^16.
- *Two requests at once, three in all* (`Accounts`): a token shown after what two others did to its
  family. *Two jobs* (`Identity`), *two callers* (`Codes`): every pair of overlapping calls.
- *Three cases, pages of two rows* (`Console`): a full page, a cursor, and a row that may cross it.
- *A map of five, then four* (`MapTools`): three rings, so that a storm reaches one, passes one and stops
  before one, with and without changes in the tick it comes; proved for maps of any size.
- Deadlock is not checked where the system may stop: rooms that closed, requests that are all
  answered, bounds that are used up.

### Assumptions about time
Besides the order of the four deadlines in `Admission`: React effects run before the next round of a
game; a packet's flight is shorter than post-game and countdown together; the frame of a switch comes
within 500 ms of its event. Each is stated where it is used.

### Fairness, and why the code justifies it
- `HandOff`: the drain loop and the command consumer run for ever and take up what an error left
  (`pendingByManager`, redelivery of what was not acknowledged), hence weak fairness of their steps.
  A call that fails may be repeated; strong fairness of the successful variants says that Redis does
  not fail every time. No fairness for players, crashes or TTLs.
- `Room`: the manager sweeps every 100 ms, so a deadline that has passed is acted on (weak, and
  strong where a freeze may interrupt it again and again); a hand-off is settled
  (`NobodyStaysInLimbo`); a game has a maximal duration.
- `ResultPipeline`: the outbox flushes every 2 s and the worker polls for ever (weak); leases run
  out (weak); disk, Redis and PostgreSQL do not fail every time (strong). No server need survive:
  `AcceptableResultsAreStored` asks only that not all of them are dead, and that from some time on nothing
  is wrong with the result: its row names its server and its players are assigned. What refusals cost when
  nothing puts that right is finding 3 of section 5.
- `Admission`: requests go on or time out, the registry's heartbeat repairs and releases, and TTLs
  run out (weak). `Sanctions`, `Evidence`, `Fleet`: the periodic tasks run for ever, and a refused
  clean-up is tried again; faults are bounded in number. `Gateway`: its timers fire. `StartLock`,
  `Training`: time passes.


## 4. Proofs

TLAPS proves the following for *every* value of the constants that satisfies the named assumptions
of the modules (`HandOffAssumption`, `PipelineAssumption`, `MatchAssumption`, ...: the "none" values
are outside the sets they stand for, bounds are natural numbers, sets of actors are finite). Nothing
is assumed of the number of failures, and of timing only what the modules state themselves (section
3); of these the theorems of `AdmissionProofs` use `KeptAlive`: a claim does not run out while
somebody who runs renews it, or has yet to remove it.

| Module | Theorem | Property | Inductive invariant |
|---|---|---|---|
| `HandOffProofs` | `Invariant`, `TypeCorrect` | | `HandOffInv` = `TypeOK`, `SingleAuthority`, `SourceInv`, `PeerInv`, `CommandInv` |
| | `OneAuthority` | `SingleAuthority` | part of it |
| | `NoSilentLoss` | `OnlyDeathOrEmptinessLosesTheRoom` | the same |
| | `RoutesLead` | `RoutesLeadToTheRoom` | with `RosterInv` and `PublisherInv` (theorems `Rosters`, `Publishers`) |
| | `Refinement` | `ImplementsOwnership` | all of these |
| `ResultPipelineProofs` | `Invariant` | | `PipelineInv` = types, `ReceiptInv`, `GrantInv`, `PlaceInv` and the properties |
| | `ResultsSurvive` | `NoResultIsLost` | |
| | `GrantsFollow` | `GrantsFollowStoredResults` | |
| | `GrantsPlayOnce` | `EachGrantPlaysOnce`, for one worker | `SingleWorkerInv` = `PipelineInv`, `TraceInv`, `HomeInv`, `OrderInv`, `OnceInv` |
| `AdmissionProofs` | `AdmissionInvariant` | | `AdmissionInv` = `AdmissionTypeOK`, `RequestInv`, `HeldInv`, `SeatInv`, `WatchInv`, `ClaimInv`, `PublishInv` |
| | `SeatsKeptApart` | `ClaimsGuardTheSeats` | |
| `RoomProofs` | `RoomInvariant` | | `RoomInv` = `TypeOK`, `NumbersInv`, `MembersInv`, `LockInv`, `KickInv`, `SeniorityInv`, `SomebodyHosts`, `SessionFollowsTheRoom`, `PhaseInv`, `FrozenInv`, `PlayInv` |
| | `RoomsAreSound` | `RoomIsSound` | |
| | `FrozenStands` | `FrozenRoomStandsStill` | |
| `MatchProofs` | `MatchInvariant` | | `MatchInv` = `MatchTypeOK`, `OneLivingTagger`, `OutIsOut`, `Decided`, `Reported` |
| | `OneTagger` | `OneLivingTagger` | |
| | `ResultIsTheMatch` | `ResultTellsTheMatch` | the same, with `Scored` |
| | `BudgetsAreGivenBack` | `ReplayBudgetsHold` | `ReplaysInv` = `ReplaysTypeOK`, `SpoolKept`, `TicketKept`, `SlotsKept` |
| | `RoomObeys` | `ControlsAreObeyed` | `SteeringInv` = `SteeringTypeOK`, `LoopIsHeard`, `NumbersFollow`, `GapIsKnown`, `LastIsSent`, `StoppedMeansStill` |
| | `EverybodySees` | `EverybodySeesTheMap` | `BroadcastInv`, with `PausedHaveLapsed` |
| `EdgeProofs` | `MapsPlayAlways` | `MapsPlayAsDrawn` | `MapToolsInv` = `EditorInv` (`SheetFits`, `SaveIsOfTheSheet`, `CleanMeansSaved`), `BuildInv` |
| | `UpgradesServed` | `UpgradesAreServed` | `GatewayInv` |
| | `SocketsAccounted` | `SocketsAreAccountedFor` | `ConnectionsInv` |
| | `FloodsOnly` | `OnlyFloodsAreClosed` | `RateInv` |
| `MatchServerProofs` | `CodesWorkOnce` | `CodeWorksOnce` | `CodesInv` |
| | `EvidenceKept` | `EvidenceIsKept` | `EvidenceInv` |
| | `OwnerInside`, `AccountsInvariant` | `OnlyTheOwnerIsInside` | `AccountsInv` = `AccountTypes`, `IdsInv`, `LocalInv`, `EpochInv`, `SessionInv`, `SpentInv` |
| | `LastBanCounts` | the part `BannedUntilTheLastBan` of `StatusMeansBans` | `SanctionsTypeOK` |
| `ClientProofs` | `MusicObeys` | `MusicObeysTheSwitch` | `MusicInv`, with `JobsFitTheStatus` |
| | `ChecksHoldAlways` | `ChecksHold` | `HumanInv` = `HumanTypeOK`, `PagesKnow`, `CallsKnow`, `JudgedIsGone`, `ProofsFit`, `UsesFit` |
| | `SessionStaysConsistent` | `SessionIsConsistent` | `SessionInv` = `SessionTypeOK` and, unless `crossed`, `SessionCore` (`NoResume`, `OwnSocketFits`, `OneAttempt`, `SomeAttempt`) |
| | `TabAlwaysKnows` | `TabKnowsWhoItIs` | `IdentityInv` = `IdentityTypeOK`, `TokensFit`, `StoreFits` |
| | `OperatorsSeeWhatHappened` | `ConsoleIsHonest` | `ConsoleInv` = `ListInv` (`TablesOK`, `ListOK`, `NothingTwice`, `NothingMissing`), `DialogInv`, `SanctionsTell`, `LogInv` |

### The arguments
*Hand-off.* `SingleAuthority` is not inductive: it says that two copies do not both count, not why a
late command cannot make a second one count. `SourceInv` ties the position of the drain loop to its
transfer (a room is frozen exactly while a transfer is open, and before the command is sent nobody
else can have touched its key), `PeerInv` the position of `#adoptRoom` to the command it took up,
and `CommandInv` every command still open to a source that is frozen on it or dead. From these, lemma
`AuthorityGained` shows that only the peer's compare-and-set makes a copy count, and `OpenMeansFrozen`
that the source stands still meanwhile. `RosterInv` says that a command carries the roster of its
frozen source and a staged room the roster of its command; it is what makes the refinement's `Move`
carry the right members. `RoutesLeadToTheRoom` needs `PublisherInv` besides: a server whose round still has
the room either has it too or lost it for good (`Gone`: the peer's compare-and-set won, or the room closed);
what such a server reads of the directory is its own entry or nothing; and while the room is still here no
takeover can come between a read that found nobody and the write, because the fence wants the entry. A
server for which the room is gone can put up a stale entry only where there is none, which is `belated`, the one
exception the property makes (lemmas `GoneStays` and `HeldOrGone`). The refinement is proved step by step:
`OwnershipInit` for the initial states; in `OwnershipStep` every action is a step of `RoomOwnership`
or leaves owner and members alone (`OwnerIs` and `MembersAre` read the mapping, `OpenGained` and
`OpenLost` say when it changes).

*Results.* `ReceiptInv`: a receipt, or a worker past `record()`, implies a stored result, so that
deleting a journal file or dropping a queued result on its strength loses nothing. `GrantInv`: every
id that is played, promised, in a command or in a worker's hand was issued, and an id is issued after
the result before it is stored. `PlaceInv`: whoever is named by a running game, a grant or a resume
is a server. Both results rest on lemma `DatabaseOnlyGrows`: whatever refuses a result, a stored one stays.
That a grant plays once is proved for one worker (`OneWorker`; section 5 says what two can do) and
any number of servers, matches, moves, copies and resumes. The command stream may hold one id many
times, and `grantMatchId` refuses no more than the id that is current; what helps is that ids come
in order. The worker offers an id only while it has no stored result, and every id in a stream was
issued, so has the results of all ids below it: lemma `IssuedOrder` puts whatever is sent at or above
whatever waits, and `OrderInv` says that a stream never falls below what its room plays or was promised.
`OnceInv` then has a new grant above every id played. Moves are where this could break: a room that
came back to a server would find old grants in its stream. `HomeInv` excludes it: whoever gets a grant
has the room or gave it away, and who gave it away drains. It needs `TraceInv`: the server a result
names, which is where the worker turns without a directory entry, is one the room was played on.
A server started again under the id of one that drained is not modelled: the supervisor takes a new
id for each process (`server-supervisor/src/main.ts:218`).

*Admission.* That nobody sits in two rooms says nothing of why: a seat outlives the request that made
it, and a claim is taken, renewed and removed by different processes. `ClaimInv` is the reason: from
the grant until the end of the clean-up, the user's one claim names the room of his *rightful* seat, that
is, of one he sits on or was told of. A seat that is held for a request that was given up is not
rightful, its ticket is with nobody (`HeldInv`). Only a grant turns a claim into an assignment, and
only its own request's reservation (`AssignKeeps`); a claim that the registry puts back appears where
there was none (`RefreshKeeps`). `WatchInv` says that a seat is watched or its release queued, never
both, and `PublishInv` that while a release is flushed its user has no rightful seat there under
the claim that was read; this is what makes the compare-and-delete at the end of the flush safe however
long ago the claim was read. `WhoRemovesClaims` then leaves two steps that take an assigned claim
away, and neither finds a rightful seat in its room.

*Room.* Seats and held numbers are pairwise different (`NumbersInv`), and from the countdown on a
locked number is promised to nobody (`LockInv`), so whichever of the eight handlers gives a number
out next finds one that is free of members, holds and the world (`FirstNumber`, `FirstFree`).
`SeniorityInv` says that `joinedOrder` orders the members; a finite, non-empty set of members then
has a most senior one (`SomebodyIsSenior`), so `#transferHost` always finds an heir (`Heir`).
`PlayInv` ties the lobby's flags to the world: who plays has a locked number, who is out is dead.
`PhaseInv` keeps a grant from arriving before the result of the last game is out, so that a game never
begins while another one is being saved, and `FrozenInv` leaves to a frozen room only
disconnects and its release, which is why nothing of the exported roster changes. The removal of a
member, of which leave, kick, grace and sweep all make use, is proved once (`RemovalKeeps`).

*Match.* The tagger survives a tick because every way of losing him (tag, switch, rotation,
elimination, departure) names another living player in the same step or ends the match. `OutIsOut`
ties the elimination times to the survivors, `Decided` the winners to the survivors of the moment of
decision, `Reported` the result to both. `Scored` says that nobody is caught twice, since who is caught
is out, so that the catches charged are as many as the caught.

*Sums.* `buildResult` and the shared spool add up over sets, and the fold of the community modules takes the
elements in an order that a `CHOOSE` picks. Lemma `TotalIsUnits` says that the sum is nevertheless the
cardinality of the set of `Units`, the pairs of an element and a number up to its count: cardinalities
satisfy the fold's equation (`UnitsOfOneMore`), and a set of least size on which the fold differed
would contradict it (the well-ordering of `Nat` in place of an induction). From there on a sum changes by
what one summand changes (`TotalOfOneChanged`), which is all `Match` and `Replays` need.

*Replays.* A recorder at work holds the frames it wrote and any other nothing (`SpoolKept`): that is why
an abort followed by a finish releases once. Whoever reads the file took the ticket (`TicketKept`), and the
slots are counted by the set of requests at work (`SlotsKept`).

*Controls.* The sequence numbers under way form a chain that ends at the page's next number
(`NumbersFollow`), and the first of it is as far ahead of what the room took last as packets were dropped
(`GapIsKnown`), which is less than half the ring, so that the comparison of sixteen bits takes it for
newer (`AheadIsNewer`). `LastIsSent` carries the last direction from the page through the chain into
the room. All of it is claimed only where the room plays, the socket is open and the page did not
begin its numbers anew (`Heard`).

*Accounts.* A request acts on what it read some awaits ago, so the invariant has to say what still
holds of it (`LocalInv`): a login whose epoch is still the account's has the account's password, the
token of a password change is in the family of its session, and the row a committed rotation made is
still in the family of the token it is about to hand out. `IdsInv` and `Used` number the requests:
sessions, families and code sets come from requests that have had their effect (`SessionInv`), so that
what is created next is in no closed family and was never spent, and epochs and generations are no
more than there are such requests (`EpochInv`), which is why they keep within their bounds. `SpentInv`
says why a factor is new when it is accepted: a step of the present authenticator that was spent is
not after `lastStep`, and a spent backup code is not the current one. Sessions change in two ways,
each proved once: they are closed (`Weaker`, lemma `ClosingKeeps`; ban, sign-out, reset, refused
rotation, retention), or one row is written and the rest closed (`RowWritten`; login, rotation,
password change).

*Edges.* `ConnectionsInv`: what is known of a socket fits the await it has reached (`RecordsAgree`,
`BoundSocketsAreDone`), tickets that are still valid were taken by nobody, and every counter is the
cardinality of a set of sockets, of which each step moves one. `GatewayInv`: the reads under way are
those the budget counts, and an upstream belongs to a linked upgrade. `RateInv`: what a bucket
remembers, by its age, of the windows that have passed.

*Maps.* The editor's picture, the builder's timeline and the game that replays it are three recursions over
the ticks of the storm. Each is first shown to be given by one step of its own from the tick before
(`SimulateIs`, `BuilderIs`, `PlayIs`; `StepByStep`, by the least tick that would differ), and then the
steps are compared: the four sides the builder goes through are the ring the editor asks for
(`SidesAreTheRing`), so the builder has the editor's tile (`BuilderFollowsTheEditor`); and what it leaves
unsaid of a cell is what did not change, provided no tick has two changes of the cell (`WhatIsSaid`), so
the game has the builder's (`PlayFollowsTheBuilder`). The rules for a map are compared the same way, the
editor's with the builder's (`EditorIsStricter`) and the builder's with the loader's (`LoaderAgrees`).
What makes this apply to what is built is `BuildInv`: a process writes only what it found to be `Taken`,
whatever mixture of two versions of a map's files it has read. `SaveIsOfTheSheet` says that a save under
way carries the sheet unless it was changed since, which is what its answer takes for granted; and if two
builds never ran at once, an output that is not whole has its one process still writing it.

*Platform.* `CodesInv`: a code that has authorised nothing is in one place, at its key or
with one caller. `EvidenceInv`: a clean-up that has selected a file did so after the row was marked,
which a hold in time excludes. `BroadcastInv`: a viewer who paused has missed something until he is
sent the whole map.

*Client.* `MusicInv`: which of the jobs under way may still start a sound follows from the
status and the switch, and a song that is called kept is in the cache, because no removal begins while a
download stores its file, unless an answered probe let them cross (`crossedOff`). `HumanInv`: what is stored has not been judged or used (`JudgedIsGone`,
`UsesFit`), so that taking it away and acting on it are one step however many copies of a request
arrive; a proof repeats what its challenge was for (`ProofsFit`), and a page in a later step has a
challenge that was posed (`PagesKnow`). That every round can be won is a fact about the draws, proved
for all of them. `SessionInv`: as long as no page connected during a resume, the timer, the request
for a seat and the socket that may still come up are one attempt at most (`OneAttempt`), for the room
the tab keeps, and there is one whenever the session reconnects (`SomeAttempt`); that the wanted socket
is of the present generation (`OwnSocketFits`) is what makes a late close of an older one harmless.
`IdentityInv`: `RefreshOnce` needs to know where the account's newest token is. It is in the cookie,
or with the one refresh that was served and has not landed (`CookieFits`), or, while the answer to
a login is on its way, with nobody (`LoginsFit`); and refreshes of one kind are never two
(`FlightsFit`). `PagesSeeTheIdentity` needs to know what a job may put back: a store that shows the
operator's menu to an account only (`StoresKept`), and, for a login, a guest's that waits for nothing
(`LoginsCall`).

*Console.* A page is a piece of the queue in the order of its rows, so the first lemmas are about that
order: it is total, a finite set of rows has exactly one sequence in it (`OrderExists`, built one row at
a time, and `OrderedIsInOrder`), and a page with its cursor is its head (`PageOfTheQueue`). `ListInv`
then says where a row is while others move. Whatever is listed is not past the list's cursor, unless it
was set back (`NothingTwice`): a report or a later act only moves a row forward, but `updateStatus` and
`sanction` write a time in milliseconds that may be below the `now()` in microseconds it replaces, and
such a row falls behind the cursor and is listed again. Whatever has stood still since the first page
is listed or past the cursor, but for the rows of a cursor's millisecond (`NothingMissing`). Both are
said of the list together with the page on its way to it, since a row may move between the query and its
answer. `DialogInv`: what is shown is what is stored unless an answer is still to come, somebody else
acted or two answers crossed. `SanctionsTell`: a case was sanctioned at most once, and one that was is
actioned or closed, which is what the check inside the transaction rests on. `LogInv`: an older
page begins where the shown log ends.

The proofs about `HumanCheck` want a person and a network to begin with (`Email` and `Net` are not
empty), those about `ClientSession` that no room is called `"none"`, and those about `MapTools` that the author
draws with tiles there are, gives a map a size and its storm no negative speed; all are in the modules'
assumptions.

### What is only model-checked
- Liveness (`NobodyStaysInLimbo`, `AcceptableResultsAreStored`, `NobodyIsLockedOut`, `RoomsMoveOn`,
  `HostMayStart`, `ExpiredReplaysGo`, `FleetHoldsItsSize`, `EveryDownloadEnds`, `TrainingGoesOn`, the
  eventual part of `StatusMeansBans`): fairness and `ENABLED` are out of the prover's reach.
- `Wire`, whose codec is recursive.
- `ReplayIsTheMatch`: what its searches, segments and drawings compute for a tape of any length is
  an induction over data.
- `ClientShowsTheGame`: its inductive invariant has not been worked out. The screen is checked over one
  match of the room (`MaxRounds = 1`), which is the first of the assumptions about time in section 3: a
  page whose effect came a whole match late would miss the camera of the next.

## 5. Findings

### Checked by a run that must fail
1. `handoff_forgets_kicks` (`KickedStaysOut`): the exported room carries no kicked users, so
   somebody kicked from a waiting room may come back once it has moved.
2. `room_grace_leaves_a_ghost` (`GraceOnlyReleasesTheSeat`): a player who disconnects during the
   countdown is placed in the world alive; when his grace runs out he is removed from the room and
   stays in the world, where nobody controls him.
3. `admission_undo_forgets_players` (`AssignmentOutlivesTheGame`): a join that is undone deletes the
   assignment by match and actor, also the one an earlier join of the same player made, and the
   result of the whole match is then refused.
4. `broadcast_backpressure` (`CongestedViewersCatchUp`): a full snapshot that meets a congested socket
   is skipped, and the tile changes it carried are never sent again.

`PROJECT.json` quotes the comment or the test each of them contradicts.

### Met while modelling, without a run of their own
Where a name in parentheses is given, the model has the race and marks it with that variable; the
property of the component excludes exactly the behaviours in which it happened.

*Hand-off.* A publishing round takes its projections once and then awaits room by room
(`registry.ts:256`), so its turn for a room may come when the room has moved away. If the entry of the new
server has run out meanwhile, the old one puts up its own (`belated`); the new server leaves it alone
(`setPxIfAbsent`), so joins are sent to a server without the room until the next round of the old one
deletes the entry, about 2 s later, or its TTL of 6 s ends.

*Results.* A completed match's row may be given to another server, since the directory was read
before an await (`rooms.service.ts:430`, against the comment at 426); a grant read but not executed
in time is dropped although the result has been acknowledged (`command-consumer.ts:287`, against
`result.worker.ts:78`), so the rematch does not come. With two result workers `EachGrantPlaysOnce`
fails: `grantMatchId` compares with the current id only, and a worker stalled between issuing and
sending, while a whole further match was played, makes a recorded match be played again.

*Accounts.* A duplicate refresh that read no cached result before the first rotation stored it gets
the lock and is judged a reuse (`auth.service.ts:353`, against 494). `completeMfaLogin` with
`trustDevice` registers a trusted device though MFA was disabled meanwhile (`mfa.service.ts:147`);
`verifyFactor` writes back a TOTP secret read earlier (515). `createUser` checks the block of an
address and then inserts (`user.service.ts`, about 140). `revokeOthers` takes no user lock and misses
the successor of a session that rotates.

*Evidence.* `replay_holds.released_at` is never set, so held replays and closed cases are never
deleted (`retention.service.ts:276`). Unused issued rows are not swept, since
`deleteExpiredMatches` wants `ended_at` (`result.service.ts`, about 245). A report that reads
`available` and inserts its hold after the clean-up selected the replay keeps no file, and the row's
foreign key aborts that round. A report on a running match places no hold.

*Game server.* `training-ground.ts:770` sets `targetIndex = 1` even on a course of one point;
`flashAimedAtTick` survives `#sendHome`, `#respawnDue` and the chaser's change of role (comment at
66); `rotateTaggerIfStale` also runs in training (`step.ts:89`, against `game-lifecycle.ts:88`);
`patrolCourse` says its points are walkable and takes the nearest that are. The last frame of a game
is not sent, because the room is in PostGame when it is published (`game-session.ts:285`);
`setSpectating` off and on asks for no full snapshot (204). The gateway retries after `ECONNRESET`,
which may repeat a request (`main.ts` `isConnectFailure`, against 258). `CreateRoomDto` allows a
capacity of 1, which the game server drops as malformed without an answer (`create-room.dto.ts:15`,
`control-codec.ts:62`).

*Client session and page.* `GameSession.connect()` does not bump `connectionGeneration` (`crossed`);
`reconnectPolicy.ts:3` says the server keeps a seat for 10 s where the grace is 5 s;
`scheduleReconnect` returns early while `pageUnloading`, which a cancelled `beforeunload` leaves set
(`stuck`); the close handler of a replaced socket returns before `settleError` (`GameSession.ts:351`).
A page mounted again in the same game shows the initial map and counts inputs from 0 while the room
keeps `lastInputSequence` (`strayed`, `restarted`); a game that ends while the client is away is
never announced again (`room.ts:701`); a buffered frame applied after a newer `player.tagged` erases
the hidden tagger (`GameSession.ts:420`), and after a rejoin `game.started` repeats the first
tagger. A touch direction stays set when `TouchControls` is unmounted under a finger
(`SwitchGame.tsx:119`, against `GamePage.tsx:321`); the neutral packet on opening the settings may be
dropped by the limiter and is not repeated. `ReplayPage.tsx:66` `open` has no generation guard, and
`cli.ts:96` keeps an old storm. `HumanCheckFlow.submit` does not check that it is alive, and
`finish` resolves whichever session is open (`HumanCheck.tsx:89`). `playStartIntro` on a camera that
is initialised would leave it neither free nor following (`WorldScene.ts:218`), which only its
caller's order avoids; `SwitchEngine` is "safe to call immediately after construction", but a frame
handed over before boot would be applied after later blinks (`SwitchEngine.ts:135`), which its callers
avoid by `whenReady`; a blink that arrives between a buffered frame and the map is drawn as a step
(`WorldScene.ts:711`), and replays played without effects interpolate over short blinks.

*Identity, console, music.* A guest refresh in flight during a login turns the account back into a
guest or nobody (`overtaken`; `http.ts:113`, 163), a late `readAdminAccess` makes a guest an
administrator on his own screen (`lateAdmin`; `useAuthStore.ts:63`, 80), and the catch of a login
restores a stale store (`putBack`; 67, 78, 85). Keyset cursors lose the rows of the cursor's
millisecond (`blurred`; `reports.service.ts:240`, 312, `user.service.ts:342`), and a case whose
`updated_at` an act sets back within its millisecond is listed twice (`setBack`; 471, 518); answers of status and
sanctions cross, and a change during a load is dropped (`AdminPage.tsx:87`, 376, 400); `loadAudit` is
not guarded (`mixed`; `AdminInspect.tsx:34`). Music turned off during a pending `play()` or while
the file is stored plays (`crossedOff`; `bgmPlayer.ts:212`, `BgmCard.tsx:36`). A look into the cache that
answers during a download makes the song ready, so that it may be removed while the download still stores it:
when the deletion falls between `cache.put` and the last `setState`, the song is called kept and is not in the
cache (`crossedOff` as well; `bgmPlayer.ts:126`, 172 to 178, 207).

*Map tools.* Of two changes of a cell in one tick, the last a wall in the storm's way and the other the
cell's last tile, the builder drops both, and the game does not show what the editor's "same calculation as
builder.py" does (`builder.py:259`; excluded by `OneChangeATick`). A start position in a wall is moved only
as far as a bounded search finds a floor (284). `save()` clears `dirty` after an await (`late`; `editor.js:537`), `openMap` loses edits
made meanwhile, the dialog for a new map replaces a dirty one without asking (616), the inspector
edits a detached cell after an undo (356), and an undo can come in the middle of a drag. Two builds
may run at once, because any render enables the button again (`crowded`; 334, 550), and a half-written
file be copied (`server.cjs:72`). `builder.py:261` assigns into a tuple when a timed change meets the
storm's ring in its tick; its preview knows no `training.dummy.*` (408, 453); a change after the
storm's check of a ring may put a wall under the storm's edge (240, against `static-collision.ts:85`);
and training maps do have start positions for three players (274, against `map-loader.ts:37`, 292).

## 6. Not modelled, and what is next

Not modelled: geometry and collisions (positions are a choice of who is in reach), cryptography,
compression, HTML forms, styles, the profile page, statistics, maintenance switches, deployment and
one-off scripts; `setMap`, `setLoadout` and `setControl` of a room; the limit on rooms of a server;
rejoin cooldowns; corrupt journal files and the variant without a journal. For each, nothing that is
modelled reads what they change, or there is no order of events to explore.

Next: inductive invariants for what the client draws (`ClientGame`, `Scene`) and for a replay's player (`Playback`).
