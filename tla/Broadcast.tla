----------------------------- MODULE Broadcast ------------------------------
(* What one game session sends to its viewers and writes into its replay:    *)
(* the scheduler's beat (simulation/scheduler.ts), publish and the full      *)
(* snapshots it owes (game/game-session.ts), who may see what                *)
(* (rooms/room.ts), the socket's own limit (transport/ws-transport.ts) and   *)
(* the recorder (game/session-recorder.ts).                                  *)
(*                                                                           *)
(* Of a snapshot only the map is kept: a full one carries all of it, another *)
(* one the tiles that changed since the last publication.                    *)
EXTENDS Naturals, FiniteSets

CONSTANTS Viewer,
          Tile,            \* the tiles the map's timeline collapses, each once
          FramesPerChunk,  \* frames from one key frame of the replay to the next
          MaxDrops         \* bound: lost connections and changes of spectating

ASSUME BroadcastAssumption ==
  /\ IsFiniteSet(Viewer) /\ IsFiniteSet(Tile)
  /\ FramesPerChunk \in Nat \ {0} /\ MaxDrops \in Nat

VARIABLES beat,        \* tickCounter % SNAPSHOT_INTERVAL_TICKS of the process
          showing,     \* the session runs
          collapsed,   \* the tiles of world.map that changed
          unsent,      \* #pendingTileChanges
          needsFull,   \* #needsFullSnapshot
          watching,    \* viewers with a connection and an access other than none
          paused,      \* eliminated viewers who turned spectating off
          screen,      \* the changed tiles each viewer's client shows
          frames,      \* #recordedFrames % FRAMES_PER_CHUNK
          recorded,    \* the changed tiles a player of the replay shows at its end
          drops,
          lapsed       \* history: viewers who were paused or lost a frame in the
                       \* socket, until they are sent the whole map

broadcastVars == <<beat, showing, collapsed, unsent, needsFull, watching, paused,
                   screen, frames, recorded, drops, lapsed>>

NoMap == {"no map"}   \* a client that was never sent a map

BroadcastTypeOK ==
  /\ beat \in {0, 1} /\ showing \in BOOLEAN
  /\ unsent \subseteq collapsed /\ collapsed \subseteq Tile
  /\ needsFull \subseteq Viewer /\ lapsed \subseteq Viewer
  /\ watching \subseteq Viewer /\ paused \subseteq Viewer \ watching
  /\ screen \in [Viewer -> SUBSET (Tile \cup NoMap)]
  /\ frames \in 0 .. FramesPerChunk - 1 /\ recorded \subseteq Tile
  /\ drops \in 0 .. MaxDrops

\* The constructor owes everybody a full snapshot. The session may begin at
\* either beat of the process's scheduler.
BroadcastInit ==
  /\ beat \in {0, 1} /\ showing = TRUE
  /\ collapsed = {} /\ unsent = {}
  /\ needsFull = Viewer
  /\ watching = Viewer /\ paused = {}
  /\ screen = [v \in Viewer |-> NoMap]
  /\ frames = 0 /\ recorded = {}
  /\ drops = 0 /\ lapsed = {}

\* How much a socket has buffered: below, at, or above the soft limit.
Level == {"below", "at", "above"}

\* publish skips a delta above the limit and owes a full snapshot instead;
\* sendBinary drops whatever it is given at the limit or above.
Skipped(v, level) == v \notin needsFull /\ level = "above"
DroppedBySocket(v, level) == ~Skipped(v, level) /\ level # "below"

\* buildSnapshot: the whole map, or the changes added to what is shown.
Shows(v, tiles, changes) == IF v \in needsFull THEN tiles ELSE screen[v] \cup changes

\* recordSnapshotTick writes a key frame for every chunk.
Record(tiles, changes) ==
  /\ recorded' = IF frames = 0 THEN tiles ELSE recorded \cup changes
  /\ frames' = (frames + 1) % FramesPerChunk

\* What publish owes after it, and a publish that forgets what it skipped.
OwedWithoutTheSkipped(levels) == needsFull \ watching
OwedAfter(levels) ==
  (needsFull \ watching) \cup {v \in watching : Skipped(v, levels[v])}

Publish(tiles, changes, levels) ==
  LET sent == {v \in watching : levels[v] = "below"}
      lost == {v \in watching : DroppedBySocket(v, levels[v])}
  IN  /\ screen' = [v \in Viewer |-> IF v \in sent THEN Shows(v, tiles, changes)
                                                   ELSE screen[v]]
      /\ lapsed' = (lapsed \ (needsFull \cap sent)) \cup lost
      /\ needsFull' = OwedAfter(levels)
      /\ Record(tiles, changes)
      /\ unsent' = {}

\* stepAll for a session that goes on: step, and publish on every second beat.
StepAll(changes, levels) ==
  /\ showing
  /\ collapsed' = collapsed \cup changes
  /\ beat' = 1 - beat
  /\ IF beat' = 0
     THEN Publish(collapsed', unsent \cup changes, levels)
     ELSE /\ unsent' = unsent \cup changes
          /\ UNCHANGED <<screen, needsFull, frames, recorded, lapsed>>
  /\ UNCHANGED <<showing, watching, paused, drops>>

\* recordFinalFrame, a key frame always.
FinalFrame(tiles, changes) == tiles

\* stepAll for the tick that decides the match: the room is past Playing before
\* publish asks for its targets, so nobody is sent the frame.
StepEnds(changes) ==
  /\ showing
  /\ showing' = FALSE
  /\ collapsed' = collapsed \cup changes
  /\ beat' = 1 - beat
  /\ recorded' = FinalFrame(collapsed', changes)
  /\ unsent' = IF beat' = 0 THEN {} ELSE unsent \cup changes
  /\ UNCHANGED <<needsFull, watching, paused, screen, frames, drops, lapsed>>

\* eliminateDisconnected when it decides the match, between two ticks.
EndBetweenTicks(v) ==
  /\ showing /\ v \in watching
  /\ showing' = FALSE
  /\ recorded' = FinalFrame(collapsed, unsent)
  /\ unsent' = {}
  /\ watching' = watching \ {v}
  /\ UNCHANGED <<beat, collapsed, needsFull, paused, screen, frames, drops, lapsed>>

\* A viewer's connection is lost; his next one knows no map, is owed a full
\* snapshot (connectionChanged, onResume) and may spectate.
LoseConnection(v) ==
  /\ showing /\ drops < MaxDrops /\ v \in watching
  /\ watching' = watching \ {v}
  /\ screen' = [screen EXCEPT ![v] = NoMap]
  /\ drops' = drops + 1
  /\ UNCHANGED <<beat, showing, collapsed, unsent, needsFull, paused, frames, recorded,
                 lapsed>>

Reconnect(v) ==
  /\ showing /\ v \notin watching \cup paused
  /\ watching' = watching \cup {v}
  /\ needsFull' = needsFull \cup {v}
  /\ UNCHANGED <<beat, showing, collapsed, unsent, paused, screen, frames, recorded,
                 drops, lapsed>>

\* setSpectating, for an eliminated viewer; nothing asks for a full snapshot.
SpectateOff(v) ==
  /\ showing /\ drops < MaxDrops /\ v \in watching
  /\ watching' = watching \ {v} /\ paused' = paused \cup {v}
  /\ lapsed' = lapsed \cup {v}
  /\ drops' = drops + 1
  /\ UNCHANGED <<beat, showing, collapsed, unsent, needsFull, screen, frames, recorded>>

SpectateOn(v) ==
  /\ showing /\ v \in paused
  /\ watching' = watching \cup {v} /\ paused' = paused \ {v}
  /\ UNCHANGED <<beat, showing, collapsed, unsent, needsFull, screen, frames, recorded,
                 drops, lapsed>>

BroadcastNext ==
  \/ \E changes \in SUBSET (Tile \ collapsed) :
       \/ \E levels \in [Viewer -> Level] : StepAll(changes, levels)
       \/ StepEnds(changes)
  \/ \E v \in Viewer : \/ EndBetweenTicks(v)
                       \/ LoseConnection(v) \/ Reconnect(v)
                       \/ SpectateOff(v) \/ SpectateOn(v)

BroadcastSpec == BroadcastInit /\ [][BroadcastNext]_broadcastVars

-----------------------------------------------------------------------------
UpToDate(v) == screen[v] = collapsed \ unsent

\* A viewer who is not owed a full snapshot shows the map as of the last
\* publication, through skipped frames, reconnections and a session that began
\* at either beat (game-session.ts publish, requestFullSnapshot). Left out are
\* those whose frame the socket itself dropped and those who turned spectating
\* off and on.
ViewersShowTheMap ==
  showing => \A v \in watching \ (needsFull \cup lapsed) : UpToDate(v)

\* "Changes that must accumulate are not skipped" (config/network.ts,
\* SOCKET_BUFFER_SOFT_LIMIT_BYTES): a viewer who has the map and keeps his
\* connection and his access stays up to date or is owed a full snapshot.
CongestedViewersCatchUp ==
  showing /\ drops = 0 =>
    \A v \in watching \ needsFull : screen[v] # NoMap => UpToDate(v)

\* The replay shows every collapsed tile: at its latest frame while it is
\* written, and at its last frame when the match is over, though that frame
\* falls between two publications (session-recorder.ts recordFinalFrame).
ReplayShowsTheMap ==
  /\ showing => recorded = collapsed \ unsent
  /\ ~showing => recorded = collapsed

\* Neither the viewers nor the replay miss a collapsed tile, though both are fed
\* from changes that are collected and cleared (game-session.ts publish).
EverybodySeesTheMap == BroadcastTypeOK /\ ViewersShowTheMap /\ ReplayShowsTheMap

=============================================================================
