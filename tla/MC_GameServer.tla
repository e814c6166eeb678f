--------------------------- MODULE MC_GameServer ----------------------------
(* The in-game server: what is in a room, what is at its door, and the replay  *)
(* that is made of a match. A behaviour is one of one part, chosen at the       *)
(* start; the others stay where they began. The room has two parts that are     *)
(* too large together: three users through two games in a created room that is  *)
(* never rearranged, and two at a time who pass the host's place, move seats    *)
(* and lock a created or adopted room around one game.                          *)
EXTENDS Room, Match, Broadcast, Replays, Playback, Controls, Connections,
        RateLimit, Gateway, TLC

VARIABLE part

\* Interchangeable users; seats are numbers and are not.
Symmetry == Permutations(User)

Owner == [t1 |-> "a", t2 |-> "a"]
Address == [s1 |-> "ip", s2 |-> "ip"]
Path == [u1 |-> "b1", u2 |-> "b1"]

\* Nobody moves to another seat, passes the host's place on or locks the room.
NotRearranged ==
  /\ locked' = locked
  /\ \A u \in Members : seat'[u] \in {seat[u], Nowhere}
  /\ host' # host => host \notin Members'

\* While the replay of a game is being saved nobody comes.
SavingAlone ==
  phase' = "Waiting" /\ session' = "saving" =>
      Holders' = {} /\ \A u \in User : conn'[u] \in {"none", "online", "away"}

\* Somebody is kicked before or in the first game, which then is the last; the second
\* game is one of those who are there, until it ends.
GamesNext ==
  /\ Next /\ NotRearranged /\ SavingAlone
  /\ kicked' # {} /\ played' = 1 => phase' \in {"Countdown", "Playing", "Closed"}
  /\ played' = 2 => kicked' = {} /\ phase' \in {"Countdown", "Playing", "Closed"} /\ Holders' = {}

\* One of the keyboard and the joystick at a time.
SteeringNext == ControlsNext /\ (pressed' = {} \/ touch' = {})

LobbyNext == Next /\ SavingAlone /\ played' <= 1 /\ kicked' = {} /\ Cardinality(Members' \cup Holders') <= 2

inRoom == <<vars, worldVars, broadcastVars, replayVars, playbackVars,
            controlVars>>
atTheDoor == <<connectionVars, rateVars, gatewayVars>>
all == <<inRoom, atTheDoor, part>>

Part == {"games", "lobby", "match", "broadcast", "replays", "playback",
         "controls", "connections", "rate", "upgrades"}

\* Of a part that stands still one initial state is enough.
Standing ==
  /\ part # "lobby" => phase = "Allocating"
  /\ part = "lobby" => Cardinality(Members) <= 2
  /\ part # "match" => taggers = {CHOOSE p \in Player : TRUE}
  /\ part # "broadcast" => beat = 0

GameServerInit ==
  /\ part \in Part
  /\ Init /\ MatchInit /\ BroadcastInit /\ ReplaysInit /\ PlaybackInit
  /\ ControlsInit /\ ConnectionsInit /\ RateInit /\ GatewayInit
  /\ Standing

GameServerNext ==
  \/ /\ part = "games" /\ GamesNext
     /\ UNCHANGED <<worldVars, broadcastVars, replayVars, playbackVars,
                    controlVars, atTheDoor, part>>
  \/ /\ part = "lobby" /\ LobbyNext
     /\ UNCHANGED <<worldVars, broadcastVars, replayVars, playbackVars,
                    controlVars, atTheDoor, part>>
  \/ /\ part = "match" /\ MatchNext
     /\ UNCHANGED <<vars, broadcastVars, replayVars, playbackVars, controlVars,
                    atTheDoor, part>>
  \/ /\ part = "broadcast" /\ BroadcastNext
     /\ UNCHANGED <<vars, worldVars, replayVars, playbackVars, controlVars,
                    atTheDoor, part>>
  \/ /\ part = "replays" /\ ReplaysNext
     /\ UNCHANGED <<vars, worldVars, broadcastVars, playbackVars, controlVars,
                    atTheDoor, part>>
  \/ /\ part = "playback" /\ PlaybackNext
     /\ UNCHANGED <<vars, worldVars, broadcastVars, replayVars, controlVars,
                    atTheDoor, part>>
  \/ /\ part = "controls" /\ SteeringNext
     /\ UNCHANGED <<vars, worldVars, broadcastVars, replayVars, playbackVars,
                    atTheDoor, part>>
  \/ /\ part = "connections" /\ ConnectionsNext
     /\ UNCHANGED <<rateVars, gatewayVars, inRoom, part>>
  \/ /\ part = "rate" /\ RateNext
     /\ UNCHANGED <<connectionVars, gatewayVars, inRoom, part>>
  \/ /\ part = "upgrades" /\ UpgradesNext
     /\ UNCHANGED <<connectionVars, rateVars, inRoom, part>>

GameServerSpec == GameServerInit /\ [][GameServerNext]_all

=============================================================================
