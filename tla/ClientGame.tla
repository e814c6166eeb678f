----------------------------- MODULE ClientGame -----------------------------
(* What somebody in a match sees (client/src/game, pages/GamePage.tsx and      *)
(* LobbyPage.tsx): the messages and frames of his room, in the order the       *)
(* server sent them, the buffers that hold frames until there is a page, an    *)
(* engine and a map to draw them on, and the page that follows the room.       *)
(*                                                                            *)
(* The map is one tile that changes as the match goes on, the others are one   *)
(* player who is seen or not. Effects of a page run some time after the        *)
(* message they depend on. Reconnecting itself is in ClientSession.            *)
EXTENDS Naturals, Sequences

CONSTANTS MaxTile,     \* changes of the tile in a match
          MaxWire,     \* messages under way, but for those of a new connection
          MaxTroubles, \* lost connections and pages left in the middle of a match
          MaxRounds    \* matches of the room

ASSUME ClientGameAssumption ==
  MaxTile \in Nat /\ MaxWire \in Nat \ {0} /\ MaxTroubles \in Nat /\ MaxRounds \in Nat

VARIABLES room,      \* the server: phase, tile, tagger, who is seen, the frame owed
          link,      \* the connection and what is under way on it
          state,     \* GameSession.state: roomState, starting with its countdown,
                     \* started, ended, taggerId
          startup,   \* startupSnapshots
          latest,    \* latestSnapshot
          display,   \* the page, its engine, map and frames
          shown,     \* what the engine draws: tile, the other player, the camera
          strayed,   \* an end that was not heard, or a page mounted twice in a match
          count      \* rounds and troubles so far, for the bounds

gameVars == <<room, link, state, startup, latest, display, shown, strayed, count>>

None == 99
Me == 1
Other == 2
NoFrame == [kind |-> "none"]
InGame == {"Countdown", "Playing"}

NewScreen(name) ==
  [page |-> name, engine |-> "none", map |-> "none", pending |-> NoFrame,
   first |-> FALSE, intro |-> "none"]
Blank == [tile |-> None, me |-> FALSE, other |-> FALSE, follows |-> FALSE, camera |-> FALSE]

GameInit ==
  /\ room = [phase |-> "Waiting", tile |-> 0, it |-> Me, sees |-> FALSE,
             full |-> TRUE, watches |-> FALSE]
  /\ link = [up |-> TRUE, wire |-> <<>>]
  /\ state = [roomState |-> "Waiting", starting |-> FALSE, started |-> FALSE,
              ended |-> FALSE, counts |-> FALSE, it |-> None]
  /\ startup = NoFrame /\ latest = NoFrame
  /\ display = NewScreen("lobby") /\ shown = Blank
  /\ strayed = {}
  /\ count = [rounds |-> 0, troubles |-> 0]

-----------------------------------------------------------------------------
(* The server, as it is heard.                                                *)

Msg(kind) == [kind |-> kind, phase |-> room.phase, it |-> room.it]
Send(r, msgs) ==
  /\ room' = r
  /\ link' = IF link.up THEN [link EXCEPT !.wire = @ \o msgs] ELSE link
  /\ Len(link'.wire) <= MaxWire
Heard == UNCHANGED <<state, startup, latest, display, shown>>

StartGame ==
  /\ room.phase = "Waiting" /\ count.rounds < MaxRounds
  /\ count' = [count EXCEPT !.rounds = @ + 1]
  /\ Send([room EXCEPT !.phase = "Countdown"], <<[Msg("starting") EXCEPT !.phase = "Countdown"]>>)
  /\ Heard /\ UNCHANGED strayed

BeginPlaying ==
  /\ room.phase = "Countdown"
  /\ \E it \in {Me, Other} :
       Send([room EXCEPT !.phase = "Playing", !.tile = 0, !.it = it, !.full = TRUE,
                         !.watches = FALSE],
            <<[Msg("started") EXCEPT !.it = it]>>)
  /\ Heard /\ UNCHANGED <<strayed, count>>

\* One tick: the tile may change, the tagger may change (player.tagged comes before
\* the frame), somebody is seen or not. A spectator sees everybody. What the viewer
\* has never seen comes whole.
Frame(tile, changed, it, sees) ==
  [kind |-> "frame", full |-> room.full,
   map |-> IF room.full THEN tile ELSE None,
   change |-> IF changed /\ ~room.full THEN tile ELSE None,
   me |-> ~room.watches, other |-> sees,
   it |-> IF it = Me \/ sees THEN it ELSE None]

Tick(changed, it, sees) ==
  LET tile == IF changed THEN room.tile + 1 ELSE room.tile
  IN  /\ room.phase = "Playing" /\ tile <= MaxTile
      /\ room.watches => sees /\ it = Other
      /\ Send([room EXCEPT !.tile = tile, !.it = it, !.sees = sees,
                           !.full = IF link.up THEN FALSE ELSE @],
              (IF it # room.it THEN <<[Msg("tagged") EXCEPT !.it = it]>> ELSE <<>>)
              \o <<Frame(tile, changed, it, sees)>>)
      /\ Heard /\ UNCHANGED <<strayed, count>>

EndGame ==
  /\ room.phase = "Playing"
  /\ Send([room EXCEPT !.phase = "PostGame"], <<Msg("ended")>>)
  /\ strayed' = IF link.up THEN strayed ELSE strayed \cup {"end"}
  /\ Heard /\ UNCHANGED count

ReturnToLobby ==
  /\ room.phase = "PostGame"
  /\ Send([room EXCEPT !.phase = "Waiting"], <<[Msg("lobby") EXCEPT !.phase = "Waiting"]>>)
  /\ Heard /\ UNCHANGED <<strayed, count>>

\* A lost connection takes what was under way with it; its player is out of the
\* match, and no tagger in it.
Cut ==
  /\ link.up /\ count.troubles < MaxTroubles
  /\ count' = [count EXCEPT !.troubles = @ + 1]
  /\ link' = [up |-> FALSE, wire |-> <<>>]
  /\ room' = IF room.phase = "Playing" THEN [room EXCEPT !.watches = TRUE, !.it = Other] ELSE room
  /\ strayed' = IF \E i \in 1 .. Len(link.wire) : link.wire[i].kind = "ended"
                THEN strayed \cup {"end"} ELSE strayed
  /\ Heard

\* auth.ok with the state of the lobby, and where a match is on its starting and
\* started again, the former without a countdown and the latter with the first tagger;
\* then a full frame.
Rejoin ==
  /\ ~link.up
  /\ \E first \in {Me, Other} :
       link' = [up |-> TRUE, wire |->
         <<Msg("lobby")>>
         \o (IF room.phase \in InGame THEN <<Msg("starting")>> ELSE <<>>)
         \o (IF room.phase = "Playing" THEN <<[Msg("started") EXCEPT !.it = first]>> ELSE <<>>)]
  /\ room' = [room EXCEPT !.full = TRUE]
  /\ Heard /\ UNCHANGED <<strayed, count>>

-----------------------------------------------------------------------------
(* The session and the engine.                                                *)

\* BufferedSnapshots.push; and one that keeps the last frame only.
LastOnly(held, next) == next
Merge(held, next) ==
  IF next.full \/ held = NoFrame THEN next
  ELSE [next EXCEPT
          !.map = IF held.map # None /\ next.change # None THEN next.change ELSE held.map,
          !.change = IF held.map # None THEN None
                     ELSE IF next.change # None THEN next.change ELSE held.change]

\* WorldScene.applySnapshot: the map, then the tiles that changed; who is not in the
\* frame is removed; my own sprite gives the camera something to follow.
Drawn(pic, f) ==
  [tile |-> IF f.map # None THEN f.map
            ELSE IF f.change # None /\ pic.tile # None THEN f.change ELSE pic.tile,
   me |-> f.me, other |-> f.other,
   camera |-> pic.camera \/ (f.me /\ display.intro # "camera"),
   follows |-> f.me /\ (pic.follows \/ (~pic.camera /\ display.intro # "camera"))]

\* updateHudSnapshot: a tagger who is not seen stays the tagger.
HudTagger(known, f) ==
  IF f.it # None THEN f.it
  ELSE IF known = Me \/ (known = Other /\ f.other) THEN None ELSE known

ApplyFrame(f) ==
  /\ shown' = Drawn(shown, f)
  /\ state' = [state EXCEPT !.it = HudTagger(@, f)]

\* A frame goes to the game page, which holds it until the map is there, or into the
\* session's own buffer when no page listens.
HearFrame(f) ==
  /\ latest' = f
  /\ IF display.page # "game"
     THEN startup' = Merge(startup, f) /\ UNCHANGED <<state, display, shown>>
     ELSE IF display.map # "ready"
     THEN display' = [display EXCEPT !.pending = Merge(@, f)]
          /\ UNCHANGED <<state, startup, shown>>
     ELSE /\ ApplyFrame(f)
          /\ display' = [display EXCEPT !.first = @ \/ state.started]
          /\ UNCHANGED startup

\* handleMessage
HearMessage(m) ==
  /\ \/ /\ m.kind = "starting"
        /\ state' = [state EXCEPT !.roomState = "Countdown", !.starting = TRUE, !.ended = FALSE,
                                  !.counts = (m.phase = "Countdown")]
        /\ startup' = NoFrame /\ latest' = NoFrame
     \/ /\ m.kind = "started"
        /\ state' = [state EXCEPT !.roomState = "Playing", !.started = TRUE, !.it = m.it]
        /\ UNCHANGED <<startup, latest>>
     \/ /\ m.kind = "tagged"
        /\ state' = [state EXCEPT !.it = m.it]
        /\ UNCHANGED <<startup, latest>>
     \/ /\ m.kind = "ended"
        /\ state' = [roomState |-> "PostGame", starting |-> FALSE, started |-> FALSE,
                     ended |-> TRUE, counts |-> FALSE, it |-> None]
        /\ UNCHANGED <<startup, latest>>
     \/ /\ m.kind = "lobby"
        /\ state' = [state EXCEPT !.roomState = m.phase]
        /\ UNCHANGED <<startup, latest>>
  /\ UNCHANGED <<display, shown>>

Hear ==
  /\ link.wire # <<>>
  /\ link' = [link EXCEPT !.wire = Tail(@)]
  /\ IF Head(link.wire).kind = "frame" THEN HearFrame(Head(link.wire))
     ELSE HearMessage(Head(link.wire))
  /\ UNCHANGED <<room, strayed, count>>

-----------------------------------------------------------------------------
(* The pages.                                                                 *)

ServerStays == UNCHANGED <<room, link, latest, count>>

\* The lobby goes to the game once it is starting. The game page makes an engine,
\* asks for the map, and takes what the session has held for it.
GoToGame ==
  /\ display.page = "lobby" /\ state.starting
  /\ display' = [NewScreen("game") EXCEPT !.engine = "booting", !.map = "asked",
                                         !.pending = startup]
  /\ startup' = NoFrame /\ shown' = Blank
  /\ ServerStays /\ UNCHANGED <<state, strayed>>

\* WorldScene exists: what was asked of the engine meanwhile is done now.
EngineBoots ==
  /\ display.engine = "booting"
  /\ display' = [display EXCEPT !.engine = "ready"]
  /\ shown' = IF display.map = "loaded" THEN [shown EXCEPT !.tile = 0] ELSE shown
  /\ ServerStays /\ UNCHANGED <<state, startup, strayed>>

\* loadMap: the bundle arrives, or fails and is asked for again by hand; once the
\* engine is ready the frames held for it are drawn, or the latest.
MapArrives ==
  /\ display.map = "asked"
  /\ display' = [display EXCEPT !.map = "loaded"]
  /\ shown' = IF display.engine = "ready" THEN [shown EXCEPT !.tile = 0] ELSE shown
  /\ ServerStays /\ UNCHANGED <<state, startup, strayed>>

MapFails ==
  /\ display.map = "asked"
  /\ display' = [display EXCEPT !.map = "failed"]
  /\ ServerStays /\ UNCHANGED <<state, startup, shown, strayed>>

RetryMap ==
  /\ display.map = "failed"
  /\ display' = [display EXCEPT !.map = "asked"]
  /\ ServerStays /\ UNCHANGED <<state, startup, shown, strayed>>

MapReady ==
  /\ display.map = "loaded" /\ display.engine = "ready"
  /\ LET held == IF display.pending # NoFrame THEN display.pending ELSE latest
     IN  /\ IF held # NoFrame THEN ApplyFrame(held) ELSE UNCHANGED <<shown, state>>
         /\ display' = [display EXCEPT !.map = "ready", !.pending = NoFrame,
                                     !.first = @ \/ (held # NoFrame /\ state.started)]
  /\ ServerStays /\ UNCHANGED <<startup, strayed>>

\* The countdown shows the whole map and goes to where I stand; the first frame of
\* the match gives the camera back.
MatchReady == display.engine = "ready" /\ display.map = "ready" /\ state.started /\ display.first

PlayIntro ==
  /\ display.page = "game" /\ display.engine = "ready" /\ display.map = "ready"
  /\ state.roomState = "Countdown" /\ state.counts /\ display.intro = "none"
  /\ display' = [display EXCEPT !.intro = "camera"]
  /\ shown' = [shown EXCEPT !.follows = FALSE]
  /\ ServerStays /\ UNCHANGED <<state, startup, strayed>>

\* endStartIntro: the camera follows me from now on, where I am drawn already.
CameraGivenBack(pic) ==
  IF pic.me /\ ~pic.camera THEN [pic EXCEPT !.camera = TRUE, !.follows = TRUE] ELSE pic

EndIntro ==
  /\ display.page = "game" /\ display.intro = "camera" /\ MatchReady
  /\ display' = [display EXCEPT !.intro = "over"]
  /\ shown' = CameraGivenBack(shown)
  /\ ServerStays /\ UNCHANGED <<state, startup, strayed>>

\* game.ended takes the game page to the result, from where one returns to the lobby.
GoToResult ==
  /\ display.page = "game" /\ state.ended
  /\ display' = NewScreen("result") /\ shown' = Blank
  /\ strayed' = {}
  /\ ServerStays /\ UNCHANGED <<state, startup>>

ComeBack ==
  /\ display.page \in {"result", "rooms"}
  /\ display' = NewScreen("lobby")
  /\ ServerStays /\ UNCHANGED <<state, startup, shown, strayed>>

\* Somebody leaves the game page by going back, and keeps his session.
StepOut ==
  /\ display.page = "game" /\ count.troubles < MaxTroubles
  /\ count' = [count EXCEPT !.troubles = @ + 1]
  /\ display' = NewScreen("rooms") /\ shown' = Blank
  /\ strayed' = strayed \cup {"page"}
  /\ UNCHANGED <<room, link, latest, state, startup>>

ServerNext ==
  \/ StartGame \/ BeginPlaying \/ EndGame \/ ReturnToLobby \/ Cut \/ Rejoin
  \/ \E changed, sees \in BOOLEAN, it \in {Me, Other} : Tick(changed, it, sees)

PageEffects == GoToGame \/ PlayIntro \/ EndIntro \/ GoToResult

GameNext ==
  \/ ServerNext \/ Hear \/ PageEffects
  \/ EngineBoots \/ MapArrives \/ MapFails \/ RetryMap \/ MapReady \/ ComeBack \/ StepOut

GameSpec == GameInit /\ [][GameNext]_gameVars

-----------------------------------------------------------------------------
\* Everything sent has been heard, and the page has acted on it.
Settled ==
  /\ link.up /\ link.wire = <<>>
  /\ ~(display.page = "lobby" /\ state.starting)
  /\ ~(display.page = "game" /\ state.ended)
  /\ ~(display.page = "game" /\ display.intro = "camera" /\ MatchReady)

\* The picture is the match: however frames came before there was a page, an engine or
\* a map to draw them on, and over lost connections, the tile and the players are
\* those of the server, nobody is named tagger who is not (nobody at all may be, when
\* a frame held back is drawn after the news of a tagger who is not seen), and the
\* camera follows the player (BufferedSnapshots, applySnapshot, updateHudSnapshot).
PictureIsTheMatch ==
  Settled /\ display.page = "game" /\ room.phase = "Playing" /\ ~room.full
    /\ display.map = "ready" =>
    /\ "page" \notin strayed => shown.tile = room.tile
    /\ shown.other = room.sees
    /\ state.it \in {room.it, None}
    /\ ~room.watches => shown.follows

\* The page is that of the room's phase: nobody is left on the page of a match that is
\* over, or in the lobby of one that is on (LobbyPage, GamePage, handleMessage).
PageFollowsTheRoom ==
  Settled =>
    /\ state.roomState = room.phase
    /\ display.page = "game" => room.phase \in InGame
    /\ room.phase \in InGame => display.page \in {"game", "result", "rooms"}

\* Somebody in a match sees the match. Left out are the end of a match that came while
\* the connection was lost, which the server does not tell again, and the tiles on a
\* page that was left and mounted again in a match, which has missed the full frame.
ScreenShowsTheMatch ==
  "end" \notin strayed => PictureIsTheMatch /\ PageFollowsTheRoom

=============================================================================
