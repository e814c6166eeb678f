------------------------------- MODULE Scene --------------------------------
(* The renderer of the client: the engine that queues sceneCalls until Phaser has    *)
(* booted, the scene with its map layers, sprites and camera, and the sounds    *)
(* made from the frames (client/src/game/SwitchEngine.ts, GameCanvas.tsx,       *)
(* internal/WorldScene.ts, MapLayer.ts, entityInterpolation.ts,                 *)
(* audio/matchSfx.ts, pages/GamePage.tsx). It draws a match for a player;       *)
(* which frames reach it is in ClientGame.                                     *)
(*                                                                           *)
(* A map is a version of its tiles, a colour scheme a number, a position the    *)
(* number of times its player has blinked. Phaser itself is external: it sceneCalls *)
(* create once and update for ever, and its camera follows one sprite.         *)
EXTENDS Naturals, Sequences, FiniteSets, SequencesExt

CONSTANTS Sighted,          \* player numbers, the viewer's among them
          Self,        \* selfId
          Hideout,        \* tiles that may be see-through
          AmbientFrameSkip,
          MaxSamples,     \* MAX_SAMPLES_PER_ENTITY
          MaxSceneTicks,  \* bound: frames sent
          MaxSceneCalls        \* bound: sceneCalls of settings and camera, blinks

ASSUME SceneAssumption ==
  /\ Sighted \subseteq Nat \ {0} /\ Self \in Sighted /\ IsFiniteSet(Hideout)
  /\ AmbientFrameSkip \in Nat \ {0} /\ MaxSamples \in Nat \ {0}
  /\ MaxSceneTicks \in Nat /\ MaxSceneCalls \in Nat

VARIABLES sceneEngine,  \* phase and pendingOps
          world,        \* WorldScene and its MapLayer
          look,         \* theme and colours of the settings, and what was pushed
          field,        \* the match: ticks, map, see-through tiles, blinks, tagger
          sounds,       \* MatchSfx: the last frame's roles, a switch just heard, the tag heard
          sceneCalls

sceneVars == <<sceneEngine, world, look, field, sounds, sceneCalls>>

NoSprite == 0

\* What init and create make of the options, before anything is loaded.
NewScene(scheme) ==
  [scheme |-> scheme, tiles |-> 0, static |-> <<0, scheme>>, pads |-> <<FALSE, scheme>>,
   alphas |-> {}, concealDirty |-> FALSE, frameCounter |-> 0, lag |-> 0,
   meadow |-> [tiles |-> 0, scheme |-> scheme, alphas |-> {}],
   sprites |-> {}, selfId |-> NoSprite, cameraInitialized |-> FALSE, freeCamera |-> TRUE,
   followedId |-> NoSprite, target |-> NoSprite, fitTarget |-> FALSE, useBounds |-> FALSE,
   intro |-> "none", pendingBlinks |-> {}, buffers |-> [p \in Sighted |-> <<>>]]

SceneInit ==
  /\ sceneEngine = [phase |-> "booting", ops |-> <<>>]
  /\ look = [wanted |-> 1, pushed |-> 1]
  /\ world = NewScene(1)
  /\ \E mode \in {"match", "training", "replay"} :
       field = [mode |-> mode, tick |-> 0, tiles |-> 1, alphas |-> {}, tagger |-> Self,
                blinked |-> [p \in Sighted |-> 0], mapped |-> FALSE, ended |-> FALSE]
  /\ sounds = [seen |-> {}, tagger |-> NoSprite, recent |-> FALSE, tag |-> FALSE,
               cause |-> "none", heard |-> "none"]
  /\ sceneCalls = 0

-----------------------------------------------------------------------------
(* MapLayer: each takes a scene and returns it.                               *)

redrawStatic(s) == [s EXCEPT !.static = <<s.tiles, s.scheme>>]
setTiles(s, tiles) == IF tiles = s.tiles THEN s ELSE redrawStatic([s EXCEPT !.tiles = tiles])
loadMap(s, tiles) == [redrawStatic([s EXCEPT !.tiles = tiles]) EXCEPT !.useBounds = TRUE]
redrawPads(s, there) == [s EXCEPT !.pads = <<there, s.scheme>>]
setTrainingPads(s) == redrawPads(s, TRUE)
\* setTheme, and a change of the colour vision in setSettings.
setScheme(s, scheme) == redrawPads(redrawStatic([s EXCEPT !.scheme = scheme]), s.pads[1])

\* Whether an override set differs from the last one; a mutant compares sizes.
SizeChanged(old, new) == Cardinality(old) # Cardinality(new)
AlphasChanged(old, new) == old # new
setTileAlphas(s, alphas) ==
  [s EXCEPT !.alphas = alphas, !.concealDirty = @ \/ AlphasChanged(s.alphas, alphas)]

\* update: grass and smoke every AmbientFrameSkip frames, or at once when the
\* see-through tiles changed; storm and border every frame.
MeadowNow(s) == [tiles |-> s.tiles, scheme |-> s.scheme, alphas |-> s.alphas]
updateMap(s) ==
  LET counted == [s EXCEPT !.frameCounter = (@ + 1) % AmbientFrameSkip]
      redraws == counted.frameCounter = 0 \/ s.concealDirty
  IN  IF redraws THEN [counted EXCEPT !.concealDirty = FALSE, !.meadow = MeadowNow(s), !.lag = 0]
      ELSE [counted EXCEPT !.lag = IF s.meadow = MeadowNow(s) THEN 0 ELSE @ + 1]

-----------------------------------------------------------------------------
(* The camera and the sprites of WorldScene.                                  *)

startFollowing(s, p) == [s EXCEPT !.target = p]

initializePlayCameraIfReady(s) ==
  IF s.cameraInitialized \/ field.mode = "replay" \/ s.intro = "camera" \/ s.selfId \notin s.sprites THEN s
  ELSE startFollowing([s EXCEPT !.freeCamera = FALSE, !.followedId = s.selfId,
                                !.cameraInitialized = TRUE], s.selfId)

setSelf(s, p) == initializePlayCameraIfReady([s EXCEPT !.selfId = p])

cameraFollow(s, p) ==
  [s EXCEPT !.fitTarget = FALSE, !.useBounds = TRUE, !.freeCamera = FALSE, !.cameraInitialized = TRUE,
            !.followedId = p, !.target = IF p \in s.sprites THEN p ELSE NoSprite]

cameraFree(s) ==
  [s EXCEPT !.fitTarget = FALSE, !.freeCamera = TRUE, !.cameraInitialized = TRUE,
            !.followedId = NoSprite, !.target = NoSprite]

\* The whole map in the view; a view wider than the map needs no bounds.
fitMapToView(s, wide) ==
  IF s.tiles = 0 THEN s ELSE [cameraFree(s) EXCEPT !.fitTarget = TRUE, !.useBounds = wide = 0]

playStartIntro(s) ==
  [s EXCEPT !.intro = "camera", !.followedId = NoSprite, !.target = NoSprite]

endStartIntro(s) ==
  IF s.intro # "camera" THEN s
  ELSE initializePlayCameraIfReady([s EXCEPT !.intro = "fading", !.useBounds = TRUE])

\* spawnPlayer: a sprite that returns is followed again if it was the target.
TakeUpFollowing(s, p) == IF ~s.freeCamera /\ s.followedId = p THEN startFollowing(s, p) ELSE s
spawnPlayer(s, p) ==
  initializePlayCameraIfReady(TakeUpFollowing([s EXCEPT !.sprites = @ \cup {p}], p))

\* removePlayer keeps whom the camera was to follow, and selfId.
removePlayer(s, p) ==
  [s EXCEPT !.sprites = @ \ {p}, !.buffers[p] = <<>>, !.pendingBlinks = @ \ {p},
            !.target = IF s.followedId = p THEN NoSprite ELSE @]

-----------------------------------------------------------------------------
(* entityInterpolation and applySnapshot.                                     *)

\* bufferEntityPositions: a snapped player starts anew, another adds a sample; a
\* jump of less than three tiles is told from a step only by the event.
Snaps(s, p) == s.buffers[p] = <<>> \/ p \in s.pendingBlinks
KeptSamples(q) == SubSeq(q, Len(q) - (IF Len(q) > MaxSamples THEN MaxSamples ELSE Len(q)) + 1, Len(q))
Buffered(s, shot) ==
  [s EXCEPT !.buffers = [p \in Sighted |->
     IF p \notin shot.players THEN <<>>
     ELSE IF Snaps(s, p) THEN <<shot.blinked[p]>> ELSE KeptSamples(Append(s.buffers[p], shot.blinked[p]))]]

\* The sections of one frame, in the order the scene applies them.
applySnapshot(s, shot) ==
  LET mapped  == IF shot.full THEN loadMap(s, shot.tiles) ELSE setTiles(s, shot.tiles)
      lit     == setSelf(setTileAlphas(mapped, shot.alphas), Self)
      placed  == Buffered(lit, shot)
      spawned == FoldSet(LAMBDA p, acc : spawnPlayer(acc, p), placed, shot.players \ s.sprites)
      blinked == [spawned EXCEPT !.pendingBlinks = {}]
  IN  FoldSet(LAMBDA p, acc : removePlayer(acc, p), blinked, s.sprites \ shot.players)

-----------------------------------------------------------------------------
(* SwitchEngine: a call runs at once, or waits until the scene is there.       *)

Performed(s, op) ==
  CASE op.do = "map"    -> loadMap(s, op.arg)
    [] op.do = "pads"   -> setTrainingPads(s)
    [] op.do = "look"   -> setScheme(s, op.arg)
    [] op.do = "follow" -> cameraFollow(s, op.arg)
    [] op.do = "free"   -> cameraFree(s)
    [] op.do = "fit"    -> fitMapToView(s, op.arg)
    [] op.do = "intro"  -> playStartIntro(s)
    [] op.do = "play"   -> endStartIntro(s)
    [] op.do = "blink"  -> [s EXCEPT !.pendingBlinks = @ \cup {op.arg}]

Op(do, arg) == [do |-> do, arg |-> arg]

\* withScene, for calls made one after the other.
withSceneAll(ops) ==
  IF sceneEngine.phase = "ready"
  THEN world' = FoldLeft(Performed, world, ops) /\ UNCHANGED sceneEngine
  ELSE /\ sceneEngine' = [sceneEngine EXCEPT !.ops = @ \o ops]
       /\ UNCHANGED world
withScene(op) == withSceneAll(<<op>>)

\* onReady: what waited, in its order. No frame waits: the page and the replay ask
\* for frames only after whenReady.
SceneReady ==
  /\ sceneEngine.phase = "booting"
  /\ sceneEngine' = [phase |-> "ready", ops |-> <<>>]
  /\ world' = FoldLeft(Performed, world, sceneEngine.ops)
  /\ UNCHANGED <<look, field, sounds, sceneCalls>>

\* The canvas goes: nothing that waited is done any more.
DestroyEngine ==
  /\ sceneEngine.phase # "destroyed" /\ field.ended
  /\ sceneEngine' = [phase |-> "destroyed", ops |-> <<>>]
  /\ UNCHANGED <<world, look, field, sounds, sceneCalls>>

\* Phaser's update.
RenderFrame ==
  /\ sceneEngine.phase = "ready"
  /\ \E faded \in BOOLEAN :
       world' = [updateMap(world) EXCEPT
                   !.intro = IF @ = "fading" /\ faded THEN "none" ELSE @,
                   !.useBounds = IF world.intro = "camera" THEN FALSE ELSE @]
  /\ world' # world
  /\ UNCHANGED <<sceneEngine, look, field, sounds, sceneCalls>>

-----------------------------------------------------------------------------
(* Who sceneCalls: GameCanvas' effects, GamePage, the viewer.                      *)

EngineLives == sceneEngine.phase # "destroyed"
Called == sceneCalls < MaxSceneCalls /\ sceneCalls' = sceneCalls + 1

\* The user picks a theme or a colour mode; the effect pushes it later.
PickLook == /\ Called /\ EngineLives /\ look' = [look EXCEPT !.wanted = 3 - @]
            /\ UNCHANGED <<sceneEngine, world, field, sounds>>
PushLook ==
  /\ EngineLives /\ look.pushed # look.wanted /\ look' = [look EXCEPT !.pushed = look.wanted]
  /\ withScene(Op("look", look.wanted))
  /\ UNCHANGED <<field, sounds, sceneCalls>>

\* loadMap of the page: the verified map is there, and the pads of its markers.
LoadMap ==
  /\ EngineLives /\ ~field.mapped /\ field' = [field EXCEPT !.mapped = TRUE]
  /\ withSceneAll(<<Op("map", 1), Op("pads", 0)>>)
  /\ UNCHANGED <<look, sounds, sceneCalls>>

\* The introduction is for a player of a match, and needs at least 400 ms of the
\* countdown: no frame was drawn yet.
StartIntro ==
  /\ sceneEngine.phase = "ready" /\ field.mode = "match" /\ field.mapped
  /\ field.tick = 0 /\ world.intro = "none"
  /\ withScene(Op("intro", 0))
  /\ UNCHANGED <<look, field, sounds, sceneCalls>>

\* matchReady: the first frame was drawn.
IntroEnds ==
  /\ EngineLives /\ field.tick > 0 /\ world.intro = "camera"
  /\ withScene(Op("play", 0))
  /\ UNCHANGED <<look, field, sounds, sceneCalls>>

\* A row of the roster for one who is out of a match, the player of a training
\* ground, the player a replay is focused on.
WatchPlayer(p) ==
  /\ Called /\ EngineLives
  /\ CASE field.mode = "match"    -> field.tick > 0 /\ world.intro # "camera"
       [] field.mode = "training" -> p = Self
       [] field.mode = "replay"   -> field.mapped
  /\ withScene(Op("follow", p))
  /\ UNCHANGED <<look, field, sounds>>

\* The spectator of a training ground; a replay that jumps (centerOn).
FreeCamera ==
  /\ Called /\ EngineLives /\ field.mode # "match" /\ (field.mode = "replay" => field.mapped)
  /\ withScene(Op("free", 0))
  /\ UNCHANGED <<look, field, sounds>>

\* A replay with nobody in focus.
FitMap(wide) ==
  /\ Called /\ EngineLives /\ field.mode = "replay"
  /\ withScene(Op("fit", wide))
  /\ UNCHANGED <<look, field, sounds>>

\* handleViewportResize: what was fitted is fitted again, a follower is left alone.
ResizeView(wide) ==
  /\ sceneEngine.phase = "ready" /\ world.freeCamera /\ world.fitTarget
  /\ world' = fitMapToView(world, wide)
  /\ UNCHANGED <<sceneEngine, look, field, sounds, sceneCalls>>

\* A drag or the wheel takes the free camera from what it was fitted to.
DragCamera ==
  /\ sceneEngine.phase = "ready" /\ world.freeCamera /\ world.fitTarget
  /\ world' = [world EXCEPT !.fitTarget = FALSE]
  /\ UNCHANGED <<sceneEngine, look, field, sounds, sceneCalls>>

-----------------------------------------------------------------------------
(* The match as its messages tell it.                                         *)

\* player.blinked comes before the frame with the new place.
Blink(p) ==
  /\ Called /\ EngineLives /\ field.mapped
  /\ field' = [field EXCEPT !.blinked[p] = @ + 1]
  /\ withScene(Op("blink", p))
  /\ UNCHANGED <<look, sounds>>

\* Another tagger, by a catch or by a switch, whose event is heard at once.
TaggerChanges(p, how) ==
  /\ Called /\ field.mapped /\ p # field.tagger
  /\ field' = [field EXCEPT !.tagger = p]
  /\ sounds' = [sounds EXCEPT !.cause = IF @ = "switch" THEN @ ELSE how,
                              !.recent = @ \/ how = "switch"]
  /\ UNCHANGED <<sceneEngine, world, look>>

\* Half a second after a switch, when its frame has come.
SwitchFades ==
  /\ sounds.recent /\ sounds.cause # "switch" /\ sounds' = [sounds EXCEPT !.recent = FALSE]
  /\ UNCHANGED <<sceneEngine, world, look, field, sceneCalls>>

\* MatchSfx.reset, when the match begins or the viewer's number changes.
ResetSounds ==
  /\ field.tick < 2 /\ sounds.seen # {}
  /\ sounds' = [sounds EXCEPT !.seen = {}, !.recent = FALSE, !.tag = FALSE]
  /\ UNCHANGED <<sceneEngine, world, look, field, sceneCalls>>

\* onSnapshot's rule: somebody seen twice became the tagger, and somebody seen
\* twice stopped being him; without the second half a player who comes into sight
\* as a tagger would do.
GainedTag(players, it) == it \in players \cap sounds.seen /\ it # sounds.tagger
LostTag(players, it) == sounds.tagger \in players \cap sounds.seen /\ it # sounds.tagger
TagHeard(players, it) ==
  field.mode # "training" /\ GainedTag(players, it) /\ LostTag(players, it) /\ ~sounds.recent

\* A frame: the tiles and the see-through ones may have changed, and who is seen is
\* for the server to say; a full one brings the whole map.
FrameComes(players, tiles, alphas, full) ==
  /\ sceneEngine.phase = "ready" /\ field.mapped /\ field.tick < MaxSceneTicks
  /\ field' = [field EXCEPT !.tick = @ + 1, !.tiles = tiles, !.alphas = alphas]
  /\ world' = applySnapshot(world, [tiles |-> tiles, full |-> full, alphas |-> alphas,
                                    players |-> players, blinked |-> field.blinked])
  /\ UNCHANGED sceneEngine
  /\ sounds' = [sounds EXCEPT !.seen = players, !.tagger = field.tagger,
                              !.tag = TagHeard(players, field.tagger),
                              !.heard = sounds.cause, !.cause = "none"]
  /\ UNCHANGED <<look, sceneCalls>>

MatchOver == /\ ~field.ended /\ field.tick = MaxSceneTicks /\ field' = [field EXCEPT !.ended = TRUE]
            /\ UNCHANGED <<sceneEngine, world, look, sounds, sceneCalls>>

SceneNext ==
  \/ SceneReady \/ DestroyEngine \/ RenderFrame
  \/ PickLook \/ PushLook \/ LoadMap \/ StartIntro \/ IntroEnds
  \/ \E p \in Sighted : WatchPlayer(p) \/ Blink(p)
  \/ FreeCamera \/ DragCamera
  \/ \E wide \in {0, 1} : FitMap(wide) \/ ResizeView(wide)
  \/ \E p \in Sighted, how \in {"tag", "switch"} : TaggerChanges(p, how)
  \/ SwitchFades \/ ResetSounds
  \/ \E players \in SUBSET Sighted, tiles \in {field.tiles, field.tiles + 1}, alphas \in SUBSET Hideout,
       full \in BOOLEAN : FrameComes(players, tiles, alphas, full)
  \/ MatchOver

SceneSpec == SceneInit /\ [][SceneNext]_sceneVars

-----------------------------------------------------------------------------
(* What the viewer may rely on once the scene is there.                       *)

\* The baked floor, walls and pads are those of the tiles and of the colours chosen last.
FloorIsFresh ==
  /\ world.static = <<world.tiles, world.scheme>> /\ world.scheme = look.pushed
  /\ world.pads[2] = world.scheme

\* Grass and smoke lag behind the tiles by fewer frames than are skipped, and behind
\* the viewer's own see-through tiles by none.
MeadowKeepsUp ==
  /\ world.meadow.alphas # world.alphas => world.concealDirty
  /\ world.lag < AmbientFrameSkip

\* The camera follows whom it was told to follow as soon and as long as he is seen,
\* never beyond the map's edge, and nobody else; the viewer's own sprite was taken up
\* once, unless the introduction holds the camera.
CameraFollowsTheChosen ==
  /\ world.target # NoSprite =>
       /\ world.target \in world.sprites /\ world.target = world.followedId
       /\ ~world.freeCamera /\ world.useBounds
  /\ world.intro # "camera" /\ ~world.freeCamera =>
       /\ world.followedId # NoSprite
       /\ world.followedId \in world.sprites => world.target = world.followedId
  /\ field.mode # "replay" /\ world.intro # "camera" /\ Self \in world.sprites => world.cameraInitialized

\* No path is drawn between the places before and after a blink.
NoPathAcrossABlink ==
  \A p \in Sighted : \A i, j \in DOMAIN world.buffers[p] : world.buffers[p][i] = world.buffers[p][j]

\* Whatever the order in which the engine boots, the map comes, frames are drawn, the
\* camera is moved and the colours change: the picture is that of the newest frame,
\* the camera is where it was sent, and the sound of a catch is only made of a catch.
SceneIsDrawnRight ==
  /\ sceneEngine.phase = "ready" =>
       FloorIsFresh /\ MeadowKeepsUp /\ CameraFollowsTheChosen /\ NoPathAcrossABlink
  /\ sounds.tag => sounds.heard = "tag"

=============================================================================
