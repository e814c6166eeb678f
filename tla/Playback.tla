------------------------------ MODULE Playback ------------------------------
(* From a match to its replay on the screen: what the recorder of a game       *)
(* session writes (server-game/src/game/session-recorder.ts,                   *)
(* replay/recorder.ts), the container of chunks with their hashes and the      *)
(* signature (shared/src/replay), the page that opens it (client/src/replay,   *)
(* pages/ReplayPage.tsx), what it works out of it (analysis.ts), and the       *)
(* player that seeks in it (pages/replay/ReplayAnalyzer.tsx).                  *)
(*                                                                            *)
(* A world is one tile that changes, who lives, who is the tagger, and whether  *)
(* player 1 sees player 2. Hashes and signatures are known by what has become  *)
(* of the bytes under them.                                                   *)
EXTENDS Integers, Sequences, FiniteSets

CONSTANTS Cast,           \* the players of the match
          Watched,        \* those of them the viewer looks at
          SnapshotEvery,  \* ticks from one frame to the next
          ChunkFrames,    \* FRAMES_PER_CHUNK
          MaxTicks,       \* ticks of a match
          MaxIncidents,   \* what happens in it
          MaxIncremental  \* MAX_INCREMENTAL_FRAMES

ASSUME PlaybackAssumption ==
  /\ Cast \subseteq Nat /\ IsFiniteSet(Cast) /\ {1, 2} \subseteq Cast /\ Watched \subseteq Cast
  /\ {SnapshotEvery, ChunkFrames, MaxTicks, MaxIncremental} \subseteq Nat \ {0}
  /\ MaxIncidents \in Nat

VARIABLES scene,   \* the match: tick, its world, what happened so far, the tile that
                   \* changed since the last frame, whether it is over
          past,    \* the world at every tick
          tape,    \* what was recorded: frames and events
          copy,    \* what has become of the file
          opening, \* ReplayPage: the load state, its verification, the chunks read
          viewer,  \* ReplayAnalyzer: position, applied frame, focus and point of view
          picture  \* what the engine draws

playbackVars == <<scene, past, tape, copy, opening, viewer, picture>>

Unknown == 0
NoCopy == [key |-> "none", hurt |-> "unwritten"]
NoPicture == [tile |-> -1, players |-> {}]
NoViewer == [position |-> 0, applied |-> 0, focus |-> Unknown, pov |-> Unknown, map |-> FALSE]

PlaybackInit ==
  /\ scene = [tick |-> 0, tile |-> 0, alive |-> Cast, it |-> 1, sees |-> TRUE,
              incidents |-> 0, changed |-> FALSE, over |-> FALSE]
  /\ past = <<>>
  /\ tape = [frames |-> <<>>, events |-> <<>>]
  /\ copy = NoCopy
  /\ opening = [kind |-> "empty", verification |-> "none", chunks |-> 0]
  /\ viewer = NoViewer /\ picture = NoPicture

-----------------------------------------------------------------------------
(* Recording.                                                                 *)

World(s) == [tile |-> s.tile, alive |-> s.alive, it |-> s.it, sees |-> s.sees]

Event(s, kind, who, by) == [tick |-> s.tick, kind |-> kind, who |-> who, by |-> by]

\* What one tick may bring, with the events it leaves: nothing, a tile, a bush, a
\* catch, a switch that comes off, one that does not, a tagger who is replaced.
Runners(s) == s.alive \ {s.it}
Incidents(s) ==
  {<<s, <<>>>>}
  \cup (IF scene.incidents = MaxIncidents THEN {} ELSE
        LET n == [s EXCEPT !.incidents = @ + 1]
        IN  {<<[n EXCEPT !.tile = @ + 1, !.changed = TRUE], <<>>>>,
             <<[n EXCEPT !.sees = ~@], <<>>>>}
            \cup {<<[n EXCEPT !.alive = @ \ {v}], <<Event(s, "eliminated", v, s.it)>>>> : v \in Runners(s)}
            \cup {<<[n EXCEPT !.it = p[2]],
                    <<Event(s, "area", p[1], p[2]), Event(s, "tagged", p[2], p[1])>>>> :
                  p \in {q \in Runners(s) \X Runners(s) : q[1] # q[2]}}
            \cup {<<n, <<Event(s, "area", c, s.it)>>>> : c \in Runners(s)}
            \cup {<<[n EXCEPT !.it = v], <<Event(s, "tagged", v, Unknown)>>>> : v \in Runners(s)})

\* encodeForViewer without a censor: a full frame carries the map, another what has
\* changed; the visibility of its tick is written with it.
FrameOf(s, full) ==
  [tick |-> s.tick, full |-> full, map |-> IF full THEN s.tile ELSE -1,
   change |-> IF ~full /\ s.changed THEN s.tile ELSE -1,
   players |-> s.alive, it |-> s.it, sees |-> s.sees]

KeyFrame == Len(tape.frames) % ChunkFrames = 0

\* stepWorld and what the session does with it: the events of every tick are written,
\* a frame where a snapshot is due, and at the end of the match a full one.
SceneTick(out, ends) ==
  LET s == out[1]
      due == ends \/ s.tick % SnapshotEvery = 0
  IN  /\ ~scene.over /\ s.tick <= MaxTicks
      /\ s.tick = MaxTicks => ends
      /\ tape' = [frames |-> IF due THEN Append(tape.frames, FrameOf(s, ends \/ KeyFrame))
                             ELSE tape.frames,
                  events |-> tape.events \o out[2]]
      /\ past' = Append(past, World(s))
      /\ scene' = [s EXCEPT !.changed = @ /\ ~due, !.over = ends]
      /\ UNCHANGED <<copy, opening, viewer, picture>>

-----------------------------------------------------------------------------
(* The file.                                                                  *)

Frames == tape.frames
Count == Len(Frames)

\* writeFrame: a full frame begins a chunk.
Rotates(i) == i = 1 \/ Frames[i].full
ChunkStarts == {i \in 1 .. Count : Rotates(i)}
ChunkOf(i) == Cardinality({j \in ChunkStarts : j <= i})
Chunks == Cardinality(ChunkStarts)

\* The file on its way to the one who opens it: with a signature, without one, or
\* with one of a key that is not known any more; and whole, or not what was written
\* in one of its parts: its length, a field of the manifest, the root hash in it, the
\* index, a chunk.
Copies == [key : {"known", "none", "unknown"},
           hurt : {"no", "cut", "manifest", "root", "index", "chunk"}]

Store(c) ==
  /\ scene.over /\ copy = NoCopy
  /\ copy' = c
  /\ UNCHANGED <<scene, past, tape, opening, viewer, picture>>

\* parseReplayContainer and validateReplayMetadata: what is no container.
Parses(c) == c.hurt # "cut"
\* verifyRootHash: the hashes in the index against the manifest's.
RootMatches(c) == c.hurt \notin {"index", "root"}
\* checkReplaySignature over all the bytes before it.
SignatureOf(c) ==
  CASE c.key = "none" -> "absent" [] c.key = "unknown" -> "unknown-key"
    [] c.hurt = "no" -> "signed" [] OTHER -> "forged"
\* decodeChunk: the hash of a chunk against the index; the second is the one hurt.
HurtChunk == 2
ChunkMatches(c, k) == c.hurt \in {"index", "chunk"} => k # HurtChunk

\* openReplay: a broken hash is final, whatever the signature.
Verification(c) ==
  IF ~RootMatches(c) THEN "modified"
  ELSE CASE SignatureOf(c) = "signed" -> "verified" [] SignatureOf(c) = "forged" -> "modified"
         [] OTHER -> "unverified"

OpenReplay ==
  /\ copy # NoCopy /\ opening.kind \in {"empty", "failed"}
  /\ opening' = IF ~Parses(copy) THEN [kind |-> "failed", verification |-> "unsupported", chunks |-> 0]
                ELSE [kind |-> "reading", verification |-> Verification(copy), chunks |-> 0]
  /\ UNCHANGED <<scene, past, tape, copy, viewer, picture>>

\* loadChunk, one after the other; one that does not match its hash ends it.
LoadChunk ==
  /\ opening.kind = "reading"
  /\ LET k == opening.chunks + 1
     IN  opening' = IF ~ChunkMatches(copy, k)
                    THEN [kind |-> "failed", verification |-> "unsupported", chunks |-> 0]
                    ELSE [opening EXCEPT !.chunks = k, !.kind = IF k = Chunks THEN "ready" ELSE @]
  /\ viewer' = NoViewer /\ picture' = NoPicture
  /\ UNCHANGED <<scene, past, tape, copy>>

-----------------------------------------------------------------------------
(* What is worked out of it (buildReplayAnalysis). Frames count from 1.        *)

\* lastAtOrBefore and firstAtOrAfter, as they search; 0 and Count + 1 where there is none.
LastAtOrBefore(v) ==
  LET search[lo \in 1 .. Count + 1, hi \in 0 .. Count] ==
        IF lo > hi THEN lo - 1
        ELSE LET mid == (lo + hi) \div 2
             IN  IF Frames[mid].tick <= v THEN search[mid + 1, hi] ELSE search[lo, mid - 1]
  IN  search[1, Count]
FirstAtOrAfter(v) ==
  LET search[lo \in 1 .. Count + 1, hi \in 1 .. Count + 1] ==
        IF lo >= hi THEN lo
        ELSE LET mid == (lo + hi) \div 2
             IN  IF Frames[mid].tick < v THEN search[mid + 1, hi] ELSE search[lo, mid]
  IN  search[1, Count + 1]

FrameAtTick(v) == IF LastAtOrBefore(v) = 0 THEN 1 ELSE LastAtOrBefore(v)
FrameFor(e) == IF FirstAtOrAfter(e.tick) > Count THEN Count ELSE FirstAtOrAfter(e.tick)

Events == {tape.events[i] : i \in 1 .. Len(tape.events)}

\* A switch is the circle with the tag that came of it, or without one a miss; a tag
\* by nobody is a tagger who was appointed.
TagOf(e) == {t \in Events : t.kind = "tagged" /\ t.tick = e.tick /\ t.by = e.who}
Kind(e) ==
  CASE e.kind = "area" -> IF TagOf(e) # {} THEN "switch" ELSE "switchMiss"
    [] e.kind = "eliminated" -> "elimination"
    [] e.kind = "tagged" /\ e.by = Unknown -> "taggerAssigned"
    [] OTHER -> "consumed"

\* totalsAt: what has happened up to a frame.
Until(i) == {e \in Events : e.tick <= Frames[i].tick}
EliminatedAt(i) == {e.who : e \in {x \in Until(i) : Kind(x) = "elimination"}}
SwitchesOf(p, i) == Cardinality({e \in Until(i) : e.who = p /\ Kind(e) = "switch"})

\* taggerSegments: a segment grows while the tagger stays the same.
Segments ==
  LET grown[i \in 0 .. Count] ==
        IF i = 0 THEN <<>>
        ELSE LET done == grown[i - 1]
                 it == Frames[i].it
                 last == Len(done)
             IN  IF last > 0 /\ done[last].it = it /\ done[last].to = i
                 THEN [done EXCEPT ![last].to = i + 1]
                 ELSE Append(done, [it |-> it, from |-> i, to |-> i + 1])
  IN  grown[Count]

\* visibleTo: whom somebody saw, or everybody when he is out.
VisibleTo(p, i) ==
  IF p \notin Frames[i].players THEN Cast
  ELSE IF p = 1 /\ ~Frames[i].sees THEN Cast \ {2} ELSE Cast

-----------------------------------------------------------------------------
(* The player.                                                                *)

Ready == opening.kind = "ready"

\* bufferFor and applySnapshot: a full frame brings its map, another what changed.
ApplyTo(pic, i, pov) ==
  [tile |-> IF Frames[i].map # -1 THEN Frames[i].map
            ELSE IF Frames[i].change # -1 THEN Frames[i].change ELSE pic.tile,
   players |-> IF pov = Unknown THEN Frames[i].players
               ELSE Frames[i].players \cap VisibleTo(pov, i)]

Through(pic, a, b, pov) ==
  LET drawn[i \in (a - 1) .. b] == IF i = a - 1 THEN pic ELSE ApplyTo(drawn[i - 1], i, pov)
  IN  drawn[b]

\* The full frame at or before a frame; and a search that stops where it begins.
OwnFrame(i) == i
KeyAt(i) == CHOOSE k \in 1 .. i : (k = 1 \/ Frames[k].full) /\ \A j \in (k + 1) .. i : ~Frames[j].full

\* drawUpTo: a little further on from what is drawn, or again from a full frame.
GoesOn(applied, target) == applied > 0 /\ target > applied /\ target - applied <= MaxIncremental

DrawUpTo(v) ==
  IF ~v.map \/ v.position = v.applied THEN /\ viewer' = v /\ UNCHANGED picture
  ELSE /\ viewer' = [v EXCEPT !.applied = v.position]
       /\ picture' = IF GoesOn(v.applied, v.position)
                     THEN Through(picture, v.applied + 1, v.position, v.pov)
                     ELSE Through(picture, KeyAt(v.position), v.position, v.pov)

OnlyTheViewer == UNCHANGED <<scene, past, tape, copy, opening>>

\* The page shows the analyzer; its map arrives.
ShowFirstFrame ==
  /\ Ready /\ viewer.position = 0
  /\ viewer' = [viewer EXCEPT !.position = 1] /\ UNCHANGED picture
  /\ OnlyTheViewer

MapLoads ==
  /\ Ready /\ viewer.position # 0 /\ ~viewer.map
  /\ viewer' = [viewer EXCEPT !.map = TRUE, !.applied = 0]
  /\ picture' = [NoPicture EXCEPT !.tile = 0]
  /\ OnlyTheViewer

\* The frame is drawn some time after the position was set.
Draw == Ready /\ viewer.map /\ viewer.position # viewer.applied /\ DrawUpTo(viewer) /\ OnlyTheViewer

\* seek: from the timeline, a key, the clock that plays, or an event one jumps to.
Seek(i) ==
  /\ Ready /\ viewer.position # 0 /\ i # viewer.position
  /\ viewer' = [viewer EXCEPT !.position = i] /\ UNCHANGED picture
  /\ OnlyTheViewer

JumpToEvent(e) ==
  /\ Ready /\ viewer.position # 0
  /\ viewer' = [viewer EXCEPT !.position = FrameAtTick(e.tick - 1),
                              !.focus = IF @ = Unknown THEN e.who ELSE @]
  /\ UNCHANGED picture
  /\ OnlyTheViewer

\* changePov and changeFocus: whoever looks through somebody's eyes follows him. What
\* is drawn is drawn again.
LookThrough(focus, pov) ==
  /\ Ready /\ viewer.position # 0 /\ <<focus, pov>> # <<viewer.focus, viewer.pov>>
  /\ DrawUpTo([viewer EXCEPT !.focus = focus, !.pov = pov,
                             !.applied = IF pov = viewer.pov THEN @ ELSE 0])
  /\ OnlyTheViewer

ChangePov(p) == LookThrough(IF p = Unknown THEN viewer.focus ELSE p, p)
ChangeFocus(p) == LookThrough(p, IF viewer.pov = Unknown THEN Unknown ELSE p)

PlaybackNext ==
  \/ \E out \in Incidents([scene EXCEPT !.tick = @ + 1]), ends \in BOOLEAN : SceneTick(out, ends)
  \/ \E c \in Copies : Store(c)
  \/ OpenReplay \/ LoadChunk \/ ShowFirstFrame \/ MapLoads \/ Draw
  \/ \E i \in 1 .. Count : Seek(i)
  \/ \E e \in Events : JumpToEvent(e)
  \/ \E p \in Watched \cup {Unknown} : ChangePov(p) \/ ChangeFocus(p)

PlaybackSpec == PlaybackInit /\ [][PlaybackNext]_playbackVars

-----------------------------------------------------------------------------
\* reconstructAt of the command line: from the first frame of a chunk to a tick.
ReconstructAt(k, v) ==
  LET mine == {i \in 1 .. Count : ChunkOf(i) = k /\ Frames[i].tick <= v}
      first == CHOOSE i \in mine : \A j \in mine : i <= j
  IN  Through(NoPicture, first, first + Cardinality(mine) - 1, Unknown)

\* The world at the tick of a frame.
WorldAt(i) == past[Frames[i].tick]

\* Once it is drawn, the picture is the match at that tick, whichever way one has
\* come there: the tile, and of the living those whom the one saw through whose eyes
\* one looks (drawUpTo, bufferFor, visibleTo, writeFrame).
PictureIsTheTick ==
  Ready /\ viewer.map /\ viewer.applied = viewer.position =>
    LET w == WorldAt(viewer.position)
        eyes == viewer.pov # Unknown /\ viewer.pov \in w.alive
    IN  /\ picture.tile = w.tile
        /\ picture.players = IF eyes /\ viewer.pov = 1 /\ ~w.sees THEN w.alive \ {2} ELSE w.alive
        /\ viewer.pov # Unknown => viewer.focus = viewer.pov

\* The tables agree with the frames: who is out by the events is out of the frames,
\* the segments are who was the tagger, a tag by somebody is his switch, the command
\* line's state is the world, and the searches find the frame they are asked for
\* (totalsAt, taggerSegments, reconstructAt, frameAtTick).
AnalysisIsTheMatch ==
  Ready =>
    /\ \A i \in 1 .. Count :
         /\ Cast \ EliminatedAt(i) = WorldAt(i).alive
         /\ ReconstructAt(ChunkOf(i), Frames[i].tick) =
              [tile |-> WorldAt(i).tile, players |-> WorldAt(i).alive]
         /\ {Segments[j].it : j \in {k \in 1 .. Len(Segments) :
                Segments[k].from <= i /\ i < Segments[k].to}} = {WorldAt(i).it}
    /\ \A e \in Events : e.kind = "tagged" /\ e.by # Unknown => SwitchesOf(e.by, Count) > 0
    /\ \A e \in Events : Frames[FrameFor(e)].tick >= e.tick
    /\ \A v \in 0 .. MaxTicks + 1 :
         /\ {i \in 1 .. Count : Frames[i].tick <= v} = 1 .. LastAtOrBefore(v)
         /\ {i \in 1 .. Count : Frames[i].tick >= v} = FirstAtOrAfter(v) .. Count

\* A file is called verified only when it is what the server signed, modified only
\* when it is not what was written, and always so when it was signed; and none is
\* shown of which a chunk is not what was written (openReplay, decodeChunk).
OnlyWholeFilesAreShown ==
  /\ opening.verification = "verified" => copy.key = "known" /\ copy.hurt = "no"
  /\ opening.verification = "modified" => copy.hurt # "no"
  /\ opening.kind \in {"reading", "ready"} /\ copy.key = "known" /\ copy.hurt # "no" =>
       opening.verification = "modified"
  /\ Ready => copy.hurt \notin {"index", "chunk"} \/ Chunks < HurtChunk

\* A replay shows the match that was played.
ReplayIsTheMatch == PictureIsTheTick /\ AnalysisIsTheMatch /\ OnlyWholeFilesAreShown

=============================================================================
