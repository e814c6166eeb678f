------------------------------ MODULE MapTools ------------------------------
(***************************************************************************)
(* From a map's author to the tiles of a running game: the browser editor  *)
(* (tools/MapBuilder/editor/editor.js) and its server (server.cjs), the    *)
(* builder that works out when the storm breaks which wall (builder.py),   *)
(* the game server's loader (map-loader.ts) and the replay of the timeline *)
(* in a game (step.ts applyMapTimeline).                                   *)
(*                                                                         *)
(* The rules for a map are written three times, in the editor, the builder *)
(* and the loader, and the storm twice.  The author edits on while a save  *)
(* or a build is under way, and a build is a process of its own that reads *)
(* a map's two files one after the other.                                  *)
(***************************************************************************)
EXTENDS Integers, Sequences, FiniteSets

CONSTANTS MinSize,      \* the smallest map the editor accepts (10)
          TileSize,     \* pixels of a tile; the storm moves by pixels (256)
          UndoDepth,    \* states the editor remembers (100)
          Touched,      \* spots the author draws at
          Painted,      \* tiles he draws with
          Schedules,    \* changes he writes for a cell, of tiles there are
          Resized,      \* sizes he gives a map
          Speeds,       \* speeds he gives its storm
          MaxEdits,     \* bound on the author's edits
          MaxBuilds,    \* bound on builds
          NoSheet         \* nothing here

ASSUME MapToolsAssumption ==
    /\ MinSize \in Nat \ {0} /\ TileSize \in Nat \ {0} /\ TileSize % 2 = 0
    /\ UndoDepth \in Nat \ {0} /\ MaxEdits \in Nat /\ MaxBuilds \in Nat
    /\ Touched \subseteq Nat \X Nat /\ Painted \subseteq 0 .. 4 /\ Speeds \subseteq Nat /\ Resized \subseteq Nat \ {0}
    /\ Schedules \subseteq Seq((Nat \cup {-1}) \X (0 .. 4))

VARIABLES sheet,    \* editor: state.map, with the file's name
          undos, redos,         \* editor: snapshots of the layers
          dirty,    \* editor: state.dirty
          fetched,  \* what openMap has read and not yet shown
          saving,   \* a save under way: what was sent, and whether it is written
          files,    \* tools/MapBuilder/map: the sources
          offered,  \* editor: the build button is enabled
          builds,   \* builder processes
          output,   \* build/server_maps.json
          target,   \* server-game/maps/server_maps.json
          edits,    \* bound: edits made
          late,     \* history: the map was changed while a save was under way
          crowded   \* history: two builds ran at once

mapVars == <<sheet, undos, redos, dirty, fetched, saving, files, offered, builds, output, target,
             edits, late, crowded>>
editVars == <<sheet, undos, redos, dirty, late>>
buildVars == <<builds, output, target, crowded>>
serverVars == <<fetched, saving, files, buildVars>>

---------------------------------------------------------------------------
(* Tiles, cells and maps.                                                  *)

\* setting.json: a tile's number and what it is to the simulation
Physics == [n \in 0 .. 4 |-> CASE n = 0 -> 1 [] n = 3 -> 2 [] n = 4 -> 3 [] OTHER -> 0]
WALL == 1
Breaks == {1, 3}        \* walls and smoke give way to the storm
MarkerKinds == {"tagger", "reset"}
ZoneKinds == {"training.chase"}

\* A cell begins as a tile and has changes <<tick, tile>>; "*" is the change
\* for when the storm arrives, and is written last.
Star == -1
Plain(n) == [start |-> n, changes |-> <<>>]
lastTile(cell) == IF cell.changes = <<>> THEN cell.start ELSE cell.changes[Len(cell.changes)][2]
Spots(size) == (0 .. size - 1) \X (0 .. size - 1)
Nearest(S) == CHOOSE n \in S : \A k \in S : n <= k
Farthest(S) == CHOOSE n \in S : \A k \in S : n >= k
Smallest(a, b) == IF a < b THEN a ELSE b
RingOf(p, size) == Smallest(Smallest(p[1], p[2]), Smallest(size - p[1] - 1, size - p[2] - 1))

\* parseMap, serializeMap: a map is two files, and what is read is what was
\* written; a cell the csv lacks is tile 0.
Json(m) == [size |-> m.size, barrier |-> m.barrier, markers |-> m.markers, zones |-> m.zones]
MapOf(json, cells) ==
    [size |-> json.size, barrier |-> json.barrier, markers |-> json.markers, zones |-> json.zones,
     cells |-> [p \in Spots(json.size) |-> IF p \in DOMAIN cells THEN cells[p] ELSE Plain(0)]]

---------------------------------------------------------------------------
(* The storm, as the editor shows it (simulate) and as the builder writes  *)
(* it down.  Cells do not influence each other.                            *)

StormEnds(m) == (m.size * TileSize + 2 * m.barrier - 1) \div (2 * m.barrier)
\* the changes of a tick, of which the last one counts
Due(cell, t) == {i \in DOMAIN cell.changes : cell.changes[i][1] = t}
\* not yet covered by the storm
InTime(m, p, t) == RingOf(p, m.size) * TileSize - t * m.barrier >= -TileSize
\* in the ring that the storm reaches next
AtTheEdge(m, p, t) == RingOf(p, m.size) = (t * m.barrier) \div TileSize + 1

\* editor.js: the tile at a cell after each tick
simulate(m, p) ==
    LET cell == m.cells[p]
        at[t \in 0 .. StormEnds(m)] ==
            IF t = 0 THEN cell.start
            ELSE LET due == Due(cell, t)
                     timed == IF due # {} /\ InTime(m, p, t) THEN cell.changes[Farthest(due)][2] ELSE at[t - 1]
                 IN IF AtTheEdge(m, p, t) /\ Physics[timed] \in Breaks THEN lastTile(cell) ELSE timed
    IN at

Untouched == -1
Bursts == -2    \* the second value of a Python tuple is assigned: TypeError

\* Mutant: the builder takes the storm's ring for the one it is in.
LateIndex(m, t) ==
    LET d == (t * m.barrier) \div TileSize IN
    UNION {{<<d, k>>, <<m.size - d - 1, k>>, <<k, d>>, <<k, m.size - d - 1>>} : k \in d .. m.size - d - 1}

\* builder.py: the four sides of the ring the storm reaches next
checking_index(m, t) ==
    LET d == (t * m.barrier) \div TileSize + 1 IN
    UNION {{<<d, k>>, <<m.size - d - 1, k>>, <<k, d>>, <<k, m.size - d - 1>>} : k \in d .. m.size - d - 1}

\* builder.py: what the timeline says of a cell at a tick.  A change of this
\* very tick that puts a wall in the storm's way is taken back if the cell
\* was its last tile before, and cannot be replaced by another.
BuilderCell(m, p) ==
    LET cell == m.cells[p]
        last == lastTile(cell)
        at[t \in 0 .. StormEnds(m)] ==
            IF t = 0 THEN [tile |-> cell.start, change |-> Untouched]
            ELSE LET due == Due(cell, t)
                     now == due # {} /\ InTime(m, p, t)
                     before == at[t - 1].tile
                     earlier == due \ {Farthest(due)}
                     from == IF earlier # {} THEN cell.changes[Farthest(earlier)][2] ELSE before
                     timed == IF now THEN cell.changes[Farthest(due)][2] ELSE before
                 IN IF p \in checking_index(m, t) /\ Physics[timed] \in Breaks
                    THEN [tile |-> last,
                          change |-> IF ~now THEN last ELSE IF from = last THEN Untouched ELSE Bursts]
                    ELSE [tile |-> timed, change |-> IF now THEN timed ELSE Untouched]
    IN at

---------------------------------------------------------------------------
(* Start positions: a spot of the circle that is a wall is moved to the    *)
(* nearest square around it that has a floor.  Which of that square's      *)
(* floors is taken (by the distance from the middle) is left open, and so  *)
(* is the circle: every spot may be one of it.                             *)

Away(p, q) == LET dx == IF p[1] > q[1] THEN p[1] - q[1] ELSE q[1] - p[1]
                  dy == IF p[2] > q[2] THEN p[2] - q[2] ELSE q[2] - p[2]
              IN IF dx > dy THEN dx ELSE dy

SearchLimit(size) == IF size \div 2 > 5 THEN size \div 2 ELSE 5

startPositions(m, p) ==
    LET IsFloor(q) == Physics[m.cells[q].start] # WALL
        reach == {r \in 1 .. SearchLimit(m.size) - 1 : \E q \in Spots(m.size) : Away(p, q) = r /\ IsFloor(q)}
    IN IF IsFloor(p) \/ reach = {} THEN {p}
       ELSE {q \in Spots(m.size) : Away(p, q) = Nearest(reach) /\ IsFloor(q)}

---------------------------------------------------------------------------
(* The rules, three times.                                                 *)

\* editor.js problems: what keeps the build button off
problems(m) ==
    \/ m.size < MinSize \/ m.barrier <= 0
    \/ \E p \in Spots(m.size) :
         \/ m.cells[p].start \notin DOMAIN Physics
         \/ \E i \in 1 .. Len(m.cells[p].changes) :
               m.cells[p].changes[i][2] \notin DOMAIN Physics
                 \/ (m.cells[p].changes[i][1] # Star /\ m.cells[p].changes[i][1] <= 0)
         \/ Cardinality({i \in 1 .. Len(m.cells[p].changes) : m.cells[p].changes[i][1] = Star}) > 1
    \/ \E i \in 1 .. Len(m.markers) :
         LET k == m.markers[i] IN
         \/ k.kind \notin MarkerKinds \/ k.at \notin Spots(m.size)
         \/ k.at \in Spots(m.size) /\ Physics[m.cells[k.at].start] = WALL
         \/ \E j \in 1 .. i - 1 : m.markers[j].at = k.at
    \/ \E i \in 1 .. Len(m.zones) :
         LET z == m.zones[i] IN
         \/ z.kind \notin ZoneKinds \/ z.width <= 0 \/ z.height <= 0
         \/ z.at[1] + z.width > m.size \/ z.at[2] + z.height > m.size

\* builder.py: validate_map_layers and the barrier; an unknown tile, or a csv
\* smaller than the json says, is an error of Python's own.
validate_map_layers(json, cells) ==
    /\ Spots(json.size) \subseteq DOMAIN cells
    /\ \A i \in 1 .. Len(json.markers) :
         LET k == json.markers[i] IN
         /\ k.kind \in MarkerKinds /\ k.at \in Spots(json.size)
         /\ k.at \notin {json.markers[j].at : j \in 1 .. i - 1}
         /\ Physics[cells[k.at].start] # WALL
    /\ \A i \in 1 .. Len(json.zones) :
         LET z == json.zones[i] IN
         /\ z.kind \in ZoneKinds /\ z.width > 0 /\ z.height > 0
         /\ z.at[1] + z.width <= json.size /\ z.at[2] + z.height <= json.size
    /\ json.barrier > 0

Buildable(json, cells) ==
    /\ validate_map_layers(json, cells)
    /\ LET m == MapOf(json, cells) IN
       \A p \in Spots(m.size), t \in 1 .. StormEnds(m) : BuilderCell(m, p)[t].change # Bursts

\* make_server_map_bundle: physics, and every change with its tick
Bundle(m) ==
    LET line == [p \in Spots(m.size) |-> BuilderCell(m, p)]
        Changes(p) == {<<t, line[p][t].change>> : t \in 1 .. StormEnds(m)}
    IN [size |-> m.size, speed |-> m.barrier,
        initial |-> [p \in Spots(m.size) |-> Physics[m.cells[p].start]],
        timeline |-> UNION {{<<c[1], p, Physics[c[2]]>> : c \in {d \in Changes(p) : d[2] # Untouched}}
                              : p \in Spots(m.size)},
        starts |-> [p \in Spots(m.size) |-> startPositions(m, p)],
        markers |-> m.markers, zones |-> m.zones]

\* map-loader.ts: what a game server refuses to start with
parseMarkers(b) ==
    \A i \in 1 .. Len(b.markers) :
        LET k == b.markers[i] IN
        /\ k.kind \in MarkerKinds /\ k.at \in Spots(b.size) /\ b.initial[k.at] # WALL
        /\ \A j \in 1 .. i - 1 : b.markers[j].at # k.at

parseZones(b) ==
    \A i \in 1 .. Len(b.zones) :
        LET z == b.zones[i] IN
        /\ z.kind \in ZoneKinds /\ z.at \in Spots(b.size) /\ z.width > 0 /\ z.height > 0
        /\ z.at[1] + z.width <= b.size /\ z.at[2] + z.height <= b.size

parseMap(b) ==
    /\ b.size > 0 /\ b.speed > 0
    /\ DOMAIN b.initial = Spots(b.size)
    /\ \A p \in Spots(b.size) : b.initial[p] \in 0 .. 3
    /\ \A c \in b.timeline : c[2] \in Spots(b.size) /\ c[3] \in 0 .. 3
    /\ parseMarkers(b) /\ parseZones(b)

\* The hash and the versions are those the builder wrote into the same file.
parseMapBundle(bundle) == DOMAIN bundle # {} /\ \A f \in DOMAIN bundle : parseMap(bundle[f])

\* step.ts applyMapTimeline: the tile of a running game after each tick
applyMapTimeline(b, p, end) ==
    LET at[t \in 0 .. end] ==
            IF t = 0 THEN b.initial[p]
            ELSE LET now == {c \in b.timeline : c[1] = t /\ c[2] = p} IN
                 IF now = {} THEN at[t - 1] ELSE (CHOOSE c \in now : TRUE)[3]
    IN at

---------------------------------------------------------------------------
(* The author.                                                             *)

File == {"plaza", "draft"}
FreshSize == 5
\* the new-map dialog: walls around, floor within
FreshMap == [size |-> FreshSize, barrier |-> 1, markers |-> <<>>, zones |-> <<>>,
          cells |-> [p \in Spots(FreshSize) |-> Plain(IF RingOf(p, FreshSize) = 0 THEN 0 ELSE 1)]]
Plaza == [FreshMap EXCEPT !.cells[<<2, 1>>] = [start |-> 0, changes |-> <<<<Star, 1>>>>],
                          !.markers = <<[kind |-> "tagger", at |-> <<1, 1>>]>>,
                          !.zones = <<[kind |-> "training.chase", at |-> <<2, 2>>, width |-> 1, height |-> 1]>>]

Layers == [size |-> sheet.map.size, cells |-> sheet.map.cells, markers |-> sheet.map.markers, zones |-> sheet.map.zones]
WithLayers(m, l) == [m EXCEPT !.size = l.size, !.cells = l.cells, !.markers = l.markers, !.zones = l.zones]

MapToolsInit ==
    /\ sheet = [file |-> "plaza", map |-> Plaza]
    /\ undos = <<>> /\ redos = <<>> /\ dirty = FALSE
    /\ fetched = NoSheet /\ saving = NoSheet
    /\ files = [f \in {"plaza"} |-> Plaza]
    /\ offered = TRUE
    /\ builds = <<>> /\ output = "none" /\ target = "none"
    /\ edits = 0 /\ late = FALSE /\ crowded = FALSE

remember == /\ undos' = IF Len(undos) = UndoDepth THEN Append(Tail(undos), Layers) ELSE Append(undos, Layers)
            /\ redos' = <<>>

\* changed(), which draws the page anew and with it the build button
changed(m) == /\ sheet' = [sheet EXCEPT !.map = m]
              /\ dirty' = TRUE
              /\ late' = (late \/ saving # NoSheet)
              /\ offered' = ~problems(m)

Editing == edits < MaxEdits /\ edits' = edits + 1

\* mousedown with the brush: remembered even if setStart changes nothing
Brush == /\ Editing
         /\ remember
         /\ \E p \in Touched \cap Spots(sheet.map.size), n \in Painted :
                IF sheet.map.cells[p].start = n THEN UNCHANGED <<sheet, dirty, late, offered>>
                ELSE changed([sheet.map EXCEPT !.cells[p].start = n])
         /\ UNCHANGED serverVars

\* The rectangle and the zone tool, from mousedown to mouseup: what the
\* rectangle becomes depends on the tool chosen when the mouse is let go, and
\* with another tool it is nothing but a change that is none.
Drag == /\ Editing
        /\ remember
        /\ \E p, q \in Touched \cap Spots(sheet.map.size) :
            LET lo == <<Nearest({p[1], q[1]}), Nearest({p[2], q[2]})>>
                hi == <<Farthest({p[1], q[1]}), Farthest({p[2], q[2]})>>
                within == (lo[1] .. hi[1]) \X (lo[2] .. hi[2])
            IN \/ changed([sheet.map EXCEPT !.cells = [r \in DOMAIN @ |->
                              IF r \in within THEN [@[r] EXCEPT !.start = 0] ELSE @[r]]])
               \/ changed([sheet.map EXCEPT !.zones = Append(@,
                              [kind |-> "training.chase", at |-> lo,
                               width |-> hi[1] - lo[1] + 1, height |-> hi[2] - lo[2] + 1])])
               \/ changed(sheet.map)
        /\ UNCHANGED serverVars

\* The marker tool: the left button puts one or changes its kind, the right one
\* takes it away, and finds a change where there was none too
Mark == /\ Editing
        /\ remember
        /\ \E p \in Touched \cap Spots(sheet.map.size) :
             LET here == {i \in 1 .. Len(sheet.map.markers) : sheet.map.markers[i].at = p} IN
             \/ here = {} /\ changed([sheet.map EXCEPT !.markers = Append(@, [kind |-> "reset", at |-> p])])
             \/ \E i \in here : changed([sheet.map EXCEPT !.markers[i].kind = "reset"])
             \/ \E i \in here : changed([sheet.map EXCEPT !.markers = SubSeq(@, 1, i - 1) \o SubSeq(@, i + 1, Len(@))])
             \/ here = {} /\ changed(sheet.map)
        /\ UNCHANGED serverVars

\* The right button with the zone tool: the last zone there
Unzone == /\ Editing
          /\ sheet.map.zones # <<>>
          /\ remember
          /\ changed([sheet.map EXCEPT !.zones = SubSeq(@, 1, Len(@) - 1)])
          /\ UNCHANGED serverVars

\* The properties of the map: its storm is not among what undo brings back
SetBarrier == /\ Editing
              /\ \E n \in Speeds : changed([sheet.map EXCEPT !.barrier = n])
              /\ UNCHANGED <<undos, redos>> /\ UNCHANGED serverVars

Resize == /\ Editing
          /\ remember
          /\ \E n \in Resized : n # sheet.map.size /\
                changed([sheet.map EXCEPT !.size = n,
                            !.cells = [p \in Spots(n) |-> IF p \in DOMAIN sheet.map.cells THEN sheet.map.cells[p] ELSE Plain(1)]])
          /\ UNCHANGED serverVars

\* The inspector's button changes the cell it was drawn for, which after an
\* undo, or when another map was opened, is no longer one of the map's.
Schedule == /\ Editing
            /\ remember
            /\ \/ \E p \in Touched \cap Spots(sheet.map.size), s \in Schedules :
                    changed([sheet.map EXCEPT !.cells[p].changes = s])
               \/ changed(sheet.map)
            /\ UNCHANGED serverVars

Undo == /\ undos # <<>>
        /\ redos' = Append(redos, Layers)
        /\ undos' = SubSeq(undos, 1, Len(undos) - 1)
        /\ changed(WithLayers(sheet.map, undos[Len(undos)]))
        /\ UNCHANGED edits /\ UNCHANGED serverVars

Redo == /\ redos # <<>>
        /\ undos' = Append(undos, Layers)
        /\ redos' = SubSeq(redos, 1, Len(redos) - 1)
        /\ changed(WithLayers(sheet.map, redos[Len(redos)]))
        /\ UNCHANGED edits /\ UNCHANGED serverVars

TakesTheSheet(f, m, unsaved) ==
    /\ sheet' = [file |-> f, map |-> m]
    /\ undos' = <<>> /\ redos' = <<>> /\ dirty' = unsaved
    /\ late' = (saving # NoSheet \/ (f \in DOMAIN files /\ files[f] # m))
    /\ offered' = ~problems(m)

\* openMap, the question about unsaved changes answered with yes: the file is
\* read, and shown in place of whatever the sheet is by then.  Bounds: one at
\* a time, after an edit, and no other request under way when it begins.
OpenMap == /\ edits > 0 /\ fetched = NoSheet /\ saving = NoSheet /\ builds = <<>>
           /\ \E f \in DOMAIN files : fetched' = [file |-> f, map |-> files[f]]
           /\ UNCHANGED editVars /\ UNCHANGED <<offered, edits, saving, files>> /\ UNCHANGED buildVars

MapOpened == /\ fetched # NoSheet
             /\ TakesTheSheet(fetched.file, fetched.map, FALSE)
             /\ fetched' = NoSheet
             /\ UNCHANGED <<edits, saving, files>> /\ UNCHANGED buildVars

NewMap == /\ Editing
          /\ TakesTheSheet("draft", FreshMap, TRUE)
          /\ UNCHANGED serverVars

---------------------------------------------------------------------------
(* The server's files.                                                     *)

\* save(): the map is sent as it is now.  Bounds: one save at a time, and of
\* a sheet that was changed.
Save == /\ saving = NoSheet /\ dirty
        /\ saving' = [file |-> sheet.file, map |-> sheet.map, written |-> FALSE, thenBuild |-> FALSE]
        /\ late' = FALSE
        /\ UNCHANGED <<sheet, undos, redos, dirty, fetched, files, offered, edits>> /\ UNCHANGED buildVars

PutMap == /\ saving # NoSheet /\ ~saving.written
          /\ files' = [f \in DOMAIN files \cup {saving.file} |-> IF f = saving.file THEN saving.map ELSE files[f]]
          /\ saving' = [saving EXCEPT !.written = TRUE]
          /\ UNCHANGED <<sheet, undos, redos, dirty, late, fetched, offered, edits>> /\ UNCHANGED buildVars

Begun == [at |-> "started", json |-> <<>>, cells |-> <<>>]
Building == {i \in 1 .. Len(builds) : builds[i].at # "ended"}
StartBuild == /\ builds' = Append(builds, Begun)
              /\ crowded' = (crowded \/ Building # {})
              /\ offered' = FALSE
              /\ UNCHANGED <<output, target>>

\* Mutant: the page takes the map as saved when it has sent it.
CleanAtOnce == /\ saving # NoSheet /\ ~saving.written
               /\ dirty' = FALSE
               /\ saving' = NoSheet
               /\ UNCHANGED offered /\ UNCHANGED buildVars

\* The answer: whatever the sheet is by now, it counts as saved.
SaveAnswered == /\ saving # NoSheet /\ saving.written
            /\ dirty' = FALSE
            /\ saving' = NoSheet
            /\ IF saving.thenBuild THEN StartBuild ELSE UNCHANGED offered /\ UNCHANGED buildVars

SaveEnds == SaveAnswered /\ UNCHANGED <<sheet, undos, redos, late, fetched, files, edits>>

\* The request fails, before or after the file is written: the sheet stays
\* unsaved, and a build that waited is given up.
SaveFails == /\ saving # NoSheet
             /\ saving' = NoSheet
             /\ UNCHANGED editVars /\ UNCHANGED <<fetched, files, offered, edits>> /\ UNCHANGED buildVars

\* build(): first saves what is not saved.  A bound: a build is the first, or
\* it begins while another is running.
Build == /\ offered /\ saving = NoSheet
         /\ builds = <<>> \/ (Building # {} /\ Len(builds) < MaxBuilds)
         /\ IF dirty
            THEN /\ saving' = [file |-> sheet.file, map |-> sheet.map, written |-> FALSE, thenBuild |-> TRUE]
                 /\ late' = FALSE
                 /\ UNCHANGED offered /\ UNCHANGED buildVars
            ELSE StartBuild /\ UNCHANGED <<saving, late>>
         /\ UNCHANGED <<sheet, undos, redos, dirty, fetched, files, edits>>

---------------------------------------------------------------------------
(* The builder's process: for each map its json, then its csv; then the    *)
(* old output is removed, the new one written, and on exit the server      *)
(* copies whatever file is there.                                          *)

\* A file, as far as it matters here: being written, or whole
Broken == "cut"
WholeFile == "whole"
BuildStep(i, b) == builds' = [builds EXCEPT ![i] = b]

ReadJson(i) == /\ builds[i].at = "started" /\ DOMAIN builds[i].json = DOMAIN builds[i].cells
               /\ \E f \in DOMAIN files \ DOMAIN builds[i].json :
                    BuildStep(i, [builds[i] EXCEPT !.json = [g \in DOMAIN @ \cup {f} |-> IF g = f THEN Json(files[f]) ELSE @[g]]])
               /\ UNCHANGED <<output, target>>

\* The last csv read, every map is worked out; one that cannot be built ends
\* the process before it touches the old output.
ReadCsv(i) ==
    /\ builds[i].at = "started"
    /\ \E f \in DOMAIN builds[i].json \ DOMAIN builds[i].cells :
         LET json == builds[i].json
             cells == [g \in DOMAIN builds[i].cells \cup {f} |-> IF g = f THEN files[f].cells ELSE builds[i].cells[g]]
         IN IF DOMAIN cells # DOMAIN files THEN BuildStep(i, [builds[i] EXCEPT !.cells = cells]) /\ UNCHANGED output
            ELSE IF \A g \in DOMAIN json : Buildable(json[g], cells[g])
            THEN /\ BuildStep(i, [at |-> "writing", result |-> [g \in DOMAIN json |-> MapOf(json[g], cells[g])]])
                 /\ output' = Broken
            ELSE BuildStep(i, [at |-> "ended"]) /\ UNCHANGED output
    /\ UNCHANGED target

Writes(i) == /\ builds[i].at = "writing"
             /\ output' = WholeFile
             /\ BuildStep(i, [at |-> "written"])
             /\ UNCHANGED target

\* server.cjs build, on close
CopiesOut(i) == /\ builds[i].at = "written"
             /\ target' = output
             /\ BuildStep(i, [at |-> "ended"])
             /\ UNCHANGED output

Builds == /\ \E i \in 1 .. Len(builds) : ReadJson(i) \/ ReadCsv(i) \/ Writes(i) \/ CopiesOut(i)
          /\ offered' = IF \E i \in Building : builds'[i].at = "ended" THEN ~problems(sheet.map) ELSE offered
          /\ UNCHANGED <<crowded, fetched, saving, files, edits>> /\ UNCHANGED editVars

MapToolsNext == Brush \/ Drag \/ Mark \/ Unzone \/ SetBarrier \/ Resize \/ Schedule \/ Undo \/ Redo
                  \/ OpenMap \/ MapOpened \/ NewMap \/ Save \/ PutMap \/ SaveEnds \/ SaveFails \/ Build \/ Builds

MapToolsSpec == MapToolsInit /\ [][MapToolsNext]_mapVars

---------------------------------------------------------------------------
\* A sheet that counts as saved is what its file says, unless it was changed
\* while the save was under way.
CleanMeansSaved == (~dirty /\ ~late) => sheet.file \in DOMAIN files /\ files[sheet.file] = sheet.map

\* No tick has two changes of a cell. (Of two, the last a wall at the storm's
\* edge and the other the cell's last tile, the builder drops both.)
OneChangeATick(cell) ==
    \A i, j \in DOMAIN cell.changes : cell.changes[i][1] = cell.changes[j][1] => i = j

Shown(m, b) ==
    /\ \A p \in {q \in Spots(m.size) : OneChangeATick(m.cells[q])} :
         LET play == applyMapTimeline(b, p, StormEnds(m))
             show == simulate(m, p)
         IN \A t \in 0 .. StormEnds(m) :
              /\ play[t] = Physics[show[t]]
              /\ (t > 0 /\ AtTheEdge(m, p, t)) =>
                    play[t] \notin Breaks \/ Physics[lastTile(m.cells[p])] \in Breaks
    /\ \A p \in Spots(m.size) : \A q \in b.starts[p] :
         b.initial[q] = WALL => \A r \in Spots(m.size) : Away(p, r) < SearchLimit(m.size) => b.initial[r] = WALL

\* What was built is accepted by the loader and plays, tick by tick, as the
\* editor shows it, with no wall in the storm's way but one its author wants
\* there, and nobody starts in a wall unless the builder's search finds no floor.
BundlePlaysAsShown ==
    \A i \in Building : builds[i].at = "writing" =>
        LET sources == builds[i].result
            bundle == [f \in DOMAIN sources |-> Bundle(sources[f])]
        IN parseMapBundle(bundle) /\ \A f \in DOMAIN sources : Shown(sources[f], bundle[f])

\* A map the editor finds no fault with, once saved, has none for the builder.
BuildFollowsTheEditor ==
    saving # NoSheet /\ saving.written /\ ~problems(saving.map) =>
        validate_map_layers(Json(saving.map), saving.map.cells)

\* The tools agree (editor.js: "the same calculation as builder.py"; storm.ts:
\* the walls at the storm's edge are broken by the timeline already), validate_map_layers
\* finds no fault with what the editor accepts, what counts as saved is saved, and the
\* servers' file is whole unless two builds ran at once.
MapsPlayAsDrawn == /\ CleanMeansSaved
                   /\ BundlePlaysAsShown
                   /\ BuildFollowsTheEditor
                   /\ target = Broken => crowded

=============================================================================
