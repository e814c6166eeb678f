--------------------------- MODULE MC_Components ----------------------------
(* The platform and the client. A behaviour is one of one component, chosen   *)
(* at the start; the others stay where they began. Accounts has three         *)
(* parts, so that the requests of each meet one another: tokens and passwords, *)
(* second factors, and bans with deletion.                                    *)
EXTENDS Accounts, Codes, ClientSession, ClientGame, HumanCheck, Wire, MapTools,
        Console, Identity, Music, Scene, TLC

VARIABLE part

Wanted == [tab |-> "login"]

KindsIn == [tokens  |-> {"none", "login", "refresh", "change", "reset", "others"},
            factors |-> {"none", "login", "reset", "email-enable", "totp-setup",
                         "totp-confirm", "disable", "regenerate", "untrust"},
            status  |-> {"none", "login", "refresh", "delete"}]

\* Requests in the scope of bans, where an account may also be banned and freed.
StatusRequests == 2

\* The third request: a token shown after a session family was closed or the password
\* changed, a login with a challenge that was given while nothing runs but a disable.
Third == [tokens |-> {"refresh"}, factors |-> {"login"}, status |-> {}]

\* Bans only in their scope, and before any of them sessions that grow old; a second
\* factor only in its own scope. Requests take the first free slot.
InScope(scope) ==
  /\ \A r \in Request : req'[r].kind \in KindsIn[scope]
  /\ \A r, q \in Request : r < q /\ req[r].kind = "none" /\ req[q].kind = "none" => req'[q].kind = "none"
  /\ (scope # "status" => bans' = bans)
  /\ (scope # "factors" => mfa' = NoMfa)
  /\ (scope # "status" \/ (\E b \in Ban : bans'[b].state # "none") =>
        \A s \in Sid : sessions'[s] # NoRow => ~sessions'[s].expired)
  /\ (scope = "status" => started' <= StatusRequests)
  /\ (started = 2 /\ started' = 3 /\ scope = "tokens" => closed # {} \/ user.epoch > 0)
  /\ (started = 2 /\ started' = 3 /\ scope = "factors" =>
        challenges # {} /\ \A r \in Request : req[r].kind \in {"none", "disable"})
  /\ (started = 2 /\ started' = 3 => \A r \in Request : req'[r].id = 3 => req'[r].kind \in Third[scope])

TokensNext == AccountsNext /\ InScope("tokens")
FactorsNext == AccountsNext /\ InScope("factors")

\* What the author of a map draws: where, and with which schedules.
DrawnAt == {<<1, 1>>, <<2, 2>>}
Written == {<<<<1, 0>>, <<Star, 1>>>>, <<<<1, 0>>, <<Star, 3>>>>, <<<<2, 4>>>>, <<<<2, 0>>, <<3, 1>>>>, <<<<4, 0>>>>,
            <<<<1, 4>>, <<1, 0>>, <<Star, 4>>>>}

\* No build while a map is being opened, a second one only of the plaza, with or without its marker.
MarkedOnly(m) == m \in {Plaza, [Plaza EXCEPT !.markers = <<>>]}
SecondBuild == Len(builds) > 1 \/ (builds # <<>> /\ saving # NoSheet /\ saving.thenBuild)
MapsNext == /\ MapToolsNext
            /\ builds' # <<>> => fetched' = NoSheet
            /\ SecondBuild' => /\ MarkedOnly(sheet'.map) /\ redos' = <<>>
                               /\ \A f \in DOMAIN files' : MarkedOnly(files'[f])

StatusNext == AccountsNext /\ InScope("status")

\* A second mishap only to a tab whose access token has run out.
TabNext == IdentityNext /\ (mishaps = 1 /\ mishaps' = 2 => bearer.old)

\* The console in three parts: the list while the rows move (a third case is there
\* only with the others, all before or during the reading), one case, the log.
QueueNext ==
  /\ ConsoleNext /\ casefile' = casefile /\ tab' # "inspect" /\ overview' = overview
  /\ \A c \in Case : rows'[c].status \in {"OPEN", "DISMISSED", "TRIAGED"}
  /\ Exists(1)' => Exists(2)' /\ Exists(3)'
  /\ rows'[1].count + rows'[2].count + rows'[3].count <= IF load'.kind # "none" \/ queue'.initialized THEN 4 ELSE 2
  /\ instant' # instant => load = NoLoad
CaseNext ==
  /\ ConsoleNext /\ tab' = "reports" /\ instant' = instant /\ overview' = overview
  /\ Cardinality(acts') <= 2 /\ (load # NoLoad /\ casefile.busy = {} => load' # load)
  /\ \A c \in Case : rows'[c].count <= IF c = 3 THEN 1 ELSE 0
InspectionNext ==
  /\ ConsoleNext /\ tab' # "reports" /\ rows' = rows
  /\ overview'.busy => Cardinality(auditLoads') < 2
  /\ logged' <= IF Cardinality(auditLoads') < 3 THEN 3 ELSE 2

\* After a trouble one message at a time is under way.
ScreenNext == GameNext /\ (Len(link.wire) < 2 /\ Len(link'.wire) = 2 => count'.troubles = 0)

\* The renderer in three parts: what is drawn of tiles and colours, the camera, and
\* blinks with the sounds.
PictureNext ==
  /\ SceneNext /\ field.mode = "match" /\ field'.tagger = field.tagger /\ field'.blinked = field.blinked
  /\ field'.tiles <= 2 /\ Cardinality(field'.alphas) <= 1 /\ world'.sprites \subseteq {Self} /\ world'.intro # "camera"
  /\ world'.followedId \in {NoSprite, Self}
CameraNext ==
  /\ SceneNext /\ look' = look /\ field'.alphas = {} /\ field'.tiles = 1
  /\ field'.tagger = field.tagger /\ field'.blinked = field.blinked
EventsNext ==
  /\ SceneNext /\ look' = look /\ field'.alphas = {} /\ field'.tiles = 1 /\ world'.frameCounter = 0
  /\ field.mode # "replay" /\ world'.intro # "camera" /\ world'.followedId \in {NoSprite, Self}

\* What the client shows and plays: the screen's copy of the match, and the picture
\* the renderer makes of it.
ClientShowsTheGame == ScreenShowsTheMatch /\ SceneIsDrawnRight

atTheClient == <<sessionVars, gameVars, wireVars, mapVars, identityVars,
                 musicVars>>
onTheScreen == <<sceneVars>>
inPlatform == <<acctVars, codeVars, humanVars>>
atTheDesk == <<consoleVars>>
all == <<atTheClient, onTheScreen, inPlatform, atTheDesk, part>>

Part == {"session", "game", "wire", "maps", "identity", "music", "picture",
         "camera", "events", "tokens", "factors", "status", "codes",
         "checks", "queue", "case", "inspection"}

\* Of a component that stands still one initial state is enough.
Standing ==
  /\ part # "factors" => mfa = NoMfa
  /\ part # "identity" => cookie = NoRefresh
  /\ part # "music" => ~bgmEnabled /\ ~cached
  /\ part \notin {"camera", "events"} => field.mode = "match"

ComponentsInit ==
  /\ part \in Part
  /\ AccountsInit /\ CodesInit
  /\ SessionInit /\ GameInit /\ HumanInit /\ WireInit
  /\ MapToolsInit /\ ConsoleInit /\ IdentityInit /\ MusicInit /\ SceneInit
  /\ Standing

ComponentsNext ==
  \/ /\ part = "session" /\ SessionNext
     /\ UNCHANGED <<gameVars, wireVars, mapVars, identityVars, musicVars,
                    onTheScreen, inPlatform, atTheDesk, part>>
  \/ /\ part = "game" /\ ScreenNext
     /\ UNCHANGED <<sessionVars, wireVars, mapVars, identityVars, musicVars,
                    onTheScreen, inPlatform, atTheDesk, part>>
  \/ /\ part = "wire" /\ WireNext
     /\ UNCHANGED <<sessionVars, gameVars, mapVars, identityVars, musicVars,
                    onTheScreen, inPlatform, atTheDesk, part>>
  \/ /\ part = "maps" /\ MapsNext
     /\ UNCHANGED <<sessionVars, gameVars, wireVars, identityVars, musicVars,
                    onTheScreen, inPlatform, atTheDesk, part>>
  \/ /\ part = "identity" /\ TabNext
     /\ UNCHANGED <<sessionVars, gameVars, wireVars, mapVars, musicVars,
                    onTheScreen, inPlatform, atTheDesk, part>>
  \/ /\ part = "music" /\ MusicNext
     /\ UNCHANGED <<sessionVars, gameVars, wireVars, mapVars, identityVars,
                    onTheScreen, inPlatform, atTheDesk, part>>
  \/ /\ part = "picture" /\ PictureNext
     /\ UNCHANGED <<atTheClient, inPlatform, atTheDesk, part>>
  \/ /\ part = "camera" /\ CameraNext
     /\ UNCHANGED <<atTheClient, inPlatform, atTheDesk, part>>
  \/ /\ part = "events" /\ EventsNext
     /\ UNCHANGED <<atTheClient, inPlatform, atTheDesk, part>>
  \/ /\ part = "tokens" /\ TokensNext
     /\ UNCHANGED <<codeVars, humanVars, atTheClient, onTheScreen, atTheDesk,
                    part>>
  \/ /\ part = "factors" /\ FactorsNext
     /\ UNCHANGED <<codeVars, humanVars, atTheClient, onTheScreen, atTheDesk,
                    part>>
  \/ /\ part = "status" /\ StatusNext
     /\ UNCHANGED <<codeVars, humanVars, atTheClient, onTheScreen, atTheDesk,
                    part>>
  \/ /\ part = "codes" /\ CodesNext
     /\ UNCHANGED <<acctVars, humanVars, atTheClient, onTheScreen, atTheDesk,
                    part>>
  \/ /\ part = "checks" /\ HumanNext
     /\ UNCHANGED <<acctVars, codeVars, atTheClient, onTheScreen, atTheDesk,
                    part>>
  \/ /\ part = "queue" /\ QueueNext
     /\ UNCHANGED <<atTheClient, onTheScreen, inPlatform, part>>
  \/ /\ part = "case" /\ CaseNext
     /\ UNCHANGED <<atTheClient, onTheScreen, inPlatform, part>>
  \/ /\ part = "inspection" /\ InspectionNext
     /\ UNCHANGED <<atTheClient, onTheScreen, inPlatform, part>>

ComponentsSpec == ComponentsInit /\ [][ComponentsNext]_all

=============================================================================
