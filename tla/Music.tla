------------------------------- MODULE Music -------------------------------
(* The background music of the client: downloaded once on request, kept in the *)
(* browser's cache and played while its switch is on (client/src/audio/       *)
(* bgmPlayer.ts, AudioBus.ts, sfxPlayer.ts, useAudio.ts, components/settings/   *)
(* BgmCard.tsx).                                                            *)
(*                                                                           *)
(* A download, a probe of the cache, a removal and a call of play() go on while *)
(* the user does something else; each is a job with the step it waits for. The  *)
(* user acts with a gesture, and the first gesture wakes the audio.             *)
EXTENDS Naturals, FiniteSets

CONSTANT MaxGestures   \* bound: presses of a button, tabs hidden and shown

ASSUME MusicAssumption == MaxGestures \in Nat

VARIABLES bgmStatus,     \* state.status
          persisted,     \* state.persisted
          bgmEnabled,    \* the switch, in the settings
          wantsPlayback,
          element,       \* the <audio> element: none, paused, playing
          hasUrl,        \* objectUrl
          audioContext,  \* none, suspended, running
          onUnlocked,    \* playBgm waits for the first gesture
          cached,        \* the song is in Cache Storage
          sfx,           \* effects: none, loading, loaded
          bgmDownload, probe, removal, plays,   \* jobs
          tabHidden, gestures,
          crossedOff     \* history: two jobs, or a job and a button, crossed

musicVars == <<bgmStatus, persisted, bgmEnabled, wantsPlayback, element, hasUrl, audioContext,
               onUnlocked, cached, sfx, bgmDownload, probe, removal, plays, tabHidden, gestures, crossedOff>>

NoDownload == [at |-> "none", aborted |-> FALSE, thenPlay |-> FALSE]

MusicInit ==
  /\ bgmStatus = "absent" /\ persisted = FALSE /\ wantsPlayback = FALSE
  /\ bgmEnabled \in BOOLEAN /\ cached \in BOOLEAN
  /\ element = "none" /\ hasUrl = FALSE /\ audioContext = "none" /\ onUnlocked = FALSE
  /\ sfx = "none" /\ bgmDownload = NoDownload /\ probe = "mounted" /\ removal = "none" /\ plays = 0
  /\ tabHidden = FALSE /\ gestures = 0 /\ crossedOff = FALSE

Downloaded == bgmStatus \in {"ready", "playing"}

-----------------------------------------------------------------------------
(* bgmPlayer.ts and AudioBus.ts                                               *)

\* ensure: a context made before any gesture stays suspended.
Ensured == IF audioContext = "none" THEN IF gestures > 0 THEN "running" ELSE "suspended" ELSE audioContext

\* attach: the element plays the new file from its beginning, once told to.
Attached == element' = "paused" /\ hasUrl' = TRUE /\ audioContext' = Ensured

\* playBgm up to its await, on a state whose status is s: an element that is not
\* ready leaves the wish only.
PlayCalled(s) ==
  /\ wantsPlayback' = TRUE
  /\ plays' = IF s \in {"ready", "playing"} THEN plays + 1 ELSE plays

playBgm ==
  /\ PlayCalled(IF element = "none" THEN "absent" ELSE bgmStatus)
  /\ audioContext' = IF element # "none" /\ Downloaded THEN Ensured ELSE audioContext

\* Mutant: the wish outlives the switch.
WishKept == wantsPlayback
\* stopBgm takes the wish back.
WishAfterStop == FALSE

\* stopBgm: pause() also ends a play() that has not come to an answer, whose catch
\* tries again at once when the audio is awake, and waits for it otherwise.
stopBgm ==
  /\ bgmStatus' = IF bgmStatus = "playing" THEN "ready" ELSE bgmStatus
  /\ element' = IF element = "none" THEN "none" ELSE "paused"
  /\ LET retried == plays > 0 /\ audioContext = "running" /\ Downloaded
     IN  /\ wantsPlayback' = (WishAfterStop \/ retried)
         /\ plays' = IF retried THEN 1 ELSE 0
         /\ crossedOff' = (crossedOff \/ retried)
         /\ onUnlocked' = (onUnlocked \/ (plays > 0 /\ audioContext # "running"))

\* The element answers play(): it may before the first gesture only refuse.
PlayResolves ==
  /\ plays > 0 /\ gestures > 0
  /\ plays' = plays - 1 /\ element' = "playing" /\ bgmStatus' = "playing"
  /\ UNCHANGED <<persisted, bgmEnabled, wantsPlayback, hasUrl, audioContext, onUnlocked, cached, sfx,
                 bgmDownload, probe, removal, tabHidden, gestures, crossedOff>>

PlayRefused ==
  /\ plays > 0 /\ gestures = 0
  /\ plays' = plays - 1 /\ onUnlocked' = TRUE
  /\ UNCHANGED <<bgmStatus, persisted, bgmEnabled, wantsPlayback, element, hasUrl, audioContext, cached,
                 sfx, bgmDownload, probe, removal, tabHidden, gestures, crossedOff>>

\* probeBgmCache: no network, only what was kept; the match, ...
ProbeMatches ==
  /\ probe = "looking" /\ probe' = IF cached THEN "found" ELSE "done"
  /\ UNCHANGED <<bgmStatus, persisted, bgmEnabled, wantsPlayback, element, hasUrl, audioContext, onUnlocked,
                 cached, sfx, bgmDownload, removal, plays, tabHidden, gestures, crossedOff>>

\* ... and its body. The wish is carried out.
ProbeAnswers ==
  /\ probe = "found" /\ probe' = "done"
  /\ Attached /\ bgmStatus' = "ready" /\ persisted' = TRUE
  /\ crossedOff' = (crossedOff \/ bgmDownload # NoDownload \/ removal # "none" \/ ~cached)
  /\ plays' = IF wantsPlayback THEN plays + 1 ELSE plays
  /\ UNCHANGED <<bgmEnabled, wantsPlayback, onUnlocked, cached, sfx, bgmDownload, removal, tabHidden, gestures>>

\* The element cannot read its file: its error event, and a play() that waits is
\* refused, which leaves the wish or a listener for the first gesture.
ElementFails ==
  /\ Downloaded /\ hasUrl /\ bgmStatus' = "error" /\ element' = "paused"
  /\ plays' = 0
  /\ wantsPlayback' = (wantsPlayback \/ (plays > 0 /\ audioContext = "running"))
  /\ onUnlocked' = (onUnlocked \/ (plays > 0 /\ audioContext # "running"))
  /\ UNCHANGED <<persisted, bgmEnabled, hasUrl, audioContext, cached, sfx, bgmDownload, probe, removal,
                 tabHidden, gestures, crossedOff>>

\* The parts of downloadBgm: the body arrives; the cache keeps it and lets other songs
\* go; it is attached.
BodyArrives ==
  /\ bgmDownload.at = "fetching" /\ ~bgmDownload.aborted
  /\ bgmDownload' = [bgmDownload EXCEPT !.at = "storing"]
  /\ UNCHANGED <<bgmStatus, persisted, bgmEnabled, wantsPlayback, element, hasUrl, audioContext, onUnlocked,
                 cached, sfx, probe, removal, plays, tabHidden, gestures, crossedOff>>

\* An abort ends a fetch only; the cache may refuse the file.
DownloadFails ==
  /\ bgmDownload # NoDownload
  /\ bgmStatus' = IF bgmDownload.aborted THEN "absent" ELSE "error"
  /\ bgmDownload' = NoDownload
  /\ UNCHANGED <<persisted, bgmEnabled, wantsPlayback, element, hasUrl, audioContext, onUnlocked, cached,
                 sfx, probe, removal, plays, tabHidden, gestures, crossedOff>>

PutInCache ==
  /\ bgmDownload.at = "storing"
  /\ bgmDownload' = [bgmDownload EXCEPT !.at = "evicting"] /\ cached' = TRUE
  /\ UNCHANGED <<bgmStatus, persisted, bgmEnabled, wantsPlayback, element, hasUrl, audioContext, onUnlocked,
                 sfx, probe, removal, plays, tabHidden, gestures, crossedOff>>

\* After evictStale, or in a browser without a cache to use. The wish is carried out,
\* and the card's enable() goes on to play whatever the switch says by now.
BodyStored ==
  /\ bgmDownload.at \in {"storing", "evicting"}
  /\ persisted' = (bgmDownload.at = "evicting")
  /\ Attached /\ bgmStatus' = "ready"
  /\ plays' = (IF wantsPlayback THEN plays + 1 ELSE plays) + (IF bgmDownload.thenPlay THEN 1 ELSE 0)
  /\ wantsPlayback' = (wantsPlayback \/ bgmDownload.thenPlay)
  /\ crossedOff' = (crossedOff \/ (bgmDownload.thenPlay /\ ~bgmEnabled))
  /\ bgmDownload' = NoDownload
  /\ UNCHANGED <<bgmEnabled, onUnlocked, cached, sfx, probe, removal, tabHidden, gestures>>

\* discardBgm has waited for the cache, if there is one.
SongDeleted ==
  /\ removal = "deleting" /\ removal' = "deleted" /\ cached' = FALSE
  /\ UNCHANGED <<bgmStatus, persisted, bgmEnabled, wantsPlayback, element, hasUrl, audioContext, onUnlocked,
                 sfx, bgmDownload, probe, plays, tabHidden, gestures, crossedOff>>

RemovalEnds ==
  /\ removal # "none" /\ removal' = "none"
  /\ persisted' = FALSE /\ bgmStatus' = "absent"
  /\ crossedOff' = (crossedOff \/ element = "playing" \/ plays > 0)
  /\ UNCHANGED <<bgmEnabled, wantsPlayback, element, hasUrl, audioContext, onUnlocked, cached, sfx, bgmDownload,
                 probe, plays, tabHidden, gestures>>

-----------------------------------------------------------------------------
(* useAudio.ts and BgmCard.tsx                                                *)

\* The effects of the first render: the cache is looked at, and a switch that is
\* on asks for the music.
AppMounts ==
  /\ probe = "mounted" /\ probe' = "looking"
  /\ wantsPlayback' = bgmEnabled
  /\ UNCHANGED <<bgmStatus, persisted, bgmEnabled, element, hasUrl, audioContext, onUnlocked, cached, sfx,
                 bgmDownload, removal, plays, tabHidden, gestures, crossedOff>>

\* wake: the first gesture unlocks the audio, plays what waited for it and
\* fetches the effects.
FirstGesture ==
  /\ probe # "mounted" /\ gestures = 0 /\ MaxGestures > 0 /\ gestures' = 1
  /\ audioContext' = "running" /\ onUnlocked' = FALSE
  /\ sfx' = "loading"
  /\ IF onUnlocked THEN PlayCalled(IF element = "none" THEN "absent" ELSE bgmStatus)
     ELSE UNCHANGED <<wantsPlayback, plays>>
  /\ UNCHANGED <<bgmStatus, persisted, bgmEnabled, element, hasUrl, cached, bgmDownload, probe, removal,
                 tabHidden, crossedOff>>

\* preloadSfx: what cannot be read is left out.
SfxLoaded ==
  /\ sfx = "loading" /\ sfx' = "loaded"
  /\ UNCHANGED <<bgmStatus, persisted, bgmEnabled, wantsPlayback, element, hasUrl, audioContext, onUnlocked,
                 cached, bgmDownload, probe, removal, plays, tabHidden, gestures, crossedOff>>

Gesture == gestures \in 1..(MaxGestures - 1) /\ gestures' = gestures + 1

\* enable: a file that is there is played, another is downloaded first; the
\* effect of useAudio, after the switch changed, asks for the music as well.
EnableDownloaded ==
  /\ Gesture /\ Downloaded /\ ~bgmEnabled /\ bgmEnabled' = TRUE
  /\ wantsPlayback' = TRUE /\ plays' = plays + 2 /\ audioContext' = Ensured
  /\ crossedOff' = (crossedOff \/ removal # "none")
  /\ UNCHANGED <<bgmStatus, persisted, element, hasUrl, onUnlocked, cached, sfx, bgmDownload, probe, removal,
                 tabHidden>>

EnableAbsent ==
  /\ Gesture /\ bgmStatus \in {"absent", "error"} /\ bgmEnabled' = TRUE
  /\ bgmStatus' = "downloading"
  /\ bgmDownload' = [at |-> "fetching", aborted |-> FALSE, thenPlay |-> TRUE]
  /\ wantsPlayback' = (wantsPlayback \/ ~bgmEnabled)
  /\ UNCHANGED <<persisted, element, hasUrl, audioContext, onUnlocked, cached, sfx, probe, removal, plays,
                 tabHidden, crossedOff>>

\* abort of the controller: only a fetch can be aborted.
AbortFetch ==
  bgmDownload' = IF bgmDownload.at = "fetching" THEN [bgmDownload EXCEPT !.aborted = TRUE] ELSE bgmDownload

\* disable, also the button that cancels a download.
disable ==
  /\ Gesture /\ (bgmStatus = "downloading" \/ (Downloaded /\ bgmEnabled))
  /\ bgmEnabled' = FALSE
  /\ AbortFetch
  /\ stopBgm
  /\ UNCHANGED <<persisted, hasUrl, audioContext, cached, sfx, probe, removal, tabHidden>>

\* remove: discardBgm up to its await.
remove ==
  /\ Gesture /\ Downloaded /\ removal = "none"
  /\ bgmEnabled' = FALSE /\ removal' = "deleting"
  /\ AbortFetch
  /\ hasUrl' = FALSE
  /\ stopBgm
  /\ UNCHANGED <<persisted, audioContext, cached, sfx, probe, tabHidden>>

\* suspendBgm and resumeBgmIfWanted.
HideTab ==
  /\ ~tabHidden /\ Gesture /\ tabHidden' = TRUE
  /\ IF bgmStatus = "playing" THEN element' = "paused" /\ bgmStatus' = "ready"
     ELSE UNCHANGED <<element, bgmStatus>>
  /\ UNCHANGED <<persisted, bgmEnabled, wantsPlayback, hasUrl, audioContext, onUnlocked, cached, sfx,
                 bgmDownload, probe, removal, plays, crossedOff>>

ShowTab ==
  /\ tabHidden /\ tabHidden' = FALSE
  /\ IF wantsPlayback /\ bgmStatus = "ready" THEN playBgm ELSE UNCHANGED <<wantsPlayback, plays, audioContext>>
  /\ UNCHANGED <<bgmStatus, persisted, bgmEnabled, element, hasUrl, onUnlocked, cached, sfx, bgmDownload, probe,
                 removal, gestures, crossedOff>>

MusicNext ==
  \/ PlayResolves \/ PlayRefused \/ ProbeMatches \/ ProbeAnswers \/ ElementFails
  \/ BodyArrives \/ DownloadFails \/ PutInCache \/ BodyStored \/ SongDeleted \/ RemovalEnds
  \/ AppMounts \/ FirstGesture \/ SfxLoaded
  \/ EnableDownloaded \/ EnableAbsent \/ disable \/ remove \/ HideTab \/ ShowTab

MusicSpec == MusicInit /\ [][MusicNext]_musicVars

-----------------------------------------------------------------------------
(* The parts of MusicObeysTheSwitch.                                           *)

\* Nothing plays, and nothing is about to, while the switch is off, unless it
\* was turned off while a play() or the storing of the file was under way.
SilentWhenOff == ~crossedOff /\ ~bgmEnabled => element # "playing" /\ plays = 0 /\ ~wantsPlayback

\* The card says what is: playing while it plays, loading while something loads.
CardTellsTheTruth ==
  /\ ~crossedOff => ((bgmStatus = "playing") <=> (element = "playing"))
  /\ bgmStatus = "downloading" => bgmDownload.at # "none"
  /\ ~crossedOff /\ Downloaded => element # "none" /\ (hasUrl \/ removal # "none")

\* A song called kept is in the cache, once a removal has told the card, unless a
\* probe answered after another job had begun: then a put, or the probe's old answer,
\* and a removal cross.
KeptMeansKept == ~crossedOff /\ persisted /\ removal # "deleted" => cached

\* The background music obeys its switch (bgmPlayer.ts:232, BgmCard.tsx:42).
MusicObeysTheSwitch == SilentWhenOff /\ CardTellsTheTruth /\ KeptMeansKept

=============================================================================
