---------------------------- MODULE ClientProofs -----------------------------
(***************************************************************************)
(* What the browser does with jobs that cross: the music and its switch,   *)
(* the check that a visitor is human, the session with a game server, the  *)
(* identity its requests carry and the operator's console.                 *)
(***************************************************************************)
EXTENDS Music, HumanCheck, ClientSession, Identity, Console, FiniteSetTheorems,
        WellFoundedInduction, NaturalsInduction, TLAPS

-----------------------------------------------------------------------------
(* The background music.                                                     *)

\* The states of player, element, jobs and audio.
MusicTypeOK ==
  /\ bgmStatus \in {"absent", "downloading", "ready", "playing", "error"}
  /\ element \in {"none", "paused", "playing"}
  /\ audioContext \in {"none", "suspended", "running"}
  /\ persisted \in BOOLEAN /\ bgmEnabled \in BOOLEAN /\ wantsPlayback \in BOOLEAN
  /\ hasUrl \in BOOLEAN /\ onUnlocked \in BOOLEAN /\ cached \in BOOLEAN
  /\ bgmDownload \in [at : {"none", "fetching", "storing", "evicting"}, aborted : BOOLEAN, thenPlay : BOOLEAN]
  /\ (bgmDownload.at = "none" => bgmDownload = NoDownload)
  /\ plays \in Nat /\ gestures \in Nat
  /\ crossedOff \in BOOLEAN

\* As long as nothing crossed: a play() waits only for a song that is there, nothing is
\* downloaded while there is one, a song that was put in the cache stays there while the
\* others go, what is removed is not loaded again, and what waits for the first gesture
\* was asked for by a switch that is still on.
JobsFitTheStatus ==
  ~crossedOff =>
    /\ plays > 0 => Downloaded
    /\ bgmDownload # NoDownload => ~Downloaded
    /\ onUnlocked /\ gestures = 0 => bgmEnabled
    /\ bgmDownload.at = "evicting" => cached
    /\ removal # "none" => Downloaded /\ ~hasUrl

\* The inductive invariant of the music.
MusicInv ==
  MusicTypeOK /\ JobsFitTheStatus /\ SilentWhenOff /\ CardTellsTheTruth /\ KeptMeansKept

\* Nothing has been loaded or asked for.
LEMMA MusicInvInit == MusicInit => MusicInv
<1> SUFFICES ASSUME MusicInit PROVE MusicInv
  OBVIOUS
<1> USE DEF MusicInit
<1>1. MusicTypeOK
  BY DEF MusicTypeOK, NoDownload
<1>2. JobsFitTheStatus /\ SilentWhenOff /\ CardTellsTheTruth /\ KeptMeansKept
  BY DEF JobsFitTheStatus, SilentWhenOff, CardTellsTheTruth, KeptMeansKept, Downloaded, NoDownload
<1> QED
  BY <1>1, <1>2 DEF MusicInv

\* stopBgm, on the way to a switch that is off.
LEMMA StopKeeps ==
  ASSUME MusicInv, stopBgm, bgmEnabled' = FALSE, UNCHANGED <<persisted, cached, audioContext>>,
         gestures > 0, gestures' \in Nat, gestures' > 0,
         AbortFetch,
         \/ hasUrl' = hasUrl /\ removal' = removal
         \/ Downloaded /\ removal = "none" /\ hasUrl' = FALSE /\ removal' = "deleting"
  PROVE  MusicInv'
<1> USE DEF MusicInv, MusicTypeOK
<1>1. /\ bgmDownload' \in [at : {"none", "fetching", "storing", "evicting"}, aborted : BOOLEAN, thenPlay : BOOLEAN]
      /\ bgmDownload'.at = bgmDownload.at
      /\ (bgmDownload = NoDownload <=> bgmDownload' = NoDownload)
      /\ (bgmDownload.at = "none" => bgmDownload' = NoDownload)
  <2>1. CASE bgmDownload.at = "fetching"
    <3>1. bgmDownload' = [bgmDownload EXCEPT !.aborted = TRUE]
      BY <2>1 DEF AbortFetch
    <3>2. bgmDownload'.at = "fetching"
      BY <2>1, <3>1
    <3>3. bgmDownload # NoDownload /\ bgmDownload' # NoDownload
      BY <2>1, <3>2 DEF NoDownload
    <3> QED
      BY <2>1, <3>1, <3>2, <3>3
  <2>2. CASE bgmDownload.at # "fetching"
    BY <2>2 DEF AbortFetch
  <2> QED
    BY <2>1, <2>2
<1>2. MusicTypeOK'
  BY <1>1 DEF stopBgm, NoDownload, WishAfterStop
<1>3. /\ bgmStatus' = (IF bgmStatus = "playing" THEN "ready" ELSE bgmStatus)
      /\ element' = (IF element = "none" THEN "none" ELSE "paused")
      /\ ~crossedOff' => ~crossedOff /\ ~wantsPlayback' /\ plays' = 0
  BY DEF stopBgm, WishAfterStop
<1>4. JobsFitTheStatus' /\ SilentWhenOff'
  <2>1. Downloaded' <=> Downloaded
    BY <1>3 DEF Downloaded
  <2>2. ~crossedOff' => /\ bgmDownload' # NoDownload => ~Downloaded'
                        /\ bgmDownload'.at = "evicting" => cached'
    BY <1>1, <1>3, <2>1 DEF JobsFitTheStatus
  <2>3. ~crossedOff' => (removal' # "none" => Downloaded' /\ ~hasUrl')
    BY <1>3, <2>1 DEF JobsFitTheStatus
  <2> QED
    BY <1>3, <2>2, <2>3 DEF JobsFitTheStatus, SilentWhenOff
<1>5. CardTellsTheTruth'
  BY <1>1, <1>2, <1>3 DEF CardTellsTheTruth, Downloaded
<1>6. KeptMeansKept'
  BY <1>3 DEF KeptMeansKept
<1> QED
  BY <1>2, <1>4, <1>5, <1>6

\* Every answer, gesture and effect keeps the invariant.
LEMMA MusicInvNext == MusicInv /\ [MusicNext]_musicVars => MusicInv'
<1> SUFFICES ASSUME MusicInv, [MusicNext]_musicVars PROVE MusicInv'
  OBVIOUS
<1> USE MusicAssumption DEF MusicInv, MusicTypeOK, JobsFitTheStatus, SilentWhenOff, CardTellsTheTruth,
        KeptMeansKept, Downloaded
<1>1. CASE UNCHANGED musicVars
  BY <1>1 DEF musicVars
<1>2. CASE PlayResolves
  BY <1>2 DEF PlayResolves
<1>3. CASE PlayRefused
  BY <1>3 DEF PlayRefused
<1>4. CASE ProbeAnswers
  <2>1. /\ element' = "paused" /\ hasUrl' = TRUE /\ bgmStatus' = "ready" /\ persisted' = TRUE
        /\ audioContext' \in {"none", "suspended", "running"}
        /\ crossedOff' = (crossedOff \/ bgmDownload # NoDownload \/ removal # "none" \/ ~cached)
        /\ plays' = (IF wantsPlayback THEN plays + 1 ELSE plays)
        /\ UNCHANGED <<bgmEnabled, wantsPlayback, onUnlocked, cached, bgmDownload, removal, gestures>>
    BY <1>4 DEF ProbeAnswers, Attached, Ensured
  <2>2. crossedOff' \in BOOLEAN
    BY <2>1, Zenon
  <2>3. ~crossedOff' => ~crossedOff /\ bgmDownload = NoDownload /\ removal = "none" /\ cached
    BY <2>1, Zenon
  <2>4. MusicTypeOK'
    BY <2>1, <2>2
  <2>5. JobsFitTheStatus' /\ SilentWhenOff'
    BY <2>1, <2>2, <2>3 DEF NoDownload
  <2>6. CardTellsTheTruth' /\ KeptMeansKept'
    BY <2>1, <2>2, <2>3 DEF NoDownload
  <2> QED
    BY <2>4, <2>5, <2>6
<1>5. CASE ElementFails
  BY <1>5 DEF ElementFails
<1>6. CASE BodyArrives
  BY <1>6 DEF BodyArrives, NoDownload
<1>7. CASE DownloadFails
  BY <1>7 DEF DownloadFails, NoDownload
<1>8. CASE BodyStored
  BY <1>8 DEF BodyStored, Attached, Ensured, NoDownload
<1>9. CASE RemovalEnds
  <2>1. /\ removal' = "none" /\ persisted' = FALSE /\ bgmStatus' = "absent"
        /\ crossedOff' = (crossedOff \/ element = "playing" \/ plays > 0)
        /\ UNCHANGED <<bgmEnabled, wantsPlayback, element, hasUrl, audioContext, onUnlocked,
                       cached, bgmDownload, plays, gestures>>
    BY <1>9 DEF RemovalEnds
  <2>2. crossedOff' \in BOOLEAN /\ (~crossedOff' => ~crossedOff /\ element # "playing" /\ ~(plays > 0))
    BY <2>1, Zenon
  <2>3. /\ removal' = "none" /\ persisted' = FALSE /\ bgmStatus' = "absent"
        /\ UNCHANGED <<bgmEnabled, wantsPlayback, element, hasUrl, audioContext, onUnlocked,
                       cached, bgmDownload, plays, gestures>>
    BY <2>1
  <2>4. MusicTypeOK'
    <3>1. persisted' \in BOOLEAN
      BY <2>3
    <3> QED
      BY <2>2, <2>3, <3>1
  <2> QED
    BY <2>2, <2>3, <2>4
<1>10. CASE AppMounts
  BY <1>10 DEF AppMounts
<1>11. CASE FirstGesture
  <2>1. /\ gestures = 0 /\ gestures' = 1 /\ audioContext' = "running" /\ onUnlocked' = FALSE
        /\ UNCHANGED <<bgmStatus, persisted, bgmEnabled, element, hasUrl, cached, bgmDownload, removal,
                       crossedOff>>
    BY <1>11 DEF FirstGesture
  <2>0. gestures' \in Nat /\ onUnlocked' \in BOOLEAN
    BY <2>1
  <2>2. CASE ~onUnlocked
    <3>1. UNCHANGED <<wantsPlayback, plays>>
      BY <1>11, <2>2 DEF FirstGesture
    <3>2. MusicTypeOK'
      BY <2>0, <2>1, <3>1
    <3>3. JobsFitTheStatus'
      BY <2>1, <3>1
    <3> QED
      BY <2>1, <3>1, <3>2, <3>3
  <2>3. CASE onUnlocked
    <3>1. wantsPlayback' = TRUE /\ plays' \in {plays, plays + 1} /\ (plays' # plays => Downloaded)
      BY <1>11, <2>3 DEF FirstGesture, PlayCalled
    <3>2. ~crossedOff => bgmEnabled
      BY <2>1, <2>3
    <3>3. MusicTypeOK'
      BY <2>0, <2>1, <3>1
    <3>4. JobsFitTheStatus'
      BY <2>1, <3>1
    <3>5. SilentWhenOff' /\ CardTellsTheTruth'
      BY <2>1, <3>1, <3>2
    <3> QED
      BY <2>1, <3>3, <3>4, <3>5
  <2> QED
    BY <2>2, <2>3
<1>12. CASE SfxLoaded
  BY <1>12 DEF SfxLoaded
<1>13. CASE EnableDownloaded
  BY <1>13 DEF EnableDownloaded, Gesture, Ensured
<1>14. CASE EnableAbsent
  BY <1>14 DEF EnableAbsent, Gesture, NoDownload
<1>15. CASE disable
  <2>1. gestures > 0 /\ gestures' \in Nat /\ gestures' > 0
    BY <1>15 DEF disable, Gesture
  <2>2. /\ stopBgm /\ bgmEnabled' = FALSE /\ UNCHANGED <<persisted, cached, audioContext>>
        /\ AbortFetch
        /\ hasUrl' = hasUrl /\ removal' = removal
    BY <1>15 DEF disable
  <2>3. MusicInv
    OBVIOUS
  <2> HIDE DEF MusicInv
  <2> QED
    BY <2>1, <2>2, <2>3, StopKeeps
<1>16. CASE remove
  <2>1. gestures > 0 /\ gestures' \in Nat /\ gestures' > 0
    BY <1>16 DEF remove, Gesture
  <2>2. /\ stopBgm /\ bgmEnabled' = FALSE /\ UNCHANGED <<persisted, cached, audioContext>>
        /\ AbortFetch
        /\ Downloaded /\ removal = "none" /\ hasUrl' = FALSE /\ removal' = "deleting"
    BY <1>16 DEF remove
  <2>3. MusicInv
    OBVIOUS
  <2> HIDE DEF MusicInv
  <2> QED
    BY <2>1, <2>2, <2>3, StopKeeps
<1>17. CASE HideTab
  BY <1>17 DEF HideTab, Gesture
<1>18. CASE ShowTab
  <2>1. UNCHANGED <<bgmStatus, persisted, bgmEnabled, element, hasUrl, onUnlocked, cached, bgmDownload,
                    removal, gestures, crossedOff>>
    BY <1>18 DEF ShowTab
  <2>2. CASE wantsPlayback /\ bgmStatus = "ready"
    <3>1. wantsPlayback' = TRUE /\ plays' \in {plays, plays + 1}
          /\ audioContext' \in {"none", "suspended", "running"}
      BY <1>18, <2>2 DEF ShowTab, playBgm, PlayCalled, Ensured
    <3> QED
      BY <2>1, <2>2, <3>1
  <2>3. CASE ~(wantsPlayback /\ bgmStatus = "ready")
    BY <1>18, <2>1, <2>3 DEF ShowTab
  <2> QED
    BY <2>2, <2>3
<1>19. CASE ProbeMatches
  BY <1>19 DEF ProbeMatches
<1>20. CASE PutInCache
  <2>1. bgmDownload' \in [at : {"none", "fetching", "storing", "evicting"}, aborted : BOOLEAN, thenPlay : BOOLEAN]
        /\ bgmDownload'.at = "evicting" /\ bgmDownload # NoDownload
    BY <1>20 DEF PutInCache, NoDownload
  <2>2. /\ cached' = TRUE
        /\ UNCHANGED <<bgmStatus, persisted, bgmEnabled, wantsPlayback, element, hasUrl, audioContext,
                       onUnlocked, removal, plays, gestures, crossedOff>>
    BY <1>20 DEF PutInCache
  <2> QED
    BY <2>1, <2>2
<1>21. CASE SongDeleted
  <2>1. /\ removal = "deleting" /\ removal' = "deleted" /\ cached' = FALSE
        /\ UNCHANGED <<bgmStatus, persisted, bgmEnabled, wantsPlayback, element, hasUrl, audioContext,
                       onUnlocked, bgmDownload, plays, gestures, crossedOff>>
    BY <1>21 DEF SongDeleted
  <2>2. MusicTypeOK'
    <3>1. cached' \in BOOLEAN
      BY <2>1
    <3> QED
      BY <2>1, <3>1
  <2>3. ~crossedOff => Downloaded /\ bgmDownload.at # "evicting"
    BY <2>1 DEF NoDownload
  <2>4. JobsFitTheStatus' /\ SilentWhenOff'
    BY <2>1, <2>3
  <2>5. CardTellsTheTruth' /\ KeptMeansKept'
    BY <2>1, <2>3
  <2> QED
    BY <2>2, <2>4, <2>5
<1> QED
  BY <1>1, <1>2, <1>3, <1>4, <1>5, <1>6, <1>7, <1>8, <1>9, <1>10, <1>11, <1>12, <1>13, <1>14, <1>15,
     <1>16, <1>17, <1>18, <1>19, <1>20, <1>21 DEF MusicNext

\* The background music obeys its switch, for any number of gestures (bgmPlayer.ts:232,
\* BgmCard.tsx:42).
THEOREM MusicObeys == MusicSpec => []MusicObeysTheSwitch
<1>1. MusicInv => MusicObeysTheSwitch
  BY DEF MusicInv, MusicObeysTheSwitch
<1> QED
  BY <1>1, MusicInvInit, MusicInvNext, PTL DEF MusicSpec

-----------------------------------------------------------------------------
(* The human check.                                                          *)

\* A page, a challenge, a proof and a request.
Places == {"form", "asking", "issuing", "charging", "round", "sending", "failed", "proved", "using", "in"}
PageRow == [at : Places, subject : Email, net : Net, mode : {"switch", "radio"},
            token : Nat, proof : Nat, retried : BOOLEAN]
ChallengeRow == [use : {"login", "mail"}, subject : Email, net : Net,
                 round : {"none", "switch", "radio"}, stored : BOOLEAN]
ProofRow == [use : {"login", "mail"}, subject : Email, net : Net, stored : BOOLEAN, right : BOOLEAN]
CallRow == [tab : Tab, kind : {"verify", "use"}, token : Nat, use : {"login", "mail"},
            subject : Email, net : Net, charged : BOOLEAN, right : BOOLEAN,
            step : {"sent", "read", "refused", "granted", "denied"}, copy : {1, 2}]

HumanTypeOK ==
  /\ tabs \in [Tab -> PageRow]
  /\ posed \in Seq(ChallengeRow) /\ Len(posed) <= MaxChallenges
  /\ proofs \in [DOMAIN proofs -> ProofRow] /\ DOMAIN proofs \subseteq 1 .. Len(posed)
  /\ calls \subseteq CallRow
  /\ judged \in [CheckId -> {0, 1}]

\* A page with a challenge has one that was posed, and with a proof one that was made.
PagesKnow ==
  \A t \in Tab :
    /\ tabs[t].at \in {"charging", "round", "sending"} => tabs[t].token \in 1 .. Len(posed)
    /\ tabs[t].at = "proved" => tabs[t].proof \in DOMAIN proofs

\* So has a request, and a request that was granted left its proof behind.
CallsKnow ==
  \A c \in calls :
    /\ c.kind = "verify" => c.token \in 1 .. Len(posed)
    /\ c.kind = "verify" /\ c.step = "granted" => c.token \in DOMAIN proofs
    /\ c.kind = "use" => c.token \in DOMAIN proofs

\* What is still stored, or was never posed, has not been judged.
JudgedIsGone ==
  \A k \in CheckId : (k > Len(posed) \/ posed[k].stored) => judged[k] = 0

\* A proof is for what its challenge was for, and the challenge is spent.
ProofsFit ==
  \A k \in DOMAIN proofs :
    /\ ~posed[k].stored
    /\ proofs[k].use = posed[k].use /\ proofs[k].subject = posed[k].subject
    /\ proofs[k].net = posed[k].net
    /\ posed[k].round # "none" => proofs[k].right

\* What a proof was used for is what it was for, and the proof is spent.
UsesFit ==
  \A u \in uses :
    /\ u.token \in DOMAIN proofs /\ ~proofs[u.token].stored
    /\ posed[u.token].use = u.use /\ posed[u.token].subject = u.subject
    /\ posed[u.token].net = u.net
    /\ \A v \in uses : v.token = u.token => v = u

\* The inductive invariant of the human check.
HumanInv ==
  /\ HumanTypeOK /\ PagesKnow /\ CallsKnow
  /\ JudgedIsGone /\ ProofsFit /\ UsesFit
  /\ NoPageWaitsForNothing

\* Nothing has been asked for.
LEMMA HumanInvInit == HumanInit => HumanInv
<1> SUFFICES ASSUME HumanInit PROVE HumanInv
  OBVIOUS
<1> USE HumanCheckAssumption DEF HumanInit
<1>1. (CHOOSE e \in Email : TRUE) \in Email /\ (CHOOSE n \in Net : TRUE) \in Net
  OBVIOUS
<1>2. \A t \in Tab : tabs[t] \in PageRow /\ tabs[t].at = "form"
  BY <1>1 DEF PageRow, Places, NoCheck
<1>3. HumanTypeOK
  BY <1>2 DEF HumanTypeOK, CheckId
<1>4. PagesKnow /\ CallsKnow /\ NoPageWaitsForNothing
  BY <1>2 DEF PagesKnow, CallsKnow, NoPageWaitsForNothing
<1>5. JudgedIsGone /\ ProofsFit /\ UsesFit
  BY DEF JudgedIsGone, ProofsFit, UsesFit, CheckId
<1> QED
  BY <1>3, <1>4, <1>5 DEF HumanInv

\* A page that goes somewhere where it holds nothing and waits for nothing, or stays.
LEMMA PageMoves ==
  ASSUME HumanInv, NEW t \in Tab, NEW new \in PageRow, Tabbed(t, new),
         UNCHANGED <<posed, proofs, calls, judged, uses>>,
         \/ new.at \in {"form", "asking", "issuing", "failed", "in"}
         \/ new.at = tabs[t].at /\ new.token = tabs[t].token /\ new.proof = tabs[t].proof
  PROVE  HumanInv'
<1> USE DEF HumanInv, HumanTypeOK, Tabbed
<1>1. /\ tabs' \in [Tab -> PageRow] /\ tabs'[t] = new
      /\ \A s \in Tab : s # t => tabs'[s] = tabs[s]
  OBVIOUS
<1>2. HumanTypeOK'
  BY <1>1
<1>3. PagesKnow' /\ CallsKnow'
  BY <1>1 DEF PagesKnow, CallsKnow
<1>4. JudgedIsGone' /\ ProofsFit' /\ UsesFit'
  BY DEF JudgedIsGone, ProofsFit, UsesFit
<1>5. NoPageWaitsForNothing'
  BY <1>1 DEF NoPageWaitsForNothing
<1> QED
  BY <1>2, <1>3, <1>4, <1>5

\* A page sends a request for what it holds and waits for the answer.
LEMMA PageSends ==
  ASSUME HumanInv, NEW t \in Tab, NEW kind \in {"verify", "use"}, NEW token \in Nat,
         NEW right \in BOOLEAN, NEW at, Sent(t, Call(t, kind, token, TRUE, right), at),
         \/ kind = "verify" /\ at = "sending" /\ token = tabs[t].token /\ token \in 1 .. Len(posed)
         \/ kind = "use" /\ at = "using" /\ token \in DOMAIN proofs
  PROVE  HumanInv'
<1> USE HumanCheckAssumption DEF HumanInv, HumanTypeOK
<1> DEFINE call == Call(t, kind, token, TRUE, right)
<1>1. /\ call \in CallRow /\ call.tab = t /\ call.kind = kind /\ call.token = token
      /\ call.copy = 1 /\ call.step = "sent"
  BY DEF Call, CallRow, PageRow
<1>2. calls' = calls \cup {call} /\ UNCHANGED <<posed, proofs, judged, uses>>
  BY DEF Sent
<1> HIDE DEF call
<1>3. /\ tabs' \in [Tab -> PageRow] /\ tabs'[t].at = at /\ tabs'[t].token = tabs[t].token
      /\ \A s \in Tab : s # t => tabs'[s] = tabs[s]
  <2> DEFINE new == [tabs[t] EXCEPT !.at = at]
  <2>1. tabs' = [tabs EXCEPT ![t] = new]
    BY DEF Sent, Tabbed
  <2>2. tabs[t] \in PageRow /\ at \in Places
    BY DEF Places
  <2>3. new \in PageRow /\ new.at = at /\ new.token = tabs[t].token
    BY <2>2 DEF PageRow
  <2> HIDE DEF new
  <2> QED
    BY <2>1, <2>3
<1>4. HumanTypeOK'
  BY <1>1, <1>2, <1>3
<1>5. PagesKnow'
  BY <1>2, <1>3 DEF PagesKnow
<1>6. CallsKnow'
  BY <1>1, <1>2 DEF CallsKnow
<1>7. JudgedIsGone' /\ ProofsFit' /\ UsesFit'
  BY <1>2 DEF JudgedIsGone, ProofsFit, UsesFit
<1>8. NoPageWaitsForNothing'
  BY <1>1, <1>2, <1>3 DEF NoPageWaitsForNothing
<1> QED
  BY <1>4, <1>5, <1>6, <1>7, <1>8

\* A request that gets on stays the request it was.
SameCall(d, e) == d.tab = e.tab /\ d.kind = e.kind /\ d.token = e.token /\ d.copy = e.copy

\* The pages do not notice: their requests are still on their way.
LEMMA StillWaitedFor ==
  ASSUME HumanInv, tabs' = tabs,
         \A e \in calls : \E d \in calls' : SameCall(d, e)
  PROVE  NoPageWaitsForNothing'
<1> SUFFICES ASSUME NEW t \in Tab
             PROVE  /\ tabs[t].at = "sending" =>
                         \E d \in calls' : d.tab = t /\ d.kind = "verify" /\ d.token = tabs[t].token /\ d.copy = 1
                    /\ tabs[t].at = "using" => \E d \in calls' : d.tab = t /\ d.kind = "use" /\ d.copy = 1
  BY DEF NoPageWaitsForNothing
<1>1. CASE tabs[t].at = "sending"
  <2>1. PICK e \in calls : e.tab = t /\ e.kind = "verify" /\ e.token = tabs[t].token /\ e.copy = 1
    BY <1>1 DEF HumanInv, NoPageWaitsForNothing
  <2> QED
    BY <1>1, <2>1 DEF SameCall
<1>2. CASE tabs[t].at = "using"
  <2>1. PICK e \in calls : e.tab = t /\ e.kind = "use" /\ e.copy = 1
    BY <1>2 DEF HumanInv, NoPageWaitsForNothing
  <2> QED
    BY <1>2, <2>1 DEF SameCall
<1> QED
  BY <1>1, <1>2

\* A request reads its key.
LEMMA CallReadsKeeps ==
  ASSUME HumanInv, NEW c \in calls, CallReads(c)
  PROVE  HumanInv'
<1> DEFINE step == IF RowOf(c).stored THEN "read" ELSE "refused"
           next == [c EXCEPT !.step = step]
<1>1. step \in {"read", "refused"} /\ calls' = (calls \ {c}) \cup {next}
  BY DEF CallReads
<1>2. UNCHANGED <<tabs, posed, proofs, judged, uses>> /\ calls \subseteq CallRow
  BY DEF CallReads, HumanInv, HumanTypeOK
<1> HIDE DEF step
<1>3a. next \in CallRow /\ SameCall(next, c) /\ next.step \in {"read", "refused"}
  BY <1>1, <1>2 DEF CallRow, SameCall
<1> HIDE DEF next
<1>3. /\ calls' \subseteq CallRow
      /\ \A d \in calls' : \E e \in calls : SameCall(d, e) /\ (d = e \/ (e = c /\ d = next))
      /\ \A e \in calls : \E d \in calls' : SameCall(d, e)
  BY <1>1, <1>2, <1>3a DEF SameCall
<1>4. HumanTypeOK' /\ PagesKnow'
  BY <1>2, <1>3 DEF HumanInv, HumanTypeOK, PagesKnow
<1>5. CallsKnow'
  BY <1>2, <1>3a, <1>3 DEF HumanInv, CallsKnow, SameCall
<1>6. JudgedIsGone' /\ ProofsFit' /\ UsesFit'
  BY <1>2 DEF HumanInv, JudgedIsGone, ProofsFit, UsesFit
<1>7. NoPageWaitsForNothing'
  BY <1>2, <1>3, StillWaitedFor
<1> QED
  BY <1>4, <1>5, <1>6, <1>7 DEF HumanInv

\* A row of Redis is taken or runs out.
LEMMA RowGone ==
  ASSUME NEW q \in Seq(ChallengeRow), NEW k \in 1 .. Len(q)
  PROVE  /\ [q EXCEPT ![k].stored = FALSE] \in Seq(ChallengeRow)
         /\ Len([q EXCEPT ![k].stored = FALSE]) = Len(q)
         /\ \A j \in 1 .. Len(q) :
              /\ [q EXCEPT ![k].stored = FALSE][j].use = q[j].use
              /\ [q EXCEPT ![k].stored = FALSE][j].subject = q[j].subject
              /\ [q EXCEPT ![k].stored = FALSE][j].net = q[j].net
              /\ [q EXCEPT ![k].stored = FALSE][j].round = q[j].round
              /\ [q EXCEPT ![k].stored = FALSE][j].stored <=> (j # k /\ q[j].stored)
<1> DEFINE row == [q[k] EXCEPT !.stored = FALSE]
<1>1. q[k] \in ChallengeRow
  OBVIOUS
<1>2. /\ row \in ChallengeRow /\ row.use = q[k].use /\ row.subject = q[k].subject
      /\ row.net = q[k].net /\ row.round = q[k].round /\ ~row.stored
  BY <1>1 DEF ChallengeRow
<1>3. [q EXCEPT ![k].stored = FALSE] = [q EXCEPT ![k] = row]
  OBVIOUS
<1> HIDE DEF row
<1>4. /\ [q EXCEPT ![k] = row] \in Seq(ChallengeRow) /\ Len([q EXCEPT ![k] = row]) = Len(q)
      /\ [q EXCEPT ![k] = row][k] = row
      /\ \A j \in 1 .. Len(q) : j # k => [q EXCEPT ![k] = row][j] = q[j]
  BY <1>2
<1> QED
  BY <1>2, <1>3, <1>4

LEMMA ProofGone ==
  ASSUME NEW f, f \in [DOMAIN f -> ProofRow], NEW k \in DOMAIN f
  PROVE  /\ [f EXCEPT ![k].stored = FALSE] \in [DOMAIN f -> ProofRow]
         /\ \A j \in DOMAIN f :
              /\ [f EXCEPT ![k].stored = FALSE][j].use = f[j].use
              /\ [f EXCEPT ![k].stored = FALSE][j].subject = f[j].subject
              /\ [f EXCEPT ![k].stored = FALSE][j].net = f[j].net
              /\ [f EXCEPT ![k].stored = FALSE][j].right = f[j].right
              /\ [f EXCEPT ![k].stored = FALSE][j].stored <=> (j # k /\ f[j].stored)
<1> DEFINE row == [f[k] EXCEPT !.stored = FALSE]
<1>1. f[k] \in ProofRow
  OBVIOUS
<1>2. /\ row \in ProofRow /\ row.use = f[k].use /\ row.subject = f[k].subject
      /\ row.net = f[k].net /\ row.right = f[k].right /\ ~row.stored
  BY <1>1 DEF ProofRow
<1>3. [f EXCEPT ![k].stored = FALSE] = [f EXCEPT ![k] = row]
  OBVIOUS
<1> HIDE DEF row
<1>4. /\ [f EXCEPT ![k] = row] \in [DOMAIN f -> ProofRow] /\ [f EXCEPT ![k] = row][k] = row
      /\ \A j \in DOMAIN f : j # k => [f EXCEPT ![k] = row][j] = f[j]
  BY <1>2
<1> QED
  BY <1>2, <1>3, <1>4

LEMMA ChallengeExpiresKeeps ==
  ASSUME HumanInv, NEW k \in 1 .. Len(posed), ChallengeExpires(k)
  PROVE  HumanInv'
<1>1. posed \in Seq(ChallengeRow) /\ Len(posed) <= MaxChallenges
  BY DEF HumanInv, HumanTypeOK
<1>2. posed' = [posed EXCEPT ![k].stored = FALSE] /\ UNCHANGED <<tabs, proofs, calls, judged, uses>>
  BY DEF ChallengeExpires, Slip
<1>3. /\ posed' \in Seq(ChallengeRow) /\ Len(posed') = Len(posed)
      /\ \A j \in 1 .. Len(posed) :
           /\ posed'[j].use = posed[j].use /\ posed'[j].subject = posed[j].subject
           /\ posed'[j].net = posed[j].net /\ posed'[j].round = posed[j].round
           /\ posed'[j].stored <=> (j # k /\ posed[j].stored)
  BY <1>1, <1>2, RowGone
<1>4. HumanTypeOK' /\ PagesKnow' /\ CallsKnow'
  BY <1>2, <1>3 DEF HumanInv, HumanTypeOK, PagesKnow, CallsKnow
<1>5. JudgedIsGone'
  BY <1>1, <1>2, <1>3 DEF HumanInv, JudgedIsGone, CheckId
<1>6. ProofsFit' /\ UsesFit'
  <2>1. DOMAIN proofs \subseteq 1 .. Len(posed)
    BY DEF HumanInv, HumanTypeOK
  <2> QED
    BY <2>1, <1>2, <1>3 DEF HumanInv, ProofsFit, UsesFit
<1>7. NoPageWaitsForNothing'
  BY <1>2 DEF HumanInv, NoPageWaitsForNothing
<1> QED
  BY <1>4, <1>5, <1>6, <1>7 DEF HumanInv

LEMMA ProofExpiresKeeps ==
  ASSUME HumanInv, NEW k \in DOMAIN proofs, ProofExpires(k)
  PROVE  HumanInv'
<1>1. proofs \in [DOMAIN proofs -> ProofRow]
  BY DEF HumanInv, HumanTypeOK
<1>2. proofs' = [proofs EXCEPT ![k].stored = FALSE] /\ UNCHANGED <<tabs, posed, calls, judged, uses>>
  BY DEF ProofExpires, Slip
<1>3. /\ proofs' \in [DOMAIN proofs -> ProofRow] /\ DOMAIN proofs' = DOMAIN proofs
      /\ \A j \in DOMAIN proofs :
           /\ proofs'[j].use = proofs[j].use /\ proofs'[j].subject = proofs[j].subject
           /\ proofs'[j].net = proofs[j].net /\ proofs'[j].right = proofs[j].right
           /\ proofs'[j].stored <=> (j # k /\ proofs[j].stored)
  BY <1>1, <1>2, ProofGone
<1>4. HumanTypeOK' /\ PagesKnow' /\ CallsKnow'
  BY <1>2, <1>3 DEF HumanInv, HumanTypeOK, PagesKnow, CallsKnow
<1>5. JudgedIsGone'
  BY <1>2 DEF HumanInv, JudgedIsGone
<1>6. ProofsFit' /\ UsesFit'
  BY <1>2, <1>3 DEF HumanInv, ProofsFit, UsesFit
<1>7. NoPageWaitsForNothing'
  BY <1>2 DEF HumanInv, NoPageWaitsForNothing
<1> QED
  BY <1>4, <1>5, <1>6, <1>7 DEF HumanInv

\* An answer is judged: the challenge goes, and what is right becomes a proof.
LEMMA VerifyTakesKeeps ==
  ASSUME HumanInv, NEW c \in calls, NEW hasty \in BOOLEAN, VerifyTakes(c, hasty)
  PROVE  HumanInv'
<1> DEFINE k == c.token
           ch == posed[k]
           done == TakesIt(ch) /\ ch.net = c.net /\ c.charged
           passes == done /\ ~(done /\ ch.round # "none" /\ hasty) /\ (ch.round # "none" => c.right)
           next == [c EXCEPT !.step = IF passes THEN "granted" ELSE "refused"]
           row == [use |-> ch.use, subject |-> ch.subject, net |-> ch.net, stored |-> TRUE, right |-> c.right]
<1>0. /\ posed \in Seq(ChallengeRow) /\ Len(posed) <= MaxChallenges /\ MaxChallenges \in Nat
      /\ proofs \in [DOMAIN proofs -> ProofRow] /\ DOMAIN proofs \subseteq 1 .. Len(posed)
      /\ calls \subseteq CallRow /\ c \in CallRow /\ judged \in [CheckId -> {0, 1}]
  BY HumanCheckAssumption DEF HumanInv, HumanTypeOK
<1>1. /\ c.kind = "verify" /\ k \in 1 .. Len(posed) /\ k \in CheckId
      /\ posed' = [posed EXCEPT ![k].stored = FALSE]
      /\ judged' = [judged EXCEPT ![k] = IF ch.stored THEN judged[k] + 1 ELSE judged[k]]
      /\ calls' = (calls \ {c}) \cup {next}
      /\ UNCHANGED <<tabs, uses>>
  BY <1>0 DEF VerifyTakes, HumanInv, CallsKnow, TakesIt, CheckId
<1>2. /\ ~passes => proofs' = proofs
      /\ passes => proofs' = [j \in DOMAIN proofs \cup {k} |-> IF j = k THEN row ELSE proofs[j]]
  BY DEF VerifyTakes
<1>3. passes => ch.stored /\ (ch.round # "none" => c.right)
  BY DEF TakesIt
<1>4. /\ posed' \in Seq(ChallengeRow) /\ Len(posed') = Len(posed)
      /\ \A j \in 1 .. Len(posed) :
           /\ posed'[j].use = posed[j].use /\ posed'[j].subject = posed[j].subject
           /\ posed'[j].net = posed[j].net /\ posed'[j].round = posed[j].round
           /\ posed'[j].stored <=> (j # k /\ posed[j].stored)
  BY <1>0, <1>1, RowGone
<1>5. ch \in ChallengeRow
  BY <1>0, <1>1
<1>6. /\ row \in ProofRow /\ row.use = ch.use /\ row.subject = ch.subject /\ row.net = ch.net
      /\ row.stored /\ (row.right <=> c.right)
  BY <1>0, <1>5 DEF ProofRow, ChallengeRow, CallRow
<1>7. /\ next \in CallRow /\ SameCall(next, c)
      /\ (next.step = "granted") <=> passes
  BY <1>0 DEF CallRow, SameCall
<1>8. \A j \in DOMAIN proofs : ~posed[j].stored
  BY DEF HumanInv, ProofsFit
<1>9. k \in DOMAIN proofs => ~passes
  BY <1>3, <1>8
<1>10. judged[k] \in {0, 1} /\ (ch.stored => judged[k] = 0)
  BY <1>0, <1>1 DEF HumanInv, JudgedIsGone
<1> HIDE DEF row, next, passes
<1>11. /\ DOMAIN proofs' = IF passes THEN DOMAIN proofs \cup {k} ELSE DOMAIN proofs
       /\ \A j \in DOMAIN proofs : proofs'[j] = proofs[j]
       /\ passes => proofs'[k] = row
  BY <1>2, <1>9
<1>12. proofs' \in [DOMAIN proofs' -> ProofRow] /\ DOMAIN proofs' \subseteq 1 .. Len(posed)
  BY <1>0, <1>1, <1>2, <1>6
<1>13. judged' \in [CheckId -> {0, 1}]
  BY <1>0, <1>1, <1>10
<1>14. calls' \subseteq CallRow
  BY <1>0, <1>1, <1>7
<1>15. HumanTypeOK'
  BY <1>0, <1>1, <1>4, <1>12, <1>13, <1>14 DEF HumanInv, HumanTypeOK
<1>16. PagesKnow'
  BY <1>1, <1>4, <1>11 DEF HumanInv, PagesKnow
<1>17. CallsKnow'
  <2>1. ASSUME NEW d \in calls'
        PROVE  /\ d.kind = "verify" => d.token \in 1 .. Len(posed)
               /\ d.kind = "verify" /\ d.step = "granted" => d.token \in DOMAIN proofs'
               /\ d.kind = "use" => d.token \in DOMAIN proofs'
    <3>1. CASE d = next
      BY <3>1, <1>1, <1>7, <1>11 DEF SameCall
    <3>2. CASE d \in calls
      BY <3>2, <1>11 DEF HumanInv, CallsKnow
    <3> QED
      BY <3>1, <3>2, <1>1
  <2> QED
    BY <2>1, <1>4 DEF CallsKnow
<1>18. JudgedIsGone'
  BY <1>0, <1>1, <1>4, <1>10 DEF HumanInv, JudgedIsGone, CheckId
<1>19. ProofsFit'
  <2>1. ASSUME NEW j \in DOMAIN proofs'
        PROVE  /\ ~posed'[j].stored
               /\ proofs'[j].use = posed'[j].use /\ proofs'[j].subject = posed'[j].subject
               /\ proofs'[j].net = posed'[j].net
               /\ posed'[j].round # "none" => proofs'[j].right
    <3>1. CASE j \in DOMAIN proofs
      BY <3>1, <1>0, <1>4, <1>11 DEF HumanInv, ProofsFit
    <3>2. CASE passes /\ j = k
      BY <3>2, <1>1, <1>3, <1>4, <1>6, <1>11
    <3> QED
      BY <3>1, <3>2, <1>11
  <2> QED
    BY <2>1 DEF ProofsFit
<1>20. UsesFit'
  BY <1>0, <1>1, <1>4, <1>11 DEF HumanInv, UsesFit
<1>21. \A e \in calls : \E d \in calls' : SameCall(d, e)
  BY <1>1, <1>7 DEF SameCall
<1>22. NoPageWaitsForNothing'
  BY <1>1, <1>21, StillWaitedFor
<1> QED
  BY <1>15, <1>16, <1>17, <1>18, <1>19, <1>20, <1>22 DEF HumanInv

\* A proof is taken, if it fits.
LEMMA UseTakesKeeps ==
  ASSUME HumanInv, NEW c \in calls, NEW password \in BOOLEAN, UseTakes(c, password)
  PROVE  HumanInv'
<1> DEFINE k == c.token
           fits == proofs[k].use = c.use /\ proofs[k].subject = c.subject /\ proofs[k].net = c.net
           mine == fits /\ proofs[k].stored
           next == [c EXCEPT !.step = CASE ~mine -> "refused" [] password -> "granted" [] OTHER -> "denied"]
           use == [token |-> k, use |-> c.use, subject |-> c.subject, net |-> c.net, copy |-> c.copy, tab |-> c.tab]
<1>0. /\ proofs \in [DOMAIN proofs -> ProofRow] /\ DOMAIN proofs \subseteq 1 .. Len(posed)
      /\ calls \subseteq CallRow /\ c \in CallRow
  BY DEF HumanInv, HumanTypeOK
<1>1. /\ c.kind = "use" /\ k \in DOMAIN proofs
      /\ proofs' = IF fits THEN [proofs EXCEPT ![k].stored = FALSE] ELSE proofs
      /\ uses' = IF mine THEN uses \cup {use} ELSE uses
      /\ calls' = (calls \ {c}) \cup {next}
      /\ UNCHANGED <<tabs, posed, judged>>
  BY DEF UseTakes, TakesIt, HumanInv, CallsKnow
<1>2. next \in CallRow /\ SameCall(next, c)
  <2>1. next.step \in {"refused", "granted", "denied"}
    BY <1>0 DEF CallRow
  <2> QED
    BY <2>1, <1>0 DEF CallRow, SameCall
<1>3. /\ use.token = k /\ use.use = c.use /\ use.subject = c.subject /\ use.net = c.net
  OBVIOUS
<1> HIDE DEF next, use
<1>4. /\ proofs' \in [DOMAIN proofs -> ProofRow] /\ DOMAIN proofs' = DOMAIN proofs
      /\ \A j \in DOMAIN proofs :
           /\ proofs'[j].use = proofs[j].use /\ proofs'[j].subject = proofs[j].subject
           /\ proofs'[j].net = proofs[j].net /\ proofs'[j].right = proofs[j].right
           /\ proofs'[j].stored => proofs[j].stored
      /\ mine => ~proofs'[k].stored
  <2>1. CASE fits
    <3>1. k \in DOMAIN proofs /\ proofs' = [proofs EXCEPT ![k].stored = FALSE]
      BY <2>1, <1>1
    <3> HIDE DEF k, fits, mine
    <3>2. /\ proofs' \in [DOMAIN proofs -> ProofRow]
          /\ \A j \in DOMAIN proofs :
               /\ proofs'[j].use = proofs[j].use /\ proofs'[j].subject = proofs[j].subject
               /\ proofs'[j].net = proofs[j].net /\ proofs'[j].right = proofs[j].right
               /\ proofs'[j].stored <=> (j # k /\ proofs[j].stored)
      BY <3>1, <1>0, ProofGone
    <3> QED
      BY <3>1, <3>2
  <2>2. CASE ~fits
    BY <2>2, <1>0, <1>1
  <2> QED
    BY <2>1, <2>2
<1>5. calls' \subseteq CallRow /\ \A e \in calls : \E d \in calls' : SameCall(d, e)
  BY <1>0, <1>1, <1>2 DEF SameCall
<1>6. HumanTypeOK' /\ PagesKnow'
  BY <1>1, <1>4, <1>5 DEF HumanInv, HumanTypeOK, PagesKnow
<1>7. CallsKnow'
  BY <1>1, <1>2, <1>4 DEF HumanInv, CallsKnow, SameCall
<1>8. JudgedIsGone'
  BY <1>1 DEF HumanInv, JudgedIsGone
<1>9. ProofsFit'
  BY <1>1, <1>4 DEF HumanInv, ProofsFit
<1>10. UsesFit'
  <2>1. UsesFit /\ ProofsFit
    BY DEF HumanInv
  <2>2. CASE mine
    <3>1. \A u \in uses : u.token # k
      BY <2>1, <2>2 DEF UsesFit
    <3>2. uses' = uses \cup {use}
      BY <2>2, <1>1
    <3>3. posed[k].use = c.use /\ posed[k].subject = c.subject /\ posed[k].net = c.net
      BY <2>1, <2>2, <1>1 DEF ProofsFit
    <3> HIDE DEF mine
    <3>4. ASSUME NEW u \in uses'
          PROVE  /\ u.token \in DOMAIN proofs /\ ~proofs'[u.token].stored
                 /\ posed[u.token].use = u.use /\ posed[u.token].subject = u.subject
                 /\ posed[u.token].net = u.net
                 /\ \A v \in uses' : v.token = u.token => v = u
      <4>1. CASE u = use
        BY <4>1, <2>2, <3>1, <3>2, <3>3, <1>1, <1>3, <1>4
      <4>2. CASE u \in uses
        BY <4>2, <2>1, <3>1, <3>2, <1>3, <1>4 DEF UsesFit
      <4> QED
        BY <3>2, <4>1, <4>2
    <3> QED
      BY <3>4, <1>1, <1>4 DEF UsesFit
  <2>3. CASE ~mine
    BY <2>1, <2>3, <1>1, <1>4 DEF UsesFit
  <2> QED
    BY <2>2, <2>3
<1>11. NoPageWaitsForNothing'
  BY <1>1, <1>5, StillWaitedFor
<1> QED
  BY <1>6, <1>7, <1>8, <1>9, <1>10, <1>11 DEF HumanInv

\* A challenge is posed.
LEMMA IssueStoresKeeps ==
  ASSUME HumanInv, NEW t \in Tab, IssueStores(t)
  PROVE  HumanInv'
<1> DEFINE me == tabs[t]
           round == IF NeedsRound(me, UseOf[t]) THEN me.mode ELSE "none"
           ch == [use |-> UseOf[t], subject |-> me.subject, net |-> me.net, round |-> round, stored |-> TRUE]
           at == IF round = "none" THEN "charging" ELSE "round"
           token == Len(posed) + 1
           new == [me EXCEPT !.token = token, !.at = at]
<1>0. /\ me \in PageRow /\ tabs \in [Tab -> PageRow] /\ posed \in Seq(ChallengeRow) /\ MaxChallenges \in Nat
      /\ Len(posed) < MaxChallenges /\ UseOf[t] \in {"login", "mail"}
      /\ DOMAIN proofs \subseteq 1 .. Len(posed)
  BY HumanCheckAssumption DEF HumanInv, HumanTypeOK, IssueStores
<1>1. UNCHANGED <<proofs, calls, judged, uses>>
  BY DEF IssueStores
<1>2. \/ posed' = posed /\ Tabbed(t, [me EXCEPT !.at = "failed"])
      \/ posed' = Append(posed, ch) /\ Tabbed(t, new)
  BY DEF IssueStores
<1>3. CASE posed' = posed /\ Tabbed(t, [me EXCEPT !.at = "failed"])
  <2>1. [me EXCEPT !.at = "failed"] \in PageRow /\ [me EXCEPT !.at = "failed"].at = "failed"
    BY <1>0 DEF PageRow, Places
  <2> QED
    BY <1>1, <1>3, <2>1, PageMoves
<1>4. CASE posed' = Append(posed, ch) /\ Tabbed(t, new)
  <2>1. round \in {"none", "switch", "radio"}
    BY <1>0 DEF PageRow
  <2> HIDE DEF round
  <2>2. ch \in ChallengeRow
    BY <2>1, <1>0 DEF ChallengeRow, PageRow
  <2>3. new \in PageRow /\ new.token = Len(posed) + 1 /\ new.at \in {"charging", "round"}
    <3>1. at \in {"charging", "round"} /\ token \in Nat /\ me \in PageRow
      BY <1>0
    <3> HIDE DEF at, token, me
    <3>2. new \in PageRow /\ new.token = token /\ new.at = at
      BY <3>1 DEF PageRow, Places
    <3> QED
      BY <3>1, <3>2 DEF token
  <2> HIDE DEF ch, new, me
  <2>4. /\ posed' \in Seq(ChallengeRow) /\ Len(posed') = Len(posed) + 1
        /\ \A j \in 1 .. Len(posed) : posed'[j] = posed[j]
    BY <1>0, <1>4, <2>2
  <2>5. /\ tabs' \in [Tab -> PageRow] /\ tabs'[t] = new
        /\ \A s \in Tab : s # t => tabs'[s] = tabs[s]
    BY <1>0, <1>4, <2>3 DEF Tabbed
  <2>6. HumanTypeOK'
    BY <1>0, <1>1, <2>4, <2>5 DEF HumanInv, HumanTypeOK
  <2>7. PagesKnow' /\ CallsKnow'
    BY <1>0, <1>1, <2>3, <2>4, <2>5 DEF HumanInv, PagesKnow, CallsKnow
  <2>8. JudgedIsGone'
    BY <1>0, <1>1, <2>4 DEF HumanInv, JudgedIsGone, CheckId
  <2>9. ProofsFit' /\ UsesFit'
    BY <1>0, <1>1, <2>4 DEF HumanInv, ProofsFit, UsesFit
  <2>10. NoPageWaitsForNothing'
    BY <1>1, <2>3, <2>5 DEF HumanInv, NoPageWaitsForNothing
  <2> QED
    BY <2>6, <2>7, <2>8, <2>9, <2>10 DEF HumanInv
<1> QED
  BY <1>2, <1>3, <1>4

\* A request is answered or lost, and no page waits for it.
LEMMA CallIgnored ==
  ASSUME HumanInv, NEW c \in calls, calls' = calls \ {c},
         UNCHANGED <<tabs, posed, proofs, judged, uses>>,
         \/ c.copy = 2
         \/ c.kind = "verify" /\ ~(tabs[c.tab].at = "sending" /\ tabs[c.tab].token = c.token)
  PROVE  HumanInv'
<1>1. HumanTypeOK' /\ PagesKnow' /\ CallsKnow'
  BY DEF HumanInv, HumanTypeOK, PagesKnow, CallsKnow
<1>2. JudgedIsGone' /\ ProofsFit' /\ UsesFit'
  BY DEF HumanInv, JudgedIsGone, ProofsFit, UsesFit
<1>3. NoPageWaitsForNothing'
  BY DEF HumanInv, NoPageWaitsForNothing
<1> QED
  BY <1>1, <1>2, <1>3 DEF HumanInv

\* Its page moves on.
LEMMA CallHeard ==
  ASSUME HumanInv, NEW c \in calls, calls' = calls \ {c}, NEW new \in PageRow, Tabbed(c.tab, new),
         UNCHANGED <<posed, proofs, judged, uses>>,
         \/ new.at \in {"form", "asking", "failed", "in"}
         \/ new.at = "proved" /\ new.proof \in DOMAIN proofs
  PROVE  HumanInv'
<1>0. tabs \in [Tab -> PageRow] /\ c \in CallRow /\ c.tab \in Tab
  BY DEF HumanInv, HumanTypeOK, CallRow
<1>1. /\ tabs' \in [Tab -> PageRow] /\ tabs'[c.tab] = new
      /\ \A s \in Tab : s # c.tab => tabs'[s] = tabs[s]
  BY <1>0 DEF Tabbed
<1>2. HumanTypeOK' /\ PagesKnow' /\ CallsKnow'
  BY <1>1 DEF HumanInv, HumanTypeOK, PagesKnow, CallsKnow
<1>3. JudgedIsGone' /\ ProofsFit' /\ UsesFit'
  BY DEF HumanInv, JudgedIsGone, ProofsFit, UsesFit
<1>4. NoPageWaitsForNothing'
  BY <1>0, <1>1 DEF HumanInv, NoPageWaitsForNothing
<1> QED
  BY <1>2, <1>3, <1>4 DEF HumanInv

\* The answer to verify, whoever is there to hear it.
LEMMA VerifyAnsweredKeeps ==
  ASSUME HumanInv, NEW c \in calls, VerifyAnswered(c)
  PROVE  HumanInv'
<1> DEFINE t == c.tab
           proved == [tabs[t] EXCEPT !.at = "proved", !.proof = c.token]
           failed == [tabs[t] EXCEPT !.at = "failed"]
<1>0. tabs \in [Tab -> PageRow] /\ c \in CallRow /\ t \in Tab /\ tabs[t] \in PageRow
  BY DEF HumanInv, HumanTypeOK, CallRow
<1>1. c.kind = "verify" /\ calls' = calls \ {c} /\ UNCHANGED <<posed, proofs, judged, uses>>
  BY DEF VerifyAnswered
<1>2. \/ tabs' = [tabs EXCEPT ![t] = proved] /\ c.step = "granted"
      \/ tabs' = [tabs EXCEPT ![t] = failed]
      \/ tabs' = tabs /\ ~(tabs[t].at = "sending" /\ tabs[t].token = c.token)
  BY <1>0 DEF VerifyAnswered
<1>3. /\ proved \in PageRow /\ proved.at = "proved" /\ proved.proof = c.token
      /\ failed \in PageRow /\ failed.at = "failed"
  BY <1>0 DEF PageRow, CallRow, Places
<1>4. c.step = "granted" => c.token \in DOMAIN proofs
  BY <1>1 DEF HumanInv, CallsKnow
<1> HIDE DEF proved, failed
<1>5. CASE tabs' = [tabs EXCEPT ![t] = proved] /\ c.step = "granted"
  <2>1. Tabbed(c.tab, proved)
    BY <1>5 DEF Tabbed
  <2> QED
    BY <1>1, <1>3, <1>4, <1>5, <2>1, CallHeard
<1>6. CASE tabs' = [tabs EXCEPT ![t] = failed]
  <2>1. Tabbed(c.tab, failed)
    BY <1>6 DEF Tabbed
  <2> QED
    BY <1>1, <1>3, <2>1, CallHeard
<1>7. CASE tabs' = tabs /\ ~(tabs[t].at = "sending" /\ tabs[t].token = c.token)
  BY <1>1, <1>7, CallIgnored
<1> QED
  BY <1>2, <1>5, <1>6, <1>7

\* The answer to the login.
LEMMA UseAnsweredKeeps ==
  ASSUME HumanInv, NEW c \in calls, UseAnswered(c)
  PROVE  HumanInv'
<1> DEFINE t == c.tab
           again == c.step = "refused" /\ ~tabs[t].retried /\ UseOf[t] = "login" /\ Len(posed) < MaxChallenges
           at == CASE c.step = "granted" -> "in" [] again -> "asking" [] OTHER -> "form"
           new == [tabs[t] EXCEPT !.at = at, !.retried = again]
<1>0. c \in CallRow /\ t \in Tab /\ tabs[t] \in PageRow
  BY DEF HumanInv, HumanTypeOK, CallRow
<1>1. calls' = calls \ {c} /\ UNCHANGED <<posed, proofs, judged, uses>> /\ Tabbed(c.tab, new)
  BY DEF UseAnswered
<1>2. at \in {"in", "asking", "form"}
  OBVIOUS
<1>3. again \in BOOLEAN
  OBVIOUS
<1> HIDE DEF at, again
<1>4. new \in PageRow /\ new.at = at
  BY <1>0, <1>2, <1>3 DEF PageRow, Places
<1> HIDE DEF new
<1> QED
  BY <1>1, <1>2, <1>4, CallHeard

\* A request is lost.
LEMMA CallLostKeeps ==
  ASSUME HumanInv, NEW c \in calls, CallLost(c)
  PROVE  HumanInv'
<1> DEFINE t == c.tab
           form == [tabs[t] EXCEPT !.at = "form"]
           failed == [tabs[t] EXCEPT !.at = "failed"]
<1>0. c \in CallRow /\ t \in Tab /\ tabs[t] \in PageRow /\ tabs \in [Tab -> PageRow]
  BY DEF HumanInv, HumanTypeOK, CallRow
<1>1. calls' = calls \ {c} /\ UNCHANGED <<posed, proofs, judged, uses>>
  BY DEF CallLost, Slip
<1>2. /\ form \in PageRow /\ form.at = "form"
      /\ failed \in PageRow /\ failed.at = "failed"
  BY <1>0 DEF PageRow, Places
<1>3. \/ c.copy = 2 /\ tabs' = tabs
      \/ tabs' = [tabs EXCEPT ![t] = form]
      \/ tabs' = [tabs EXCEPT ![t] = failed]
      \/ c.kind # "use" /\ ~(tabs[t].at = "sending" /\ tabs[t].token = c.token) /\ tabs' = tabs
  BY <1>0 DEF CallLost
<1> HIDE DEF form, failed
<1>4. CASE c.copy = 2 /\ tabs' = tabs
  BY <1>1, <1>4, CallIgnored
<1>5. CASE tabs' = [tabs EXCEPT ![t] = form]
  <2>1. Tabbed(c.tab, form)
    BY <1>5 DEF Tabbed
  <2> QED
    BY <1>1, <1>2, <2>1, CallHeard
<1>6. CASE tabs' = [tabs EXCEPT ![t] = failed]
  <2>1. Tabbed(c.tab, failed)
    BY <1>6 DEF Tabbed
  <2> QED
    BY <1>1, <1>2, <2>1, CallHeard
<1>7. CASE c.kind # "use" /\ ~(tabs[t].at = "sending" /\ tabs[t].token = c.token) /\ tabs' = tabs
  <2>1. c.kind = "verify"
    BY <1>0, <1>7 DEF CallRow
  <2> QED
    BY <1>1, <1>7, <2>1, CallIgnored
<1> QED
  BY <1>3, <1>4, <1>5, <1>6, <1>7

\* A request is delivered a second time.
LEMMA AgainKeeps ==
  ASSUME HumanInv, NEW c \in calls, Again(c)
  PROVE  HumanInv'
<1> DEFINE next == [c EXCEPT !.copy = 2, !.step = "sent"]
<1>0. c \in CallRow
  BY DEF HumanInv, HumanTypeOK
<1>1. calls' = calls \cup {next} /\ UNCHANGED <<tabs, posed, proofs, judged, uses>>
  BY DEF Again, Slip
<1>2. next \in CallRow /\ next.kind = c.kind /\ next.token = c.token /\ next.step = "sent"
  BY <1>0 DEF CallRow
<1> HIDE DEF next
<1>3. HumanTypeOK' /\ PagesKnow' /\ CallsKnow'
  BY <1>1, <1>2 DEF HumanInv, HumanTypeOK, PagesKnow, CallsKnow
<1>4. JudgedIsGone' /\ ProofsFit' /\ UsesFit'
  BY <1>1 DEF HumanInv, JudgedIsGone, ProofsFit, UsesFit
<1>5. NoPageWaitsForNothing'
  BY <1>1 DEF HumanInv, NoPageWaitsForNothing
<1> QED
  BY <1>3, <1>4, <1>5 DEF HumanInv

\* Every step of the page alone.
LEMMA PageStepKeeps ==
  ASSUME HumanInv, NEW t \in Tab,
         \/ IssueCounts(t) \/ IssueFails(t) \/ Close(t)
         \/ \E e \in Email, mode \in {"switch", "radio"} : Submit(t, e, mode)
         \/ \E mode \in {"switch", "radio"} : Restart(t, mode)
         \/ \E n \in Net : ChangeNet(t, n)
  PROVE  HumanInv'
<1>0. tabs[t] \in PageRow
  BY DEF HumanInv, HumanTypeOK
<1>1. CASE IssueCounts(t)
  <2> DEFINE new == [tabs[t] EXCEPT !.at = "issuing"]
  <2>1. new \in PageRow /\ new.at = "issuing"
    BY <1>0 DEF PageRow, Places
  <2>2. Tabbed(t, new) /\ UNCHANGED <<posed, proofs, calls, judged, uses>>
    BY <1>1 DEF IssueCounts
  <2> HIDE DEF new
  <2> QED
    BY <2>1, <2>2, PageMoves
<1>2. CASE IssueFails(t)
  <2> DEFINE new == [tabs[t] EXCEPT !.at = "failed"]
  <2>1. new \in PageRow /\ new.at = "failed"
    BY <1>0 DEF PageRow, Places
  <2>2. Tabbed(t, new) /\ UNCHANGED <<posed, proofs, calls, judged, uses>>
    BY <1>2 DEF IssueFails, Slip
  <2> HIDE DEF new
  <2> QED
    BY <2>1, <2>2, PageMoves
<1>3. CASE Close(t)
  <2> DEFINE new == [tabs[t] EXCEPT !.at = "form"]
  <2>1. new \in PageRow /\ new.at = "form"
    BY <1>0 DEF PageRow, Places
  <2>2. Tabbed(t, new) /\ UNCHANGED <<posed, proofs, calls, judged, uses>>
    BY <1>3 DEF Close
  <2> HIDE DEF new
  <2> QED
    BY <2>1, <2>2, PageMoves
<1>4. ASSUME NEW e \in Email, NEW mode \in {"switch", "radio"}, Submit(t, e, mode)
      PROVE  HumanInv'
  <2> DEFINE new == [tabs[t] EXCEPT !.at = "asking", !.subject = e, !.mode = mode, !.retried = FALSE]
  <2>1. new \in PageRow /\ new.at = "asking"
    BY <1>0 DEF PageRow, Places
  <2>2. Tabbed(t, new) /\ UNCHANGED <<posed, proofs, calls, judged, uses>>
    BY <1>4 DEF Submit
  <2> HIDE DEF new
  <2> QED
    BY <2>1, <2>2, PageMoves
<1>5. ASSUME NEW mode \in {"switch", "radio"}, Restart(t, mode)
      PROVE  HumanInv'
  <2> DEFINE new == [tabs[t] EXCEPT !.at = "asking", !.mode = mode]
  <2>1. new \in PageRow /\ new.at = "asking"
    BY <1>0 DEF PageRow, Places
  <2>2. Tabbed(t, new) /\ UNCHANGED <<posed, proofs, calls, judged, uses>>
    BY <1>5 DEF Restart
  <2> HIDE DEF new
  <2> QED
    BY <2>1, <2>2, PageMoves
<1>6. ASSUME NEW n \in Net, ChangeNet(t, n)
      PROVE  HumanInv'
  <2> DEFINE new == [tabs[t] EXCEPT !.net = n]
  <2>1. /\ new \in PageRow /\ new.at = tabs[t].at
        /\ new.token = tabs[t].token /\ new.proof = tabs[t].proof
    BY <1>0 DEF PageRow, Places
  <2>2. Tabbed(t, new) /\ UNCHANGED <<posed, proofs, calls, judged, uses>>
    BY <1>6 DEF ChangeNet, Slip
  <2> HIDE DEF new
  <2> QED
    BY <2>1, <2>2, PageMoves
<1> QED
  BY <1>1, <1>2, <1>3, <1>4, <1>5, <1>6

\* Every request a page sends.
LEMMA PageRequestKeeps ==
  ASSUME HumanInv, NEW t \in Tab,
         \/ Charged(t) \/ UseProof(t)
         \/ \E right \in BOOLEAN : Press(t, right)
  PROVE  HumanInv'
<1>0. tabs[t] \in PageRow /\ tabs[t].token \in Nat /\ tabs[t].proof \in Nat /\ PagesKnow
  BY DEF HumanInv, HumanTypeOK, PageRow
<1>1. CASE Charged(t)
  <2>1. /\ Sent(t, Call(t, "verify", tabs[t].token, TRUE, FALSE), "sending")
        /\ tabs[t].token \in 1 .. Len(posed)
    BY <1>0, <1>1 DEF Charged, PagesKnow
  <2> QED
    BY <1>0, <2>1, PageSends
<1>2. CASE UseProof(t)
  <2>1. /\ Sent(t, Call(t, "use", tabs[t].proof, TRUE, TRUE), "using")
        /\ tabs[t].proof \in DOMAIN proofs
    BY <1>0, <1>2 DEF UseProof, PagesKnow
  <2> QED
    BY <1>0, <2>1, PageSends
<1>3. ASSUME NEW right \in BOOLEAN, Press(t, right)
      PROVE  HumanInv'
  <2>1. /\ Sent(t, Call(t, "verify", tabs[t].token, TRUE, right), "sending")
        /\ tabs[t].token \in 1 .. Len(posed)
    BY <1>0, <1>3 DEF Press, PagesKnow
  <2> QED
    BY <1>0, <2>1, PageSends
<1> QED
  BY <1>1, <1>2, <1>3

LEMMA HumanInvStep == HumanInv /\ [HumanNext]_humanVars => HumanInv'
<1> SUFFICES ASSUME HumanInv, [HumanNext]_humanVars PROVE HumanInv'
  OBVIOUS
<1>1. CASE UNCHANGED humanVars
  <2>1. UNCHANGED <<tabs, posed, proofs, calls, judged, uses>>
    BY <1>1 DEF humanVars
  <2>2. HumanTypeOK' /\ PagesKnow' /\ CallsKnow' /\ JudgedIsGone' /\ ProofsFit' /\ UsesFit'
        /\ NoPageWaitsForNothing'
    BY <2>1 DEF HumanInv, HumanTypeOK, PagesKnow, CallsKnow, JudgedIsGone, ProofsFit, UsesFit,
                NoPageWaitsForNothing
  <2> QED
    BY <2>2 DEF HumanInv
<1>2. CASE HumanNext
  <2>1. CASE \E t \in Tab :
               \/ IssueCounts(t) \/ IssueStores(t) \/ IssueFails(t) \/ Charged(t) \/ Close(t) \/ UseProof(t)
               \/ \E e \in Email, mode \in {"switch", "radio"} : Submit(t, e, mode)
               \/ \E mode \in {"switch", "radio"} : Restart(t, mode)
               \/ \E right \in BOOLEAN : Press(t, right)
               \/ \E n \in Net : ChangeNet(t, n)
    BY <2>1, PageStepKeeps, PageRequestKeeps, IssueStoresKeeps
  <2>2. CASE \E c \in calls :
               \/ CallReads(c) \/ VerifyAnswered(c) \/ UseAnswered(c) \/ Again(c) \/ CallLost(c)
               \/ \E hasty \in BOOLEAN : VerifyTakes(c, hasty)
               \/ \E password \in BOOLEAN : UseTakes(c, password)
    BY <2>2, CallReadsKeeps, VerifyTakesKeeps, VerifyAnsweredKeeps, UseAnsweredKeeps, AgainKeeps,
       CallLostKeeps, UseTakesKeeps
  <2>3. CASE \E k \in 1 .. Len(posed) : ChallengeExpires(k)
    BY <2>3, ChallengeExpiresKeeps
  <2>4. CASE \E k \in DOMAIN proofs : ProofExpires(k)
    BY <2>4, ProofExpiresKeeps
  <2> QED
    BY <1>2, <2>1, <2>2, <2>3, <2>4 DEF HumanNext
<1> QED
  BY <1>1, <1>2

\* What the invariant says of the proofs.
LEMMA HumanInvEarned == HumanInv => EachProofIsEarned
<1> SUFFICES ASSUME HumanInv PROVE EachProofIsEarned
  OBVIOUS
<1>1. \A k \in CheckId : judged[k] <= 1
  BY DEF HumanInv, HumanTypeOK
<1>2. \A k \in DOMAIN proofs : posed[k].round # "none" => proofs[k].right
  BY DEF HumanInv, ProofsFit
<1>3. \A u \in uses : /\ posed[u.token].subject = u.subject /\ posed[u.token].net = u.net
                      /\ posed[u.token].use = u.use
                      /\ \A v \in uses : v.token = u.token => v = u
  BY DEF HumanInv, UsesFit
<1> QED
  BY <1>1, <1>2, <1>3 DEF EachProofIsEarned

-----------------------------------------------------------------------------
(* The rounds.                                                               *)

\* A runner with four keys is in range at a time exactly when one of three lines is.
LEMMA FourKeys ==
  ASSUME NEW a, NEW b, NEW c, NEW e, NEW at
  PROVE  InRange(<<a, b, c, e>>, at) <=>
           \/ /\ a[1] <= at /\ at <= b[1]
              /\ a[2] * (b[1] - at) + b[2] * (at - a[1]) <= SwitchRange * (b[1] - a[1])
           \/ /\ b[1] <= at /\ at <= c[1]
              /\ b[2] * (c[1] - at) + c[2] * (at - b[1]) <= SwitchRange * (c[1] - b[1])
           \/ /\ c[1] <= at /\ at <= e[1]
              /\ c[2] * (e[1] - at) + e[2] * (at - c[1]) <= SwitchRange * (e[1] - c[1])
<1> DEFINE keys == <<a, b, c, e>>
           near(k) == /\ keys[k - 1][1] <= at /\ at <= keys[k][1]
                      /\ keys[k - 1][2] * (keys[k][1] - at) + keys[k][2] * (at - keys[k - 1][1])
                           <= SwitchRange * (keys[k][1] - keys[k - 1][1])
<1>1. Len(keys) = 4 /\ keys[1] = a /\ keys[2] = b /\ keys[3] = c /\ keys[4] = e
  OBVIOUS
<1>2. 2 .. 4 = {2, 3, 4}
  OBVIOUS
<1>3. InRange(keys, at) <=> near(2) \/ near(3) \/ near(4)
  <2> HIDE DEF keys
  <2>1. InRange(keys, at) <=> \E k \in 2 .. Len(keys) : near(k)
    BY DEF InRange
  <2> HIDE DEF near
  <2> QED
    BY <2>1, <1>1, <1>2
<1>4. keys[2 - 1] = a /\ keys[3 - 1] = b /\ keys[4 - 1] = c
  OBVIOUS
<1>5. near(2) <=> /\ a[1] <= at /\ at <= b[1]
                  /\ a[2] * (b[1] - at) + b[2] * (at - a[1]) <= SwitchRange * (b[1] - a[1])
  <2> HIDE DEF keys
  <2> QED
    BY <1>1, <1>4, Zenon
<1>6. near(3) <=> /\ b[1] <= at /\ at <= c[1]
                  /\ b[2] * (c[1] - at) + c[2] * (at - b[1]) <= SwitchRange * (c[1] - b[1])
  <2> HIDE DEF keys
  <2> QED
    BY <1>1, <1>4, Zenon
<1>7. near(4) <=> /\ c[1] <= at /\ at <= e[1]
                  /\ c[2] * (e[1] - at) + e[2] * (at - c[1]) <= SwitchRange * (e[1] - c[1])
  <2> HIDE DEF keys
  <2> QED
    BY <1>1, <1>4, Zenon
<1> HIDE DEF keys, near
<1>8. near(2) \/ near(3) \/ near(4) <=>
        \/ /\ a[1] <= at /\ at <= b[1]
           /\ a[2] * (b[1] - at) + b[2] * (at - a[1]) <= SwitchRange * (b[1] - a[1])
        \/ /\ b[1] <= at /\ at <= c[1]
           /\ b[2] * (c[1] - at) + c[2] * (at - b[1]) <= SwitchRange * (c[1] - b[1])
        \/ /\ c[1] <= at /\ at <= e[1]
           /\ c[2] * (e[1] - at) + e[2] * (at - c[1]) <= SwitchRange * (e[1] - c[1])
  BY <1>5, <1>6, <1>7, Zenon
<1>9. InRange(<<a, b, c, e>>, at) <=> InRange(keys, at)
  BY DEF keys
<1> QED
  BY <1>3, <1>8, <1>9, Zenon

\* The numbers a switch round is drawn from.
LEMMA DrawsAre ==
  ASSUME NEW d \in SwitchDraws
  PROVE  /\ d.runners \in {4, 5} /\ d.openAt \in Int /\ d.window \in Int /\ d.enter \in Int
         /\ d.inAt \in Int /\ d.out \in Int
         /\ 1900 <= d.openAt /\ 1000 <= d.window /\ 300 <= d.enter /\ d.enter <= 700
         /\ 400 <= d.inAt /\ d.inAt <= 800 /\ 350 <= d.out /\ d.out <= 550
         /\ d.far \in {34, 40} /\ d.idle \in {32, 42}
  BY DEF SwitchDraws

\* The runner to press is in range as long as an answer is taken.
LEMMA TargetInRange ==
  ASSUME NEW d \in SwitchDraws, NEW at \in Int, Sends(d, at)
  PROVE  InRange(KeysOf(d, 1), at)
<1> DEFINE a == <<0, 40>>
           b == <<d.openAt - d.enter, 15>>
           c == <<CaughtAt(d) + 300, 17>>
           e == <<EndAt(d), 30>>
<1>1. KeysOf(d, 1) = <<a, b, c, e>>
  BY DEF KeysOf
<1>2. b[1] = d.openAt - d.enter /\ b[2] = 15 /\ c[1] = d.openAt + d.window + 300 /\ c[2] = 17
  BY DEF CaughtAt
<1>3. /\ b[1] <= at /\ at <= c[1]
      /\ b[2] * (c[1] - at) + c[2] * (at - b[1]) <= SwitchRange * (c[1] - b[1])
  <2>1. d.openAt - 150 <= at /\ at <= d.openAt + d.window + 150
    BY DrawsAre DEF Sends, CaughtAt, Grace
  <2> HIDE DEF b, c
  <2>2. 15 * ((d.openAt + d.window + 300) - at) + 17 * (at - (d.openAt - d.enter))
          <= 22 * ((d.openAt + d.window + 300) - (d.openAt - d.enter))
    BY <2>1, DrawsAre
  <2> QED
    BY <1>2, <2>1, <2>2, DrawsAre DEF SwitchRange
<1> HIDE DEF a, b, c, e
<1> QED
  BY <1>1, <1>3, FourKeys

\* A bait has left by then.
LEMMA BaitOutOfRange ==
  ASSUME NEW d \in SwitchDraws, NEW i \in 1 .. d.runners, i = 2 \/ (i = 3 /\ d.runners = 5),
         NEW at \in Int, Sends(d, at)
  PROVE  ~InRange(KeysOf(d, i), at)
<1> DEFINE a == <<0, 38>>
           b == <<d.inAt, 14>>
           c == <<d.openAt - d.out, 34>>
           e == <<EndAt(d), d.far>>
<1>1. KeysOf(d, i) = <<a, b, c, e>>
  BY DEF KeysOf
<1>2. /\ b[1] = d.inAt /\ c[1] = d.openAt - d.out /\ c[2] = 34
      /\ e[1] = d.openAt + d.window + 500 /\ e[2] = d.far
  BY DEF CaughtAt, EndAt
<1>3. d.openAt - 150 <= at /\ at <= d.openAt + d.window + 150
  BY DrawsAre DEF Sends, CaughtAt, Grace
<1> HIDE DEF a, b, c, e
<1>4. ~(at <= b[1]) /\ ~(at <= c[1])
  BY <1>2, <1>3, DrawsAre
<1>5. ~(c[2] * (e[1] - at) + e[2] * (at - c[1]) <= SwitchRange * (e[1] - c[1]))
  <2>1. CASE d.far = 34
    BY <1>2, <1>3, <2>1, DrawsAre DEF SwitchRange
  <2>2. CASE d.far = 40
    BY <1>2, <1>3, <2>2, DrawsAre DEF SwitchRange
  <2> QED
    BY <2>1, <2>2, DrawsAre
<1> QED
  BY <1>1, <1>4, <1>5, FourKeys

\* A runner with three keys is in range at a time exactly when one of two lines is.
LEMMA ThreeKeys ==
  ASSUME NEW a, NEW b, NEW c, NEW at
  PROVE  InRange(<<a, b, c>>, at) <=>
           \/ /\ a[1] <= at /\ at <= b[1]
              /\ a[2] * (b[1] - at) + b[2] * (at - a[1]) <= SwitchRange * (b[1] - a[1])
           \/ /\ b[1] <= at /\ at <= c[1]
              /\ b[2] * (c[1] - at) + c[2] * (at - b[1]) <= SwitchRange * (c[1] - b[1])
<1> DEFINE keys == <<a, b, c>>
           near(k) == /\ keys[k - 1][1] <= at /\ at <= keys[k][1]
                      /\ keys[k - 1][2] * (keys[k][1] - at) + keys[k][2] * (at - keys[k - 1][1])
                           <= SwitchRange * (keys[k][1] - keys[k - 1][1])
<1>1. Len(keys) = 3 /\ keys[1] = a /\ keys[2] = b /\ keys[3] = c
  OBVIOUS
<1>2. 2 .. 3 = {2, 3}
  OBVIOUS
<1>3. InRange(keys, at) <=> near(2) \/ near(3)
  <2> HIDE DEF keys
  <2>1. InRange(keys, at) <=> \E k \in 2 .. Len(keys) : near(k)
    BY DEF InRange
  <2> HIDE DEF near
  <2> QED
    BY <2>1, <1>1, <1>2
<1>4. keys[2 - 1] = a /\ keys[3 - 1] = b
  OBVIOUS
<1>5. near(2) <=> /\ a[1] <= at /\ at <= b[1]
                  /\ a[2] * (b[1] - at) + b[2] * (at - a[1]) <= SwitchRange * (b[1] - a[1])
  <2> HIDE DEF keys
  <2> QED
    BY <1>1, <1>4, Zenon
<1>6. near(3) <=> /\ b[1] <= at /\ at <= c[1]
                  /\ b[2] * (c[1] - at) + c[2] * (at - b[1]) <= SwitchRange * (c[1] - b[1])
  <2> HIDE DEF keys
  <2> QED
    BY <1>1, <1>4, Zenon
<1> HIDE DEF keys, near
<1>7. near(2) \/ near(3) <=>
        \/ /\ a[1] <= at /\ at <= b[1]
           /\ a[2] * (b[1] - at) + b[2] * (at - a[1]) <= SwitchRange * (b[1] - a[1])
        \/ /\ b[1] <= at /\ at <= c[1]
           /\ b[2] * (c[1] - at) + c[2] * (at - b[1]) <= SwitchRange * (c[1] - b[1])
  BY <1>5, <1>6, Zenon
<1>8. InRange(<<a, b, c>>, at) <=> InRange(keys, at)
  BY DEF keys
<1> QED
  BY <1>3, <1>7, <1>8, Zenon

\* The others keep away all the time.
LEMMA OthersOutOfRange ==
  ASSUME NEW d \in SwitchDraws, NEW i \in 1 .. d.runners, i # 1, ~(i = 2 \/ (i = 3 /\ d.runners = 5)),
         NEW at \in Int
  PROVE  ~InRange(KeysOf(d, i), at)
<1> DEFINE a == <<0, 34>>
           b == <<EndAt(d) \div 2, d.idle>>
           c == <<EndAt(d), 42>>
<1>1. KeysOf(d, i) = <<a, b, c>>
  BY DEF KeysOf
<1>2. PICK last \in Int : last = EndAt(d) /\ last >= 3400
  BY DrawsAre DEF CaughtAt, EndAt
<1>3. PICK mid \in Int : mid = last \div 2 /\ 1700 <= mid /\ mid < last
  BY <1>2
<1>4. a[1] = 0 /\ a[2] = 34 /\ b[1] = mid /\ b[2] = d.idle /\ c[1] = last /\ c[2] = 42
  BY <1>2, <1>3
<1> HIDE DEF a, b, c
<1>5. ~ /\ a[1] <= at /\ at <= b[1]
        /\ a[2] * (b[1] - at) + b[2] * (at - a[1]) <= SwitchRange * (b[1] - a[1])
  <2>1. CASE d.idle = 32
    BY <1>3, <1>4, <2>1 DEF SwitchRange
  <2>2. CASE d.idle = 42
    BY <1>3, <1>4, <2>2 DEF SwitchRange
  <2> QED
    BY <2>1, <2>2, DrawsAre
<1>6. ~ /\ b[1] <= at /\ at <= c[1]
        /\ b[2] * (c[1] - at) + c[2] * (at - b[1]) <= SwitchRange * (c[1] - b[1])
  <2>1. CASE d.idle = 32
    BY <1>3, <1>4, <2>1 DEF SwitchRange
  <2>2. CASE d.idle = 42
    BY <1>3, <1>4, <2>2 DEF SwitchRange
  <2> QED
    BY <2>1, <2>2, DrawsAre
<1> QED
  BY <1>1, <1>5, <1>6, ThreeKeys

\* While an answer is taken the server says yes to the first runner and to no other.
LEMMA FirstIsRight ==
  ASSUME NEW d \in SwitchDraws, NEW i \in 1 .. d.runners, NEW at \in Int, Sends(d, at)
  PROVE  Verdict(d, i, at) = "ok" <=> i = 1
<1>1. ~(at < d.openAt - Grace) /\ ~(at > CaughtAt(d) + Grace)
  BY DrawsAre DEF Sends, CaughtAt, Grace
<1>2. CASE i = 1
  BY <1>1, <1>2 DEF Verdict
<1>3. CASE i # 1
  BY <1>1, <1>3 DEF Verdict
<1> QED
  BY <1>2, <1>3

\* The relay: who is within range at its first turn and at its last.
LEMMA RelayEnds ==
  ASSUME NEW r \in RadioDraws
  PROVE  InRadioRange(r, 1) = {"bait"} /\ InRadioRange(r, 3) = {"target"}
<1>1. /\ r.t1 \in Int /\ r.t2 \in Int /\ r.t3 \in Int /\ r.b1 \in Int /\ r.b2 \in Int
      /\ r.w1 \in Int /\ r.w2 \in Int /\ r.i \in Int
      /\ r.t1 >= 4 /\ r.t3 <= 2 /\ r.b1 <= 2 /\ r.b2 >= 4 /\ r.w1 >= 5 /\ r.w2 >= 4 /\ r.i >= 4
  BY DEF RadioDraws
<1>2. RadioTurn(r, 1) = [target |-> r.t1, bait |-> r.b1, walker |-> r.w1, idle |-> r.i]
  BY DEF RadioTurn
<1>3. RadioTurn(r, 3) = [target |-> r.t3, bait |-> r.b2, walker |-> r.w2, idle |-> r.i]
  BY DEF RadioTurn
<1>4. InRadioRange(r, 1) = {"bait"}
  BY <1>1, <1>2 DEF InRadioRange
<1>5. InRadioRange(r, 3) = {"target"}
  BY <1>1, <1>3 DEF InRadioRange
<1> QED
  BY <1>4, <1>5

\* The radio always costs more.
LEMMA RadioCostsMore ==
  ASSUME NEW f \in 0 .. 5, NEW i \in 0 .. 15
  PROVE  BitsFor(f, i, "radio") > BitsFor(f, i, "switch")
<1>1. PICK over \in Int : over = (i - IssuesBeforeRound) \div 2
  BY HumanCheckAssumption
<1>2. PICK bits \in Int : bits = Min2(19, 16 + f + IF over > 0 THEN over ELSE 0) /\ bits <= 19
  BY DEF Min2
<1>3. BitsFor(f, i, "radio") = Min2(20, bits + 2) /\ BitsFor(f, i, "switch") = bits
  BY <1>1, <1>2 DEF BitsFor
<1> QED
  BY <1>2, <1>3 DEF Min2

\* The rounds are fair, whatever they are drawn from.
LEMMA RoundsStayFair == RoundsAreFair
<1>1. ASSUME NEW d \in SwitchDraws, NEW at \in Moments(d), Sends(d, at)
      PROVE  /\ \A i \in 1 .. d.runners : InRange(KeysOf(d, i), at) <=> Verdict(d, i, at) = "ok"
             /\ Verdict(d, 1, at) = "ok"
  <2>1. at \in Int
    BY DrawsAre DEF Moments, CaughtAt, Grace
  <2>2. 1 \in 1 .. d.runners
    BY DrawsAre
  <2>3. ASSUME NEW i \in 1 .. d.runners
        PROVE  InRange(KeysOf(d, i), at) <=> i = 1
    BY <1>1, <2>1, <2>3, TargetInRange, BaitOutOfRange, OthersOutOfRange
  <2>4. \A i \in 1 .. d.runners : Verdict(d, i, at) = "ok" <=> i = 1
    BY <1>1, <2>1, FirstIsRight
  <2> QED
    BY <2>2, <2>3, <2>4
<1> QED
  BY <1>1, RelayEnds, RadioCostsMore DEF RoundsAreFair

\* A challenge is judged once and a proof taken once, for what it was given; a page
\* that waits has its request on the way; and the rounds are fair: for any number of
\* pages, people, addresses and challenges, and any limits
\* (human-challenge.service.ts, humanCheck/round.ts, LoginPage.tsx).
THEOREM ChecksHoldAlways == HumanSpec => []ChecksHold
<1>1. HumanInit => HumanInv
  BY HumanInvInit
<1>2. HumanInv /\ [HumanNext]_humanVars => HumanInv'
  BY HumanInvStep
<1>3. HumanInv => ChecksHold
  <2>1. HumanInv => NoPageWaitsForNothing
    BY DEF HumanInv
  <2> QED
    BY <2>1, HumanInvEarned, RoundsStayFair DEF ChecksHold
<1> QED
  BY <1>1, <1>2, <1>3, PTL DEF HumanSpec

-----------------------------------------------------------------------------
(* The session with a game server.                                           *)

\* What is known of a socket.
SocketRow == [at : {"free", "connecting", "open", "closing"}, room : Place \cup {NoPlace},
              by : {"page", "resume"}, authed : BOOLEAN, settled : BOOLEAN,
              retryable : BOOLEAN, fresh : BOOLEAN]

SessionTypeOK ==
  /\ conn \in {"idle", "connecting", "connected", "reconnecting", "disconnected"}
  /\ roomOf \in Place \cup {NoPlace} /\ timer \in Place \cup {NoPlace}
  /\ socket \in Slot \cup {0} /\ socks \in [Slot -> SocketRow]
  /\ resumes \in [Place -> Nat]

\* No request for a seat is on its way, and the session's socket is one whose end may
\* still begin another attempt.
NoResume == \A r \in Place : resumes[r] = 0
Hopeful == socket # 0 /\ (socks[socket].authed \/ ~socks[socket].settled)

\* The session's socket is of this generation and of a room, a live one has been refused
\* by nobody, and the first of a page is not what a reconnection waits for.
OwnSocketFits ==
  socket # 0 =>
    /\ socks[socket].fresh /\ socks[socket].room \in Place /\ roomOf \in Place
    /\ socks[socket].at \in {"connecting", "open"} => Hopeful
    /\ socks[socket].authed => socks[socket].settled
    /\ ~socks[socket].settled /\ socks[socket].by = "page" => conn # "reconnecting"

\* Of a timer, a request and a hopeful socket there is one at most, and a room it is for.
OneAttempt ==
  /\ Hopeful => timer = NoPlace /\ NoResume
  /\ timer # NoPlace => NoResume
  /\ \A r \in Place : resumes[r] <= 1
  /\ \A q, r \in Place : resumes[q] # 0 /\ resumes[r] # 0 => q = r
  /\ conn = "reconnecting" \/ timer # NoPlace \/ ~NoResume => roomOf \in Place

\* And one there is while the session reconnects, unless the page went meanwhile.
SomeAttempt ==
  conn = "reconnecting" =>
    /\ timer # NoPlace \/ ~NoResume \/ (socket # 0 /\ ~socks[socket].settled) \/ stuck
    /\ unloading => stuck

SessionCore ==
  OwnSocketFits /\ OneAttempt /\ SomeAttempt /\ ConnectedMeansConnected /\ OneLiveSocket

\* The inductive invariant of the session.
SessionInv == SessionTypeOK /\ LeaveSparesTheLobby /\ (~crossed => SessionCore)

\* The first free socket is a free socket.
LEMMA NextSlotIsFree == SomeSlot => NextSlot \in Slot /\ socks[NextSlot].at = "free"
<1> SUFFICES ASSUME SomeSlot PROVE NextSlot \in Slot /\ socks[NextSlot].at = "free"
  OBVIOUS
<1> DEFINE F == {s \in Slot : socks[s].at = "free"}
<1>1. F \subseteq Nat /\ F # {}
  BY ClientSessionAssumption DEF SomeSlot
<1>2. PICK s \in F : \A t \in F : ~ (<<t, s>> \in OpToRel(<, Nat))
  BY <1>1, WFMin, NatLessThanWellFounded, Zenon
<1>3. \A t \in F : s <= t
  <2>1. \A t \in F : t < s => <<t, s>> \in OpToRel(<, Nat)
    BY <1>1 DEF OpToRel
  <2>2. \A t \in F : ~(t < s)
    BY <1>2, <2>1, Zenon
  <2> QED
    BY <1>1, <2>2
<1>4. /\ s \in Slot /\ socks[s].at = "free"
      /\ \A t \in Slot : socks[t].at = "free" => s <= t
  BY <1>3
<1> QED
  BY <1>4 DEF NextSlot

\* Closing the session's socket leaves no live one.
LEMMA ClosedRows ==
  ASSUME SessionTypeOK
  PROVE  /\ WithSocketClosed \in [Slot -> SocketRow]
         /\ \A s \in Slot \ {socket} : WithSocketClosed[s] = socks[s]
         /\ OneLiveSocket => \A s \in Slot : WithSocketClosed[s].at \notin {"connecting", "open"}
<1> USE DEF SessionTypeOK
<1>1. CASE socket # 0 /\ socks[socket].at \in {"connecting", "open"}
  <2>1. socket \in Slot
    BY <1>1
  <2>2. [socks[socket] EXCEPT !.at = "closing"] \in SocketRow
    BY <2>1 DEF SocketRow
  <2>3. WithSocketClosed = [socks EXCEPT ![socket] = [socks[socket] EXCEPT !.at = "closing"]]
    BY <1>1, <2>1 DEF WithSocketClosed
  <2>4. WithSocketClosed[socket].at = "closing"
    BY <2>1, <2>3 DEF SocketRow
  <2>5. WithSocketClosed \in [Slot -> SocketRow] /\ \A s \in Slot \ {socket} : WithSocketClosed[s] = socks[s]
    BY <2>1, <2>2, <2>3
  <2> QED
    BY <2>4, <2>5 DEF OneLiveSocket
<1>2. CASE ~(socket # 0 /\ socks[socket].at \in {"connecting", "open"})
  <2>1. WithSocketClosed = socks
    BY <1>2 DEF WithSocketClosed
  <2> QED
    BY <1>2, <2>1, ClientSessionAssumption DEF OneLiveSocket
<1> QED
  BY <1>1, <1>2

\* A socket as it is opened.
LEMMA NewSocketIs ==
  ASSUME NEW r \in Place, NEW by \in {"page", "resume"}
  PROVE  /\ NewSocket(r, by) \in SocketRow
         /\ NewSocket(r, by).at = "connecting" /\ NewSocket(r, by).room = r /\ NewSocket(r, by).by = by
         /\ ~NewSocket(r, by).authed /\ ~NewSocket(r, by).settled /\ NewSocket(r, by).fresh
  BY DEF NewSocket, Free, SocketRow

\* A socket of an earlier generation.
LEMMA StaleIs ==
  ASSUME NEW row \in SocketRow
  PROVE  [row EXCEPT !.fresh = FALSE] \in SocketRow /\ [row EXCEPT !.fresh = FALSE].at = row.at
  BY DEF SocketRow

\* Nothing has been opened.
LEMMA SessionInvInit == SessionInit => SessionInv
<1> SUFFICES ASSUME SessionInit PROVE SessionInv
  OBVIOUS
<1> USE ClientSessionAssumption DEF SessionInit
<1>1. Free \in SocketRow /\ Free.at = "free"
  BY DEF Free, SocketRow
<1>2. SessionTypeOK
  BY <1>1 DEF SessionTypeOK
<1>3. LeaveSparesTheLobby
  BY DEF LeaveSparesTheLobby
<1>4. OwnSocketFits /\ OneAttempt /\ SomeAttempt /\ ConnectedMeansConnected
  BY DEF OwnSocketFits, OneAttempt, SomeAttempt, ConnectedMeansConnected, Hopeful, NoResume
<1>5. OneLiveSocket
  BY <1>1 DEF OneLiveSocket
<1> QED
  BY <1>2, <1>3, <1>4, <1>5 DEF SessionInv, SessionCore

-----------------------------------------------------------------------------
\* disconnect(): idle, with no socket, no timer, no request.
LEMMA DisconnectIs ==
  ASSUME SessionTypeOK, DisconnectSession
  PROVE  /\ SessionTypeOK' /\ conn' = "idle" /\ socket' = 0 /\ timer' = NoPlace /\ roomOf' = NoPlace
         /\ NoResume' /\ crossed' = crossed
         /\ SessionCore => SessionCore'
<1> USE DEF SessionTypeOK, DisconnectSession
<1>1. \A s \in Slot : [WithSocketClosed[s] EXCEPT !.fresh = FALSE] \in SocketRow
  BY ClosedRows, StaleIs
<1>2. SessionTypeOK'
  BY <1>1
<1>3. NoResume'
  BY DEF NoResume
<1>4. ASSUME SessionCore PROVE OneLiveSocket'
  <2>1. \A s \in Slot : WithSocketClosed[s].at \notin {"connecting", "open"}
    BY <1>4, ClosedRows DEF SessionCore
  <2>2. \A s \in Slot : [WithSocketClosed[s] EXCEPT !.fresh = FALSE].at = WithSocketClosed[s].at
    BY ClosedRows, StaleIs
  <2> QED
    BY <2>1, <2>2 DEF OneLiveSocket
<1>5. (OwnSocketFits /\ OneAttempt /\ SomeAttempt /\ ConnectedMeansConnected)'
  BY <1>3 DEF OwnSocketFits, OneAttempt, SomeAttempt, ConnectedMeansConnected, Hopeful, NoResume
<1> QED
  BY <1>2, <1>3, <1>4, <1>5 DEF SessionCore

\* connect() to a room.
LEMMA ConnectIs ==
  ASSUME SessionTypeOK, NEW r \in Place, NEW expired \in BOOLEAN, ConnectTo(r, expired),
         UNCHANGED <<stored, resumes, stuck>>
  PROVE  SessionTypeOK' /\ (~crossed' => (~crossed /\ (SessionCore => SessionCore')))
<1> USE DEF SessionTypeOK, ConnectTo
<1>1. NextSlot \in Slot
  BY NextSlotIsFree
<1> DEFINE new == NewSocket(r, "page")
<1>2. /\ new \in SocketRow /\ new.at = "connecting" /\ new.room = r /\ new.by = "page"
      /\ ~new.authed /\ ~new.settled /\ new.fresh
  BY NewSocketIs
<1>3. /\ WithSocketClosed \in [Slot -> SocketRow]
      /\ OneLiveSocket => \A s \in Slot : WithSocketClosed[s].at \notin {"connecting", "open"}
  BY ClosedRows
<1> HIDE DEF new
<1>4. CASE expired
  <2>1. socks' = WithSocketClosed /\ socket' = 0 /\ conn' = "disconnected"
    BY <1>4
  <2>2. SessionTypeOK'
    BY <1>3, <2>1
  <2>3. ASSUME ~crossed', SessionCore PROVE SessionCore'
    <3>1. NoResume'
      <4>1. ~ \E q \in Place : resumes[q] > 0
        BY <2>3, Zenon
      <4> QED
        BY <4>1 DEF NoResume
    <3>2. OneLiveSocket'
      BY <1>3, <2>1, <2>3 DEF OneLiveSocket, SessionCore
    <3> QED
      BY <2>1, <3>1, <3>2 DEF SessionCore, OwnSocketFits, OneAttempt, SomeAttempt, ConnectedMeansConnected,
                              Hopeful, NoResume
  <2> QED
    BY <2>2, <2>3
<1>5. CASE ~expired
  <2>1. socks' = [WithSocketClosed EXCEPT ![NextSlot] = new] /\ socket' = NextSlot /\ conn' = "connecting"
    BY <1>5 DEF new
  <2>2. socket' \in Slot /\ socket' # 0 /\ socks'[socket'] = new
        /\ \A s \in Slot : s # socket' => socks'[s] = WithSocketClosed[s]
    BY <1>1, <1>3, <2>1, ClientSessionAssumption
  <2>3. SessionTypeOK'
    BY <1>1, <1>2, <1>3, <2>1
  <2>4. ASSUME ~crossed', SessionCore PROVE SessionCore'
    <3>1. NoResume' /\ timer' = NoPlace
      <4>1. ~ \E q \in Place : resumes[q] > 0
        BY <2>4, Zenon
      <4> QED
        BY <4>1 DEF NoResume
    <3>2. OneLiveSocket'
      BY <1>3, <2>2, <2>4 DEF OneLiveSocket, SessionCore
    <3>3. OwnSocketFits'
      BY <1>2, <2>1, <2>2 DEF OwnSocketFits, Hopeful
    <3>4. OneAttempt' /\ SomeAttempt' /\ ConnectedMeansConnected'
      BY <2>1, <3>1 DEF OneAttempt, SomeAttempt, ConnectedMeansConnected, NoResume
    <3> QED
      BY <3>2, <3>3, <3>4 DEF SessionCore
  <2> QED
    BY <2>3, <2>4
<1> QED
  BY <1>4, <1>5

-----------------------------------------------------------------------------
\* What the pages do on their own changes nothing of the session.
LEMMA SameSession ==
  ASSUME SessionTypeOK, UNCHANGED <<conn, roomOf, socket, socks, timer, resumes>>,
         stored' \in {stored, NoPlace}, stuck => stuck',
         unloading' => unloading \/ conn # "reconnecting" \/ stuck'
  PROVE  SessionTypeOK' /\ (SessionCore => SessionCore')
<1>1. SessionTypeOK'
  BY DEF SessionTypeOK
<1>2. ASSUME SessionCore PROVE SessionCore'
  <2>1. OwnSocketFits' /\ OneLiveSocket'
    BY <1>2 DEF SessionCore, OwnSocketFits, OneLiveSocket, Hopeful
  <2>2. OneAttempt' /\ ConnectedMeansConnected'
    BY <1>2 DEF SessionCore, OneAttempt, ConnectedMeansConnected, Hopeful, NoResume
  <2>3. SomeAttempt'
    BY <1>2 DEF SessionCore, SomeAttempt, NoResume
  <2> QED
    BY <2>1, <2>2, <2>3 DEF SessionCore
<1> QED
  BY <1>1, <1>2

\* A socket opens.
LEMMA OpenedKeeps ==
  ASSUME SessionTypeOK, NEW s \in Slot, Opened(s)
  PROVE  SessionTypeOK' /\ (SessionCore => SessionCore')
<1> USE DEF SessionTypeOK, Opened
<1> DEFINE new == [socks[s] EXCEPT !.at = "open"]
<1>1. /\ new \in SocketRow /\ new.at = "open"
      /\ new.room = socks[s].room /\ new.by = socks[s].by /\ new.fresh = socks[s].fresh
      /\ new.authed <=> socks[s].authed
      /\ new.settled <=> socks[s].settled
  BY DEF SocketRow
<1>2. socks' = [socks EXCEPT ![s] = new]
  OBVIOUS
<1> HIDE DEF new
<1>3. socks'[s] = new /\ \A q \in Slot : q # s => socks'[q] = socks[q]
  BY <1>2
<1>4. SessionTypeOK'
  BY <1>1, <1>2
<1>5. ASSUME SessionCore PROVE SessionCore'
  <2>1. s = socket /\ socket # 0
    BY <1>5, ClientSessionAssumption DEF SessionCore, OneLiveSocket
  <2>2. Hopeful' <=> Hopeful
    BY <1>1, <1>3, <2>1 DEF Hopeful
  <2>3. OwnSocketFits'
    BY <1>1, <1>3, <1>5, <2>1, <2>2 DEF SessionCore, OwnSocketFits
  <2>4. OneLiveSocket'
    BY <1>3, <1>5, <2>1 DEF SessionCore, OneLiveSocket
  <2>5. OneAttempt'
    BY <1>5, <2>2 DEF SessionCore, OneAttempt, NoResume
  <2>6. SomeAttempt' /\ ConnectedMeansConnected'
    BY <1>1, <1>3, <1>5, <2>1 DEF SessionCore, SomeAttempt, ConnectedMeansConnected, NoResume
  <2> QED
    BY <2>3, <2>4, <2>5, <2>6 DEF SessionCore
<1> QED
  BY <1>4, <1>5

\* A socket is accepted.
LEMMA AuthOkKeeps ==
  ASSUME SessionTypeOK, NEW s \in Slot, AuthOk(s)
  PROVE  SessionTypeOK' /\ (SessionCore => SessionCore')
<1> USE DEF SessionTypeOK, AuthOk
<1> DEFINE new == [socks[s] EXCEPT !.authed = TRUE, !.settled = TRUE]
<1>1. /\ new \in SocketRow /\ new.at = socks[s].at /\ new.authed /\ new.settled
      /\ new.room = socks[s].room /\ new.by = socks[s].by /\ new.fresh = socks[s].fresh
  BY DEF SocketRow
<1>2. socks' = [socks EXCEPT ![s] = new]
  BY DEF SocketRow
<1> HIDE DEF new
<1>3. /\ socks'[s] = new /\ \A q \in Slot : q # s => socks'[q] = socks[q]
      /\ s = socket /\ socket # 0 /\ socket' = socket
  BY <1>2, ClientSessionAssumption
<1>4. SessionTypeOK'
  <2>1. socks[s].room \in Place \cup {NoPlace}
    BY DEF SocketRow
  <2> QED
    BY <1>1, <1>2, <2>1
<1>5. ASSUME SessionCore PROVE SessionCore'
  <2>1. Hopeful /\ Hopeful'
    BY <1>1, <1>3 DEF Hopeful
  <2>2. OwnSocketFits'
    BY <1>1, <1>3, <1>5, <2>1 DEF SessionCore, OwnSocketFits
  <2>3. OneLiveSocket'
    BY <1>3, <1>5 DEF SessionCore, OneLiveSocket
  <2>4. OneAttempt'
    BY <1>3, <1>5, <2>1, <2>2 DEF SessionCore, OneAttempt, NoResume, OwnSocketFits
  <2>5. SomeAttempt' /\ ConnectedMeansConnected'
    BY <1>1, <1>3 DEF SomeAttempt, ConnectedMeansConnected
  <2> QED
    BY <2>2, <2>3, <2>4, <2>5 DEF SessionCore
<1> QED
  BY <1>4, <1>5

-----------------------------------------------------------------------------
\* What scheduleReconnect() comes to where nothing else is under way.
LEMMA RescheduleIs ==
  ASSUME NEW giveUp \in BOOLEAN, Reschedule(giveUp), timer = NoPlace
  PROVE  \/ ~unloading /\ conn' = "reconnecting" /\ timer' = roomOf
         \/ conn' = "disconnected" /\ timer' = NoPlace
         \/ unloading /\ UNCHANGED <<conn, timer>>
  BY DEF Reschedule, Finish

\* The session's hopeful socket comes to its end, and the session is told.
LEMMA OwnSocketEnds ==
  ASSUME SessionTypeOK, SessionCore, timer = NoPlace, NoResume, roomOf \in Place,
         UNCHANGED <<roomOf, resumes, unloading>>, stuck => stuck',
         ~Hopeful', OwnSocketFits', OneLiveSocket',
         \/ ~unloading /\ conn' = "reconnecting" /\ timer' = roomOf
         \/ conn' = "disconnected" /\ timer' = NoPlace
         \/ /\ UNCHANGED <<conn, timer>> /\ conn # "connected"
            /\ conn # "reconnecting" \/ unloading
  PROVE  SessionCore'
<1> USE DEF SessionTypeOK
<1>1. NoResume'
  BY DEF NoResume
<1>2. OneAttempt'
  BY <1>1, ClientSessionAssumption DEF SessionCore, OneAttempt, NoResume, NoPlace
<1>3. roomOf # NoPlace
  BY ClientSessionAssumption DEF NoPlace
<1>4. SomeAttempt'
  BY <1>1, <1>3 DEF SessionCore, SomeAttempt
<1>5. ConnectedMeansConnected'
  BY DEF ConnectedMeansConnected
<1> QED
  BY <1>2, <1>4, <1>5 DEF SessionCore

\* What the rejection of the session's own socket comes to.
LEMMA RejectedIs ==
  ASSUME SessionTypeOK, SessionCore, NEW giveUp \in BOOLEAN, socket # 0, ~socks[socket].settled,
         Rejected(socket, giveUp)
  PROVE  /\ timer = NoPlace /\ NoResume /\ roomOf \in Place
         /\ \/ ~unloading /\ conn' = "reconnecting" /\ timer' = roomOf
            \/ conn' = "disconnected" /\ timer' = NoPlace
            \/ /\ UNCHANGED <<conn, timer>> /\ conn # "connected"
               /\ conn # "reconnecting" \/ unloading
<1>1. timer = NoPlace /\ NoResume /\ roomOf \in Place
  BY DEF SessionCore, OneAttempt, OwnSocketFits, Hopeful
<1>2. conn # "connected" /\ socks[socket].fresh
  BY DEF SessionCore, ConnectedMeansConnected, OwnSocketFits
<1>3. CASE socks[socket].by = "resume" /\ conn = "reconnecting"
  <2>1. Reschedule(giveUp)
    BY <1>2, <1>3 DEF Rejected
  <2> QED
    BY <1>1, <1>2, <2>1, RescheduleIs
<1>4. CASE ~(socks[socket].by = "resume" /\ conn = "reconnecting")
  <2>1. UNCHANGED <<conn, timer>>
    BY <1>4 DEF Rejected
  <2>2. socks[socket].by \in {"page", "resume"}
    BY ClientSessionAssumption DEF SessionTypeOK, SocketRow
  <2>3. conn # "reconnecting"
    BY <1>4, <2>2 DEF SessionCore, OwnSocketFits
  <2> QED
    BY <1>1, <1>2, <2>1, <2>3
<1> QED
  BY <1>3, <1>4

\* Whatever becomes of the promise of a socket, the types stand.
LEMMA RejectedTypes ==
  ASSUME SessionTypeOK, NEW s, NEW giveUp \in BOOLEAN, Rejected(s, giveUp) \/ Reschedule(giveUp) \/ Finish
  PROVE  /\ conn' \in {"idle", "connecting", "connected", "reconnecting", "disconnected"}
         /\ timer' \in Place \cup {NoPlace}
  BY DEF SessionTypeOK, Rejected, Reschedule, Finish

\* A seat is refused.
LEMMA SeatRefusedKeeps ==
  ASSUME SessionTypeOK, NEW s \in Slot, NEW retryable \in BOOLEAN, NEW giveUp \in BOOLEAN,
         SeatRefused(s, retryable, giveUp)
  PROVE  SessionTypeOK' /\ (SessionCore => SessionCore')
<1> USE DEF SeatRefused
<1> DEFINE new == [socks[s] EXCEPT !.settled = TRUE, !.retryable = retryable, !.at = "closing"]
<1>1. /\ new \in SocketRow /\ new.at = "closing" /\ new.settled
      /\ new.room = socks[s].room /\ new.by = socks[s].by /\ new.fresh = socks[s].fresh
      /\ new.authed <=> socks[s].authed
  BY DEF SessionTypeOK, SocketRow
<1>2. socks' = [socks EXCEPT ![s] = new]
  BY DEF SessionTypeOK, SocketRow
<1> HIDE DEF new
<1>3. /\ socks'[s] = new /\ \A q \in Slot : q # s => socks'[q] = socks[q]
      /\ s = socket /\ socket # 0 /\ socket' = socket
  BY <1>2, ClientSessionAssumption DEF SessionTypeOK
<1>4. SessionTypeOK'
  <2>1. Rejected(s, giveUp) \/ Finish
    OBVIOUS
  <2>2. /\ conn' \in {"idle", "connecting", "connected", "reconnecting", "disconnected"}
        /\ timer' \in Place \cup {NoPlace}
    BY <2>1, RejectedTypes
  <2> QED
    BY <1>1, <1>2, <2>2 DEF SessionTypeOK
<1>5. ASSUME SessionCore PROVE SessionCore'
  <2>1. /\ timer = NoPlace /\ NoResume /\ roomOf \in Place
        /\ ~socks[s].authed
    BY <1>3, <1>5 DEF SessionCore, OneAttempt, OwnSocketFits, Hopeful
  <2>2. ~Hopeful'
    BY <1>1, <1>3, <2>1 DEF Hopeful
  <2>3. OwnSocketFits' /\ OneLiveSocket'
    BY <1>1, <1>3, <1>5, <2>1 DEF SessionCore, OwnSocketFits, OneLiveSocket
  <2>4. \/ ~unloading /\ conn' = "reconnecting" /\ timer' = roomOf
        \/ conn' = "disconnected" /\ timer' = NoPlace
        \/ /\ UNCHANGED <<conn, timer>> /\ conn # "connected"
           /\ conn # "reconnecting" \/ unloading
    <3>1. CASE retryable
      BY <1>3, <1>5, <3>1, RejectedIs
    <3>2. CASE ~retryable
      BY <3>2 DEF Finish
    <3> QED
      BY <3>1, <3>2
  <2> QED
    BY <1>5, <2>1, <2>2, <2>3, <2>4, OwnSocketEnds
<1> QED
  BY <1>4, <1>5

\* A connection is lost.
LEMMA LostKeeps ==
  ASSUME SessionTypeOK, NEW s \in Slot, NEW giveUp \in BOOLEAN, Lost(s, giveUp)
  PROVE  SessionTypeOK' /\ (SessionCore => SessionCore')
<1> USE DEF Lost
<1> DEFINE new == [socks[s] EXCEPT !.at = "closing", !.settled = TRUE]
<1>1. /\ new \in SocketRow /\ new.at = "closing" /\ new.settled
      /\ new.room = socks[s].room /\ new.by = socks[s].by /\ new.fresh = socks[s].fresh
      /\ new.authed <=> socks[s].authed
  BY DEF SessionTypeOK, SocketRow
<1>2. socks' = [socks EXCEPT ![s] = new]
  BY DEF SessionTypeOK, SocketRow
<1> HIDE DEF new
<1>3. /\ socks'[s] = new /\ \A q \in Slot : q # s => socks'[q] = socks[q]
      /\ socket' = socket
  BY <1>2 DEF SessionTypeOK
<1>4. SessionTypeOK'
  <2>1. CASE socks[s].settled
    BY <1>1, <1>2, <2>1 DEF SessionTypeOK
  <2>2. CASE ~socks[s].settled
    <3>1. Rejected(s, giveUp)
      BY <2>2
    <3>2. /\ conn' \in {"idle", "connecting", "connected", "reconnecting", "disconnected"}
          /\ timer' \in Place \cup {NoPlace}
      BY <3>1, RejectedTypes
    <3> QED
      BY <1>1, <1>2, <3>2 DEF SessionTypeOK
  <2> QED
    BY <2>1, <2>2
<1>5. ASSUME SessionCore PROVE SessionCore'
  <2>1. s = socket /\ socket # 0
    BY <1>5, ClientSessionAssumption DEF SessionCore, OneLiveSocket
  <2>2. CASE socks[s].settled
    <3>1. UNCHANGED <<conn, timer>>
      BY <2>2
    <3>2. Hopeful' <=> Hopeful
      BY <1>1, <1>3, <2>1, <2>2 DEF Hopeful
    <3>3. OwnSocketFits' /\ OneLiveSocket'
      BY <1>1, <1>3, <1>5, <2>1, <2>2, <3>1 DEF SessionCore, OwnSocketFits, OneLiveSocket
    <3>4. OneAttempt'
      BY <1>5, <3>1, <3>2 DEF SessionCore, OneAttempt, NoResume
    <3>5. SomeAttempt'
      BY <1>1, <1>3, <1>5, <2>1, <2>2, <3>1 DEF SessionCore, SomeAttempt, NoResume
    <3>6. ConnectedMeansConnected'
      <4>1. stored' = stored
        BY <2>2
      <4> QED
        BY <1>1, <1>3, <1>5, <2>1, <3>1, <4>1 DEF SessionCore, ConnectedMeansConnected
    <3> QED
      BY <3>3, <3>4, <3>5, <3>6 DEF SessionCore
  <2>3. CASE ~socks[s].settled
    <3>1. ~socks[s].authed
      BY <1>5, <2>1, <2>3 DEF SessionCore, OwnSocketFits
    <3>2. ~Hopeful'
      BY <1>1, <1>3, <2>1, <3>1 DEF Hopeful
    <3>3. OwnSocketFits' /\ OneLiveSocket'
      BY <1>1, <1>3, <1>5, <2>1, <3>1 DEF SessionCore, OwnSocketFits, OneLiveSocket
    <3>4. /\ timer = NoPlace /\ NoResume /\ roomOf \in Place
          /\ \/ ~unloading /\ conn' = "reconnecting" /\ timer' = roomOf
             \/ conn' = "disconnected" /\ timer' = NoPlace
             \/ /\ UNCHANGED <<conn, timer>> /\ conn # "connected"
                /\ conn # "reconnecting" \/ unloading
      BY <1>5, <2>1, <2>3, RejectedIs
    <3> QED
      BY <1>5, <3>2, <3>3, <3>4, OwnSocketEnds
  <2> QED
    BY <2>2, <2>3
<1> QED
  BY <1>4, <1>5

\* A socket has closed.
LEMMA ClosedKeeps ==
  ASSUME SessionTypeOK, NEW s \in Slot, NEW giveUp \in BOOLEAN, Closed(s, giveUp)
  PROVE  SessionTypeOK' /\ (SessionCore => SessionCore')
<1> USE DEF Closed
<1>1. Free \in SocketRow /\ Free.at = "free"
  BY DEF Free, SocketRow
<1>2. /\ socks' = [socks EXCEPT ![s] = Free]
      /\ socks'[s] = Free /\ \A q \in Slot : q # s => socks'[q] = socks[q]
  BY DEF SessionTypeOK
<1>3. CASE s # socket
  <2>1. UNCHANGED <<conn, roomOf, socket, timer, resumes, stored, stuck, unloading>>
    BY <1>3 DEF OwnSocket
  <2>2. SessionTypeOK'
    BY <1>1, <1>2, <2>1 DEF SessionTypeOK
  <2>3. ASSUME SessionCore PROVE SessionCore'
    <3>1. socket # 0 => socket \in Slot /\ socks'[socket] = socks[socket]
      BY <1>2, <1>3 DEF SessionTypeOK
    <3>2. Hopeful' <=> Hopeful
      BY <2>1, <3>1 DEF Hopeful
    <3>3. OwnSocketFits'
      BY <2>1, <2>3, <3>1, <3>2 DEF SessionCore, OwnSocketFits
    <3>4. OneLiveSocket'
      BY <1>1, <1>2, <2>1, <2>3 DEF SessionCore, OneLiveSocket
    <3>5. OneAttempt'
      BY <2>1, <2>3, <3>2 DEF SessionCore, OneAttempt, NoResume
    <3>6. SomeAttempt' /\ ConnectedMeansConnected'
      BY <2>1, <2>3, <3>1 DEF SessionCore, SomeAttempt, ConnectedMeansConnected, NoResume
    <3> QED
      BY <3>3, <3>4, <3>5, <3>6 DEF SessionCore
  <2> QED
    BY <2>2, <2>3
<1>4. CASE s = socket
  <2>1. socket # 0 /\ socket' = 0 /\ UNCHANGED <<roomOf, resumes, unloading>> /\ (stuck => stuck')
    BY <1>4, ClientSessionAssumption DEF OwnSocket
  <2> DEFINE again == socks[s].authed /\ socks[s].retryable /\ ~unloading /\ socks[s].fresh
             over == socks[s].authed \/ ~socks[s].retryable
  <2>2. /\ again => Reschedule(giveUp)
        /\ ~again /\ over => Finish
        /\ ~again /\ ~over => Rejected(s, giveUp)
    BY <1>4 DEF OwnSocket
  <2>3. SessionTypeOK'
    <3>1. Reschedule(giveUp) \/ Finish \/ Rejected(s, giveUp)
      BY <2>2
    <3>2. /\ conn' \in {"idle", "connecting", "connected", "reconnecting", "disconnected"}
          /\ timer' \in Place \cup {NoPlace}
      BY <3>1, RejectedTypes
    <3> QED
      BY <1>1, <1>2, <2>1, <3>2 DEF SessionTypeOK
  <2>4. ASSUME SessionCore PROVE SessionCore'
    <3>1. ~Hopeful' /\ OwnSocketFits'
      BY <2>1 DEF Hopeful, OwnSocketFits
    <3>2. OneLiveSocket'
      BY <1>1, <1>2, <1>4, <2>1, <2>4 DEF SessionCore, OneLiveSocket
    <3>3. CASE Hopeful
      <4>1. timer = NoPlace /\ NoResume /\ roomOf \in Place
        BY <2>1, <2>4, <3>3 DEF SessionCore, OneAttempt, OwnSocketFits
      <4>2. \/ ~unloading /\ conn' = "reconnecting" /\ timer' = roomOf
            \/ conn' = "disconnected" /\ timer' = NoPlace
            \/ /\ UNCHANGED <<conn, timer>> /\ conn # "connected"
               /\ conn # "reconnecting" \/ unloading
        <5>1. CASE again
          <6>1. Reschedule(giveUp) /\ ~unloading
            BY <2>2, <5>1
          <6> QED
            BY <4>1, <6>1, RescheduleIs
        <5>2. CASE ~again /\ over
          BY <2>2, <5>2 DEF Finish
        <5>3. CASE ~again /\ ~over
          <6>1. Rejected(socket, giveUp) /\ ~socks[socket].settled
            BY <1>4, <2>2, <3>3, <5>3 DEF Hopeful
          <6> QED
            BY <2>1, <2>4, <6>1, RejectedIs
        <5> QED
          BY <5>1, <5>2, <5>3
      <4> QED
        BY <2>1, <2>4, <3>1, <3>2, <4>1, <4>2, OwnSocketEnds
    <3>4. CASE ~Hopeful
      <4>1. ~socks[s].authed /\ socks[s].settled
        BY <1>4, <2>1, <3>4 DEF Hopeful
      <4>2. (conn' = "disconnected" /\ timer' = NoPlace) \/ UNCHANGED <<conn, timer>>
        <5>1. CASE over
          BY <2>2, <4>1, <5>1 DEF Finish
        <5>2. CASE ~over
          BY <2>2, <4>1, <5>2 DEF Rejected
        <5> QED
          BY <5>1, <5>2
      <4>3. conn # "connected"
        BY <1>4, <2>4, <4>1 DEF SessionCore, ConnectedMeansConnected
      <4>4. OneAttempt'
        BY <2>1, <2>4, <3>1, <4>2 DEF SessionCore, OneAttempt, NoResume
      <4>5. SomeAttempt' /\ ConnectedMeansConnected'
        BY <1>4, <2>1, <2>4, <4>1, <4>2, <4>3 DEF SessionCore, SomeAttempt, ConnectedMeansConnected, NoResume
      <4> QED
        BY <3>1, <3>2, <4>4, <4>5 DEF SessionCore
    <3> QED
      BY <3>3, <3>4
  <2> QED
    BY <2>3, <2>4
<1> QED
  BY <1>3, <1>4

\* The seat is taken away.
LEMMA KickedKeeps ==
  ASSUME SessionTypeOK, NEW s \in Slot, Kicked(s)
  PROVE  SessionTypeOK' /\ crossed' = crossed /\ (SessionCore => SessionCore')
<1>1. CASE DisconnectSession
  BY <1>1, DisconnectIs
<1>2. CASE ~DisconnectSession
  <2> USE DEF Kicked
  <2> DEFINE new == [socks[s] EXCEPT !.retryable = FALSE]
  <2>1. /\ new \in SocketRow /\ new.at = socks[s].at
        /\ new.room = socks[s].room /\ new.by = socks[s].by /\ new.fresh = socks[s].fresh
        /\ new.authed <=> socks[s].authed
        /\ new.settled <=> socks[s].settled
    BY DEF SessionTypeOK, SocketRow
  <2>2. /\ socks' = [socks EXCEPT ![s] = new]
        /\ conn' = "disconnected" /\ timer' = NoPlace
        /\ UNCHANGED <<roomOf, socket, resumes, crossed>>
    BY <1>2 DEF SessionTypeOK
  <2> HIDE DEF new
  <2>3. socks'[s] = new /\ \A q \in Slot : q # s => socks'[q] = socks[q]
    BY <2>2 DEF SessionTypeOK
  <2>4. SessionTypeOK'
    BY <2>1, <2>2 DEF SessionTypeOK
  <2>5. ASSUME SessionCore PROVE SessionCore'
    <3>1. s = socket /\ socket # 0
      BY ClientSessionAssumption
    <3>2. Hopeful' <=> Hopeful
      BY <2>1, <2>2, <2>3, <3>1 DEF Hopeful
    <3>3. OwnSocketFits' /\ OneLiveSocket'
      BY <2>1, <2>2, <2>3, <2>5, <3>1, <3>2 DEF SessionCore, OwnSocketFits, OneLiveSocket
    <3>4. OneAttempt' /\ SomeAttempt' /\ ConnectedMeansConnected'
      BY <2>2, <2>5, <3>2 DEF SessionCore, OneAttempt, SomeAttempt, ConnectedMeansConnected, NoResume
    <3> QED
      BY <3>3, <3>4 DEF SessionCore
  <2> QED
    BY <2>2, <2>4, <2>5
<1> QED
  BY <1>1, <1>2

-----------------------------------------------------------------------------
\* The timer asks for the seat.
LEMMA TimerFiresKeeps ==
  ASSUME SessionTypeOK, TimerFires
  PROVE  SessionTypeOK' /\ (SessionCore => SessionCore')
<1> USE DEF SessionTypeOK, TimerFires
<1>1. timer \in Place
  OBVIOUS
<1>2. /\ resumes' \in [Place -> Nat] /\ resumes'[timer] = resumes[timer] + 1
      /\ \A r \in Place : r # timer => resumes'[r] = resumes[r]
  BY <1>1
<1>3. SessionTypeOK'
  BY <1>2
<1>4. ASSUME SessionCore PROVE SessionCore'
  <2>1. NoResume /\ ~Hopeful /\ roomOf \in Place
    BY <1>4 DEF SessionCore, OneAttempt
  <2>2. ~Hopeful'
    BY <2>1 DEF Hopeful
  <2>3. resumes'[timer] = 1 /\ \A r \in Place : r # timer => resumes'[r] = 0
    BY <1>1, <1>2, <2>1 DEF NoResume
  <2>4. ~NoResume'
    BY <1>1, <2>3 DEF NoResume
  <2>5. OwnSocketFits' /\ OneLiveSocket' /\ ConnectedMeansConnected'
    BY <1>4, <2>1, <2>2 DEF SessionCore, OwnSocketFits, OneLiveSocket, ConnectedMeansConnected, Hopeful
  <2>6. OneAttempt'
    BY <2>1, <2>2, <2>3 DEF OneAttempt
  <2>7. SomeAttempt'
    BY <1>4, <2>4 DEF SessionCore, SomeAttempt
  <2> QED
    BY <2>5, <2>6, <2>7 DEF SessionCore
<1> QED
  BY <1>3, <1>4

\* A seat to resume in is granted.
LEMMA ResumeGrantedKeeps ==
  ASSUME SessionTypeOK, NEW r \in Place, ResumeGranted(r)
  PROVE  SessionTypeOK' /\ (SessionCore => SessionCore')
<1> USE DEF ResumeGranted
<1>1. /\ resumes' \in [Place -> Nat] /\ resumes'[r] = resumes[r] - 1
      /\ \A q \in Place : q # r => resumes'[q] = resumes[q]
  BY DEF SessionTypeOK
<1>2. ASSUME SessionCore
      PROVE  /\ timer = NoPlace /\ ~Hopeful /\ roomOf \in Place
             /\ resumes[r] = 1 /\ \A q \in Place : q # r => resumes[q] = 0
  <2>1. ~NoResume
    BY DEF SessionTypeOK, NoResume
  <2>2. resumes[r] # 0 /\ resumes[r] \in Nat
    BY DEF SessionTypeOK
  <2> QED
    BY <1>2, <2>1, <2>2 DEF SessionCore, OneAttempt
<1>3. ASSUME SessionCore PROVE NoResume'
  BY <1>1, <1>2, <1>3 DEF NoResume
<1>4. CASE conn = "reconnecting"
  <2> DEFINE new == NewSocket(r, "resume")
  <2>1. /\ new \in SocketRow /\ new.at = "connecting" /\ new.room = r /\ new.by = "resume"
        /\ ~new.authed /\ ~new.settled /\ new.fresh
    BY NewSocketIs
  <2>2. NextSlot \in Slot /\ NextSlot # 0
    BY NextSlotIsFree, ClientSessionAssumption
  <2>3. socks' = [socks EXCEPT ![NextSlot] = new] /\ socket' = NextSlot
    BY <1>4 DEF StillReconnecting
  <2> HIDE DEF new
  <2>4. /\ socket' \in Slot /\ socket' # 0 /\ socks'[socket'] = new
        /\ \A s \in Slot : s # socket' => socks'[s] = socks[s]
    BY <2>2, <2>3 DEF SessionTypeOK
  <2>5. SessionTypeOK'
    BY <1>1, <2>1, <2>2, <2>3 DEF SessionTypeOK
  <2>6. ASSUME SessionCore PROVE SessionCore'
    <3>1. Hopeful'
      BY <2>1, <2>4 DEF Hopeful
    <3>2. OwnSocketFits'
      BY <1>2, <2>1, <2>4, <2>6, <3>1 DEF OwnSocketFits
    <3>3. OneLiveSocket'
      <4>1. \A s \in Slot : socks[s].at \notin {"connecting", "open"}
        BY <1>2, <2>6, ClientSessionAssumption DEF SessionCore, OwnSocketFits, OneLiveSocket
      <4> QED
        BY <2>4, <4>1 DEF OneLiveSocket
    <3>4. OneAttempt'
      BY <1>2, <1>3, <2>6 DEF OneAttempt, NoResume
    <3>5. SomeAttempt' /\ ConnectedMeansConnected'
      BY <1>4, <2>1, <2>4, <2>6 DEF SessionCore, SomeAttempt, ConnectedMeansConnected
    <3> QED
      BY <3>2, <3>3, <3>4, <3>5 DEF SessionCore
  <2> QED
    BY <2>5, <2>6
<1>5. CASE conn # "reconnecting"
  <2>1. UNCHANGED <<conn, roomOf, socket, socks, timer, stored>>
    BY <1>5 DEF StillReconnecting
  <2>2. SessionTypeOK'
    BY <1>1, <2>1 DEF SessionTypeOK
  <2>3. ASSUME SessionCore PROVE SessionCore'
    <3>1. ~Hopeful' /\ timer' = NoPlace
      BY <1>2, <2>1, <2>3 DEF Hopeful
    <3>2. OwnSocketFits' /\ OneLiveSocket' /\ ConnectedMeansConnected'
      BY <2>1, <2>3, <1>2, <3>1 DEF SessionCore, OwnSocketFits, OneLiveSocket, ConnectedMeansConnected, Hopeful
    <3>3. OneAttempt' /\ SomeAttempt'
      BY <1>3, <1>5, <2>1, <2>3, <3>1 DEF OneAttempt, SomeAttempt, NoResume
    <3> QED
      BY <3>2, <3>3 DEF SessionCore
  <2> QED
    BY <2>2, <2>3
<1> QED
  BY <1>4, <1>5

\* A seat to resume in is refused.
LEMMA ResumeFailsKeeps ==
  ASSUME SessionTypeOK, NEW r \in Place, NEW giveUp \in BOOLEAN, ResumeFails(r, giveUp)
  PROVE  SessionTypeOK' /\ (SessionCore => SessionCore')
<1> USE DEF ResumeFails
<1>1. /\ resumes' \in [Place -> Nat] /\ resumes'[r] = resumes[r] - 1
      /\ \A q \in Place : q # r => resumes'[q] = resumes[q]
  BY DEF SessionTypeOK
<1>2. SessionTypeOK'
  <2>1. CASE conn = "reconnecting"
    BY <1>1, <2>1, RejectedTypes DEF SessionTypeOK
  <2>2. CASE conn # "reconnecting"
    BY <1>1, <2>2 DEF SessionTypeOK
  <2> QED
    BY <2>1, <2>2
<1>3. ASSUME SessionCore PROVE SessionCore'
  <2>1. ~NoResume
    BY DEF SessionTypeOK, NoResume
  <2>2. resumes[r] # 0 /\ resumes[r] \in Nat
    BY DEF SessionTypeOK
  <2>3. /\ timer = NoPlace /\ ~Hopeful /\ roomOf \in Place
        /\ resumes[r] = 1 /\ \A q \in Place : q # r => resumes[q] = 0
    BY <1>3, <2>1, <2>2 DEF SessionCore, OneAttempt
  <2>4. NoResume'
    BY <1>1, <2>3 DEF NoResume
  <2>5. conn # "connected"
    BY <1>3, <2>3 DEF SessionCore, ConnectedMeansConnected, Hopeful
  <2>6. \/ ~unloading /\ conn' = "reconnecting" /\ timer' = roomOf
        \/ conn' = "disconnected" /\ timer' = NoPlace
        \/ UNCHANGED <<conn, timer>> /\ (conn = "reconnecting" => unloading)
    BY <2>3, RescheduleIs
  <2>7. ~Hopeful'
    BY <2>3 DEF Hopeful
  <2>8. OwnSocketFits' /\ OneLiveSocket'
    BY <1>3, <2>3, <2>7 DEF SessionCore, OwnSocketFits, OneLiveSocket, Hopeful
  <2>9. OneAttempt' /\ ConnectedMeansConnected'
    BY <2>3, <2>4, <2>5, <2>6, <2>7 DEF OneAttempt, ConnectedMeansConnected, NoResume
  <2>10. SomeAttempt'
    BY <1>3, <2>3, <2>6, ClientSessionAssumption DEF SessionCore, SomeAttempt, NoPlace
  <2> QED
    BY <2>8, <2>9, <2>10 DEF SessionCore
<1> QED
  BY <1>2, <1>3

\* The page is loaded anew.
LEMMA ReloadKeeps ==
  ASSUME SessionTypeOK, Reload
  PROVE  SessionTypeOK' /\ SessionCore'
<1> USE DEF SessionTypeOK, Reload
<1>1. Free \in SocketRow /\ Free.at = "free"
  BY DEF Free, SocketRow
<1>2. SessionTypeOK'
  BY <1>1
<1>3. OwnSocketFits' /\ OneAttempt' /\ SomeAttempt' /\ ConnectedMeansConnected'
  BY DEF OwnSocketFits, OneAttempt, SomeAttempt, ConnectedMeansConnected, Hopeful, NoResume
<1>4. OneLiveSocket'
  BY <1>1 DEF OneLiveSocket
<1> QED
  BY <1>2, <1>3, <1>4 DEF SessionCore

-----------------------------------------------------------------------------
\* Where the lobby page is shown no leave of its room is pending.
LEMMA LobbySpared == LeaveSparesTheLobby /\ [SessionNext]_sessionVars => LeaveSparesTheLobby'
<1> SUFFICES ASSUME LeaveSparesTheLobby, [SessionNext]_sessionVars PROVE LeaveSparesTheLobby'
  OBVIOUS
<1> USE DEF LeaveSparesTheLobby
<1>1. CASE UNCHANGED <<page, leaves>>
  BY <1>1
<1>2. CASE page' = Rooms
  BY <1>2 DEF Rooms
<1>3. CASE \E r \in Place : page' = Game(r)
  BY <1>3 DEF Game
<1>4. ASSUME NEW s \in Slot, SocketEvent(s) PROVE LeaveSparesTheLobby'
  <2>1. CASE AuthOk(s)
    <3>1. leaves' \subseteq leaves /\ (page' = page \/ page' = Lobby(socks[s].room))
      BY <2>1 DEF AuthOk
    <3>2. CASE page' = Lobby(socks[s].room)
      <4>1. leaves' = leaves \ {socks[s].room}
        BY <2>1, <3>2 DEF AuthOk
      <4> QED
        BY <3>2, <4>1 DEF Lobby
    <3>3. CASE page' = page
      BY <3>1, <3>3
    <3> QED
      BY <3>1, <3>2, <3>3
  <2>2. CASE Kicked(s)
    BY <2>2, <1>1, <1>2 DEF Kicked
  <2>3. CASE ~AuthOk(s) /\ ~Kicked(s)
    BY <1>1, <1>4, <2>3 DEF SocketEvent, Opened, Lost, Closed, SeatRefused
  <2> QED
    BY <2>1, <2>2, <2>3
<1>5. ASSUME NEW r \in Place, Browse(r) PROVE LeaveSparesTheLobby'
  <2>1. CASE EnterLobby(r)
    BY <2>1 DEF EnterLobby, TakenBack, Lobby
  <2>2. CASE EnterGame(r)
    BY <2>2, <1>3 DEF EnterGame
  <2>3. CASE LeaveFires(r)
    BY <2>3 DEF LeaveFires
  <2>4. CASE ~EnterLobby(r) /\ ~EnterGame(r) /\ ~LeaveFires(r)
    BY <1>1, <1>5, <2>4 DEF Browse, Ask, NotGranted, Granted, ResumeGranted, ResumeFails
  <2> QED
    BY <2>1, <2>2, <2>3, <2>4
<1>6. CASE TimerFires \/ GoBackFromGame \/ WalkOut \/ Exit("lobby") \/ Exit("game")
  BY <1>1, <1>2, <1>6 DEF TimerFires, GoBackFromGame, WalkOut, Exit
<1>7. CASE Unload \/ PageShow \/ Reload
  BY <1>1, <1>7 DEF Unload, PageShow, Reload
<1>8. CASE UNCHANGED sessionVars
  BY <1>1, <1>8 DEF sessionVars
<1> QED
  BY <1>4, <1>5, <1>6, <1>7, <1>8 DEF SessionNext

\* Every step keeps the types, and the core of the invariant as long as nothing crossed.
LEMMA SessionStep ==
  ASSUME SessionTypeOK, ~crossed => SessionCore, [SessionNext]_sessionVars
  PROVE  SessionTypeOK' /\ (~crossed' => SessionCore')
<1>1. CASE UNCHANGED sessionVars
  <2>1. UNCHANGED <<conn, roomOf, socket, socks, timer, resumes, stored, stuck, unloading, crossed>>
    BY <1>1 DEF sessionVars
  <2> QED
    BY <2>1, SameSession
<1>2. ASSUME NEW s \in Slot, SocketEvent(s) PROVE SessionTypeOK' /\ (~crossed' => SessionCore')
  <2>1. CASE Opened(s)
    <3>1. crossed' = crossed
      BY <2>1 DEF Opened
    <3> QED
      BY <2>1, <3>1, OpenedKeeps
  <2>2. CASE AuthOk(s)
    <3>1. crossed' = crossed
      BY <2>2 DEF AuthOk
    <3> QED
      BY <2>2, <3>1, AuthOkKeeps
  <2>3. CASE Kicked(s)
    BY <2>3, KickedKeeps
  <2>4. ASSUME NEW giveUp \in BOOLEAN, Lost(s, giveUp) PROVE SessionTypeOK' /\ (~crossed' => SessionCore')
    <3>1. crossed' = crossed
      BY <2>4 DEF Lost
    <3> QED
      BY <2>4, <3>1, LostKeeps
  <2>5. ASSUME NEW giveUp \in BOOLEAN, Closed(s, giveUp) PROVE SessionTypeOK' /\ (~crossed' => SessionCore')
    <3>1. crossed' = crossed
      BY <2>5 DEF Closed
    <3> QED
      BY <2>5, <3>1, ClosedKeeps
  <2>6. ASSUME NEW giveUp \in BOOLEAN, NEW retryable \in BOOLEAN, SeatRefused(s, retryable, giveUp)
        PROVE  SessionTypeOK' /\ (~crossed' => SessionCore')
    <3>1. crossed' = crossed
      BY <2>6 DEF SeatRefused
    <3> QED
      BY <2>6, <3>1, SeatRefusedKeeps
  <2> QED
    BY <1>2, <2>1, <2>2, <2>3, <2>4, <2>5, <2>6 DEF SocketEvent
<1>3. ASSUME NEW r \in Place, Browse(r) PROVE SessionTypeOK' /\ (~crossed' => SessionCore')
  <2>1. CASE Ask(r) \/ NotGranted(r) \/ EnterLobby(r) \/ EnterGame(r)
    <3>1. /\ UNCHANGED <<conn, roomOf, socket, socks, timer, resumes, stuck, unloading, crossed>>
          /\ stored' \in {stored, NoPlace}
      BY <2>1 DEF Ask, NotGranted, EnterLobby, EnterGame
    <3> QED
      BY <3>1, SameSession
  <2>2. CASE LeaveFires(r)
    <3>1. CASE roomOf = r
      BY <2>2, <3>1, DisconnectIs DEF LeaveFires
    <3>2. CASE roomOf # r
      <4>1. UNCHANGED <<conn, roomOf, socket, socks, timer, resumes, stored, stuck, unloading, crossed>>
        BY <2>2, <3>2 DEF LeaveFires
      <4> QED
        BY <4>1, SameSession
    <3> QED
      BY <3>1, <3>2
  <2>3. ASSUME NEW expired \in BOOLEAN, Granted(r, expired) PROVE SessionTypeOK' /\ (~crossed' => SessionCore')
    <3>1. ConnectTo(r, expired) /\ UNCHANGED <<stored, resumes, stuck>>
      BY <2>3 DEF Granted
    <3> QED
      BY <3>1, ConnectIs
  <2>4. CASE ResumeGranted(r)
    <3>1. crossed' = crossed
      BY <2>4 DEF ResumeGranted
    <3> QED
      BY <2>4, <3>1, ResumeGrantedKeeps
  <2>5. ASSUME NEW giveUp \in BOOLEAN, ResumeFails(r, giveUp) PROVE SessionTypeOK' /\ (~crossed' => SessionCore')
    <3>1. crossed' = crossed
      BY <2>5 DEF ResumeFails
    <3> QED
      BY <2>5, <3>1, ResumeFailsKeeps
  <2> QED
    BY <1>3, <2>1, <2>2, <2>3, <2>4, <2>5 DEF Browse
<1>4. CASE TimerFires
  <2>1. crossed' = crossed
    BY <1>4 DEF TimerFires
  <2> QED
    BY <1>4, <2>1, TimerFiresKeeps
<1>5. CASE GoBackFromGame \/ WalkOut \/ Unload \/ PageShow
  <2>1. /\ UNCHANGED <<conn, roomOf, socket, socks, timer, resumes, stored, crossed>>
    BY <1>5 DEF GoBackFromGame, WalkOut, Unload, PageShow
  <2>2. CASE Unload
    <3>1. stuck' = (stuck \/ conn = "reconnecting")
      BY <2>2 DEF Unload
    <3>2. (stuck => stuck') /\ (conn = "reconnecting" => stuck')
      BY <3>1, Zenon
    <3> QED
      BY <2>1, <3>2, SameSession
  <2>3. CASE PageShow
    BY <2>1, <2>3, SameSession DEF PageShow
  <2>4. CASE GoBackFromGame \/ WalkOut
    <3>1. UNCHANGED <<stuck, unloading>>
      BY <2>4 DEF GoBackFromGame, WalkOut
    <3> QED
      BY <2>1, <3>1, SameSession
  <2> QED
    BY <1>5, <2>2, <2>3, <2>4
<1>6. CASE Exit("lobby") \/ Exit("game")
  <2>1. DisconnectSession
    BY <1>6 DEF Exit
  <2> QED
    BY <2>1, DisconnectIs
<1>7. CASE Reload
  BY <1>7, ReloadKeeps
<1> QED
  BY <1>1, <1>2, <1>3, <1>4, <1>5, <1>6, <1>7 DEF SessionNext

\* The session is what its pages believe it is, for any number of rooms, sockets, visits
\* and requests in flight (GameSession.ts, lobbyLeave.ts).
THEOREM SessionStaysConsistent == SessionSpec => []SessionIsConsistent
<1>1. SessionInit => SessionInv
  BY SessionInvInit
<1>2. SessionInv /\ [SessionNext]_sessionVars => SessionInv'
  BY SessionStep, LobbySpared DEF SessionInv
<1>3. SessionInv => SessionIsConsistent
  <2> SUFFICES ASSUME SessionInv PROVE SessionIsConsistent
    OBVIOUS
  <2>1. ASSUME ~crossed PROVE ReconnectingIsUnderWay
    <3>1. SessionTypeOK /\ SomeAttempt /\ OwnSocketFits
      BY <2>1 DEF SessionInv, SessionCore
    <3>2. ~NoResume => \E r \in Place : resumes[r] > 0
      BY <3>1 DEF SessionTypeOK, NoResume
    <3> QED
      BY <3>1, <3>2 DEF SomeAttempt, OwnSocketFits, ReconnectingIsUnderWay
  <2> QED
    BY <2>1 DEF SessionInv, SessionCore, SessionIsConsistent
<1> QED
  BY <1>1, <1>2, <1>3, PTL DEF SessionSpec

-----------------------------------------------------------------------------
(* The identity of the tab.                                                  *)

\* What a request carries, what the pages read, a call of the page, a refresh, a session
\* of the account, and the history.
Holder == {"anonymous", "guest", "account"}
BearerRow == [kind : Holder, sid : Nat, old : BOOLEAN]
RefreshRow == [sid : Nat, token : Nat]
StoreRow == [identity : Holder, status : {"idle", "booting", "guest", "account", "error"},
             admin : BOOLEAN, pending : BOOLEAN]
JobRow == [kind : {"none", "boot", "api", "admin", "login", "mfa", "logout", "abandon"},
           at : {"none", "wait", "call", "issue"}, with : BearerRow,
           got : {"none", "ok", "mfa", "refused", "401", "409"}, sid : Nat, again : BOOLEAN,
           on : {"none", "guest", "account"}, previous : StoreRow]
FlightRow == [kind : {"guest", "account"}, n : Nat, served : BOOLEAN, shown : RefreshRow,
              got : {"none", "ok", "401"}, sid : Nat, token : Nat]
LoginRow == [live : BOOLEAN, token : Nat]
StoryRow == [lost : BOOLEAN, doubled : BOOLEAN, putBack : BOOLEAN, overtaken : BOOLEAN,
             lateAdmin : BOOLEAN, inside : BOOLEAN]

IdentityTypeOK ==
  /\ bearer \in BearerRow /\ guestKey \in RefreshRow /\ cookie \in RefreshRow
  /\ authStore \in StoreRow /\ jobs \in [Job -> JobRow]
  /\ flights \subseteq FlightRow /\ IsFiniteSet(flights)
  /\ accountSessions \in Seq(LoginRow) /\ guestSessions \in Seq(LoginRow)
  /\ story \in StoryRow

\* As long as no older store was put back, a store that a job may put back shows an
\* operator's menu to accounts only.
StoresKept ==
  ~story.putBack /\ ~story.lateAdmin =>
    \A j \in Job : jobs[j].previous.admin => jobs[j].previous.identity = "account"

\* A login is never between two requests, and began as a guest.
LoginsCall ==
  \A j \in Job : jobs[j].kind \in {"login", "mfa"} =>
                   jobs[j].at = "call" /\ jobs[j].previous.status = "guest"

\* One refresh of a kind; that of an account is for a session there is, and brings the
\* token the session has now, or shows it.
FlightsFit ==
  /\ \A f, g \in flights : f.kind = g.kind => f = g
  /\ \A f \in flights : f.kind = "account" =>
       /\ f.shown.sid \in 0 .. Len(accountSessions)
       /\ f.served /\ f.got = "ok" =>
            /\ f.shown.sid # 0 /\ f.sid = f.shown.sid
            /\ accountSessions[f.sid].live => accountSessions[f.sid].token = f.token

\* So does the cookie, unless a refresh of its session has been served.
CookieFits ==
  /\ cookie.sid \in 0 .. Len(accountSessions)
  /\ ~story.lost /\ cookie.sid # 0 /\ accountSessions[cookie.sid].live =>
       \/ accountSessions[cookie.sid].token = cookie.token
       \/ \E f \in flights : f.kind = "account" /\ f.served /\ f.got = "ok" /\ f.sid = cookie.sid

\* A login that was accepted opened a session that only its answer tells of.
LoginOk(j) == jobs[j].kind \in {"login", "mfa"} /\ jobs[j].got = "ok"
LoginsFit ==
  \A j \in Job : LoginOk(j) =>
    /\ jobs[j].sid \in 1 .. Len(accountSessions) /\ accountSessions[jobs[j].sid].token = 1
    /\ cookie.sid # jobs[j].sid
    /\ \A f \in flights : f.kind = "account" => f.shown.sid # jobs[j].sid
    /\ \A k \in Job : LoginOk(k) /\ jobs[k].sid = jobs[j].sid => k = j

\* The inductive invariant of the identity.
TokensFit == FlightsFit /\ CookieFits /\ LoginsFit /\ RefreshOnce
StoreFits == /\ StoresKept /\ LoginsCall /\ PagesSeeTheIdentity
             /\ LoginLasts /\ WaitsForSomething
IdentityInv == IdentityTypeOK /\ TokensFit /\ StoreFits

\* The rows a step puts in place of others.
LEMMA NewRows ==
  /\ NewStore \in StoreRow /\ ~NewStore.admin /\ NewStore.identity = "anonymous"
  /\ NoJob \in JobRow /\ NoJob.kind = "none" /\ NoJob.at = "none" /\ NoJob.previous = NewStore
  /\ NoRefresh \in RefreshRow /\ NoRefresh.sid = 0
  /\ Anonymous \in BearerRow /\ Anonymous.kind = "anonymous"
<1>1. NewStore \in StoreRow /\ ~NewStore.admin /\ NewStore.identity = "anonymous"
  BY DEF NewStore, StoreRow, Holder
<1>2. Anonymous \in BearerRow /\ Anonymous.kind = "anonymous"
  BY DEF Anonymous, BearerRow, Holder
<1>3. NoRefresh \in RefreshRow /\ NoRefresh.sid = 0
  BY DEF NoRefresh, RefreshRow
<1>4. NoJob \in JobRow /\ NoJob.kind = "none" /\ NoJob.at = "none" /\ NoJob.previous = NewStore
  BY <1>1, <1>2 DEF NoJob, JobRow
<1> QED
  BY <1>1, <1>2, <1>3, <1>4

LEMMA BearerIs ==
  ASSUME NEW kind \in Holder, NEW sid \in Nat
  PROVE  Bearer(kind, sid) \in BearerRow /\ Bearer(kind, sid).kind = kind /\ Bearer(kind, sid).sid = sid
  BY DEF Bearer, BearerRow

\* What the listener leaves in the store.
LEMMA ListenedIs ==
  ASSUME authStore \in StoreRow, NEW i \in BearerRow
  PROVE  /\ Listened(i) \in StoreRow /\ Listened(i).identity = i.kind
         /\ Listened(i).status \in {"error", "guest", "account"}
         /\ ~Listened(i).pending
         /\ Listened(i).admin => i.kind = "account"
<1> DEFINE status == IF i.kind = "anonymous" THEN "error" ELSE i.kind
           admin == authStore.admin /\ i.kind = "account"
<1>1. status \in {"error", "guest", "account"} /\ i.kind \in Holder
  BY DEF BearerRow, Holder
<1>2. admin \in BOOLEAN /\ (admin => i.kind = "account")
  OBVIOUS
<1>3. Listened(i) = [authStore EXCEPT !.identity = i.kind, !.pending = FALSE,
                                      !.status = status, !.admin = admin]
  BY DEF Listened
<1> HIDE DEF status, admin
<1> QED
  BY <1>1, <1>2, <1>3 DEF StoreRow

\* The store as it was when a job began.
LEMMA PutBackIs ==
  ASSUME jobs \in [Job -> JobRow], NEW j \in Job
  PROVE  /\ PutBack(j) \in StoreRow /\ PutBack(j).identity = jobs[j].previous.identity
         /\ PutBack(j).status = jobs[j].previous.status
         /\ PutBack(j).admin <=> jobs[j].previous.admin
         /\ ~PutBack(j).pending
<1>1. jobs[j].previous \in StoreRow
  BY DEF JobRow
<1> QED
  BY <1>1 DEF PutBack, StoreRow

LEMMA BootFailedIs ==
  ASSUME jobs \in [Job -> JobRow], NEW j \in Job
  PROVE  /\ BootFailed(j) \in StoreRow /\ BootFailed(j).identity = jobs[j].previous.identity
         /\ BootFailed(j).status = "error"
         /\ BootFailed(j).admin <=> jobs[j].previous.admin
         /\ ~BootFailed(j).pending
<1>1. /\ PutBack(j) \in StoreRow /\ PutBack(j).identity = jobs[j].previous.identity
      /\ PutBack(j).admin <=> jobs[j].previous.admin
      /\ ~PutBack(j).pending
  BY PutBackIs
<1> HIDE DEF PutBack
<1> QED
  BY <1>1 DEF BootFailed, StoreRow

\* The request about the operator.
LEMMA AdminJobIs ==
  ASSUME NEW i \in BearerRow
  PROVE  /\ AdminJob(i) \in JobRow /\ AdminJob(i).kind \in {"none", "admin"}
         /\ AdminJob(i).previous = NewStore
<1>1. CASE i.kind = "account"
  <2>1. AdminJob(i) = [NoJob EXCEPT !.kind = "admin", !.at = "call", !.with = i]
    BY <1>1 DEF AdminJob
  <2> QED
    BY <2>1, NewRows DEF JobRow
<1>2. CASE i.kind # "account"
  BY <1>2, NewRows DEF AdminJob
<1> QED
  BY <1>1, <1>2

\* A request with the present identity.
LEMMA SentNowIs ==
  ASSUME bearer \in BearerRow, NEW job \in JobRow
  PROVE  /\ SentNow(job) \in JobRow /\ SentNow(job).kind = job.kind /\ SentNow(job).at = "call"
         /\ SentNow(job).got = "none" /\ SentNow(job).previous = job.previous
  BY DEF SentNow, JobRow

\* One session changes.
LEMMA OneSessionChanges ==
  ASSUME NEW s \in Seq(LoginRow), NEW i, NEW row, i \in 1 .. Len(s) => row \in LoginRow
  PROVE  /\ [s EXCEPT ![i] = row] \in Seq(LoginRow) /\ Len([s EXCEPT ![i] = row]) = Len(s)
         /\ \A k \in 1 .. Len(s) : [s EXCEPT ![i] = row][k] = IF k = i THEN row ELSE s[k]
<1> DEFINE g == [s EXCEPT ![i] = row]
<1>1. /\ g = [k \in 1 .. Len(s) |-> IF k = i THEN row ELSE s[k]]
      /\ DOMAIN g = 1 .. Len(s) /\ \A k \in 1 .. Len(s) : g[k] = IF k = i THEN row ELSE s[k]
  OBVIOUS
<1>2. \A k \in 1 .. Len(s) : g[k] \in LoginRow
  BY <1>1
<1> HIDE DEF g
<1>3. g \in [1 .. Len(s) -> LoginRow]
  BY <1>1, <1>2
<1>4. g \in Seq(LoginRow) /\ Len(g) = Len(s)
  BY <1>1, <1>3
<1> QED
  BY <1>1, <1>4 DEF g

\* All sessions end.
LEMMA AllSessionsEnd ==
  ASSUME NEW s \in Seq(LoginRow)
  PROVE  /\ [i \in DOMAIN s |-> [s[i] EXCEPT !.live = FALSE]] \in Seq(LoginRow)
         /\ Len([i \in DOMAIN s |-> [s[i] EXCEPT !.live = FALSE]]) = Len(s)
         /\ \A k \in 1 .. Len(s) : /\ ~[i \in DOMAIN s |-> [s[i] EXCEPT !.live = FALSE]][k].live
                                   /\ [i \in DOMAIN s |-> [s[i] EXCEPT !.live = FALSE]][k].token = s[k].token
<1> DEFINE ended(row) == [row EXCEPT !.live = FALSE]
           g == [i \in DOMAIN s |-> ended(s[i])]
<1>1. \A row \in LoginRow : ended(row) \in LoginRow /\ ~ended(row).live /\ ended(row).token = row.token
  BY DEF LoginRow
<1> HIDE DEF ended
<1>2. /\ g = [k \in 1 .. Len(s) |-> ended(s[k])]
      /\ DOMAIN g = 1 .. Len(s) /\ \A k \in 1 .. Len(s) : g[k] = ended(s[k])
  OBVIOUS
<1>3. \A k \in 1 .. Len(s) : g[k] \in LoginRow /\ ~g[k].live /\ g[k].token = s[k].token
  BY <1>1, <1>2
<1> HIDE DEF g
<1>4. g \in [1 .. Len(s) -> LoginRow]
  BY <1>2, <1>3
<1>5. g \in Seq(LoginRow) /\ Len(g) = Len(s)
  BY <1>2, <1>4
<1>6. g = [i \in DOMAIN s |-> [s[i] EXCEPT !.live = FALSE]]
  BY DEF g, ended
<1> QED
  BY <1>3, <1>5, <1>6

\* What the store may be put back to stays what it was.
LEMMA JobsKept ==
  ASSUME jobs \in [Job -> JobRow], StoresKept, LoginsCall, PagesSeeTheIdentity,
         story.putBack => story'.putBack, story.lateAdmin => story'.lateAdmin,
         \A j \in Job :
           \/ jobs'[j].previous = NewStore /\ jobs'[j].kind \notin {"login", "mfa"}
           \/ /\ jobs'[j].previous = jobs[j].previous
              /\ jobs'[j].kind \in {"login", "mfa"} => jobs[j].kind \in {"login", "mfa"} /\ jobs'[j].at = "call"
           \/ /\ jobs'[j].previous = authStore
              /\ jobs'[j].kind \in {"login", "mfa"} => authStore.status = "guest" /\ jobs'[j].at = "call"
  PROVE  StoresKept' /\ LoginsCall'
<1>1. LoginsCall'
  BY DEF LoginsCall
<1>2. ASSUME ~story'.putBack, ~story'.lateAdmin, NEW j \in Job, jobs'[j].previous.admin
      PROVE  jobs'[j].previous.identity = "account"
  BY <1>2, NewRows DEF StoresKept, PagesSeeTheIdentity
<1> QED
  BY <1>1, <1>2 DEF StoresKept

-----------------------------------------------------------------------------
\* A step that neither sends nor serves the refresh of an account keeps its tokens.
LEMMA TokensSame ==
  ASSUME TokensFit,
         Len(accountSessions) \in Nat, Len(accountSessions') = Len(accountSessions),
         \A i \in 1 .. Len(accountSessions) : /\ accountSessions'[i].token = accountSessions[i].token
                                              /\ accountSessions'[i].live => accountSessions[i].live,
         \A f, g \in flights' : f.kind = g.kind => f = g,
         \A f \in flights' : f.kind = "account" => f \in flights,
         \/ cookie' = NoRefresh
         \/ /\ cookie' = cookie
            /\ story'.lost \/ \A f \in flights : f.kind = "account" /\ f.served => f \in flights',
         story.lost => story'.lost, ~story'.doubled,
         \A j \in Job : LoginOk(j)' => LoginOk(j) /\ jobs'[j].sid = jobs[j].sid
  PROVE  TokensFit'
<1> USE DEF TokensFit
<1>1. FlightsFit'
  <2>1. ASSUME NEW f \in flights', f.kind = "account"
        PROVE  /\ f.shown.sid \in 0 .. Len(accountSessions')
               /\ f.served /\ f.got = "ok" =>
                    /\ f.shown.sid # 0 /\ f.sid = f.shown.sid
                    /\ accountSessions'[f.sid].live => accountSessions'[f.sid].token = f.token
    <3>1. f \in flights
      BY <2>1
    <3>2. /\ f.shown.sid \in 0 .. Len(accountSessions)
          /\ f.served /\ f.got = "ok" =>
               /\ f.shown.sid # 0 /\ f.sid = f.shown.sid
               /\ accountSessions[f.sid].live => accountSessions[f.sid].token = f.token
      BY <2>1, <3>1 DEF FlightsFit
    <3> QED
      BY <3>2
  <2> QED
    BY <2>1 DEF FlightsFit
<1>2. CookieFits'
  <2>1. CASE cookie' = NoRefresh
    BY <2>1, NewRows DEF CookieFits
  <2>2. CASE cookie' = cookie /\ (story'.lost \/ \A f \in flights : f.kind = "account" /\ f.served => f \in flights')
    BY <2>2 DEF CookieFits
  <2> QED
    BY <2>1, <2>2
<1>3. LoginsFit'
  <2>1. ASSUME NEW j \in Job, LoginOk(j)'
        PROVE  /\ jobs'[j].sid \in 1 .. Len(accountSessions') /\ accountSessions'[jobs'[j].sid].token = 1
               /\ cookie'.sid # jobs'[j].sid
               /\ \A f \in flights' : f.kind = "account" => f.shown.sid # jobs'[j].sid
    <3>1. LoginOk(j) /\ jobs'[j].sid = jobs[j].sid
      BY <2>1
    <3>2. /\ jobs[j].sid \in 1 .. Len(accountSessions) /\ accountSessions[jobs[j].sid].token = 1
          /\ cookie.sid # jobs[j].sid
          /\ \A f \in flights : f.kind = "account" => f.shown.sid # jobs[j].sid
      BY <3>1 DEF LoginsFit
    <3> QED
      BY <3>1, <3>2, NewRows
  <2>2. ASSUME NEW j \in Job, LoginOk(j)', NEW k \in Job, LoginOk(k)', jobs'[k].sid = jobs'[j].sid
        PROVE  k = j
    <3>1. LoginOk(j) /\ LoginOk(k) /\ jobs[k].sid = jobs[j].sid
      BY <2>2
    <3> QED
      BY <3>1 DEF LoginsFit
  <2> QED
    BY <2>1, <2>2 DEF LoginsFit
<1>4. RefreshOnce'
  <2>1. ASSUME ~story'.lost, NEW f \in flights', ~f.served, f.shown.sid # 0, f.kind = "account",
               accountSessions'[f.shown.sid].live
        PROVE  accountSessions'[f.shown.sid].token = f.shown.token
    <3>1. f \in flights /\ f.shown.sid \in 1 .. Len(accountSessions)
      BY <2>1 DEF FlightsFit
    <3> QED
      BY <2>1, <3>1 DEF RefreshOnce
  <2> QED
    BY <2>1 DEF RefreshOnce
<1> QED
  BY <1>1, <1>2, <1>3, <1>4

\* Where none is under way a refresh of the account shows the token of its cookie.
LEMMA TokensShown ==
  ASSUME TokensFit, Len(accountSessions) \in Nat,
         UNCHANGED <<cookie, accountSessions>>,
         NEW new, ~new.served, new.kind = "account", new.shown = cookie,
         \A f \in flights : f.kind # "account",
         \A f \in flights' : f.kind = "account" => f = new,
         \A f, g \in flights' : f.kind = g.kind => f = g,
         story'.lost <=> story.lost,
         ~story'.doubled,
         \A j \in Job : LoginOk(j)' => LoginOk(j) /\ jobs'[j].sid = jobs[j].sid
  PROVE  TokensFit'
<1> USE DEF TokensFit
<1>1. FlightsFit'
  BY DEF FlightsFit, CookieFits
<1>2. ~story.lost /\ cookie.sid # 0 /\ accountSessions[cookie.sid].live
        => accountSessions[cookie.sid].token = cookie.token
  BY DEF CookieFits
<1>3. CookieFits'
  BY <1>2 DEF CookieFits
<1>4. LoginsFit'
  <2>1. ASSUME NEW j \in Job, LoginOk(j)'
        PROVE  /\ jobs'[j].sid \in 1 .. Len(accountSessions') /\ accountSessions'[jobs'[j].sid].token = 1
               /\ cookie'.sid # jobs'[j].sid
               /\ \A f \in flights' : f.kind = "account" => f.shown.sid # jobs'[j].sid
    <3>1. LoginOk(j) /\ jobs'[j].sid = jobs[j].sid
      BY <2>1
    <3>2. /\ jobs[j].sid \in 1 .. Len(accountSessions) /\ accountSessions[jobs[j].sid].token = 1
          /\ cookie.sid # jobs[j].sid
      BY <3>1 DEF LoginsFit
    <3> QED
      BY <3>1, <3>2
  <2>2. ASSUME NEW j \in Job, LoginOk(j)', NEW k \in Job, LoginOk(k)', jobs'[k].sid = jobs'[j].sid
        PROVE  k = j
    <3>1. LoginOk(j) /\ LoginOk(k) /\ jobs[k].sid = jobs[j].sid
      BY <2>2
    <3> QED
      BY <3>1 DEF LoginsFit
  <2> QED
    BY <2>1, <2>2 DEF LoginsFit
<1>5. RefreshOnce'
  BY <1>2 DEF RefreshOnce
<1> QED
  BY <1>1, <1>3, <1>4, <1>5

\* A refresh that is asked for, under way already or not.
LEMMA RefreshKeeps ==
  ASSUME IdentityTypeOK, TokensFit, NEW kind \in {"guest", "account"}, Refresh(kind),
         UNCHANGED <<cookie, accountSessions>>,
         \A j \in Job : LoginOk(j)' => LoginOk(j) /\ jobs'[j].sid = jobs[j].sid
  PROVE  /\ flights' \subseteq FlightRow /\ IsFiniteSet(flights')
         /\ story' \in StoryRow
         /\ story'.lost <=> story.lost
         /\ story'.putBack <=> story.putBack
         /\ story'.lateAdmin <=> story.lateAdmin
         /\ story'.inside <=> story.inside
         /\ story'.overtaken <=> story.overtaken
         /\ TokensFit'
<1> USE DEF IdentityTypeOK
<1> DEFINE new == [kind |-> kind, n |-> Cardinality(flights), served |-> FALSE,
                   shown |-> RefreshTokenOf(kind), got |-> "none", sid |-> 0, token |-> 0]
           again == /\ FreeToFly(kind) /\ RefreshTokenOf(kind) # NoRefresh
                    /\ \E f \in flights : f.kind = kind /\ f.shown = RefreshTokenOf(kind)
<1>1. RefreshTokenOf(kind) \in RefreshRow /\ (kind = "account" => RefreshTokenOf(kind) = cookie)
  BY DEF RefreshTokenOf
<1>2. Cardinality(flights) \in Nat
  BY FS_CardinalityType
<1>3. new \in FlightRow /\ new.kind = kind /\ ~new.served /\ new.shown = RefreshTokenOf(kind)
  BY <1>1, <1>2 DEF FlightRow
<1>4. ~again
  BY DEF FreeToFly
<1>5. story' = [story EXCEPT !.doubled = @ \/ again]
  BY DEF Refresh
<1>6. flights' = IF FreeToFly(kind) THEN flights \cup {new} ELSE flights
  BY DEF Refresh
<1> HIDE DEF new, again
<1>7. /\ story' \in StoryRow
      /\ story'.lost <=> story.lost
      /\ story'.putBack <=> story.putBack
      /\ story'.lateAdmin <=> story.lateAdmin
      /\ story'.inside <=> story.inside
      /\ story'.overtaken <=> story.overtaken
      /\ story'.doubled <=> story.doubled
  BY <1>4, <1>5 DEF StoryRow
<1>8. ~story'.doubled
  BY <1>7 DEF TokensFit, RefreshOnce
<1>9. flights' \subseteq FlightRow /\ IsFiniteSet(flights')
  BY <1>3, <1>6, FS_AddElement
<1>10. Len(accountSessions) \in Nat
  OBVIOUS
<1>11. CASE FreeToFly(kind) /\ kind = "account"
  <2>1. /\ new.shown = cookie /\ \A f \in flights : f.kind # "account"
        /\ \A f \in flights' : f.kind = "account" => f = new
    BY <1>1, <1>3, <1>6, <1>11 DEF FreeToFly
  <2>2. \A f, g \in flights' : f.kind = g.kind => f = g
    BY <1>3, <1>6, <1>11 DEF FreeToFly, TokensFit, FlightsFit
  <2> QED
    BY <1>3, <1>7, <1>8, <1>9, <1>10, <1>11, <2>1, <2>2, TokensShown
<1>12. CASE ~(FreeToFly(kind) /\ kind = "account")
  <2>1. \A f, g \in flights' : f.kind = g.kind => f = g
    BY <1>3, <1>6 DEF FreeToFly, TokensFit, FlightsFit
  <2>2. flights \subseteq flights' /\ \A f \in flights' : f.kind = "account" => f \in flights
    BY <1>3, <1>6, <1>12
  <2> QED
    BY <1>7, <1>8, <1>9, <1>10, <2>1, <2>2, TokensSame
<1> QED
  BY <1>7, <1>9, <1>11, <1>12

\* What the pages see, where a step leaves it alone.
LEMMA PagesStillSee ==
  ASSUME StoreFits, bearer'.kind = bearer.kind, authStore'.identity = authStore.identity,
         authStore'.admin => authStore.admin,
         story.putBack => story'.putBack, story.lateAdmin => story'.lateAdmin,
         story'.inside => story.inside, story.overtaken => story'.overtaken
  PROVE  PagesSeeTheIdentity' /\ LoginLasts'
  BY DEF StoreFits, PagesSeeTheIdentity, LoginLasts

\* And a new identity.
LEMMA PagesSeeTheNew ==
  ASSUME authStore \in StoreRow, NEW i \in BearerRow, setApiIdentity(i),
         story'.inside /\ ~story'.overtaken => i.kind = "account"
  PROVE  /\ bearer' \in BearerRow /\ authStore' \in StoreRow
         /\ PagesSeeTheIdentity' /\ LoginLasts' /\ WaitsForSomething'
  BY ListenedIs DEF setApiIdentity, PagesSeeTheIdentity, LoginLasts, WaitsForSomething

\* Whoever waits goes on waiting for what is still under way.
LEMMA StillWaits ==
  ASSUME StoreFits,
         authStore'.status = "booting" =>
           authStore.status = "booting" /\ \A j \in Job : jobs[j].kind = "boot" => jobs'[j].kind = "boot",
         authStore'.pending =>
           authStore.pending /\ \A j \in Job : jobs[j].kind \in {"login", "mfa", "logout"} =>
                                                 jobs'[j].kind \in {"login", "mfa", "logout"}
  PROVE  WaitsForSomething'
  BY DEF StoreFits, WaitsForSomething

-----------------------------------------------------------------------------
\* What a refresh showed.
LEMMA FlightShows ==
  ASSUME NEW f \in FlightRow
  PROVE  f.shown.sid \in Nat /\ f.shown.token + 1 \in Nat
  BY DEF FlightRow, RefreshRow

\* And a session of which the token is rotated.
LEMMA TokenRaised ==
  ASSUME NEW row \in LoginRow
  PROVE  /\ [row EXCEPT !.token = @ + 1] \in LoginRow
         /\ [row EXCEPT !.token = @ + 1].token = row.token + 1
         /\ [row EXCEPT !.token = @ + 1].live <=> row.live
  BY DEF LoginRow

LEMMA ServeGuestFlightKeeps ==
  ASSUME IdentityInv, NEW f \in flights, ServeGuestFlight(f)
  PROVE  IdentityInv'
<1> USE DEF IdentityInv, IdentityTypeOK
<1> DEFINE good == /\ f.shown.sid # 0 /\ guestSessions[f.shown.sid].live
                   /\ guestSessions[f.shown.sid].token = f.shown.token
           got == IF good THEN "ok" ELSE "401"
           new == [f EXCEPT !.served = TRUE, !.got = got, !.sid = f.shown.sid, !.token = f.shown.token + 1]
           row == [guestSessions[f.shown.sid] EXCEPT !.token = @ + 1]
<1>1. flights' = (flights \ {f}) \cup {new} /\ f.kind = "guest"
  BY DEF ServeGuestFlight
<1>2. guestSessions' = [guestSessions EXCEPT ![f.shown.sid] = row] \/ guestSessions' = guestSessions
  BY DEF ServeGuestFlight
<1>3. f.shown.sid \in 1 .. Len(guestSessions) => row \in LoginRow
  <2> SUFFICES ASSUME f.shown.sid \in 1 .. Len(guestSessions) PROVE row \in LoginRow
    OBVIOUS
  <2>1. guestSessions[f.shown.sid] \in LoginRow
    OBVIOUS
  <2> QED
    BY <2>1, TokenRaised
<1>4. got \in {"ok", "401"} /\ f \in FlightRow
  OBVIOUS
<1> HIDE DEF good, row, got
<1>a. new = [f EXCEPT !.served = TRUE, !.got = got, !.sid = f.shown.sid, !.token = f.shown.token + 1]
  OBVIOUS
<1> HIDE DEF new
<1>5. new \in FlightRow /\ new.kind = "guest"
  <2>1. f.shown.sid \in Nat /\ f.shown.token + 1 \in Nat
    BY <1>4, FlightShows
  <2> QED
    BY <1>1, <1>4, <1>a, <2>1 DEF FlightRow
<1>6. guestSessions' \in Seq(LoginRow)
  BY <1>2, <1>3, OneSessionChanges
<1>7. flights' \subseteq FlightRow /\ IsFiniteSet(flights')
  BY <1>1, <1>5, FS_AddElement, FS_RemoveElement
<1>8. UNCHANGED <<bearer, guestKey, cookie, authStore, jobs, accountSessions, story>>
  BY DEF ServeGuestFlight, browserVars
<1>9. IdentityTypeOK'
  BY <1>6, <1>7, <1>8
<1>10. \A g, h \in flights' : g.kind = h.kind => g = h
  BY <1>1, <1>5 DEF TokensFit, FlightsFit
<1>11. /\ \A g \in flights' : g.kind = "account" => g \in flights
       /\ \A g \in flights : g.kind = "account" => g \in flights'
  BY <1>1, <1>5
<1>12. ~story'.doubled
  BY <1>8 DEF TokensFit, RefreshOnce
<1>13. /\ Len(accountSessions) \in Nat
       /\ \A j \in Job : LoginOk(j)' => LoginOk(j) /\ jobs'[j].sid = jobs[j].sid
  BY <1>8 DEF LoginOk
<1>14. TokensFit'
  BY <1>8, <1>10, <1>11, <1>12, <1>13, TokensSame
<1>15. StoreFits'
  BY <1>8 DEF StoreFits, StoresKept, LoginsCall, PagesSeeTheIdentity, LoginLasts, WaitsForSomething
<1> QED
  BY <1>9, <1>14, <1>15

LEMMA ServeAccountFlightKeeps ==
  ASSUME IdentityInv, NEW f \in flights, ServeAccountFlight(f)
  PROVE  IdentityInv'
<1> USE DEF IdentityInv, IdentityTypeOK
<1> DEFINE sid == f.shown.sid
           here == accountSessions[sid]
           fresh == sid # 0 /\ here.live /\ here.token = f.shown.token
<1>1. PICK graced \in BOOLEAN :
        /\ graced => sid # 0 /\ here.live /\ here.token = f.shown.token + 1
        /\ accountSessions' =
             CASE fresh -> [accountSessions EXCEPT ![sid].token = @ + 1]
               [] ~fresh /\ sid # 0 /\ ~graced -> [i \in DOMAIN accountSessions |-> [accountSessions[i] EXCEPT !.live = FALSE]]
               [] OTHER -> accountSessions
        /\ flights' = (flights \ {f}) \cup
             {[f EXCEPT !.served = TRUE, !.got = IF fresh \/ graced THEN "ok" ELSE "401",
                        !.sid = f.shown.sid, !.token = f.shown.token + 1]}
  BY DEF ServeAccountFlight
<1> DEFINE got == IF fresh \/ graced THEN "ok" ELSE "401"
           new == [f EXCEPT !.served = TRUE, !.got = got, !.sid = f.shown.sid, !.token = f.shown.token + 1]
<1>2. flights' = (flights \ {f}) \cup {new}
  BY <1>1
<1>3. /\ f.kind = "account" /\ ~f.served /\ f \in FlightRow
      /\ UNCHANGED <<bearer, guestKey, cookie, authStore, jobs, guestSessions, story>>
  BY DEF ServeAccountFlight, browserVars
<1>4. got \in {"ok", "401"} /\ (got = "ok" <=> fresh \/ graced)
  OBVIOUS
<1> HIDE DEF got
<1>a. new = [f EXCEPT !.served = TRUE, !.got = got, !.sid = f.shown.sid, !.token = f.shown.token + 1]
  OBVIOUS
<1> HIDE DEF new
<1>5. /\ new \in FlightRow /\ new.kind = "account" /\ new.served /\ new.got = got
      /\ new.shown = f.shown /\ new.sid = sid /\ new.token = f.shown.token + 1
  <2>1. f.shown.sid \in Nat /\ f.shown.token + 1 \in Nat
    BY <1>3, FlightShows
  <2> QED
    BY <1>3, <1>4, <1>a, <2>1 DEF FlightRow
<1>6. sid \in 0 .. Len(accountSessions) /\ sid \in Nat /\ f.shown.token \in Nat
  BY <1>3 DEF TokensFit, FlightsFit, FlightRow, RefreshRow
<1>7. /\ accountSessions' \in Seq(LoginRow) /\ Len(accountSessions') = Len(accountSessions)
      /\ \A k \in 1 .. Len(accountSessions) :
           /\ k # sid \/ got # "ok" => accountSessions'[k].token = accountSessions[k].token
           /\ accountSessions'[k].live => accountSessions[k].live
      /\ got = "ok" => sid # 0 /\ accountSessions'[sid].token = f.shown.token + 1
  <2>1. CASE fresh
    <3> DEFINE row == [accountSessions[sid] EXCEPT !.token = @ + 1]
    <3>1. sid \in 1 .. Len(accountSessions) /\ accountSessions[sid] \in LoginRow
      BY <1>6, <2>1
    <3>a. accountSessions[sid].token = f.shown.token
      BY <2>1
    <3>2. /\ row \in LoginRow /\ row.token = f.shown.token + 1
          /\ row.live <=> accountSessions[sid].live
      BY <3>1, <3>a, TokenRaised
    <3>3. accountSessions' = [accountSessions EXCEPT ![sid] = row]
      BY <1>1, <2>1
    <3> HIDE DEF row
    <3>4. /\ accountSessions' \in Seq(LoginRow) /\ Len(accountSessions') = Len(accountSessions)
          /\ \A k \in 1 .. Len(accountSessions) : accountSessions'[k] = IF k = sid THEN row ELSE accountSessions[k]
      <4>1. sid \in 1 .. Len(accountSessions) => row \in LoginRow
        BY <3>2
      <4> HIDE DEF sid
      <4> QED
        BY <3>3, <4>1, OneSessionChanges
    <3>5. got = "ok"
      BY <1>4, <2>1
    <3>6. ASSUME NEW k \in 1 .. Len(accountSessions)
          PROVE  /\ k # sid => accountSessions'[k].token = accountSessions[k].token
                 /\ accountSessions'[k].live => accountSessions[k].live
      <4>1. CASE k = sid
        BY <3>2, <3>4, <4>1
      <4>2. CASE k # sid
        BY <3>4, <4>2
      <4> QED
        BY <4>1, <4>2
    <3> HIDE DEF fresh
    <3> QED
      BY <3>1, <3>2, <3>4, <3>5, <3>6
  <2>2. CASE ~fresh /\ sid # 0 /\ ~graced
    <3>1. accountSessions' = [i \in DOMAIN accountSessions |-> [accountSessions[i] EXCEPT !.live = FALSE]]
      BY <1>1, <2>2
    <3>2. /\ accountSessions' \in Seq(LoginRow) /\ Len(accountSessions') = Len(accountSessions)
          /\ \A k \in 1 .. Len(accountSessions) : ~accountSessions'[k].live
                                                 /\ accountSessions'[k].token = accountSessions[k].token
      BY <3>1, AllSessionsEnd
    <3> QED
      BY <1>4, <2>2, <3>2
  <2>3. CASE ~fresh /\ ~(sid # 0 /\ ~graced)
    <3>1. accountSessions' = accountSessions
      BY <1>1, <2>3
    <3> QED
      BY <1>1, <1>4, <2>3, <3>1
  <2> QED
    BY <2>1, <2>2, <2>3
<1> HIDE DEF fresh, here
<1>8. flights' \subseteq FlightRow /\ IsFiniteSet(flights')
  BY <1>2, <1>5, FS_AddElement, FS_RemoveElement
<1>9. IdentityTypeOK'
  BY <1>3, <1>7, <1>8
<1>10. \A g \in flights' : g.kind = "account" => g = new
  BY <1>2, <1>3 DEF TokensFit, FlightsFit
<1>11. \A g, h \in flights' : g.kind = h.kind => g = h
  BY <1>2, <1>3, <1>5 DEF TokensFit, FlightsFit
<1>12. FlightsFit'
  BY <1>5, <1>6, <1>7, <1>10, <1>11 DEF FlightsFit
<1>13. CookieFits'
  <2>1. ASSUME ~story.lost, cookie.sid # 0, accountSessions'[cookie.sid].live
        PROVE  \/ accountSessions'[cookie.sid].token = cookie.token
               \/ \E g \in flights' : g.kind = "account" /\ g.served /\ g.got = "ok" /\ g.sid = cookie.sid
    <3>1. cookie.sid \in 1 .. Len(accountSessions)
      BY <2>1 DEF TokensFit, CookieFits
    <3>2. accountSessions[cookie.sid].live
      BY <1>7, <2>1, <3>1
    <3>3. accountSessions[cookie.sid].token = cookie.token
      BY <1>3, <2>1, <3>2 DEF TokensFit, CookieFits, FlightsFit
    <3>4. CASE cookie.sid # sid \/ got # "ok"
      BY <1>7, <3>1, <3>3, <3>4
    <3>5. CASE cookie.sid = sid /\ got = "ok"
      BY <1>2, <1>5, <3>5
    <3> QED
      BY <3>4, <3>5
  <2> QED
    BY <1>3, <1>7, <2>1 DEF TokensFit, CookieFits
<1>14. LoginsFit'
  <2>1. \A j \in Job : LoginOk(j)' <=> LoginOk(j)
    BY <1>3 DEF LoginOk
  <2>2. ASSUME NEW j \in Job, LoginOk(j)
        PROVE  /\ jobs[j].sid \in 1 .. Len(accountSessions') /\ accountSessions'[jobs[j].sid].token = 1
               /\ cookie.sid # jobs[j].sid
               /\ \A g \in flights' : g.kind = "account" => g.shown.sid # jobs[j].sid
    <3>1. /\ jobs[j].sid \in 1 .. Len(accountSessions) /\ accountSessions[jobs[j].sid].token = 1
          /\ cookie.sid # jobs[j].sid /\ sid # jobs[j].sid
      BY <1>3, <2>2 DEF TokensFit, LoginsFit
    <3> QED
      BY <1>5, <1>7, <1>10, <3>1
  <2>3. \A j, k \in Job : LoginOk(j) /\ LoginOk(k) /\ jobs[k].sid = jobs[j].sid => k = j
    BY DEF TokensFit, LoginsFit
  <2> QED
    BY <1>3, <2>1, <2>2, <2>3 DEF LoginsFit
<1>15. RefreshOnce'
  BY <1>3, <1>5, <1>10 DEF TokensFit, RefreshOnce
<1>16. StoreFits'
  BY <1>3 DEF StoreFits, StoresKept, LoginsCall, PagesSeeTheIdentity, LoginLasts, WaitsForSomething
<1> QED
  BY <1>9, <1>12, <1>13, <1>14, <1>15, <1>16 DEF TokensFit

LEMMA FlightLandsKeeps ==
  ASSUME IdentityInv, NEW f \in flights, FlightLands(f)
  PROVE  IdentityInv'
<1> USE DEF IdentityInv, IdentityTypeOK
<1> DEFINE now == Bearer(f.kind, f.sid)
<1>1. /\ f \in FlightRow /\ f.kind \in {"guest", "account"} /\ f.sid \in Nat /\ f.token \in Nat
      /\ f.served /\ f.got = "ok" /\ flights' = flights \ {f}
      /\ setApiIdentity(now)
      /\ UNCHANGED <<accountSessions, guestSessions>>
  BY DEF FlightLands, FlightRow, sessionTables
<1>2. now \in BearerRow /\ now.kind = f.kind
  BY <1>1, BearerIs DEF Holder
<1>3. /\ jobs' = [j \in Job |->
              IF j \notin Awaiting(f.kind) THEN jobs[j]
              ELSE IF jobs[j].kind = "boot" THEN AdminJob(now)
              ELSE [jobs[j] EXCEPT !.at = "call", !.with = now, !.got = "none", !.again = TRUE]]
      /\ story' = [story EXCEPT !.inside = @ \/ f.kind = "account",
                                !.overtaken = @ \/ (story.inside /\ f.kind = "guest")]
  BY DEF FlightLands
<1> HIDE DEF now
<1>a. /\ f.kind = "guest" => guestKey' = [sid |-> f.sid, token |-> f.token] /\ cookie' = cookie
      /\ f.kind = "account" => cookie' = [sid |-> f.sid, token |-> f.token] /\ guestKey' = guestKey
  BY DEF FlightLands
<1>4. ASSUME NEW j \in Job
      PROVE  /\ jobs'[j] \in JobRow
             /\ \/ jobs'[j].previous = NewStore /\ jobs'[j].kind \notin {"login", "mfa"}
                \/ /\ jobs'[j].previous = jobs[j].previous /\ jobs'[j].kind = jobs[j].kind
                   /\ jobs'[j].at = "call" /\ jobs'[j].got = "none"
                \/ jobs'[j] = jobs[j]
  <2>1. CASE j \notin Awaiting(f.kind)
    BY <1>3, <2>1
  <2>2. CASE j \in Awaiting(f.kind) /\ jobs[j].kind = "boot"
    <3>1. jobs'[j] = AdminJob(now)
      BY <1>3, <2>2
    <3> QED
      BY <1>2, <3>1, AdminJobIs
  <2>3. CASE j \in Awaiting(f.kind) /\ jobs[j].kind # "boot"
    <3>1. jobs'[j] = [jobs[j] EXCEPT !.at = "call", !.with = now, !.got = "none", !.again = TRUE]
      BY <1>3, <2>3
    <3>2. jobs[j] \in JobRow
      OBVIOUS
    <3> QED
      BY <1>2, <3>1, <3>2 DEF JobRow
  <2> QED
    BY <2>1, <2>2, <2>3
<1>5. jobs' \in [Job -> JobRow]
  BY <1>3, <1>4
<1>6. /\ story' \in StoryRow
      /\ story'.inside <=> story.inside \/ f.kind = "account"
      /\ story'.overtaken <=> story.overtaken \/ (story.inside /\ f.kind = "guest")
      /\ story'.lost <=> story.lost
      /\ story'.doubled <=> story.doubled
      /\ story'.putBack <=> story.putBack
      /\ story'.lateAdmin <=> story.lateAdmin
  BY <1>3 DEF StoryRow
<1>7. guestKey' \in RefreshRow /\ cookie' \in RefreshRow
  BY <1>1, <1>a DEF RefreshRow
<1>8. /\ bearer' \in BearerRow /\ authStore' \in StoreRow
      /\ PagesSeeTheIdentity' /\ LoginLasts' /\ WaitsForSomething'
  BY <1>1, <1>2, <1>6, PagesSeeTheNew
<1>9. IdentityTypeOK'
  BY <1>1, <1>5, <1>6, <1>7, <1>8, FS_RemoveElement
<1>10. StoresKept' /\ LoginsCall'
  <2>1. \A j \in Job :
          \/ jobs'[j].previous = NewStore /\ jobs'[j].kind \notin {"login", "mfa"}
          \/ /\ jobs'[j].previous = jobs[j].previous
             /\ jobs'[j].kind \in {"login", "mfa"} => jobs[j].kind \in {"login", "mfa"} /\ jobs'[j].at = "call"
    BY <1>4 DEF StoreFits, LoginsCall
  <2> QED
    BY <1>6, <2>1, JobsKept DEF StoreFits
<1>11. \A j \in Job : LoginOk(j)' => LoginOk(j) /\ jobs'[j].sid = jobs[j].sid
  BY <1>4 DEF LoginOk
<1>12. \A g, h \in flights' : g.kind = h.kind => g = h
  BY <1>1 DEF TokensFit, FlightsFit
<1>13. ~story'.doubled
  BY <1>6 DEF TokensFit, RefreshOnce
<1>14. CASE f.kind = "guest"
  <2>1. /\ cookie' = cookie
        /\ \A g \in flights : g.kind = "account" => g \in flights'
    BY <1>1, <1>a, <1>14
  <2> QED
    BY <1>1, <1>6, <1>8, <1>9, <1>10, <1>11, <1>12, <1>13, <2>1, TokensSame DEF StoreFits
<1>15. CASE f.kind = "account"
  <2>1. cookie'.sid = f.sid /\ cookie'.token = f.token
    BY <1>a, <1>15
  <2>2. \A g \in flights' : g.kind # "account"
    BY <1>1, <1>15 DEF TokensFit, FlightsFit
  <2>3. /\ f.sid = f.shown.sid /\ f.sid \in 1 .. Len(accountSessions)
        /\ accountSessions[f.sid].live => accountSessions[f.sid].token = f.token
    BY <1>1, <1>15 DEF TokensFit, FlightsFit
  <2>4. FlightsFit' /\ CookieFits' /\ RefreshOnce'
    BY <1>1, <1>12, <1>13, <2>1, <2>2, <2>3 DEF FlightsFit, CookieFits, RefreshOnce
  <2>5. LoginsFit'
    <3>1. ASSUME NEW j \in Job, LoginOk(j)'
          PROVE  /\ jobs'[j].sid \in 1 .. Len(accountSessions) /\ accountSessions[jobs'[j].sid].token = 1
                 /\ cookie'.sid # jobs'[j].sid
      <4>1. LoginOk(j) /\ jobs'[j].sid = jobs[j].sid
        BY <1>11, <3>1
      <4> QED
        BY <1>15, <2>1, <2>3, <4>1 DEF TokensFit, LoginsFit
    <3>2. \A j, k \in Job : LoginOk(j)' /\ LoginOk(k)' /\ jobs'[k].sid = jobs'[j].sid => k = j
      BY <1>11 DEF TokensFit, LoginsFit
    <3> QED
      BY <1>1, <2>2, <3>1, <3>2 DEF LoginsFit
  <2> QED
    BY <1>8, <1>9, <1>10, <2>4, <2>5 DEF TokensFit, StoreFits
<1> QED
  BY <1>1, <1>14, <1>15

LEMMA FlightLostKeeps ==
  ASSUME IdentityInv, NEW f \in flights, FlightLost(f)
  PROVE  IdentityInv'
<1> USE DEF IdentityInv, IdentityTypeOK
<1> DEFINE booting == {j \in Awaiting(f.kind) : jobs[j].kind = "boot"}
           older == \E j \in booting : jobs[j].previous.identity # authStore.identity
           nobodyLeaves == \A j \in Awaiting(f.kind) : jobs[j].kind # "logout"
<1>1. /\ flights' = flights \ {f}
      /\ jobs' = [j \in Job |-> IF j \in Awaiting(f.kind) THEN NoJob ELSE jobs[j]]
      /\ story' = [story EXCEPT !.lost = @ \/ f.served, !.putBack = @ \/ older]
      /\ authStore' = IF booting # {} THEN BootFailed(CHOOSE j \in booting : TRUE)
                      ELSE [authStore EXCEPT !.pending = @ /\ nobodyLeaves]
      /\ UNCHANGED <<bearer, guestKey, cookie, accountSessions, guestSessions>>
  BY DEF FlightLost, browserVars, sessionTables
<1>2. booting \subseteq Job /\ Awaiting(f.kind) \subseteq Job
  BY DEF Awaiting
<1>3. f \in FlightRow /\ f.served \in BOOLEAN
  BY DEF FlightRow
<1>4. \A j \in Job : jobs'[j] = NoJob \/ (jobs'[j] = jobs[j] /\ j \notin Awaiting(f.kind))
  BY <1>1
<1>5. jobs' \in [Job -> JobRow]
  BY <1>1, NewRows
<1>6. older => \E j \in booting : jobs[j].previous.identity # authStore.identity
  OBVIOUS
<1>7. ~older => \A j \in booting : jobs[j].previous.identity = authStore.identity
  OBVIOUS
<1>8. nobodyLeaves \in BOOLEAN /\ older \in BOOLEAN
  OBVIOUS
<1>9. nobodyLeaves => \A j \in Awaiting(f.kind) : jobs[j].kind # "logout"
  OBVIOUS
<1> HIDE DEF older, nobodyLeaves
<1>10. /\ story' \in StoryRow
       /\ story'.lost <=> story.lost \/ f.served
       /\ story'.putBack <=> story.putBack \/ older
       /\ story'.inside <=> story.inside
       /\ story'.overtaken <=> story.overtaken
       /\ story'.doubled <=> story.doubled
       /\ story'.lateAdmin <=> story.lateAdmin
  BY <1>1, <1>3, <1>8 DEF StoryRow
<1>11. StoresKept' /\ LoginsCall'
  <2>1. \A j \in Job :
          \/ jobs'[j].previous = NewStore /\ jobs'[j].kind \notin {"login", "mfa"}
          \/ /\ jobs'[j].previous = jobs[j].previous
             /\ jobs'[j].kind \in {"login", "mfa"} => jobs[j].kind \in {"login", "mfa"} /\ jobs'[j].at = "call"
    BY <1>4, NewRows DEF StoreFits, LoginsCall
  <2> QED
    BY <1>10, <2>1, JobsKept DEF StoreFits
<1>12. TokensFit'
  <2>1. \A j \in Job : LoginOk(j)' => LoginOk(j) /\ jobs'[j].sid = jobs[j].sid
    BY <1>4, NewRows DEF LoginOk
  <2>2. \A g, h \in flights' : g.kind = h.kind => g = h
    BY <1>1 DEF TokensFit, FlightsFit
  <2>3. ~story'.doubled
    BY <1>10 DEF TokensFit, RefreshOnce
  <2>4. story'.lost \/ \A g \in flights : g.kind = "account" /\ g.served => g \in flights'
    BY <1>1, <1>3, <1>10
  <2> QED
    BY <1>1, <1>10, <2>1, <2>2, <2>3, <2>4, TokensSame
<1>13. /\ authStore' \in StoreRow /\ PagesSeeTheIdentity' /\ LoginLasts' /\ WaitsForSomething'
  <2>1. CASE booting # {}
    <3> DEFINE c == CHOOSE j \in booting : TRUE
    <3>1. c \in booting /\ c \in Job
      BY <1>2, <2>1
    <3> HIDE DEF c
    <3>2. /\ authStore' \in StoreRow /\ authStore'.identity = jobs[c].previous.identity
          /\ authStore'.status = "error"
          /\ authStore'.admin <=> jobs[c].previous.admin
          /\ ~authStore'.pending
      <4>1. authStore' = BootFailed(c)
        BY <1>1, <2>1 DEF c
      <4> QED
        BY <3>1, <4>1, BootFailedIs
    <3>3. ASSUME ~story'.putBack PROVE jobs[c].previous.identity = bearer.kind
      <4>1. ~story.putBack /\ ~older
        BY <1>10, <3>3
      <4> QED
        BY <1>7, <3>1, <4>1 DEF StoreFits, PagesSeeTheIdentity
    <3>4. ASSUME ~story'.putBack, ~story'.lateAdmin, authStore'.admin PROVE bearer.kind = "account"
      BY <1>10, <3>1, <3>2, <3>3, <3>4 DEF StoreFits, StoresKept
    <3>5. PagesSeeTheIdentity'
      BY <1>1, <3>2, <3>3, <3>4 DEF PagesSeeTheIdentity
    <3> QED
      BY <1>1, <1>10, <3>2, <3>5 DEF StoreFits, LoginLasts, WaitsForSomething
  <2>2. CASE booting = {}
    <3>1. authStore' = [authStore EXCEPT !.pending = @ /\ nobodyLeaves]
      BY <1>1, <2>2
    <3>2. /\ authStore' \in StoreRow /\ authStore'.identity = authStore.identity
          /\ authStore'.status = authStore.status
          /\ authStore'.admin <=> authStore.admin
          /\ authStore'.pending <=> authStore.pending /\ nobodyLeaves
      BY <1>8, <3>1 DEF StoreRow
    <3>3. PagesSeeTheIdentity' /\ LoginLasts'
      BY <1>1, <1>10, <3>2, PagesStillSee
    <3>4. \A j \in Job : jobs[j].kind = "boot" => jobs'[j] = jobs[j]
      BY <1>4, <2>2, <1>1
    <3>5. nobodyLeaves => \A j \in Job : jobs[j].kind \in {"login", "mfa", "logout"} => jobs'[j] = jobs[j]
      <4>1. \A j \in Awaiting(f.kind) : jobs[j].kind \notin {"login", "mfa"}
        BY DEF StoreFits, LoginsCall, Awaiting
      <4> QED
        BY <1>1, <1>9, <4>1
    <3>6. WaitsForSomething'
      BY <3>2, <3>4, <3>5, StillWaits
    <3> QED
      BY <3>2, <3>3, <3>6
  <2> QED
    BY <2>1, <2>2
<1>14. IdentityTypeOK'
  BY <1>1, <1>5, <1>10, <1>13, FS_RemoveElement
<1> QED
  BY <1>11, <1>12, <1>13, <1>14 DEF StoreFits

LEMMA FlightRefusedKeeps ==
  ASSUME IdentityInv, NEW f \in flights, FlightRefused(f)
  PROVE  IdentityInv'
<1> USE DEF IdentityInv, IdentityTypeOK
<1> DEFINE booting == {j \in Awaiting(f.kind) : jobs[j].kind = "boot"}
           callers == Awaiting(f.kind) \ booting
           leaving == {j \in callers : jobs[j].kind = "logout"}
           kept    == f.kind = "guest" /\ roomOpen
           alone   == flights \ {f}
           new     == [kind |-> "account", n |-> Cardinality(alone), served |-> FALSE,
                       shown |-> cookie, got |-> "none", sid |-> 0, token |-> 0]
           older   == kept /\ \E j \in booting : jobs[j].previous.identity # authStore.identity
           further == booting # {} /\ ~kept /\ f.kind = "guest" /\ \A o \in alone : o.kind # "account"
           chased  == story.inside /\ callers # {} /\ f.kind = "guest"
<1>1. /\ bearer' = IF callers = {} THEN bearer ELSE Anonymous
      /\ authStore' = CASE callers # {} -> Listened(Anonymous)
                        [] callers = {} /\ booting # {} /\ kept -> BootFailed(CHOOSE j \in booting : TRUE)
                        [] OTHER -> authStore
      /\ guestKey' \in {NoRefresh, guestKey}
      /\ cookie' = IF f.kind = "account" THEN NoRefresh ELSE cookie
      /\ UNCHANGED <<accountSessions, guestSessions>>
  BY DEF FlightRefused, sessionTables
<1>2. jobs' = [j \in Job |->
              CASE j \in leaving -> [jobs[j] EXCEPT !.at = "issue", !.got = "none"]
                [] j \in callers \ leaving -> NoJob
                [] j \in booting /\ kept -> NoJob
                [] j \in booting /\ ~kept /\ f.kind = "guest" -> [jobs[j] EXCEPT !.on = "account"]
                [] j \in booting /\ ~kept /\ f.kind = "account" -> [jobs[j] EXCEPT !.at = "issue", !.got = "none"]
                [] OTHER -> jobs[j]]
  BY DEF FlightRefused
<1>3. flights' = IF further THEN alone \cup {new} ELSE alone
  BY DEF FlightRefused
<1>4. story' = [story EXCEPT !.inside = @ /\ f.kind = "guest", !.putBack = @ \/ older,
                             !.overtaken = @ \/ chased]
  BY DEF FlightRefused
<1>5. f \in FlightRow /\ f.kind \in {"guest", "account"} /\ f.served /\ f.got = "401"
  BY DEF FlightRefused, FlightRow
<1>6. booting \subseteq Job /\ callers \subseteq Job /\ Awaiting(f.kind) \subseteq Job
  BY DEF Awaiting
<1>7. /\ older \in BOOLEAN /\ chased \in BOOLEAN
      /\ kept /\ ~older => \A j \in booting : jobs[j].previous.identity = authStore.identity
      /\ story.inside /\ f.kind = "guest" /\ callers # {} => chased
  OBVIOUS
<1>8. ASSUME NEW j \in Job
      PROVE  /\ jobs'[j] \in JobRow
             /\ \/ jobs'[j] = jobs[j] /\ j \notin Awaiting(f.kind)
                \/ jobs'[j] = NoJob /\ j \in callers
                \/ jobs'[j] = NoJob /\ j \in booting /\ kept
                \/ /\ jobs'[j].kind = jobs[j].kind /\ jobs'[j].previous = jobs[j].previous
                   /\ j \in Awaiting(f.kind) /\ (j \in booting => ~kept)
  <2>1. jobs[j] \in JobRow /\ NoJob \in JobRow
    BY NewRows
  <2> DEFINE row1 == [jobs[j] EXCEPT !.at = "issue", !.got = "none"]
             row2 == [jobs[j] EXCEPT !.on = "account"]
  <2>2. /\ row1 \in JobRow /\ row1.kind = jobs[j].kind /\ row1.previous = jobs[j].previous
        /\ row2 \in JobRow /\ row2.kind = jobs[j].kind /\ row2.previous = jobs[j].previous
    BY <2>1 DEF JobRow
  <2>3. jobs'[j] = CASE j \in leaving -> row1
                     [] j \in callers \ leaving -> NoJob
                     [] j \in booting /\ kept -> NoJob
                     [] j \in booting /\ ~kept /\ f.kind = "guest" -> row2
                     [] j \in booting /\ ~kept /\ f.kind = "account" -> row1
                     [] OTHER -> jobs[j]
    BY <1>2
  <2> HIDE DEF row1, row2
  <2>4. CASE j \in leaving
    <3>1. j \in Awaiting(f.kind) /\ j \notin booting
      BY <2>4
    <3> HIDE DEF booting, callers, kept
    <3> QED
      BY <2>2, <2>3, <2>4, <3>1
  <2>5. CASE j \in callers \ leaving
    <3>1. jobs'[j] = NoJob /\ j \in callers
      BY <2>3, <2>5
    <3> QED
      BY <2>1, <3>1
  <2>6. CASE j \in booting
    <3>1. j \in Awaiting(f.kind) /\ j \notin callers /\ j \notin leaving
      BY <2>6
    <3> HIDE DEF booting, callers, leaving, kept
    <3> QED
      BY <1>5, <2>1, <2>2, <2>3, <2>6, <3>1
  <2>7. CASE j \notin Awaiting(f.kind)
    <3>1. j \notin callers /\ j \notin leaving /\ j \notin booting
      BY <2>7
    <3> HIDE DEF booting, callers, leaving, kept
    <3> QED
      BY <2>1, <2>3, <2>7, <3>1
  <2> QED
    BY <2>4, <2>5, <2>6, <2>7
<1>9. jobs' \in [Job -> JobRow]
  BY <1>2, <1>8
<1>10. /\ story' \in StoryRow
       /\ story'.inside <=> story.inside /\ f.kind = "guest"
       /\ story'.overtaken <=> story.overtaken \/ chased
       /\ story'.putBack <=> story.putBack \/ older
       /\ story'.lost <=> story.lost
       /\ story'.doubled <=> story.doubled
       /\ story'.lateAdmin <=> story.lateAdmin
  <2> HIDE DEF older, chased
  <2> QED
    BY <1>4, <1>7 DEF StoryRow
<1>11. StoresKept' /\ LoginsCall'
  <2>1. \A j \in Job : jobs[j].kind \in {"login", "mfa"} => j \notin Awaiting(f.kind)
    BY DEF StoreFits, LoginsCall, Awaiting
  <2>2. \A j \in Job :
          \/ jobs'[j].previous = NewStore /\ jobs'[j].kind \notin {"login", "mfa"}
          \/ /\ jobs'[j].previous = jobs[j].previous
             /\ jobs'[j].kind \in {"login", "mfa"} => jobs[j].kind \in {"login", "mfa"} /\ jobs'[j].at = "call"
    BY <1>8, <2>1, NewRows DEF StoreFits, LoginsCall
  <2>3. (story.putBack => story'.putBack) /\ (story.lateAdmin => story'.lateAdmin)
    BY <1>10
  <2> QED
    BY <2>2, <2>3, JobsKept DEF StoreFits
<1>12. \A j \in Job : LoginOk(j)' => LoginOk(j) /\ jobs'[j].sid = jobs[j].sid
  <2>1. \A j \in Job : jobs[j].kind \in {"login", "mfa"} => j \notin Awaiting(f.kind)
    BY DEF StoreFits, LoginsCall, Awaiting
  <2> QED
    BY <1>8, <2>1, NewRows DEF LoginOk
<1>13. ~story'.doubled
  BY <1>10 DEF TokensFit, RefreshOnce
<1>14. alone \subseteq FlightRow /\ IsFiniteSet(alone)
  BY FS_RemoveElement
<1>15. Cardinality(alone) \in Nat
  BY <1>14, FS_CardinalityType
<1>16. new \in FlightRow /\ new.kind = "account" /\ ~new.served /\ new.shown = cookie
  <2> HIDE DEF alone
  <2> QED
    BY <1>15 DEF FlightRow
<1> HIDE DEF new
<1>17. flights' \subseteq FlightRow /\ IsFiniteSet(flights')
  BY <1>3, <1>14, <1>16, FS_AddElement
<1>18. TokensFit'
  <2>1. \A g, h \in flights' : g.kind = h.kind => g = h
    BY <1>3, <1>16 DEF TokensFit, FlightsFit
  <2>2. CASE further
    <3>1. /\ cookie' = cookie /\ \A g \in flights : g.kind # "account"
          /\ \A g \in flights' : g.kind = "account" => g = new
      BY <1>1, <1>3, <2>2
    <3> QED
      BY <1>1, <1>10, <1>12, <1>13, <1>16, <2>1, <3>1, TokensShown
  <2>3. CASE ~further
    <3>1. flights' = flights \ {f}
      BY <1>3, <2>3
    <3>2. \/ cookie' = NoRefresh
          \/ cookie' = cookie /\ \A g \in flights : g.kind = "account" /\ g.served => g \in flights'
      BY <1>1, <1>5, <3>1
    <3> QED
      BY <1>1, <1>10, <1>12, <1>13, <2>1, <3>1, <3>2, TokensSame
  <2> QED
    BY <2>2, <2>3
<1>19. /\ bearer' \in BearerRow /\ authStore' \in StoreRow
       /\ PagesSeeTheIdentity' /\ LoginLasts' /\ WaitsForSomething'
  <2>1. CASE callers # {}
    <3>1. setApiIdentity(Anonymous)
      BY <1>1, <2>1 DEF setApiIdentity
    <3>2. ~(story'.inside /\ ~story'.overtaken)
      BY <1>7, <1>10, <2>1
    <3> QED
      BY <3>1, <3>2, NewRows, PagesSeeTheNew
  <2>2. CASE callers = {} /\ booting # {} /\ kept
    <3> DEFINE c == CHOOSE j \in booting : TRUE
    <3>1. c \in booting /\ c \in Job
      BY <1>6, <2>2
    <3>2. authStore' = BootFailed(c) /\ bearer' = bearer
      BY <1>1, <2>2
    <3> HIDE DEF c
    <3>3. /\ authStore' \in StoreRow /\ authStore'.identity = jobs[c].previous.identity
          /\ authStore'.status = "error"
          /\ authStore'.admin <=> jobs[c].previous.admin
          /\ ~authStore'.pending
      BY <3>1, <3>2, BootFailedIs
    <3>4. ASSUME ~story'.putBack PROVE jobs[c].previous.identity = bearer.kind
      <4>1. ~story.putBack /\ ~older
        BY <1>10, <3>4
      <4> QED
        BY <1>7, <2>2, <3>1, <4>1 DEF StoreFits, PagesSeeTheIdentity
    <3>5. ASSUME ~story'.putBack, ~story'.lateAdmin, authStore'.admin PROVE bearer.kind = "account"
      BY <1>10, <3>1, <3>3, <3>4, <3>5 DEF StoreFits, StoresKept
    <3>6. PagesSeeTheIdentity'
      BY <3>2, <3>3, <3>4, <3>5 DEF PagesSeeTheIdentity
    <3> QED
      BY <1>10, <3>2, <3>3, <3>6 DEF StoreFits, LoginLasts, WaitsForSomething
  <2>3. CASE callers = {} /\ ~(booting # {} /\ kept)
    <3>1. authStore' = authStore /\ bearer' = bearer
      BY <1>1, <2>3
    <3>2. PagesSeeTheIdentity' /\ LoginLasts'
      BY <1>10, <3>1, PagesStillSee
    <3>3. \A j \in Job : jobs'[j].kind = jobs[j].kind
      BY <1>8, <2>3
    <3>4. WaitsForSomething'
      BY <3>1, <3>3, StillWaits
    <3> QED
      BY <3>1, <3>2, <3>4
  <2> QED
    BY <2>1, <2>2, <2>3
<1>20. guestKey' \in RefreshRow /\ cookie' \in RefreshRow
  BY <1>1, NewRows
<1>21. IdentityTypeOK'
  BY <1>1, <1>9, <1>10, <1>17, <1>19, <1>20
<1> QED
  BY <1>11, <1>18, <1>19, <1>21 DEF StoreFits

-----------------------------------------------------------------------------
\* A step of one job.
LEMMA OneJob ==
  ASSUME jobs \in [Job -> JobRow], NEW j \in Job, NEW new \in JobRow, jobs' = [jobs EXCEPT ![j] = new]
  PROVE  /\ jobs' \in [Job -> JobRow] /\ jobs'[j] = new
         /\ \A k \in Job : k # j => jobs'[k] = jobs[k]
  OBVIOUS

\* One that leaves the tokens alone.
LEMMA TokensOfOthers ==
  ASSUME IdentityTypeOK, TokensFit, UNCHANGED <<flights, accountSessions>>, cookie' \in {cookie, NoRefresh},
         story'.lost <=> story.lost,
         story'.doubled <=> story.doubled,
         \A k \in Job : LoginOk(k)' => LoginOk(k) /\ jobs'[k].sid = jobs[k].sid
  PROVE  TokensFit'
<1>1. \A f, g \in flights' : f.kind = g.kind => f = g
  BY DEF TokensFit, FlightsFit
<1>2. ~story'.doubled /\ Len(accountSessions) \in Nat
  BY DEF TokensFit, RefreshOnce, IdentityTypeOK
<1> QED
  BY <1>1, <1>2, TokensSame

LEMMA BootstrapKeeps ==
  ASSUME IdentityInv, NEW j \in Job, bootstrap(j)
  PROVE  IdentityInv'
<1> USE DEF IdentityInv, IdentityTypeOK
<1> DEFINE kind == IF guestKey # NoRefresh THEN "guest" ELSE "account"
           new == [NoJob EXCEPT !.kind = "boot", !.at = "wait", !.on = kind, !.previous = authStore]
<1>1. /\ jobs[j] = NoJob
      /\ authStore' = [authStore EXCEPT !.status = "booting", !.pending = FALSE]
      /\ Refresh(kind) /\ jobs' = [jobs EXCEPT ![j] = new]
      /\ UNCHANGED <<bearer, guestKey, cookie, accountSessions, guestSessions>>
  BY DEF bootstrap, Spare, browserVars, sessionTables
<1>2. kind \in {"guest", "account"}
  OBVIOUS
<1> HIDE DEF kind
<1>3. new \in JobRow /\ new.kind = "boot" /\ new.previous = authStore
  BY <1>2, NewRows DEF JobRow
<1> HIDE DEF new
<1>4. /\ jobs' \in [Job -> JobRow] /\ jobs'[j] = new
      /\ \A k \in Job : k # j => jobs'[k] = jobs[k]
  BY <1>1, <1>3, OneJob
<1>5. \A k \in Job : LoginOk(k)' => LoginOk(k) /\ jobs'[k].sid = jobs[k].sid
  BY <1>3, <1>4 DEF LoginOk
<1>6. /\ flights' \subseteq FlightRow /\ IsFiniteSet(flights')
      /\ story' \in StoryRow
      /\ story'.lost <=> story.lost
      /\ story'.putBack <=> story.putBack
      /\ story'.lateAdmin <=> story.lateAdmin
      /\ story'.inside <=> story.inside
      /\ story'.overtaken <=> story.overtaken
      /\ TokensFit'
  BY <1>1, <1>2, <1>5, RefreshKeeps
<1>7. /\ authStore' \in StoreRow /\ authStore'.identity = authStore.identity
      /\ authStore'.admin <=> authStore.admin
      /\ ~authStore'.pending
  BY <1>1 DEF StoreRow
<1>8. PagesSeeTheIdentity' /\ LoginLasts'
  BY <1>1, <1>6, <1>7, PagesStillSee
<1>9. StoresKept' /\ LoginsCall'
  <2>1. \A k \in Job :
          \/ /\ jobs'[k].previous = jobs[k].previous
             /\ jobs'[k].kind \in {"login", "mfa"} => jobs[k].kind \in {"login", "mfa"} /\ jobs'[k].at = "call"
          \/ /\ jobs'[k].previous = authStore
             /\ jobs'[k].kind \in {"login", "mfa"} => authStore.status = "guest" /\ jobs'[k].at = "call"
    BY <1>3, <1>4 DEF StoreFits, LoginsCall
  <2> QED
    BY <1>6, <2>1, JobsKept DEF StoreFits
<1>10. WaitsForSomething'
  BY <1>3, <1>4, <1>7 DEF WaitsForSomething
<1>11. IdentityTypeOK'
  BY <1>1, <1>4, <1>6, <1>7
<1> QED
  BY <1>6, <1>8, <1>9, <1>10, <1>11 DEF StoreFits

LEMMA StartRequestKeeps ==
  ASSUME IdentityInv, NEW j \in Job, StartRequest(j)
  PROVE  IdentityInv'
<1> USE DEF IdentityInv, IdentityTypeOK
<1> DEFINE base == [NoJob EXCEPT !.kind = "api"]
           new == SentNow(base)
<1>1. /\ jobs[j] = NoJob /\ jobs' = [jobs EXCEPT ![j] = new]
      /\ UNCHANGED <<bearer, guestKey, cookie, accountSessions, guestSessions, authStore, flights, story>>
  BY DEF StartRequest, Spare, browserVars, sessionTables
<1>2. base \in JobRow /\ base.kind = "api" /\ base.previous = NewStore
  BY NewRows DEF JobRow
<1> HIDE DEF base
<1>3. new \in JobRow /\ new.kind = "api" /\ new.previous = NewStore
  BY <1>2, SentNowIs
<1> HIDE DEF new
<1>4. /\ jobs' \in [Job -> JobRow] /\ jobs'[j] = new
      /\ \A k \in Job : k # j => jobs'[k] = jobs[k]
  BY <1>1, <1>3, OneJob
<1>5. \A k \in Job : LoginOk(k)' => LoginOk(k) /\ jobs'[k].sid = jobs[k].sid
  BY <1>3, <1>4 DEF LoginOk
<1>6. TokensFit'
  BY <1>1, <1>5, TokensOfOthers
<1>7. PagesSeeTheIdentity' /\ LoginLasts'
  BY <1>1, PagesStillSee
<1>8. StoresKept' /\ LoginsCall'
  <2>1. \A k \in Job :
          \/ jobs'[k].previous = NewStore /\ jobs'[k].kind \notin {"login", "mfa"}
          \/ /\ jobs'[k].previous = jobs[k].previous
             /\ jobs'[k].kind \in {"login", "mfa"} => jobs[k].kind \in {"login", "mfa"} /\ jobs'[k].at = "call"
    BY <1>3, <1>4 DEF StoreFits, LoginsCall
  <2> QED
    BY <1>1, <2>1, JobsKept DEF StoreFits
<1>9. WaitsForSomething'
  <2>1. \A k \in Job : jobs[k].kind \in {"boot", "login", "mfa", "logout"} => jobs'[k] = jobs[k]
    BY <1>1, <1>4, NewRows
  <2> QED
    BY <1>1, <2>1, StillWaits
<1>10. IdentityTypeOK'
  BY <1>1, <1>4
<1> QED
  BY <1>6, <1>7, <1>8, <1>9, <1>10 DEF StoreFits

LEMMA LoginKeeps ==
  ASSUME IdentityInv, NEW j \in Job, NEW kind \in {"login", "mfa"}, login(j, kind)
  PROVE  IdentityInv'
<1> USE DEF IdentityInv, IdentityTypeOK
<1> DEFINE base == [NoJob EXCEPT !.kind = kind, !.previous = authStore]
           new == SentNow(base)
<1>1. /\ jobs[j] = NoJob /\ jobs' = [jobs EXCEPT ![j] = new] /\ authStore.status = "guest"
      /\ authStore' = [authStore EXCEPT !.pending = TRUE]
      /\ UNCHANGED <<bearer, guestKey, cookie, accountSessions, guestSessions, flights, story>>
  BY DEF login, Spare, browserVars, sessionTables
<1>2. base \in JobRow /\ base.kind = kind /\ base.previous = authStore
  BY NewRows DEF JobRow
<1> HIDE DEF base
<1>3. /\ new \in JobRow /\ new.kind = kind /\ new.previous = authStore /\ new.at = "call"
      /\ new.got = "none"
  BY <1>2, SentNowIs
<1> HIDE DEF new
<1>4. /\ jobs' \in [Job -> JobRow] /\ jobs'[j] = new
      /\ \A k \in Job : k # j => jobs'[k] = jobs[k]
  BY <1>1, <1>3, OneJob
<1>5. \A k \in Job : LoginOk(k)' => LoginOk(k) /\ jobs'[k].sid = jobs[k].sid
  BY <1>3, <1>4 DEF LoginOk
<1>6. TokensFit'
  BY <1>1, <1>5, TokensOfOthers
<1>7. /\ authStore' \in StoreRow /\ authStore'.identity = authStore.identity
      /\ authStore'.admin <=> authStore.admin
      /\ authStore'.status = "guest"
  BY <1>1 DEF StoreRow
<1>8. PagesSeeTheIdentity' /\ LoginLasts'
  BY <1>1, <1>7, PagesStillSee
<1>9. StoresKept' /\ LoginsCall'
  <2>1. \A k \in Job :
          \/ /\ jobs'[k].previous = jobs[k].previous
             /\ jobs'[k].kind \in {"login", "mfa"} => jobs[k].kind \in {"login", "mfa"} /\ jobs'[k].at = "call"
          \/ /\ jobs'[k].previous = authStore
             /\ jobs'[k].kind \in {"login", "mfa"} => authStore.status = "guest" /\ jobs'[k].at = "call"
    BY <1>1, <1>3, <1>4 DEF StoreFits, LoginsCall
  <2> QED
    BY <1>1, <2>1, JobsKept DEF StoreFits
<1>10. WaitsForSomething'
  BY <1>3, <1>4, <1>7 DEF WaitsForSomething
<1>11. IdentityTypeOK'
  BY <1>1, <1>4, <1>7
<1> QED
  BY <1>6, <1>8, <1>9, <1>10, <1>11 DEF StoreFits

LEMMA LogoutKeeps ==
  ASSUME IdentityInv, NEW j \in Job, logout(j)
  PROVE  IdentityInv'
<1> USE DEF IdentityInv, IdentityTypeOK
<1> DEFINE base == [NoJob EXCEPT !.kind = "logout"]
           alone == [NoJob EXCEPT !.kind = "logout", !.at = "issue"]
           new == IF bearer.kind = "anonymous" THEN alone ELSE SentNow(base)
<1>1. /\ jobs[j] = NoJob /\ jobs' = [jobs EXCEPT ![j] = new] /\ authStore.status = "account"
      /\ authStore' = [authStore EXCEPT !.pending = TRUE]
      /\ UNCHANGED <<bearer, guestKey, cookie, accountSessions, guestSessions, flights, story>>
  BY DEF logout, Spare, browserVars, sessionTables
<1>2. /\ base \in JobRow /\ base.kind = "logout" /\ base.previous = NewStore
      /\ alone \in JobRow /\ alone.kind = "logout" /\ alone.previous = NewStore
  BY NewRows DEF JobRow
<1> HIDE DEF base, alone
<1>3. new \in JobRow /\ new.kind = "logout" /\ new.previous = NewStore
  BY <1>2, SentNowIs
<1> HIDE DEF new
<1>4. /\ jobs' \in [Job -> JobRow] /\ jobs'[j] = new
      /\ \A k \in Job : k # j => jobs'[k] = jobs[k]
  BY <1>1, <1>3, OneJob
<1>5. \A k \in Job : LoginOk(k)' => LoginOk(k) /\ jobs'[k].sid = jobs[k].sid
  BY <1>3, <1>4 DEF LoginOk
<1>6. TokensFit'
  BY <1>1, <1>5, TokensOfOthers
<1>7. /\ authStore' \in StoreRow /\ authStore'.identity = authStore.identity
      /\ authStore'.admin <=> authStore.admin
      /\ authStore'.status = "account"
  BY <1>1 DEF StoreRow
<1>8. PagesSeeTheIdentity' /\ LoginLasts'
  BY <1>1, <1>7, PagesStillSee
<1>9. StoresKept' /\ LoginsCall'
  <2>1. \A k \in Job :
          \/ jobs'[k].previous = NewStore /\ jobs'[k].kind \notin {"login", "mfa"}
          \/ /\ jobs'[k].previous = jobs[k].previous
             /\ jobs'[k].kind \in {"login", "mfa"} => jobs[k].kind \in {"login", "mfa"} /\ jobs'[k].at = "call"
    BY <1>3, <1>4 DEF StoreFits, LoginsCall
  <2> QED
    BY <1>1, <2>1, JobsKept DEF StoreFits
<1>10. WaitsForSomething'
  BY <1>3, <1>4, <1>7 DEF WaitsForSomething
<1>11. IdentityTypeOK'
  BY <1>1, <1>4, <1>7
<1> QED
  BY <1>6, <1>8, <1>9, <1>10, <1>11 DEF StoreFits

LEMMA AbandonKeeps ==
  ASSUME IdentityInv, NEW j \in Job, abandonSession(j)
  PROVE  IdentityInv'
<1> USE DEF IdentityInv, IdentityTypeOK
<1> DEFINE new == [NoJob EXCEPT !.kind = "abandon", !.at = "issue"]
<1>1. /\ jobs[j] = NoJob /\ jobs' = [jobs EXCEPT ![j] = new]
      /\ setApiIdentity(Anonymous) /\ cookie' = NoRefresh /\ guestKey' = NoRefresh
      /\ story' = [story EXCEPT !.inside = FALSE]
      /\ accountSessions' = [i \in DOMAIN accountSessions |-> [accountSessions[i] EXCEPT !.live = FALSE]]
      /\ UNCHANGED <<guestSessions, flights>>
  BY DEF abandonSession, Spare
<1>2. new \in JobRow /\ new.kind = "abandon" /\ new.previous = NewStore
  BY NewRows DEF JobRow
<1> HIDE DEF new
<1>3. /\ jobs' \in [Job -> JobRow] /\ jobs'[j] = new
      /\ \A k \in Job : k # j => jobs'[k] = jobs[k]
  BY <1>1, <1>2, OneJob
<1>4. /\ accountSessions' \in Seq(LoginRow) /\ Len(accountSessions') = Len(accountSessions)
      /\ \A k \in 1 .. Len(accountSessions) : ~accountSessions'[k].live
                                             /\ accountSessions'[k].token = accountSessions[k].token
  BY <1>1, AllSessionsEnd
<1>5. /\ story' \in StoryRow /\ ~story'.inside
      /\ story'.lost <=> story.lost
      /\ story'.doubled <=> story.doubled
      /\ story'.putBack <=> story.putBack
      /\ story'.lateAdmin <=> story.lateAdmin
  BY <1>1 DEF StoryRow
<1>6. /\ bearer' \in BearerRow /\ authStore' \in StoreRow
      /\ PagesSeeTheIdentity' /\ LoginLasts' /\ WaitsForSomething'
  BY <1>1, <1>5, NewRows, PagesSeeTheNew
<1>7. StoresKept' /\ LoginsCall'
  <2>1. \A k \in Job :
          \/ jobs'[k].previous = NewStore /\ jobs'[k].kind \notin {"login", "mfa"}
          \/ /\ jobs'[k].previous = jobs[k].previous
             /\ jobs'[k].kind \in {"login", "mfa"} => jobs[k].kind \in {"login", "mfa"} /\ jobs'[k].at = "call"
    BY <1>2, <1>3 DEF StoreFits, LoginsCall
  <2> QED
    BY <1>5, <2>1, JobsKept DEF StoreFits
<1>8. TokensFit'
  <2>1. \A k \in Job : LoginOk(k)' => LoginOk(k) /\ jobs'[k].sid = jobs[k].sid
    BY <1>2, <1>3 DEF LoginOk
  <2>2. \A f, g \in flights' : f.kind = g.kind => f = g
    BY <1>1 DEF TokensFit, FlightsFit
  <2>3. ~story'.doubled /\ Len(accountSessions) \in Nat
    BY <1>5 DEF TokensFit, RefreshOnce
  <2> QED
    BY <1>1, <1>4, <1>5, <2>1, <2>2, <2>3, TokensSame
<1>9. IdentityTypeOK'
  BY <1>1, <1>3, <1>4, <1>5, <1>6, NewRows
<1> QED
  BY <1>6, <1>7, <1>8, <1>9 DEF StoreFits

\* What an answer leaves of the store.
LEMMA AnswerKeepsTheStore ==
  ASSUME IdentityInv,
         UNCHANGED <<bearer, authStore, story>>,
         \A k \in Job : /\ jobs'[k].kind = jobs[k].kind /\ jobs'[k].at = jobs[k].at
                        /\ jobs'[k].previous = jobs[k].previous
  PROVE  StoreFits'
<1> USE DEF IdentityInv
<1>1. StoresKept' /\ LoginsCall'
  BY DEF StoreFits, StoresKept, LoginsCall
<1>2. PagesSeeTheIdentity' /\ LoginLasts'
  BY PagesStillSee
<1>3. WaitsForSomething'
  BY StillWaits
<1> QED
  BY <1>1, <1>2, <1>3 DEF StoreFits

LEMMA ServeLoginKeeps ==
  ASSUME IdentityInv, NEW j \in Job, ServeLogin(j)
  PROVE  IdentityInv'
<1> USE DEF IdentityInv, IdentityTypeOK
<1> DEFINE sid == Len(accountSessions) + 1
<1>1. PICK got \in {"ok", "mfa", "refused"} :
        /\ accountSessions' = IF got = "ok" THEN NewLogin ELSE accountSessions
        /\ jobs' = [jobs EXCEPT ![j].got = got, ![j].sid = sid]
  BY DEF ServeLogin
<1> DEFINE new == [jobs[j] EXCEPT !.got = got, !.sid = sid]
<1>a. jobs' = [jobs EXCEPT ![j] = new]
  BY <1>1
<1>2. /\ jobs[j].got = "none"
      /\ UNCHANGED <<bearer, guestKey, cookie, authStore, flights, guestSessions, story>>
  BY DEF ServeLogin, browserVars
<1>3. sid \in Nat /\ Len(accountSessions) \in Nat
  OBVIOUS
<1> HIDE DEF sid
<1>b. /\ new \in JobRow /\ new.got = got /\ new.sid = sid
      /\ new.kind = jobs[j].kind /\ new.at = jobs[j].at /\ new.previous = jobs[j].previous
  <2>1. jobs[j] \in JobRow
    OBVIOUS
  <2> QED
    BY <1>3, <2>1 DEF JobRow
<1> HIDE DEF new
<1>4. /\ jobs' \in [Job -> JobRow]
      /\ jobs'[j].got = got /\ jobs'[j].sid = sid
      /\ \A k \in Job : /\ jobs'[k].kind = jobs[k].kind /\ jobs'[k].at = jobs[k].at
                        /\ jobs'[k].previous = jobs[k].previous
                        /\ k # j => jobs'[k] = jobs[k]
  BY <1>a, <1>b, OneJob
<1>5. StoreFits'
  BY <1>2, <1>4, AnswerKeepsTheStore
<1>6. CASE got # "ok"
  <2>1. accountSessions' = accountSessions
    BY <1>1, <1>6
  <2>2. \A k \in Job : LoginOk(k)' => LoginOk(k) /\ jobs'[k].sid = jobs[k].sid
    BY <1>4, <1>6 DEF LoginOk
  <2>3. TokensFit'
    BY <1>2, <2>1, <2>2, TokensOfOthers
  <2> QED
    BY <1>2, <1>4, <1>5, <2>1, <2>3
<1>7. CASE got = "ok"
  <2> DEFINE row == [live |-> TRUE, token |-> 1]
  <2>1. row \in LoginRow /\ row.token = 1
    BY DEF LoginRow
  <2>2. accountSessions' = Append(accountSessions, row)
    BY <1>1, <1>7 DEF NewLogin
  <2> HIDE DEF row
  <2>3. /\ accountSessions' \in Seq(LoginRow) /\ Len(accountSessions') = sid
        /\ accountSessions'[sid] = row
        /\ \A k \in 1 .. Len(accountSessions) : accountSessions'[k] = accountSessions[k]
    BY <2>1, <2>2 DEF sid
  <2>4. sid = Len(accountSessions) + 1
    BY DEF sid
  <2>5. FlightsFit'
    <3>1. ASSUME NEW f \in flights, f.kind = "account"
          PROVE  /\ f.shown.sid \in 0 .. Len(accountSessions')
                 /\ f.served /\ f.got = "ok" =>
                      /\ f.shown.sid # 0 /\ f.sid = f.shown.sid
                      /\ accountSessions'[f.sid].live => accountSessions'[f.sid].token = f.token
      <4>1. /\ f.shown.sid \in 0 .. Len(accountSessions)
            /\ f.served /\ f.got = "ok" =>
                 /\ f.shown.sid # 0 /\ f.sid = f.shown.sid
                 /\ accountSessions[f.sid].live => accountSessions[f.sid].token = f.token
        BY <3>1 DEF TokensFit, FlightsFit
      <4> QED
        BY <1>3, <2>3, <2>4, <4>1
    <3>2. \A f, g \in flights : f.kind = g.kind => f = g
      BY DEF TokensFit, FlightsFit
    <3> QED
      BY <1>2, <3>1, <3>2 DEF FlightsFit
  <2>6. CookieFits'
    <3>1. cookie.sid \in 0 .. Len(accountSessions)
      BY DEF TokensFit, CookieFits
    <3>2. cookie.sid # 0 => accountSessions'[cookie.sid] = accountSessions[cookie.sid]
      BY <1>3, <2>3, <3>1
    <3>3. cookie.sid \in 0 .. Len(accountSessions')
      BY <1>3, <2>3, <2>4, <3>1
    <3> QED
      BY <1>2, <3>2, <3>3 DEF TokensFit, CookieFits
  <2>7. LoginsFit'
    <3>1. \A k \in Job : LoginOk(k)' => k = j \/ (LoginOk(k) /\ jobs'[k].sid = jobs[k].sid)
      BY <1>4 DEF LoginOk
    <3>2. ASSUME NEW k \in Job, LoginOk(k)
          PROVE  /\ jobs[k].sid \in 1 .. Len(accountSessions) /\ accountSessions[jobs[k].sid].token = 1
                 /\ cookie.sid # jobs[k].sid
                 /\ \A f \in flights : f.kind = "account" => f.shown.sid # jobs[k].sid
      BY <3>2 DEF TokensFit, LoginsFit
    <3>3. \A f \in flights : f.kind = "account" => f.shown.sid \in 0 .. Len(accountSessions)
      BY DEF TokensFit, FlightsFit
    <3>4. cookie.sid \in 0 .. Len(accountSessions)
      BY DEF TokensFit, CookieFits
    <3>5. ASSUME NEW k \in Job, LoginOk(k)'
          PROVE  /\ jobs'[k].sid \in 1 .. Len(accountSessions') /\ accountSessions'[jobs'[k].sid].token = 1
                 /\ cookie'.sid # jobs'[k].sid
                 /\ \A f \in flights' : f.kind = "account" => f.shown.sid # jobs'[k].sid
      <4>1. CASE k = j
        <5>1. sid \notin 0 .. Len(accountSessions) /\ sid \in 1 .. sid
          BY <1>3, <2>4
        <5> QED
          BY <1>2, <1>4, <2>1, <2>3, <3>3, <3>4, <4>1, <5>1
      <4>2. CASE k # j
        <5>1. LoginOk(k) /\ jobs'[k].sid = jobs[k].sid
          BY <3>1, <3>5, <4>2
        <5>2. jobs[k].sid \in 1 .. Len(accountSessions')
          BY <1>3, <2>3, <2>4, <3>2, <5>1
        <5> QED
          BY <1>2, <2>3, <3>2, <5>1, <5>2
      <4> QED
        BY <4>1, <4>2
    <3>6. ASSUME NEW k \in Job, LoginOk(k)', NEW l \in Job, LoginOk(l)', jobs'[l].sid = jobs'[k].sid
          PROVE  l = k
      <4>1. \A m \in Job : m # j /\ LoginOk(m)' => jobs'[m].sid # sid
        BY <1>3, <2>4, <3>1, <3>2
      <4>2. CASE k # j /\ l # j
        BY <3>1, <3>6, <4>2 DEF TokensFit, LoginsFit
      <4>3. CASE k = j \/ l = j
        BY <1>4, <3>6, <4>1, <4>3
      <4> QED
        BY <4>2, <4>3
    <3> QED
      BY <3>5, <3>6 DEF LoginsFit
  <2>8. RefreshOnce'
    <3>1. \A f \in flights : f.kind = "account" /\ f.shown.sid # 0 =>
                               accountSessions'[f.shown.sid] = accountSessions[f.shown.sid]
      BY <1>3, <2>3 DEF TokensFit, FlightsFit
    <3> QED
      BY <1>2, <3>1 DEF TokensFit, RefreshOnce
  <2> QED
    BY <1>2, <1>4, <1>5, <2>3, <2>5, <2>6, <2>7, <2>8 DEF TokensFit
<1> QED
  BY <1>6, <1>7

LEMMA ServeGuestKeeps ==
  ASSUME IdentityInv, NEW j \in Job, ServeGuest(j)
  PROVE  IdentityInv'
<1> USE DEF IdentityInv, IdentityTypeOK
<1> DEFINE sid == Len(guestSessions) + 1
           row == [live |-> TRUE, token |-> 1]
           new == [jobs[j] EXCEPT !.got = "ok", !.sid = sid]
<1>1. /\ jobs[j].at = "issue" /\ guestSessions' = Append(guestSessions, row)
      /\ jobs' = [jobs EXCEPT ![j] = new]
      /\ UNCHANGED <<bearer, guestKey, cookie, authStore, flights, accountSessions, story>>
  BY DEF ServeGuest, browserVars
<1>2. sid \in Nat /\ row \in LoginRow
  BY DEF LoginRow
<1> HIDE DEF sid, row
<1>a. /\ new \in JobRow
      /\ new.kind = jobs[j].kind /\ new.at = jobs[j].at /\ new.previous = jobs[j].previous
  <2>1. jobs[j] \in JobRow
    OBVIOUS
  <2> QED
    BY <1>2, <2>1 DEF JobRow
<1> HIDE DEF new
<1>3. /\ jobs' \in [Job -> JobRow]
      /\ \A k \in Job : /\ jobs'[k].kind = jobs[k].kind /\ jobs'[k].at = jobs[k].at
                        /\ jobs'[k].previous = jobs[k].previous
                        /\ k # j => jobs'[k] = jobs[k]
  BY <1>1, <1>a, OneJob
<1>4. StoreFits'
  BY <1>1, <1>3, AnswerKeepsTheStore
<1>5. jobs[j].kind \notin {"login", "mfa"}
  BY <1>1 DEF StoreFits, LoginsCall
<1>6. \A k \in Job : LoginOk(k)' => LoginOk(k) /\ jobs'[k].sid = jobs[k].sid
  BY <1>3, <1>5 DEF LoginOk
<1>7. TokensFit'
  BY <1>1, <1>6, TokensOfOthers
<1>8. guestSessions' \in Seq(LoginRow)
  BY <1>1, <1>2
<1> QED
  BY <1>1, <1>3, <1>4, <1>7, <1>8

\* A login that fails, refused or lost.
LEMMA LoginPutsBack ==
  ASSUME IdentityInv, NEW j \in Job, jobs[j].kind \in {"login", "mfa"},
         authStore' = PutBack(j), jobs' = [jobs EXCEPT ![j] = NoJob],
         story' \in StoryRow,
         story'.lost <=> story.lost,
         story'.doubled <=> story.doubled,
         story.putBack \/ Outdated(j) => story'.putBack,
         story'.lateAdmin <=> story.lateAdmin,
         story'.inside <=> story.inside,
         story'.overtaken <=> story.overtaken,
         UNCHANGED <<bearer, guestKey, cookie, flights, guestSessions, accountSessions>>
  PROVE  IdentityInv'
<1> USE DEF IdentityInv, IdentityTypeOK
<1>1. /\ jobs' \in [Job -> JobRow] /\ jobs'[j] = NoJob
      /\ \A k \in Job : k # j => jobs'[k] = jobs[k]
  BY NewRows, OneJob
<1> DEFINE older == Outdated(j)
<1>3. /\ story' \in StoryRow
      /\ story'.lost <=> story.lost
      /\ story'.doubled <=> story.doubled
      /\ story.putBack \/ older => story'.putBack
      /\ story'.lateAdmin <=> story.lateAdmin
      /\ story'.inside <=> story.inside
      /\ story'.overtaken <=> story.overtaken
  OBVIOUS
<1> HIDE DEF older
<1>4. /\ authStore' \in StoreRow /\ authStore'.identity = jobs[j].previous.identity
      /\ authStore'.status = jobs[j].previous.status
      /\ authStore'.admin <=> jobs[j].previous.admin
      /\ ~authStore'.pending
  BY PutBackIs
<1>5. authStore'.status = "guest"
  BY <1>4 DEF StoreFits, LoginsCall
<1>6. ~older => /\ authStore'.identity = authStore.identity
                /\ authStore'.admin <=> authStore.admin
  <2> SUFFICES ASSUME ~older PROVE /\ authStore'.identity = authStore.identity
                                   /\ authStore'.admin <=> authStore.admin
    OBVIOUS
  <2>1. authStore' = [authStore EXCEPT !.pending = FALSE]
    BY DEF older, Outdated
  <2> QED
    BY <2>1 DEF StoreRow
<1>7. PagesSeeTheIdentity' /\ LoginLasts'
  BY <1>3, <1>6 DEF StoreFits, PagesSeeTheIdentity, LoginLasts
<1>8. WaitsForSomething'
  BY <1>4, <1>5 DEF WaitsForSomething
<1>9. StoresKept' /\ LoginsCall'
  <2>1. \A k \in Job :
          \/ jobs'[k].previous = NewStore /\ jobs'[k].kind \notin {"login", "mfa"}
          \/ /\ jobs'[k].previous = jobs[k].previous
             /\ jobs'[k].kind \in {"login", "mfa"} => jobs[k].kind \in {"login", "mfa"} /\ jobs'[k].at = "call"
    BY <1>1, NewRows DEF StoreFits, LoginsCall
  <2> QED
    BY <1>3, <2>1, JobsKept DEF StoreFits
<1>10. \A k \in Job : LoginOk(k)' => LoginOk(k) /\ jobs'[k].sid = jobs[k].sid
  BY <1>1, NewRows DEF LoginOk
<1>11. TokensFit'
  BY <1>3, <1>10, TokensOfOthers
<1> QED
  BY <1>1, <1>3, <1>4, <1>7, <1>8, <1>9, <1>11 DEF StoreFits

LEMMA ServeCallKeeps ==
  ASSUME IdentityInv, NEW j \in Job, ServeCall(j)
  PROVE  IdentityInv'
<1> USE DEF IdentityInv, IdentityTypeOK
<1> DEFINE who  == jobs[j].with
           fine == Honoured(who)
           ends == fine /\ jobs[j].kind = "logout" /\ ~roomOpen
           got == CASE ~fine -> "401"
                    [] fine /\ jobs[j].kind = "logout" /\ roomOpen -> "409"
                    [] OTHER -> "ok"
           new == [jobs[j] EXCEPT !.got = got]
           guestEnded == [guestSessions[who.sid] EXCEPT !.live = FALSE]
           loginEnded == [accountSessions[who.sid] EXCEPT !.live = FALSE]
<1>1. /\ jobs[j].kind \in {"api", "admin", "logout"}
      /\ jobs' = [jobs EXCEPT ![j] = new]
      /\ UNCHANGED <<bearer, guestKey, cookie, authStore, flights, story>>
  BY DEF ServeCall, browserVars
<1>2. /\ guestSessions' \in {guestSessions, [guestSessions EXCEPT ![who.sid] = guestEnded]}
      /\ accountSessions' \in {accountSessions, [accountSessions EXCEPT ![who.sid] = loginEnded]}
  BY DEF ServeCall
<1>3. got \in {"401", "409", "ok"}
  OBVIOUS
<1> HIDE DEF got, ends, fine
<1>4. /\ new \in JobRow
      /\ new.kind = jobs[j].kind /\ new.at = jobs[j].at /\ new.previous = jobs[j].previous
  <2>1. jobs[j] \in JobRow
    OBVIOUS
  <2> QED
    BY <1>3, <2>1 DEF JobRow
<1> HIDE DEF new
<1>5. /\ jobs' \in [Job -> JobRow]
      /\ \A k \in Job : /\ jobs'[k].kind = jobs[k].kind /\ jobs'[k].at = jobs[k].at
                        /\ jobs'[k].previous = jobs[k].previous
                        /\ k # j => jobs'[k] = jobs[k]
  BY <1>1, <1>4, OneJob
<1>6. StoreFits'
  BY <1>1, <1>5, AnswerKeepsTheStore
<1>7. who.sid \in 1 .. Len(guestSessions) => guestEnded \in LoginRow
  <2> SUFFICES ASSUME who.sid \in 1 .. Len(guestSessions) PROVE guestEnded \in LoginRow
    OBVIOUS
  <2>1. guestSessions[who.sid] \in LoginRow
    OBVIOUS
  <2> QED
    BY <2>1 DEF LoginRow
<1>8. who.sid \in 1 .. Len(accountSessions) =>
        loginEnded \in LoginRow /\ ~loginEnded.live /\ loginEnded.token = accountSessions[who.sid].token
  <2> SUFFICES ASSUME who.sid \in 1 .. Len(accountSessions)
               PROVE  loginEnded \in LoginRow /\ ~loginEnded.live /\ loginEnded.token = accountSessions[who.sid].token
    OBVIOUS
  <2>1. accountSessions[who.sid] \in LoginRow
    OBVIOUS
  <2> QED
    BY <2>1 DEF LoginRow
<1> HIDE DEF guestEnded, loginEnded, who
<1>9. guestSessions' \in Seq(LoginRow)
  BY <1>2, <1>7, OneSessionChanges
<1>10. /\ accountSessions' \in Seq(LoginRow) /\ Len(accountSessions') = Len(accountSessions)
       /\ \A i \in 1 .. Len(accountSessions) :
            /\ accountSessions'[i].token = accountSessions[i].token
            /\ accountSessions'[i].live => accountSessions[i].live
  <2>1. CASE accountSessions' = accountSessions
    BY <2>1
  <2>2. CASE accountSessions' = [accountSessions EXCEPT ![who.sid] = loginEnded]
    <3>1. /\ accountSessions' \in Seq(LoginRow) /\ Len(accountSessions') = Len(accountSessions)
          /\ \A i \in 1 .. Len(accountSessions) :
               accountSessions'[i] = IF i = who.sid THEN loginEnded ELSE accountSessions[i]
      <4>1. who.sid \in 1 .. Len(accountSessions) => loginEnded \in LoginRow
        BY <1>8
      <4> QED
        BY <2>2, <4>1, OneSessionChanges
    <3>2. ASSUME NEW i \in 1 .. Len(accountSessions)
          PROVE  /\ accountSessions'[i].token = accountSessions[i].token
                 /\ accountSessions'[i].live => accountSessions[i].live
      <4>1. CASE i = who.sid
        BY <1>8, <3>1, <4>1
      <4>2. CASE i # who.sid
        BY <3>1, <4>2
      <4> QED
        BY <4>1, <4>2
    <3> QED
      BY <3>1, <3>2
  <2> QED
    BY <1>2, <2>1, <2>2
<1>11. TokensFit'
  <2>1. \A k \in Job : LoginOk(k)' => LoginOk(k) /\ jobs'[k].sid = jobs[k].sid
    BY <1>1, <1>5 DEF LoginOk
  <2>2. \A f, g \in flights' : f.kind = g.kind => f = g
    BY <1>1 DEF TokensFit, FlightsFit
  <2>3. ~story'.doubled /\ Len(accountSessions) \in Nat
    BY <1>1 DEF TokensFit, RefreshOnce
  <2>4. /\ \A f \in flights' : f.kind = "account" => f \in flights
        /\ story.lost => story'.lost
    BY <1>1
  <2>5. \/ cookie' = NoRefresh
        \/ /\ cookie' = cookie
           /\ story'.lost \/ \A f \in flights : f.kind = "account" /\ f.served => f \in flights'
    BY <1>1
  <2>6. TokensFit /\ Len(accountSessions') = Len(accountSessions)
    BY <1>10
  <2>7. \A i \in 1 .. Len(accountSessions) : /\ accountSessions'[i].token = accountSessions[i].token
                                             /\ accountSessions'[i].live => accountSessions[i].live
    BY <1>10
  <2> HIDE DEF IdentityInv, IdentityTypeOK
  <2> QED
    BY <2>1, <2>2, <2>3, <2>4, <2>5, <2>6, <2>7, TokensSame
<1> QED
  BY <1>1, <1>5, <1>6, <1>9, <1>10, <1>11

LEMMA LoginArrivesKeeps ==
  ASSUME IdentityInv, NEW j \in Job, LoginArrives(j)
  PROVE  IdentityInv'
<1> USE DEF IdentityInv, IdentityTypeOK
<1> DEFINE now == Bearer("account", jobs[j].sid)
<1>1. /\ jobs[j].at = "call" /\ jobs[j].kind \in {"login", "mfa"} /\ jobs[j] \in JobRow
      /\ UNCHANGED <<flights, guestSessions, accountSessions>>
  BY DEF LoginArrives, sessionTables
<1>2. jobs[j].sid \in Nat
  BY <1>1 DEF JobRow
<1>3. now \in BearerRow /\ now.kind = "account" /\ now.sid = jobs[j].sid
  BY <1>2, BearerIs DEF Holder
<1>4. CASE jobs[j].got = "ok"
  <2> DEFINE new == AdminJob(now)
  <2>1. /\ setApiIdentity(now) /\ guestKey' = NoRefresh /\ cookie' = [sid |-> now.sid, token |-> 1]
        /\ jobs' = [jobs EXCEPT ![j] = new]
        /\ story' = [story EXCEPT !.inside = TRUE]
    BY <1>4 DEF LoginArrives, setApiIdentity
  <2> HIDE DEF now
  <2>2. new \in JobRow /\ new.kind \in {"none", "admin"} /\ new.previous = NewStore
    BY <1>3, AdminJobIs
  <2> HIDE DEF new
  <2>3. /\ jobs' \in [Job -> JobRow] /\ jobs'[j] = new
        /\ \A k \in Job : k # j => jobs'[k] = jobs[k]
    BY <2>1, <2>2, OneJob
  <2>4. /\ story' \in StoryRow
        /\ story'.lost <=> story.lost
        /\ story'.doubled <=> story.doubled
        /\ story'.putBack <=> story.putBack
        /\ story'.lateAdmin <=> story.lateAdmin
    BY <2>1 DEF StoryRow
  <2>5. /\ bearer' \in BearerRow /\ authStore' \in StoreRow
        /\ PagesSeeTheIdentity' /\ LoginLasts' /\ WaitsForSomething'
    BY <1>3, <2>1, PagesSeeTheNew
  <2>6. StoresKept' /\ LoginsCall'
    <3>1. \A k \in Job :
            \/ jobs'[k].previous = NewStore /\ jobs'[k].kind \notin {"login", "mfa"}
            \/ /\ jobs'[k].previous = jobs[k].previous
               /\ jobs'[k].kind \in {"login", "mfa"} => jobs[k].kind \in {"login", "mfa"} /\ jobs'[k].at = "call"
      BY <2>2, <2>3 DEF StoreFits, LoginsCall
    <3> QED
      BY <2>4, <3>1, JobsKept DEF StoreFits
  <2>7. cookie'.sid = jobs[j].sid /\ cookie'.token = 1 /\ cookie' \in RefreshRow
    BY <1>2, <1>3, <2>1 DEF RefreshRow
  <2>8. /\ jobs[j].sid \in 1 .. Len(accountSessions) /\ accountSessions[jobs[j].sid].token = 1
        /\ \A k \in Job : LoginOk(k) /\ jobs[k].sid = jobs[j].sid => k = j
    BY <1>1, <1>4 DEF TokensFit, LoginsFit, LoginOk
  <2>9. \A k \in Job : LoginOk(k)' => k # j /\ LoginOk(k) /\ jobs'[k].sid = jobs[k].sid
    BY <2>2, <2>3 DEF LoginOk
  <2>10. FlightsFit' /\ RefreshOnce'
    BY <1>1, <2>4 DEF TokensFit, FlightsFit, RefreshOnce
  <2>11. CookieFits'
    BY <1>1, <2>7, <2>8 DEF CookieFits
  <2>12. LoginsFit'
    <3>1. ASSUME NEW k \in Job, LoginOk(k)'
          PROVE  /\ jobs'[k].sid \in 1 .. Len(accountSessions') /\ accountSessions'[jobs'[k].sid].token = 1
                 /\ cookie'.sid # jobs'[k].sid
                 /\ \A f \in flights' : f.kind = "account" => f.shown.sid # jobs'[k].sid
      BY <1>1, <2>7, <2>8, <2>9, <3>1 DEF TokensFit, LoginsFit
    <3>2. \A k, l \in Job : LoginOk(k)' /\ LoginOk(l)' /\ jobs'[l].sid = jobs'[k].sid => l = k
      BY <2>9 DEF TokensFit, LoginsFit
    <3> QED
      BY <3>1, <3>2 DEF LoginsFit
  <2> QED
    BY <1>1, <2>1, <2>3, <2>4, <2>5, <2>6, <2>7, <2>10, <2>11, <2>12, NewRows DEF TokensFit, StoreFits
<1>5. CASE jobs[j].got # "ok"
  <2>1. /\ authStore' = PutBack(j) /\ jobs' = [jobs EXCEPT ![j] = NoJob]
        /\ story' = [story EXCEPT !.putBack = @ \/ Outdated(j)]
        /\ UNCHANGED <<bearer, guestKey, cookie>>
    BY <1>5 DEF LoginArrives
  <2>2. /\ story' \in StoryRow
        /\ story'.lost <=> story.lost
        /\ story'.doubled <=> story.doubled
        /\ story.putBack \/ Outdated(j) => story'.putBack
        /\ story'.lateAdmin <=> story.lateAdmin
        /\ story'.inside <=> story.inside
        /\ story'.overtaken <=> story.overtaken
    BY <2>1 DEF StoryRow
  <2> HIDE DEF now
  <2> QED
    BY <1>1, <2>1, <2>2, LoginPutsBack
<1> QED
  BY <1>4, <1>5

LEMMA CallRefreshesKeeps ==
  ASSUME IdentityInv, NEW j \in Job, CallRefreshes(j)
  PROVE  IdentityInv'
<1> USE DEF IdentityInv, IdentityTypeOK
<1> DEFINE kind == IF bearer.kind = "guest" THEN "guest" ELSE "account"
           new == [jobs[j] EXCEPT !.at = "wait", !.on = kind]
<1>1. /\ jobs[j].kind \in {"api", "admin", "logout"} /\ Refresh(kind)
      /\ jobs' = [jobs EXCEPT ![j] = new]
      /\ UNCHANGED <<bearer, guestKey, cookie, authStore, accountSessions, guestSessions>>
  BY DEF CallRefreshes, browserVars, sessionTables
<1>2. kind \in {"guest", "account"}
  OBVIOUS
<1> HIDE DEF kind
<1>3. new \in JobRow /\ new.kind = jobs[j].kind /\ new.previous = jobs[j].previous
  <2>1. jobs[j] \in JobRow
    OBVIOUS
  <2> QED
    BY <1>2, <2>1 DEF JobRow
<1> HIDE DEF new
<1>4. /\ jobs' \in [Job -> JobRow] /\ jobs'[j] = new
      /\ \A k \in Job : k # j => jobs'[k] = jobs[k]
  BY <1>1, <1>3, OneJob
<1>5. \A k \in Job : LoginOk(k)' => LoginOk(k) /\ jobs'[k].sid = jobs[k].sid
  BY <1>1, <1>3, <1>4 DEF LoginOk
<1>6. /\ flights' \subseteq FlightRow /\ IsFiniteSet(flights')
      /\ story' \in StoryRow
      /\ story'.lost <=> story.lost
      /\ story'.putBack <=> story.putBack
      /\ story'.lateAdmin <=> story.lateAdmin
      /\ story'.inside <=> story.inside
      /\ story'.overtaken <=> story.overtaken
      /\ TokensFit'
  BY <1>1, <1>2, <1>5, RefreshKeeps
<1>7. PagesSeeTheIdentity' /\ LoginLasts'
  BY <1>1, <1>6, PagesStillSee
<1>8. StoresKept' /\ LoginsCall'
  <2>1. \A k \in Job : /\ jobs'[k].previous = jobs[k].previous
                       /\ jobs'[k].kind \in {"login", "mfa"} => jobs[k].kind \in {"login", "mfa"} /\ jobs'[k].at = "call"
    BY <1>1, <1>3, <1>4 DEF StoreFits, LoginsCall
  <2> QED
    BY <1>6, <2>1, JobsKept DEF StoreFits
<1>9. WaitsForSomething'
  <2>1. \A k \in Job : jobs'[k].kind = jobs[k].kind
    BY <1>3, <1>4
  <2> QED
    BY <1>1, <2>1, StillWaits
<1>10. IdentityTypeOK'
  BY <1>1, <1>4, <1>6
<1> QED
  BY <1>6, <1>7, <1>8, <1>9, <1>10 DEF StoreFits

LEMMA CallEndsKeeps ==
  ASSUME IdentityInv, NEW j \in Job, CallEnds(j)
  PROVE  IdentityInv'
<1> USE DEF IdentityInv, IdentityTypeOK
<1> DEFINE gone == jobs[j].kind = "logout" /\
                   (jobs[j].got = "ok" \/ (jobs[j].got = "401" /\ bearer.kind = "anonymous"))
           hint == jobs[j].got = "ok"
           late == jobs[j].kind = "admin" /\ hint /\ bearer.kind # "account"
           leaving == [NoJob EXCEPT !.kind = "logout", !.at = "issue"]
           new == IF gone THEN leaving ELSE NoJob
<1>1. /\ jobs[j].kind \in {"api", "admin", "logout"}
      /\ jobs' = [jobs EXCEPT ![j] = new]
      /\ cookie' \in {cookie, NoRefresh}
      /\ story' = [story EXCEPT !.inside = @ /\ ~gone, !.lateAdmin = @ \/ late]
      /\ UNCHANGED <<flights, accountSessions, guestSessions>>
  BY DEF CallEnds, sessionTables
<1>2. gone => setApiIdentity(Anonymous) /\ guestKey' = NoRefresh
  BY DEF CallEnds
<1>3. ~gone => /\ UNCHANGED <<bearer, guestKey>>
               /\ jobs[j].kind = "admin" => authStore' = [authStore EXCEPT !.admin = hint]
               /\ jobs[j].kind = "logout" => authStore' = [authStore EXCEPT !.pending = FALSE]
               /\ jobs[j].kind = "api" => authStore' = authStore
  BY DEF CallEnds
<1>4. hint \in BOOLEAN /\ (jobs[j].kind = "admin" => (late <=> hint /\ bearer.kind # "account"))
  OBVIOUS
<1>5. leaving \in JobRow /\ leaving.kind = "logout" /\ leaving.previous = NewStore
  BY NewRows DEF JobRow
<1> HIDE DEF leaving
<1>6. new \in JobRow /\ new.kind \in {"none", "logout"} /\ new.previous = NewStore
  BY <1>5, NewRows
<1> HIDE DEF new, gone, hint, late
<1>7. /\ jobs' \in [Job -> JobRow] /\ jobs'[j] = new
      /\ \A k \in Job : k # j => jobs'[k] = jobs[k]
  BY <1>1, <1>6, OneJob
<1>8. /\ story' \in StoryRow
      /\ story'.lost <=> story.lost
      /\ story'.doubled <=> story.doubled
      /\ story'.putBack <=> story.putBack
      /\ story'.overtaken <=> story.overtaken
      /\ story'.lateAdmin <=> story.lateAdmin \/ late
      /\ story'.inside <=> story.inside /\ ~gone
  BY <1>1 DEF StoryRow
<1>9. \A k \in Job : LoginOk(k)' => LoginOk(k) /\ jobs'[k].sid = jobs[k].sid
  BY <1>6, <1>7 DEF LoginOk
<1>10. TokensFit'
  BY <1>1, <1>8, <1>9, TokensOfOthers
<1>11. StoresKept' /\ LoginsCall'
  <2>1. \A k \in Job :
          \/ jobs'[k].previous = NewStore /\ jobs'[k].kind \notin {"login", "mfa"}
          \/ /\ jobs'[k].previous = jobs[k].previous
             /\ jobs'[k].kind \in {"login", "mfa"} => jobs[k].kind \in {"login", "mfa"} /\ jobs'[k].at = "call"
    BY <1>6, <1>7 DEF StoreFits, LoginsCall
  <2> QED
    BY <1>8, <2>1, JobsKept DEF StoreFits
<1>12. /\ bearer' \in BearerRow /\ authStore' \in StoreRow /\ guestKey' \in RefreshRow
       /\ PagesSeeTheIdentity' /\ LoginLasts' /\ WaitsForSomething'
  <2>1. CASE gone
    BY <1>2, <1>8, <2>1, NewRows, PagesSeeTheNew
  <2>2. CASE ~gone /\ jobs[j].kind = "admin"
    <3>1. /\ authStore' \in StoreRow /\ authStore'.identity = authStore.identity
          /\ authStore'.status = authStore.status
          /\ authStore'.admin <=> hint
          /\ authStore'.pending <=> authStore.pending
      BY <1>3, <1>4, <2>2 DEF StoreRow
    <3>2. PagesSeeTheIdentity' /\ LoginLasts'
      BY <1>3, <1>4, <1>8, <2>2, <3>1 DEF StoreFits, PagesSeeTheIdentity, LoginLasts
    <3>3. \A k \in Job : jobs[k].kind \in {"boot", "login", "mfa", "logout"} => jobs'[k] = jobs[k]
      BY <1>7, <2>2
    <3>4. WaitsForSomething'
      BY <3>1, <3>3, StillWaits
    <3> QED
      BY <1>3, <2>2, <3>1, <3>2, <3>4
  <2>3. CASE ~gone /\ jobs[j].kind = "logout"
    <3>1. /\ authStore' \in StoreRow /\ authStore'.identity = authStore.identity
          /\ authStore'.status = authStore.status
          /\ authStore'.admin <=> authStore.admin
          /\ ~authStore'.pending
      BY <1>3, <2>3 DEF StoreRow
    <3>2. PagesSeeTheIdentity' /\ LoginLasts'
      BY <1>3, <1>8, <2>3, <3>1, PagesStillSee
    <3>3. \A k \in Job : jobs[k].kind = "boot" => jobs'[k] = jobs[k]
      BY <1>7, <2>3
    <3>4. WaitsForSomething'
      BY <3>1, <3>3, StillWaits
    <3> QED
      BY <1>3, <2>3, <3>1, <3>2, <3>4
  <2>4. CASE ~gone /\ jobs[j].kind = "api"
    <3>1. authStore' = authStore /\ bearer' = bearer /\ guestKey' = guestKey
      BY <1>3, <2>4
    <3>2. PagesSeeTheIdentity' /\ LoginLasts'
      BY <1>8, <3>1, PagesStillSee
    <3>3. \A k \in Job : jobs[k].kind \in {"boot", "login", "mfa", "logout"} => jobs'[k] = jobs[k]
      BY <1>7, <2>4
    <3>4. WaitsForSomething'
      BY <3>1, <3>3, StillWaits
    <3> QED
      BY <3>1, <3>2, <3>4
  <2> QED
    BY <1>1, <2>1, <2>2, <2>3, <2>4
<1>13. cookie' \in RefreshRow
  BY <1>1, NewRows
<1> QED
  BY <1>1, <1>7, <1>8, <1>10, <1>11, <1>12, <1>13 DEF StoreFits

LEMMA GuestArrivesKeeps ==
  ASSUME IdentityInv, NEW j \in Job, GuestArrives(j)
  PROVE  IdentityInv'
<1> USE DEF IdentityInv, IdentityTypeOK
<1> DEFINE now == Bearer("guest", jobs[j].sid)
<1>1. /\ setApiIdentity(now) /\ guestKey' = [sid |-> jobs[j].sid, token |-> 1]
      /\ jobs' = [jobs EXCEPT ![j] = NoJob]
      /\ story' = [story EXCEPT !.overtaken = @ \/ story.inside]
      /\ UNCHANGED <<cookie, flights, guestSessions, accountSessions>>
  BY DEF GuestArrives, sessionTables
<1>2. jobs[j].sid \in Nat
  BY DEF JobRow
<1>3. now \in BearerRow
  BY <1>2, BearerIs DEF Holder
<1> HIDE DEF now
<1>4. /\ jobs' \in [Job -> JobRow] /\ jobs'[j] = NoJob
      /\ \A k \in Job : k # j => jobs'[k] = jobs[k]
  BY <1>1, NewRows, OneJob
<1>5. /\ story' \in StoryRow
      /\ story'.lost <=> story.lost
      /\ story'.doubled <=> story.doubled
      /\ story'.putBack <=> story.putBack
      /\ story'.lateAdmin <=> story.lateAdmin
      /\ story'.inside <=> story.inside
      /\ story'.overtaken <=> story.overtaken \/ story.inside
  BY <1>1 DEF StoryRow
<1>6. /\ bearer' \in BearerRow /\ authStore' \in StoreRow
      /\ PagesSeeTheIdentity' /\ LoginLasts' /\ WaitsForSomething'
  BY <1>1, <1>3, <1>5, PagesSeeTheNew
<1>7. \A k \in Job : LoginOk(k)' => LoginOk(k) /\ jobs'[k].sid = jobs[k].sid
  BY <1>4, NewRows DEF LoginOk
<1>8. TokensFit'
  BY <1>1, <1>5, <1>7, TokensOfOthers
<1>9. StoresKept' /\ LoginsCall'
  <2>1. \A k \in Job :
          \/ jobs'[k].previous = NewStore /\ jobs'[k].kind \notin {"login", "mfa"}
          \/ /\ jobs'[k].previous = jobs[k].previous
             /\ jobs'[k].kind \in {"login", "mfa"} => jobs[k].kind \in {"login", "mfa"} /\ jobs'[k].at = "call"
    BY <1>4, NewRows DEF StoreFits, LoginsCall
  <2> QED
    BY <1>5, <2>1, JobsKept DEF StoreFits
<1>10. guestKey' \in RefreshRow
  BY <1>1, <1>2 DEF RefreshRow
<1> QED
  BY <1>1, <1>4, <1>5, <1>6, <1>8, <1>9, <1>10 DEF StoreFits

LEMMA JobLostKeeps ==
  ASSUME IdentityInv, NEW j \in Job, JobLost(j)
  PROVE  IdentityInv'
<1> USE DEF IdentityInv, IdentityTypeOK
<1> DEFINE kind == jobs[j].kind
           older == \/ kind \in {"login", "mfa"} /\ Outdated(j)
                    \/ kind = "boot" /\ jobs[j].previous.identity # authStore.identity
                    \/ kind = "abandon" /\ authStore.identity # "anonymous"
<1>1. /\ jobs' = [jobs EXCEPT ![j] = NoJob]
      /\ authStore' = CASE kind \in {"login", "mfa"} -> PutBack(j)
                        [] kind = "boot" -> BootFailed(j)
                        [] kind = "abandon" -> [NewStore EXCEPT !.status = "error"]
                        [] kind = "logout" -> [authStore EXCEPT !.pending = FALSE]
                        [] kind = "admin" -> [authStore EXCEPT !.admin = FALSE]
                        [] OTHER -> authStore
      /\ UNCHANGED <<bearer, guestKey, cookie, flights, guestSessions, accountSessions>>
  BY DEF JobLost, browserVars, sessionTables
<1>2. story' = [story EXCEPT !.putBack = @ \/ older]
  BY DEF JobLost
<1>3. /\ kind \in {"login", "mfa"} => (older <=> Outdated(j))
      /\ kind = "boot" => (older <=> jobs[j].previous.identity # authStore.identity)
      /\ kind = "abandon" => (older <=> authStore.identity # "anonymous")
  OBVIOUS
<1>4. kind \in {"none", "boot", "api", "admin", "login", "mfa", "logout", "abandon"}
  BY DEF JobRow
<1> HIDE DEF older
<1>5. /\ story' \in StoryRow
      /\ story'.lost <=> story.lost
      /\ story'.doubled <=> story.doubled
      /\ story'.putBack <=> story.putBack \/ older
      /\ story'.lateAdmin <=> story.lateAdmin
      /\ story'.inside <=> story.inside
      /\ story'.overtaken <=> story.overtaken
  BY <1>2 DEF StoryRow
<1>6. CASE kind \in {"login", "mfa"}
  <2>1. authStore' = PutBack(j)
    BY <1>1, <1>6
  <2>2. story.putBack \/ Outdated(j) => story'.putBack
    BY <1>3, <1>5, <1>6
  <2> QED
    BY <1>1, <1>5, <1>6, <2>1, <2>2, LoginPutsBack
<1>7. CASE kind \notin {"login", "mfa"}
  <2>1. /\ jobs' \in [Job -> JobRow] /\ jobs'[j] = NoJob
        /\ \A k \in Job : k # j => jobs'[k] = jobs[k]
    BY <1>1, NewRows, OneJob
  <2>2. \A k \in Job : LoginOk(k)' => LoginOk(k) /\ jobs'[k].sid = jobs[k].sid
    BY <2>1, NewRows DEF LoginOk
  <2>3. TokensFit'
    BY <1>1, <1>5, <2>2, TokensOfOthers
  <2>4. StoresKept' /\ LoginsCall'
    <3>1. \A k \in Job :
            \/ jobs'[k].previous = NewStore /\ jobs'[k].kind \notin {"login", "mfa"}
            \/ /\ jobs'[k].previous = jobs[k].previous
               /\ jobs'[k].kind \in {"login", "mfa"} => jobs[k].kind \in {"login", "mfa"} /\ jobs'[k].at = "call"
      BY <2>1, NewRows DEF StoreFits, LoginsCall
    <3> QED
      BY <1>5, <3>1, JobsKept DEF StoreFits
  <2>5. authStore' \in StoreRow /\ PagesSeeTheIdentity' /\ LoginLasts' /\ WaitsForSomething'
    <3>1. CASE kind = "boot"
      <4>1. authStore' = BootFailed(j)
        BY <1>1, <3>1
      <4>2. /\ authStore' \in StoreRow /\ authStore'.identity = jobs[j].previous.identity
            /\ authStore'.status = "error"
            /\ authStore'.admin <=> jobs[j].previous.admin
            /\ ~authStore'.pending
        BY <4>1, BootFailedIs
      <4>3. ASSUME ~story'.putBack PROVE jobs[j].previous.identity = bearer.kind
        BY <1>3, <1>5, <3>1, <4>3 DEF StoreFits, PagesSeeTheIdentity
      <4>4. ASSUME ~story'.putBack, ~story'.lateAdmin, authStore'.admin PROVE bearer.kind = "account"
        BY <1>5, <4>2, <4>3, <4>4 DEF StoreFits, StoresKept
      <4>5. PagesSeeTheIdentity'
        BY <1>1, <4>2, <4>3, <4>4 DEF PagesSeeTheIdentity
      <4> QED
        BY <1>1, <1>5, <4>2, <4>5 DEF StoreFits, LoginLasts, WaitsForSomething
    <3>2. CASE kind = "abandon"
      <4>1. authStore' = [NewStore EXCEPT !.status = "error"]
        BY <1>1, <3>2
      <4>2. /\ authStore' \in StoreRow /\ authStore'.identity = "anonymous"
            /\ authStore'.status = "error"
            /\ ~authStore'.admin
            /\ ~authStore'.pending
        BY <4>1 DEF NewStore, StoreRow, Holder
      <4>3. ~story'.putBack => bearer.kind = "anonymous"
        BY <1>3, <1>5, <3>2 DEF StoreFits, PagesSeeTheIdentity
      <4>4. PagesSeeTheIdentity'
        BY <1>1, <4>2, <4>3 DEF PagesSeeTheIdentity
      <4> QED
        BY <1>1, <1>5, <4>2, <4>4 DEF StoreFits, LoginLasts, WaitsForSomething
    <3>3. CASE kind = "logout"
      <4>1. authStore' = [authStore EXCEPT !.pending = FALSE]
        BY <1>1, <3>3
      <4>2. /\ authStore' \in StoreRow /\ authStore'.identity = authStore.identity
            /\ authStore'.status = authStore.status
            /\ authStore'.admin <=> authStore.admin
            /\ ~authStore'.pending
        BY <4>1 DEF StoreRow
      <4>3. PagesSeeTheIdentity' /\ LoginLasts'
        BY <1>1, <1>5, <4>2, PagesStillSee
      <4>4. \A k \in Job : jobs[k].kind = "boot" => jobs'[k] = jobs[k]
        BY <2>1, <3>3
      <4>5. WaitsForSomething'
        BY <4>2, <4>4, StillWaits
      <4> QED
        BY <4>2, <4>3, <4>5
    <3>4. CASE kind = "admin"
      <4>1. authStore' = [authStore EXCEPT !.admin = FALSE]
        BY <1>1, <3>4
      <4>2. /\ authStore' \in StoreRow /\ authStore'.identity = authStore.identity
            /\ authStore'.status = authStore.status
            /\ ~authStore'.admin
            /\ authStore'.pending <=> authStore.pending
        BY <4>1 DEF StoreRow
      <4>3. PagesSeeTheIdentity' /\ LoginLasts'
        BY <1>1, <1>5, <4>2, PagesStillSee
      <4>4. \A k \in Job : jobs[k].kind \in {"boot", "login", "mfa", "logout"} => jobs'[k] = jobs[k]
        BY <2>1, <3>4
      <4>5. WaitsForSomething'
        BY <4>2, <4>4, StillWaits
      <4> QED
        BY <4>2, <4>3, <4>5
    <3>5. CASE kind \in {"none", "api"}
      <4>1. authStore' = authStore
        BY <1>1, <3>5
      <4>2. PagesSeeTheIdentity' /\ LoginLasts'
        BY <1>1, <1>5, <4>1, PagesStillSee
      <4>3. \A k \in Job : jobs[k].kind \in {"boot", "login", "mfa", "logout"} => jobs'[k] = jobs[k]
        BY <2>1, <3>5
      <4>4. WaitsForSomething'
        BY <4>1, <4>3, StillWaits
      <4> QED
        BY <4>1, <4>2, <4>4
    <3> QED
      BY <1>4, <1>7, <3>1, <3>2, <3>3, <3>4, <3>5
  <2> QED
    BY <1>1, <1>5, <2>1, <2>3, <2>4, <2>5 DEF StoreFits
<1> QED
  BY <1>6, <1>7

-----------------------------------------------------------------------------
LEMMA AccessExpiresKeeps == ASSUME IdentityInv, AccessExpires PROVE IdentityInv'
<1> USE DEF IdentityInv, IdentityTypeOK
<1>1. /\ bearer' = [bearer EXCEPT !.old = TRUE]
      /\ UNCHANGED <<guestKey, cookie, authStore, jobs, flights, guestSessions, accountSessions, story>>
  BY DEF AccessExpires, browserVars, sessionTables
<1>2. bearer' \in BearerRow /\ bearer'.kind = bearer.kind
  BY <1>1 DEF BearerRow
<1>3. TokensFit'
  BY <1>1, TokensOfOthers DEF LoginOk
<1>4. StoreFits'
  BY <1>1, <1>2 DEF StoreFits, StoresKept, LoginsCall, PagesSeeTheIdentity, LoginLasts, WaitsForSomething
<1> QED
  BY <1>1, <1>2, <1>3, <1>4

LEMMA NothingOfIdentity ==
  ASSUME IdentityInv,
         UNCHANGED <<bearer, guestKey, cookie, authStore, jobs, flights, guestSessions, accountSessions, story>>
  PROVE  IdentityInv'
<1> USE DEF IdentityInv, IdentityTypeOK
<1>1. TokensFit'
  BY TokensOfOthers DEF LoginOk
<1>2. StoreFits'
  BY DEF StoreFits, StoresKept, LoginsCall, PagesSeeTheIdentity, LoginLasts, WaitsForSomething
<1> QED
  BY <1>1, <1>2

LEMMA ReloadPageKeeps == ASSUME IdentityInv, ReloadPage PROVE IdentityInv'
<1> USE DEF IdentityInv, IdentityTypeOK
<1> DEFINE served == \E f \in flights : f.served
<1>1. /\ bearer' = Anonymous /\ authStore' = NewStore
      /\ jobs' = [j \in Job |-> NoJob] /\ flights' = {}
      /\ story' = [story EXCEPT !.lost = @ \/ served, !.inside = FALSE]
      /\ UNCHANGED <<guestKey, cookie, guestSessions, accountSessions>>
  BY DEF ReloadPage, browserVars, sessionTables
<1>2. ~served => \A f \in flights : ~f.served
  OBVIOUS
<1> HIDE DEF served
<1>3. /\ story' \in StoryRow
      /\ story'.lost <=> story.lost \/ served
      /\ story'.doubled <=> story.doubled
      /\ ~story'.inside
  BY <1>1 DEF StoryRow
<1>4. ~story'.doubled /\ Len(accountSessions) \in Nat
  BY <1>3 DEF TokensFit, RefreshOnce
<1>5. /\ \A f, g \in flights' : f.kind = g.kind => f = g
      /\ \A f \in flights' : f.kind = "account" => f \in flights
      /\ story'.lost \/ \A f \in flights : f.kind = "account" /\ f.served => f \in flights'
  BY <1>1, <1>2, <1>3
<1>6. \A j \in Job : LoginOk(j)' => LoginOk(j) /\ jobs'[j].sid = jobs[j].sid
  BY <1>1, NewRows DEF LoginOk
<1>7. TokensFit'
  BY <1>1, <1>3, <1>4, <1>5, <1>6, TokensSame
<1>8. StoresKept' /\ LoginsCall'
  BY <1>1, NewRows DEF StoresKept, LoginsCall
<1>9. PagesSeeTheIdentity' /\ LoginLasts' /\ WaitsForSomething'
  BY <1>1, <1>3 DEF PagesSeeTheIdentity, LoginLasts, WaitsForSomething, NewStore, Anonymous
<1>10. flights' \subseteq FlightRow /\ IsFiniteSet(flights')
  BY <1>1, FS_EmptySet
<1>11. jobs' \in [Job -> JobRow]
  BY <1>1, NewRows
<1> QED
  BY <1>1, <1>3, <1>7, <1>8, <1>9, <1>10, <1>11, NewRows DEF StoreFits

-----------------------------------------------------------------------------
LEMMA IdentityInvInit == IdentityInit => IdentityInv
<1> SUFFICES ASSUME IdentityInit PROVE IdentityInv
  OBVIOUS
<1> DEFINE row == [live |-> TRUE, token |-> 1]
<1>1. /\ bearer = Anonymous /\ authStore = NewStore /\ flights = {}
      /\ jobs = [j \in Job |-> NoJob] /\ guestSessions = <<>> /\ guestKey = NoRefresh
      /\ story = [lost |-> FALSE, doubled |-> FALSE, putBack |-> FALSE, overtaken |-> FALSE,
                  lateAdmin |-> FALSE, inside |-> FALSE]
  BY DEF IdentityInit
<1>2. \/ accountSessions = <<>> /\ cookie = NoRefresh
      \/ accountSessions = <<row>> /\ cookie = [sid |-> 1, token |-> 1]
  BY DEF IdentityInit
<1>3. row \in LoginRow /\ row.token = 1
  BY DEF LoginRow
<1> HIDE DEF row
<1>4. /\ accountSessions \in Seq(LoginRow) /\ guestSessions \in Seq(LoginRow)
      /\ cookie \in RefreshRow /\ cookie.sid \in 0 .. Len(accountSessions)
      /\ cookie.sid # 0 => accountSessions[cookie.sid].token = cookie.token
  <2>1. CASE accountSessions = <<>> /\ cookie = NoRefresh
    BY <1>1, <2>1, NewRows
  <2>2. CASE accountSessions = <<row>> /\ cookie = [sid |-> 1, token |-> 1]
    <3>1. Len(accountSessions) = 1 /\ accountSessions[1] = row /\ accountSessions \in Seq(LoginRow)
      BY <1>3, <2>2
    <3>2. cookie.sid = 1 /\ cookie.token = 1 /\ cookie \in RefreshRow
      BY <2>2 DEF RefreshRow
    <3>3. guestSessions \in Seq(LoginRow)
      BY <1>1
    <3> QED
      BY <1>3, <3>1, <3>2, <3>3
  <2> QED
    BY <1>2, <2>1, <2>2
<1>5. /\ story \in StoryRow /\ ~story.doubled /\ ~story.inside
  BY <1>1 DEF StoryRow
<1>6. jobs \in [Job -> JobRow] /\ \A j \in Job : jobs[j] = NoJob
  BY <1>1, NewRows
<1>7. IdentityTypeOK
  BY <1>1, <1>4, <1>5, <1>6, NewRows, FS_EmptySet DEF IdentityTypeOK
<1>8. FlightsFit /\ CookieFits /\ RefreshOnce
  BY <1>1, <1>4, <1>5 DEF FlightsFit, CookieFits, RefreshOnce
<1>9. LoginsFit
  BY <1>6, NewRows DEF LoginsFit, LoginOk
<1>10. StoresKept /\ LoginsCall
  BY <1>6, NewRows DEF StoresKept, LoginsCall
<1>11. PagesSeeTheIdentity /\ LoginLasts /\ WaitsForSomething
  BY <1>1, <1>5 DEF PagesSeeTheIdentity, LoginLasts, WaitsForSomething, NewStore, Anonymous
<1> QED
  BY <1>7, <1>8, <1>9, <1>10, <1>11 DEF IdentityInv, TokensFit, StoreFits

LEMMA IdentityStep == IdentityInv /\ [IdentityNext]_identityVars => IdentityInv'
<1> SUFFICES ASSUME IdentityInv, [IdentityNext]_identityVars PROVE IdentityInv'
  OBVIOUS
<1>1. CASE \E f \in flights : \/ ServeGuestFlight(f) \/ ServeAccountFlight(f)
                              \/ FlightLands(f) \/ FlightRefused(f) \/ FlightLost(f)
  BY <1>1, ServeGuestFlightKeeps, ServeAccountFlightKeeps, FlightLandsKeeps, FlightRefusedKeeps, FlightLostKeeps
<1>2. CASE \E j \in Job : \/ bootstrap(j) \/ StartRequest(j) \/ logout(j) \/ abandonSession(j)
                          \/ \E kind \in {"login", "mfa"} : login(j, kind)
  BY <1>2, BootstrapKeeps, StartRequestKeeps, LogoutKeeps, AbandonKeeps, LoginKeeps
<1>3. CASE \E j \in Job : ServeLogin(j) \/ ServeCall(j) \/ ServeGuest(j)
  BY <1>3, ServeLoginKeeps, ServeCallKeeps, ServeGuestKeeps
<1>4. CASE \E j \in Job : LoginArrives(j) \/ CallRefreshes(j) \/ CallEnds(j) \/ GuestArrives(j) \/ JobLost(j)
  BY <1>4, LoginArrivesKeeps, CallRefreshesKeeps, CallEndsKeeps, GuestArrivesKeeps, JobLostKeeps
<1>5. CASE AccessExpires
  BY <1>5, AccessExpiresKeeps
<1>6. CASE RoomChanges
  BY <1>6, NothingOfIdentity DEF RoomChanges, sessionTables
<1>7. CASE ReloadPage
  BY <1>7, ReloadPageKeeps
<1>8. CASE UNCHANGED identityVars
  BY <1>8, NothingOfIdentity DEF identityVars
<1> QED
  BY <1>1, <1>2, <1>3, <1>4, <1>5, <1>6, <1>7, <1>8 DEF IdentityNext

\* A tab knows who it is through refreshes, logins and logouts that overlap: its pages
\* are shown the identity its requests carry, a login lasts until it is left, no refresh
\* token is under way twice, and the page waits for something that is under way
\* (http.ts:53, useAuthStore.ts:48).
THEOREM TabAlwaysKnows == IdentitySpec => []TabKnowsWhoItIs
<1>1. IdentityInv => TabKnowsWhoItIs
  BY DEF IdentityInv, TokensFit, StoreFits, TabKnowsWhoItIs
<1> QED
  BY <1>1, IdentityInvInit, IdentityStep, PTL DEF IdentitySpec

-----------------------------------------------------------------------------
(* The console: rows in order.                                              *)

\* A table of cases.
IsTable == rows \in [Case -> [status : ReportStatus, count : Nat, at : Nat]]

\* A number that has a property has a least one that has it.
LEMMA LeastOf ==
  ASSUME NEW some \in SUBSET Nat, some # {}
  PROVE  \E n \in some : \A m \in some : n <= m
<1>1. PICK n \in some : \A m \in some : ~ (<<m, n>> \in OpToRel(<, Nat))
  BY WFMin, NatLessThanWellFounded, Zenon
<1>2. \A m \in some : ~ (m < n)
  BY <1>1 DEF OpToRel
<1> QED
  BY <1>2

\* The order of the queue is strict and total.
LEMMA BeforeIsAnOrder ==
  ASSUME IsTable
  PROVE  /\ \A c, d \in Case : c # d => Before(c, d) \/ Before(d, c)
         /\ \A c, d, e \in Case : Before(c, d) /\ Before(d, e) => Before(c, e)
         /\ \A c \in Case : ~Before(c, c)
<1>1. Case \subseteq Nat /\ \A c \in Case : rows[c].count \in Nat /\ rows[c].at \in Nat
  BY ConsoleAssumption DEF IsTable
<1>2. ASSUME NEW c \in Case, NEW d \in Case, c # d PROVE Before(c, d) \/ Before(d, c)
  BY <1>1, <1>2 DEF Before
<1>3. ASSUME NEW c \in Case, NEW d \in Case, NEW e \in Case, Before(c, d), Before(d, e) PROVE Before(c, e)
  BY <1>1, <1>3 DEF Before
<1>4. ASSUME NEW c \in Case PROVE ~Before(c, c)
  BY <1>1 DEF Before
<1> QED
  BY <1>2, <1>3, <1>4

\* Rows one after the other in that order.
Ascending(f, n) == \A i, j \in 1 .. n : i < j => Before(f[i], f[j])

\* One more row has its place among rows in order.
LEMMA OneMoreInOrder ==
  ASSUME IsTable, NEW some \in SUBSET Case, NEW c \in Case, c \notin some,
         NEW n \in Nat, NEW f \in [1 .. n -> some], Ascending(f, n)
  PROVE  \E g \in [1 .. n + 1 -> some \cup {c}] : Ascending(g, n + 1)
<1> DEFINE later == {i \in 1 .. n + 1 : i = n + 1 \/ Before(c, f[i])}
<1>1. PICK k \in later : \A i \in later : k <= i
  <2>1. later \in SUBSET Nat /\ n + 1 \in later
    OBVIOUS
  <2> HIDE DEF later
  <2> QED
    BY <2>1, LeastOf
<1>2. k \in 1 .. n + 1 /\ \A i \in 1 .. n : i < k => ~Before(c, f[i])
  BY <1>1
<1>3. \A i \in 1 .. n : f[i] \in some /\ f[i] \in Case /\ f[i] # c
  OBVIOUS
<1>4. \A i \in 1 .. n : i < k => Before(f[i], c)
  BY <1>2, <1>3, BeforeIsAnOrder
<1>5. \A i \in 1 .. n : i >= k => Before(c, f[i])
  <2> SUFFICES ASSUME NEW i \in 1 .. n, i >= k PROVE Before(c, f[i])
    OBVIOUS
  <2>1. k \in 1 .. n /\ Before(c, f[k])
    BY <1>1, <1>2
  <2>2. CASE i = k
    BY <2>1, <2>2
  <2>3. CASE i > k
    BY <1>3, <2>1, <2>3, BeforeIsAnOrder DEF Ascending
  <2> QED
    BY <2>2, <2>3, <1>2
<1> DEFINE g == [i \in 1 .. n + 1 |-> IF i < k THEN f[i] ELSE IF i = k THEN c ELSE f[i - 1]]
<1> HIDE DEF later
<1>6. g \in [1 .. n + 1 -> some \cup {c}]
  BY <1>2, <1>3
<1>7. ASSUME NEW i \in 1 .. n + 1, NEW j \in 1 .. n + 1, i < j PROVE Before(g[i], g[j])
  <2>1. CASE j < k
    BY <1>2, <1>7, <2>1 DEF Ascending
  <2>2. CASE j = k
    BY <1>2, <1>4, <1>7, <2>2
  <2>3. CASE j > k /\ i < k
    <3>1. g[i] = f[i] /\ g[j] = f[j - 1] /\ i \in 1 .. n /\ j - 1 \in 1 .. n /\ i < j - 1
      BY <1>2, <1>7, <2>3
    <3> QED
      BY <3>1 DEF Ascending
  <2>4. CASE j > k /\ i = k
    BY <1>2, <1>5, <1>7, <2>4
  <2>5. CASE i > k
    <3>1. g[i] = f[i - 1] /\ g[j] = f[j - 1] /\ i - 1 \in 1 .. n /\ j - 1 \in 1 .. n /\ i - 1 < j - 1
      BY <1>2, <1>7, <2>5
    <3> QED
      BY <3>1 DEF Ascending
  <2> QED
    BY <1>2, <2>1, <2>2, <2>3, <2>4, <2>5
<1> QED
  BY <1>6, <1>7 DEF Ascending

\* Every set of rows can be put in order.
LEMMA OrderExists ==
  ASSUME IsTable, NEW s0 \in SUBSET Case
  PROVE  \E f \in [1 .. Cardinality(s0) -> s0] : Ascending(f, Cardinality(s0))
<1> DEFINE Sorted(s) == \E f \in [1 .. Cardinality(s) -> s] : Ascending(f, Cardinality(s))
           bad == {n \in Nat : \E s \in SUBSET Case : ~Sorted(s) /\ Cardinality(s) = n}
<1>1. \A s \in SUBSET Case : IsFiniteSet(s) /\ Cardinality(s) \in Nat
  BY ConsoleAssumption, FS_Subset, FS_CardinalityType
<1>2. ASSUME ~Sorted(s0) PROVE FALSE
  <2> HIDE DEF Sorted
  <2>1. bad \in SUBSET Nat /\ bad # {}
    BY <1>1, <1>2
  <2>2. PICK n \in bad : \A m \in bad : n <= m
    <3> HIDE DEF bad
    <3> QED
      BY <2>1, LeastOf
  <2>3. PICK s \in SUBSET Case : ~Sorted(s) /\ Cardinality(s) = n
    BY <2>2
  <2>4. s # {}
    <3> SUFFICES ASSUME s = {} PROVE Sorted(s)
      BY <2>3
    <3>1. Cardinality(s) = 0
      BY FS_EmptySet
    <3>2. [i \in 1 .. 0 |-> i] \in [1 .. 0 -> s]
      BY SMT
    <3>3. Ascending([i \in 1 .. 0 |-> i], 0)
      BY DEF Ascending
    <3> QED
      BY <3>1, <3>2, <3>3 DEF Sorted
  <2>5. PICK c \in s : TRUE
    BY <2>4
  <2>6. Cardinality(s \ {c}) = n - 1 /\ n - 1 \in Nat /\ s \ {c} \in SUBSET Case
    <3>1. Cardinality(s \ {c}) = n - 1
      BY <1>1, <2>3, <2>5, FS_RemoveElement
    <3> QED
      BY <1>1, <2>3, <3>1
  <2>7. Sorted(s \ {c})
    <3> SUFFICES ASSUME ~Sorted(s \ {c}) PROVE FALSE
      OBVIOUS
    <3>1. n - 1 \in bad
      BY <2>6
    <3> QED
      BY <2>2, <2>6, <3>1
  <2>8. PICK f \in [1 .. n - 1 -> s \ {c}] : Ascending(f, n - 1)
    BY <2>6, <2>7 DEF Sorted
  <2>9. \E g \in [1 .. (n - 1) + 1 -> (s \ {c}) \cup {c}] : Ascending(g, (n - 1) + 1)
    BY <2>5, <2>6, <2>8, OneMoreInOrder
  <2>10. (n - 1) + 1 = n /\ (s \ {c}) \cup {c} = s
    BY <2>5, <2>6
  <2> QED
    BY <2>3, <2>9, <2>10 DEF Sorted
<1> QED
  BY <1>2

\* Rows as ORDER BY gives them: all of them, each once, one after the other.
LEMMA OrderedIsInOrder ==
  ASSUME IsTable, NEW some \in SUBSET Case
  PROVE  /\ Ordered(some) \in [1 .. Cardinality(some) -> some] /\ Cardinality(some) \in Nat
         /\ Ascending(Ordered(some), Cardinality(some))
         /\ \A i, j \in 1 .. Cardinality(some) : Ordered(some)[i] = Ordered(some)[j] => i = j
         /\ \A c \in some : \E i \in 1 .. Cardinality(some) : Ordered(some)[i] = c
<1> DEFINE n == Cardinality(some)
           f == Ordered(some)
<1>1. IsFiniteSet(some) /\ n \in Nat
  BY ConsoleAssumption, FS_Subset, FS_CardinalityType
<1>2. PICK g \in [1 .. n -> some] : Ascending(g, n)
  BY OrderExists
<1>3. \A i, j \in DOMAIN g : i < j => Before(g[i], g[j])
  BY <1>2 DEF Ascending
<1>4. f \in [1 .. n -> some] /\ \A i, j \in DOMAIN f : i < j => Before(f[i], f[j])
  BY <1>2, <1>3 DEF Ordered
<1> HIDE DEF f
<1>5. Ascending(f, n)
  BY <1>4 DEF Ascending
<1>6. ASSUME NEW i \in 1 .. n, NEW j \in 1 .. n, f[i] = f[j] PROVE i = j
  <2>1. ~Before(f[i], f[j]) /\ ~Before(f[j], f[i])
    BY <1>4, <1>6, BeforeIsAnOrder
  <2> QED
    BY <1>1, <1>5, <2>1 DEF Ascending
<1>7. f \in Injection(1 .. n, some)
  BY <1>4, <1>6 DEF Injection, IsInjective
<1>8. IsFiniteSet(1 .. n) /\ Cardinality(1 .. n) = n
  <2>1. 1 \in Int /\ n \in Int
    BY <1>1
  <2> QED
    BY <1>1, <2>1, FS_Interval
<1>9. f \in Surjection(1 .. n, some)
  BY <1>1, <1>7, <1>8, FS_Injection
<1> QED
  BY <1>1, <1>4, <1>5, <1>6, <1>9 DEF f, Surjection

-----------------------------------------------------------------------------
(* The console: a page of the queue.                                        *)

Cursors == {NoCursor} \cup [count : Nat \ {0}, ms : Nat, id : Case]
Items == Seq([id : Case, status : ReportStatus])
Pages == [items : Items, cursor : Cursors]
Listed(items) == {items[i].id : i \in DOMAIN items}

\* Rows still to come after a cursor, but for those it may pass over.
Beyond(c, cursor) ==
  PastCursor(c, cursor) \/ (rows[c].count = cursor.count /\ Ms(rows[c].at) = cursor.ms)

\* The first rows of a list.
LEMMA FirstRows ==
  ASSUME NEW some, NEW n \in Nat, NEW f \in [1 .. n -> some], NEW m \in 0 .. n
  PROVE  /\ f \in Seq(some) /\ Len(f) = n
         /\ SubSeq(f, 1, m) \in Seq(some) /\ Len(SubSeq(f, 1, m)) = m
         /\ DOMAIN SubSeq(f, 1, m) = 1 .. m
         /\ \A i \in 1 .. m : SubSeq(f, 1, m)[i] = f[i]
<1>1. f \in Seq(some) /\ Len(f) = n
  OBVIOUS
<1>2. SubSeq(f, 1, m) = [i \in 1 .. m |-> f[i]]
  BY <1>1
<1> QED
  BY <1>1, <1>2

\* What is listed are cases.
LEMMA ItemIsACase ==
  ASSUME NEW items \in Items, NEW i \in DOMAIN items
  PROVE  items[i].id \in Case /\ items[i].status \in ReportStatus
<1> DEFINE row == [id : Case, status : ReportStatus]
<1>1. items \in Seq(row)
  BY DEF Items
<1> HIDE DEF row
<1>2. items[i] \in row
  BY <1>1
<1> QED
  BY <1>2 DEF row

\* The milliseconds of a time.
LEMMA MsBounds ==
  ASSUME NEW t \in Nat
  PROVE  Ms(t) \in Nat /\ 2 * Ms(t) <= t /\ t <= 2 * Ms(t) + 1
BY DEF Ms

\* What getQueue answers: rows of the queue past its cursor, each once; a row left
\* out comes after the answer's cursor or lies in its millisecond; the cursor does
\* not go back, and none of the rows given comes after it.
LEMMA PageOfTheQueue ==
  ASSUME IsTable, NEW cursor \in Cursors, NEW p, p = getQueue(cursor)
  PROVE  /\ p \in Pages
         /\ \A i, j \in DOMAIN p.items : p.items[i].id = p.items[j].id => i = j
         /\ \A i \in DOMAIN p.items : p.items[i].id \in InQueue(cursor)
         /\ p.cursor # NoCursor =>
              /\ \A i \in DOMAIN p.items : ~PastCursor(p.items[i].id, p.cursor)
              /\ \A c \in Case : PastCursor(c, p.cursor) => PastCursor(c, cursor)
         /\ \A c \in InQueue(cursor) :
              c \in Listed(p.items) \/ (p.cursor # NoCursor /\ Beyond(c, p.cursor))
<1> DEFINE S == InQueue(cursor)
           n == Cardinality(S)
           f == Ordered(S)
           m == IF n > QueueLimit THEN QueueLimit ELSE n
           pg == SubSeq(f, 1, m)
           tail == rows[pg[Len(pg)]]
<1>1. S \in SUBSET Case
  BY DEF InQueue
<1>2. /\ f \in [1 .. n -> S] /\ n \in Nat
      /\ Ascending(f, n)
      /\ \A i, j \in 1 .. n : f[i] = f[j] => i = j
      /\ \A c \in S : \E i \in 1 .. n : f[i] = c
  BY <1>1, OrderedIsInOrder
<1>3. QueueLimit \in Nat /\ QueueLimit >= 1
  BY ConsoleAssumption
<1>4. m \in 0 .. n /\ (n > QueueLimit => m = QueueLimit /\ m \in 1 .. n)
  BY <1>2, <1>3
<1> HIDE DEF f, n, S
<1>5. /\ Len(f) = n
      /\ pg \in Seq(S) /\ Len(pg) = m /\ DOMAIN pg = 1 .. m
      /\ \A i \in 1 .. m : pg[i] = f[i]
  <2> HIDE DEF m
  <2> QED
    BY <1>2, <1>4, FirstRows
<1>6. p = [items  |-> [i \in DOMAIN pg |-> [id |-> pg[i], status |-> rows[pg[i]].status]],
           cursor |-> IF n > QueueLimit
                      THEN [count |-> tail.count, ms |-> Ms(tail.at), id |-> pg[Len(pg)]]
                      ELSE NoCursor]
  <2>1. m = IF Len(f) > QueueLimit THEN QueueLimit ELSE Len(f)
    BY <1>5
  <2> HIDE DEF m
  <2> QED
    BY <1>5, <2>1 DEF getQueue, f, S
<1> HIDE DEF m, pg
<1>7. /\ DOMAIN p.items = 1 .. m
      /\ \A i \in 1 .. m : p.items[i] = [id |-> f[i], status |-> rows[f[i]].status]
      /\ p.items = [i \in 1 .. m |-> [id |-> f[i], status |-> rows[f[i]].status]]
  BY <1>5, <1>6
<1>8. \A i \in 1 .. m : p.items[i].id = f[i]
  BY <1>7
<1>9. 1 .. m \subseteq 1 .. n /\ m \in Nat
  BY <1>2, <1>4
<1>10. \A c \in S : c \in Case /\ rows[c].count \in Nat /\ rows[c].count > 0 /\ rows[c].at \in Nat
                    /\ rows[c].status \in ReportStatus /\ PastCursor(c, cursor)
  BY <1>1 DEF S, InQueue, Exists, IsTable
<1>11. p.items \in Items
  <2>1. \A i \in 1 .. m : [id |-> f[i], status |-> rows[f[i]].status] \in [id : Case, status : ReportStatus]
    BY <1>2, <1>9, <1>10
  <2> DEFINE row == [id : Case, status : ReportStatus]
  <2>2. p.items \in [1 .. m -> row]
    BY <1>7, <2>1
  <2> HIDE DEF row
  <2>3. p.items \in Seq(row)
    BY <1>9, <2>2
  <2> QED
    BY <2>3 DEF Items, row
<1>12. CASE n <= QueueLimit
  <2>1. p.cursor = NoCursor /\ m = n
    BY <1>2, <1>3, <1>6, <1>12 DEF m
  <2>2. \A c \in S : c \in Listed(p.items)
    BY <1>2, <1>7, <1>8, <2>1 DEF Listed
  <2>3. p \in Pages
    BY <1>6, <1>11, <2>1 DEF Pages, Cursors
  <2> QED
    BY <1>2, <1>7, <1>8, <1>9, <2>1, <2>2, <2>3 DEF S
<1>13. CASE n > QueueLimit
  <2> DEFINE z == f[m]
  <2>1. m \in 1 .. n /\ z \in S /\ pg[Len(pg)] = z
    BY <1>2, <1>4, <1>5, <1>13
  <2> HIDE DEF z
  <2>2. p.cursor = [count |-> rows[z].count, ms |-> Ms(rows[z].at), id |-> z]
    BY <1>6, <1>13, <2>1
  <2>3. p.cursor \in [count : Nat \ {0}, ms : Nat, id : Case] /\ p.cursor # NoCursor
    <3>1. rows[z].count \in Nat \ {0} /\ rows[z].at \in Nat /\ z \in Case
      BY <1>10, <2>1
    <3>2. Ms(rows[z].at) \in Nat
      BY <3>1, MsBounds
    <3> QED
      BY <2>2, <3>1, <3>2 DEF NoCursor
  <2>4. p \in Pages
    BY <1>6, <1>11, <2>3 DEF Pages, Cursors
  <2>5. \A i \in 1 .. m : f[i] = z \/ Before(f[i], z)
    BY <1>2, <1>9, <2>1 DEF Ascending, z
  <2>6. \A i \in 1 .. n : i \notin 1 .. m => Before(z, f[i])
    BY <1>2, <1>4, <2>1 DEF Ascending, z
  <2>7. /\ rows[z].at \in Nat /\ rows[z].count \in Nat /\ z \in Nat
        /\ Ms(rows[z].at) \in Nat /\ 2 * Ms(rows[z].at) <= rows[z].at /\ rows[z].at <= 2 * Ms(rows[z].at) + 1
    BY <1>1, <1>10, <2>1, MsBounds, ConsoleAssumption
  <2>8. \A i \in 1 .. m : ~PastCursor(f[i], p.cursor)
    <3> SUFFICES ASSUME NEW i \in 1 .. m PROVE ~PastCursor(f[i], p.cursor)
      OBVIOUS
    <3>1. f[i] \in S
      BY <1>2, <1>9
    <3>2. f[i] \in Nat /\ rows[f[i]].count \in Nat /\ rows[f[i]].at \in Nat
      BY <1>1, <1>10, <3>1, ConsoleAssumption
    <3> QED
      BY <2>2, <2>3, <2>5, <2>7, <3>2 DEF PastCursor, Before
  <2>9. \A c \in Case : PastCursor(c, p.cursor) => PastCursor(c, cursor)
    <3> SUFFICES ASSUME NEW c \in Case, PastCursor(c, p.cursor), cursor # NoCursor PROVE PastCursor(c, cursor)
      BY DEF PastCursor
    <3>1. PastCursor(z, cursor)
      BY <1>10, <2>1
    <3>2. c \in Nat /\ rows[c].count \in Nat /\ rows[c].at \in Nat
      BY ConsoleAssumption DEF IsTable
    <3>3. cursor.count \in Nat /\ cursor.ms \in Nat /\ cursor.id \in Nat
      BY ConsoleAssumption DEF Cursors
    <3> QED
      BY <2>2, <2>3, <2>7, <3>1, <3>2, <3>3 DEF PastCursor
  <2>10. \A c \in S : c \in Listed(p.items) \/ Beyond(c, p.cursor)
    <3> SUFFICES ASSUME NEW c \in S, c \notin Listed(p.items) PROVE Beyond(c, p.cursor)
      OBVIOUS
    <3>1. PICK i \in 1 .. n : f[i] = c
      BY <1>2
    <3>2. i \notin 1 .. m
      BY <1>7, <1>8, <3>1 DEF Listed
    <3>3. Before(z, c)
      BY <2>6, <3>1, <3>2
    <3>4. c \in Nat /\ rows[c].count \in Nat /\ rows[c].at \in Nat
      BY <1>1, <1>10, ConsoleAssumption
    <3>5. Ms(rows[c].at) \in Nat /\ 2 * Ms(rows[c].at) <= rows[c].at /\ rows[c].at <= 2 * Ms(rows[c].at) + 1
      BY <3>4, MsBounds
    <3> QED
      BY <2>2, <2>3, <2>7, <3>3, <3>4, <3>5 DEF Beyond, PastCursor, Before
  <2>11. ASSUME NEW i \in DOMAIN p.items, NEW j \in DOMAIN p.items, p.items[i].id = p.items[j].id PROVE i = j
    <3>1. i \in 1 .. m /\ j \in 1 .. m
      BY <1>7, <2>11
    <3>2. f[i] = f[j]
      BY <1>8, <2>11, <3>1
    <3>3. i \in 1 .. n /\ j \in 1 .. n
      BY <1>9, <3>1, Zenon
    <3> QED
      BY <1>2, <3>2, <3>3, Zenon
  <2>12. ASSUME NEW i \in DOMAIN p.items PROVE p.items[i].id \in S
    <3>1. i \in 1 .. m
      BY <1>7
    <3>2. i \in 1 .. n
      BY <1>9, <3>1, Zenon
    <3>3. f[i] \in S
      BY <1>2, <3>2, Zenon
    <3> QED
      BY <1>8, <3>1, <3>3
  <2>13. \A i \in DOMAIN p.items : ~PastCursor(p.items[i].id, p.cursor)
    BY <1>7, <1>8, <2>8
  <2> QED
    BY <2>3, <2>4, <2>9, <2>10, <2>11, <2>12, <2>13 DEF S
<1> QED
  BY <1>2, <1>3, <1>12, <1>13

-----------------------------------------------------------------------------
(* The console: the list while the rows move.                                *)

\* What is stored, and what the histories remember.
TablesOK ==
  /\ IsTable
  /\ instant \in Nat /\ punished \in [Case -> Nat] /\ logged \in Nat
  /\ moved \subseteq Case /\ blurred \subseteq Case /\ setBack \subseteq Case

\* The list and the page on its way to it.
ListOK ==
  /\ queue \in [items : Items, cursor : Cursors, initialized : BOOLEAN, loading : BOOLEAN, failed : BOOLEAN]
  /\ load \in {NoLoad} \cup [kind : {"asked"}, reset : BOOLEAN, cursor : Cursors]
                       \cup [kind : {"served"}, reset : BOOLEAN, page : Pages]
  /\ queue.cursor # NoCursor => queue.initialized
  /\ load.kind = "asked" => load.cursor = IF load.reset THEN NoCursor ELSE queue.cursor
  /\ load # NoLoad => ~queue.failed
  /\ load # NoLoad /\ ~load.reset => queue.cursor # NoCursor

\* Of what is listed only what was set back comes again, after the list's cursor
\* or in a page on its way.
ListedOnce(items) ==
  \A i, j \in DOMAIN items : items[i].id = items[j].id => i = j \/ items[i].id \in setBack
Behind(items, cursor) ==
  cursor # NoCursor => \A i \in DOMAIN items : items[i].id \in setBack \/ ~PastCursor(items[i].id, cursor)
Apart(items, others) ==
  \A i \in DOMAIN items, j \in DOMAIN others : items[i].id = others[j].id => items[i].id \in setBack

NothingTwice ==
  /\ ListedOnce(queue.items) /\ Behind(queue.items, queue.cursor)
  /\ load.kind = "served" => ListedOnce(load.page.items) /\ Behind(load.page.items, load.page.cursor)
  /\ load.kind = "served" /\ ~load.reset =>
       Apart(queue.items, load.page.items) /\ Behind(queue.items, load.page.cursor)

\* What stood still is listed, or still to come.
Covered(listed, cursor) ==
  \A c \in InQueue(NoCursor) \ (moved \cup blurred) :
    c \in listed \/ (cursor # NoCursor /\ Beyond(c, cursor))

NothingMissing ==
  /\ queue.initialized /\ ~queue.failed /\ (load = NoLoad \/ ~load.reset)
     => Covered(Listed(queue.items), queue.cursor)
  /\ load.kind = "served" /\ load.reset => Covered(Listed(load.page.items), load.page.cursor)
  /\ load.kind = "served" /\ ~load.reset =>
       Covered(Listed(queue.items) \cup Listed(load.page.items), load.page.cursor)

ListInv == TablesOK /\ ListOK /\ NothingTwice /\ NothingMissing

\* The kinds of a page's way.
LEMMA LoadKinds ==
  ASSUME ListOK
  PROVE  /\ load.kind \in {"none", "asked", "served"} /\ (load.kind = "none" <=> load = NoLoad)
         /\ load.kind = "asked" => load \in [kind : {"asked"}, reset : BOOLEAN, cursor : Cursors]
         /\ load.kind = "served" => load \in [kind : {"served"}, reset : BOOLEAN, page : Pages]
BY DEF ListOK, NoLoad

\* One case changes: it counts as moved, and unless it is set back it keeps its place
\* or comes forward.
CaseMoves(c) ==
  /\ IsTable' /\ \A d \in Case \ {c} : rows'[d] = rows[d]
  /\ moved' = moved \cup {c} /\ blurred' = blurred
  /\ setBack \subseteq setBack' /\ setBack' \subseteq Case
  /\ c \in setBack' \/ rows'[c].count > rows[c].count
     \/ (rows'[c].count = rows[c].count /\ rows'[c].at >= rows[c].at)

\* What was not past a cursor does not get past it but by being set back.
LEMMA NotPastStays ==
  ASSUME IsTable, NEW c \in Case, CaseMoves(c), NEW d \in Case, NEW cursor \in Cursors,
         d \notin setBack', ~PastCursor(d, cursor)
  PROVE  ~PastCursor(d, cursor)'
<1>1. /\ rows[d].count \in Nat /\ rows[d].at \in Nat /\ rows'[d].count \in Nat /\ rows'[d].at \in Nat
      /\ cursor.count \in Nat /\ cursor.ms \in Nat
  BY DEF IsTable, CaseMoves, Cursors, NoCursor
<1>2. \/ rows'[d] = rows[d] \/ rows'[d].count > rows[d].count
      \/ (rows'[d].count = rows[d].count /\ rows'[d].at >= rows[d].at)
  BY DEF CaseMoves
<1> QED
  BY <1>1, <1>2 DEF PastCursor

\* A list stays as it should be while a case moves.
LEMMA BehindStays ==
  ASSUME IsTable, NEW c \in Case, CaseMoves(c), NEW items \in Items, NEW cursor \in Cursors, Behind(items, cursor)
  PROVE  Behind(items, cursor)'
<1> SUFFICES ASSUME cursor # NoCursor, NEW i \in DOMAIN items, items[i].id \notin setBack'
             PROVE  ~PastCursor(items[i].id, cursor)'
  BY DEF Behind
<1>1. items[i].id \in Case
  BY ItemIsACase
<1>2. ~PastCursor(items[i].id, cursor)
  BY DEF Behind, CaseMoves
<1> QED
  BY <1>1, <1>2, NotPastStays

LEMMA CoveredStays ==
  ASSUME NEW c \in Case, CaseMoves(c), NEW listed, NEW cursor, Covered(listed, cursor)
  PROVE  Covered(listed, cursor)'
<1> SUFFICES ASSUME NEW d \in Case, d \in InQueue(NoCursor)', d \notin moved', d \notin blurred'
             PROVE  d \in listed \/ (cursor # NoCursor /\ Beyond(d, cursor)')
  BY DEF Covered, InQueue
<1>1. d # c /\ rows'[d] = rows[d] /\ d \notin moved /\ d \notin blurred
  BY DEF CaseMoves
<1>2. d \in InQueue(NoCursor)
  BY <1>1 DEF InQueue, Exists, PastCursor
<1>3. d \in listed \/ (cursor # NoCursor /\ Beyond(d, cursor))
  BY <1>1, <1>2 DEF Covered
<1> QED
  BY <1>1, <1>3 DEF Beyond, PastCursor

LEMMA CaseMovesKeepsList ==
  ASSUME ListInv, NEW c \in Case, CaseMoves(c), UNCHANGED <<queue, load>>,
         instant' \in Nat, punished' \in [Case -> Nat], logged' \in Nat
  PROVE  ListInv'
<1> USE DEF ListInv
<1>1. TablesOK'
  BY DEF TablesOK, CaseMoves
<1>2. ListOK'
  BY DEF ListOK
<1>3. /\ queue.items \in Items /\ queue.cursor \in Cursors
      /\ load.kind = "served" => load.page.items \in Items /\ load.page.cursor \in Cursors
  BY LoadKinds DEF ListOK, Pages
<1>4. IsTable /\ setBack \subseteq setBack'
  BY DEF TablesOK, CaseMoves
<1>5. NothingTwice'
  <2>1. ListedOnce(queue.items)' /\ (load.kind = "served" => ListedOnce(load.page.items)')
    BY <1>4 DEF NothingTwice, ListedOnce
  <2>2. Behind(queue.items, queue.cursor)'
    BY <1>3, <1>4, BehindStays DEF NothingTwice
  <2>3. load.kind = "served" => Behind(load.page.items, load.page.cursor)'
    BY <1>3, <1>4, BehindStays DEF NothingTwice
  <2>4. load.kind = "served" /\ ~load.reset => Behind(queue.items, load.page.cursor)'
    BY <1>3, <1>4, BehindStays DEF NothingTwice
  <2>5. load.kind = "served" /\ ~load.reset => Apart(queue.items, load.page.items)'
    BY <1>4 DEF NothingTwice, Apart
  <2> QED
    BY <2>1, <2>2, <2>3, <2>4, <2>5 DEF NothingTwice
<1>6. NothingMissing'
  <2>1. Listed(queue.items)' = Listed(queue.items) /\ Listed(load.page.items)' = Listed(load.page.items)
    BY DEF Listed
  <2>2. queue.initialized /\ ~queue.failed /\ (load = NoLoad \/ ~load.reset)
        => Covered(Listed(queue.items), queue.cursor)'
    BY <2>1, CoveredStays DEF NothingMissing
  <2>3. load.kind = "served" /\ load.reset => Covered(Listed(load.page.items), load.page.cursor)'
    BY <2>1, CoveredStays DEF NothingMissing
  <2>4. load.kind = "served" /\ ~load.reset =>
          Covered(Listed(queue.items) \cup Listed(load.page.items), load.page.cursor)'
    BY <2>1, CoveredStays DEF NothingMissing
  <2> QED
    BY <2>2, <2>3, <2>4 DEF NothingMissing
<1> QED
  BY <1>1, <1>2, <1>5, <1>6

\* The table is the table while its rows stay.
listTables == <<rows, moved, blurred, setBack>>

\* Nothing of the list changes.
LEMMA ListUntouched ==
  ASSUME ListInv, UNCHANGED <<listTables, queue, load>>,
         instant' \in Nat, punished' \in [Case -> Nat], logged' \in Nat
  PROVE  ListInv'
<1> USE DEF listTables
<1>1. TablesOK'
  BY DEF ListInv, TablesOK, IsTable
<1>2. ListOK'
  BY DEF ListInv, ListOK
<1>3. NothingTwice'
  BY DEF ListInv, NothingTwice, ListedOnce, Behind, Apart, PastCursor
<1>4. NothingMissing'
  BY DEF ListInv, NothingMissing, Covered, Listed, Beyond, InQueue, Exists, PastCursor
<1> QED
  BY <1>1, <1>2, <1>3, <1>4 DEF ListInv

\* An operator's act stamps its case: it stays in its place, comes forward or is set back.
LEMMA StampedCaseMoves ==
  ASSUME TablesOK, NEW c \in Case, NEW s \in ReportStatus, stampCase(c, s),
         moved' = moved \cup {c}, blurred' = blurred
  PROVE  CaseMoves(c)
<1>1. JsNow \in Nat
  <2>1. instant \in Nat
    BY DEF TablesOK
  <2>2. Ms(instant) \in Nat
    BY <2>1, MsBounds
  <2> QED
    BY <2>2 DEF JsNow
<1>2. rows' = [rows EXCEPT ![c].status = s, ![c].at = JsNow]
  BY DEF stampCase
<1>3. rows'[c] = [rows[c] EXCEPT !.status = s, !.at = JsNow] /\ \A d \in Case \ {c} : rows'[d] = rows[d]
  BY <1>2 DEF TablesOK, IsTable
<1>4. IsTable'
  BY <1>1, <1>2 DEF TablesOK, IsTable
<1>5. rows'[c].count = rows[c].count /\ rows'[c].at = JsNow
  BY <1>3 DEF TablesOK, IsTable
<1>6. setBack \subseteq setBack' /\ setBack' \subseteq Case /\ (c \in setBack' \/ JsNow >= rows[c].at)
  BY <1>1 DEF stampCase, TablesOK, IsTable
<1> QED
  BY <1>3, <1>4, <1>5, <1>6 DEF CaseMoves

\* A report brings its case forward.
LEMMA ReportedCaseMoves ==
  ASSUME TablesOK, NEW c \in Case, create(c)
  PROVE  CaseMoves(c)
<1>1. rows' = [rows EXCEPT ![c].count = @ + 1, ![c].at = instant]
  BY DEF create
<1>2. IsTable'
  <2>1. rows[c].count + 1 \in Nat /\ instant \in Nat
    BY DEF TablesOK, IsTable
  <2>2. [rows[c] EXCEPT !.count = @ + 1, !.at = instant] \in [status : ReportStatus, count : Nat, at : Nat]
    BY <2>1 DEF TablesOK, IsTable
  <2> QED
    BY <1>1, <2>2 DEF TablesOK, IsTable
<1>3. rows'[c].count = rows[c].count + 1 /\ \A d \in Case \ {c} : rows'[d] = rows[d]
  BY <1>1 DEF TablesOK, IsTable
<1> QED
  BY <1>2, <1>3 DEF create, CaseMoves, TablesOK, IsTable

\* A page is asked for: the first, or the next of a list that has one.
LEMMA LoadReportsKeepsList ==
  ASSUME ListInv, NEW reset \in BOOLEAN, loadReports(reset),
         reset \/ (queue.cursor # NoCursor /\ ~queue.failed),
         UNCHANGED listTables, instant' \in Nat, punished' \in [Case -> Nat], logged' \in Nat
  PROVE  ListInv'
<1>1. CASE load # NoLoad
  BY <1>1, ListUntouched DEF loadReports, queueVars
<1>2. CASE load = NoLoad
  <2> DEFINE request == [kind |-> "asked", reset |-> reset, cursor |-> IF reset THEN NoCursor ELSE queue.cursor]
  <2>1. queue' = [queue EXCEPT !.loading = TRUE, !.failed = FALSE] /\ load' = request
    BY <1>2 DEF loadReports
  <2>2. /\ queue'.items = queue.items /\ queue'.cursor = queue.cursor
        /\ queue'.initialized = queue.initialized /\ ~queue'.failed
        /\ queue' \in [items : Items, cursor : Cursors, initialized : BOOLEAN, loading : BOOLEAN, failed : BOOLEAN]
    BY <2>1 DEF ListInv, ListOK
  <2>3. /\ load' \in [kind : {"asked"}, reset : BOOLEAN, cursor : Cursors]
        /\ load'.kind = "asked" /\ load'.reset = reset /\ load' # NoLoad
        /\ load'.cursor = IF reset THEN NoCursor ELSE queue.cursor
    BY <2>1 DEF ListInv, ListOK, NoLoad, Cursors
  <2>4. TablesOK'
    BY DEF listTables, ListInv, TablesOK, IsTable
  <2>5. ListOK'
    BY <2>2, <2>3 DEF ListInv, ListOK
  <2>6. NothingTwice'
    BY <2>2, <2>3 DEF ListInv, listTables, NothingTwice, ListedOnce, Behind, PastCursor
  <2>7. NothingMissing'
    <3>1. ~reset => Covered(Listed(queue.items), queue.cursor)
      BY <1>2 DEF ListInv, ListOK, NothingMissing
    <3>2. ~reset => Covered(Listed(queue.items), queue.cursor)'
      BY <2>2, <3>1 DEF listTables, Covered, Listed, Beyond, InQueue, Exists, PastCursor
    <3> QED
      BY <2>2, <2>3, <3>2 DEF NothingMissing
  <2> QED
    BY <2>4, <2>5, <2>6, <2>7 DEF ListInv
<1> QED
  BY <1>1, <1>2

\* The server reads a page: what the list has not shown of the rows that stood still
\* is on it, after its cursor, or in the millisecond passed over.
LEMMA ServeQueueKeepsList ==
  ASSUME ListInv, ServeQueue
  PROVE  ListInv'
<1>1. /\ load.kind = "asked" /\ load.cursor \in Cursors /\ load.reset \in BOOLEAN
      /\ load.cursor = IF load.reset THEN NoCursor ELSE queue.cursor
      /\ ~queue.failed /\ (~load.reset => queue.cursor # NoCursor /\ queue.initialized)
      /\ load # NoLoad
  BY LoadKinds DEF ServeQueue, ListInv, ListOK, NoLoad
<1>2. PICK p : p = getQueue(load.cursor)
  OBVIOUS
<1>3. /\ p \in Pages
      /\ \A i, j \in DOMAIN p.items : p.items[i].id = p.items[j].id => i = j
      /\ \A i \in DOMAIN p.items : p.items[i].id \in InQueue(load.cursor)
      /\ p.cursor # NoCursor =>
           /\ \A i \in DOMAIN p.items : ~PastCursor(p.items[i].id, p.cursor)
           /\ \A c \in Case : PastCursor(c, p.cursor) => PastCursor(c, load.cursor)
      /\ \A c \in InQueue(load.cursor) :
           c \in Listed(p.items) \/ (p.cursor # NoCursor /\ Beyond(c, p.cursor))
  BY <1>1, <1>2, PageOfTheQueue DEF ListInv, TablesOK
<1>4. /\ load' = [kind |-> "served", reset |-> load.reset, page |-> p]
      /\ UNCHANGED <<rows, setBack, queue, instant, punished, logged>>
      /\ load.reset => moved' = {} /\ blurred' = {}
      /\ ~load.reset => /\ moved' = moved
                        /\ blurred' = blurred \cup {c \in Case : /\ rows[c].count = load.cursor.count
                                                                /\ Ms(rows[c].at) = load.cursor.ms
                                                                /\ ~PastCursor(c, load.cursor)}
  BY <1>2 DEF ServeQueue, caseTables
<1>5. /\ load'.kind = "served" /\ load'.reset = load.reset /\ load'.page = p /\ load' # NoLoad
      /\ load' \in [kind : {"served"}, reset : BOOLEAN, page : Pages]
  BY <1>1, <1>3, <1>4 DEF NoLoad
<1>6. TablesOK'
  BY <1>4 DEF ListInv, TablesOK, IsTable
<1>7. ListOK'
  BY <1>1, <1>4, <1>5 DEF ListInv, ListOK
<1>8. \A i \in DOMAIN p.items : p.items[i].id \in Case /\ PastCursor(p.items[i].id, load.cursor)
  BY <1>3 DEF InQueue
<1>9. \A i \in DOMAIN queue.items : queue.items[i].id \in Case
  BY ItemIsACase DEF ListInv, ListOK
<1>10. NothingTwice'
  <2>1. ListedOnce(queue.items)' /\ Behind(queue.items, queue.cursor)'
    BY <1>4 DEF ListInv, NothingTwice, ListedOnce, Behind, PastCursor
  <2>2. ListedOnce(p.items)' /\ Behind(p.items, p.cursor)'
    BY <1>3, <1>4 DEF ListedOnce, Behind, PastCursor
  <2>3. ~load.reset => Apart(queue.items, p.items) /\ Behind(queue.items, p.cursor)
    <3> SUFFICES ASSUME ~load.reset PROVE Apart(queue.items, p.items) /\ Behind(queue.items, p.cursor)
      OBVIOUS
    <3>1. \A i \in DOMAIN queue.items : queue.items[i].id \in setBack \/ ~PastCursor(queue.items[i].id, load.cursor)
      BY <1>1 DEF ListInv, NothingTwice, Behind
    <3> QED
      BY <1>3, <1>8, <1>9, <3>1 DEF Apart, Behind
  <2>4. ~load.reset => Apart(queue.items, p.items)' /\ Behind(queue.items, p.cursor)'
    BY <1>4, <2>3 DEF Apart, Behind, PastCursor
  <2> QED
    BY <1>5, <2>1, <2>2, <2>4 DEF NothingTwice
<1>11. NothingMissing'
  <2>1. ~load.reset => Covered(Listed(queue.items), queue.cursor)'
    <3> SUFFICES ASSUME ~load.reset PROVE Covered(Listed(queue.items), queue.cursor)'
      OBVIOUS
    <3>1. Covered(Listed(queue.items), queue.cursor)
      BY <1>1 DEF ListInv, NothingMissing
    <3>2. moved' = moved /\ blurred \subseteq blurred' /\ UNCHANGED <<rows, queue>>
      BY <1>4
    <3> QED
      BY <3>1, <3>2 DEF Covered, Listed, Beyond, InQueue, Exists, PastCursor
  <2>3. load.reset => Covered(Listed(p.items), p.cursor)'
    <3> SUFFICES ASSUME load.reset, NEW c \in InQueue(NoCursor)
                 PROVE  c \in Listed(p.items) \/ (p.cursor # NoCursor /\ Beyond(c, p.cursor))
      BY <1>4 DEF Covered, Listed, Beyond, InQueue, Exists, PastCursor
    <3> QED
      BY <1>1, <1>3
  <2>4. ~load.reset => Covered(Listed(queue.items) \cup Listed(p.items), p.cursor)'
    <3> SUFFICES ASSUME ~load.reset, NEW c \in InQueue(NoCursor), c \notin moved', c \notin blurred',
                        c \notin Listed(queue.items)
                 PROVE  c \in Listed(p.items) \/ (p.cursor # NoCursor /\ Beyond(c, p.cursor))
      BY <1>4 DEF Covered, Listed, Beyond, InQueue, Exists, PastCursor
    <3>1. c \in Case /\ c \notin moved /\ c \notin blurred
      BY <1>4 DEF InQueue
    <3>2. Beyond(c, load.cursor)
      BY <1>1, <3>1 DEF ListInv, NothingMissing, Covered
    <3>3. PastCursor(c, load.cursor)
      BY <1>4, <3>1, <3>2 DEF Beyond
    <3>4. c \in InQueue(load.cursor)
      BY <3>3 DEF InQueue
    <3> QED
      BY <1>3, <3>4
  <2> QED
    BY <1>5, <1>4, <2>1, <2>3, <2>4 DEF NothingMissing
<1> QED
  BY <1>6, <1>7, <1>10, <1>11 DEF ListInv

\* One list put after another.
Joined(s, t, q, m, n) ==
  /\ DOMAIN s = 1 .. m /\ DOMAIN t = 1 .. n /\ DOMAIN q = 1 .. m + n
  /\ \A i \in 1 .. m + n : IF i <= m THEN i \in 1 .. m /\ q[i] = s[i]
                                     ELSE i - m \in 1 .. n /\ q[i] = t[i - m]
  /\ \A i \in 1 .. m : i \in 1 .. m + n /\ q[i] = s[i]
  /\ \A i \in 1 .. n : i + m \in 1 .. m + n /\ q[i + m] = t[i]

LEMMA OneAfterTheOther ==
  ASSUME NEW s \in Items, NEW t \in Items
  PROVE  s \o t \in Items /\ \E m, n \in Nat : Joined(s, t, s \o t, m, n)
<1>0. PICK q : q = s \o t
  OBVIOUS
<1> DEFINE row == [id : Case, status : ReportStatus]
<1>1. s \in Seq(row) /\ t \in Seq(row)
  BY DEF Items
<1> HIDE DEF row
<1>2. PICK m, n : m = Len(s) /\ n = Len(t)
  OBVIOUS
<1>3. q \in Seq(row) /\ m \in Nat /\ n \in Nat /\ DOMAIN s = 1 .. m /\ DOMAIN t = 1 .. n
  BY <1>0, <1>1, <1>2
<1>4. DOMAIN q = 1 .. m + n
  BY <1>0, <1>1, <1>2
<1>5. \A i \in 1 .. m + n : q[i] = IF i <= m THEN s[i] ELSE t[i - m]
  BY <1>0, <1>1, <1>2
<1>6. \A i \in 1 .. m + n : IF i <= m THEN i \in 1 .. m /\ q[i] = s[i]
                            ELSE i - m \in 1 .. n /\ q[i] = t[i - m]
  <2> SUFFICES ASSUME NEW i \in 1 .. m + n
               PROVE  IF i <= m THEN i \in 1 .. m /\ q[i] = s[i]
                      ELSE i - m \in 1 .. n /\ q[i] = t[i - m]
    OBVIOUS
  <2>1. IF i <= m THEN i \in 1 .. m ELSE i - m \in 1 .. n
    BY <1>3
  <2> QED
    BY <1>5, <2>1
<1>7. \A i \in 1 .. m : i \in 1 .. m + n /\ q[i] = s[i]
  <2> SUFFICES ASSUME NEW i \in 1 .. m PROVE i \in 1 .. m + n /\ q[i] = s[i]
    OBVIOUS
  <2>1. i \in 1 .. m + n /\ i <= m
    BY <1>3
  <2> QED
    BY <1>5, <2>1
<1>8. \A i \in 1 .. n : i + m \in 1 .. m + n /\ q[i + m] = t[i]
  <2> SUFFICES ASSUME NEW i \in 1 .. n PROVE i + m \in 1 .. m + n /\ q[i + m] = t[i]
    OBVIOUS
  <2>1. i + m \in 1 .. m + n /\ ~(i + m <= m) /\ (i + m) - m = i
    BY <1>3
  <2>2. q[i + m] = t[(i + m) - m]
    BY <1>5, <2>1
  <2> QED
    BY <2>1, <2>2
<1>9. q \in Items
  BY <1>3 DEF Items, row
<1> QED
  <2>1. Joined(s, t, q, m, n)
    BY <1>3, <1>4, <1>6, <1>7, <1>8, Zenon DEF Joined
  <2> QED
    BY <1>0, <1>3, <1>9, <2>1, Zenon

\* It lists what they list.
LEMMA ListedTogether ==
  ASSUME NEW s \in Items, NEW t \in Items, NEW q, q = s \o t
  PROVE  Listed(q) = Listed(s) \cup Listed(t)
<1>1. PICK m, n \in Nat : Joined(s, t, q, m, n)
  BY OneAfterTheOther, Zenon
<1>3. ASSUME NEW x \in Listed(q) PROVE x \in Listed(s) \cup Listed(t)
  <2>1. PICK i \in 1 .. m + n : x = q[i].id
    BY <1>1, <1>3 DEF Joined, Listed
  <2> QED
    BY <1>1, <2>1 DEF Joined, Listed
<1>4. ASSUME NEW x \in Listed(s) PROVE x \in Listed(q)
  <2>1. PICK i \in 1 .. m : x = s[i].id
    BY <1>1, <1>4 DEF Joined, Listed
  <2> QED
    BY <1>1, <2>1 DEF Joined, Listed
<1>5. ASSUME NEW x \in Listed(t) PROVE x \in Listed(q)
  <2>1. PICK i \in 1 .. n : x = t[i].id
    BY <1>1, <1>5 DEF Joined, Listed
  <2> QED
    BY <1>1, <2>1 DEF Joined, Listed
<1> QED
  BY <1>3, <1>4, <1>5

\* It is in order if they are, and apart.
LEMMA OrderedTogether ==
  ASSUME NEW s \in Items, NEW t \in Items, NEW q, q = s \o t, NEW k,
         ListedOnce(s), ListedOnce(t), Apart(s, t), Behind(s, k), Behind(t, k)
  PROVE  ListedOnce(q) /\ Behind(q, k)
<1>1. PICK m, n \in Nat : Joined(s, t, q, m, n)
  BY OneAfterTheOther, Zenon
<1>3. Behind(q, k)
  <2> SUFFICES ASSUME k # NoCursor, NEW i \in 1 .. m + n
               PROVE  q[i].id \in setBack \/ ~PastCursor(q[i].id, k)
    BY <1>1 DEF Joined, Behind
  <2> QED
    BY <1>1 DEF Joined, Behind
<1>2. \A i \in 1 .. m + n : IF i <= m THEN i \in DOMAIN s /\ q[i] = s[i]
                                   ELSE i - m \in DOMAIN t /\ q[i] = t[i - m]
  BY <1>1 DEF Joined
<1>4. ASSUME NEW i \in 1 .. m + n, NEW j \in 1 .. m + n, q[i].id = q[j].id, q[i].id \notin setBack PROVE i = j
  <2>0. m \in Nat /\ i \in Nat /\ j \in Nat
    BY <1>1
  <2>1. CASE i <= m /\ j <= m
    BY <1>2, <1>4, <2>1 DEF ListedOnce
  <2>2. CASE ~(i <= m) /\ ~(j <= m)
    <3>1. i - m \in DOMAIN t /\ j - m \in DOMAIN t /\ t[i - m].id = t[j - m].id /\ t[i - m].id \notin setBack
      BY <1>2, <1>4, <2>2
    <3>2. i - m = j - m
      BY <3>1 DEF ListedOnce
    <3> QED
      BY <2>0, <3>2
  <2>3. CASE i <= m /\ ~(j <= m)
    <3>1. i \in DOMAIN s /\ j - m \in DOMAIN t /\ s[i].id = t[j - m].id /\ s[i].id \notin setBack
      BY <1>2, <1>4, <2>3
    <3> QED
      BY <3>1 DEF Apart
  <2>4. CASE ~(i <= m) /\ j <= m
    <3>1. j \in DOMAIN s /\ i - m \in DOMAIN t /\ s[j].id = t[i - m].id /\ s[j].id \notin setBack
      BY <1>2, <1>4, <2>4
    <3> QED
      BY <3>1 DEF Apart
  <2> QED
    BY <2>1, <2>2, <2>3, <2>4
<1> QED
  BY <1>1, <1>3, <1>4 DEF Joined, ListedOnce

\* The page arrives: the first makes a new list, another is put after the list.
LEMMA QueueArrivesKeepsList ==
  ASSUME ListInv, QueueArrives
  PROVE  ListInv'
<1>1. /\ load.kind = "served" /\ load \in [kind : {"served"}, reset : BOOLEAN, page : Pages]
      /\ load.page.items \in Items /\ load.page.cursor \in Cursors /\ load.reset \in BOOLEAN /\ load # NoLoad
      /\ ~queue.failed /\ (~load.reset => queue.initialized)
  BY LoadKinds DEF QueueArrives, ListInv, ListOK, Pages, NoLoad
<1> DEFINE shown == IF load.reset THEN load.page.items ELSE queue.items \o load.page.items
<1>2. PICK q : q = shown
  OBVIOUS
<1>3. PICK k : k = load.page.cursor
  OBVIOUS
<1>4. /\ queue' = [items |-> q, cursor |-> k, initialized |-> TRUE, loading |-> FALSE, failed |-> FALSE]
      /\ load' = NoLoad
      /\ UNCHANGED <<rows, instant, punished, logged, moved, blurred, setBack>>
  BY <1>2, <1>3 DEF QueueArrives, caseTables
<1>5. /\ queue.items \in Items
      /\ load.reset => q = load.page.items
      /\ ~load.reset => q = queue.items \o load.page.items
  BY <1>2 DEF ListInv, ListOK
<1>6. q \in Items
  BY <1>1, <1>5, OneAfterTheOther
<1>7. Listed(q) = IF load.reset THEN Listed(load.page.items) ELSE Listed(queue.items) \cup Listed(load.page.items)
  BY <1>1, <1>5, ListedTogether
<1>8. ListedOnce(q) /\ Behind(q, k)
  <2>1. CASE load.reset
    BY <1>1, <1>3, <1>5, <2>1 DEF ListInv, NothingTwice
  <2>2. CASE ~load.reset
    <3>1. /\ ListedOnce(queue.items) /\ ListedOnce(load.page.items) /\ Apart(queue.items, load.page.items)
          /\ Behind(queue.items, k) /\ Behind(load.page.items, k)
      BY <1>1, <1>3, <2>2 DEF ListInv, NothingTwice
    <3> QED
      BY <1>1, <1>5, <2>2, <3>1, OrderedTogether, Zenon
  <2> QED
    BY <2>1, <2>2
<1>9. queue'.items = q /\ queue'.cursor = k /\ queue'.initialized /\ ~queue'.failed
  BY <1>4
<1>10. TablesOK'
  BY <1>4 DEF ListInv, TablesOK, IsTable
<1>11. ListOK'
  BY <1>1, <1>3, <1>4, <1>6 DEF ListOK, NoLoad
<1>12. NothingTwice'
  <2>1. ListedOnce(q)' /\ Behind(q, k)'
    BY <1>4, <1>8 DEF ListedOnce, Behind, PastCursor
  <2> QED
    BY <1>4, <1>9, <2>1 DEF NothingTwice, NoLoad
<1>13. NothingMissing'
  <2>1. Covered(Listed(q), k)
    BY <1>1, <1>3, <1>7 DEF ListInv, NothingMissing
  <2>2. Covered(Listed(q), k)'
    BY <1>4, <2>1 DEF Covered, Listed, Beyond, InQueue, Exists, PastCursor
  <2> QED
    BY <1>4, <1>9, <2>2 DEF NothingMissing, NoLoad
<1> QED
  BY <1>10, <1>11, <1>12, <1>13 DEF ListInv

\* No page comes: what is shown stays, and is no longer taken for whole.
LEMMA QueueFailsKeepsList ==
  ASSUME ListInv, QueueFails
  PROVE  ListInv'
<1>1. /\ queue' = [queue EXCEPT !.initialized = TRUE, !.loading = FALSE, !.failed = TRUE] /\ load' = NoLoad
      /\ UNCHANGED <<rows, instant, punished, logged, moved, blurred, setBack>>
  BY DEF QueueFails, caseTables
<1>2. /\ queue'.items = queue.items /\ queue'.cursor = queue.cursor /\ queue'.initialized /\ queue'.failed
      /\ queue' \in [items : Items, cursor : Cursors, initialized : BOOLEAN, loading : BOOLEAN, failed : BOOLEAN]
  BY <1>1 DEF ListInv, ListOK
<1>3. TablesOK' /\ ListOK'
  BY <1>1, <1>2 DEF ListInv, ListOK, TablesOK, IsTable, NoLoad
<1>4. NothingTwice'
  BY <1>1, <1>2 DEF ListInv, NothingTwice, ListedOnce, Behind, PastCursor, NoLoad
<1>5. NothingMissing'
  BY <1>1, <1>2 DEF NothingMissing, NoLoad
<1> QED
  BY <1>3, <1>4, <1>5 DEF ListInv

-----------------------------------------------------------------------------
(* The console: the open case.                                              *)

ActKind == {"status", "sanction"}

\* A request of the dialog.
IsAct(a) ==
  /\ a \in [n : {a.n}, kind : ActKind \cup {"read"}, id : Case, to : ReportStatus \cup {Unread},
            open : BOOLEAN, served : BOOLEAN, stamp : Nat]
  /\ a.stamp <= logged
  /\ a.kind = "sanction" /\ ~a.served => a.to = "ACTIONED"
  /\ a.kind = "read" => a.open /\ (a.served => a.to # Unread)

\* The requests of an open dialog are its own, one of each kind, and it waits for them.
DialogOK ==
  /\ casefile \in [id : Case \cup {0}, shown : ReportStatus \cup {Unread, "failed"}, next : ReportStatus,
                   busy : SUBSET ActKind, foreign : BOOLEAN, stamp : Nat, crossed : BOOLEAN]
  /\ casefile.stamp <= logged
  /\ casefile.id = 0 => casefile = NoDialog
  /\ casefile.shown = Unread => casefile.busy = {} /\ casefile.stamp = 0
  /\ \A a \in acts : IsAct(a)
  /\ \A a \in acts : a.open => a.id = casefile.id /\ casefile.id # 0
  /\ \A a, b \in acts : a.open /\ b.open /\ a.kind = b.kind => a = b
  /\ \A a \in acts : a.open => IF a.kind = "read" THEN casefile.shown = Unread ELSE a.kind \in casefile.busy

\* An answer on its way to the dialog that tells a status.
Telling(a) == a.open /\ a.served /\ a.to # Unread

\* No two of them were given at the same time, nor at that of the one shown.
StampsTell ==
  /\ \A a, b \in acts : Telling(a) /\ Telling(b) /\ a.stamp = b.stamp => a = b
  /\ \A a \in acts : Telling(a) /\ a.kind # "read" => a.stamp # casefile.stamp

\* The last answer given tells how the case stands.
TellsIt(a) ==
  /\ Telling(a) /\ a.to = rows[a.id].status /\ casefile.stamp <= a.stamp
  /\ \A b \in acts : Telling(b) => b.stamp <= a.stamp

\* Unless someone else moved the case, what it stands at is on its way, or shown, or
\* was shown before an older answer.
DialogTells ==
  casefile.id # 0 /\ ~casefile.foreign =>
    \/ \E a \in acts : TellsIt(a)
    \/ /\ \A b \in acts : Telling(b) => b.stamp < casefile.stamp
       /\ casefile.shown \in ReportStatus
       /\ casefile.crossed \/ casefile.shown = rows[casefile.id].status
    \/ casefile.shown \notin ReportStatus /\ \A b \in acts : ~Telling(b)

DialogInv == DialogOK /\ StampsTell /\ DialogTells

\* Which status follows which.
LEMMA Statuses ==
  /\ ReportStatus = {"OPEN", "TRIAGED", "REVIEWING", "ACTIONED", "DISMISSED", "CLOSED"}
  /\ \A s \in ReportStatus : FirstAllowed(s) \in ReportStatus /\ Range(ALLOWED_TRANSITIONS[s]) \subseteq ReportStatus
  /\ Range(ALLOWED_TRANSITIONS["ACTIONED"]) = {"CLOSED"} /\ Range(ALLOWED_TRANSITIONS["CLOSED"]) = {}
  /\ Unread \notin ReportStatus /\ "failed" \notin ReportStatus
<1>1. ReportStatus = {"OPEN", "TRIAGED", "REVIEWING", "ACTIONED", "DISMISSED", "CLOSED"}
  BY DEF ReportStatus, ALLOWED_TRANSITIONS
<1>2. /\ ALLOWED_TRANSITIONS["OPEN"] = <<"TRIAGED", "DISMISSED">>
      /\ ALLOWED_TRANSITIONS["TRIAGED"] = <<"REVIEWING", "DISMISSED">>
      /\ ALLOWED_TRANSITIONS["REVIEWING"] = <<"ACTIONED", "DISMISSED">>
      /\ ALLOWED_TRANSITIONS["ACTIONED"] = <<"CLOSED">> /\ ALLOWED_TRANSITIONS["DISMISSED"] = <<"CLOSED">>
      /\ ALLOWED_TRANSITIONS["CLOSED"] = <<>>
  BY DEF ALLOWED_TRANSITIONS
<1>3. /\ \A x, y : Range(<<x, y>>) = {x, y} /\ <<x, y>> # <<>> /\ <<x, y>>[1] = x
      /\ \A x : Range(<<x>>) = {x} /\ <<x>> # <<>> /\ <<x>>[1] = x
      /\ Range(<<>>) = {}
  BY DEF Range
<1>4. \A s \in ReportStatus : FirstAllowed(s) \in ReportStatus
  BY <1>1, <1>2, <1>3 DEF FirstAllowed
<1>5. \A s \in ReportStatus : Range(ALLOWED_TRANSITIONS[s]) \subseteq ReportStatus
  <2>1. /\ Range(ALLOWED_TRANSITIONS["OPEN"]) = {"TRIAGED", "DISMISSED"}
        /\ Range(ALLOWED_TRANSITIONS["TRIAGED"]) = {"REVIEWING", "DISMISSED"}
        /\ Range(ALLOWED_TRANSITIONS["REVIEWING"]) = {"ACTIONED", "DISMISSED"}
        /\ Range(ALLOWED_TRANSITIONS["ACTIONED"]) = {"CLOSED"} /\ Range(ALLOWED_TRANSITIONS["DISMISSED"]) = {"CLOSED"}
        /\ Range(ALLOWED_TRANSITIONS["CLOSED"]) = {}
    BY <1>2, <1>3
  <2> QED
    BY <1>1, <2>1
<1> QED
  BY <1>1, <1>2, <1>3, <1>4, <1>5 DEF Unread

\* The statuses of the table stay.
StatusesStay == \A c \in Case : rows'[c].status = rows[c].status

\* Nothing of the dialog changes.
LEMMA DialogUntouched ==
  ASSUME TablesOK, DialogInv, UNCHANGED <<casefile, acts>>, StatusesStay, logged' \in Nat, logged <= logged'
  PROVE  DialogInv'
<1>1. logged \in Nat
  BY DEF TablesOK
<1>2. DialogOK'
  BY <1>1 DEF DialogInv, DialogOK, IsAct
<1>3. StampsTell'
  BY DEF DialogInv, StampsTell, Telling
<1>4. \A a \in acts : TellsIt(a) => TellsIt(a)'
  <2> SUFFICES ASSUME NEW a \in acts, TellsIt(a) PROVE TellsIt(a)'
    OBVIOUS
  <2>1. a.id \in Case
    BY DEF DialogInv, DialogOK, IsAct
  <2> QED
    BY <2>1 DEF TellsIt, Telling, StatusesStay
<1>5. casefile.id # 0 => rows'[casefile.id].status = rows[casefile.id].status
  BY DEF DialogInv, DialogOK, StatusesStay
<1>6. DialogTells'
  BY <1>4, <1>5 DEF DialogInv, DialogTells, Telling
<1> QED
  BY <1>2, <1>3, <1>6 DEF DialogInv

\* Someone else moves a case.
LEMMA OthersKeepDialog ==
  ASSUME TablesOK, DialogInv, NEW c \in Case, UNCHANGED acts, logged' \in Nat, logged <= logged',
         \A d \in Case \ {c} : rows'[d].status = rows[d].status,
         casefile' = [casefile EXCEPT !.foreign = @ \/ casefile.id = c]
  PROVE  DialogInv'
<1>1. logged \in Nat /\ c # 0
  BY ConsoleAssumption DEF TablesOK
<1>2. /\ casefile' \in [id : Case \cup {0}, shown : ReportStatus \cup {Unread, "failed"}, next : ReportStatus,
                        busy : SUBSET ActKind, foreign : BOOLEAN, stamp : Nat, crossed : BOOLEAN]
      /\ casefile'.id = casefile.id /\ casefile'.shown = casefile.shown /\ casefile'.busy = casefile.busy
      /\ casefile'.stamp = casefile.stamp /\ casefile'.crossed = casefile.crossed
      /\ (casefile'.foreign <=> casefile.foreign \/ casefile.id = c)
  BY DEF DialogInv, DialogOK
<1>3. casefile.id = 0 => casefile' = NoDialog
  <2> SUFFICES ASSUME casefile.id = 0 PROVE casefile' = casefile
    BY DEF DialogInv, DialogOK
  <2>1. casefile.foreign = (casefile.foreign \/ casefile.id = c)
    BY <1>1 DEF DialogInv, DialogOK
  <2> QED
    BY <2>1 DEF DialogInv, DialogOK
<1>4. DialogOK'
  BY <1>1, <1>2, <1>3 DEF DialogInv, DialogOK, IsAct
<1>5. StampsTell'
  BY <1>2 DEF DialogInv, StampsTell, Telling
<1>6. DialogTells'
  <2> SUFFICES ASSUME casefile.id # 0, ~casefile'.foreign PROVE DialogTells'
    BY <1>2 DEF DialogTells
  <2>1. ~casefile.foreign /\ casefile.id \in Case \ {c}
    BY <1>2 DEF DialogInv, DialogOK
  <2>2. rows'[casefile.id].status = rows[casefile.id].status
    BY <2>1
  <2>3. \A a \in acts : TellsIt(a) => TellsIt(a)'
    <3> SUFFICES ASSUME NEW a \in acts, TellsIt(a) PROVE TellsIt(a)'
      OBVIOUS
    <3>1. a.id = casefile.id
      BY DEF DialogInv, DialogOK, TellsIt, Telling
    <3> QED
      BY <1>2, <2>2, <3>1 DEF TellsIt, Telling
  <2> QED
    BY <1>2, <2>1, <2>2, <2>3 DEF DialogInv, DialogTells, Telling
<1> QED
  BY <1>4, <1>5, <1>6 DEF DialogInv

\* The dialog is closed: nobody waits for its answers.
LEMMA ClosedKeepsDialog ==
  ASSUME TablesOK, DialogInv, casefile' = NoDialog, acts' = Orphaned, UNCHANGED logged
  PROVE  DialogInv'
<1>1. \A a \in acts' : \E b \in acts : b.kind # "read" /\ a = [b EXCEPT !.open = FALSE]
  BY DEF Orphaned
<1>2. \A a \in acts' : IsAct(a)' /\ ~a.open
  <2> SUFFICES ASSUME NEW a \in acts' PROVE IsAct(a)' /\ ~a.open
    OBVIOUS
  <2>1. PICK b \in acts : b.kind # "read" /\ a = [b EXCEPT !.open = FALSE]
    BY <1>1
  <2>2. IsAct(b)
    BY DEF DialogInv, DialogOK
  <2>3. /\ a \in [n : {a.n}, kind : ActKind \cup {"read"}, id : Case, to : ReportStatus \cup {Unread},
                  open : BOOLEAN, served : BOOLEAN, stamp : Nat]
        /\ a.kind = b.kind /\ a.stamp = b.stamp /\ a.to = b.to /\ (a.served <=> b.served) /\ ~a.open
    BY <2>1, <2>2 DEF IsAct
  <2> QED
    BY <2>1, <2>2, <2>3 DEF IsAct
<1>3. /\ casefile' \in [id : Case \cup {0}, shown : ReportStatus \cup {Unread, "failed"}, next : ReportStatus,
                        busy : SUBSET ActKind, foreign : BOOLEAN, stamp : Nat, crossed : BOOLEAN]
      /\ casefile'.id = 0 /\ casefile'.busy = {} /\ casefile'.stamp = 0
  BY Statuses DEF NoDialog
<1>4. DialogOK'
  BY <1>2, <1>3 DEF DialogOK, TablesOK
<1>5. StampsTell' /\ DialogTells'
  BY <1>2, <1>3 DEF StampsTell, DialogTells, Telling
<1> QED
  BY <1>4, <1>5 DEF DialogInv

\* A new request of the dialog.
LEMMA NewRequest ==
  ASSUME TablesOK, NEW kind \in ActKind \cup {"read"}, NEW id \in Case, NEW to \in ReportStatus \cup {Unread},
         kind = "sanction" => to = "ACTIONED", NEW a, a = CaseRequest(kind, id, to), UNCHANGED logged
  PROVE  /\ IsAct(a)' /\ a.kind = kind /\ a.id = id /\ a.open /\ ~a.served /\ ~Telling(a)
<1>1. a = [n |-> NewNumber(acts), kind |-> kind, id |-> id, to |-> to, open |-> TRUE, served |-> FALSE, stamp |-> 0]
  BY DEF CaseRequest
<1>2. /\ a \in [n : {a.n}, kind : ActKind \cup {"read"}, id : Case, to : ReportStatus \cup {Unread},
                open : BOOLEAN, served : BOOLEAN, stamp : Nat]
      /\ a.kind = kind /\ a.id = id /\ a.to = to /\ a.open /\ ~a.served /\ a.stamp = 0
  BY <1>1
<1> QED
  BY <1>2 DEF IsAct, TablesOK, Telling

\* A case is opened and read.
LEMMA OpenCaseKeepsDialog ==
  ASSUME TablesOK, ListOK, DialogInv, NEW i, OpenCase(i)
  PROVE  DialogInv'
<1>1. casefile.id = 0 /\ queue.items[i].id \in Case /\ queue.items[i].id # 0
  BY ItemIsACase, ConsoleAssumption DEF OpenCase, ListOK
<1>2. PICK a : a = CaseRequest("read", queue.items[i].id, Unread)
  OBVIOUS
<1>3. casefile' = [NoDialog EXCEPT !.id = queue.items[i].id] /\ acts' = acts \cup {a} /\ logged' = logged
  BY <1>2 DEF OpenCase, caseTables
<1>4. IsAct(a)' /\ a.kind = "read" /\ a.id = queue.items[i].id /\ a.open /\ ~Telling(a)
  BY <1>1, <1>2, <1>3, NewRequest
<1>5. /\ casefile' \in [id : Case \cup {0}, shown : ReportStatus \cup {Unread, "failed"}, next : ReportStatus,
                        busy : SUBSET ActKind, foreign : BOOLEAN, stamp : Nat, crossed : BOOLEAN]
      /\ casefile'.id = queue.items[i].id /\ casefile'.busy = {} /\ casefile'.stamp = 0 /\ casefile'.shown = Unread
  BY <1>1, <1>3, Statuses DEF NoDialog
<1>6. \A b \in acts : IsAct(b)' /\ ~b.open /\ ~Telling(b)
  BY <1>1, <1>3 DEF DialogInv, DialogOK, IsAct, Telling
<1>7. DialogOK'
  BY <1>1, <1>3, <1>4, <1>5, <1>6 DEF DialogOK, TablesOK
<1>8. \A b \in acts' : ~Telling(b)
  BY <1>3, <1>4, <1>6
<1>9. StampsTell' /\ DialogTells'
  BY <1>5, <1>8, Statuses DEF StampsTell, DialogTells, Telling
<1> QED
  BY <1>7, <1>9 DEF DialogInv

\* A status is picked.
LEMMA PickStatusKeepsDialog ==
  ASSUME TablesOK, DialogInv, NEW s \in ReportStatus, PickStatus(s)
  PROVE  DialogInv'
<1>1. /\ casefile' = [casefile EXCEPT !.next = s] /\ UNCHANGED <<acts, logged, rows>>
      /\ casefile.shown \in ReportStatus
  BY DEF PickStatus, caseTables
<1>2. /\ casefile' \in [id : Case \cup {0}, shown : ReportStatus \cup {Unread, "failed"}, next : ReportStatus,
                        busy : SUBSET ActKind, foreign : BOOLEAN, stamp : Nat, crossed : BOOLEAN]
      /\ casefile'.id = casefile.id /\ casefile'.shown = casefile.shown /\ casefile'.busy = casefile.busy
      /\ casefile'.stamp = casefile.stamp /\ (casefile'.crossed <=> casefile.crossed)
      /\ (casefile'.foreign <=> casefile.foreign)
  BY <1>1 DEF DialogInv, DialogOK
<1>3. casefile.id # 0
  BY <1>1, Statuses DEF DialogInv, DialogOK, NoDialog
<1>4. DialogOK'
  BY <1>1, <1>2, <1>3 DEF DialogInv, DialogOK, IsAct
<1>5. StampsTell'
  BY <1>1, <1>2 DEF DialogInv, StampsTell, Telling
<1>6. DialogTells'
  BY <1>1, <1>2 DEF DialogInv, DialogTells, TellsIt, Telling
<1> QED
  BY <1>4, <1>5, <1>6 DEF DialogInv

\* An action is asked for.
LEMMA ActKeepsDialog ==
  ASSUME TablesOK, DialogInv, NEW kind \in ActKind, NEW to \in ReportStatus,
         kind = "sanction" => to = "ACTIONED", Act(kind, to)
  PROVE  DialogInv'
<1>1. casefile.shown \in ReportStatus /\ kind \notin casefile.busy
  BY DEF Act
<1>2. casefile.id \in Case /\ casefile.id # 0 /\ casefile.shown # Unread
  BY <1>1, Statuses DEF DialogInv, DialogOK, NoDialog
<1>3. PICK a : a = CaseRequest(kind, casefile.id, to)
  OBVIOUS
<1>4. /\ casefile' = [casefile EXCEPT !.busy = @ \cup {kind}] /\ acts' = acts \cup {a}
      /\ UNCHANGED <<rows, logged>>
  BY <1>3 DEF Act, caseTables
<1>5. IsAct(a)' /\ a.kind = kind /\ a.id = casefile.id /\ a.open /\ ~Telling(a)
  BY <1>2, <1>3, <1>4, NewRequest
<1>6. /\ casefile' \in [id : Case \cup {0}, shown : ReportStatus \cup {Unread, "failed"}, next : ReportStatus,
                        busy : SUBSET ActKind, foreign : BOOLEAN, stamp : Nat, crossed : BOOLEAN]
      /\ casefile'.id = casefile.id /\ casefile'.shown = casefile.shown /\ casefile'.busy = casefile.busy \cup {kind}
      /\ casefile'.stamp = casefile.stamp /\ (casefile'.crossed <=> casefile.crossed)
      /\ (casefile'.foreign <=> casefile.foreign)
  BY <1>4 DEF DialogInv, DialogOK
<1>7. \A b \in acts : /\ IsAct(b)'
                      /\ b.open => b.id = casefile.id /\ b.kind # kind /\ b.kind # "read" /\ b.kind \in casefile.busy
  BY <1>1, <1>2, <1>4 DEF DialogInv, DialogOK, IsAct
<1>8. kind # "read"
  BY DEF ActKind
<1>9. DialogOK'
  BY <1>2, <1>4, <1>5, <1>6, <1>7, <1>8 DEF DialogInv, DialogOK
<1>10. \A b \in acts' : Telling(b) => b \in acts
  BY <1>4, <1>5
<1>11. StampsTell'
  BY <1>6, <1>10 DEF DialogInv, StampsTell, Telling
<1>12. \A b \in acts : TellsIt(b) => TellsIt(b)'
  BY <1>4, <1>6, <1>10 DEF TellsIt, Telling
<1>13. DialogTells'
  BY <1>4, <1>6, <1>10, <1>12 DEF DialogInv, DialogTells, Telling
<1> QED
  BY <1>9, <1>11, <1>13 DEF DialogInv

\* A request leaves without telling anything.
LEMMA LeavesQuietly ==
  ASSUME TablesOK, DialogInv, NEW a \in acts, acts' = acts \ {a}, UNCHANGED <<rows, logged>>,
         casefile' = IF ~a.open THEN casefile ELSE [casefile EXCEPT !.busy = @ \ {a.kind}],
         ~Telling(a), a.kind # "read"
  PROVE  DialogInv'
<1>1. /\ casefile' \in [id : Case \cup {0}, shown : ReportStatus \cup {Unread, "failed"}, next : ReportStatus,
                        busy : SUBSET ActKind, foreign : BOOLEAN, stamp : Nat, crossed : BOOLEAN]
      /\ casefile'.id = casefile.id /\ casefile'.shown = casefile.shown
      /\ casefile'.busy = IF ~a.open THEN casefile.busy ELSE casefile.busy \ {a.kind}
      /\ casefile'.stamp = casefile.stamp /\ (casefile'.crossed <=> casefile.crossed)
      /\ (casefile'.foreign <=> casefile.foreign)
  BY DEF DialogInv, DialogOK
<1>2. casefile.id = 0 => casefile' = casefile
  BY DEF DialogInv, DialogOK
<1>3. DialogOK'
  BY <1>1, <1>2 DEF DialogInv, DialogOK, IsAct
<1>4. StampsTell'
  BY <1>1 DEF DialogInv, StampsTell, Telling
<1>5. \A b \in acts : TellsIt(b) => b \in acts' /\ TellsIt(b)'
  BY <1>1 DEF TellsIt, Telling
<1>6. DialogTells'
  BY <1>1, <1>5 DEF DialogInv, DialogTells, Telling
<1> QED
  BY <1>3, <1>4, <1>6 DEF DialogInv

\* An answer arrives: one that is older than what is shown puts it back.
LEMMA ActArrivesKeepsDialog ==
  ASSUME TablesOK, DialogInv, NEW a \in acts, ActArrives(a)
  PROVE  DialogInv'
<1>1. a.served /\ acts' = acts \ {a} /\ UNCHANGED <<rows, logged>> /\ IsAct(a)
  BY DEF ActArrives, caseTables, DialogInv, DialogOK
<1>2. CASE ~Telling(a)
  <2>1. a.kind # "read"
    BY <1>1, <1>2 DEF IsAct, Telling
  <2>2. casefile' = IF ~a.open THEN casefile ELSE [casefile EXCEPT !.busy = @ \ {a.kind}]
    BY <1>1, <1>2 DEF ActArrives, Telling
  <2> QED
    BY <1>1, <1>2, <2>1, <2>2, LeavesQuietly
<1>3. CASE Telling(a)
  <2>1. a.open /\ a.to \in ReportStatus /\ a.to # Unread /\ a.id = casefile.id /\ casefile.id # 0 /\ a.stamp \in Nat
    BY <1>1, <1>3 DEF Telling, IsAct, DialogInv, DialogOK
  <2>2. casefile' = [casefile EXCEPT !.busy = @ \ {a.kind}, !.shown = a.to, !.next = FirstAllowed(a.to),
                                     !.crossed = a.stamp < casefile.stamp,
                                     !.stamp = IF a.stamp < @ THEN @ ELSE a.stamp]
    BY <2>1 DEF ActArrives
  <2>3. /\ casefile' \in [id : Case \cup {0}, shown : ReportStatus \cup {Unread, "failed"}, next : ReportStatus,
                          busy : SUBSET ActKind, foreign : BOOLEAN, stamp : Nat, crossed : BOOLEAN]
        /\ casefile'.id = casefile.id /\ casefile'.shown = a.to
        /\ casefile'.busy = casefile.busy \ {a.kind}
        /\ casefile'.stamp = (IF a.stamp < casefile.stamp THEN casefile.stamp ELSE a.stamp)
        /\ (casefile'.crossed <=> a.stamp < casefile.stamp)
        /\ (casefile'.foreign <=> casefile.foreign)
    <3>1. FirstAllowed(a.to) \in ReportStatus
      BY <2>1, Statuses
    <3>2. PICK st \in Nat : st = IF a.stamp < casefile.stamp THEN casefile.stamp ELSE a.stamp
      BY <2>1 DEF DialogInv, DialogOK
    <3>3. PICK older \in BOOLEAN : older = (a.stamp < casefile.stamp)
      <4>1. a.stamp \in Nat /\ casefile.stamp \in Nat
        BY <2>1 DEF DialogInv, DialogOK
      <4>2. (a.stamp < casefile.stamp) \in BOOLEAN
        BY <4>1
      <4> QED
        BY <4>2, Zenon
    <3>4. PICK left \in SUBSET ActKind : left = casefile.busy \ {a.kind}
      BY DEF DialogInv, DialogOK
    <3>5. PICK step \in ReportStatus : step = FirstAllowed(a.to)
      BY <3>1
    <3>6. casefile' = [casefile EXCEPT !.busy = left, !.shown = a.to, !.next = step, !.crossed = older, !.stamp = st]
      BY <2>2, <3>2, <3>3, <3>4, <3>5
    <3>7. /\ casefile' \in [id : Case \cup {0}, shown : ReportStatus \cup {Unread, "failed"}, next : ReportStatus,
                            busy : SUBSET ActKind, foreign : BOOLEAN, stamp : Nat, crossed : BOOLEAN]
          /\ casefile'.id = casefile.id /\ casefile'.shown = a.to /\ casefile'.busy = left
          /\ casefile'.stamp = st /\ casefile'.crossed = older /\ casefile'.foreign = casefile.foreign
      BY <2>1, <3>6 DEF DialogInv, DialogOK
    <3> QED
      BY <3>2, <3>3, <3>4, <3>7
  <2>4. \A b \in acts \ {a} : /\ IsAct(b)
                              /\ b.open => /\ b.id = casefile.id /\ b.kind # a.kind /\ b.kind # "read" /\ a.kind # "read"
                                           /\ b.kind \in casefile.busy
    <3> SUFFICES ASSUME NEW b \in acts \ {a}
                 PROVE  IsAct(b) /\ (b.open => /\ b.id = casefile.id /\ b.kind # a.kind /\ b.kind # "read"
                                               /\ a.kind # "read" /\ b.kind \in casefile.busy)
      OBVIOUS
    <3>1. IsAct(b)
      BY DEF DialogInv, DialogOK
    <3> SUFFICES ASSUME b.open PROVE b.id = casefile.id /\ b.kind # a.kind /\ b.kind # "read" /\ a.kind # "read" /\ b.kind \in casefile.busy
      BY <3>1
    <3>2. b.id = casefile.id /\ b.kind # a.kind
      BY <2>1 DEF DialogInv, DialogOK
    <3>3. b.kind = "read" \/ a.kind = "read" => casefile.shown = Unread /\ casefile.busy = {}
      BY <2>1 DEF DialogInv, DialogOK
    <3> QED
      BY <1>1, <2>1, <3>1, <3>2, <3>3 DEF DialogInv, DialogOK
  <2>5. DialogOK'
    <3>1. casefile'.stamp <= logged /\ casefile'.shown # Unread
      BY <1>1, <2>1, <2>3 DEF IsAct, DialogInv, DialogOK
    <3>2. \A b \in acts' : IsAct(b)'
      BY <1>1, <2>4 DEF IsAct
    <3> QED
      BY <1>1, <2>1, <2>3, <2>4, <3>1, <3>2 DEF DialogInv, DialogOK
  <2>6. \A b \in acts' : Telling(b) => b \in acts /\ b.kind # "read" /\ b.stamp # a.stamp /\ b.stamp # casefile.stamp /\ b.stamp \in Nat
    BY <1>1, <1>3, <2>4 DEF DialogInv, StampsTell, Telling, IsAct
  <2>7. StampsTell'
    BY <1>1, <2>3, <2>6 DEF DialogInv, StampsTell, Telling
  <2>8. DialogTells'
    <3> SUFFICES ASSUME ~casefile.foreign PROVE DialogTells'
      BY <2>3 DEF DialogTells
    <3>1. CASE TellsIt(a)
      <4>1. casefile'.stamp = a.stamp /\ ~casefile'.crossed /\ casefile'.shown = rows[casefile.id].status
        BY <2>1, <2>3, <3>1 DEF TellsIt, DialogInv, DialogOK
      <4>2. \A b \in acts' : Telling(b) => b.stamp < casefile'.stamp
        BY <1>1, <2>1, <2>6, <3>1, <4>1 DEF TellsIt
      <4> QED
        BY <1>1, <2>1, <2>3, <4>1, <4>2 DEF DialogTells, Telling
    <3>2. ASSUME NEW b \in acts, TellsIt(b), b # a PROVE DialogTells'
      <4>1. b \in acts' /\ Telling(b) /\ a.stamp <= b.stamp /\ casefile.stamp <= b.stamp
        BY <1>1, <1>3, <3>2 DEF TellsIt
      <4>2. TellsIt(b)'
        BY <1>1, <2>3, <3>2, <4>1 DEF TellsIt, Telling
      <4> QED
        BY <4>1, <4>2 DEF DialogTells
    <3>3. CASE /\ \A b \in acts : Telling(b) => b.stamp < casefile.stamp
               /\ casefile.shown \in ReportStatus
      <4>1. a.stamp < casefile.stamp
        BY <1>3, <3>3
      <4> QED
        BY <1>1, <2>1, <2>3, <3>3, <4>1 DEF DialogTells, Telling
    <3>4. CASE \A b \in acts : ~Telling(b)
      BY <1>3, <3>4
    <3> QED
      BY <2>1, <3>1, <3>2, <3>3, <3>4 DEF DialogInv, DialogTells
  <2> QED
    BY <2>5, <2>7, <2>8 DEF DialogInv
<1> QED
  BY <1>2, <1>3

\* An answer that is lost: what was done is no longer known.
LEMMA ActLostKeepsDialog ==
  ASSUME TablesOK, DialogInv, NEW a \in acts, ActLost(a)
  PROVE  DialogInv'
<1>1. acts' = acts \ {a} /\ UNCHANGED <<rows, logged>> /\ IsAct(a)
  BY DEF ActLost, caseTables, DialogInv, DialogOK
<1>2. CASE ~a.open
  <2>1. casefile' = casefile /\ ~Telling(a) /\ a.kind # "read"
    BY <1>1, <1>2 DEF ActLost, IsAct, Telling
  <2> QED
    BY <1>1, <1>2, <2>1, LeavesQuietly
<1>3. CASE a.open
  <2>1. casefile' = [casefile EXCEPT !.busy = @ \ {a.kind},
                                     !.shown = IF a.kind = "read" THEN "failed" ELSE @,
                                     !.foreign = @ \/ (a.served /\ a.to # Unread)]
    BY <1>3 DEF ActLost
  <2>2. /\ casefile' \in [id : Case \cup {0}, shown : ReportStatus \cup {Unread, "failed"}, next : ReportStatus,
                          busy : SUBSET ActKind, foreign : BOOLEAN, stamp : Nat, crossed : BOOLEAN]
        /\ casefile'.id = casefile.id /\ casefile'.busy = casefile.busy \ {a.kind}
        /\ casefile'.shown = (IF a.kind = "read" THEN "failed" ELSE casefile.shown)
        /\ casefile'.stamp = casefile.stamp /\ (casefile'.crossed <=> casefile.crossed)
        /\ (casefile'.foreign <=> casefile.foreign \/ Telling(a))
    <3>1. PICK strange \in BOOLEAN : strange = (casefile.foreign \/ (a.served /\ a.to # Unread))
      OBVIOUS
    <3>2. PICK left \in SUBSET ActKind : left = casefile.busy \ {a.kind}
      BY DEF DialogInv, DialogOK
    <3>3. PICK shown \in ReportStatus \cup {Unread, "failed"} :
             shown = IF a.kind = "read" THEN "failed" ELSE casefile.shown
      BY DEF DialogInv, DialogOK
    <3>4. casefile' = [casefile EXCEPT !.busy = left, !.shown = shown, !.foreign = strange]
      BY <2>1, <3>1, <3>2, <3>3
    <3>5. /\ casefile' \in [id : Case \cup {0}, shown : ReportStatus \cup {Unread, "failed"}, next : ReportStatus,
                            busy : SUBSET ActKind, foreign : BOOLEAN, stamp : Nat, crossed : BOOLEAN]
          /\ casefile'.id = casefile.id /\ casefile'.shown = shown /\ casefile'.busy = left
          /\ casefile'.stamp = casefile.stamp /\ casefile'.crossed = casefile.crossed /\ casefile'.foreign = strange
      BY <3>4 DEF DialogInv, DialogOK
    <3> QED
      BY <1>3, <3>1, <3>2, <3>3, <3>5 DEF Telling
  <2>3. a.id = casefile.id /\ casefile.id # 0
    BY <1>3 DEF DialogInv, DialogOK
  <2>4. DialogOK'
    <3>1. a.kind = "read" => \A b \in acts \ {a} : ~b.open
      <4> SUFFICES ASSUME a.kind = "read", NEW b \in acts \ {a}, b.open PROVE FALSE
        OBVIOUS
      <4>1. casefile.shown = Unread /\ casefile.busy = {} /\ b.kind # "read"
        BY <1>3 DEF DialogInv, DialogOK
      <4> QED
        BY <4>1 DEF DialogInv, DialogOK
    <3>2. \A b \in acts' : IsAct(b)'
      BY <1>1 DEF DialogInv, DialogOK, IsAct
    <3>3. casefile'.shown = Unread => casefile.shown = Unread
      BY <2>2 DEF Unread
    <3> QED
      BY <1>1, <1>3, <2>2, <2>3, <3>1, <3>2, <3>3 DEF DialogInv, DialogOK
  <2>5. StampsTell'
    BY <1>1, <2>2 DEF DialogInv, StampsTell, Telling
  <2>6. DialogTells'
    <3> SUFFICES ASSUME ~casefile.foreign, ~Telling(a) PROVE DialogTells'
      BY <2>2 DEF DialogTells
    <3>1. \A b \in acts : TellsIt(b) => b \in acts' /\ TellsIt(b)'
      BY <1>1, <2>2 DEF TellsIt, Telling
    <3>2. CASE a.kind # "read"
      BY <1>1, <2>2, <3>1, <3>2 DEF DialogInv, DialogTells, Telling
    <3>3. CASE a.kind = "read"
      <4>1. casefile.shown = Unread /\ casefile'.shown = "failed"
        BY <1>3, <2>2, <3>3 DEF DialogInv, DialogOK
      <4>2. \A b \in acts' : ~Telling(b)
        <5> SUFFICES ASSUME NEW b \in acts', Telling(b) PROVE FALSE
          OBVIOUS
        <5>1. b \in acts /\ b # a /\ b.open
          BY <1>1 DEF Telling
        <5>2. b.kind = "read" \/ b.kind \in casefile.busy
          BY <5>1 DEF DialogInv, DialogOK
        <5> QED
          BY <1>3, <3>3, <4>1, <5>1, <5>2 DEF DialogInv, DialogOK
      <4> QED
        BY <4>1, <4>2, Statuses DEF DialogTells, Telling
    <3> QED
      BY <3>2, <3>3
  <2> QED
    BY <2>4, <2>5, <2>6 DEF DialogInv
<1> QED
  BY <1>2, <1>3

\* What the server makes of a request of the dialog.
Answered(a, to) == [a EXCEPT !.served = TRUE, !.stamp = logged', !.to = to]

\* An answered request is the request.
LEMMA AnsweredIs ==
  ASSUME TablesOK, DialogInv, NEW a \in acts, ~a.served, NEW to \in ReportStatus \cup {Unread},
         logged' \in Nat, NEW b, b = Answered(a, to), a.kind = "read" => to # Unread
  PROVE  /\ IsAct(b)' /\ b.kind = a.kind /\ b.id = a.id /\ (b.open <=> a.open) /\ b.served
         /\ b.to = to /\ b.stamp = logged' /\ IsAct(a)
<1>1. IsAct(a)
  BY DEF DialogInv, DialogOK
<1>2. /\ b \in [n : {b.n}, kind : ActKind \cup {"read"}, id : Case, to : ReportStatus \cup {Unread},
                open : BOOLEAN, served : BOOLEAN, stamp : Nat]
      /\ b.kind = a.kind /\ b.id = a.id /\ (b.open <=> a.open) /\ b.served /\ b.to = to /\ b.stamp = logged'
  BY <1>1 DEF Answered, IsAct
<1> QED
  BY <1>1, <1>2 DEF IsAct

\* The dialog but for what it shows of the case: an answer takes the request's place.
LEMMA AnswerKeepsDialogOK ==
  ASSUME TablesOK, DialogInv, NEW a \in acts, ~a.served, NEW to \in ReportStatus \cup {Unread},
         logged' \in Nat, logged <= logged', a.kind = "read" => to # Unread,
         NEW b, b = Answered(a, to), acts' = (acts \ {a}) \cup {b}, NEW strange \in BOOLEAN,
         casefile' = [casefile EXCEPT !.foreign = strange], casefile.id = 0 => ~strange
  PROVE  DialogOK'
<1>1. /\ IsAct(b)' /\ b.kind = a.kind /\ b.id = a.id /\ (b.open <=> a.open)
  BY AnsweredIs
<1>2. /\ casefile' \in [id : Case \cup {0}, shown : ReportStatus \cup {Unread, "failed"}, next : ReportStatus,
                        busy : SUBSET ActKind, foreign : BOOLEAN, stamp : Nat, crossed : BOOLEAN]
      /\ casefile'.id = casefile.id /\ casefile'.shown = casefile.shown /\ casefile'.busy = casefile.busy
      /\ casefile'.stamp = casefile.stamp
  BY DEF DialogInv, DialogOK
<1>3. casefile.id = 0 => casefile' = NoDialog
  <2> SUFFICES ASSUME casefile.id = 0 PROVE casefile' = NoDialog
    OBVIOUS
  <2>1. casefile = NoDialog /\ strange = FALSE
    BY DEF DialogInv, DialogOK
  <2>2. casefile.foreign = FALSE
    BY <2>1 DEF NoDialog
  <2>3. casefile' = casefile
    BY <2>1, <2>2 DEF DialogInv, DialogOK
  <2> QED
    BY <2>1, <2>3
<1>4. \A c \in acts : IsAct(c)'
  BY DEF DialogInv, DialogOK, IsAct, TablesOK
<1> QED
  BY <1>1, <1>2, <1>3, <1>4 DEF DialogInv, DialogOK, TablesOK

\* The server answers a request of the dialog: what it did to the case the dialog
\* will be told, later than anything it was told before.
LEMMA ServeActKeepsDialog ==
  ASSUME TablesOK, DialogInv, NEW a \in acts, ServeAct(a)
  PROVE  DialogInv'
<1>1. ~a.served /\ IsAct(a) /\ logged \in Nat
  BY DEF ServeAct, DialogInv, DialogOK, TablesOK
<1>2. PICK to : to = CASE a.kind = "read" -> rows[a.id].status
                       [] a.kind # "read" /\ Obeyed(a) -> a.to
                       [] OTHER -> Unread
  OBVIOUS
<1>3. PICK b : b = Answered(a, to)
  OBVIOUS
<1>4. acts' = (acts \ {a}) \cup {b}
  BY <1>2, <1>3 DEF ServeAct, Answered
<1>5. \A c \in acts : IsAct(c) /\ c.stamp \in Nat /\ c.stamp <= logged
  BY DEF DialogInv, DialogOK, IsAct
<1>6. casefile.stamp \in Nat /\ casefile.stamp <= logged
  BY DEF DialogInv, DialogOK
<1>7. ~Telling(a)
  BY <1>1 DEF Telling
<1>8. CASE a.kind = "read"
  <2>1. /\ UNCHANGED <<rows, logged>> /\ to = rows[a.id].status
        /\ casefile' = [casefile EXCEPT !.foreign = FALSE]
    BY <1>2, <1>8 DEF ServeAct, caseTables
  <2>2. to \in ReportStatus /\ to # Unread
    BY <1>1, <2>1, Statuses DEF TablesOK, IsTable, IsAct
  <2>3. /\ b.kind = a.kind /\ b.id = a.id /\ b.open /\ b.served /\ b.to = to /\ b.stamp = logged /\ a.open
    BY <1>1, <1>3, <1>8, <2>1, <2>2, AnsweredIs DEF IsAct
  <2>4. DialogOK'
    <3>1. /\ to \in ReportStatus \cup {Unread} /\ logged' \in Nat /\ logged <= logged' /\ FALSE \in BOOLEAN
          /\ (a.kind = "read" => to # Unread) /\ (casefile.id = 0 => ~FALSE)
      BY <1>1, <2>1, <2>2
    <3> QED
      BY <1>1, <1>3, <1>4, <2>1, <3>1, AnswerKeepsDialogOK, Zenon
  <2>5. casefile'.stamp = casefile.stamp /\ casefile'.id = casefile.id
    BY <2>1 DEF DialogInv, DialogOK
  <2>6. \A c \in acts' : Telling(c) => c = b
    <3> SUFFICES ASSUME NEW c \in acts \ {a}, c.open PROVE FALSE
      BY <1>4 DEF Telling
    <3>1. casefile.shown = Unread /\ casefile.busy = {} /\ c.kind # "read"
      BY <1>8, <2>3 DEF DialogInv, DialogOK
    <3> QED
      BY <3>1 DEF DialogInv, DialogOK
  <2>7. StampsTell'
    <3>1. \A c, d \in acts' : Telling(c) /\ Telling(d) => c = d
      BY <2>6
    <3>2. \A c \in acts' : Telling(c) => c.kind = "read"
      BY <1>8, <2>3, <2>6
    <3> QED
      BY <3>1, <3>2 DEF StampsTell, Telling
  <2>8. TellsIt(b)' /\ b \in acts'
    <3>1. Telling(b) /\ b \in acts'
      BY <1>4, <2>2, <2>3 DEF Telling
    <3>2. b.to = rows'[b.id].status /\ casefile'.stamp <= b.stamp
      BY <1>6, <2>1, <2>3, <2>5
    <3>3. \A c \in acts' : Telling(c) => c.stamp <= b.stamp
      BY <1>1, <2>3, <2>6
    <3> QED
      BY <3>1, <3>2, <3>3 DEF TellsIt, Telling
  <2>9. DialogTells'
    BY <2>8 DEF DialogTells
  <2> QED
    BY <2>4, <2>7, <2>9 DEF DialogInv
<1>9. CASE a.kind # "read" /\ ~Obeyed(a)
  <2>1. /\ UNCHANGED <<rows, logged>> /\ to = Unread
        /\ casefile' = [casefile EXCEPT !.foreign = casefile.foreign]
    BY <1>2, <1>9 DEF ServeAct, caseTables
  <2>2. casefile' = casefile
    BY <2>1 DEF DialogInv, DialogOK
  <2>3. /\ b.kind = a.kind /\ b.id = a.id /\ (b.open <=> a.open) /\ b.served /\ b.to = Unread /\ b.stamp = logged
    BY <1>1, <1>3, <1>9, <2>1, AnsweredIs
  <2>4. casefile.id = 0 => ~casefile.foreign
    BY DEF DialogInv, DialogOK, NoDialog
  <2>5. DialogOK'
    <3>1. casefile.foreign \in BOOLEAN
      BY DEF DialogInv, DialogOK
    <3> QED
      BY <1>1, <1>3, <1>4, <1>9, <2>1, <2>4, <3>1, AnswerKeepsDialogOK
  <2>6. \A c : c \in acts' /\ Telling(c) <=> c \in acts /\ Telling(c)
    BY <1>4, <1>7, <2>3 DEF Telling
  <2>7. StampsTell'
    BY <2>2, <2>6 DEF DialogInv, StampsTell, Telling
  <2>8. \A c \in acts : TellsIt(c) => c \in acts' /\ TellsIt(c)'
    BY <2>1, <2>2, <2>6 DEF TellsIt, Telling
  <2>9. DialogTells'
    BY <2>1, <2>2, <2>6, <2>8 DEF DialogInv, DialogTells, Telling
  <2> QED
    BY <2>5, <2>7, <2>9 DEF DialogInv
<1>10. CASE a.kind # "read" /\ Obeyed(a)
  <2>1. /\ to = a.to
        /\ IF a.kind = "status" THEN updateStatus(a.id, a.to) ELSE sanction(a.id)
        /\ casefile' = [casefile EXCEPT !.foreign = IF a.open THEN FALSE ELSE casefile.foreign \/ casefile.id = a.id]
    BY <1>2, <1>10 DEF ServeAct
  <2>2. a.id \in Case /\ a.kind \in ActKind /\ a.to \in ReportStatus
    <3>1. a.id \in Case /\ a.kind \in ActKind
      BY <1>1, <1>10 DEF IsAct
    <3>2. CASE a.kind = "status"
      BY <1>10, <3>1, <3>2, Statuses DEF Obeyed, MayMove, TablesOK, IsTable
    <3>3. CASE a.kind = "sanction"
      BY <1>1, <3>3, Statuses DEF IsAct
    <3> QED
      BY <3>1, <3>2, <3>3 DEF ActKind
  <2>3. rows' = [rows EXCEPT ![a.id].status = a.to, ![a.id].at = JsNow] /\ logged' \in Nat /\ logged < logged'
    <3>1. CASE a.kind = "status"
      BY <1>1, <2>1, <3>1 DEF updateStatus, stampCase
    <3>2. CASE a.kind = "sanction"
      BY <1>1, <2>1, <3>2 DEF sanction, stampCase, IsAct
    <3> QED
      BY <2>2, <3>1, <3>2 DEF ActKind
  <2>4. rows'[a.id].status = a.to /\ \A c \in Case \ {a.id} : rows'[c].status = rows[c].status
    BY <2>2, <2>3 DEF TablesOK, IsTable
  <2>5. /\ b.kind = a.kind /\ b.id = a.id /\ (b.open <=> a.open) /\ b.served /\ b.to = a.to /\ b.stamp = logged'
    BY <1>1, <1>3, <1>10, <2>1, <2>2, <2>3, AnsweredIs
  <2>6. PICK strange \in BOOLEAN : strange = IF a.open THEN FALSE ELSE casefile.foreign \/ casefile.id = a.id
    BY DEF DialogInv, DialogOK
  <2>7. casefile' = [casefile EXCEPT !.foreign = strange]
    BY <2>1, <2>6
  <2>8. casefile.id = 0 => ~strange
    BY <2>2, <2>6, ConsoleAssumption DEF DialogInv, DialogOK, NoDialog
  <2>9. DialogOK'
    <3>1. /\ to \in ReportStatus \cup {Unread} /\ logged' \in Nat /\ logged <= logged'
          /\ (a.kind = "read" => to # Unread)
      BY <1>1, <1>10, <2>1, <2>2, <2>3
    <3> QED
      BY <1>1, <1>3, <1>4, <2>7, <2>8, <3>1, AnswerKeepsDialogOK, Zenon
  <2>10. /\ casefile'.id = casefile.id /\ casefile'.shown = casefile.shown /\ casefile'.stamp = casefile.stamp
         /\ (casefile'.crossed <=> casefile.crossed) /\ casefile'.foreign = strange
    BY <2>7 DEF DialogInv, DialogOK
  <2>11. \A c \in acts' : c = b \/ (c \in acts /\ c # a /\ c.stamp \in Nat /\ c.stamp < logged')
    BY <1>1, <1>4, <1>5, <2>3
  <2>12. StampsTell'
    <3>1. \A c, d \in acts' : Telling(c) /\ Telling(d) /\ c.stamp = d.stamp => c = d
      BY <2>3, <2>5, <2>11 DEF DialogInv, StampsTell
    <3>2. \A c \in acts' : Telling(c) /\ c.kind # "read" => c.stamp # casefile.stamp
      BY <1>1, <1>6, <2>3, <2>5, <2>11 DEF DialogInv, StampsTell
    <3> QED
      BY <2>10, <3>1, <3>2 DEF StampsTell, Telling
  <2>13. DialogTells'
    <3>1. CASE a.open
      <4>1. Telling(b)
        BY <2>2, <2>5, <3>1, Statuses DEF Telling
      <4>2. TellsIt(b)' /\ b \in acts'
        BY <1>1, <1>4, <1>6, <2>3, <2>4, <2>5, <2>10, <2>11, <4>1 DEF TellsIt, Telling
      <4> QED
        BY <4>2 DEF DialogTells
    <3>2. CASE ~a.open
      <4> SUFFICES ASSUME casefile.id # 0, ~strange PROVE DialogTells'
        BY <2>10 DEF DialogTells
      <4>1. ~casefile.foreign /\ casefile.id # a.id /\ casefile.id \in Case
        BY <2>6, <3>2 DEF DialogInv, DialogOK
      <4>2. rows'[casefile.id].status = rows[casefile.id].status
        BY <2>4, <4>1
      <4>3. \A c : c \in acts' /\ Telling(c) <=> c \in acts /\ Telling(c)
        BY <1>4, <1>7, <2>5, <3>2 DEF Telling
      <4>4. \A c \in acts : TellsIt(c) => c \in acts' /\ TellsIt(c)'
        <5> SUFFICES ASSUME NEW c \in acts, TellsIt(c) PROVE c \in acts' /\ TellsIt(c)'
          OBVIOUS
        <5>1. c.id = casefile.id
          BY DEF DialogInv, DialogOK, TellsIt, Telling
        <5> QED
          BY <2>10, <4>2, <4>3, <5>1 DEF TellsIt, Telling
      <4> QED
        BY <2>10, <4>1, <4>2, <4>3, <4>4 DEF DialogInv, DialogTells, Telling
    <3> QED
      BY <3>1, <3>2
  <2> QED
    BY <2>9, <2>12, <2>13 DEF DialogInv
<1> QED
  BY <1>8, <1>9, <1>10

-----------------------------------------------------------------------------
(* The console: one sanction for a case.                                     *)

\* A case that was sanctioned is ACTIONED or CLOSED.
SanctionsTell ==
  \A c \in Case : punished[c] <= 1 /\ (punished[c] = 1 => rows[c].status \in {"ACTIONED", "CLOSED"})

\* Nothing is sanctioned and no status moves.
LEMMA SanctionsUntouched ==
  ASSUME SanctionsTell, StatusesStay, UNCHANGED punished
  PROVE  SanctionsTell'
BY DEF SanctionsTell, StatusesStay

\* A status moves: an actioned case can only be closed.
LEMMA UpdateKeepsSanctions ==
  ASSUME TablesOK, SanctionsTell, NEW c \in Case, NEW s \in ReportStatus, MayMove(c, s), updateStatus(c, s)
  PROVE  SanctionsTell'
<1>1. rows'[c].status = s /\ \A d \in Case \ {c} : rows'[d].status = rows[d].status
  BY DEF updateStatus, stampCase, TablesOK, IsTable
<1>2. rows[c].status \in {"ACTIONED", "CLOSED"} => s = "CLOSED"
  BY Statuses DEF MayMove
<1>3. punished' = punished
  BY DEF updateStatus
<1> QED
  BY <1>1, <1>2, <1>3 DEF SanctionsTell

\* A sanction: only for a case that has none.
LEMMA SanctionKeepsSanctions ==
  ASSUME TablesOK, SanctionsTell, NEW c \in Case, MaySanction(c), sanction(c)
  PROVE  SanctionsTell'
<1>1. rows'[c].status = "ACTIONED" /\ \A d \in Case \ {c} : rows'[d].status = rows[d].status
  BY DEF sanction, stampCase, TablesOK, IsTable
<1>2. punished[c] = 0
  BY DEF MaySanction, SanctionsTell, TablesOK
<1>3. punished'[c] = 1 /\ \A d \in Case \ {c} : punished'[d] = punished[d]
  BY <1>2 DEF sanction, TablesOK
<1> QED
  BY <1>1, <1>3 DEF SanctionsTell

-----------------------------------------------------------------------------
(* The console: the audit log.                                              *)

LogCursors == Nat \ {1}
LogPage == [ids : Seq(Nat), before : LogCursors]

\* Rows of the log one below the other, ending where the next page begins or at the first row.
GoodLog(ids, before) ==
  /\ \A i \in 1 .. Len(ids) - 1 : ids[i + 1] = ids[i] - 1
  /\ ids # <<>> => ids[Len(ids)] = IF before = 0 THEN 1 ELSE before
  /\ before # 0 => ids # <<>>

\* A request of the inspection tab, with its page once served.
IsLoad(l) ==
  /\ l \in [n : {l.n}, before : LogCursors, page : {<<>>} \cup LogPage, served : BOOLEAN, looking : BOOLEAN]
  /\ l.served /\ ~l.looking =>
       /\ l.page \in LogPage /\ GoodLog(l.page.ids, l.page.before)
       /\ l.before # 0 => l.page.ids # <<>> /\ l.page.ids[1] = l.before - 1

LogInv ==
  /\ audit \in [ids : Seq(Nat), before : LogCursors, busy : BOOLEAN, mixed : BOOLEAN]
  /\ ~audit.mixed => GoodLog(audit.ids, audit.before)
  /\ \A l \in auditLoads : IsLoad(l)

\* What auditLog answers.
LEMMA PageOfTheLog ==
  ASSUME logged \in Nat, NEW before \in LogCursors, NEW p, p = auditLog(before)
  PROVE  /\ p \in LogPage /\ GoodLog(p.ids, p.before)
         /\ before # 0 => p.ids # <<>> /\ p.ids[1] = before - 1
<1>1. PICK top : top = IF before = 0 THEN logged ELSE before - 1
  OBVIOUS
<1>2. PICK size : size = IF top > AuditPage THEN AuditPage ELSE top
  OBVIOUS
<1>3. top \in Nat /\ (before # 0 => top = before - 1 /\ top >= 1) /\ AuditPage \in Nat /\ AuditPage >= 1
  BY <1>1, ConsoleAssumption DEF LogCursors
<1>4. size \in Nat /\ size <= top /\ (top >= 1 => size >= 1) /\ (top <= AuditPage => size = top)
      /\ (top > AuditPage => size = AuditPage /\ size < top)
  BY <1>2, <1>3
<1>5. p = [ids |-> [i \in 1 .. size |-> top - i + 1], before |-> IF top > AuditPage THEN top - size + 1 ELSE 0]
  BY <1>1, <1>2 DEF auditLog
<1>6. PICK ids : ids = [i \in 1 .. size |-> top - i + 1]
  OBVIOUS
<1>7. ids \in [1 .. size -> Nat] /\ \A i \in 1 .. size : ids[i] = top - i + 1
  BY <1>3, <1>4, <1>6
<1>8. ids \in Seq(Nat) /\ Len(ids) = size /\ (size >= 1 => ids # <<>>)
  BY <1>4, <1>7
<1>9. PICK k : k = IF top > AuditPage THEN top - size + 1 ELSE 0
  OBVIOUS
<1>10. k \in LogCursors /\ (k = 0 <=> top <= AuditPage) /\ (k # 0 => k = top - size + 1)
  BY <1>3, <1>4, <1>9 DEF LogCursors
<1>11. p.ids = ids /\ p.before = k /\ p \in LogPage
  BY <1>5, <1>6, <1>8, <1>9, <1>10 DEF LogPage
<1>12. GoodLog(ids, k)
  <2>1. \A i \in 1 .. size - 1 : ids[i + 1] = ids[i] - 1
    BY <1>3, <1>4, <1>7
  <2>2. ids # <<>> => size >= 1
    BY <1>4, <1>8
  <2>3. size >= 1 => ids[size] = top - size + 1
    BY <1>4, <1>7
  <2>4. k # 0 => size >= 1
    BY <1>3, <1>4, <1>10
  <2> QED
    BY <1>3, <1>4, <1>8, <1>10, <2>1, <2>2, <2>3, <2>4 DEF GoodLog
<1>13. before # 0 => ids # <<>> /\ ids[1] = before - 1
  BY <1>3, <1>4, <1>7, <1>8
<1> QED
  BY <1>11, <1>12, <1>13

\* An older page put below the log where it ended.
LEMMA LogGoesOn ==
  ASSUME NEW s \in Seq(Nat), NEW t \in Seq(Nat), NEW k \in Nat, k # 0, NEW b \in Nat,
         GoodLog(s, k), GoodLog(t, b), t # <<>>, t[1] = k - 1
  PROVE  GoodLog(s \o t, b)
<1>1. PICK q : q = s \o t
  OBVIOUS
<1>2. PICK m, n : m = Len(s) /\ n = Len(t)
  OBVIOUS
<1>3. /\ m \in Nat /\ n \in Nat /\ n >= 1 /\ m >= 1 /\ Len(q) = m + n /\ q # <<>> /\ q \in Seq(Nat)
      /\ \A i \in 1 .. m : s[i] \in Nat
  BY <1>1, <1>2 DEF GoodLog
<1>4. \A i \in 1 .. m + n : q[i] = IF i <= m THEN s[i] ELSE t[i - m]
  BY <1>1, <1>2
<1>5. s[m] = k /\ t[n] = (IF b = 0 THEN 1 ELSE b)
  BY <1>2, <1>3 DEF GoodLog
<1>6. ASSUME NEW i \in 1 .. (m + n) - 1 PROVE q[i + 1] = q[i] - 1
  <2>1. CASE i < m
    <3>1. i \in 1 .. m - 1 /\ i \in 1 .. m + n /\ i + 1 \in 1 .. m + n /\ i <= m /\ i + 1 <= m
      BY <1>3, <2>1
    <3>2. s[i + 1] = s[i] - 1
      BY <1>2, <3>1 DEF GoodLog
    <3> QED
      BY <1>4, <3>1, <3>2
  <2>2. CASE i = m
    <3>1. i \in 1 .. m + n /\ i + 1 \in 1 .. m + n /\ i <= m /\ ~(i + 1 <= m) /\ (i + 1) - m = 1
      BY <1>3, <2>2
    <3> QED
      BY <1>4, <1>5, <2>2, <3>1
  <2>3. CASE i > m
    <3>1. /\ i - m \in 1 .. n - 1 /\ i \in 1 .. m + n /\ i + 1 \in 1 .. m + n /\ ~(i <= m) /\ ~(i + 1 <= m)
          /\ (i + 1) - m = (i - m) + 1
      BY <1>3, <2>3
    <3>2. t[(i - m) + 1] = t[i - m] - 1
      BY <1>2, <3>1 DEF GoodLog
    <3> QED
      BY <1>4, <3>1, <3>2
  <2> QED
    BY <1>3, <2>1, <2>2, <2>3
<1>7. q[m + n] = t[n]
  <2>1. m + n \in 1 .. m + n /\ ~(m + n <= m) /\ (m + n) - m = n
    BY <1>3
  <2> QED
    BY <1>4, <2>1
<1>8. GoodLog(q, b)
  BY <1>3, <1>5, <1>6, <1>7 DEF GoodLog
<1> QED
  BY <1>1, <1>8

\* A new request of the inspection tab.
LEMMA NewLoad ==
  ASSUME NEW before \in LogCursors, NEW looking \in BOOLEAN, NEW others
  PROVE  IsLoad(AuditLoad(before, looking, others))
<1>1. PICK l : l = AuditLoad(before, looking, others)
  OBVIOUS
<1>2. /\ l \in [n : {l.n}, before : LogCursors, page : {<<>>} \cup LogPage, served : BOOLEAN, looking : BOOLEAN]
      /\ ~l.served
  BY <1>1 DEF AuditLoad
<1> QED
  BY <1>1, <1>2 DEF IsLoad

\* The log while nothing is shown of it, or nothing new.
LEMMA LogKept ==
  ASSUME LogInv, \A l \in auditLoads' : IsLoad(l),
         audit' = EmptyAudit \/ (\E busy \in BOOLEAN : audit' = [audit EXCEPT !.busy = busy])
  PROVE  LogInv'
<1>1. CASE audit' = EmptyAudit
  <2>1. audit' \in [ids : Seq(Nat), before : LogCursors, busy : BOOLEAN, mixed : BOOLEAN]
    BY <1>1 DEF EmptyAudit, LogCursors
  <2>2. audit'.ids = <<>> /\ audit'.before = 0
    BY <1>1 DEF EmptyAudit
  <2>3. GoodLog(<<>>, 0)
    BY DEF GoodLog
  <2>4. GoodLog(audit'.ids, audit'.before)
    BY <2>2, <2>3
  <2> QED
    BY <2>1, <2>4 DEF LogInv, IsLoad, GoodLog
<1>2. CASE \E busy \in BOOLEAN : audit' = [audit EXCEPT !.busy = busy]
  <2>1. /\ audit' \in [ids : Seq(Nat), before : LogCursors, busy : BOOLEAN, mixed : BOOLEAN]
        /\ audit'.ids = audit.ids /\ audit'.before = audit.before /\ audit'.mixed = audit.mixed
    BY <1>2 DEF LogInv
  <2> QED
    BY <2>1 DEF LogInv, IsLoad, GoodLog
<1> QED
  BY <1>1, <1>2

\* A page of the log is read.
LEMMA ServeAuditKeepsLog ==
  ASSUME LogInv, logged \in Nat, NEW l \in auditLoads, ServeAudit(l)
  PROVE  LogInv'
<1>1. ~l.looking /\ IsLoad(l) /\ UNCHANGED audit
  BY DEF ServeAudit, LogInv
<1>2. PICK p : p = auditLog(l.before)
  OBVIOUS
<1>3. PICK k : k = [l EXCEPT !.served = TRUE, !.page = p]
  OBVIOUS
<1>4. auditLoads' = (auditLoads \ {l}) \cup {k}
  BY <1>2, <1>3 DEF ServeAudit
<1>5. /\ p \in LogPage /\ GoodLog(p.ids, p.before)
      /\ l.before # 0 => p.ids # <<>> /\ p.ids[1] = l.before - 1
  BY <1>1, <1>2, PageOfTheLog DEF IsLoad
<1>6. /\ k \in [n : {k.n}, before : LogCursors, page : {<<>>} \cup LogPage, served : BOOLEAN, looking : BOOLEAN]
      /\ k.page = p /\ k.before = l.before
  BY <1>1, <1>3, <1>5 DEF IsLoad
<1>7. IsLoad(k)
  BY <1>5, <1>6 DEF IsLoad
<1>8. audit' = [audit EXCEPT !.busy = audit.busy] /\ audit.busy \in BOOLEAN
  BY <1>1 DEF LogInv
<1> QED
  BY <1>4, <1>7, <1>8, LogKept DEF LogInv

\* A page of the log arrives.
LEMMA AuditArrivesKeepsLog ==
  ASSUME LogInv, NEW l \in auditLoads, AuditArrives(l)
  PROVE  LogInv'
<1>1. /\ l.page \in LogPage /\ GoodLog(l.page.ids, l.page.before) /\ l.before \in LogCursors
      /\ l.before # 0 => l.page.ids # <<>> /\ l.page.ids[1] = l.before - 1
  BY DEF AuditArrives, LogInv, IsLoad
<1>2. PICK q : q = IF l.before = 0 THEN l.page.ids ELSE audit.ids \o l.page.ids
  OBVIOUS
<1>3. PICK mixed \in BOOLEAN : mixed = (l.before # 0 /\ (audit.mixed \/ l.before # audit.before))
  OBVIOUS
<1>4. auditLoads' = auditLoads \ {l} /\ audit' = [ids |-> q, before |-> l.page.before, busy |-> FALSE, mixed |-> mixed]
  BY <1>2, <1>3 DEF AuditArrives
<1>5. q \in Seq(Nat) /\ l.page.before \in LogCursors
  BY <1>1, <1>2 DEF LogInv, LogPage
<1>6. ~mixed => GoodLog(q, l.page.before)
  <2>1. CASE l.before = 0
    BY <1>1, <1>2, <2>1
  <2>2. CASE l.before # 0
    <3> SUFFICES ASSUME ~mixed PROVE GoodLog(q, l.page.before)
      OBVIOUS
    <3>1. ~audit.mixed /\ l.before = audit.before
      BY <1>3, <2>2
    <3>2. /\ audit.ids \in Seq(Nat) /\ l.page.ids \in Seq(Nat) /\ l.before \in Nat /\ l.page.before \in Nat
          /\ GoodLog(audit.ids, l.before)
      BY <1>1, <3>1 DEF LogInv, LogPage, LogCursors
    <3>3. GoodLog(audit.ids \o l.page.ids, l.page.before)
      BY <1>1, <2>2, <3>2, LogGoesOn
    <3> QED
      BY <1>2, <2>2, <3>3
  <2> QED
    BY <2>1, <2>2
<1>7. /\ audit' \in [ids : Seq(Nat), before : LogCursors, busy : BOOLEAN, mixed : BOOLEAN]
      /\ audit'.ids = q /\ audit'.before = l.page.before /\ audit'.mixed = mixed
  BY <1>4, <1>5
<1> QED
  BY <1>4, <1>6, <1>7 DEF LogInv, IsLoad, GoodLog

-----------------------------------------------------------------------------
(* The console: all of it.                                                  *)

\* The inductive invariant of the console.
ConsoleInv == ListInv /\ DialogInv /\ SanctionsTell /\ LogInv

LEMMA LogUntouched ==
  ASSUME LogInv, UNCHANGED auditVars
  PROVE  LogInv'
BY DEF LogInv, IsLoad, GoodLog, auditVars

\* At the start nothing is listed, open or shown.
LEMMA ConsoleInvInit == ConsoleInit => ConsoleInv
<1> SUFFICES ASSUME ConsoleInit PROVE ConsoleInv
  OBVIOUS
<1> USE DEF ConsoleInit
<1>1. TablesOK
  BY Statuses DEF TablesOK, IsTable
<1>2. <<>> \in Items /\ NoCursor \in Cursors
  BY DEF Items, Cursors
<1>3. ListOK
  BY <1>2 DEF ListOK, EmptyQueue, NoLoad
<1>4. NothingTwice /\ NothingMissing
  BY DEF NothingTwice, NothingMissing, ListedOnce, Behind, EmptyQueue, NoLoad
<1>5. DialogOK
  BY Statuses DEF DialogOK, NoDialog
<1>6. StampsTell /\ DialogTells
  BY DEF StampsTell, DialogTells, NoDialog
<1>7. SanctionsTell
  BY DEF SanctionsTell
<1>8. GoodLog(<<>>, 0)
  BY DEF GoodLog
<1>9. LogInv
  BY <1>8 DEF LogInv, EmptyAudit, LogCursors
<1> QED
  BY <1>1, <1>3, <1>4, <1>5, <1>6, <1>7, <1>9 DEF ConsoleInv, ListInv, DialogInv

\* The tables stand still: only the pages of the console change.
TablesStand == UNCHANGED <<caseTables, instant, moved, blurred>>

LEMMA WhileTablesStand ==
  ASSUME ConsoleInv, TablesStand
  PROVE  /\ StatusesStay /\ UNCHANGED listTables /\ UNCHANGED <<rows, logged, punished>>
         /\ instant' \in Nat /\ punished' \in [Case -> Nat] /\ logged' \in Nat /\ logged <= logged'
         /\ SanctionsTell'
         /\ UNCHANGED queueVars => ListInv'
         /\ UNCHANGED <<casefile, acts>> => DialogInv'
         /\ UNCHANGED auditVars => LogInv'
<1>1. /\ StatusesStay /\ UNCHANGED listTables /\ UNCHANGED <<rows, logged, punished>>
      /\ instant' \in Nat /\ punished' \in [Case -> Nat] /\ logged' \in Nat /\ logged <= logged'
  BY DEF TablesStand, caseTables, listTables, StatusesStay, ConsoleInv, ListInv, TablesOK
<1>2. SanctionsTell'
  BY <1>1, SanctionsUntouched DEF ConsoleInv
<1>3. UNCHANGED queueVars => ListInv'
  BY <1>1, ListUntouched DEF ConsoleInv, queueVars
<1>4. UNCHANGED <<casefile, acts>> => DialogInv'
  BY <1>1, DialogUntouched DEF ConsoleInv, ListInv
<1>5. UNCHANGED auditVars => LogInv'
  BY LogUntouched DEF ConsoleInv
<1> QED
  BY <1>1, <1>2, <1>3, <1>4, <1>5

\* Time, reports and other operators.
LEMMA WorldKeepsConsole ==
  ASSUME ConsoleInv, TimePasses \/ \E c \in Case : create(c) \/ OtherOperator(c)
  PROVE  ConsoleInv'
<1>1. CASE TimePasses
  <2>1. /\ UNCHANGED <<caseTables, consolePage, moved, blurred>> /\ instant' \in Nat
    BY <1>1 DEF TimePasses, ConsoleInv, ListInv, TablesOK
  <2>2. /\ StatusesStay /\ UNCHANGED listTables /\ UNCHANGED <<queue, load, casefile, acts, auditVars, punished>>
        /\ punished' \in [Case -> Nat] /\ logged' \in Nat /\ logged <= logged'
    BY <2>1 DEF caseTables, consolePage, listTables, auditVars, StatusesStay, ConsoleInv, ListInv, TablesOK
  <2>3. ListInv'
    BY <2>1, <2>2, ListUntouched DEF ConsoleInv
  <2> QED
    BY <2>2, <2>3, DialogUntouched, SanctionsUntouched, LogUntouched DEF ConsoleInv, ListInv
<1>2. ASSUME NEW c \in Case, create(c) PROVE ConsoleInv'
  <2>1. CaseMoves(c)
    BY <1>2, ReportedCaseMoves DEF ConsoleInv, ListInv
  <2>2. /\ UNCHANGED <<queue, load, casefile, acts, auditVars, punished, instant, logged>>
        /\ rows' = [rows EXCEPT ![c].count = @ + 1, ![c].at = instant]
    BY <1>2 DEF create, consolePage, auditVars
  <2>3. StatusesStay
    BY <2>2 DEF StatusesStay, ConsoleInv, ListInv, TablesOK, IsTable
  <2>4. instant' \in Nat /\ punished' \in [Case -> Nat] /\ logged' \in Nat /\ logged <= logged'
    BY <2>2 DEF ConsoleInv, ListInv, TablesOK
  <2>5. ListInv'
    BY <2>1, <2>2, <2>4, CaseMovesKeepsList DEF ConsoleInv
  <2> QED
    BY <2>2, <2>3, <2>4, <2>5, DialogUntouched, SanctionsUntouched, LogUntouched DEF ConsoleInv, ListInv
<1>3. ASSUME NEW c \in Case, OtherOperator(c) PROVE ConsoleInv'
  <2>1. /\ UNCHANGED <<queue, load, acts, auditVars, instant>> /\ moved' = moved \cup {c} /\ blurred' = blurred
        /\ casefile' = [casefile EXCEPT !.foreign = @ \/ casefile.id = c]
        /\ TablesOK /\ SanctionsTell /\ logged \in Nat
    BY <1>3 DEF OtherOperator, queueVars, auditVars, ConsoleInv, ListInv, TablesOK
  <2>2. /\ \E s \in ReportStatus : stampCase(c, s)
        /\ punished' \in [Case -> Nat] /\ logged' \in Nat /\ logged <= logged' /\ SanctionsTell'
    <3>1. ASSUME NEW s \in ReportStatus, MayMove(c, s), updateStatus(c, s)
          PROVE  /\ stampCase(c, s)
                 /\ punished' \in [Case -> Nat] /\ logged' \in Nat /\ logged <= logged' /\ SanctionsTell'
      BY <2>1, <3>1, UpdateKeepsSanctions DEF updateStatus, TablesOK
    <3>2. ASSUME MaySanction(c), sanction(c)
          PROVE  /\ stampCase(c, "ACTIONED") /\ "ACTIONED" \in ReportStatus
                 /\ punished' \in [Case -> Nat] /\ logged' \in Nat /\ logged <= logged' /\ SanctionsTell'
      <4>1. stampCase(c, "ACTIONED") /\ punished' = [punished EXCEPT ![c] = @ + 1] /\ logged' = logged + 2
        BY <3>2 DEF sanction
      <4>2. punished[c] + 1 \in Nat
        BY <2>1 DEF TablesOK
      <4>3. punished' \in [Case -> Nat]
        BY <4>1, <4>2, <2>1 DEF TablesOK
      <4>4. logged' \in Nat /\ logged <= logged'
        BY <4>1, <2>1
      <4>5. SanctionsTell'
        BY <2>1, <3>2, SanctionKeepsSanctions
      <4> QED
        BY <4>1, <4>3, <4>4, <4>5, Statuses
    <3> QED
      BY <1>3, <3>1, <3>2 DEF OtherOperator
  <2>3. CaseMoves(c)
    BY <2>1, <2>2, StampedCaseMoves
  <2>4. ListInv'
    BY <2>1, <2>2, <2>3, CaseMovesKeepsList DEF ConsoleInv, ListInv, TablesOK
  <2>5. \A d \in Case \ {c} : rows'[d].status = rows[d].status
    BY <2>3 DEF CaseMoves
  <2>6. DialogInv'
    BY <2>1, <2>2, <2>5, OthersKeepDialog DEF ConsoleInv
  <2> QED
    BY <2>1, <2>2, <2>4, <2>6, LogUntouched DEF ConsoleInv
<1> QED
  BY <1>1, <1>2, <1>3

\* The page: its overview, its tabs and its list.
LEMMA PageKeepsConsole ==
  ASSUME ConsoleInv,
         \/ LoadOverview \/ NextPage \/ ServeQueue \/ QueueArrives \/ QueueFails
         \/ \E answer \in {"ready", "failed", "denied"} : OverviewArrives(answer)
         \/ \E t \in {"overview", "reports", "inspect"} : OpenTab(t)
  PROVE  ConsoleInv'
<1>1. CASE LoadOverview
  <2>1. TablesStand /\ UNCHANGED <<queueVars, auditVars>> /\ UNCHANGED <<casefile, acts>>
    BY <1>1 DEF LoadOverview, TablesStand
  <2> QED
    BY <2>1, WhileTablesStand DEF ConsoleInv
<1>2. ASSUME NEW answer, OverviewArrives(answer) PROVE ConsoleInv'
  <2>1. TablesStand /\ UNCHANGED queueVars
    BY <1>2 DEF OverviewArrives, TablesStand
  <2>2. CASE answer = "denied"
    <3>1. casefile' = NoDialog /\ acts' = Orphaned /\ audit' = EmptyAudit /\ auditLoads' = {}
      BY <1>2, <2>2 DEF OverviewArrives
    <3>2. DialogInv'
      BY <2>1, <3>1, WhileTablesStand, ClosedKeepsDialog DEF ConsoleInv, ListInv
    <3>3. LogInv'
      BY <3>1, LogKept DEF ConsoleInv
    <3> QED
      BY <2>1, <3>2, <3>3, WhileTablesStand DEF ConsoleInv
  <2>3. CASE answer # "denied"
    BY <1>2, <2>1, <2>3, WhileTablesStand DEF ConsoleInv, OverviewArrives
  <2> QED
    BY <2>2, <2>3
<1>3. ASSUME NEW t, OpenTab(t) PROVE ConsoleInv'
  <2>1. /\ TablesStand /\ UNCHANGED <<casefile, acts>>
        /\ loadReports(TRUE) \/ UNCHANGED queueVars
        /\ audit' = EmptyAudit
        /\ auditLoads' = {AuditLoad(0, FALSE, {})} \/ auditLoads' = {}
    BY <1>3 DEF OpenTab, TablesStand
  <2>2. ListInv'
    BY <2>1, WhileTablesStand, LoadReportsKeepsList DEF ConsoleInv
  <2>3. \A l \in auditLoads' : IsLoad(l)
    <3>1. 0 \in LogCursors
      BY DEF LogCursors
    <3>2. IsLoad(AuditLoad(0, FALSE, {}))
      BY <3>1, NewLoad
    <3> QED
      BY <2>1, <3>2
  <2>4. LogInv'
    BY <2>1, <2>3, LogKept DEF ConsoleInv
  <2> QED
    BY <2>1, <2>2, <2>4, WhileTablesStand DEF ConsoleInv
<1>4. CASE NextPage
  <2>1. /\ TablesStand /\ UNCHANGED auditVars /\ UNCHANGED <<casefile, acts>>
        /\ loadReports(TRUE) \/ (~queue.failed /\ queue.cursor # NoCursor /\ loadReports(FALSE))
    BY <1>4 DEF NextPage, TablesStand
  <2>2. ListInv'
    BY <2>1, WhileTablesStand, LoadReportsKeepsList DEF ConsoleInv
  <2> QED
    BY <2>1, <2>2, WhileTablesStand DEF ConsoleInv
<1>5. CASE ServeQueue
  <2>1. StatusesStay /\ UNCHANGED <<casefile, acts, auditVars, punished, logged>> /\ logged \in Nat
    BY <1>5 DEF ServeQueue, caseTables, auditVars, StatusesStay, ConsoleInv, ListInv, TablesOK
  <2> QED
    BY <1>5, <2>1, ServeQueueKeepsList, DialogUntouched, SanctionsUntouched, LogUntouched DEF ConsoleInv, ListInv
<1>6. CASE QueueArrives
  <2>1. TablesStand /\ UNCHANGED auditVars /\ UNCHANGED <<casefile, acts>>
    BY <1>6 DEF QueueArrives, TablesStand
  <2> QED
    BY <1>6, <2>1, QueueArrivesKeepsList, WhileTablesStand DEF ConsoleInv
<1>7. CASE QueueFails
  <2>1. TablesStand /\ UNCHANGED auditVars /\ UNCHANGED <<casefile, acts>>
    BY <1>7 DEF QueueFails, TablesStand
  <2> QED
    BY <1>7, <2>1, QueueFailsKeepsList, WhileTablesStand DEF ConsoleInv
<1> QED
  BY <1>1, <1>2, <1>3, <1>4, <1>5, <1>6, <1>7

\* The dialog.
LEMMA DialogKeepsConsole ==
  ASSUME ConsoleInv,
         \/ \E i \in DOMAIN queue.items : OpenCase(i)
         \/ CloseCase \/ applyStatus \/ applySanction
         \/ \E s \in ReportStatus : PickStatus(s)
         \/ \E a \in acts : ServeAct(a) \/ ActArrives(a) \/ ActLost(a)
  PROVE  ConsoleInv'
<1>0. TablesOK /\ ListOK /\ DialogInv
  BY DEF ConsoleInv, ListInv
<1>1. ASSUME NEW i, OpenCase(i) PROVE ConsoleInv'
  <2>1. TablesStand /\ UNCHANGED <<queueVars, auditVars>>
    BY <1>1 DEF OpenCase, TablesStand
  <2> QED
    BY <1>0, <1>1, <2>1, OpenCaseKeepsDialog, WhileTablesStand DEF ConsoleInv
<1>2. CASE CloseCase
  <2>1. TablesStand /\ UNCHANGED <<queueVars, auditVars>> /\ casefile' = NoDialog /\ acts' = Orphaned
    BY <1>2 DEF CloseCase, TablesStand
  <2> QED
    BY <1>0, <2>1, ClosedKeepsDialog, WhileTablesStand DEF ConsoleInv
<1>3. ASSUME NEW s \in ReportStatus, PickStatus(s) PROVE ConsoleInv'
  <2>1. TablesStand /\ UNCHANGED <<queueVars, auditVars>>
    BY <1>3 DEF PickStatus, TablesStand
  <2> QED
    BY <1>0, <1>3, <2>1, PickStatusKeepsDialog, WhileTablesStand DEF ConsoleInv
<1>4. ASSUME NEW kind \in ActKind, NEW to \in ReportStatus, kind = "sanction" => to = "ACTIONED", Act(kind, to)
      PROVE  ConsoleInv'
  <2>1. TablesStand /\ UNCHANGED <<queueVars, auditVars>>
    BY <1>4 DEF Act, TablesStand
  <2> QED
    BY <1>0, <1>4, <2>1, ActKeepsDialog, WhileTablesStand DEF ConsoleInv
<1>5. CASE applyStatus
  <2>1. Act("status", casefile.next) /\ casefile.next \in ReportStatus /\ "status" \in ActKind
    BY <1>0, <1>5 DEF applyStatus, DialogInv, DialogOK, ActKind
  <2> QED
    BY <1>4, <2>1
<1>6. CASE applySanction
  <2>1. Act("sanction", "ACTIONED") /\ "ACTIONED" \in ReportStatus /\ "sanction" \in ActKind
    BY <1>6, Statuses DEF applySanction, ActKind
  <2> QED
    BY <1>4, <2>1
<1>7. ASSUME NEW a \in acts, ServeAct(a) PROVE ConsoleInv'
  <2>1. DialogInv'
    BY <1>0, <1>7, ServeActKeepsDialog
  <2>2. UNCHANGED <<queue, load, auditVars, instant, blurred>> /\ a.id \in Case /\ IsAct(a) /\ ~a.served
    BY <1>0, <1>7 DEF ServeAct, queueVars, auditVars, DialogInv, DialogOK, IsAct
  <2>3. CASE a.kind = "read" \/ ~Obeyed(a)
    <3>1. TablesStand
      BY <1>7, <2>2, <2>3 DEF ServeAct, TablesStand, caseTables
    <3> QED
      BY <2>1, <2>2, <3>1, WhileTablesStand DEF ConsoleInv, queueVars
  <2>4. CASE a.kind = "status" /\ Obeyed(a)
    <3>1. MayMove(a.id, a.to) /\ updateStatus(a.id, a.to) /\ moved' = moved \cup {a.id}
      BY <1>7, <2>4 DEF ServeAct, Obeyed
    <3>2. a.to \in ReportStatus
      BY <1>0, <2>2, <3>1, Statuses DEF MayMove, TablesOK, IsTable
    <3>3. SanctionsTell'
      BY <1>0, <2>2, <3>1, <3>2, UpdateKeepsSanctions DEF ConsoleInv
    <3>4. stampCase(a.id, a.to) /\ punished' \in [Case -> Nat] /\ logged' \in Nat /\ instant' \in Nat
      BY <1>0, <2>2, <3>1 DEF updateStatus, TablesOK
    <3>5. CaseMoves(a.id)
      BY <1>0, <2>2, <3>1, <3>2, <3>4, StampedCaseMoves
    <3>6. ListInv'
      BY <2>2, <3>4, <3>5, CaseMovesKeepsList DEF ConsoleInv
    <3> QED
      BY <2>1, <2>2, <3>3, <3>6, LogUntouched DEF ConsoleInv
  <2>5. CASE a.kind = "sanction" /\ Obeyed(a)
    <3>1. MaySanction(a.id) /\ sanction(a.id) /\ moved' = moved \cup {a.id}
      BY <1>7, <2>5 DEF ServeAct, Obeyed
    <3>2. "ACTIONED" \in ReportStatus
      BY Statuses
    <3>3. SanctionsTell'
      BY <1>0, <2>2, <3>1, SanctionKeepsSanctions DEF ConsoleInv
    <3>4. stampCase(a.id, "ACTIONED") /\ punished' \in [Case -> Nat] /\ logged' \in Nat /\ instant' \in Nat
      BY <1>0, <2>2, <3>1 DEF sanction, TablesOK
    <3>5. CaseMoves(a.id)
      BY <1>0, <2>2, <3>1, <3>2, <3>4, StampedCaseMoves
    <3>6. ListInv'
      BY <2>2, <3>4, <3>5, CaseMovesKeepsList DEF ConsoleInv
    <3> QED
      BY <2>1, <2>2, <3>3, <3>6, LogUntouched DEF ConsoleInv
  <2> QED
    BY <2>2, <2>3, <2>4, <2>5 DEF IsAct, ActKind
<1>8. ASSUME NEW a \in acts, ActArrives(a) PROVE ConsoleInv'
  <2>1. TablesStand /\ UNCHANGED auditVars /\ (loadReports(TRUE) \/ UNCHANGED queueVars)
    BY <1>8 DEF ActArrives, TablesStand
  <2>2. ListInv'
    BY <2>1, WhileTablesStand, LoadReportsKeepsList DEF ConsoleInv
  <2> QED
    BY <1>0, <1>8, <2>1, <2>2, ActArrivesKeepsDialog, WhileTablesStand DEF ConsoleInv
<1>9. ASSUME NEW a \in acts, ActLost(a) PROVE ConsoleInv'
  <2>1. TablesStand /\ UNCHANGED <<queueVars, auditVars>>
    BY <1>9 DEF ActLost, TablesStand
  <2> QED
    BY <1>0, <1>9, <2>1, ActLostKeepsDialog, WhileTablesStand DEF ConsoleInv
<1> QED
  BY <1>1, <1>2, <1>3, <1>5, <1>6, <1>7, <1>8, <1>9

\* The inspection tab.
LEMMA InspectionKeepsConsole ==
  ASSUME ConsoleInv,
         \/ LoadMore \/ search
         \/ \E l \in auditLoads : lookup(l) \/ LookupArrives(l) \/ ServeAudit(l) \/ AuditArrives(l) \/ AuditFails(l)
  PROVE  ConsoleInv'
<1>0. /\ LogInv /\ logged \in Nat /\ \A l \in auditLoads : IsLoad(l)
      /\ 0 \in LogCursors /\ audit.before \in LogCursors /\ audit.busy \in BOOLEAN
  BY DEF ConsoleInv, ListInv, TablesOK, LogInv, LogCursors
<1>1. CASE LoadMore
  <2>1. /\ TablesStand /\ UNCHANGED queueVars /\ UNCHANGED <<casefile, acts>>
        /\ audit' = [audit EXCEPT !.busy = TRUE]
        /\ auditLoads' = auditLoads \cup {AuditLoad(audit.before, FALSE, auditLoads)}
    BY <1>1 DEF LoadMore, TablesStand
  <2>2. \A l \in auditLoads' : IsLoad(l)
    BY <1>0, <2>1, NewLoad
  <2> QED
    BY <1>0, <2>1, <2>2, LogKept, WhileTablesStand DEF ConsoleInv
<1>2. CASE search
  <2>1. /\ TablesStand /\ UNCHANGED queueVars /\ UNCHANGED <<casefile, acts>>
        /\ audit' = audit
        /\ auditLoads' = auditLoads \cup {AuditLoad(0, TRUE, auditLoads)}
    BY <1>2 DEF search, TablesStand
  <2>2. \A l \in auditLoads' : IsLoad(l)
    BY <1>0, <2>1, NewLoad
  <2>3. audit' = [audit EXCEPT !.busy = audit.busy]
    BY <2>1 DEF ConsoleInv, LogInv
  <2> QED
    BY <1>0, <2>1, <2>2, <2>3, LogKept, WhileTablesStand DEF ConsoleInv
<1>3. ASSUME NEW l \in auditLoads, lookup(l) PROVE ConsoleInv'
  <2>1. /\ UNCHANGED listTables /\ UNCHANGED <<queue, load, casefile, acts, punished, instant, audit>> /\ logged' = logged + 1
        /\ auditLoads' = (auditLoads \ {l}) \cup {[l EXCEPT !.served = TRUE]}
        /\ l.looking /\ StatusesStay
    BY <1>3 DEF lookup, listTables, queueVars, StatusesStay
  <2>2. IsLoad([l EXCEPT !.served = TRUE])
    <3>1. PICK k : k = [l EXCEPT !.served = TRUE]
      OBVIOUS
    <3>2. IsLoad(l)
      BY <1>0
    <3>3. /\ k \in [n : {k.n}, before : LogCursors, page : {<<>>} \cup LogPage, served : BOOLEAN, looking : BOOLEAN]
          /\ k.looking
      BY <2>1, <3>1, <3>2 DEF IsLoad
    <3> QED
      BY <3>1, <3>3 DEF IsLoad
  <2>3. audit' = [audit EXCEPT !.busy = audit.busy]
    BY <2>1 DEF ConsoleInv, LogInv
  <2>4. \A k \in auditLoads' : IsLoad(k)
    BY <1>0, <2>1, <2>2
  <2>5. LogInv'
    BY <1>0, <2>3, <2>4, LogKept
  <2>6. logged' \in Nat /\ logged <= logged' /\ instant' \in Nat /\ punished' \in [Case -> Nat]
    BY <1>0, <2>1 DEF ConsoleInv, ListInv, TablesOK
  <2>7. ListInv'
    BY <2>1, <2>6, ListUntouched DEF ConsoleInv
  <2> QED
    BY <2>1, <2>5, <2>6, <2>7, DialogUntouched, SanctionsUntouched DEF ConsoleInv, ListInv
<1>4. ASSUME NEW l \in auditLoads, LookupArrives(l) PROVE ConsoleInv'
  <2>1. /\ TablesStand /\ UNCHANGED queueVars /\ UNCHANGED <<casefile, acts>>
        /\ audit' = [audit EXCEPT !.busy = TRUE]
        /\ auditLoads' = (auditLoads \ {l}) \cup {AuditLoad(0, FALSE, auditLoads)}
    BY <1>4 DEF LookupArrives, TablesStand
  <2>2. \A k \in auditLoads' : IsLoad(k)
    BY <1>0, <2>1, NewLoad
  <2> QED
    BY <1>0, <2>1, <2>2, LogKept, WhileTablesStand DEF ConsoleInv
<1>5. ASSUME NEW l \in auditLoads, ServeAudit(l) PROVE ConsoleInv'
  <2>1. TablesStand /\ UNCHANGED queueVars /\ UNCHANGED <<casefile, acts>>
    BY <1>5 DEF ServeAudit, TablesStand
  <2> QED
    BY <1>0, <1>5, <2>1, ServeAuditKeepsLog, WhileTablesStand DEF ConsoleInv
<1>6. ASSUME NEW l \in auditLoads, AuditArrives(l) PROVE ConsoleInv'
  <2>1. TablesStand /\ UNCHANGED queueVars /\ UNCHANGED <<casefile, acts>>
    BY <1>6 DEF AuditArrives, TablesStand
  <2> QED
    BY <1>0, <1>6, <2>1, AuditArrivesKeepsLog, WhileTablesStand DEF ConsoleInv
<1>7. ASSUME NEW l \in auditLoads, AuditFails(l) PROVE ConsoleInv'
  <2>1. /\ TablesStand /\ UNCHANGED queueVars /\ UNCHANGED <<casefile, acts>>
        /\ audit' = [audit EXCEPT !.busy = IF l.looking THEN @ ELSE FALSE]
        /\ auditLoads' = auditLoads \ {l}
    BY <1>7 DEF AuditFails, TablesStand
  <2>2. (\E busy \in BOOLEAN : audit' = [audit EXCEPT !.busy = busy]) /\ \A k \in auditLoads' : IsLoad(k)
    BY <1>0, <2>1
  <2> QED
    BY <1>0, <2>1, <2>2, LogKept, WhileTablesStand DEF ConsoleInv
<1> QED
  BY <1>1, <1>2, <1>3, <1>4, <1>5, <1>6, <1>7

\* Every step keeps the invariant.
LEMMA ConsoleStep == ConsoleInv /\ [ConsoleNext]_consoleVars => ConsoleInv'
<1> SUFFICES ASSUME ConsoleInv, [ConsoleNext]_consoleVars PROVE ConsoleInv'
  OBVIOUS
<1>1. CASE ConsoleNext
  BY <1>1, WorldKeepsConsole, PageKeepsConsole, DialogKeepsConsole, InspectionKeepsConsole DEF ConsoleNext
<1>2. CASE UNCHANGED consoleVars
  <2>1. TablesStand /\ UNCHANGED <<queueVars, auditVars>> /\ UNCHANGED <<casefile, acts>>
    BY <1>2 DEF consoleVars, TablesStand, caseTables, queueVars, auditVars
  <2> QED
    BY <2>1, WhileTablesStand DEF ConsoleInv
<1> QED
  BY <1>1, <1>2

\* The invariant says what the operators were promised.
LEMMA ConsoleInvIsHonest == ConsoleInv => ConsoleIsHonest
<1> SUFFICES ASSUME ConsoleInv PROVE ConsoleIsHonest
  OBVIOUS
<1>1. QueueIsWhole
  <2>1. \A i, j \in DOMAIN queue.items :
          queue.items[i].id = queue.items[j].id => i = j \/ queue.items[i].id \in setBack
    BY DEF ConsoleInv, ListInv, NothingTwice, ListedOnce
  <2>2. queue.initialized /\ ~queue.failed /\ load = NoLoad /\ queue.cursor = NoCursor
        => InQueue(NoCursor) \subseteq Listed(queue.items) \cup moved \cup blurred
    BY DEF ConsoleInv, ListInv, NothingMissing, Covered
  <2> QED
    BY <2>1, <2>2 DEF QueueIsWhole, Listed
<1>2. CaseIsShownAsItStands
  <2>1. \A c \in Case : punished[c] <= 1
    BY DEF ConsoleInv, SanctionsTell
  <2>2. ASSUME casefile.shown \in ReportStatus, casefile.busy = {}, ~casefile.foreign, ~casefile.crossed
        PROVE  casefile.shown = rows[casefile.id].status
    <3>1. casefile.id # 0 /\ casefile.shown # Unread
      BY <2>2, Statuses DEF ConsoleInv, DialogInv, DialogOK, NoDialog
    <3>2. \A a \in acts : ~Telling(a)
      BY <2>2, <3>1 DEF ConsoleInv, DialogInv, DialogOK, Telling
    <3> QED
      BY <2>2, <3>1, <3>2 DEF ConsoleInv, DialogInv, DialogTells, TellsIt
  <2> QED
    BY <2>1, <2>2 DEF CaseIsShownAsItStands
<1>3. AuditIsInOrder
  BY DEF ConsoleInv, LogInv, GoodLog, AuditIsInOrder
<1> QED
  BY <1>1, <1>2, <1>3 DEF ConsoleIsHonest

\* What the operators see is what happened, however many cases, reports and operators
\* there are and however long the pages: no case is listed twice but those set back, the
\* list that has ended misses none that stood still, the dialog shows its case as it
\* stands, no case is sanctioned twice, and the audit log has no gap
\* (reports.service.ts:230, AdminPage.tsx:86, AdminInspect.tsx:37).
THEOREM OperatorsSeeWhatHappened == ConsoleSpec => []ConsoleIsHonest
<1> QED
  BY ConsoleInvInit, ConsoleStep, ConsoleInvIsHonest, PTL DEF ConsoleSpec

=============================================================================
