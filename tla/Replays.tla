------------------------------- MODULE Replays ------------------------------
(* Replays in a game server: the memory all recorders share while they       *)
(* record (replay/recorder.ts), and the downloads of finished files with     *)
(* one-time tickets (ws-transport.ts serveReplay, main.ts readReplay).       *)
EXTENDS Naturals, FiniteSets, FiniteSetsExt

CONSTANTS Recorder,      \* bound: recorders of the matches played
          SpoolLimit,    \* PROCESS_SPOOL_LIMIT_BYTES, a frame being 1
          FrameLimit,    \* MATCH_FRAME_LIMIT
          Download,       \* bound: HTTP requests, each with the one ticket
          MaxDownloads   \* maxConcurrentReplayDownloads

ASSUME ReplaysAssumption ==
  /\ IsFiniteSet(Recorder) /\ IsFiniteSet(Download)
  /\ {SpoolLimit, FrameLimit, MaxDownloads} \subseteq Nat

VARIABLES recording,   \* what became of each recorder
          spooled,     \* #spooledBytes of each
          frameCount,
          processSpool,
          download,    \* where each request stands
          downloads,   \* #activeReplayDownloads
          replayTicket \* whether the ticket is still in Redis

replayVars == <<recording, spooled, frameCount, processSpool, download, downloads,
                replayTicket>>

ReplaysInit ==
  /\ recording = [r \in Recorder |-> "recording"]
  /\ spooled = [r \in Recorder |-> 0] /\ frameCount = [r \in Recorder |-> 0]
  /\ processSpool = 0
  /\ download = [q \in Download |-> "none"] /\ downloads = 0
  /\ replayTicket = TRUE

spoolVars == <<recording, spooled, frameCount, processSpool>>
downloadVars == <<download, downloads, replayTicket>>

\* release resets the recorder's own count.
Released(r) == [spooled EXCEPT ![r] = 0]

Release(r) ==
  /\ processSpool' = IF spooled[r] > processSpool THEN 0 ELSE processSpool - spooled[r]
  /\ spooled' = Released(r)

\* writeFrame: the frame limit and the shared limit abort the recording.
WriteFrame(r) ==
  /\ recording[r] = "recording"
  /\ IF frameCount[r] >= FrameLimit \/ processSpool + 1 > SpoolLimit
     THEN /\ recording' = [recording EXCEPT ![r] = "aborted"]
          /\ Release(r) /\ UNCHANGED frameCount
     ELSE /\ frameCount' = [frameCount EXCEPT ![r] = @ + 1]
          /\ spooled' = [spooled EXCEPT ![r] = @ + 1]
          /\ processSpool' = processSpool + 1
          /\ UNCHANGED recording
  /\ UNCHANGED downloadVars

\* abort, when the session stops or cannot finish; nothing once finish began.
AbortRecording(r) ==
  /\ recording[r] = "recording"
  /\ recording' = [recording EXCEPT ![r] = "aborted"]
  /\ Release(r)
  /\ UNCHANGED frameCount /\ UNCHANGED downloadVars

\* finish: an aborted recorder only releases, an empty one too; the others keep
\* their chunks until the file is stored or could not be.
FinishRecording(r) ==
  /\ recording[r] \in {"recording", "aborted"}
  /\ IF recording[r] = "recording" /\ frameCount[r] > 0
     THEN recording' = [recording EXCEPT ![r] = "storing"] /\ UNCHANGED <<spooled, processSpool>>
     ELSE recording' = [recording EXCEPT ![r] = "done"] /\ Release(r)
  /\ UNCHANGED frameCount /\ UNCHANGED downloadVars

StoreReplay(r) ==
  /\ recording[r] = "storing"
  /\ recording' = [recording EXCEPT ![r] = "done"]
  /\ Release(r)
  /\ UNCHANGED frameCount /\ UNCHANGED downloadVars

\* admitReplay, then the ticket is read.
AdmitReplay(q) ==
  /\ download[q] = "none"
  /\ IF downloads >= MaxDownloads
     THEN download' = [download EXCEPT ![q] = "busy"] /\ UNCHANGED downloads
     ELSE download' = [download EXCEPT ![q] = "admitted"] /\ downloads' = downloads + 1
  /\ UNCHANGED replayTicket /\ UNCHANGED spoolVars

ReadTicket(q) ==
  /\ download[q] = "admitted"
  /\ download' = [download EXCEPT ![q] = IF replayTicket THEN "claiming" ELSE "failed"]
  /\ UNCHANGED <<downloads, replayTicket>> /\ UNCHANGED spoolVars

\* Mutant: a ticket that was there when it was read is good enough.
TicketWasThere == TRUE
\* compareAndDelete decides who reads the file.
ClaimsTicket == replayTicket

ClaimTicket(q) ==
  /\ download[q] = "claiming"
  /\ download' = [download EXCEPT ![q] = IF ClaimsTicket THEN "reading" ELSE "failed"]
  /\ replayTicket' = FALSE
  /\ UNCHANGED downloads /\ UNCHANGED spoolVars

\* The response and the finally block; the file may be missing.
Respond(q) ==
  /\ download[q] \in {"reading", "failed"}
  /\ \E outcome \in IF download[q] = "reading" THEN {"served", "missing"} ELSE {"missing"} :
       download' = [download EXCEPT ![q] = outcome]
  /\ downloads' = downloads - 1
  /\ UNCHANGED replayTicket /\ UNCHANGED spoolVars

ReplaysNext ==
  \/ \E r \in Recorder : \/ WriteFrame(r) \/ AbortRecording(r)
                         \/ FinishRecording(r) \/ StoreReplay(r)
  \/ \E q \in Download : AdmitReplay(q) \/ ReadTicket(q) \/ ClaimTicket(q) \/ Respond(q)

ReplaysSpec == ReplaysInit /\ [][ReplaysNext]_replayVars

-----------------------------------------------------------------------------
\* The shared budget is what the recorders at work really hold: no path, an abort
\* followed by finish included, releases twice or not at all, so that the limit
\* neither fades nor blocks every later recording (recorder.ts writeFrame,
\* finish, abort, release).
SpoolAccountsForEveryRecorder ==
  /\ processSpool = MapThenSumSet(LAMBDA r : frameCount[r],
                      {r \in Recorder : recording[r] \in {"recording", "storing"}})
  /\ processSpool <= SpoolLimit

\* One ticket serves one file once, though two requests may read it before
\* either deletes it; and the download slots are those in use (main.ts
\* readReplay, ws-transport.ts admitReplay).
TicketServesOnce ==
  /\ Cardinality({q \in Download : download[q] \in {"reading", "served"}}) <= 1
  /\ downloads = Cardinality({q \in Download :
                    download[q] \in {"admitted", "claiming", "reading", "failed"}})
  /\ downloads <= MaxDownloads

\* What recording and downloading take from the shared budgets they give back,
\* once (recorder.ts release, ws-transport.ts admitReplay).
ReplayBudgetsHold == SpoolAccountsForEveryRecorder /\ TicketServesOnce

=============================================================================
