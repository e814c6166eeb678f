------------------------------ MODULE Evidence ------------------------------
(* The evidence of one match: its row, its replay, the moderation case that  *)
(* reports open about one of its players (reports/reports.service.ts), and   *)
(* the periodic clean-up in several processes (retention/                    *)
(* retention.service.ts) that deletes replay files through a game server.    *)
(*                                                                           *)
(* create reads the match and writes later in its transaction, and other     *)
(* transactions commit in between; the clean-up is a sequence of statements  *)
(* under a lock in Redis that may run out. Nothing ever releases a hold.     *)
EXTENDS Naturals, FiniteSets

CONSTANTS Reporter,   \* participants who report the player, each once
          Sweeper,    \* processes of the match server
          MaxSweepFaults,  \* bound: clean-ups refused, or cut off by the death of their process
          MaxSanctions   \* bound: sanctions counted

ASSUME EvidenceAssumption ==
  /\ IsFiniteSet(Reporter) /\ IsFiniteSet(Sweeper) /\ {MaxSweepFaults, MaxSanctions} \subseteq Nat

VARIABLES match,       \* playing, ended, late (past replayHours), ancient, gone
          replayRow,   \* none, available, deleting
          replayFile,
          caseStatus,  \* none or the ReportStatus
          caseOld,     \* its updated_at is past moderationCaseDays
          hold,        \* a hold of this case on this replay
          report,      \* where each reporter stands
          sanctioned,  \* history: sanctions by this case
          sweep,       \* where each clean-up stands
          sweepLock,
          sweepFaults,
          heldInTime   \* history: the hold found the replay available

evidenceVars == <<match, replayRow, replayFile, caseStatus, caseOld, hold, report,
                  sanctioned, sweep, sweepLock, sweepFaults, heldInTime>>

NoSweeper == "no sweeper"

EvidenceInit ==
  /\ match = "playing" /\ replayRow = "none" /\ replayFile = FALSE
  /\ caseStatus = "none" /\ caseOld = FALSE /\ hold = FALSE
  /\ report = [r \in Reporter |-> "idle"]
  /\ sanctioned = 0
  /\ sweep = [w \in Sweeper |-> "idle"] /\ sweepLock = NoSweeper
  /\ sweepFaults = 0 /\ heldInTime = FALSE

caseVars == <<caseStatus, caseOld, sanctioned>>
sweepVars == <<sweep, sweepLock, sweepFaults>>

-----------------------------------------------------------------------------
\* The result is stored, with a replay or without one.
MatchEnds ==
  /\ match = "playing" /\ match' = "ended"
  /\ \E kept \in BOOLEAN : replayFile' = kept /\ replayRow' = IF kept THEN "available" ELSE "none"
  /\ UNCHANGED <<hold, report, heldInTime>> /\ UNCHANGED caseVars /\ UNCHANGED sweepVars

\* The match passes replayHours, then matchDays; a closed case its own period.
MatchAges ==
  /\ match \in {"ended", "late"} /\ match' = IF match = "ended" THEN "late" ELSE "ancient"
  /\ UNCHANGED <<replayRow, replayFile, hold, report, heldInTime>>
  /\ UNCHANGED caseVars /\ UNCHANGED sweepVars

CaseAges ==
  /\ caseStatus # "none" /\ ~caseOld /\ caseOld' = TRUE
  /\ UNCHANGED <<match, replayRow, replayFile, hold, report, heldInTime, caseStatus, sanctioned>>
  /\ UNCHANGED sweepVars

\* create up to its checks: the window is the life of the replay, or the same
\* time for a match that has none.
WindowOpen ==
  \/ match = "playing"
  \/ match # "gone" /\ replayRow = "available"
  \/ match = "ended" /\ replayRow = "none"

ReadContext(r) ==
  /\ report[r] = "idle"
  /\ report' = [report EXCEPT ![r] = IF WindowOpen THEN "writing" ELSE "done"]
  /\ UNCHANGED <<match, replayRow, replayFile, hold, heldInTime>>
  /\ UNCHANGED caseVars /\ UNCHANGED sweepVars

\* The rest of create: the case unless it exists, the report, and a hold on the
\* replay, whatever its status is by now. Without the match all of it fails.
WriteReport(r) ==
  LET stored == match # "gone"
  IN  /\ report[r] = "writing"
      /\ report' = [report EXCEPT ![r] = "done"]
      /\ caseStatus' = IF stored /\ caseStatus = "none" THEN "OPEN" ELSE caseStatus
      /\ caseOld' = (caseOld /\ ~stored)
      /\ hold' = (hold \/ (stored /\ replayRow # "none"))
      /\ heldInTime' = (heldInTime \/ (stored /\ replayRow = "available"))
      /\ UNCHANGED <<match, replayRow, replayFile, sanctioned>> /\ UNCHANGED sweepVars

\* ALLOWED_TRANSITIONS.
Transitions(s) ==
  CASE s = "OPEN" -> {"TRIAGED", "DISMISSED"}
    [] s = "TRIAGED" -> {"REVIEWING", "DISMISSED"}
    [] s = "REVIEWING" -> {"ACTIONED", "DISMISSED"}
    [] s \in {"ACTIONED", "DISMISSED"} -> {"CLOSED"}
    [] OTHER -> {}

UpdateStatus ==
  /\ caseStatus' \in Transitions(caseStatus)
  /\ caseOld' = FALSE
  /\ UNCHANGED <<match, replayRow, replayFile, hold, report, heldInTime, sanctioned>>
  /\ UNCHANGED sweepVars

\* sanction's test of the locked row.
Sanctionable == caseStatus \notin {"none", "CLOSED", "ACTIONED"}

SanctionCase ==
  /\ Sanctionable /\ sanctioned < MaxSanctions
  /\ caseStatus' = "ACTIONED" /\ caseOld' = FALSE
  /\ sanctioned' = sanctioned + 1
  /\ UNCHANGED <<match, replayRow, replayFile, hold, report, heldInTime>>
  /\ UNCHANGED sweepVars

-----------------------------------------------------------------------------
(* runOnce.                                                                  *)
Goes(w, from, to) == sweep[w] = from /\ sweep' = [sweep EXCEPT ![w] = to]

SweepFault == sweepFaults < MaxSweepFaults /\ sweepFaults' = sweepFaults + 1

BeginSweep(w) ==
  /\ sweepLock = NoSweeper /\ Goes(w, "idle", "mark") /\ sweepLock' = w
  /\ UNCHANGED <<match, replayRow, replayFile, hold, report, heldInTime, sweepFaults>>
  /\ UNCHANGED caseVars

\* No hold keeps the replay; and a clean-up that does not ask.
Anyway == TRUE
Unheld == ~hold

MarkExpiredReplays(w) ==
  /\ Goes(w, "mark", "files")
  /\ replayRow' = IF replayRow = "available" /\ match \in {"late", "ancient"} /\ Unheld
                  THEN "deleting" ELSE replayRow
  /\ UNCHANGED <<match, replayFile, hold, report, heldInTime, sweepLock, sweepFaults>>
  /\ UNCHANGED caseVars

\* deleteReplayFiles: the query, the command and the row. Without a live game
\* server there is nothing to do. A query that leaves out files already deleted
\* would not repeat a command whose answer was lost.
DeletableFile == replayRow = "deleting" /\ Unheld /\ replayFile
Deletable == replayRow = "deleting" /\ Unheld

SelectFile(w) ==
  /\ \/ Deletable /\ Goes(w, "files", "command") /\ UNCHANGED sweepFaults
     \/ ~Deletable /\ Goes(w, "files", "cases") /\ UNCHANGED sweepFaults
     \/ Deletable /\ Goes(w, "files", "cases") /\ SweepFault
  /\ UNCHANGED <<match, replayRow, replayFile, hold, report, heldInTime, sweepLock>>
  /\ UNCHANGED caseVars

\* requestReplayDeletion: done; failed, or done without an answer in time.
DeleteFile(w) ==
  /\ Goes(w, "command", "row") /\ replayFile' = FALSE
  /\ UNCHANGED <<match, replayRow, hold, report, heldInTime, sweepLock, sweepFaults>>
  /\ UNCHANGED caseVars

DeleteFails(w) ==
  /\ Goes(w, "command", "cases") /\ replayFile' \in {replayFile, FALSE} /\ SweepFault
  /\ UNCHANGED <<match, replayRow, hold, report, heldInTime, sweepLock>>
  /\ UNCHANGED caseVars

\* A hold placed meanwhile makes the database refuse, and the round ends there.
DeleteRow(w) ==
  /\ IF hold /\ replayRow = "deleting"
     THEN Goes(w, "row", "unlock") /\ UNCHANGED replayRow
     ELSE Goes(w, "row", "cases")
          /\ replayRow' = IF replayRow = "deleting" THEN "none" ELSE replayRow
  /\ UNCHANGED <<match, replayFile, hold, report, heldInTime, sweepLock, sweepFaults>>
  /\ UNCHANGED caseVars

DeleteExpiredModerationCases(w) ==
  /\ Goes(w, "cases", "matches")
  /\ LET expired == caseStatus = "CLOSED" /\ caseOld /\ ~hold
     IN  /\ caseStatus' = IF expired THEN "none" ELSE caseStatus
         /\ caseOld' = (caseOld /\ ~expired)
         /\ sanctioned' = IF expired THEN 0 ELSE sanctioned
  /\ UNCHANGED <<match, replayRow, replayFile, hold, report, heldInTime, sweepLock, sweepFaults>>

\* The match goes when neither a case nor a replay refers to it.
Unreferenced == caseStatus = "none" /\ replayRow = "none"

DeleteExpiredMatches(w) ==
  /\ Goes(w, "matches", "unlock")
  /\ match' = IF match = "ancient" /\ Unreferenced THEN "gone" ELSE match
  /\ UNCHANGED <<replayRow, replayFile, hold, report, heldInTime, sweepLock, sweepFaults>>
  /\ UNCHANGED caseVars

UnlockSweep(w) ==
  /\ Goes(w, "unlock", "idle")
  /\ sweepLock' = IF sweepLock = w THEN NoSweeper ELSE sweepLock
  /\ UNCHANGED <<match, replayRow, replayFile, hold, report, heldInTime, sweepFaults>>
  /\ UNCHANGED caseVars

SweepStep(w) ==
  \/ MarkExpiredReplays(w) \/ SelectFile(w) \/ DeleteFile(w) \/ DeleteFails(w)
  \/ DeleteRow(w) \/ DeleteExpiredModerationCases(w) \/ DeleteExpiredMatches(w)
  \/ UnlockSweep(w)

\* The lock's TTL is half an interval; a process dies in the middle.
SweepLockExpires ==
  /\ sweepLock # NoSweeper /\ sweepLock' = NoSweeper
  /\ UNCHANGED <<match, replayRow, replayFile, hold, report, heldInTime, sweep, sweepFaults>>
  /\ UNCHANGED caseVars

SweeperDies(w) ==
  /\ sweep[w] # "idle" /\ SweepFault
  /\ sweep' = [sweep EXCEPT ![w] = "idle"]
  /\ UNCHANGED <<match, replayRow, replayFile, hold, report, heldInTime, sweepLock>>
  /\ UNCHANGED caseVars

EvidenceNext ==
  \/ MatchEnds \/ MatchAges \/ CaseAges
  \/ \E r \in Reporter : ReadContext(r) \/ WriteReport(r)
  \/ UpdateStatus \/ SanctionCase
  \/ SweepLockExpires
  \/ \E w \in Sweeper : BeginSweep(w) \/ SweepStep(w) \/ SweeperDies(w)

\* The timer comes again and again in every process, a round that began goes on,
\* and the game servers do not refuse for ever (MaxSweepFaults).
EvidenceStepFairness ==
  /\ WF_evidenceVars(SweepLockExpires)
  /\ \A w \in Sweeper : WF_evidenceVars(SweepStep(w))

EvidenceFairness == WF_evidenceVars(\E w \in Sweeper : BeginSweep(w)) /\ EvidenceStepFairness

EvidenceSpec == EvidenceInit /\ [][EvidenceNext]_evidenceVars /\ EvidenceFairness

-----------------------------------------------------------------------------
\* A case leads to one sanction at most, though moderators act at once, a case is
\* dismissed first or reported again (reports.service.ts sanction).
OneSanctionPerCase == sanctioned <= 1

\* A replay that was still available when a report put its hold on it is kept,
\* whatever rounds of the clean-up are under way, in whichever processes
\* (retention.service.ts markExpiredReplays, deleteReplayFiles).
HeldReplaysAreKept == heldInTime => replayFile /\ replayRow = "available"

\* A case that exists keeps the match it is about: the cascade from the match
\* row never takes it away (retention.service.ts deleteExpiredMatches).
CasesKeepTheirMatch == caseStatus # "none" => match # "gone"

\* What a case rests on outlives the clean-up, and a case is decided once, though
\* reports, verdicts and clean-ups run at the same time (reports.service.ts,
\* retention.service.ts).
EvidenceIsKept == HeldReplaysAreKept /\ CasesKeepTheirMatch /\ OneSanctionPerCase

\* An expired replay nobody reported is deleted in the end, file and row, though
\* game servers refuse, answers are late, rounds overlap and processes die
\* (retention.service.ts deleteReplayFiles).
ExpiredReplaysGo ==
  (match \in {"late", "ancient"} /\ replayRow # "none") ~>
    (hold \/ (replayRow = "none" /\ ~replayFile))

=============================================================================
