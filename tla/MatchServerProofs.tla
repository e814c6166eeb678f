-------------------------- MODULE MatchServerProofs --------------------------
(***************************************************************************)
(* Services of the match server: mailed codes, the evidence of a match     *)
(* with its clean-up, bans, and the sessions and second factors of an      *)
(* account. For any number of requests, codes, reporters, processes and    *)
(* bans.                                                                   *)
(***************************************************************************)
EXTENDS Codes, Evidence, Accounts, FiniteSetTheorems, TLAPS

-----------------------------------------------------------------------------
(* Verification codes.                                                       *)

\* What the keys and the callers hold.
CodesTypeOK ==
  /\ savedCode \in 0 .. MaxCodes /\ issuedCodes \in 0 .. MaxCodes
  /\ step \in [Caller -> {"idle", "issuing", "writing", "resetting", "claiming", "working",
                          "committing", "counting", "deleting"}]
  /\ holds \in [Caller -> 0 .. MaxCodes]
  /\ honoured \in [Code -> Nat]

\* Only codes that were issued are stored or held, and a caller that got as far as
\* claiming holds one.
OnlyIssuedCodes ==
  /\ savedCode <= issuedCodes
  /\ \A c \in Caller : /\ holds[c] <= issuedCodes
                       /\ step[c] \in {"claiming", "working"} => holds[c] # 0
  /\ \A k \in Code : k > issuedCodes => honoured[k] = 0

\* A code that is stored, or that somebody works with, authorised nothing yet; and it
\* is in one place only: at the key, or with one caller.
CodesInOnePlace ==
  /\ savedCode # 0 => honoured[savedCode] = 0
  /\ \A c \in Caller : step[c] = "working" =>
       /\ honoured[holds[c]] = 0 /\ holds[c] # savedCode
       /\ \A d \in Caller \ {c} : step[d] = "working" => holds[d] # holds[c]

\* The inductive invariant of the codes.
CodesInv == CodesTypeOK /\ OnlyIssuedCodes /\ CodesInOnePlace /\ CodeWorksOnce

\* At the start no code exists.
LEMMA CodesInvInit == CodesInit => CodesInv
BY CodesAssumption DEF CodesInit, CodesInv, CodesTypeOK, OnlyIssuedCodes, CodesInOnePlace, CodeWorksOnce, Code

\* Whatever moves one caller along and touches neither key nor codes keeps the invariant,
\* as long as the caller does not begin to claim or to work.
LEMMA OthersKeepCodes ==
  ASSUME CodesInv, NEW c \in Caller,
         NEW s \in {"idle", "issuing", "writing", "resetting", "committing", "counting", "deleting"},
         step' = [step EXCEPT ![c] = s],
         savedCode' \in {savedCode, 0}, UNCHANGED <<holds, issuedCodes, honoured>>
  PROVE  CodesInv'
<1> USE DEF CodesInv, CodesTypeOK
<1>1. CodesTypeOK'
  BY CodesAssumption
<1>2. OnlyIssuedCodes'
  BY CodesAssumption DEF OnlyIssuedCodes
<1>3. CodesInOnePlace'
  BY CodesAssumption DEF CodesInOnePlace, OnlyIssuedCodes
<1>4. CodeWorksOnce'
  BY DEF CodeWorksOnce
<1> QED
  BY <1>1, <1>2, <1>3, <1>4

\* Every step of a caller, and the passing of time, keeps the invariant.
LEMMA CodesInvNext == CodesInv /\ [CodesNext]_codeVars => CodesInv'
<1> SUFFICES ASSUME CodesInv, [CodesNext]_codeVars PROVE CodesInv'
  OBVIOUS
<1>1. CASE UNCHANGED codeVars
  BY <1>1 DEF codeVars, CodesInv, CodesTypeOK, OnlyIssuedCodes, CodesInOnePlace, CodeWorksOnce
<1>2. CASE CodeTimePasses
  <2>1. savedCode' \in {savedCode, 0} /\ UNCHANGED <<step, holds, issuedCodes, honoured>>
    BY <1>2 DEF CodeTimePasses
  <2> QED
    BY <2>1, CodesAssumption DEF CodesInv, CodesTypeOK, OnlyIssuedCodes, CodesInOnePlace, CodeWorksOnce
<1>3. ASSUME NEW c \in Caller,
             IssueReads(c) \/ IssueCools(c) \/ IssueResets(c) \/ CommitClaim(c) \/ GuessReads(c)
             \/ GuessCounts(c) \/ GuessDeletes(c) \/ CallerDies(c)
      PROVE  CodesInv'
  <2>1. \E s \in {"idle", "issuing", "writing", "resetting", "committing", "counting", "deleting"} :
          step' = [step EXCEPT ![c] = s]
    BY <1>3 DEF IssueReads, IssueCools, IssueResets, CommitClaim, GuessReads, GuessCounts,
                GuessDeletes, CallerDies, At
  <2>2. savedCode' \in {savedCode, 0} /\ UNCHANGED <<holds, issuedCodes, honoured>>
    BY <1>3 DEF IssueReads, IssueCools, IssueResets, CommitClaim, GuessReads, GuessCounts,
                GuessDeletes, CallerDies
  <2> QED
    BY <2>1, <2>2, OthersKeepCodes
<1>4. ASSUME NEW c \in Caller, IssueWrites(c) PROVE CodesInv'
  <2> USE <1>4 DEF IssueWrites, At, CodesInv, CodesTypeOK
  <2>1. CodesTypeOK'
    BY CodesAssumption
  <2>2. OnlyIssuedCodes'
    BY CodesAssumption DEF OnlyIssuedCodes, Code
  <2>3. CodesInOnePlace'
    BY CodesAssumption DEF OnlyIssuedCodes, CodesInOnePlace, Code
  <2> QED
    BY <2>1, <2>2, <2>3 DEF CodeWorksOnce
<1>5. ASSUME NEW c \in Caller, ClaimReads(c) PROVE CodesInv'
  <2> USE <1>5 DEF ClaimReads, At, CodesInv, CodesTypeOK
  <2>1. CodesTypeOK' /\ OnlyIssuedCodes'
    BY CodesAssumption DEF OnlyIssuedCodes
  <2>2. CodesInOnePlace'
    BY CodesAssumption DEF CodesInOnePlace
  <2> QED
    BY <2>1, <2>2 DEF CodeWorksOnce
<1>6. ASSUME NEW c \in Caller, CompareAndClaim(c) PROVE CodesInv'
  <2> DEFINE claims == claimOf = NoCaller /\ savedCode = holds[c]
  <2>1. CASE ~claims
    <3>1. step' = [step EXCEPT ![c] = "idle"] /\ UNCHANGED <<savedCode, holds, issuedCodes, honoured>>
      BY <1>6, <2>1 DEF CompareAndClaim, At
    <3> QED
      BY <3>1, OthersKeepCodes
  <2>2. CASE claims
    <3>1. /\ step[c] = "claiming" /\ step' = [step EXCEPT ![c] = "working"]
          /\ savedCode' = 0 /\ savedCode = holds[c]
          /\ UNCHANGED <<holds, issuedCodes, honoured>>
      BY <1>6, <2>2 DEF CompareAndClaim, At, TakesTheCode
    <3> USE <3>1 DEF CodesInv, CodesTypeOK
    <3>2. CodesTypeOK' /\ OnlyIssuedCodes'
      BY CodesAssumption DEF OnlyIssuedCodes
    <3>3. CodesInOnePlace'
      BY CodesAssumption DEF CodesInOnePlace, OnlyIssuedCodes
    <3> QED
      BY <3>2, <3>3 DEF CodeWorksOnce
  <2> QED
    BY <2>1, <2>2
<1>7. ASSUME NEW c \in Caller, Perform(c) PROVE CodesInv'
  <2> USE <1>7 DEF Perform, At, CodesInv, CodesTypeOK
  <2>1. holds[c] \in Code /\ honoured[holds[c]] = 0 /\ holds[c] <= issuedCodes
    BY CodesAssumption DEF OnlyIssuedCodes, CodesInOnePlace, Code
  <2>2. honoured' \in [Code -> Nat] /\ \A k \in Code : honoured'[k] = IF k = holds[c] THEN 1 ELSE honoured[k]
    BY <2>1
  <2>3. CodesTypeOK' /\ CodeWorksOnce'
    BY <2>2 DEF CodeWorksOnce
  <2>4. OnlyIssuedCodes'
    BY <2>1, <2>2, CodesAssumption DEF OnlyIssuedCodes, Code
  <2>5. CodesInOnePlace'
    BY <2>1, <2>2, CodesAssumption DEF CodesInOnePlace, OnlyIssuedCodes, Code
  <2> QED
    BY <2>3, <2>4, <2>5
<1>8. ASSUME NEW c \in Caller, ReleaseClaim(c) PROVE CodesInv'
  <2>1. CASE ~StillClaims(c)
    <3>1. step' = [step EXCEPT ![c] = "idle"] /\ UNCHANGED <<savedCode, holds, issuedCodes, honoured>>
      BY <1>8, <2>1 DEF ReleaseClaim, At
    <3> QED
      BY <3>1, OthersKeepCodes
  <2>2. CASE StillClaims(c)
    <3>1. /\ step[c] = "working" /\ step' = [step EXCEPT ![c] = "idle"]
          /\ savedCode' = holds[c] /\ UNCHANGED <<holds, issuedCodes, honoured>>
      BY <1>8, <2>2 DEF ReleaseClaim, At
    <3> USE <3>1 DEF CodesInv, CodesTypeOK
    <3>2. CodesTypeOK' /\ OnlyIssuedCodes'
      BY CodesAssumption DEF OnlyIssuedCodes
    <3>3. CodesInOnePlace'
      BY CodesAssumption DEF CodesInOnePlace, OnlyIssuedCodes
    <3> QED
      BY <3>2, <3>3 DEF CodeWorksOnce
  <2> QED
    BY <2>1, <2>2
<1> QED
  BY <1>1, <1>2, <1>3, <1>4, <1>5, <1>6, <1>7, <1>8 DEF CodesNext

\* A mailed code authorises one operation at most, for any number of requests and codes,
\* whoever dies, is late or gives the code back (verification-code.ts claim, release).
THEOREM CodesWorkOnce == CodesSpec => []CodeWorksOnce
<1>1. CodesInv => CodeWorksOnce
  BY DEF CodesInv
<1> QED
  BY <1>1, CodesInvInit, CodesInvNext, PTL DEF CodesSpec

-----------------------------------------------------------------------------
(* The evidence of a match.                                                  *)

\* The states of match, replay, case and clean-up.
EvidenceTypeOK ==
  /\ match \in {"playing", "ended", "late", "ancient", "gone"}
  /\ replayRow \in {"none", "available", "deleting"}
  /\ replayFile \in BOOLEAN /\ hold \in BOOLEAN /\ heldInTime \in BOOLEAN
  /\ caseStatus \in {"none", "OPEN", "TRIAGED", "REVIEWING", "ACTIONED", "DISMISSED", "CLOSED"}
  /\ sanctioned \in Nat
  /\ sweep \in [Sweeper -> {"idle", "mark", "files", "command", "row", "cases", "matches", "unlock"}]

\* Before the match has ended there is no replay to delete; an available replay has its
\* file; and a clean-up that has selected the file did so after it was marked.
SelectedMeansMarked ==
  /\ match = "playing" => replayRow = "none"
  /\ replayRow = "available" => replayFile
  /\ \A w \in Sweeper : sweep[w] \in {"command", "row"} => replayRow # "available" /\ match # "playing"

\* A case that sanctioned somebody is past the statuses a sanction may start from.
SanctionedIsDecided == sanctioned # 0 => sanctioned = 1 /\ caseStatus \in {"ACTIONED", "CLOSED"}

\* The inductive invariant of the evidence.
EvidenceInv ==
  /\ EvidenceTypeOK /\ SelectedMeansMarked /\ SanctionedIsDecided
  /\ (heldInTime => hold)
  /\ HeldReplaysAreKept /\ CasesKeepTheirMatch

\* The match is being played, and nobody has reported anything.
LEMMA EvidenceInvInit == EvidenceInit => EvidenceInv
<1> SUFFICES ASSUME EvidenceInit PROVE EvidenceInv
  OBVIOUS
<1>1. EvidenceTypeOK
  BY DEF EvidenceInit, EvidenceTypeOK
<1>2. SelectedMeansMarked /\ SanctionedIsDecided
  BY DEF EvidenceInit, SelectedMeansMarked, SanctionedIsDecided
<1>3. (heldInTime => hold) /\ HeldReplaysAreKept /\ CasesKeepTheirMatch
  BY DEF EvidenceInit, HeldReplaysAreKept, CasesKeepTheirMatch
<1> QED
  BY <1>1, <1>2, <1>3 DEF EvidenceInv

\* Neither the match's life, nor reports and verdicts, nor any round of the clean-up
\* breaks the invariant.
LEMMA EvidenceInvNext == EvidenceInv /\ [EvidenceNext]_evidenceVars => EvidenceInv'
<1> SUFFICES ASSUME EvidenceInv, [EvidenceNext]_evidenceVars PROVE EvidenceInv'
  OBVIOUS
<1> USE DEF EvidenceInv, EvidenceTypeOK, SelectedMeansMarked, SanctionedIsDecided,
            HeldReplaysAreKept, CasesKeepTheirMatch, caseVars, sweepVars
<1>1. CASE UNCHANGED evidenceVars
  BY <1>1 DEF evidenceVars
<1>2. CASE MatchEnds
  BY <1>2 DEF MatchEnds
<1>3. CASE MatchAges
  BY <1>3 DEF MatchAges
<1>4. CASE CaseAges
  BY <1>4 DEF CaseAges
<1>5. ASSUME NEW r \in Reporter, ReadContext(r) PROVE EvidenceInv'
  BY <1>5 DEF ReadContext
<1>6. ASSUME NEW r \in Reporter, WriteReport(r) PROVE EvidenceInv'
  BY <1>6 DEF WriteReport
<1>7. CASE UpdateStatus
  BY <1>7 DEF UpdateStatus, Transitions
<1>8. CASE SanctionCase
  BY <1>8 DEF SanctionCase, Sanctionable
<1>9. CASE SweepLockExpires
  BY <1>9 DEF SweepLockExpires
<1>10. ASSUME NEW w \in Sweeper, BeginSweep(w) \/ SweeperDies(w) \/ UnlockSweep(w) PROVE EvidenceInv'
  BY <1>10 DEF BeginSweep, SweeperDies, UnlockSweep, Goes
<1>11. ASSUME NEW w \in Sweeper, MarkExpiredReplays(w) PROVE EvidenceInv'
  BY <1>11 DEF MarkExpiredReplays, Goes, Unheld
<1>12. ASSUME NEW w \in Sweeper, SelectFile(w) PROVE EvidenceInv'
  BY <1>12 DEF SelectFile, Goes, Deletable, Unheld
<1>13. ASSUME NEW w \in Sweeper, DeleteFile(w) \/ DeleteFails(w) PROVE EvidenceInv'
  <2>1. replayFile' \in BOOLEAN /\ replayRow # "available" /\ match # "playing"
    BY <1>13 DEF DeleteFile, DeleteFails, Goes
  <2>2. sweep'[w] \in {"row", "cases"} /\ \A v \in Sweeper \ {w} : sweep'[v] = sweep[v]
    BY <1>13 DEF DeleteFile, DeleteFails, Goes
  <2>3. EvidenceTypeOK'
    BY <1>13, <2>1 DEF DeleteFile, DeleteFails, Goes
  <2> QED
    BY <1>13, <2>1, <2>2, <2>3 DEF DeleteFile, DeleteFails
<1>14. ASSUME NEW w \in Sweeper, DeleteRow(w) PROVE EvidenceInv'
  BY <1>14 DEF DeleteRow, Goes
<1>15. ASSUME NEW w \in Sweeper, DeleteExpiredModerationCases(w) PROVE EvidenceInv'
  BY <1>15 DEF DeleteExpiredModerationCases, Goes
<1>16. ASSUME NEW w \in Sweeper, DeleteExpiredMatches(w) PROVE EvidenceInv'
  BY <1>16 DEF DeleteExpiredMatches, Goes, Unreferenced
<1> QED
  BY <1>1, <1>2, <1>3, <1>4, <1>5, <1>6, <1>7, <1>8, <1>9, <1>10, <1>11, <1>12, <1>13, <1>14,
     <1>15, <1>16 DEF EvidenceNext, SweepStep

\* What a case rests on outlives the clean-up, and a case is decided once, for any number
\* of reporters and of processes that clean up (reports.service.ts, retention.service.ts).
THEOREM EvidenceKept == EvidenceSpec => []EvidenceIsKept
<1>1. EvidenceInv => EvidenceIsKept
  BY DEF EvidenceInv, EvidenceIsKept, EvidenceTypeOK, SanctionedIsDecided, OneSanctionPerCase
<1> QED
  BY <1>1, EvidenceInvInit, EvidenceInvNext, PTL DEF EvidenceSpec

-----------------------------------------------------------------------------
(* Bans.                                                                     *)

\* The statuses of the account and of its bans.
SanctionsTypeOK ==
  /\ status \in {"ACTIVE", "BANNED", "DELETED"}
  /\ bans \in [Ban -> [state : {"none", "scheduled", "active", "expired"}, revoked : BOOLEAN]]

\* The operations keep the types.
LEMMA SanctionsTypes == SanctionsSpec => []SanctionsTypeOK
<1>1. SanctionsInit => SanctionsTypeOK
  BY DEF SanctionsInit, SanctionsTypeOK
<1>2. SanctionsTypeOK /\ [SanctionsNext]_<<status, bans>> => SanctionsTypeOK'
  <2> SUFFICES ASSUME SanctionsTypeOK, [SanctionsNext]_<<status, bans>> PROVE SanctionsTypeOK'
    OBVIOUS
  <2> USE DEF SanctionsTypeOK
  <2>1. CASE UNCHANGED <<status, bans>>
    BY <2>1
  <2>2. CASE RunScheduledReconciliation \/ MarkDeleted
    BY <2>2 DEF RunScheduledReconciliation, ReconcileUserStatus, MarkDeleted
  <2>3. ASSUME NEW b \in Ban, NEW s \in {"active", "scheduled"}, ApplyBan(b, s) PROVE SanctionsTypeOK'
    BY <2>3 DEF ApplyBan
  <2>4. ASSUME NEW b \in Ban, RevokeBan(b) PROVE SanctionsTypeOK'
    BY <2>4 DEF RevokeBan
  <2>5. ASSUME NEW b \in Ban, BanTurns(b) PROVE SanctionsTypeOK'
    BY <2>5 DEF BanTurns
  <2> QED
    BY <2>1, <2>2, <2>3, <2>4, <2>5 DEF SanctionsNext, SanctionsStep
<1> QED
  BY <1>1, <1>2, PTL DEF SanctionsSpec

\* Lifting or outliving one ban does not readmit a user whom another ban holds, for any
\* number of bans (sanction.service.ts revoke, reconcileUserStatus).
THEOREM LastBanCounts == SanctionsSpec => BannedUntilTheLastBan
<1> DEFINE Readmits == status = "BANNED" /\ status' = "ACTIVE" => ~BannedNow'
<1>1. SanctionsTypeOK /\ [SanctionsNext]_<<status, bans>> => [Readmits]_<<status, bans>>
  <2> SUFFICES ASSUME SanctionsTypeOK, SanctionsNext, status = "BANNED", status' = "ACTIVE"
               PROVE  ~BannedNow'
    OBVIOUS
  <2> USE DEF SanctionsTypeOK, BannedNow, Effective
  <2>1. CASE RunScheduledReconciliation
    BY <2>1 DEF RunScheduledReconciliation, ReconcileUserStatus
  <2>2. CASE MarkDeleted
    BY <2>2 DEF MarkDeleted
  <2>3. ASSUME NEW b \in Ban, NEW s \in {"active", "scheduled"}, ApplyBan(b, s) PROVE ~BannedNow'
    BY <2>3 DEF ApplyBan
  <2>4. ASSUME NEW b \in Ban, RevokeBan(b) PROVE ~BannedNow'
    BY <2>4 DEF RevokeBan, NoOtherActiveBan
  <2>5. ASSUME NEW b \in Ban, BanTurns(b) PROVE ~BannedNow'
    BY <2>5 DEF BanTurns
  <2> QED
    BY <2>1, <2>2, <2>3, <2>4, <2>5 DEF SanctionsNext, SanctionsStep
<1> QED
  BY <1>1, SanctionsTypes, PTL DEF SanctionsSpec, BannedUntilTheLastBan

-----------------------------------------------------------------------------
(* Sessions and second factors of one account.                               *)

\* Where a request may be, of what kind it is and how it was authorised.
Points == {"idle", "reconcile", "method", "create", "verify", "spend", "backup", "commit",
           "cached", "lock", "wait", "rotate", "store"}
Kinds == {"none", "login", "refresh", "change", "reset", "delete", "others", "email-enable",
          "totp-setup", "totp-confirm", "disable", "regenerate", "untrust"}
Factor == [method : {"none", "email", "totp"}, row : Sid, secret : Sid, lastStep : 0 .. MaxStep]
Locals(points) ==
  [at : points, kind : Kinds, id : Sid, epoch : Sid, password : Sid,
   auth : {"none", "email", "totp", "device"}, token : Token, next : Token, mfa : Factor,
   seen : SUBSET (0 .. MaxRequests + 1)]
Spending == {"totp", "backup"} \X Sid \X (0 .. MaxRequests + 1) \X (0 .. MaxStep)

AccountTypes ==
  /\ AccountsTypeOK
  /\ sessions \in [Sid -> Row \cup {NoRow}] /\ closed \subseteq Sid
  /\ mfa \in Factor /\ setup \in [secret : Sid, epoch : Sid]
  /\ spent \subseteq Spending \X Nat /\ clock \in Nat
  /\ req \in [Request -> Locals(Points)] /\ challenges \subseteq Locals({"challenge"})

\* Requests are numbered as they start, and no two that are under way have one number.
Active(r) == req[r].at # "idle"
IdsInv ==
  /\ \A r \in Request : IF Active(r) THEN req[r].id \in 1 .. started ELSE req[r].id = 0
  /\ \A r, q \in Request : Active(r) /\ Active(q) /\ r # q => req[r].id # req[q].id

\* The numbers of the requests that are over, or have had their effect; a session, a
\* family, a backup code or an epoch comes from one of them.
Used == {i \in 1 .. started : \A r \in Request : req[r].id = i => req[r].at = "store"}
Old == Used \cup {0}
OldCode == Old \cup {MaxRequests + 1}

\* A token belongs to the family that its session is in, if there still is one.
InFamily(t) == t.sid \in Old /\ (sessions[t.sid].kind = "row" => sessions[t.sid].token.fam = t.fam)

\* What a request has read and still relies on.
LocalOK(l) ==
  /\ l.at \in {"method", "create"} => l.kind = "login"
  /\ l.kind = "login" => l.epoch <= user.epoch /\ (l.epoch = user.epoch => l.password = user.password)
  /\ l.kind = "change" => l.token \in issued
  /\ l.at = "backup" => \E b \in 1 .. MaxRequests + 1 : l.seen = {b}
  /\ l.at = "store" => l.next.sid = l.id /\ InFamily(l.next)
LocalInv ==
  /\ \A r \in Request : LocalOK(req[r])
  /\ \A c \in challenges : LocalOK(c)

\* Epochs and generations count what is over.
EpochInv ==
  /\ user.password <= user.epoch /\ user.epoch <= Cardinality(Used)
  /\ \A s \in Sid : sessions[s].kind = "row" => sessions[s].token.gen <= Cardinality(Used)

SessionInv ==
  /\ \A s \in Sid : sessions[s].kind = "row" =>
        s \in Old /\ sessions[s].token.sid = s /\ sessions[s].token.fam \in Old
  /\ \A s \in Sid : Live(s) => sessions[s].password = user.password
  /\ closed \subseteq Old
  /\ \A t \in issued : InFamily(t)
  /\ ClosedFamiliesStayClosed /\ OneSessionPerFamily
  /\ NoSessionOutlivesTheAccount /\ NobodyInsideWithoutTheFactor

\* What was spent is not what may be spent next.
SpentInv ==
  /\ mfa.row \in Old /\ backup \in OldCode
  /\ FactorsAreSpentOnce
  /\ \A u \in spent :
       /\ u[1][1] = "totp" => /\ u[1][2] \in Old
                              /\ mfa.method = "totp" /\ u[1][2] = mfa.row => u[1][4] <= mfa.lastStep
       /\ u[1][1] = "backup" => u[1][3] \in OldCode \ {0, backup}

AccountsInv ==
  AccountTypes /\ IdsInv /\ LocalInv /\ EpochInv /\ SessionInv /\ SpentInv

-----------------------------------------------------------------------------
(* Records.                                                                  *)

\* Numbers that are used are numbers of requests, and finitely many.
LEMMA UsedCounts ==
  ASSUME started \in 0 .. MaxRequests
  PROVE  /\ IsFiniteSet(Used) /\ Cardinality(Used) \in 0 .. MaxRequests
         /\ Used \subseteq 1 .. started /\ Old \subseteq Sid /\ OldCode \subseteq 0 .. MaxRequests + 1
<1>1. Used \subseteq 1 .. started
  BY DEF Used
<1>2. IsFiniteSet(1 .. started) /\ Cardinality(1 .. started) = started
  <2>1. started \in Int /\ 1 \in Int /\ started >= 0 /\ started <= MaxRequests
    BY AccountsAssumption
  <2> QED
    BY <2>1, FS_Interval
<1>3. IsFiniteSet(Used) /\ Cardinality(Used) <= started
  BY <1>1, <1>2, FS_Subset
<1>4. Cardinality(Used) \in Nat
  BY <1>3, FS_CardinalityType
<1>5. Used \subseteq 1 .. MaxRequests
  BY <1>1, AccountsAssumption
<1> QED
  BY <1>1, <1>3, <1>4, <1>5, AccountsAssumption DEF Old, OldCode, Sid

\* A row is no missing row.
LEMMA Rows ==
  ASSUME AccountTypes, NEW s \in Sid
  PROVE  /\ sessions[s] \in Row \cup {NoRow}
         /\ sessions[s].kind = "row" <=> sessions[s] \in Row
         /\ sessions[s] # NoRow <=> sessions[s].kind = "row"
         /\ Live(s) => sessions[s].kind = "row"
<1>1. sessions[s] \in Row \cup {NoRow}
  BY DEF AccountTypes
<1>2. NoRow.kind = "none" /\ \A x \in Row : x.kind = "row"
  BY DEF Row, NoRow
<1> QED
  BY <1>1, <1>2 DEF Live

\* Revoking a row changes nothing else of it.
LEMMA RevokedRow ==
  ASSUME NEW x \in Row
  PROVE  LET y == [x EXCEPT !.revoked = TRUE]
         IN  /\ y \in Row /\ y.token = x.token /\ y.password = x.password
             /\ y.under = x.under /\ y.auth = x.auth /\ y.kind = "row" /\ y.revoked
<1> DEFINE y == [x EXCEPT !.revoked = TRUE]
<1>1. y \in Row
  BY DEF Row
<1>2. y.token = x.token /\ y.password = x.password /\ y.under = x.under /\ y.auth = x.auth /\ y.kind = "row"
  BY DEF Row
<1>3. y.revoked
  BY Zenon DEF Row
<1> QED
  BY <1>1, <1>2, <1>3

LEMMA ExpiredRow ==
  ASSUME NEW x \in Row
  PROVE  LET y == [x EXCEPT !.expired = TRUE]
         IN  /\ y \in Row /\ y.token = x.token /\ y.password = x.password
             /\ y.under = x.under /\ y.auth = x.auth /\ y.kind = "row"
             /\ y.revoked <=> x.revoked
<1> DEFINE y == [x EXCEPT !.expired = TRUE]
<1>1. y \in Row
  BY DEF Row
<1>2. y.token = x.token /\ y.password = x.password /\ y.under = x.under /\ y.auth = x.auth /\ y.kind = "row"
  BY DEF Row
<1>3. y.revoked <=> x.revoked
  BY DEF Row
<1> QED
  BY <1>1, <1>2, <1>3

-----------------------------------------------------------------------------
(* The numbers of requests.                                                  *)

\* The used numbers grow, and so does how many there are.
LEMMA Counting ==
  ASSUME started \in 0 .. MaxRequests, started' \in 0 .. MaxRequests, Used \subseteq Used'
  PROVE  /\ Cardinality(Used) <= Cardinality(Used')
         /\ Cardinality(Used') \in 0 .. MaxRequests /\ Cardinality(Used) \in 0 .. MaxRequests
         /\ Old \subseteq Old' /\ OldCode \subseteq OldCode'
         /\ \A i : i \in Used' /\ i \notin Used => Cardinality(Used) + 1 <= Cardinality(Used')
<1>1. IsFiniteSet(Used) /\ Cardinality(Used) \in 0 .. MaxRequests
  BY UsedCounts
<1>2. IsFiniteSet(Used') /\ Cardinality(Used') \in 0 .. MaxRequests
  <2> DEFINE after == Used'
  <2>1. after \subseteq 1 .. started'
    BY DEF Used
  <2>2. IsFiniteSet(1 .. started') /\ Cardinality(1 .. started') = started'
    <3>1. started' \in Int /\ 1 \in Int /\ started' >= 0 /\ started' <= MaxRequests
      BY AccountsAssumption
    <3> QED
      BY <3>1, FS_Interval
  <2> HIDE DEF after
  <2>3. IsFiniteSet(after) /\ Cardinality(after) <= started'
    BY <2>1, <2>2, FS_Subset
  <2>4. Cardinality(after) \in Nat
    BY <2>3, FS_CardinalityType
  <2>5. IsFiniteSet(after) /\ Cardinality(after) \in 0 .. MaxRequests
    BY <2>3, <2>4, AccountsAssumption
  <2> QED
    BY <2>5 DEF after
<1>3. Cardinality(Used) <= Cardinality(Used')
  BY <1>2, FS_Subset
<1>4. ASSUME NEW i, i \in Used', i \notin Used
      PROVE  Cardinality(Used) + 1 <= Cardinality(Used')
  <2> DEFINE more == Used \cup {i}
  <2>1. Cardinality(more) = Cardinality(Used) + 1 /\ IsFiniteSet(more)
    BY <1>1, <1>4, FS_AddElement
  <2>2. more \subseteq Used'
    BY <1>4
  <2> HIDE DEF more
  <2>3. Cardinality(more) <= Cardinality(Used')
    BY <1>2, <2>2, FS_Subset
  <2> QED
    BY <2>1, <2>3
<1> QED
  BY <1>1, <1>2, <1>3, <1>4 DEF Old, OldCode

\* A request starts with the next number.
LEMMA StartIds ==
  ASSUME IdsInv, started \in 0 .. MaxRequests, NEW r \in Request,
         ~ Active(r), started' = started + 1, req'[r].id = started + 1,
         req'[r].at \notin {"idle", "store"},
         \A q \in Request : q # r => req'[q] = req[q]
  PROVE  IdsInv' /\ Used \subseteq Used'
<1>1. \A q \in Request : q # r /\ Active(q) => req[q].id \in 1 .. started
  BY DEF IdsInv
<1>2. IdsInv'
  BY <1>1, AccountsAssumption DEF IdsInv, Active
<1>3. ASSUME NEW i \in Used PROVE i \in Used'
  <2>1. i \in 1 .. started
    BY DEF Used
  <2>2. i \in 1 .. started' /\ i # started + 1
    BY <2>1, AccountsAssumption
  <2>3. \A q \in Request : req'[q].id = i => req'[q].at = "store"
    BY <2>2 DEF Used
  <2> QED
    BY <2>2, <2>3 DEF Used
<1> QED
  BY <1>2, <1>3

\* A request goes on.
LEMMA GoIds ==
  ASSUME IdsInv, NEW r \in Request,
         Active(r), req[r].at # "store", started' = started, req'[r].id = req[r].id,
         req'[r].at # "idle",
         \A q \in Request : q # r => req'[q] = req[q]
  PROVE  /\ IdsInv' /\ Used \subseteq Used' /\ req[r].id \notin Used /\ req[r].id \in 1 .. started
         /\ req'[r].at = "store" => req[r].id \in Used'
<1>1. req[r].id \in 1 .. started /\ \A q \in Request : q # r => req[q].id # req[r].id
  BY DEF IdsInv, Active
<1>2. IdsInv'
  BY DEF IdsInv, Active
<1> QED
  BY <1>1, <1>2 DEF Used

\* A request is over.
LEMMA DoneIds ==
  ASSUME IdsInv, NEW r \in Request,
         Active(r), started' = started, req'[r].id = 0, req'[r].at = "idle",
         \A q \in Request : q # r => req'[q] = req[q]
  PROVE  /\ IdsInv' /\ Used \subseteq Used' /\ req[r].id \in 1 .. started /\ req[r].id \in Used'
         /\ req[r].at # "store" => req[r].id \notin Used
<1>1. req[r].id \in 1 .. started /\ \A q \in Request : q # r => req[q].id # req[r].id
  BY DEF IdsInv, Active
<1>2. IdsInv'
  BY DEF IdsInv, Active
<1> QED
  BY <1>1, <1>2 DEF Used

-----------------------------------------------------------------------------
(* What a step leaves alone.                                                 *)

\* The account may have moved on, but no session that was there has another family.
Later ==
  /\ user'.epoch > user.epoch \/ (user'.epoch = user.epoch /\ user'.password = user.password)
  /\ issued \subseteq issued' /\ Old \subseteq Old'
  /\ \A s \in Old : sessions'[s].kind = "row" =>
        sessions[s].kind = "row" /\ sessions'[s].token.fam = sessions[s].token.fam

LEMMA FamilyLater ==
  ASSUME NEW t, InFamily(t), Later
  PROVE  t.sid \in Old' /\ (sessions'[t.sid].kind = "row" => sessions'[t.sid].token.fam = t.fam)
BY DEF InFamily, Later

\* What a request relied on it may rely on still.
LEMMA LocalLater ==
  ASSUME AccountTypes, AccountTypes', Later,
         NEW l \in Locals(Points) \cup Locals({"challenge"}), LocalOK(l)
  PROVE  /\ l.at \in {"method", "create"} => l.kind = "login"
         /\ l.kind = "login" =>
              l.epoch <= user'.epoch /\ (l.epoch = user'.epoch => l.password = user'.password)
         /\ l.kind = "change" => l.token \in issued'
         /\ l.at = "backup" => \E b \in 1 .. MaxRequests + 1 : l.seen = {b}
         /\ l.at = "store" => /\ l.next.sid = l.id /\ l.next.sid \in Old'
                              /\ sessions'[l.next.sid].kind = "row" =>
                                   sessions'[l.next.sid].token.fam = l.next.fam
<1>1. l.epoch \in Int /\ user.epoch \in Int /\ user'.epoch \in Int
  BY AccountsAssumption DEF Locals, Sid, AccountTypes, AccountsTypeOK
<1>2. l.kind = "login" =>
        l.epoch <= user'.epoch /\ (l.epoch = user'.epoch => l.password = user'.password)
  BY <1>1 DEF LocalOK, Later
<1>3. l.kind = "change" => l.token \in issued'
  BY DEF LocalOK, Later
<1>4. l.at = "store" => InFamily(l.next) /\ l.next.sid = l.id
  BY DEF LocalOK
<1>5. /\ l.at = "backup" => \E b \in 1 .. MaxRequests + 1 : l.seen = {b}
      /\ l.at \in {"method", "create"} => l.kind = "login"
  BY DEF LocalOK
<1> QED
  BY <1>2, <1>3, <1>4, <1>5, FamilyLater

LEMMA LocalsLater ==
  ASSUME AccountTypes, AccountTypes', Later, LocalInv,
         NEW R \in SUBSET Request, \A q \in Request \ R : req'[q] = req[q],
         \A q \in R : LocalOK(req[q])',
         \A c \in challenges' : c \in challenges \/ LocalOK(c)'
  PROVE  LocalInv'
<1>1. ASSUME NEW q \in Request \ R PROVE LocalOK(req[q])'
  <2>1. req[q] \in Locals(Points) /\ LocalOK(req[q]) /\ req'[q] = req[q]
    BY <1>1 DEF LocalInv, AccountTypes
  <2> QED
    BY <2>1, LocalLater DEF LocalOK, InFamily
<1>2. ASSUME NEW c \in challenges' PROVE LocalOK(c)'
  <2>1. CASE c \in challenges
    <3>1. c \in Locals({"challenge"}) /\ LocalOK(c)
      BY <2>1 DEF LocalInv, AccountTypes
    <3> QED
      BY <3>1, LocalLater DEF LocalOK, InFamily
  <2> QED
    BY <1>2, <2>1
<1> QED
  BY <1>1, <1>2 DEF LocalInv

LEMMA SessionsStand ==
  ASSUME AccountTypes, AccountTypes', EpochInv, SessionInv, Used \subseteq Used',
         UNCHANGED <<user, sessions, issued, closed, status>>
  PROVE  EpochInv' /\ SessionInv'
<1>1. /\ Cardinality(Used) <= Cardinality(Used') /\ Old \subseteq Old'
      /\ Cardinality(Used') \in 0 .. MaxRequests /\ Cardinality(Used) \in 0 .. MaxRequests
  BY Counting DEF AccountTypes, AccountsTypeOK
<1>2. EpochInv'
  <2>1. user.epoch \in Int
    BY AccountsAssumption DEF AccountTypes, AccountsTypeOK
  <2>2. \A s \in Sid : sessions[s].kind = "row" => sessions[s].token.gen \in Int
    BY Rows, AccountsAssumption DEF Row, Token
  <2> QED
    BY <1>1, <2>1, <2>2 DEF EpochInv
<1>3. \A s \in Sid : Live(s)' <=> Live(s)
  BY DEF Live
<1>4. \A t \in issued : InFamily(t)'
  BY <1>1 DEF SessionInv, InFamily
<1>5. ClosedFamiliesStayClosed' /\ OneSessionPerFamily' /\ NoSessionOutlivesTheAccount'
      /\ NobodyInsideWithoutTheFactor'
  BY <1>3 DEF SessionInv, ClosedFamiliesStayClosed, OneSessionPerFamily,
              NoSessionOutlivesTheAccount, NobodyInsideWithoutTheFactor
<1> QED
  BY <1>1, <1>2, <1>3, <1>4, <1>5 DEF SessionInv

LEMMA SpentStands ==
  ASSUME AccountTypes, AccountTypes', SpentInv, Used \subseteq Used',
         UNCHANGED <<mfa, backup, spent>>
  PROVE  SpentInv'
<1>1. Old \subseteq Old' /\ OldCode \subseteq OldCode'
  BY Counting DEF AccountTypes, AccountsTypeOK
<1> QED
  BY <1>1 DEF SpentInv, FactorsAreSpentOnce

LEMMA LaterStill ==
  ASSUME AccountTypes, AccountTypes', Used \subseteq Used',
         UNCHANGED <<user, sessions>>, issued \subseteq issued'
  PROVE  Later
<1>1. Old \subseteq Old'
  BY Counting DEF AccountTypes, AccountsTypeOK
<1> QED
  BY <1>1 DEF Later

\* A step of one request that leaves sessions and factors alone.
LEMMA QuietKeeps ==
  ASSUME AccountsInv, AccountTypes', NEW R \in SUBSET Request,
         UNCHANGED <<user, sessions, issued, closed, status, mfa, backup, spent>>,
         IdsInv', Used \subseteq Used',
         \A q \in Request \ R : req'[q] = req[q],
         \A q \in R : LocalOK(req[q])',
         \A c \in challenges' : c \in challenges \/ LocalOK(c)'
  PROVE  AccountsInv'
<1>1. AccountTypes /\ IdsInv /\ LocalInv /\ EpochInv /\ SessionInv /\ SpentInv
  BY DEF AccountsInv
<1>2. LocalInv'
  BY <1>1, LaterStill, LocalsLater
<1>3. EpochInv' /\ SessionInv' /\ SpentInv'
  BY <1>1, SessionsStand, SpentStands
<1> QED
  BY <1>2, <1>3 DEF AccountsInv

LEMMA QuietStep ==
  ASSUME AccountsInv, AccountTypes', NEW r \in Request,
         UNCHANGED <<user, sessions, issued, closed, status, mfa, backup, spent>>,
         IdsInv', Used \subseteq Used',
         \A q \in Request : q # r => req'[q] = req[q],
         LocalOK(req[r])',
         \A c \in challenges' : c \in challenges \/ LocalOK(c)'
  PROVE  AccountsInv'
<1> DEFINE R == {r}
<1>1. R \in SUBSET Request /\ \A q \in Request \ R : req'[q] = req[q]
  OBVIOUS
<1>2. \A q \in R : LocalOK(req[q])'
  OBVIOUS
<1> HIDE DEF R
<1> QED
  BY <1>1, <1>2, QuietKeeps

-----------------------------------------------------------------------------
(* Steps of one request.                                                     *)

\* The variables that no property is about.
RestOK ==
  /\ devices \subseteq Sid /\ setup \in [secret : Sid, epoch : Sid] /\ clock \in Nat
  /\ cache \subseteq Token \X Token /\ lock \subseteq Token \X Request
  /\ challenges \subseteq Locals({"challenge"}) /\ started \in 0 .. MaxRequests

LEMMA RestIs == AccountTypes => RestOK
BY DEF AccountTypes, AccountsTypeOK, RestOK

LEMMA QuietTypes ==
  ASSUME AccountTypes, RestOK', req' \in [Request -> Locals(Points)],
         UNCHANGED <<user, sessions, issued, closed, status, mfa, backup, spent>>
  PROVE  AccountTypes'
<1>1. \A r \in Request : req'[r].at \in Points
  BY DEF Locals
<1>2. AccountsTypeOK'
  BY <1>1 DEF AccountTypes, AccountsTypeOK, RestOK, Points
<1> QED
  BY <1>2 DEF AccountTypes, RestOK

LEMMA Becoming ==
  ASSUME AccountTypes, NEW r \in Request, NEW l \in Locals(Points), Becomes(r, l)
  PROVE  /\ req' \in [Request -> Locals(Points)] /\ req'[r] = l
         /\ \A q \in Request : q # r => req'[q] = req[q]
BY DEF AccountTypes, Becomes

LEMMA Local ==
  ASSUME AccountTypes, NEW r \in Request
  PROVE  req[r] \in Locals(Points)
BY DEF AccountTypes

LEMMA NoneIsTyped ==
  /\ NoToken \in Token /\ NoMfa \in Factor /\ 0 \in Sid /\ NoSetup \in [secret : Sid, epoch : Sid]
  /\ Idle \in Locals(Points) /\ Idle.at = "idle" /\ Idle.id = 0 /\ Idle.kind = "none"
  /\ \A at \in Points, kind \in Kinds :
       /\ NewRequest(at, kind) \in Locals(Points)
       /\ NewRequest(at, kind).at = at /\ NewRequest(at, kind).kind = kind
       /\ NewRequest(at, kind).id = 0
<1>1. 0 \in Sid /\ 0 \in 0 .. MaxRequests /\ 0 \in 0 .. MaxStep
  BY AccountsAssumption DEF Sid
<1>2. NoToken \in Token /\ NoMfa \in Factor /\ NoSetup \in [secret : Sid, epoch : Sid]
  BY <1>1 DEF NoToken, Token, NoMfa, Factor, NoSetup
<1>3. Idle \in Locals(Points) /\ Idle.at = "idle" /\ Idle.id = 0 /\ Idle.kind = "none"
  BY <1>1, <1>2, Zenon DEF Idle, Locals, Points, Kinds
<1>4. ASSUME NEW at \in Points, NEW kind \in Kinds
      PROVE  /\ NewRequest(at, kind) \in Locals(Points)
             /\ NewRequest(at, kind).at = at /\ NewRequest(at, kind).kind = kind
             /\ NewRequest(at, kind).id = 0
  BY <1>3 DEF NewRequest, Locals
<1> QED
  BY <1>1, <1>2, <1>3, <1>4

\* A request starts.
LEMMA StartKeeps ==
  ASSUME AccountsInv, NEW r \in Request, NEW l \in Locals(Points),
         l.at \notin {"idle", "store"}, LocalOK(l), Start(r, l),
         UNCHANGED <<account, mfa, backup, devices, setup, spent, clock, rotation, banning>>,
         challenges' \subseteq challenges
  PROVE  AccountsInv'
<1>1. AccountTypes /\ IdsInv /\ RestOK
  BY RestIs DEF AccountsInv
<1> DEFINE new == [l EXCEPT !.id = started + 1]
<1>2. /\ ~ Active(r) /\ started < MaxRequests /\ started' = started + 1 /\ Becomes(r, new)
  BY DEF Start, Active
<1>3. started \in 0 .. MaxRequests /\ started' \in 0 .. MaxRequests /\ started + 1 \in Sid
  BY <1>1, <1>2, AccountsAssumption DEF RestOK, Sid
<1>4. /\ new \in Locals(Points) /\ new.id = started + 1 /\ new.at = l.at /\ new.kind = l.kind
      /\ new.epoch = l.epoch /\ new.password = l.password /\ new.token = l.token
      /\ new.seen = l.seen
  BY <1>3 DEF Locals
<1> HIDE DEF new
<1>5. /\ req' \in [Request -> Locals(Points)] /\ req'[r] = new
      /\ \A q \in Request : q # r => req'[q] = req[q]
  BY <1>1, <1>2, <1>4, Becoming
<1>6. UNCHANGED <<user, sessions, issued, closed, status, mfa, backup, spent>>
  BY DEF account, banning
<1>7. RestOK'
  BY <1>1, <1>3 DEF RestOK, rotation
<1>8. AccountTypes'
  BY <1>1, <1>5, <1>6, <1>7, QuietTypes
<1>9. IdsInv' /\ Used \subseteq Used'
  BY <1>1, <1>2, <1>3, <1>4, <1>5, StartIds
<1>10. LocalOK(req[r])'
  BY <1>4, <1>5, <1>6 DEF LocalOK
<1> QED
  BY <1>5, <1>6, <1>8, <1>9, <1>10, QuietStep

\* A request goes on.
LEMMA GoKeeps ==
  ASSUME AccountsInv, NEW r \in Request, Active(r), req[r].at # "store",
         NEW l \in Locals(Points), l.at \notin {"idle", "store"}, l.id = req[r].id, LocalOK(l),
         Becomes(r, l), RestOK', started' = started,
         UNCHANGED <<user, sessions, issued, closed, status, mfa, backup, spent>>,
         challenges' \subseteq challenges
  PROVE  AccountsInv'
<1>1. AccountTypes /\ IdsInv
  BY DEF AccountsInv
<1>2. /\ req' \in [Request -> Locals(Points)] /\ req'[r] = l
      /\ \A q \in Request : q # r => req'[q] = req[q]
  BY <1>1, Becoming
<1>3. AccountTypes'
  BY <1>1, <1>2, QuietTypes
<1>4. IdsInv' /\ Used \subseteq Used'
  BY <1>1, <1>2, GoIds
<1>5. LocalOK(req[r])'
  BY <1>2 DEF LocalOK
<1> QED
  BY <1>2, <1>3, <1>4, <1>5, QuietStep

\* A request is over.
LEMMA DoneKeeps ==
  ASSUME AccountsInv, NEW r \in Request, Active(r), Done(r), RestOK', started' = started,
         UNCHANGED <<user, sessions, issued, closed, status, mfa, backup, spent>>,
         \A c \in challenges' : c \in challenges \/ LocalOK(c)
  PROVE  AccountsInv'
<1>1. AccountTypes /\ IdsInv
  BY DEF AccountsInv
<1>2. /\ req' \in [Request -> Locals(Points)] /\ req'[r] = Idle
      /\ \A q \in Request : q # r => req'[q] = req[q]
  BY <1>1, Becoming, NoneIsTyped DEF Done
<1>3. AccountTypes'
  BY <1>1, <1>2, QuietTypes
<1>4. IdsInv' /\ Used \subseteq Used'
  BY <1>1, <1>2, DoneIds, NoneIsTyped
<1>5. LocalOK(req[r])'
  BY <1>2, NoneIsTyped DEF LocalOK
<1>6. \A c \in challenges' : c \in challenges \/ LocalOK(c)'
  <2>1. \A c \in challenges' : c.at = "challenge"
    BY DEF RestOK, Locals
  <2> QED
    BY <2>1 DEF LocalOK
<1> QED
  BY <1>2, <1>3, <1>4, <1>5, <1>6, QuietStep

\* The values a request copies.
LEMMA Values ==
  ASSUME AccountTypes
  PROVE  /\ user.epoch \in Sid /\ user.password \in Sid /\ mfa \in Factor
         /\ mfa.method \in {"none", "email", "totp"} /\ setup.epoch \in Sid /\ setup.secret \in Sid
         /\ issued \subseteq Token /\ devices \subseteq Sid /\ backup \in 0 .. MaxRequests + 1
         /\ \A k \in Window : k \in 0 .. MaxStep
<1>1. \A k \in Window : k \in 0 .. MaxStep
  BY AccountsAssumption DEF Window
<1> QED
  BY <1>1 DEF AccountTypes, AccountsTypeOK, Factor, Sid

\* The requests that start without having read anything to rely on.
LEMMA PlainStart ==
  ASSUME AccountsInv, NEW r \in Request, NEW l \in Locals(Points),
         l.at \in {"reconcile", "cached", "verify", "commit"}, l.kind \notin {"login", "change"},
         Start(r, l),
         UNCHANGED <<account, factors, rotation, banning>>
  PROVE  AccountsInv'
<1>1. LocalOK(l)
  BY DEF LocalOK
<1> QED
  BY <1>1, StartKeeps DEF factors

LEMMA ReadsKeep ==
  ASSUME AccountsInv, NEW r \in Request, NEW t \in issued,
         \/ RefreshReads(r, t) \/ DeleteReads(r, t) \/ RevokeOthersReads(r, t)
         \/ \E kind \in {"email-enable", "totp-setup"} : ReadsPassword(r, t, kind)
         \/ \E k \in Window : ReadsSetup(r, t, k)
         \/ \E kind \in {"disable", "regenerate", "untrust"} : StepUp(r, t, kind)
  PROVE  AccountsInv'
<1>1. AccountTypes
  BY DEF AccountsInv
<1>2. \A l \in Locals(Points) :
        /\ l.at \in {"reconcile", "cached", "verify", "commit"} /\ l.kind \notin {"login", "change"}
        /\ Start(r, l) /\ UNCHANGED <<account, factors, rotation, banning>>
        => AccountsInv'
  BY PlainStart
<1>2a. NoToken \in Token /\ NoMfa \in Factor /\ 0 \in Sid /\ {} \in SUBSET (0 .. MaxRequests + 1)
  BY NoneIsTyped
<1>2b. \A at \in {"reconcile", "cached", "verify", "commit"}, kind \in Kinds :
        /\ NewRequest(at, kind) \in Locals(Points)
        /\ NewRequest(at, kind).at = at /\ NewRequest(at, kind).kind = kind
  BY NoneIsTyped DEF Points
<1>3. CASE RefreshReads(r, t)
  <2> DEFINE at == IF status = "BANNED" THEN "reconcile" ELSE "cached"
             base == NewRequest(at, "refresh")
             l == [base EXCEPT !.token = t]
  <2>1. Start(r, l) /\ UNCHANGED <<account, factors, rotation, banning>>
    BY <1>3 DEF RefreshReads
  <2>b. base \in Locals(Points) /\ base.at = at /\ base.kind = "refresh"
    BY <1>2b DEF Kinds
  <2> HIDE DEF base
  <2>2. l \in Locals(Points) /\ l.at = at /\ l.kind = "refresh"
    BY <1>1, <2>b, Values DEF Locals
  <2>3. at \in {"reconcile", "cached"}
    OBVIOUS
  <2> HIDE DEF l, at
  <2> QED
    BY <1>2, <2>1, <2>2, <2>3
<1>4. CASE DeleteReads(r, t)
  <2> DEFINE at == IF mfa.method = "totp" THEN "verify" ELSE "commit"
             base == NewRequest(at, "delete")
             l == [base EXCEPT !.auth = mfa.method]
  <2>1. Start(r, l) /\ UNCHANGED <<account, factors, rotation, banning>>
    BY <1>4 DEF DeleteReads
  <2>b. base \in Locals(Points) /\ base.at = at /\ base.kind = "delete"
    BY <1>2b DEF Kinds
  <2> HIDE DEF base
  <2>2. l \in Locals(Points) /\ l.at = at /\ l.kind = "delete"
    BY <1>1, <2>b, Values DEF Locals
  <2>3. at \in {"verify", "commit"}
    OBVIOUS
  <2> HIDE DEF l, at
  <2> QED
    BY <1>2, <2>1, <2>2, <2>3
<1>5. CASE RevokeOthersReads(r, t)
  <2> DEFINE found == {s \in Sid \ {t.sid} : Live(s)}
             base == NewRequest("commit", "others")
             l == [base EXCEPT !.seen = found]
  <2>1. Start(r, l) /\ UNCHANGED <<account, factors, rotation, banning>>
    BY <1>5 DEF RevokeOthersReads
  <2>2. found \in SUBSET (0 .. MaxRequests + 1)
    BY AccountsAssumption DEF Sid
  <2> HIDE DEF found
  <2>b. base \in Locals(Points) /\ base.at = "commit" /\ base.kind = "others"
    BY <1>2b DEF Kinds
  <2> HIDE DEF base
  <2>3. l \in Locals(Points) /\ l.at = "commit" /\ l.kind = "others"
    BY <1>2a, <2>b, <2>2 DEF Locals
  <2> QED
    BY <1>2, <2>1, <2>3
<1>6. ASSUME NEW kind \in {"email-enable", "totp-setup"}, ReadsPassword(r, t, kind) PROVE AccountsInv'
  <2> DEFINE base == NewRequest("commit", kind)
             l == [base EXCEPT !.epoch = user.epoch, !.password = user.password]
  <2>1. Start(r, l) /\ UNCHANGED <<account, factors, rotation, banning>>
    BY <1>6 DEF ReadsPassword
  <2>b. base \in Locals(Points) /\ base.at = "commit" /\ base.kind = kind
    BY <1>2b DEF Kinds
  <2> HIDE DEF base
  <2>2. l \in Locals(Points) /\ l.at = "commit" /\ l.kind = kind
    BY <1>1, <2>b, Values DEF Locals
  <2> QED
    BY <1>2, <2>1, <2>2
<1>7. ASSUME NEW k \in Window, ReadsSetup(r, t, k) PROVE AccountsInv'
  <2> DEFINE wanted == [method |-> "totp", row |-> 0, secret |-> setup.secret, lastStep |-> k]
             base == NewRequest("commit", "totp-confirm")
             l == [base EXCEPT !.epoch = setup.epoch, !.mfa = wanted]
  <2>1. Start(r, l) /\ UNCHANGED <<account, factors, rotation, banning>>
    BY <1>7 DEF ReadsSetup
  <2>2. wanted \in Factor
    BY <1>1, <1>2a, Values DEF Factor
  <2> HIDE DEF wanted
  <2>b. base \in Locals(Points) /\ base.at = "commit" /\ base.kind = "totp-confirm"
    BY <1>2b DEF Kinds
  <2> HIDE DEF base
  <2>3. l \in Locals(Points) /\ l.at = "commit" /\ l.kind = "totp-confirm"
    BY <1>1, <1>2a, <2>b, <2>2, Values DEF Locals
  <2> QED
    BY <1>2, <2>1, <2>3
<1>8. ASSUME NEW kind \in {"disable", "regenerate", "untrust"}, StepUp(r, t, kind) PROVE AccountsInv'
  <2> DEFINE base == NewRequest("verify", kind)
             l == [base EXCEPT !.auth = mfa.method]
  <2>1. Start(r, l) /\ UNCHANGED <<account, factors, rotation, banning>>
    BY <1>8 DEF StepUp
  <2>b. base \in Locals(Points) /\ base.at = "verify" /\ base.kind = kind
    BY <1>2b DEF Kinds
  <2> HIDE DEF base
  <2>2. l \in Locals(Points) /\ l.at = "verify" /\ l.kind = kind
    BY <1>1, <2>b, Values DEF Locals
  <2> QED
    BY <1>2, <2>1, <2>2
<1> QED
  BY <1>3, <1>4, <1>5, <1>6, <1>7, <1>8

LEMMA ResetReadsKeeps ==
  ASSUME AccountsInv, NEW r \in Request, ResetReads(r)
  PROVE  AccountsInv'
<1>1. AccountTypes
  BY DEF AccountsInv
<1> DEFINE base == NewRequest("verify", "reset")
           plain == NewRequest("commit", "reset")
           l == [base EXCEPT !.auth = mfa.method]
<1>2. (Start(r, l) \/ Start(r, plain)) /\ UNCHANGED <<account, factors, rotation, banning>>
  BY DEF ResetReads
<1>3. "verify" \in Points /\ "commit" \in Points /\ "reset" \in Kinds
  BY DEF Points, Kinds
<1>4. /\ base \in Locals(Points) /\ base.at = "verify" /\ base.kind = "reset"
      /\ plain \in Locals(Points) /\ plain.at = "commit" /\ plain.kind = "reset"
  BY <1>3, NoneIsTyped
<1> HIDE DEF base, plain
<1>5. l \in Locals(Points) /\ l.at = "verify" /\ l.kind = "reset"
  BY <1>1, <1>4, Values DEF Locals
<1> HIDE DEF l
<1> QED
  BY <1>2, <1>4, <1>5, PlainStart

\* A local that is somewhere else.
LEMMA Moved ==
  ASSUME NEW l \in Locals(Points) \cup Locals({"challenge"}), NEW at \in Points, LocalOK(l),
         at \notin {"backup", "store"}, at \in {"method", "create"} => l.kind = "login"
  PROVE  LET m == [l EXCEPT !.at = at]
         IN  m \in Locals(Points) /\ m.at = at /\ m.id = l.id /\ m.kind = l.kind /\ LocalOK(m)
<1> DEFINE m == [l EXCEPT !.at = at]
<1>1. /\ m \in Locals(Points) /\ m.at = at /\ m.id = l.id /\ m.kind = l.kind
      /\ m.epoch = l.epoch /\ m.password = l.password /\ m.token = l.token
  BY DEF Locals
<1> HIDE DEF m
<1>2. LocalOK(m)
  BY <1>1 DEF LocalOK
<1> QED
  BY <1>1, <1>2 DEF m

LEMMA LoginReadsKeeps ==
  ASSUME AccountsInv, NEW r \in Request, LoginReads(r)
  PROVE  AccountsInv'
<1>1. AccountTypes
  BY DEF AccountsInv
<1> DEFINE at == IF status = "BANNED" THEN "reconcile" ELSE "method"
           base == NewRequest(at, "login")
           l == [base EXCEPT !.epoch = user.epoch, !.password = user.password]
<1>2. Start(r, l) /\ UNCHANGED <<account, factors, rotation, banning>>
  BY DEF LoginReads
<1>3. at \in Points /\ at \notin {"idle", "store", "backup"} /\ "login" \in Kinds
  BY DEF Points, Kinds
<1> HIDE DEF at
<1>4. base \in Locals(Points) /\ base.at = at /\ base.kind = "login"
  BY <1>3, NoneIsTyped
<1> HIDE DEF base
<1>5. /\ l \in Locals(Points) /\ l.at = at /\ l.kind = "login" /\ l.epoch = user.epoch
      /\ l.password = user.password
  BY <1>1, <1>4, Values DEF Locals
<1>6. user.epoch <= user.epoch
  BY <1>1, Values, AccountsAssumption DEF Sid
<1> HIDE DEF l
<1>7. LocalOK(l)
  BY <1>3, <1>5, <1>6 DEF LocalOK
<1> QED
  BY <1>2, <1>3, <1>5, <1>7, StartKeeps DEF factors

LEMMA ChangeReadsKeeps ==
  ASSUME AccountsInv, NEW r \in Request, NEW t \in issued, ChangeReads(r, t)
  PROVE  AccountsInv'
<1>1. AccountTypes
  BY DEF AccountsInv
<1> DEFINE base == NewRequest("commit", "change")
           l == [base EXCEPT !.password = user.password, !.token = t]
<1>2. Start(r, l) /\ UNCHANGED <<account, factors, rotation, banning>>
  BY DEF ChangeReads
<1>3. "commit" \in Points /\ "change" \in Kinds
  BY DEF Points, Kinds
<1>4. base \in Locals(Points) /\ base.at = "commit" /\ base.kind = "change"
  BY <1>3, NoneIsTyped
<1> HIDE DEF base
<1>5. l \in Locals(Points) /\ l.at = "commit" /\ l.kind = "change" /\ l.token = t
  BY <1>1, <1>4, Values DEF Locals
<1> HIDE DEF l
<1>6. LocalOK(l)
  BY <1>5 DEF LocalOK
<1> QED
  BY <1>2, <1>5, <1>6, StartKeeps DEF factors

LEMMA ClaimKeeps ==
  ASSUME AccountsInv, NEW r \in Request, NEW c \in challenges, ClaimChallenge(r, c)
  PROVE  AccountsInv'
<1>1. AccountTypes /\ LocalInv
  BY DEF AccountsInv
<1>2. c \in Locals({"challenge"}) /\ LocalOK(c)
  BY <1>1 DEF AccountTypes, LocalInv
<1> DEFINE l == [c EXCEPT !.at = "verify"]
<1>3. Start(r, l) /\ challenges' \subseteq challenges
      /\ UNCHANGED <<account, mfa, backup, devices, setup, spent, clock, rotation, banning>>
  BY DEF ClaimChallenge
<1>4. l \in Locals(Points) /\ l.at = "verify" /\ LocalOK(l)
  BY <1>2, Moved DEF Points
<1> HIDE DEF l
<1> QED
  BY <1>3, <1>4, StartKeeps

\* A request that is under way, and what it has read.
LEMMA UnderWay ==
  ASSUME AccountsInv, NEW r \in Request
  PROVE  /\ AccountTypes /\ RestOK /\ req[r] \in Locals(Points) /\ LocalOK(req[r])
         /\ Active(r) <=> req[r].at # "idle"
<1>1. AccountTypes /\ LocalInv
  BY DEF AccountsInv
<1> QED
  BY <1>1, RestIs, Local DEF LocalInv, Active

\* It moves on, and nothing else does.
LEMMA StepKeeps ==
  ASSUME AccountsInv, NEW r \in Request, NEW at \in Points,
         req[r].at \notin {"idle", "store"}, at \notin {"idle", "store", "backup"}, Step(r, at),
         at \in {"method", "create"} => req[r].kind = "login",
         RestOK', started' = started,
         UNCHANGED <<user, sessions, issued, closed, status, mfa, backup, spent>>,
         challenges' \subseteq challenges
  PROVE  AccountsInv'
<1>1. req[r] \in Locals(Points) /\ LocalOK(req[r]) /\ Active(r)
  BY UnderWay
<1> DEFINE l == [req[r] EXCEPT !.at = at]
<1>2. l \in Locals(Points) /\ l.at = at /\ l.id = req[r].id /\ LocalOK(l)
  BY <1>1, Moved
<1>3. Becomes(r, l)
  BY DEF Step
<1> HIDE DEF l
<1> QED
  BY <1>1, <1>2, <1>3, GoKeeps

\* The challenge that a login leaves or gets back.
LEMMA ChallengeLeft ==
  ASSUME AccountsInv, NEW r \in Request, NEW auth \in {"none", "email", "totp", "device"}
  PROVE  /\ [req[r] EXCEPT !.at = "challenge", !.auth = auth] \in Locals({"challenge"})
         /\ LocalOK([req[r] EXCEPT !.at = "challenge", !.auth = auth])
         /\ [req[r] EXCEPT !.at = "challenge", !.mfa = NoMfa] \in Locals({"challenge"})
         /\ LocalOK([req[r] EXCEPT !.at = "challenge", !.mfa = NoMfa])
<1>1. req[r] \in Locals(Points) /\ LocalOK(req[r])
  BY UnderWay
<1> DEFINE l == [req[r] EXCEPT !.at = "challenge", !.auth = auth]
           m == [req[r] EXCEPT !.at = "challenge", !.mfa = NoMfa]
<1>2. /\ l \in Locals({"challenge"}) /\ l.at = "challenge" /\ l.kind = req[r].kind
      /\ l.epoch = req[r].epoch /\ l.password = req[r].password /\ l.token = req[r].token
  BY <1>1 DEF Locals
<1>3. NoMfa \in Factor
  BY NoneIsTyped
<1>4. /\ m \in Locals({"challenge"}) /\ m.at = "challenge" /\ m.kind = req[r].kind
      /\ m.epoch = req[r].epoch /\ m.password = req[r].password /\ m.token = req[r].token
  BY <1>1, <1>3 DEF Locals
<1> HIDE DEF l, m
<1>5. LocalOK(l) /\ LocalOK(m)
  BY <1>1, <1>2, <1>4 DEF LocalOK
<1> QED
  BY <1>2, <1>4, <1>5 DEF l, m

LEMMA LoginMethodKeeps ==
  ASSUME AccountsInv, NEW r \in Request, LoginMethod(r)
  PROVE  AccountsInv'
<1>1. AccountTypes /\ RestOK /\ req[r] \in Locals(Points) /\ LocalOK(req[r]) /\ Active(r)
      /\ req[r].at = "method"
  BY UnderWay DEF LoginMethod
<1>2. /\ UNCHANGED <<user, sessions, issued, closed, status, mfa, backup, spent>>
      /\ started' = started /\ UNCHANGED <<devices, setup, clock, cache, lock>>
  BY DEF LoginMethod, account, rotation, banning
<1>3. CASE Step(r, "create") /\ UNCHANGED challenges
  <2>1. RestOK'
    BY <1>1, <1>2, <1>3 DEF RestOK
  <2> QED
    <3>1. req[r].kind = "login" /\ "create" \in Points
      BY <1>1 DEF LocalOK, Points
    <3> QED
      BY <1>1, <1>2, <1>3, <2>1, <3>1, StepKeeps
<1>4. ASSUME NEW d \in devices,
             Becomes(r, [req[r] EXCEPT !.at = "create", !.auth = "device", !.seen = {d}]),
             UNCHANGED challenges
      PROVE  AccountsInv'
  <2> DEFINE l == [req[r] EXCEPT !.at = "create", !.auth = "device", !.seen = {d}]
  <2>1. {d} \in SUBSET (0 .. MaxRequests + 1)
    BY <1>1, AccountsAssumption DEF RestOK, Sid
  <2>2. /\ l \in Locals(Points) /\ l.at = "create" /\ l.id = req[r].id /\ l.kind = req[r].kind
        /\ l.epoch = req[r].epoch /\ l.password = req[r].password /\ l.token = req[r].token
    BY <1>1, <2>1 DEF Locals, Points
  <2> HIDE DEF l
  <2>3. LocalOK(l)
    BY <1>1, <2>2 DEF LocalOK
  <2>4. RestOK'
    BY <1>1, <1>2, <1>4 DEF RestOK
  <2> QED
    BY <1>1, <1>2, <1>4, <2>2, <2>3, <2>4, GoKeeps DEF l
<1>5. CASE /\ challenges' = challenges \cup {[req[r] EXCEPT !.at = "challenge", !.auth = mfa.method]}
           /\ Done(r)
  <2> DEFINE c == [req[r] EXCEPT !.at = "challenge", !.auth = mfa.method]
  <2>1. mfa.method \in {"none", "email", "totp", "device"}
    BY <1>1, Values
  <2>2. c \in Locals({"challenge"}) /\ LocalOK(c)
    BY <2>1, ChallengeLeft
  <2>3. challenges' = challenges \cup {c}
    BY <1>5
  <2> HIDE DEF c
  <2>4. RestOK'
    BY <1>1, <1>2, <2>2, <2>3 DEF RestOK
  <2> QED
    BY <1>1, <1>2, <1>5, <2>2, <2>3, <2>4, DoneKeeps
<1> QED
  BY <1>3, <1>4, <1>5 DEF LoginMethod

\* A refused second factor leaves a challenge at most.
LEMMA RefusedKeeps ==
  ASSUME AccountsInv, NEW r \in Request, req[r].at # "idle", Refused(r),
         UNCHANGED <<account, mfa, backup, devices, setup, spent, clock, rotation, banning, started>>
  PROVE  AccountsInv'
<1>1. AccountTypes /\ RestOK /\ Active(r)
  BY UnderWay
<1>2. /\ UNCHANGED <<user, sessions, issued, closed, status, mfa, backup, spent>>
      /\ started' = started /\ UNCHANGED <<devices, setup, clock, cache, lock>>
  BY DEF account, rotation, banning
<1> DEFINE c == [req[r] EXCEPT !.at = "challenge", !.mfa = NoMfa]
<1>3. c \in Locals({"challenge"}) /\ LocalOK(c)
  BY ChallengeLeft
<1>4. Done(r) /\ (challenges' = challenges \cup {c} \/ challenges' = challenges)
  BY DEF Refused
<1> HIDE DEF c
<1>5. RestOK'
  BY <1>1, <1>2, <1>3, <1>4 DEF RestOK
<1> QED
  BY <1>1, <1>2, <1>3, <1>4, <1>5, DoneKeeps

LEMMA VerifyReadsKeeps ==
  ASSUME AccountsInv, NEW r \in Request, VerifyReads(r)
  PROVE  AccountsInv'
<1>1. AccountTypes /\ RestOK /\ req[r] \in Locals(Points) /\ LocalOK(req[r]) /\ Active(r)
      /\ req[r].at = "verify"
  BY UnderWay DEF VerifyReads
<1>2. UNCHANGED <<account, mfa, backup, devices, setup, spent, clock, rotation, banning, started>>
  BY DEF VerifyReads
<1>3. CASE Refused(r)
  BY <1>1, <1>2, <1>3, RefusedKeeps
<1>4. CASE Becomes(r, [req[r] EXCEPT !.at = "spend", !.mfa = mfa]) /\ UNCHANGED challenges
  <2> DEFINE l == [req[r] EXCEPT !.at = "spend", !.mfa = mfa]
  <2>1. /\ l \in Locals(Points) /\ l.at = "spend" /\ l.id = req[r].id /\ l.kind = req[r].kind
        /\ l.epoch = req[r].epoch /\ l.password = req[r].password /\ l.token = req[r].token
    BY <1>1, Values DEF Locals, Points
  <2> HIDE DEF l
  <2>2. LocalOK(l)
    BY <1>1, <2>1 DEF LocalOK
  <2>3. RestOK' /\ started' = started /\ challenges' = challenges
        /\ UNCHANGED <<user, sessions, issued, closed, status, mfa, backup, spent>>
    BY <1>1, <1>2, <1>4 DEF RestOK, account, rotation, banning
  <2> QED
    BY <1>1, <1>4, <2>1, <2>2, <2>3, GoKeeps DEF l
<1> QED
  BY <1>3, <1>4 DEF VerifyReads

LEMMA ReadBackupKeeps ==
  ASSUME AccountsInv, NEW r \in Request, ReadBackupCode(r)
  PROVE  AccountsInv'
<1>1. AccountTypes /\ RestOK /\ req[r] \in Locals(Points) /\ LocalOK(req[r]) /\ Active(r)
      /\ req[r].at = "spend" /\ backup # 0
  BY UnderWay DEF ReadBackupCode
<1> DEFINE l == [req[r] EXCEPT !.at = "backup", !.seen = {backup}]
<1>2. Becomes(r, l) /\ UNCHANGED <<account, factors, rotation, banning, started>>
  BY DEF ReadBackupCode
<1>3. backup \in 1 .. MaxRequests + 1 /\ {backup} \in SUBSET (0 .. MaxRequests + 1)
  BY <1>1, Values, AccountsAssumption
<1>4. /\ l \in Locals(Points) /\ l.at = "backup" /\ l.id = req[r].id /\ l.kind = req[r].kind
      /\ l.epoch = req[r].epoch /\ l.password = req[r].password /\ l.token = req[r].token
      /\ l.seen = {backup}
  BY <1>1, <1>3 DEF Locals, Points
<1> HIDE DEF l
<1>5. LocalOK(l)
  BY <1>1, <1>3, <1>4 DEF LocalOK
<1>6. RestOK' /\ started' = started /\ challenges' = challenges
      /\ UNCHANGED <<user, sessions, issued, closed, status, mfa, backup, spent>>
  BY <1>1, <1>2 DEF RestOK, account, factors, rotation, banning
<1> QED
  BY <1>1, <1>2, <1>4, <1>5, <1>6, GoKeeps

LEMMA MailedKeeps ==
  ASSUME AccountsInv, NEW r \in Request, SpendMailedCode(r)
  PROVE  AccountsInv'
<1>1. AccountTypes /\ RestOK /\ req[r].at = "spend"
  BY UnderWay DEF SpendMailedCode
<1>2. UNCHANGED <<account, mfa, backup, devices, setup, spent, clock, rotation, banning, started>>
  BY DEF SpendMailedCode
<1>3. CASE Refused(r)
  BY <1>1, <1>2, <1>3, RefusedKeeps
<1>4. CASE Step(r, After(req[r].kind)) /\ UNCHANGED challenges
  <2>1. /\ After(req[r].kind) \in {"create", "commit"}
        /\ After(req[r].kind) = "create" => req[r].kind = "login"
    BY DEF After
  <2>2. RestOK' /\ started' = started /\ challenges' = challenges
        /\ UNCHANGED <<user, sessions, issued, closed, status, mfa, backup, spent>>
    BY <1>1, <1>2, <1>4 DEF RestOK, account, rotation, banning
  <2> HIDE DEF After
  <2> QED
    BY <1>1, <1>4, <2>1, <2>2, StepKeeps DEF Points
<1> QED
  BY <1>3, <1>4 DEF SpendMailedCode

\* A request that ends without a trace; a rotation's answer may be lost with it.
LEMMA EndKeeps ==
  ASSUME AccountsInv, NEW r \in Request, req[r].at # "idle", Done(r),
         lock' \subseteq lock, UNCHANGED <<account, factors, cache, banning, started>>
  PROVE  AccountsInv'
<1>1. RestOK /\ Active(r)
  BY UnderWay
<1>2. RestOK' /\ started' = started /\ challenges' = challenges
      /\ UNCHANGED <<user, sessions, issued, closed, status, mfa, backup, spent>>
  BY <1>1 DEF RestOK, account, factors, banning
<1> QED
  BY <1>1, <1>2, DoneKeeps

LEMMA RefreshKeeps ==
  ASSUME AccountsInv, NEW r \in Request,
         RefreshCached(r) \/ RefreshLock(r) \/ RefreshWait(r) \/ Abandon(r)
  PROVE  AccountsInv'
<1>1. AccountTypes /\ RestOK /\ req[r] \in Locals(Points)
  BY UnderWay
<1>2. req[r].at # "idle" /\ UNCHANGED <<account, factors, cache, banning, started>>
  BY DEF RefreshCached, RefreshLock, RefreshWait, Abandon, rotation
<1>3. CASE Done(r) /\ UNCHANGED lock
  BY <1>2, <1>3, EndKeeps
<1>4. ASSUME req[r].at \in {"cached", "lock"}, NEW at \in {"lock", "rotate", "wait"}, Step(r, at),
             lock' = lock \/ lock' = lock \cup {<<req[r].token, r>>}
      PROVE  AccountsInv'
  <2>1. req[r].token \in Token
    BY <1>1 DEF Locals
  <2>2. lock' \subseteq Token \X Request
    BY <1>1, <1>4, <2>1 DEF RestOK
  <2>3. RestOK' /\ started' = started /\ challenges' = challenges
        /\ UNCHANGED <<user, sessions, issued, closed, status, mfa, backup, spent>>
    BY <1>1, <1>2, <2>2 DEF RestOK, account, factors, banning
  <2> QED
    BY <1>4, <2>3, StepKeeps DEF Points
<1>5. CASE RefreshCached(r)
  <2>1. req[r].at = "cached" /\ UNCHANGED lock /\ (Done(r) \/ Step(r, "lock"))
    BY <1>5 DEF RefreshCached, rotation
  <2> QED
    BY <1>3, <1>4, <2>1
<1>6. CASE RefreshLock(r)
  BY <1>4, <1>6 DEF RefreshLock
<1>7. CASE RefreshWait(r) \/ Abandon(r)
  BY <1>3, <1>7 DEF RefreshWait, Abandon, rotation
<1> QED
  BY <1>5, <1>6, <1>7

\* The steps of no request that leave sessions and factors alone.
LEMMA ForgottenKeeps ==
  ASSUME AccountsInv, RotationForgotten \/ FactorForgotten \/ NextStep
  PROVE  AccountsInv'
<1>1. AccountTypes /\ IdsInv /\ RestOK
  BY RestIs DEF AccountsInv
<1>2. /\ UNCHANGED <<user, sessions, issued, closed, status, mfa, backup, spent>>
      /\ started' = started /\ req' = req /\ challenges' \subseteq challenges
  BY DEF RotationForgotten, FactorForgotten, NextStep, account, factors, banning
<1>3. RestOK'
  <2>1. devices' \subseteq devices /\ cache' \subseteq cache /\ lock' \subseteq lock
        /\ (setup' = setup \/ setup' = NoSetup) /\ (clock' = clock \/ clock' = clock + 1)
    BY DEF RotationForgotten, FactorForgotten, NextStep, account, factors, rotation
  <2> QED
    BY <1>1, <1>2, <2>1, NoneIsTyped DEF RestOK
<1>4. AccountTypes'
  BY <1>1, <1>2, <1>3, QuietTypes DEF AccountTypes
<1>5. IdsInv' /\ Used \subseteq Used'
  BY <1>1, <1>2 DEF IdsInv, Active, Used
<1> DEFINE R == {}
<1>6. R \in SUBSET Request /\ \A q \in Request \ R : req'[q] = req[q]
  BY <1>2
<1>7. \A q \in R : LocalOK(req[q])'
  OBVIOUS
<1> HIDE DEF R
<1> QED
  BY <1>2, <1>4, <1>5, <1>6, <1>7, QuietKeeps

-----------------------------------------------------------------------------
(* Steps that only close sessions.                                           *)

\* Row y is what is left of row x.
Weaker(x, y) ==
  y.kind = "row" =>
    /\ x.kind = "row" /\ y.token = x.token /\ y.password = x.password
    /\ y.under = x.under /\ y.auth = x.auth
    /\ x.revoked => y.revoked

RowsOf(f) == f \in [Sid -> Row \cup {NoRow}] /\ \A s \in Sid : f[s].kind = "row" => f[s].token.sid = s

LEMMA Typed ==
  ASSUME RestOK', req' \in [Request -> Locals(Points)], RowsOf(sessions'),
         user' \in [epoch : Sid, password : Sid], issued' \subseteq Token, closed' \subseteq Sid,
         status' \in {"ACTIVE", "BANNED", "DELETED"}, mfa' \in Factor,
         backup' \in 0 .. MaxRequests + 1, spent' \subseteq Spending \X Nat
  PROVE  AccountTypes'
<1>1. \A r \in Request : req'[r].at \in Points
  BY DEF Locals
<1>2. \A s \in Sid : sessions'[s] # NoRow => sessions'[s] \in Row /\ sessions'[s].token.sid = s
  <2>1. \A x \in Row : x.kind = "row"
    BY DEF Row
  <2>2. \A s \in Sid : sessions'[s] \in Row \cup {NoRow}
    BY DEF RowsOf
  <2> QED
    BY <2>1, <2>2 DEF RowsOf
<1>3. mfa'.method \in {"none", "email", "totp"}
  BY DEF Factor
<1>4. AccountsTypeOK'
  BY <1>1, <1>2, <1>3 DEF AccountsTypeOK, RestOK, Points, Sid
<1> QED
  BY <1>4 DEF AccountTypes, RestOK, RowsOf

LEMMA TypesAre ==
  ASSUME AccountTypes
  PROVE  /\ RestOK /\ req \in [Request -> Locals(Points)] /\ RowsOf(sessions)
         /\ user \in [epoch : Sid, password : Sid] /\ issued \subseteq Token /\ closed \subseteq Sid
         /\ status \in {"ACTIVE", "BANNED", "DELETED"} /\ mfa \in Factor
         /\ backup \in 0 .. MaxRequests + 1 /\ spent \subseteq Spending \X Nat
<1>1. RowsOf(sessions)
  <2>1. \A s \in Sid : sessions[s].kind = "row" => sessions[s].token.sid = s
    BY Rows DEF AccountTypes, AccountsTypeOK
  <2> QED
    BY <2>1 DEF AccountTypes, RowsOf
<1> QED
  BY <1>1, RestIs DEF AccountTypes, AccountsTypeOK, Sid

LEMMA WeakerSessions ==
  ASSUME AccountTypes, AccountTypes', EpochInv, SessionInv, Used \subseteq Used',
         \A s \in Sid : Weaker(sessions[s], sessions'[s]),
         user'.epoch > user.epoch \/ user' = user,
         user'.password <= user'.epoch, user'.epoch <= Cardinality(Used'),
         \A s \in Sid : Live(s)' => user' = user /\ sessions'[s].token.fam \notin closed',
         issued \subseteq issued', \A t \in issued' : t \in issued \/ InFamily(t),
         closed' \subseteq Old', NoSessionOutlivesTheAccount'
  PROVE  EpochInv' /\ SessionInv' /\ Later
<1>1. /\ Cardinality(Used) <= Cardinality(Used') /\ Old \subseteq Old'
      /\ Cardinality(Used') \in 0 .. MaxRequests /\ Cardinality(Used) \in 0 .. MaxRequests
  BY Counting DEF AccountTypes, AccountsTypeOK
<1>2. \A s \in Sid : sessions'[s].kind = "row" =>
        /\ sessions[s].kind = "row" /\ sessions'[s].token = sessions[s].token
        /\ sessions'[s].password = sessions[s].password
        /\ sessions'[s].under = sessions[s].under /\ sessions'[s].auth = sessions[s].auth
  BY DEF Weaker
<1>3. \A s \in Sid : Live(s)' => Live(s)
  BY DEF Weaker, Live
<1>4. EpochInv'
  <2>1. \A s \in Sid : sessions[s].kind = "row" => sessions[s].token.gen \in Int
    BY Rows, AccountsAssumption DEF Row, Token
  <2> QED
    BY <1>1, <1>2, <2>1 DEF EpochInv
<1>5. Old \subseteq Sid
  BY UsedCounts DEF AccountTypes, AccountsTypeOK
<1>6. Later
  BY <1>1, <1>2, <1>5 DEF Later
<1>7. \A s \in Sid : sessions'[s].kind = "row" =>
        s \in Old' /\ sessions'[s].token.sid = s /\ sessions'[s].token.fam \in Old'
  BY <1>1, <1>2 DEF SessionInv
<1>8. \A s \in Sid : Live(s)' => sessions'[s].password = user'.password
  BY <1>2, <1>3 DEF SessionInv, Live
<1>9. \A t \in issued' : InFamily(t)'
  <2>1. \A t \in issued' : InFamily(t)
    BY DEF SessionInv
  <2> QED
    BY <1>6, <2>1, FamilyLater DEF InFamily
<1>10. ClosedFamiliesStayClosed'
  BY DEF ClosedFamiliesStayClosed
<1>11. OneSessionPerFamily'
  BY <1>2, <1>3 DEF SessionInv, OneSessionPerFamily, Live
<1>12. NobodyInsideWithoutTheFactor'
  BY <1>2 DEF SessionInv, NobodyInsideWithoutTheFactor
<1> QED
  BY <1>4, <1>6, <1>7, <1>8, <1>9, <1>10, <1>11, <1>12 DEF SessionInv

\* A step that closes sessions of the same account, and what the requests make of it.
LEMMA ClosingKeeps ==
  ASSUME AccountsInv, NEW R \in SUBSET Request, IdsInv', Used \subseteq Used', RestOK',
         req' \in [Request -> Locals(Points)], \A q \in Request \ R : req'[q] = req[q],
         \A q \in R : LocalOK(req[q])',
         UNCHANGED <<user, issued, mfa, backup, spent>>, challenges' \subseteq challenges,
         status' \in {"ACTIVE", "BANNED", "DELETED"},
         RowsOf(sessions'), \A s \in Sid : Weaker(sessions[s], sessions'[s]),
         closed' \subseteq Old',
         \A s \in Sid : Live(s)' => sessions'[s].token.fam \notin closed',
         NoSessionOutlivesTheAccount'
  PROVE  AccountsInv'
<1>1. AccountTypes /\ LocalInv /\ EpochInv /\ SessionInv /\ SpentInv
  BY DEF AccountsInv
<1>2. started' \in 0 .. MaxRequests /\ Old' \subseteq Sid
  <2>1. started' \in 0 .. MaxRequests
    BY DEF RestOK
  <2>2. 1 .. started' \subseteq Sid /\ 0 \in Sid
    BY <2>1, AccountsAssumption DEF Sid
  <2> QED
    BY <2>1, <2>2 DEF Old, Used
<1>3. AccountTypes'
  BY <1>1, <1>2, Typed, TypesAre
<1>4. user'.password <= user'.epoch /\ user'.epoch <= Cardinality(Used')
  <2>1. /\ Cardinality(Used) <= Cardinality(Used')
        /\ Cardinality(Used') \in 0 .. MaxRequests /\ Cardinality(Used) \in 0 .. MaxRequests
    BY <1>1, <1>2, Counting DEF AccountTypes, AccountsTypeOK
  <2>2. user.epoch \in Int
    BY <1>1, Values, AccountsAssumption DEF Sid
  <2> QED
    BY <1>1, <2>1, <2>2 DEF EpochInv
<1>5. EpochInv' /\ SessionInv' /\ Later
  BY <1>1, <1>3, <1>4, WeakerSessions
<1>6. LocalInv'
  BY <1>1, <1>3, <1>5, LocalsLater
<1>7. SpentInv'
  BY <1>1, <1>3, SpentStands
<1> QED
  BY <1>3, <1>5, <1>6, <1>7 DEF AccountsInv

\* A row that stays, is revoked, expires or goes is weaker.
LEMMA WeakerRows ==
  ASSUME NEW x \in Row \cup {NoRow}
  PROVE  /\ Weaker(x, x) /\ Weaker(x, NoRow) /\ NoRow.kind # "row"
         /\ x \in Row => /\ Weaker(x, [x EXCEPT !.revoked = TRUE])
                         /\ Weaker(x, [x EXCEPT !.expired = TRUE])
<1>1. NoRow.kind = "none"
  BY DEF NoRow
<1>2. Weaker(x, x) /\ Weaker(x, NoRow) /\ NoRow.kind # "row"
  BY <1>1 DEF Weaker
<1>3. ASSUME x \in Row
      PROVE  Weaker(x, [x EXCEPT !.revoked = TRUE]) /\ Weaker(x, [x EXCEPT !.expired = TRUE])
  <2>1. x.kind = "row"
    BY <1>3 DEF Row
  <2> DEFINE y == [x EXCEPT !.revoked = TRUE]
             z == [x EXCEPT !.expired = TRUE]
  <2>2. /\ y.token = x.token /\ y.password = x.password /\ y.under = x.under
        /\ y.auth = x.auth /\ y.kind = "row" /\ y.revoked
    BY <1>3, RevokedRow
  <2>3. /\ z.token = x.token /\ z.password = x.password /\ z.under = x.under
        /\ z.auth = x.auth /\ z.kind = "row"
        /\ z.revoked <=> x.revoked
    BY <1>3, ExpiredRow
  <2> HIDE DEF y, z
  <2>4. Weaker(x, y)
    BY <2>1, <2>2, Zenon DEF Weaker
  <2>5. Weaker(x, z)
    BY <2>1, <2>3, Zenon DEF Weaker
  <2> QED
    BY <2>4, <2>5 DEF y, z
<1> QED
  BY <1>2, <1>3

\* Sessions that are revoked together.
LEMMA Revoking ==
  ASSUME AccountTypes, NEW S
  PROVE  /\ RowsOf(RevokedBy(S))
         /\ \A s \in Sid : /\ Weaker(sessions[s], RevokedBy(S)[s])
                           /\ RevokedBy(S)[s].kind = sessions[s].kind
                           /\ RevokedBy(S)[s].kind = "row" => RevokedBy(S)[s].token = sessions[s].token
                           /\ s \in S /\ RevokedBy(S)[s].kind = "row" => RevokedBy(S)[s].revoked
                           /\ s \notin S => RevokedBy(S)[s] = sessions[s]
<1> DEFINE f == RevokedBy(S)
<1>1. \A s \in Sid : f[s] = IF s \in S /\ sessions[s].kind = "row"
                            THEN [sessions[s] EXCEPT !.revoked = TRUE] ELSE sessions[s]
  BY DEF RevokedBy
<1>2. f = [s \in Sid |-> f[s]]
  BY DEF RevokedBy
<1> HIDE DEF f
<1>3. ASSUME NEW s \in Sid
      PROVE  /\ f[s] \in Row \cup {NoRow} /\ Weaker(sessions[s], f[s])
             /\ f[s].kind = sessions[s].kind
             /\ f[s].kind = "row" => f[s].token = sessions[s].token
             /\ s \in S /\ f[s].kind = "row" => f[s].revoked
             /\ s \notin S => f[s] = sessions[s]
             /\ f[s].kind = "row" => f[s].token.sid = s
  <2>1. /\ sessions[s] \in Row \cup {NoRow}
        /\ sessions[s].kind = "row" <=> sessions[s] \in Row
        /\ sessions[s].kind = "row" => sessions[s].token.sid = s
    BY Rows, TypesAre DEF RowsOf
  <2> DEFINE x == sessions[s]
             y == [x EXCEPT !.revoked = TRUE]
  <2>2. CASE s \in S /\ x.kind = "row"
    <3>1. f[s] = y /\ x \in Row
      BY <1>1, <2>1, <2>2
    <3>2. y \in Row /\ y.token = x.token /\ y.kind = "row" /\ y.revoked
      BY <3>1, RevokedRow
    <3>3. Weaker(x, y)
      BY <3>1, WeakerRows
    <3> HIDE DEF y
    <3>4. f[s].revoked
      BY <3>1, <3>2, Zenon
    <3> QED
      BY <2>1, <2>2, <3>1, <3>2, <3>3, <3>4
  <2>3. CASE ~ (s \in S /\ x.kind = "row")
    <3>1. f[s] = x
      BY <1>1, <2>3
    <3>2. Weaker(x, x)
      BY <2>1, WeakerRows
    <3> QED
      BY <2>1, <2>3, <3>1, <3>2
  <2> QED
    BY <2>2, <2>3
<1>4. RowsOf(f)
  BY <1>2, <1>3 DEF RowsOf
<1> QED
  BY <1>3, <1>4 DEF f

\* The sessions that a new status leaves.
LEMMA Keeping ==
  ASSUME AccountTypes, SessionInv, NEW new \in {"ACTIVE", "BANNED", status}
  PROVE  /\ RowsOf(KeptBy(new)) /\ \A s \in Sid : Weaker(sessions[s], KeptBy(new)[s])
         /\ \A s \in Sid : KeptBy(new)[s] = sessions[s] \/ KeptBy(new)[s] = NoRow
         /\ new # "ACTIVE" => \A s \in Sid : KeptBy(new)[s] = NoRow
<1> DEFINE f == KeptBy(new)
           none == [s \in Sid |-> NoRow]
<1>1. RowsOf(none) /\ \A s \in Sid : none[s] = NoRow
  <2>1. NoRow.kind # "row"
    BY DEF NoRow
  <2> QED
    BY <2>1 DEF RowsOf
<1>2. RowsOf(sessions) /\ (status # "ACTIVE" => \A s \in Sid : sessions[s] = NoRow)
  BY TypesAre DEF SessionInv, NoSessionOutlivesTheAccount
<1>3. /\ f = none \/ f = sessions
      /\ new = "BANNED" /\ status # "BANNED" => f = none
  BY DEF KeptBy
<1> HIDE DEF f, none
<1>4. RowsOf(f) /\ \A s \in Sid : f[s] = sessions[s] \/ f[s] = NoRow
  BY <1>1, <1>2, <1>3
<1>5. \A s \in Sid : Weaker(sessions[s], f[s])
  BY <1>2, <1>4, WeakerRows DEF RowsOf
<1>6. new # "ACTIVE" => \A s \in Sid : f[s] = NoRow
  BY <1>1, <1>2, <1>3
<1> QED
  BY <1>4, <1>5, <1>6 DEF f

\* What is known before sessions are closed.
LEMMA BeforeClosing ==
  ASSUME AccountsInv
  PROVE  /\ AccountTypes /\ RestOK /\ RowsOf(sessions) /\ IdsInv /\ SessionInv
         /\ req \in [Request -> Locals(Points)] /\ closed \subseteq Old /\ Old \subseteq Sid
         /\ \A s \in Sid : Live(s) => sessions[s].token.fam \notin closed
         /\ status # "ACTIVE" => \A s \in Sid : sessions[s] = NoRow
         /\ \A s \in Sid : sessions[s] \in Row \cup {NoRow}
         /\ started \in 0 .. MaxRequests
<1>1. AccountTypes /\ IdsInv /\ SessionInv /\ RestOK /\ started \in 0 .. MaxRequests
  BY RestIs DEF AccountsInv, RestOK
<1>2. Old \subseteq Sid
  BY <1>1, UsedCounts
<1> QED
  BY <1>1, <1>2, TypesAre
     DEF SessionInv, NoSessionOutlivesTheAccount, ClosedFamiliesStayClosed, RowsOf

\* Sessions are closed, and the requests go on as they were.
LEMMA CloseQuietly ==
  ASSUME AccountsInv, started' = started, req' = req,
         UNCHANGED <<user, issued, closed, factors, rotation>>,
         status' \in {"ACTIVE", "BANNED", "DELETED"},
         RowsOf(sessions'), \A s \in Sid : Weaker(sessions[s], sessions'[s]),
         NoSessionOutlivesTheAccount'
  PROVE  AccountsInv'
<1>1. AccountTypes /\ RestOK /\ IdsInv /\ closed \subseteq Old
      /\ req \in [Request -> Locals(Points)]
      /\ \A s \in Sid : Live(s) => sessions[s].token.fam \notin closed
  BY BeforeClosing
<1>2. RestOK' /\ IdsInv' /\ Used' = Used /\ Old' = Old
  BY <1>1 DEF RestOK, factors, rotation, IdsInv, Active, Used, Old
<1>3. \A s \in Sid : Live(s)' => sessions'[s].token.fam \notin closed'
  BY <1>1 DEF Weaker, Live
<1> DEFINE R == {}
<1>4. R \in SUBSET Request /\ \A q \in Request \ R : req'[q] = req[q]
  OBVIOUS
<1>5. \A q \in R : LocalOK(req[q])'
  OBVIOUS
<1>6. UNCHANGED <<user, issued, mfa, backup, spent>> /\ challenges' \subseteq challenges
      /\ closed' \subseteq Old' /\ req' \in [Request -> Locals(Points)] /\ Used \subseteq Used'
  BY <1>1, <1>2 DEF factors
<1> HIDE DEF R
<1> QED
  BY <1>2, <1>3, <1>4, <1>5, <1>6, ClosingKeeps

LEMMA BanKeeps ==
  ASSUME AccountsInv, BanStep
  PROVE  AccountsInv'
<1>1. AccountTypes /\ SessionInv
  BY BeforeClosing
<1>2. status' \in {"ACTIVE", "BANNED", status} /\ status \in {"ACTIVE", "BANNED", "DELETED"}
  BY <1>1, TypesAre DEF BanStep, SanctionsStep, RunScheduledReconciliation, ReconcileUserStatus,
                        ApplyBan, RevokeBan, BanTurns
<1>3. sessions' = KeptBy(status') /\ started' = started /\ req' = req
      /\ UNCHANGED <<user, issued, closed, factors, rotation>>
  BY DEF BanStep
<1> DEFINE new == status'
<1>4. new \in {"ACTIVE", "BANNED", status} /\ sessions' = KeptBy(new)
  BY <1>2, <1>3
<1> HIDE DEF new
<1>5. /\ RowsOf(sessions') /\ \A s \in Sid : Weaker(sessions[s], sessions'[s])
      /\ new # "ACTIVE" => \A s \in Sid : sessions'[s] = NoRow
  BY <1>1, <1>4, Keeping
<1>6. NoSessionOutlivesTheAccount'
  BY <1>5 DEF NoSessionOutlivesTheAccount, new
<1> QED
  BY <1>2, <1>3, <1>5, <1>6, CloseQuietly

LEMMA RevokeSessionKeeps ==
  ASSUME AccountsInv, NEW t \in issued, NEW s \in Sid, RevokeSession(t, s)
  PROVE  AccountsInv'
<1>1. AccountTypes /\ SessionInv /\ status \in {"ACTIVE", "BANNED", "DELETED"}
  BY BeforeClosing, TypesAre
<1>2. sessions' = RevokedBy({s}) /\ status' = status /\ started' = started /\ req' = req
      /\ UNCHANGED <<user, issued, closed, factors, rotation>> /\ status = "ACTIVE"
  BY DEF RevokeSession, banning, Usable
<1>3. RowsOf(sessions') /\ \A u \in Sid : Weaker(sessions[u], sessions'[u])
  BY <1>1, <1>2, Revoking
<1>4. NoSessionOutlivesTheAccount'
  BY <1>2 DEF NoSessionOutlivesTheAccount
<1> QED
  BY <1>1, <1>2, <1>3, <1>4, CloseQuietly

LEMMA ExpireKeeps ==
  ASSUME AccountsInv, NEW s \in Sid, SessionExpires(s) \/ DeleteExpiredSession(s)
  PROVE  AccountsInv'
<1>1. AccountTypes /\ SessionInv /\ RowsOf(sessions) /\ status \in {"ACTIVE", "BANNED", "DELETED"}
      /\ \A u \in Sid : sessions[u] \in Row \cup {NoRow}
  BY BeforeClosing, TypesAre
<1> DEFINE x == sessions[s]
           z == [x EXCEPT !.expired = TRUE]
<1>2. x.kind = "row" /\ x \in Row
  BY Rows, <1>1 DEF SessionExpires, DeleteExpiredSession
<1>3. status' = status /\ started' = started /\ req' = req
      /\ UNCHANGED <<user, issued, closed, factors, rotation>>
  BY DEF SessionExpires, DeleteExpiredSession, banning
<1>4. sessions' = [sessions EXCEPT ![s] = z] \/ sessions' = [sessions EXCEPT ![s] = NoRow]
  BY DEF SessionExpires, DeleteExpiredSession
<1>5. z \in Row /\ z.token = x.token /\ Weaker(x, z) /\ Weaker(x, NoRow) /\ NoRow.kind # "row"
  BY <1>2, ExpiredRow, WeakerRows
<1>6. status = "ACTIVE"
  <2>1. NoRow.kind # "row"
    BY <1>5
  <2> QED
    BY <1>1, <1>2, <2>1 DEF SessionInv, NoSessionOutlivesTheAccount
<1> HIDE DEF z
<1>7. sessions' \in [Sid -> Row \cup {NoRow}] /\ (sessions'[s] = z \/ sessions'[s] = NoRow)
      /\ \A u \in Sid : u # s => sessions'[u] = sessions[u]
  BY <1>1, <1>4, <1>5 DEF RowsOf
<1>8. \A u \in Sid : Weaker(sessions[u], sessions'[u])
  BY <1>1, <1>5, <1>7, WeakerRows
<1>9. RowsOf(sessions')
  BY <1>1, <1>2, <1>5, <1>7 DEF RowsOf
<1>10. NoSessionOutlivesTheAccount'
  BY <1>3, <1>6 DEF NoSessionOutlivesTheAccount
<1> QED
  BY <1>1, <1>3, <1>8, <1>9, <1>10, CloseQuietly

\* Sessions are closed as a request ends.
LEMMA CloseDone ==
  ASSUME AccountsInv, NEW r \in Request, req[r].at # "idle", Done(r), started' = started, RestOK',
         UNCHANGED <<user, issued, mfa, backup, spent>>, challenges' = challenges,
         status' \in {"ACTIVE", "BANNED", "DELETED"},
         RowsOf(sessions'), \A s \in Sid : Weaker(sessions[s], sessions'[s]),
         closed' \subseteq Old,
         \A s \in Sid : Live(s)' => sessions'[s].token.fam \notin closed',
         NoSessionOutlivesTheAccount'
  PROVE  AccountsInv'
<1>1. AccountTypes /\ IdsInv /\ Active(r) /\ started \in 0 .. MaxRequests
  BY BeforeClosing, UnderWay
<1>2. /\ req' \in [Request -> Locals(Points)] /\ req'[r] = Idle
      /\ \A q \in Request : q # r => req'[q] = req[q]
  BY <1>1, Becoming, NoneIsTyped DEF Done
<1>3. IdsInv' /\ Used \subseteq Used'
  BY <1>1, <1>2, DoneIds, NoneIsTyped
<1>4. Old \subseteq Old'
  BY <1>1, <1>3, Counting
<1>5. LocalOK(req[r])'
  BY <1>2, NoneIsTyped DEF LocalOK
<1> DEFINE R == {r}
<1>6. R \in SUBSET Request /\ \A q \in Request \ R : req'[q] = req[q]
  BY <1>2
<1>7. \A q \in R : LocalOK(req[q])'
  BY <1>5
<1>8. challenges' \subseteq challenges /\ closed' \subseteq Old'
  BY <1>4
<1> HIDE DEF R
<1> QED
  BY <1>2, <1>3, <1>6, <1>7, <1>8, ClosingKeeps

LEMMA ReconcileLoginKeeps ==
  ASSUME AccountsInv, NEW r \in Request, ReconcileLoginStatus(r)
  PROVE  AccountsInv'
<1>1. AccountTypes /\ SessionInv /\ RestOK /\ closed \subseteq Old /\ IdsInv
      /\ \A s \in Sid : Live(s) => sessions[s].token.fam \notin closed
  BY BeforeClosing
<1>2. status' \in {"ACTIVE", "BANNED", status} /\ status \in {"ACTIVE", "BANNED", "DELETED"}
  BY <1>1, TypesAre DEF ReconcileLoginStatus, ReconcileUserStatus
<1>3. sessions' = KeptBy(status') /\ started' = started /\ req[r].at = "reconcile"
      /\ UNCHANGED <<user, issued, closed, mfa, backup, spent>> /\ challenges' = challenges
      /\ RestOK'
  BY <1>1 DEF ReconcileLoginStatus, factors, rotation, RestOK
<1> DEFINE new == status'
<1>4. new \in {"ACTIVE", "BANNED", status} /\ sessions' = KeptBy(new)
  BY <1>2, <1>3
<1> HIDE DEF new
<1>5. /\ RowsOf(sessions') /\ \A s \in Sid : Weaker(sessions[s], sessions'[s])
      /\ new # "ACTIVE" => \A s \in Sid : sessions'[s] = NoRow
  BY <1>1, <1>4, Keeping
<1>6. NoSessionOutlivesTheAccount'
  BY <1>5 DEF NoSessionOutlivesTheAccount, new
<1>7. \A s \in Sid : Live(s)' => sessions'[s].token.fam \notin closed'
  BY <1>1, <1>3, <1>5 DEF Weaker, Live
<1>8. CASE Done(r)
  BY <1>1, <1>2, <1>3, <1>5, <1>6, <1>7, <1>8, CloseDone
<1>9. ASSUME NEW at \in {"method", "cached"}, Step(r, at), at = "method" => req[r].kind = "login"
      PROVE  AccountsInv'
  <2>1. req[r] \in Locals(Points) /\ LocalOK(req[r]) /\ Active(r)
    BY <1>3, UnderWay
  <2> DEFINE l == [req[r] EXCEPT !.at = at]
  <2>2. l \in Locals(Points) /\ l.at = at /\ l.id = req[r].id /\ LocalOK(l)
    <3>1. at \in Points /\ at \notin {"backup", "store"}
          /\ (at \in {"method", "create"} => req[r].kind = "login")
      BY <1>9 DEF Points
    <3> QED
      BY <2>1, <3>1, Moved
  <2>3. Becomes(r, l)
    BY <1>9 DEF Step
  <2> HIDE DEF l
  <2>4. /\ req' \in [Request -> Locals(Points)] /\ req'[r] = l
        /\ \A q \in Request : q # r => req'[q] = req[q]
    BY <1>1, <2>2, <2>3, Becoming
  <2>5. IdsInv' /\ Used \subseteq Used'
    BY <1>1, <1>3, <2>1, <2>2, <2>4, GoIds
  <2>6. LocalOK(req[r])'
    BY <1>3, <2>2, <2>4 DEF LocalOK
  <2> DEFINE R == {r}
  <2>7. R \in SUBSET Request /\ \A q \in Request \ R : req'[q] = req[q]
    BY <2>4
  <2>8. \A q \in R : LocalOK(req[q])'
    BY <2>6
  <2>9. Old \subseteq Old'
    BY <1>1, <1>3, <2>5, Counting DEF RestOK
  <2>10. closed' \subseteq Old' /\ challenges' \subseteq challenges
    BY <1>1, <1>3, <2>9
  <2> HIDE DEF R
  <2> QED
    BY <1>2, <1>3, <1>5, <1>6, <1>7, <2>4, <2>5, <2>7, <2>8, <2>10, ClosingKeeps
<1>10. Done(r) \/ (Step(r, "method") /\ req[r].kind = "login") \/ Step(r, "cached")
  BY DEF ReconcileLoginStatus
<1> QED
  BY <1>8, <1>9, <1>10

LEMMA RevokeOthersKeeps ==
  ASSUME AccountsInv, NEW r \in Request, RevokeOthers(r)
  PROVE  AccountsInv'
<1>1. /\ AccountTypes /\ SessionInv /\ RestOK /\ closed \subseteq Old
      /\ \A s \in Sid : Live(s) => sessions[s].token.fam \notin closed
      /\ status \in {"ACTIVE", "BANNED", "DELETED"}
  BY BeforeClosing, TypesAre
<1> DEFINE S == req[r].seen
<1>2. sessions' = RevokedBy(S) /\ status' = status /\ started' = started /\ Done(r)
      /\ UNCHANGED <<user, issued, closed, mfa, backup, spent>> /\ challenges' = challenges
      /\ req[r].at # "idle" /\ RestOK'
  BY <1>1 DEF RevokeOthers, factors, rotation, banning, RestOK
<1> HIDE DEF S
<1>3. /\ RowsOf(sessions') /\ \A s \in Sid : Weaker(sessions[s], sessions'[s])
      /\ \A s \in Sid : sessions'[s].kind = sessions[s].kind
      /\ \A s \in Sid : s \notin S => sessions'[s] = sessions[s]
  BY <1>1, <1>2, Revoking
<1>4. \A s \in Sid : Live(s)' => sessions'[s].token.fam \notin closed'
  BY <1>1, <1>2, <1>3 DEF Weaker, Live
<1>5. NoSessionOutlivesTheAccount'
  <2>1. NoRow.kind = "none" /\ \A x \in Row : x.kind = "row"
    BY DEF NoRow, Row
  <2>2. \A s \in Sid : sessions[s] = NoRow => sessions'[s] = NoRow
    <3>1. \A s \in Sid : sessions'[s] \in Row \cup {NoRow}
      BY <1>3 DEF RowsOf
    <3> QED
      BY <1>3, <2>1, <3>1
  <2> QED
    BY <1>1, <1>2, <2>2 DEF SessionInv, NoSessionOutlivesTheAccount
<1>6. closed' \subseteq Old /\ status' \in {"ACTIVE", "BANNED", "DELETED"}
      /\ UNCHANGED <<user, issued, mfa, backup, spent>>
  BY <1>1, <1>2
<1> QED
  BY <1>2, <1>3, <1>4, <1>5, <1>6, CloseDone

\* A rotation that is refused: the row stays, or it ran out, or its family is closed.
LEMMA RefusedRotationKeeps ==
  ASSUME AccountsInv, NEW r \in Request, Rotate(r), Done(r)
  PROVE  AccountsInv'
<1> DEFINE t == req[r].token
<1>1. /\ AccountTypes /\ SessionInv /\ RestOK /\ closed \subseteq Old /\ t \in Token
      /\ \A s \in Sid : Live(s) => sessions[s].token.fam \notin closed
      /\ status \in {"ACTIVE", "BANNED", "DELETED"} /\ RowsOf(sessions)
      /\ \A s \in Sid : sessions[s] \in Row \cup {NoRow}
  BY BeforeClosing, TypesAre, UnderWay DEF Locals
<1>2. status' = status /\ started' = started
      /\ UNCHANGED <<user, issued, mfa, backup, spent>> /\ challenges' = challenges
      /\ req[r].at = "rotate" /\ UNCHANGED <<factors, cache>>
  BY DEF Rotate, factors, banning
<1>3. req'[r] = Idle
  BY <1>1, Becoming, NoneIsTyped DEF Done
<1>4. \/ UNCHANGED <<sessions, closed>>
      \/ /\ AccountActive /\ sessions' = RevokedBy({t.sid}) /\ UNCHANGED closed
      \/ /\ AccountActive /\ Holds(t) /\ CloseFamily(t.fam)
  <2>1. ~ Becomes(r, [req[r] EXCEPT !.at = "store", !.next = Successor(t, req[r].id)])
    <3> DEFINE m == [req[r] EXCEPT !.at = "store", !.next = Successor(t, req[r].id)]
    <3>1. req[r] \in Locals(Points)
      BY UnderWay
    <3>2. m.at = "store"
      BY <3>1 DEF Locals
    <3> HIDE DEF m
    <3>3. Becomes(r, m) => req'[r] = m
      BY <1>1 DEF Becomes, AccountTypes
    <3> QED
      BY <1>3, <3>2, <3>3, NoneIsTyped DEF m
  <2> QED
    BY <2>1 DEF Rotate
<1>5. RestOK'
  <2>1. lock' \subseteq lock
    <3>1. lock' = Unlocked(r) \/ lock' = lock
      BY DEF Rotate
    <3> QED
      BY <3>1 DEF Unlocked
  <2> QED
    BY <1>1, <1>2, <2>1 DEF RestOK, factors
<1>6. CASE UNCHANGED <<sessions, closed>>
  <2>1. \A s \in Sid : Weaker(sessions[s], sessions'[s])
    <3>1. \A x \in Row \cup {NoRow} : Weaker(x, x)
      BY WeakerRows
    <3> QED
      BY <1>1, <1>6, <3>1
  <2>2. \A s \in Sid : Live(s)' => sessions'[s].token.fam \notin closed'
    BY <1>1, <1>6 DEF Live
  <2>3. NoSessionOutlivesTheAccount'
    BY <1>1, <1>2, <1>6 DEF NoSessionOutlivesTheAccount, SessionInv
  <2>7. closed' \subseteq Old /\ status' \in {"ACTIVE", "BANNED", "DELETED"} /\ RowsOf(sessions')
        /\ UNCHANGED <<user, issued, mfa, backup, spent>>
    BY <1>1, <1>2, <1>6, <2>1, <2>2, <2>3
  <2> QED
    BY <1>2, <1>5, <2>1, <2>2, <2>3, <2>7, CloseDone
<1>7. CASE AccountActive /\ sessions' = RevokedBy({t.sid}) /\ UNCHANGED closed
  <2>1. RowsOf(sessions') /\ \A s \in Sid : Weaker(sessions[s], sessions'[s])
    BY <1>1, <1>7, Revoking
  <2>2. \A s \in Sid : Live(s)' => sessions'[s].token.fam \notin closed'
    BY <1>1, <1>7, <2>1 DEF Weaker, Live
  <2>3. NoSessionOutlivesTheAccount'
    BY <1>2, <1>7 DEF NoSessionOutlivesTheAccount, AccountActive
  <2>7. closed' \subseteq Old /\ status' \in {"ACTIVE", "BANNED", "DELETED"} /\ RowsOf(sessions')
        /\ UNCHANGED <<user, issued, mfa, backup, spent>>
    BY <1>1, <1>2, <1>7, <2>1, <2>2, <2>3
  <2> QED
    BY <1>2, <1>5, <2>1, <2>2, <2>3, <2>7, CloseDone
<1>8. CASE AccountActive /\ Holds(t) /\ CloseFamily(t.fam)
  <2> DEFINE S == Family(t.fam)
  <2>1. sessions' = RevokedBy(S) /\ closed' = closed \cup {t.fam}
    BY <1>8 DEF CloseFamily
  <2>2. \A s \in Sid : sessions[s].kind = "row" /\ sessions[s].token.fam = t.fam => s \in S
    BY DEF Family
  <2>3. t.fam \in Old
    <3>1. t.sid \in Sid
      BY <1>1 DEF Token
    <3> QED
      BY <1>1, <1>8, <3>1 DEF Holds, SessionInv
  <2> HIDE DEF S
  <2>4. /\ RowsOf(sessions') /\ \A s \in Sid : Weaker(sessions[s], sessions'[s])
        /\ \A s \in Sid : s \in S /\ sessions'[s].kind = "row" => sessions'[s].revoked
    BY <1>1, <2>1, Revoking
  <2>5. \A s \in Sid : Live(s)' => sessions'[s].token.fam \notin closed'
    BY <1>1, <2>1, <2>2, <2>4 DEF Weaker, Live
  <2>6. NoSessionOutlivesTheAccount'
    BY <1>2, <1>8 DEF NoSessionOutlivesTheAccount, AccountActive
  <2>7. closed' \subseteq Old /\ status' \in {"ACTIVE", "BANNED", "DELETED"} /\ RowsOf(sessions')
        /\ UNCHANGED <<user, issued, mfa, backup, spent>>
    BY <1>1, <1>2, <1>8, <2>1, <2>3, <2>4, <2>5, <2>6
  <2> QED
    BY <1>2, <1>5, <2>1, <2>3, <2>4, <2>5, <2>6, <2>7, CloseDone
<1> QED
  BY <1>4, <1>6, <1>7, <1>8

-----------------------------------------------------------------------------
(* Steps that open a session or give it a new token.                         *)

LEMMA TokenRow ==
  ASSUME NEW x \in Row, NEW new \in Token
  PROVE  LET y == [x EXCEPT !.token = new]
         IN  /\ y \in Row /\ y.token = new /\ y.password = x.password
             /\ y.under = x.under /\ y.auth = x.auth /\ y.kind = "row"
<1> DEFINE y == [x EXCEPT !.token = new]
<1>1. y \in Row
  BY DEF Row
<1>2. /\ y.token = new /\ y.password = x.password /\ y.under = x.under /\ y.auth = x.auth
      /\ y.kind = "row"
  BY DEF Row
<1> QED
  BY <1>1, <1>2

\* Row i is new, or stays in its family; the other sessions are closed at most.
LEMMA RowWritten ==
  ASSUME AccountTypes, AccountTypes', EpochInv, SessionInv, Used \subseteq Used', NEW i \in Sid,
         i \in Old',
         i \notin Old \/ (sessions[i].kind = "row" /\ sessions'[i].token.fam = sessions[i].token.fam),
         \A s \in Sid : s # i => Weaker(sessions[s], sessions'[s]),
         sessions'[i].kind = "row", sessions'[i].token.sid = i, sessions'[i].token.fam \in Old',
         sessions'[i].token.fam \notin closed, sessions'[i].password = user'.password,
         sessions'[i].token.gen <= Cardinality(Used'),
         sessions'[i].under # "none" => sessions'[i].auth \in {sessions'[i].under, "device"},
         \A s \in Sid : s # i /\ Live(s)' =>
            user' = user /\ sessions'[s].token.fam # sessions'[i].token.fam,
         user'.epoch > user.epoch \/ user' = user,
         user'.password <= user'.epoch, user'.epoch <= Cardinality(Used'),
         closed' = closed, status' = "ACTIVE", issued \subseteq issued',
         \A t \in issued' : t \in issued \/ (t.sid = i /\ t.fam = sessions'[i].token.fam)
  PROVE  EpochInv' /\ SessionInv' /\ Later
<1>1. /\ Cardinality(Used) <= Cardinality(Used') /\ Old \subseteq Old'
      /\ Cardinality(Used') \in 0 .. MaxRequests /\ Cardinality(Used) \in 0 .. MaxRequests
  BY Counting DEF AccountTypes, AccountsTypeOK
<1>2. \A s \in Sid : s # i /\ sessions'[s].kind = "row" =>
        /\ sessions[s].kind = "row" /\ sessions'[s].token = sessions[s].token
        /\ sessions'[s].password = sessions[s].password
        /\ sessions'[s].under = sessions[s].under /\ sessions'[s].auth = sessions[s].auth
  BY DEF Weaker
<1>3. \A s \in Sid : s # i /\ Live(s)' => Live(s)
  BY DEF Weaker, Live
<1>4. EpochInv'
  <2>1. \A s \in Sid : sessions[s].kind = "row" => sessions[s].token.gen \in Int
    BY Rows, AccountsAssumption DEF Row, Token
  <2>2. \A s \in Sid : sessions[s].kind = "row" => sessions[s].token.gen <= Cardinality(Used)
    BY DEF EpochInv
  <2>3. ASSUME NEW s \in Sid, sessions'[s].kind = "row"
        PROVE  sessions'[s].token.gen <= Cardinality(Used')
    <3>1. CASE s = i
      BY <3>1
    <3>2. CASE s # i
      <4>1. /\ sessions'[s].token.gen = sessions[s].token.gen
            /\ sessions[s].token.gen <= Cardinality(Used) /\ sessions[s].token.gen \in Int
        BY <1>2, <2>1, <2>2, <2>3, <3>2
      <4> QED
        BY <1>1, <4>1
    <3> QED
      BY <3>1, <3>2
  <2> QED
    BY <2>3 DEF EpochInv
<1>5. Old \subseteq Sid
  BY UsedCounts DEF AccountTypes, AccountsTypeOK
<1>6. Later
  <2>1. \A s \in Old : sessions'[s].kind = "row" =>
          sessions[s].kind = "row" /\ sessions'[s].token.fam = sessions[s].token.fam
    BY <1>2, <1>5
  <2> QED
    BY <1>1, <2>1 DEF Later
<1>7. \A s \in Sid : sessions'[s].kind = "row" =>
        s \in Old' /\ sessions'[s].token.sid = s /\ sessions'[s].token.fam \in Old'
  BY <1>1, <1>2 DEF SessionInv
<1>8. \A s \in Sid : Live(s)' => sessions'[s].password = user'.password
  BY <1>2, <1>3 DEF SessionInv, Live
<1>9. \A t \in issued' : InFamily(t)'
  <2>1. \A t \in issued : InFamily(t)
    BY DEF SessionInv
  <2> QED
    BY <1>6, <2>1, FamilyLater DEF InFamily
<1>10. ClosedFamiliesStayClosed'
  BY <1>2, <1>3 DEF SessionInv, ClosedFamiliesStayClosed, Live
<1>11. OneSessionPerFamily'
  BY <1>2, <1>3 DEF SessionInv, OneSessionPerFamily, Live
<1>12. NobodyInsideWithoutTheFactor'
  BY <1>2 DEF SessionInv, NobodyInsideWithoutTheFactor
<1>13. NoSessionOutlivesTheAccount' /\ closed' \subseteq Old'
  BY <1>1 DEF NoSessionOutlivesTheAccount, SessionInv
<1> QED
  BY <1>4, <1>6, <1>7, <1>8, <1>9, <1>10, <1>11, <1>12, <1>13 DEF SessionInv

\* The exchange of a token: the old row is revoked, its successor takes its place.
LEMMA RotationKeeps ==
  ASSUME AccountsInv, NEW r \in Request, req[r].at = "rotate", AccountActive,
         LET t == req[r].token
             next == Successor(t, req[r].id)
         IN  /\ Holds(t) /\ ~ sessions[t.sid].revoked
             /\ sessions' = [Exchanged(t) EXCEPT ![next.sid] = [sessions[t.sid] EXCEPT !.token = next]]
             /\ Becomes(r, [req[r] EXCEPT !.at = "store", !.next = next]),
         UNCHANGED <<user, issued, closed, factors, rotation, banning, started>>
  PROVE  AccountsInv'
<1> DEFINE t == req[r].token
           i == req[r].id
           next == Successor(t, i)
           x == sessions[t.sid]
           y == [x EXCEPT !.token = next]
           f == Exchanged(t)
           l == [req[r] EXCEPT !.at = "store", !.next = next]
<1>1. /\ AccountTypes /\ SessionInv /\ EpochInv /\ IdsInv /\ LocalInv /\ SpentInv /\ RestOK
      /\ req[r] \in Locals(Points) /\ Active(r) /\ LocalOK(req[r]) /\ started \in 0 .. MaxRequests
      /\ status \in {"ACTIVE", "BANNED", "DELETED"}
  BY UnderWay, TypesAre DEF AccountsInv, RestOK
<1>2. t \in Token /\ i \in Sid /\ t.sid \in Sid /\ t.fam \in Sid
  BY <1>1 DEF Locals, Token
<1>3. x.kind = "row" /\ x.token = t /\ ~ x.revoked /\ x \in Row /\ Live(t.sid)
  BY <1>1, <1>2, Rows DEF Holds, Live
<1>4. /\ next.sid = i /\ next.fam = t.fam /\ next.gen = t.gen + 1 /\ next.sev = user.epoch
  BY DEF Successor
<1>5. l.at = "store" /\ l.id = i /\ l.kind = req[r].kind /\ l.token = t /\ l.next = next
      /\ l.epoch = req[r].epoch /\ l.password = req[r].password
  BY <1>1 DEF Locals
<1>6. sessions' = [f EXCEPT ![i] = y] /\ Becomes(r, l)
  BY <1>4
<1>7. /\ UNCHANGED <<user, issued, closed, status, mfa, backup, spent>> /\ started' = started
      /\ challenges' = challenges /\ RestOK'
  BY <1>1 DEF RestOK, factors, rotation, banning
<1>8. req'[r] = l /\ \A q \in Request : q # r => req'[q] = req[q]
  BY <1>1, <1>6 DEF Becomes, AccountTypes
<1>9. IdsInv' /\ Used \subseteq Used' /\ i \notin Used /\ i \in 1 .. started /\ i \in Used'
  BY <1>1, <1>5, <1>7, <1>8, GoIds
<1>10. /\ Cardinality(Used) <= Cardinality(Used') /\ Cardinality(Used) + 1 <= Cardinality(Used')
       /\ Cardinality(Used') \in 0 .. MaxRequests /\ Cardinality(Used) \in 0 .. MaxRequests
       /\ Old \subseteq Old'
  BY <1>1, <1>7, <1>9, Counting
<1>11. i \notin Old /\ i \in Old' /\ t.sid \in Old /\ t.fam \in Old /\ t.sid # i
  <2>1. i # 0
    BY <1>1, <1>9
  <2>2. t.sid \in Old /\ t.fam \in Old
    BY <1>1, <1>2, <1>3 DEF SessionInv
  <2> QED
    BY <1>9, <2>1, <2>2 DEF Old
<1>12. t.gen <= Cardinality(Used) /\ t.gen \in 0 .. MaxRequests /\ user.epoch \in Sid
  BY <1>1, <1>2, <1>3, Values DEF EpochInv, Token
<1>13. next \in Token /\ next.gen <= Cardinality(Used')
  <2>1. t.gen + 1 <= Cardinality(Used') /\ t.gen + 1 \in 0 .. MaxRequests
    BY <1>10, <1>12, AccountsAssumption
  <2>2. next \in Token
    BY <1>2, <1>12, <2>1 DEF Successor, Token, Sid
  <2> QED
    BY <1>4, <2>1, <2>2
<1> HIDE DEF next
<1>14. /\ y \in Row /\ y.token = next /\ y.password = x.password /\ y.under = x.under
       /\ y.auth = x.auth /\ y.kind = "row"
  BY <1>3, <1>13, TokenRow
<1>15. /\ RowsOf(f)
       /\ \A s \in Sid : /\ Weaker(sessions[s], f[s])
                         /\ s = t.sid /\ f[s].kind = "row" => f[s].revoked
  <2> DEFINE S == {t.sid}
  <2>1. f = RevokedBy(S) /\ t.sid \in S
    BY DEF Exchanged
  <2> HIDE DEF S, f
  <2> QED
    BY <1>1, <2>1, Revoking
<1>16. l \in Locals(Points)
  BY <1>1, <1>13 DEF Locals, Points
<1> HIDE DEF f, y, l
<1>17. RowsOf(sessions') /\ sessions'[i] = y /\ \A s \in Sid : s # i => sessions'[s] = f[s]
  BY <1>2, <1>4, <1>6, <1>14, <1>15 DEF RowsOf
<1>18. AccountTypes'
  <2>1. req' \in [Request -> Locals(Points)]
    BY <1>1, <1>6, <1>16, Becoming
  <2>2. /\ user \in [epoch : Sid, password : Sid] /\ issued \subseteq Token /\ closed \subseteq Sid
        /\ mfa \in Factor /\ backup \in 0 .. MaxRequests + 1 /\ spent \subseteq Spending \X Nat
    BY <1>1, TypesAre
  <2> QED
    BY <1>1, <1>7, <1>17, <2>1, <2>2, Typed
<1>19. \A s \in Sid : s # i => Weaker(sessions[s], sessions'[s])
  BY <1>15, <1>17
<1>20. \A s \in Sid : s # i /\ Live(s)' => user' = user /\ sessions'[s].token.fam # sessions'[i].token.fam
  <2>1. ASSUME NEW s \in Sid, s # i, Live(s)'
        PROVE  sessions'[s].token.fam # t.fam
    <3>1. sessions'[s] = f[s] /\ f[s].kind = "row" /\ ~ f[s].revoked
      BY <1>17, <2>1 DEF Live
    <3>2. s # t.sid
      BY <1>15, <3>1
    <3>3. Live(s) /\ sessions[s].token = f[s].token
      BY <1>15, <3>1 DEF Weaker, Live
    <3>4. sessions[s].token.fam # sessions[t.sid].token.fam
      <4>1. OneSessionPerFamily /\ Live(t.sid) /\ Live(s) /\ t.sid \in Sid /\ s # t.sid
        BY <1>1, <1>2, <1>3, <3>2, <3>3 DEF SessionInv
      <4> QED
        BY <4>1 DEF OneSessionPerFamily
    <3> QED
      BY <1>3, <3>1, <3>3, <3>4
  <2> QED
    BY <1>4, <1>7, <1>14, <1>17, <2>1
<1>21. /\ sessions'[i].kind = "row" /\ sessions'[i].token.sid = i /\ sessions'[i].token.fam \in Old'
       /\ sessions'[i].token.fam \notin closed /\ sessions'[i].password = user'.password
       /\ sessions'[i].token.gen <= Cardinality(Used')
       /\ sessions'[i].under # "none" => sessions'[i].auth \in {sessions'[i].under, "device"}
       /\ sessions'[i].token.fam = next.fam
  BY <1>1, <1>2, <1>3, <1>4, <1>7, <1>10, <1>11, <1>13, <1>14, <1>17
     DEF SessionInv, ClosedFamiliesStayClosed, NobodyInsideWithoutTheFactor
<1>22. user'.password <= user'.epoch /\ user'.epoch <= Cardinality(Used') /\ status' = "ACTIVE"
  BY <1>1, <1>7, <1>10, <1>12, AccountsAssumption DEF EpochInv, AccountActive, Sid
<1>23. EpochInv' /\ SessionInv' /\ Later
  BY <1>1, <1>2, <1>7, <1>9, <1>11, <1>18, <1>19, <1>20, <1>21, <1>22, RowWritten
<1>24. LocalInv'
  <2> DEFINE R == {r}
  <2>1. R \in SUBSET Request /\ \A q \in Request \ R : req'[q] = req[q]
    BY <1>8
  <2>2. LocalOK(req[r])'
    BY <1>1, <1>4, <1>5, <1>7, <1>8, <1>11, <1>21 DEF LocalOK, InFamily
  <2>3. \A q \in R : LocalOK(req[q])'
    BY <2>2
  <2> HIDE DEF R
  <2> QED
    BY <1>1, <1>7, <1>18, <1>23, <2>1, <2>3, LocalsLater
<1>25. SpentInv'
  BY <1>1, <1>7, <1>9, <1>18, SpentStands
<1> QED
  BY <1>9, <1>18, <1>23, <1>24, <1>25 DEF AccountsInv

LEMMA RotateKeeps ==
  ASSUME AccountsInv, NEW r \in Request, Rotate(r)
  PROVE  AccountsInv'
<1>1. CASE Done(r)
  BY <1>1, RefusedRotationKeeps
<1>2. CASE ~ Done(r)
  BY <1>2, RotationKeeps DEF Rotate, rotation
<1> QED
  BY <1>1, <1>2

LEMMA StoreKeeps ==
  ASSUME AccountsInv, NEW r \in Request, StoreRotation(r)
  PROVE  AccountsInv'
<1> DEFINE next == req[r].next
<1>1. /\ AccountTypes /\ SessionInv /\ EpochInv /\ IdsInv /\ LocalInv /\ SpentInv /\ RestOK
      /\ req[r] \in Locals(Points) /\ Active(r) /\ LocalOK(req[r]) /\ req[r].at = "store"
      /\ started \in 0 .. MaxRequests /\ RowsOf(sessions)
      /\ \A s \in Sid : sessions[s] \in Row \cup {NoRow}
  BY UnderWay, BeforeClosing DEF AccountsInv, StoreRotation
<1>2. /\ UNCHANGED <<user, sessions, closed, status, mfa, backup, spent>> /\ started' = started
      /\ challenges' = challenges /\ UNCHANGED <<devices, setup, clock>> /\ Done(r)
      /\ issued' = issued \cup {next}
  BY DEF StoreRotation, factors, banning
<1>3. next \in Token /\ req[r].token \in Token /\ InFamily(next)
  BY <1>1 DEF Locals, LocalOK
<1>4. RestOK'
  <2>1. lock' \subseteq lock /\ (cache' = cache \/ cache' = cache \cup {<<req[r].token, next>>})
    BY DEF StoreRotation, rotation, Unlocked
  <2> QED
    BY <1>1, <1>2, <1>3, <2>1 DEF RestOK
<1>5. /\ req' \in [Request -> Locals(Points)] /\ req'[r] = Idle
      /\ \A q \in Request : q # r => req'[q] = req[q]
  BY <1>1, <1>2, Becoming, NoneIsTyped DEF Done
<1>6. IdsInv' /\ Used \subseteq Used'
  BY <1>1, <1>2, <1>5, DoneIds, NoneIsTyped
<1>7. /\ Cardinality(Used) <= Cardinality(Used') /\ Old \subseteq Old'
      /\ Cardinality(Used') \in 0 .. MaxRequests /\ Cardinality(Used) \in 0 .. MaxRequests
  BY <1>1, <1>2, <1>6, Counting
<1> HIDE DEF next
<1>8. AccountTypes'
  <2>1. issued' \subseteq Token
    BY <1>1, <1>2, <1>3, TypesAre
  <2> QED
    BY <1>1, <1>2, <1>4, <1>5, <2>1, Typed, TypesAre
<1>9. \A s \in Sid : Weaker(sessions[s], sessions'[s])
  <2>1. \A x \in Row \cup {NoRow} : Weaker(x, x)
    BY WeakerRows
  <2> QED
    BY <1>1, <1>2, <2>1
<1>10. user'.password <= user'.epoch /\ user'.epoch <= Cardinality(Used')
  BY <1>1, <1>2, <1>7, Values, AccountsAssumption DEF EpochInv, Sid
<1>11. \A s \in Sid : Live(s)' => user' = user /\ sessions'[s].token.fam \notin closed'
  BY <1>1, <1>2 DEF SessionInv, ClosedFamiliesStayClosed, Live
<1>12. closed' \subseteq Old' /\ NoSessionOutlivesTheAccount'
  BY <1>1, <1>2, <1>7 DEF SessionInv, NoSessionOutlivesTheAccount
<1>13. EpochInv' /\ SessionInv' /\ Later
  BY <1>1, <1>2, <1>3, <1>6, <1>8, <1>9, <1>10, <1>11, <1>12, WeakerSessions
<1>14. LocalInv'
  <2> DEFINE R == {r}
  <2>1. R \in SUBSET Request /\ \A q \in Request \ R : req'[q] = req[q]
    BY <1>5
  <2>2. LocalOK(req[r])'
    BY <1>5, NoneIsTyped DEF LocalOK
  <2>3. \A q \in R : LocalOK(req[q])'
    BY <2>2
  <2> HIDE DEF R
  <2> QED
    BY <1>1, <1>2, <1>8, <1>13, <2>1, <2>3, LocalsLater
<1>15. SpentInv'
  BY <1>1, <1>2, <1>6, <1>8, SpentStands
<1> QED
  BY <1>6, <1>8, <1>13, <1>14, <1>15 DEF AccountsInv

\* A session opens for a login that is still authorised.
LEMMA CreateKeeps ==
  ASSUME AccountsInv, NEW r \in Request, CreateSession(r)
  PROVE  AccountsInv'
<1> DEFINE i == req[r].id
           token == [sid |-> i, fam |-> i, gen |-> 0, sev |-> user.epoch]
           y == [kind |-> "row", token |-> token, revoked |-> FALSE, expired |-> FALSE,
                 password |-> req[r].password, under |-> mfa.method, auth |-> req[r].auth]
<1>1. /\ AccountTypes /\ SessionInv /\ EpochInv /\ IdsInv /\ LocalInv /\ SpentInv /\ RestOK
      /\ req[r] \in Locals(Points) /\ Active(r) /\ LocalOK(req[r]) /\ req[r].at = "create"
      /\ started \in 0 .. MaxRequests /\ RowsOf(sessions) /\ i \in Sid
      /\ \A s \in Sid : sessions[s] \in Row \cup {NoRow}
  BY UnderWay, BeforeClosing DEF AccountsInv, CreateSession, Locals
<1>2. /\ UNCHANGED <<user, closed, status, mfa, backup, spent>> /\ started' = started
      /\ challenges' = challenges /\ UNCHANGED <<setup, clock, cache, lock>> /\ Done(r)
      /\ devices' = devices \/ devices' = devices \cup {i}
  BY DEF CreateSession, factors, rotation, banning
<1>3. RestOK'
  BY <1>1, <1>2 DEF RestOK
<1>4. CASE UNCHANGED <<sessions, issued>>
  BY <1>1, <1>2, <1>3, <1>4, DoneKeeps
<1>5. CASE /\ AccountActive /\ SameEpoch(r) /\ LoginAuthorized(r)
           /\ sessions' = [sessions EXCEPT ![i] = y] /\ issued' = issued \cup {token}
  <2>1. /\ req' \in [Request -> Locals(Points)] /\ req'[r] = Idle
        /\ \A q \in Request : q # r => req'[q] = req[q]
    BY <1>1, <1>2, Becoming, NoneIsTyped DEF Done
  <2>2. IdsInv' /\ Used \subseteq Used' /\ i \in 1 .. started /\ i \in Used' /\ i \notin Used
    BY <1>1, <1>2, <2>1, DoneIds, NoneIsTyped
  <2>3. /\ Cardinality(Used) <= Cardinality(Used') /\ Old \subseteq Old'
        /\ Cardinality(Used') \in 0 .. MaxRequests /\ Cardinality(Used) \in 0 .. MaxRequests
    BY <1>1, <1>2, <2>2, Counting
  <2>4. i \notin Old /\ i \in Old'
    BY <1>1, <2>2 DEF Old
  <2>5. user.epoch \in Sid /\ user.password = req[r].password /\ req[r].password \in Sid
    BY <1>1, <1>5, Values DEF LocalOK, SameEpoch, Locals
  <2>6. token \in Token /\ token.sid = i /\ token.fam = i /\ token.gen = 0
    BY <1>1, <2>5, AccountsAssumption DEF Token, Sid
  <2> HIDE DEF token
  <2>7. /\ y \in Row /\ y.kind = "row" /\ y.token = token /\ y.password = user.password
        /\ y.under = mfa.method /\ y.auth = req[r].auth
    BY <1>1, <2>5, <2>6, Values DEF Row, Sid, Locals
  <2>8. mfa.method = "none" \/ req[r].auth = mfa.method \/ req[r].auth = "device"
    BY <1>5 DEF LoginAuthorized
  <2> HIDE DEF y
  <2>9. RowsOf(sessions') /\ sessions'[i] = y /\ \A s \in Sid : s # i => sessions'[s] = sessions[s]
    BY <1>1, <1>5, <2>6, <2>7 DEF RowsOf
  <2>10. AccountTypes'
    <3>1. issued' \subseteq Token
      BY <1>1, <1>5, <2>6, TypesAre
    <3> QED
      BY <1>1, <1>2, <1>3, <2>1, <2>9, <3>1, Typed, TypesAre
  <2>11. \A s \in Sid : s # i => Weaker(sessions[s], sessions'[s])
    <3>1. \A x \in Row \cup {NoRow} : Weaker(x, x)
      BY WeakerRows
    <3> QED
      BY <1>1, <2>9, <3>1
  <2>12. \A s \in Sid : s # i /\ Live(s)' => user' = user /\ sessions'[s].token.fam # sessions'[i].token.fam
    <3>1. \A s \in Sid : sessions[s].kind = "row" => sessions[s].token.fam \in Old
      BY <1>1 DEF SessionInv
    <3> QED
      BY <1>2, <2>4, <2>6, <2>7, <2>9, <3>1 DEF Live
  <2>13. /\ sessions'[i].kind = "row" /\ sessions'[i].token.sid = i /\ sessions'[i].token.fam \in Old'
         /\ sessions'[i].token.fam \notin closed /\ sessions'[i].password = user'.password
         /\ sessions'[i].token.gen <= Cardinality(Used')
         /\ sessions'[i].under # "none" => sessions'[i].auth \in {sessions'[i].under, "device"}
         /\ sessions'[i].token.fam = token.fam
    BY <1>1, <1>2, <2>3, <2>4, <2>6, <2>7, <2>8, <2>9 DEF SessionInv
  <2>14. user'.password <= user'.epoch /\ user'.epoch <= Cardinality(Used') /\ status' = "ACTIVE"
    BY <1>1, <1>2, <1>5, <2>3, <2>5, AccountsAssumption DEF EpochInv, AccountActive, Sid
  <2>15. issued \subseteq issued' /\ \A t \in issued' : t \in issued \/ (t.sid = i /\ t.fam = sessions'[i].token.fam)
    BY <1>5, <2>6, <2>13
  <2>16. EpochInv' /\ SessionInv' /\ Later
    BY <1>1, <1>2, <2>2, <2>4, <2>10, <2>11, <2>12, <2>13, <2>14, <2>15, RowWritten
  <2>17. LocalInv'
    <3> DEFINE R == {r}
    <3>1. R \in SUBSET Request /\ \A q \in Request \ R : req'[q] = req[q]
      BY <2>1
    <3>2. LocalOK(req[r])'
      BY <2>1, NoneIsTyped DEF LocalOK
    <3>3. \A q \in R : LocalOK(req[q])'
      BY <3>2
    <3> HIDE DEF R
    <3> QED
      BY <1>1, <1>2, <2>10, <2>16, <3>1, <3>3, LocalsLater
  <2>18. SpentInv'
    BY <1>1, <1>2, <2>2, <2>10, SpentStands
  <2> QED
    BY <2>2, <2>10, <2>16, <2>17, <2>18 DEF AccountsInv
<1> QED
  BY <1>4, <1>5 DEF CreateSession

\* A request that has its effect as it ends adds one to what is over.
LEMMA DoneCounts ==
  ASSUME AccountsInv, NEW r \in Request, req[r].at \notin {"idle", "store"}, Done(r),
         started' = started
  PROVE  /\ req' \in [Request -> Locals(Points)] /\ req'[r] = Idle
         /\ \A q \in Request : q # r => req'[q] = req[q]
         /\ IdsInv' /\ Used \subseteq Used' /\ Old \subseteq Old' /\ OldCode \subseteq OldCode'
         /\ req[r].id \in Sid /\ req[r].id \in Old' /\ req[r].id \notin Old
         /\ req[r].id \in 1 .. MaxRequests
         /\ Cardinality(Used) + 1 <= Cardinality(Used')
         /\ Cardinality(Used') \in 0 .. MaxRequests /\ Cardinality(Used) \in 0 .. MaxRequests
<1>1. AccountTypes /\ IdsInv /\ Active(r) /\ started \in 0 .. MaxRequests
  BY BeforeClosing, UnderWay
<1>2. /\ req' \in [Request -> Locals(Points)] /\ req'[r] = Idle
      /\ \A q \in Request : q # r => req'[q] = req[q]
  BY <1>1, Becoming, NoneIsTyped DEF Done
<1>3. IdsInv' /\ Used \subseteq Used' /\ req[r].id \in 1 .. started /\ req[r].id \in Used'
      /\ req[r].id \notin Used
  BY <1>1, <1>2, DoneIds, NoneIsTyped
<1>4. /\ Old \subseteq Old' /\ OldCode \subseteq OldCode' /\ Cardinality(Used) + 1 <= Cardinality(Used')
      /\ Cardinality(Used') \in 0 .. MaxRequests /\ Cardinality(Used) \in 0 .. MaxRequests
  BY <1>1, <1>3, Counting
<1>5. req[r].id \in Sid /\ req[r].id \in Old' /\ req[r].id \notin Old /\ req[r].id \in 1 .. MaxRequests
  BY <1>1, <1>3, AccountsAssumption DEF Old, Sid
<1> QED
  BY <1>2, <1>3, <1>4, <1>5

LEMMA DoneLocals ==
  ASSUME AccountTypes, AccountTypes', LocalInv, Later, NEW r \in Request, req'[r] = Idle,
         \A q \in Request : q # r => req'[q] = req[q], challenges' = challenges
  PROVE  LocalInv'
<1> DEFINE R == {r}
<1>1. R \in SUBSET Request /\ \A q \in Request \ R : req'[q] = req[q]
  OBVIOUS
<1>2. LocalOK(req[r])'
  BY NoneIsTyped DEF LocalOK
<1>3. \A q \in R : LocalOK(req[q])'
  BY <1>2
<1> HIDE DEF R
<1> QED
  BY <1>1, <1>3, LocalsLater

\* The next password and the next epoch.
LEMMA NextEpoch ==
  ASSUME AccountTypes, EpochInv, Cardinality(Used) + 1 <= Cardinality(Used'),
         Cardinality(Used') \in 0 .. MaxRequests, Cardinality(Used) \in 0 .. MaxRequests,
         user' = NewPassword \/ user' = [user EXCEPT !.epoch = @ + 1]
  PROVE  /\ user' \in [epoch : Sid, password : Sid] /\ user'.epoch = user.epoch + 1
         /\ user'.epoch > user.epoch /\ user'.password <= user'.epoch
         /\ user'.epoch <= Cardinality(Used')
         /\ user' = NewPassword => user'.password = user.password + 1
<1>1. user \in [epoch : Sid, password : Sid] /\ user.epoch \in Sid /\ user.password \in Sid
  BY TypesAre
<1>2. user.password <= user.epoch /\ user.epoch <= Cardinality(Used)
  BY DEF EpochInv
<1>3. user.epoch + 1 <= Cardinality(Used') /\ user.epoch + 1 \in Sid /\ user.password + 1 \in Sid
  BY <1>1, <1>2, AccountsAssumption DEF Sid
<1>4. /\ user'.epoch = user.epoch + 1
      /\ user' = NewPassword => user'.password = user.password + 1
      /\ user'.password = user.password \/ user'.password = user.password + 1
  BY <1>1 DEF NewPassword
<1>5. user' \in [epoch : Sid, password : Sid]
  BY <1>1, <1>3 DEF NewPassword
<1>6. user'.epoch > user.epoch /\ user'.password <= user'.epoch /\ user'.epoch <= Cardinality(Used')
  BY <1>1, <1>2, <1>3, <1>4 DEF Sid
<1> QED
  BY <1>4, <1>5, <1>6

LEMMA ResetKeeps ==
  ASSUME AccountsInv, NEW r \in Request, ResetPassword(r)
  PROVE  AccountsInv'
<1>1. /\ AccountTypes /\ SessionInv /\ EpochInv /\ IdsInv /\ LocalInv /\ SpentInv /\ RestOK
      /\ started \in 0 .. MaxRequests /\ req[r].at = "commit" /\ closed \subseteq Old
  BY BeforeClosing DEF AccountsInv, ResetPassword
<1>2. /\ UNCHANGED <<issued, closed, status, mfa, backup, spent>> /\ started' = started
      /\ challenges' = challenges /\ Done(r) /\ RestOK'
  BY <1>1 DEF ResetPassword, factors, rotation, banning, RestOK
<1>3. CASE UNCHANGED <<user, sessions>>
  BY <1>1, <1>2, <1>3, UnderWay, DoneKeeps
<1>4. CASE AccountActive /\ user' = NewPassword /\ sessions' = RevokedBy({s \in Sid : Live(s)})
  <2>1. /\ req' \in [Request -> Locals(Points)] /\ req'[r] = Idle
        /\ \A q \in Request : q # r => req'[q] = req[q]
        /\ IdsInv' /\ Used \subseteq Used' /\ Old \subseteq Old'
        /\ Cardinality(Used) + 1 <= Cardinality(Used')
        /\ Cardinality(Used') \in 0 .. MaxRequests /\ Cardinality(Used) \in 0 .. MaxRequests
    BY <1>1, <1>2, DoneCounts
  <2>2. /\ user' \in [epoch : Sid, password : Sid] /\ user'.epoch > user.epoch
        /\ user'.password <= user'.epoch /\ user'.epoch <= Cardinality(Used')
    BY <1>1, <1>4, <2>1, NextEpoch
  <2> DEFINE S == {s \in Sid : Live(s)}
  <2>3. sessions' = RevokedBy(S) /\ \A s \in Sid : Live(s) => s \in S
    BY <1>4
  <2> HIDE DEF S
  <2>4. /\ RowsOf(sessions') /\ \A s \in Sid : Weaker(sessions[s], sessions'[s])
        /\ \A s \in Sid : s \in S /\ sessions'[s].kind = "row" => sessions'[s].revoked
    BY <1>1, <2>3, Revoking
  <2>5. \A s \in Sid : ~ Live(s)'
    BY <2>3, <2>4 DEF Weaker, Live
  <2>6. AccountTypes'
    BY <1>1, <1>2, <2>1, <2>2, <2>4, Typed, TypesAre
  <2>7. NoSessionOutlivesTheAccount' /\ closed' \subseteq Old'
    BY <1>1, <1>2, <1>4, <2>1 DEF NoSessionOutlivesTheAccount, AccountActive
  <2>8. EpochInv' /\ SessionInv' /\ Later
    BY <1>1, <1>2, <2>1, <2>2, <2>4, <2>5, <2>6, <2>7, WeakerSessions
  <2>9. LocalInv'
    BY <1>1, <1>2, <2>1, <2>6, <2>8, DoneLocals
  <2>10. SpentInv'
    BY <1>1, <1>2, <2>1, <2>6, SpentStands
  <2> QED
    BY <2>1, <2>6, <2>8, <2>9, <2>10 DEF AccountsInv
<1> QED
  BY <1>3, <1>4 DEF ResetPassword

LEMMA DeleteKeeps ==
  ASSUME AccountsInv, NEW r \in Request, DeleteAccount(r)
  PROVE  AccountsInv'
<1>1. /\ AccountTypes /\ SessionInv /\ EpochInv /\ IdsInv /\ LocalInv /\ SpentInv /\ RestOK
      /\ started \in 0 .. MaxRequests /\ req[r].at = "commit" /\ closed \subseteq Old
      /\ \A s \in Sid : sessions[s] \in Row \cup {NoRow}
  BY BeforeClosing DEF AccountsInv, DeleteAccount
<1>2. /\ UNCHANGED <<issued, closed, spent, clock, cache, lock>> /\ started' = started
      /\ challenges' = challenges /\ Done(r)
  BY DEF DeleteAccount, rotation
<1>3. CASE UNCHANGED <<user, sessions, mfa, backup, devices, setup, banning>>
  <2>1. RestOK'
    BY <1>1, <1>2, <1>3 DEF RestOK
  <2> QED
    BY <1>1, <1>2, <1>3, <2>1, UnderWay, DoneKeeps DEF banning
<1>4. CASE /\ MarkDeleted /\ user' = [user EXCEPT !.epoch = @ + 1] /\ sessions' = [s \in Sid |-> NoRow]
           /\ devices' = {} /\ backup' = 0 /\ mfa' = NoMfa /\ setup' = NoSetup
  <2>1. /\ req' \in [Request -> Locals(Points)] /\ req'[r] = Idle
        /\ \A q \in Request : q # r => req'[q] = req[q]
        /\ IdsInv' /\ Used \subseteq Used' /\ Old \subseteq Old' /\ OldCode \subseteq OldCode'
        /\ Cardinality(Used) + 1 <= Cardinality(Used')
        /\ Cardinality(Used') \in 0 .. MaxRequests /\ Cardinality(Used) \in 0 .. MaxRequests
    BY <1>1, <1>2, DoneCounts
  <2>2. /\ user' \in [epoch : Sid, password : Sid] /\ user'.epoch > user.epoch
        /\ user'.password <= user'.epoch /\ user'.epoch <= Cardinality(Used')
    BY <1>1, <1>4, <2>1, NextEpoch
  <2>3. RestOK' /\ status' = "DELETED" /\ mfa' \in Factor /\ backup' \in 0 .. MaxRequests + 1
    BY <1>1, <1>2, <1>4, NoneIsTyped, AccountsAssumption DEF RestOK, MarkDeleted
  <2>4. \A s \in Sid : sessions'[s] = NoRow
    BY <1>4
  <2>5. /\ RowsOf(sessions') /\ \A s \in Sid : Weaker(sessions[s], sessions'[s])
        /\ \A s \in Sid : ~ Live(s)'
    <3>1. NoRow.kind # "row" /\ \A x \in Row \cup {NoRow} : Weaker(x, NoRow)
      BY WeakerRows DEF NoRow
    <3> QED
      BY <1>1, <1>4, <2>4, <3>1 DEF RowsOf, Live
  <2>6. AccountTypes'
    BY <1>1, <1>2, <2>1, <2>2, <2>3, <2>5, Typed, TypesAre
  <2>7. NoSessionOutlivesTheAccount' /\ closed' \subseteq Old'
    BY <1>1, <1>2, <2>1, <2>4 DEF NoSessionOutlivesTheAccount
  <2>8. EpochInv' /\ SessionInv' /\ Later
    BY <1>1, <1>2, <2>1, <2>2, <2>5, <2>6, <2>7, WeakerSessions
  <2>9. LocalInv'
    BY <1>1, <1>2, <2>1, <2>6, <2>8, DoneLocals
  <2>10. SpentInv'
    <3>1. mfa'.row = 0 /\ mfa'.method = "none" /\ 0 \in Old' /\ 0 \in OldCode'
      BY <1>4 DEF NoMfa, Old, OldCode
    <3>2. \A u \in spent : /\ u[1][1] = "totp" => u[1][2] \in Old'
                           /\ u[1][1] = "backup" => u[1][3] \in OldCode' \ {0}
      BY <1>1, <2>1 DEF SpentInv
    <3> QED
      BY <1>1, <1>2, <1>4, <3>1, <3>2 DEF SpentInv, FactorsAreSpentOnce
  <2> QED
    BY <2>1, <2>6, <2>8, <2>9, <2>10 DEF AccountsInv
<1> QED
  BY <1>3, <1>4 DEF DeleteAccount

\* The session that changes the password is signed anew, the others are closed.
LEMMA ChangeKeeps ==
  ASSUME AccountsInv, NEW r \in Request, ChangePassword(r)
  PROVE  AccountsInv'
<1> DEFINE t == req[r].token
           i == t.sid
           new == Renewed(t)
           x == sessions[i]
           y == [x EXCEPT !.token = new, !.revoked = FALSE, !.password = user.password + 1]
           f == RevokedBy({s \in Sid : Live(s)})
<1>1. /\ AccountTypes /\ SessionInv /\ EpochInv /\ IdsInv /\ LocalInv /\ SpentInv /\ RestOK
      /\ started \in 0 .. MaxRequests /\ req[r].at = "commit" /\ req[r].kind = "change"
      /\ closed \subseteq Old /\ RowsOf(sessions) /\ t \in Token /\ LocalOK(req[r])
      /\ status \in {"ACTIVE", "BANNED", "DELETED"}
  BY BeforeClosing, UnderWay, TypesAre DEF AccountsInv, ChangePassword, Locals
<1>2. /\ UNCHANGED <<closed, status, mfa, backup, spent>> /\ started' = started
      /\ challenges' = challenges /\ Done(r) /\ RestOK'
  BY <1>1 DEF ChangePassword, factors, rotation, banning, RestOK
<1>3. CASE UNCHANGED <<user, sessions, issued>>
  BY <1>1, <1>2, <1>3, UnderWay, DoneKeeps
<1>4. CASE /\ StillCurrent(i) /\ user' = NewPassword /\ sessions' = [f EXCEPT ![i] = y]
           /\ issued' = issued \cup {new}
  <2>1. /\ req' \in [Request -> Locals(Points)] /\ req'[r] = Idle
        /\ \A q \in Request : q # r => req'[q] = req[q]
        /\ IdsInv' /\ Used \subseteq Used' /\ Old \subseteq Old'
        /\ Cardinality(Used) + 1 <= Cardinality(Used')
        /\ Cardinality(Used') \in 0 .. MaxRequests /\ Cardinality(Used) \in 0 .. MaxRequests
    BY <1>1, <1>2, DoneCounts
  <2>2. /\ user' \in [epoch : Sid, password : Sid] /\ user'.epoch > user.epoch
        /\ user'.password <= user'.epoch /\ user'.epoch <= Cardinality(Used')
        /\ user'.password = user.password + 1 /\ user'.epoch = user.epoch + 1
    BY <1>1, <1>4, <2>1, NextEpoch
  <2>3. i \in Sid /\ Live(i) /\ x.kind = "row" /\ x \in Row /\ i \in Old /\ x.token \in Token
    <3>1. i \in Sid /\ Live(i)
      BY <1>1, <1>4 DEF StillCurrent, Current, Token
    <3>2. x.kind = "row" /\ x \in Row
      BY <1>1, <3>1, Rows
    <3> QED
      BY <1>1, <3>1, <3>2 DEF SessionInv, Row
  <2>4. x.token.sid = i /\ x.token.fam = t.fam /\ t.fam \in Sid /\ x.token.fam \in Old
    <3>1. InFamily(t)
      BY <1>1 DEF LocalOK, SessionInv
    <3> QED
      BY <1>1, <2>3, <3>1 DEF InFamily, SessionInv, Token
  <2>5. x.token.gen <= Cardinality(Used) /\ x.token.gen \in 0 .. MaxRequests
    BY <1>1, <2>3 DEF EpochInv, Token
  <2>6. /\ new.sid = i /\ new.fam = t.fam /\ new.gen = x.token.gen + 1 /\ new.sev = user.epoch + 1
    BY <1>1 DEF Renewed, Token
  <2>7. new \in Token /\ new.gen <= Cardinality(Used')
    <3>1. x.token.gen + 1 <= Cardinality(Used') /\ x.token.gen + 1 \in 0 .. MaxRequests
      BY <2>1, <2>5, AccountsAssumption
    <3>2. user.epoch + 1 \in 0 .. MaxRequests
      BY <2>2 DEF Sid
    <3>3. new \in Token
      BY <1>1, <3>1, <3>2 DEF Renewed, Token
    <3> QED
      BY <2>6, <3>1, <3>3
  <2> HIDE DEF new
  <2>8. /\ y \in Row /\ y.token = new /\ y.password = user'.password /\ y.under = x.under
        /\ y.auth = x.auth /\ y.kind = "row"
    <3>1. user.password + 1 \in 0 .. MaxRequests
      BY <2>2 DEF Sid
    <3> QED
      BY <2>2, <2>3, <2>7, <3>1 DEF Row
  <2>9. /\ RowsOf(f) /\ \A s \in Sid : Weaker(sessions[s], f[s])
        /\ \A s \in Sid : Live(s) /\ f[s].kind = "row" => f[s].revoked
    <3> DEFINE S == {s \in Sid : Live(s)}
    <3>1. f = RevokedBy(S) /\ \A s \in Sid : Live(s) => s \in S
      OBVIOUS
    <3> HIDE DEF S, f
    <3> QED
      BY <1>1, <3>1, Revoking
  <2> HIDE DEF f, y
  <2>10. RowsOf(sessions') /\ sessions'[i] = y /\ \A s \in Sid : s # i => sessions'[s] = f[s]
    BY <1>4, <2>3, <2>6, <2>8, <2>9 DEF RowsOf
  <2>11. AccountTypes'
    <3>1. issued' \subseteq Token
      BY <1>1, <1>4, <2>7, TypesAre
    <3> QED
      BY <1>1, <1>2, <2>1, <2>2, <2>10, <3>1, Typed, TypesAre
  <2>12. \A s \in Sid : s # i => Weaker(sessions[s], sessions'[s])
    BY <2>9, <2>10
  <2>13. \A s \in Sid : s # i => ~ Live(s)'
    BY <2>9, <2>10 DEF Weaker, Live
  <2>14. /\ sessions'[i].kind = "row" /\ sessions'[i].token.sid = i /\ sessions'[i].token.fam \in Old'
         /\ sessions'[i].token.fam \notin closed /\ sessions'[i].password = user'.password
         /\ sessions'[i].token.gen <= Cardinality(Used')
         /\ sessions'[i].under # "none" => sessions'[i].auth \in {sessions'[i].under, "device"}
         /\ sessions'[i].token.fam = sessions[i].token.fam
         /\ sessions'[i].token.fam = new.fam
    BY <1>1, <2>1, <2>3, <2>4, <2>6, <2>7, <2>8, <2>10
       DEF SessionInv, ClosedFamiliesStayClosed, NobodyInsideWithoutTheFactor
  <2>15. status' = "ACTIVE"
    <3>1. NoRow.kind # "row"
      BY DEF NoRow
    <3> QED
      BY <1>1, <1>2, <2>3, <3>1 DEF SessionInv, NoSessionOutlivesTheAccount
  <2>16. issued \subseteq issued' /\ \A u \in issued' : u \in issued \/ (u.sid = i /\ u.fam = sessions'[i].token.fam)
    BY <1>4, <2>6, <2>14
  <2>17. EpochInv' /\ SessionInv' /\ Later
    BY <1>1, <1>2, <2>1, <2>2, <2>3, <2>11, <2>12, <2>13, <2>14, <2>15, <2>16, RowWritten
  <2>18. LocalInv'
    BY <1>1, <1>2, <2>1, <2>11, <2>17, DoneLocals
  <2>19. SpentInv'
    BY <1>1, <1>2, <2>1, <2>11, SpentStands
  <2> QED
    BY <2>1, <2>11, <2>17, <2>18, <2>19 DEF AccountsInv
<1> QED
  BY <1>3, <1>4 DEF ChangePassword

-----------------------------------------------------------------------------
(* Second factors.                                                           *)

\* A step of one request that leaves the sessions alone.
LEMMA FactorsKeep ==
  ASSUME AccountsInv, NEW r \in Request, NEW l \in Locals(Points), Becomes(r, l), RestOK',
         UNCHANGED <<user, sessions, issued, closed, status>>, challenges' = challenges,
         mfa' \in Factor, backup' \in 0 .. MaxRequests + 1, spent' \subseteq Spending \X Nat,
         IdsInv', Used \subseteq Used', LocalOK(l), l.at # "store", AccountTypes' => SpentInv'
  PROVE  AccountsInv'
<1>1. /\ AccountTypes /\ LocalInv /\ EpochInv /\ SessionInv
      /\ user \in [epoch : Sid, password : Sid] /\ issued \subseteq Token /\ closed \subseteq Sid
      /\ status \in {"ACTIVE", "BANNED", "DELETED"} /\ RowsOf(sessions)
  BY TypesAre DEF AccountsInv
<1>2. /\ req' \in [Request -> Locals(Points)] /\ req'[r] = l
      /\ \A q \in Request : q # r => req'[q] = req[q]
  BY <1>1, Becoming
<1>3. AccountTypes'
  BY <1>1, <1>2, Typed
<1>4. EpochInv' /\ SessionInv' /\ Later
  <2>1. EpochInv' /\ SessionInv'
    BY <1>1, <1>3, SessionsStand
  <2>2. Later
    BY <1>1, <1>3, LaterStill
  <2> QED
    BY <2>1, <2>2
<1>5. LocalInv'
  <2> DEFINE R == {r}
  <2>1. R \in SUBSET Request /\ \A q \in Request \ R : req'[q] = req[q]
    BY <1>2
  <2>2. LocalOK(req[r])'
    BY <1>2 DEF LocalOK
  <2>3. \A q \in R : LocalOK(req[q])'
    BY <2>2
  <2> HIDE DEF R
  <2> QED
    BY <1>1, <1>3, <1>4, <2>1, <2>3, LocalsLater
<1> QED
  BY <1>3, <1>4, <1>5 DEF AccountsInv

\* A factor that nobody presented before is accepted for the first time.
LEMMA FirstUse ==
  ASSUME NEW f, \A u \in spent : u[1] # f, Accepted(f)
  PROVE  spent' = spent \cup {<<f, 1>>}
<1>1. {u \in spent : u[1] = f} = {}
  OBVIOUS
<1>2. Uses(f) = 0
  BY <1>1, FS_EmptySet DEF Uses
<1> QED
  BY <1>2 DEF Accepted

LEMMA TotpKeeps ==
  ASSUME AccountsInv, NEW r \in Request, NEW k \in Window, SpendTotp(r, k)
  PROVE  AccountsInv'
<1> DEFINE at == After(req[r].kind)
           l == [req[r] EXCEPT !.at = at]
           secret == req[r].mfa.secret
           f == <<"totp", mfa.row, secret, k>>
<1>1. /\ AccountTypes /\ IdsInv /\ SpentInv /\ RestOK /\ req[r] \in Locals(Points)
      /\ LocalOK(req[r]) /\ Active(r) /\ req[r].at = "spend"
      /\ mfa \in Factor /\ backup \in 0 .. MaxRequests + 1 /\ spent \subseteq Spending \X Nat
      /\ started \in 0 .. MaxRequests /\ k \in 0 .. MaxStep
  BY UnderWay, TypesAre, Values DEF AccountsInv, SpendTotp, RestOK
<1>2. CASE Refused(r) /\ UNCHANGED <<mfa, spent>>
  BY <1>1, <1>2, RefusedKeeps DEF SpendTotp
<1>3. CASE /\ FreshStep(k) /\ mfa' = [mfa EXCEPT !.lastStep = k, !.secret = secret]
           /\ Accepted(f) /\ Step(r, at) /\ UNCHANGED challenges
  <2>1. /\ UNCHANGED <<user, sessions, issued, closed, status>> /\ challenges' = challenges
        /\ backup' = backup /\ started' = started /\ RestOK'
    BY <1>1, <1>3 DEF SpendTotp, account, rotation, banning, RestOK
  <2>2. at \in {"create", "commit"} /\ (at = "create" => req[r].kind = "login")
    BY DEF After
  <2> HIDE DEF at
  <2>3. l \in Locals(Points) /\ l.at = at /\ l.id = req[r].id /\ LocalOK(l)
    <3>1. at \in Points /\ at \notin {"backup", "store"}
          /\ (at \in {"method", "create"} => req[r].kind = "login")
      BY <2>2 DEF Points
    <3> QED
      BY <1>1, <3>1, Moved
  <2>4. Becomes(r, l)
    BY <1>3 DEF Step
  <2> HIDE DEF l
  <2>5. IdsInv' /\ Used \subseteq Used'
    <3>1. req'[r] = l /\ \A q \in Request : q # r => req'[q] = req[q]
      BY <1>1, <2>3, <2>4, Becoming
    <3> QED
      BY <1>1, <2>1, <2>2, <2>3, <3>1, GoIds
  <2>6. /\ mfa.method = "totp" /\ mfa.lastStep < k /\ mfa.lastStep \in 0 .. MaxStep
        /\ mfa.row \in Sid /\ secret \in Sid
    BY <1>1, <1>3 DEF FreshStep, Factor, Locals
  <2>7. mfa' \in Factor /\ mfa'.row = mfa.row /\ mfa'.lastStep = k /\ mfa'.method = "totp"
    BY <1>1, <1>3, <2>6 DEF Factor
  <2>8. f[1] = "totp" /\ f[2] = mfa.row /\ f[4] = k /\ f \in Spending
    BY <1>1, <2>6, AccountsAssumption DEF Spending, Sid
  <2>9. \A u \in spent : u[1] # f
    <3>1. \A u \in spent : u[1][1] = "totp" /\ u[1][2] = mfa.row => u[1][4] <= mfa.lastStep
      BY <1>1, <2>6 DEF SpentInv
    <3>2. ~ (k <= mfa.lastStep)
      BY <1>1, <2>6, AccountsAssumption
    <3> QED
      BY <2>8, <3>1, <3>2
  <2> HIDE DEF f
  <2>10. spent' = spent \cup {<<f, 1>>}
    BY <1>3, <2>9, FirstUse
  <2>11. spent' \subseteq Spending \X Nat
    BY <1>1, <2>8, <2>10
  <2>12. AccountTypes' => SpentInv'
    <3>1. Old \subseteq Old' /\ OldCode \subseteq OldCode'
      BY <1>1, <2>1, <2>5, Counting
    <3>2. \A u \in spent : u[1][1] = "totp" /\ u[1][2] = mfa.row => u[1][4] <= k
      <4>1. \A u \in spent : u[1][1] = "totp" /\ u[1][2] = mfa.row =>
              u[1][4] <= mfa.lastStep /\ u[1][4] \in 0 .. MaxStep
        BY <1>1, <2>6 DEF SpentInv, Spending
      <4> QED
        BY <1>1, <2>6, <4>1, AccountsAssumption
    <3>3. \A u \in spent' : u[2] = 1
      BY <1>1, <2>10 DEF SpentInv, FactorsAreSpentOnce
    <3>4. ASSUME NEW u \in spent'
          PROVE  /\ u[1][1] = "totp" => u[1][2] \in Old' /\ (u[1][2] = mfa'.row => u[1][4] <= mfa'.lastStep)
                 /\ u[1][1] = "backup" => u[1][3] \in OldCode' \ {0, backup'}
      <4>1. CASE u \in spent
        BY <1>1, <2>1, <2>7, <3>1, <3>2, <4>1 DEF SpentInv
      <4>2. CASE u = <<f, 1>>
        <5>1. u[1] = f /\ mfa.row \in Old /\ k <= k
          BY <1>1, <4>2, AccountsAssumption DEF SpentInv
        <5> QED
          BY <2>7, <2>8, <3>1, <5>1
      <4> QED
        BY <2>10, <4>1, <4>2
    <3> QED
      BY <1>1, <2>1, <2>7, <3>1, <3>3, <3>4 DEF SpentInv, FactorsAreSpentOnce
  <2> QED
    BY <1>1, <2>1, <2>2, <2>3, <2>4, <2>5, <2>7, <2>11, <2>12, FactorsKeep
<1> QED
  BY <1>2, <1>3 DEF SpendTotp

LEMMA BackupKeeps ==
  ASSUME AccountsInv, NEW r \in Request, SpendBackupCode(r)
  PROVE  AccountsInv'
<1> DEFINE at == After(req[r].kind)
           l == [req[r] EXCEPT !.at = at, !.seen = {}]
           f == <<"backup", 0, backup, 0>>
<1>1. /\ AccountTypes /\ IdsInv /\ SpentInv /\ RestOK /\ req[r] \in Locals(Points)
      /\ LocalOK(req[r]) /\ Active(r) /\ req[r].at = "backup"
      /\ mfa \in Factor /\ backup \in 0 .. MaxRequests + 1 /\ spent \subseteq Spending \X Nat
      /\ started \in 0 .. MaxRequests
  BY UnderWay, TypesAre DEF AccountsInv, SpendBackupCode, RestOK
<1>2. CASE Refused(r) /\ UNCHANGED <<backup, spent>>
  BY <1>1, <1>2, RefusedKeeps DEF SpendBackupCode
<1>3. CASE ~ (Refused(r) /\ UNCHANGED <<backup, spent>>)
  <2>1. /\ StillUnused(r) /\ backup' = 0 /\ \E b \in req[r].seen : Accepted(<<"backup", 0, b, 0>>)
        /\ Becomes(r, l) /\ challenges' = challenges
    BY <1>3 DEF SpendBackupCode
  <2>2. /\ UNCHANGED <<user, sessions, issued, closed, status>>
        /\ mfa' = mfa /\ started' = started /\ RestOK'
    BY <1>1, <2>1 DEF SpendBackupCode, account, rotation, banning, RestOK
  <2>3. at \in {"create", "commit"} /\ (at = "create" => req[r].kind = "login")
    BY DEF After
  <2> HIDE DEF at
  <2>4. backup # 0 /\ Accepted(f)
    <3>1. PICK b \in 1 .. MaxRequests + 1 : req[r].seen = {b}
      BY <1>1 DEF LocalOK
    <3>2. backup = b /\ b # 0
      BY <2>1, <3>1, AccountsAssumption DEF StillUnused
    <3> QED
      BY <2>1, <3>1, <3>2
  <2>5. /\ l \in Locals(Points) /\ l.at = at /\ l.id = req[r].id /\ l.kind = req[r].kind
        /\ l.epoch = req[r].epoch /\ l.password = req[r].password /\ l.token = req[r].token
    BY <1>1, <2>3 DEF Locals, Points
  <2> HIDE DEF l
  <2>6. LocalOK(l)
    BY <1>1, <2>3, <2>5 DEF LocalOK
  <2>7. IdsInv' /\ Used \subseteq Used'
    <3>1. req'[r] = l /\ \A q \in Request : q # r => req'[q] = req[q]
      BY <1>1, <2>1, <2>5, Becoming
    <3> QED
      BY <1>1, <2>2, <2>3, <2>5, <3>1, GoIds
  <2>8. f[1] = "backup" /\ f[3] = backup /\ f \in Spending
    BY <1>1, AccountsAssumption DEF Spending, Sid
  <2>9. \A u \in spent : u[1] # f
    BY <1>1, <2>8 DEF SpentInv
  <2> HIDE DEF f
  <2>10. spent' = spent \cup {<<f, 1>>}
    BY <2>4, <2>9, FirstUse
  <2>11. spent' \subseteq Spending \X Nat /\ backup' \in 0 .. MaxRequests + 1
    BY <1>1, <2>1, <2>8, <2>10, AccountsAssumption
  <2>12. AccountTypes' => SpentInv'
    <3>1. Old \subseteq Old' /\ OldCode \subseteq OldCode' /\ 0 \in OldCode'
      BY <1>1, <2>2, <2>7, Counting DEF OldCode, Old
    <3>2. \A u \in spent' : u[2] = 1
      BY <1>1, <2>10 DEF SpentInv, FactorsAreSpentOnce
    <3>3. ASSUME NEW u \in spent'
          PROVE  /\ u[1][1] = "totp" => /\ u[1][2] \in Old'
                                        /\ mfa.method = "totp" /\ u[1][2] = mfa.row => u[1][4] <= mfa.lastStep
                 /\ u[1][1] = "backup" => u[1][3] \in OldCode' \ {0}
      <4>1. CASE u \in spent
        BY <1>1, <3>1, <4>1 DEF SpentInv
      <4>2. CASE u = <<f, 1>>
        <5>1. u[1] = f /\ backup \in OldCode
          BY <1>1, <4>2 DEF SpentInv
        <5> QED
          BY <2>4, <2>8, <3>1, <5>1
      <4> QED
        BY <2>10, <4>1, <4>2
    <3> QED
      BY <1>1, <2>1, <2>2, <3>1, <3>2, <3>3 DEF SpentInv, FactorsAreSpentOnce
  <2> QED
    BY <1>1, <2>1, <2>2, <2>3, <2>5, <2>6, <2>7, <2>11, <2>12, FactorsKeep
<1> QED
  BY <1>2, <1>3

\* Switching the factor on or off, and new backup codes: what was spent is not current.
LEMMA CommitKeeps ==
  ASSUME AccountsInv, NEW r \in Request, CommitMfa(r)
  PROVE  AccountsInv'
<1> DEFINE i == req[r].id
<1>1. /\ AccountTypes /\ IdsInv /\ SpentInv /\ RestOK /\ req[r] \in Locals(Points)
      /\ req[r].at = "commit" /\ mfa \in Factor /\ backup \in 0 .. MaxRequests + 1
      /\ spent \subseteq Spending \X Nat /\ started \in 0 .. MaxRequests
  BY UnderWay, TypesAre DEF AccountsInv, CommitMfa, RestOK
<1>2. /\ UNCHANGED <<user, sessions, issued, closed, status>> /\ challenges' = challenges
      /\ started' = started /\ Done(r) /\ spent' = spent /\ UNCHANGED <<clock, cache, lock>>
  BY DEF CommitMfa, account, rotation, banning
<1>3. /\ IdsInv' /\ Used \subseteq Used' /\ Old \subseteq Old' /\ OldCode \subseteq OldCode'
      /\ i \in Sid /\ i \in Old' /\ i \notin Old /\ i \in 1 .. MaxRequests
  BY <1>1, <1>2, DoneCounts
<1>4. i \in OldCode' /\ i \notin OldCode /\ i \in 0 .. MaxRequests + 1 /\ 0 \in Old' /\ 0 \in OldCode'
      /\ i # 0
  BY <1>3, AccountsAssumption DEF OldCode, Old
<1>5. /\ mfa' \in Factor /\ (mfa' = mfa \/ mfa'.row = i \/ (mfa'.row = 0 /\ mfa'.method # "totp"))
      /\ backup' \in {backup, i, 0} /\ (devices' = {} \/ devices' \subseteq devices)
      /\ setup' \in [secret : Sid, epoch : Sid]
  <2>1. CASE req[r].kind = "email-enable"
    <3>1. [method |-> "email", row |-> i, secret |-> 0, lastStep |-> 0] \in Factor
      BY <1>3, AccountsAssumption DEF Factor, Sid
    <3> QED
      BY <1>1, <2>1, <3>1 DEF CommitMfa, RestOK
  <2>2. CASE req[r].kind = "totp-setup"
    <3>1. [secret |-> i, epoch |-> req[r].epoch] \in [secret : Sid, epoch : Sid]
      BY <1>1, <1>3 DEF Locals
    <3> QED
      BY <1>1, <2>2, <3>1 DEF CommitMfa
  <2>3. CASE req[r].kind = "totp-confirm"
    <3> DEFINE m == [req[r].mfa EXCEPT !.row = i]
    <3>1. m \in Factor /\ m.row = i
      BY <1>1, <1>3 DEF Locals, Factor
    <3>2. mfa' \in {mfa, m} /\ backup' \in {backup, i} /\ setup' \in {setup, NoSetup} /\ devices' = devices
      BY <2>3 DEF CommitMfa
    <3> HIDE DEF m
    <3> QED
      BY <1>1, <3>1, <3>2, NoneIsTyped DEF RestOK
  <2>4. CASE req[r].kind = "disable"
    <3>1. NoMfa.row = 0 /\ NoMfa.method # "totp"
      BY DEF NoMfa
    <3>2. mfa' \in {mfa, NoMfa} /\ backup' \in {backup, 0} /\ setup' \in {setup, NoSetup}
          /\ devices' \in {devices, {}}
      BY <2>4 DEF CommitMfa
    <3> QED
      BY <1>1, <3>1, <3>2, NoneIsTyped DEF RestOK
  <2>5. CASE req[r].kind = "regenerate"
    BY <1>1, <2>5 DEF CommitMfa, RestOK
  <2>6. CASE req[r].kind = "untrust"
    <3>1. mfa' = mfa /\ backup' = backup /\ setup' = setup /\ devices' \subseteq devices
      BY <2>6 DEF CommitMfa
    <3> QED
      BY <1>1, <3>1 DEF RestOK
  <2> QED
    BY <2>1, <2>2, <2>3, <2>4, <2>5, <2>6 DEF CommitMfa
<1>6. RestOK' /\ backup' \in 0 .. MaxRequests + 1
  BY <1>1, <1>2, <1>4, <1>5, AccountsAssumption DEF RestOK
<1>7. SpentInv'
  <2>1. mfa'.row \in Old' /\ backup' \in OldCode'
    BY <1>1, <1>3, <1>4, <1>5 DEF SpentInv
  <2>2. ASSUME NEW u \in spent, u[1][1] = "totp"
        PROVE  /\ u[1][2] \in Old'
               /\ mfa'.method = "totp" /\ u[1][2] = mfa'.row => u[1][4] <= mfa'.lastStep
    <3>1. /\ u[1][2] \in Old
          /\ mfa.method = "totp" /\ u[1][2] = mfa.row => u[1][4] <= mfa.lastStep
      BY <1>1, <2>2 DEF SpentInv
    <3> QED
      BY <1>3, <1>5, <3>1
  <2>3. ASSUME NEW u \in spent, u[1][1] = "backup"
        PROVE  u[1][3] \in OldCode' \ {0, backup'}
    <3>1. u[1][3] \in OldCode /\ u[1][3] # 0 /\ u[1][3] # backup
      BY <1>1, <2>3 DEF SpentInv
    <3> QED
      BY <1>3, <1>4, <1>5, <3>1
  <2> QED
    BY <1>1, <1>2, <2>1, <2>2, <2>3 DEF SpentInv, FactorsAreSpentOnce
<1>8. Idle \in Locals(Points) /\ LocalOK(Idle) /\ Idle.at # "store" /\ Becomes(r, Idle)
  BY <1>2, NoneIsTyped DEF LocalOK, Done
<1> QED
  BY <1>1, <1>2, <1>3, <1>5, <1>6, <1>7, <1>8, FactorsKeep

-----------------------------------------------------------------------------
LEMMA AccountsStart == AccountsInit => AccountsInv
<1> SUFFICES ASSUME AccountsInit PROVE AccountsInv
  OBVIOUS
<1> DEFINE first == [kind |-> "row", token |-> NoToken, revoked |-> FALSE, expired |-> FALSE,
                     password |-> 0, under |-> "none", auth |-> "none"]
<1>1. /\ req = [r \in Request |-> Idle] /\ started = 0 /\ spent = {} /\ challenges = {} /\ devices = {}
      /\ closed = {} /\ issued = {NoToken} /\ user = [epoch |-> 0, password |-> 0]
      /\ status = "ACTIVE" /\ setup = NoSetup /\ cache = {} /\ lock = {} /\ clock = 1
      /\ sessions = [s \in Sid |-> IF s > 0 THEN NoRow ELSE first]
  BY DEF AccountsInit, SanctionsInit
<1>2. 0 \in Sid /\ 0 \in 0 .. MaxRequests /\ 0 \in 0 .. MaxStep /\ NoToken \in Token /\ NoToken.sid = 0
      /\ NoToken.fam = 0 /\ NoToken.gen = 0
  BY NoneIsTyped, AccountsAssumption DEF NoToken
<1>3. /\ first \in Row /\ first.kind = "row" /\ first.token = NoToken /\ first.password = 0
      /\ first.under = "none"
  BY <1>2 DEF Row
<1> HIDE DEF first
<1>4. NoRow.kind # "row"
  BY DEF NoRow
<1>5. /\ \A s \in Sid : s # 0 => sessions[s] = NoRow
      /\ sessions[0] = first /\ sessions \in [Sid -> Row \cup {NoRow}]
  <2>1. \A s \in Sid : s # 0 <=> s > 0
    BY AccountsAssumption DEF Sid
  <2> QED
    BY <1>1, <1>2, <1>3, <2>1
<1>6. RowsOf(sessions)
  BY <1>2, <1>3, <1>4, <1>5 DEF RowsOf
<1>7. mfa \in Factor /\ mfa.row = 0 /\ backup \in {0, MaxRequests + 1}
  BY <1>2 DEF AccountsInit, NoMfa, Factor
<1>8. RestOK
  BY <1>1, <1>2, NoneIsTyped DEF RestOK
<1>9. req \in [Request -> Locals(Points)] /\ \A r \in Request : req[r] = Idle /\ ~ Active(r)
  BY <1>1, NoneIsTyped DEF Active
<1>10. user \in [epoch : Sid, password : Sid] /\ user.epoch = 0 /\ user.password = 0
  BY <1>1, <1>2
<1>11. AccountTypes
  <2>1. AccountsTypeOK
    <3>1. \A s \in Sid : sessions[s] # NoRow => sessions[s] \in Row /\ sessions[s].token.sid = s
      BY <1>2, <1>3, <1>5
    <3>2. mfa.method \in {"none", "email", "totp"} /\ backup \in 0 .. MaxRequests + 1
      BY <1>7, AccountsAssumption DEF Factor
    <3>3. user \in [epoch : 0 .. MaxRequests, password : 0 .. MaxRequests]
      BY <1>10 DEF Sid
    <3>4. \A r \in Request : req[r].at = "idle"
      BY <1>9, NoneIsTyped
    <3> QED
      BY <1>1, <1>2, <1>8, <3>1, <3>2, <3>3, <3>4 DEF AccountsTypeOK, RestOK
  <2> QED
    BY <1>1, <1>2, <1>5, <1>7, <1>8, <1>9, <2>1 DEF AccountTypes, RestOK
<1>12. IdsInv
  BY <1>9, NoneIsTyped DEF IdsInv
<1>13. LocalInv
  BY <1>1, <1>9, NoneIsTyped DEF LocalInv, LocalOK
<1>14. Used = {} /\ Old = {0} /\ OldCode = {0, MaxRequests + 1} /\ Cardinality(Used) = 0
  <2>1. Used = {}
    BY <1>1 DEF Used
  <2> QED
    BY <2>1, FS_EmptySet DEF Old, OldCode
<1>15. EpochInv
  BY <1>2, <1>3, <1>4, <1>5, <1>10, <1>14 DEF EpochInv
<1>16. SessionInv
  <2>1. \A s \in Sid : sessions[s].kind = "row" => s = 0
    BY <1>4, <1>5
  <2>2. \A s \in Sid : sessions[s].kind = "row" =>
          s \in Old /\ sessions[s].token.sid = s /\ sessions[s].token.fam \in Old
    BY <1>2, <1>3, <1>5, <1>14, <2>1
  <2>3. \A s \in Sid : Live(s) => sessions[s].password = user.password
    BY <1>3, <1>5, <1>10, <2>1 DEF Live
  <2>4. \A t \in issued : InFamily(t)
    BY <1>1, <1>2, <1>3, <1>5, <1>14 DEF InFamily
  <2>5. ClosedFamiliesStayClosed /\ OneSessionPerFamily
    BY <1>1, <2>1 DEF ClosedFamiliesStayClosed, OneSessionPerFamily, Live
  <2>6. NoSessionOutlivesTheAccount /\ NobodyInsideWithoutTheFactor
    BY <1>1, <1>3, <1>5, <2>1 DEF NoSessionOutlivesTheAccount, NobodyInsideWithoutTheFactor
  <2> QED
    BY <1>1, <2>2, <2>3, <2>4, <2>5, <2>6 DEF SessionInv
<1>17. SpentInv
  BY <1>1, <1>7, <1>14 DEF SpentInv, FactorsAreSpentOnce
<1> QED
  BY <1>11, <1>12, <1>13, <1>15, <1>16, <1>17 DEF AccountsInv

LEMMA AccountsStand ==
  ASSUME AccountsInv, UNCHANGED acctVars
  PROVE  AccountsInv'
<1>1. UNCHANGED <<user, sessions, issued, closed, factors, rotation, status, started, req>>
  BY DEF acctVars, account, banning
<1>2. /\ AccountTypes /\ SessionInv /\ RowsOf(sessions) /\ status \in {"ACTIVE", "BANNED", "DELETED"}
      /\ \A s \in Sid : sessions[s] \in Row \cup {NoRow}
  BY BeforeClosing, TypesAre
<1>3. RowsOf(sessions')
  BY <1>1, <1>2 DEF RowsOf
<1>4. \A s \in Sid : Weaker(sessions[s], sessions'[s])
  <2>1. \A x \in Row \cup {NoRow} : Weaker(x, x)
    BY WeakerRows
  <2> QED
    BY <1>1, <1>2, <2>1
<1>5. NoSessionOutlivesTheAccount'
  BY <1>1, <1>2 DEF NoSessionOutlivesTheAccount, SessionInv
<1> QED
  BY <1>1, <1>2, <1>3, <1>4, <1>5, CloseQuietly

LEMMA AccountsStep ==
  ASSUME AccountsInv, [AccountsNext]_acctVars
  PROVE  AccountsInv'
<1>1. CASE UNCHANGED acctVars
  BY <1>1, AccountsStand
<1>2. CASE BanStep
  BY <1>2, BanKeeps
<1>3. ASSUME NEW r \in Request,
             \/ LoginReads(r) \/ ReconcileLoginStatus(r) \/ LoginMethod(r)
             \/ \E c \in challenges : ClaimChallenge(r, c)
             \/ CreateSession(r) \/ VerifyReads(r) \/ ReadBackupCode(r) \/ SpendBackupCode(r)
             \/ SpendMailedCode(r) \/ (\E k \in Window : SpendTotp(r, k)) \/ CommitMfa(r)
      PROVE  AccountsInv'
  BY <1>3, LoginReadsKeeps, ReconcileLoginKeeps, LoginMethodKeeps, ClaimKeeps, CreateKeeps,
     VerifyReadsKeeps, ReadBackupKeeps, BackupKeeps, MailedKeeps, TotpKeeps, CommitKeeps
<1>4. ASSUME NEW r \in Request,
             \/ RefreshCached(r) \/ RefreshLock(r) \/ RefreshWait(r) \/ Rotate(r) \/ StoreRotation(r)
             \/ ResetReads(r) \/ ChangePassword(r) \/ ResetPassword(r) \/ DeleteAccount(r)
             \/ RevokeOthers(r) \/ Abandon(r)
      PROVE  AccountsInv'
  BY <1>4, RefreshKeeps, RotateKeeps, StoreKeeps, ResetReadsKeeps, ChangeKeeps, ResetKeeps,
     DeleteKeeps, RevokeOthersKeeps
<1>5. ASSUME NEW r \in Request, NEW t \in issued,
             \/ RefreshReads(r, t) \/ ChangeReads(r, t) \/ DeleteReads(r, t) \/ RevokeOthersReads(r, t)
             \/ \E kind \in {"email-enable", "totp-setup"} : ReadsPassword(r, t, kind)
             \/ \E k \in Window : ReadsSetup(r, t, k)
             \/ \E kind \in {"disable", "regenerate", "untrust"} : StepUp(r, t, kind)
      PROVE  AccountsInv'
  <2>1. CASE ChangeReads(r, t)
    BY <1>5, <2>1, ChangeReadsKeeps
  <2> QED
    BY <1>5, <2>1, ReadsKeep
<1>6. ASSUME NEW t \in issued, NEW s \in Sid, RevokeSession(t, s) PROVE AccountsInv'
  BY <1>6, RevokeSessionKeeps
<1>7. ASSUME NEW s \in Sid, SessionExpires(s) \/ DeleteExpiredSession(s) PROVE AccountsInv'
  BY <1>7, ExpireKeeps
<1>8. CASE RotationForgotten \/ FactorForgotten \/ NextStep
  BY <1>8, ForgottenKeeps
<1> QED
  BY <1>1, <1>2, <1>3, <1>4, <1>5, <1>6, <1>7, <1>8 DEF AccountsNext

\* The invariant says more than the property.
LEMMA InvariantMeansOwner == AccountsInv => OnlyTheOwnerIsInside
<1> SUFFICES ASSUME AccountsInv PROVE OnlyTheOwnerIsInside
  OBVIOUS
<1>1. AccountTypes /\ SessionInv /\ SpentInv
  BY DEF AccountsInv
<1>2. UsableSessionsKnowThePassword
  <2>1. \A t \in issued : t.sid \in Sid
    BY <1>1, TypesAre DEF Token
  <2> QED
    BY <1>1, <2>1 DEF SessionInv, UsableSessionsKnowThePassword, Usable, Current
<1> QED
  BY <1>1, <1>2 DEF AccountTypes, SessionInv, SpentInv, OnlyTheOwnerIsInside,
                    SessionsFollowTheAccount, FactorsGuardTheDoor

\* The inductive invariant of an account, type correctness included (auth.service.ts).
THEOREM AccountsInvariant == AccountsSpec => []AccountsInv
BY AccountsStart, AccountsStep, PTL DEF AccountsSpec

\* Whatever requests run together, fail half-way or come back: the sessions that work belong
\* to an active account and its password, one in a family, none in a closed family, none past
\* a second factor, and no factor is accepted twice (auth.service.ts, session.service.ts,
\* mfa.service.ts, sanction.service.ts).
THEOREM OwnerInside == AccountsSpec => []OnlyTheOwnerIsInside
BY AccountsInvariant, InvariantMeansOwner, PTL

=============================================================================
