-------------------------------- MODULE Codes -------------------------------
(* The mailed verification codes of one address and purpose                  *)
(* (auth/verification-code.ts over redis/redis.service.ts). Every Redis call *)
(* of issue and of claim is a step of its own; requests interleave. A caller *)
(* that claimed the code performs its operation and then commits or releases *)
(* the claim; it may also die in between, or take longer than the claim      *)
(* lives.                                                                    *)
EXTENDS Naturals, FiniteSets

CONSTANTS Caller,       \* bound: requests at work at once
          MaxAttempts,  \* wrong answers a code takes
          MaxCodes      \* bound: codes issued

ASSUME CodesAssumption == {MaxAttempts, MaxCodes} \subseteq Nat

VARIABLES savedCode,  \* the code key: 0 or the number of the code
          cooldown,   \* the cooldown key exists
          attempts,   \* the attempts key
          claimOf,    \* the claim key: 0 or the caller whose claim it is
          step,       \* where each caller stands
          holds,      \* the code a caller read, wrote or claimed
          issuedCodes,
          honoured    \* history: operations performed with each code

codeVars == <<savedCode, cooldown, attempts, claimOf, step, holds, issuedCodes,
              honoured>>

Code == 1 .. MaxCodes
NoCaller == "none"

CodesInit ==
  /\ savedCode = 0 /\ cooldown = FALSE /\ attempts = 0 /\ claimOf = NoCaller
  /\ step = [c \in Caller |-> "idle"] /\ holds = [c \in Caller |-> 0]
  /\ issuedCodes = 0
  /\ honoured = [k \in Code |-> 0]

At(c, from, to) == step[c] = from /\ step' = [step EXCEPT ![c] = to]

\* issueVerificationCode: no live code, no cooldown, then the code is written
\* and the attempts are forgotten. The counts per minute and per hour only
\* refuse more often and are left out.
IssueReads(c) ==
  /\ savedCode = 0
  /\ At(c, "idle", "issuing")
  /\ UNCHANGED <<savedCode, cooldown, attempts, claimOf, holds, issuedCodes, honoured>>

IssueCools(c) ==
  /\ At(c, "issuing", IF cooldown \/ issuedCodes = MaxCodes THEN "idle" ELSE "writing")
  /\ cooldown' = TRUE
  /\ UNCHANGED <<savedCode, attempts, claimOf, holds, issuedCodes, honoured>>

IssueWrites(c) ==
  /\ issuedCodes < MaxCodes
  /\ At(c, "writing", "resetting")
  /\ savedCode' = issuedCodes + 1 /\ issuedCodes' = issuedCodes + 1
  /\ UNCHANGED <<cooldown, attempts, claimOf, holds, honoured>>

IssueResets(c) ==
  /\ At(c, "resetting", "idle")
  /\ attempts' = 0
  /\ UNCHANGED <<savedCode, cooldown, claimOf, holds, issuedCodes, honoured>>

\* claimVerificationCode with the right answer: read, then compare and claim.
ClaimReads(c) ==
  /\ savedCode # 0
  /\ At(c, "idle", "claiming")
  /\ holds' = [holds EXCEPT ![c] = savedCode]
  /\ UNCHANGED <<savedCode, cooldown, attempts, claimOf, issuedCodes, honoured>>

\* What compareAndClaim leaves at the code key: nothing; and one that leaves the
\* code there while it is used.
LeavesTheCode == savedCode
TakesTheCode == 0

CompareAndClaim(c) ==
  LET claims == claimOf = NoCaller /\ savedCode = holds[c]
  IN  /\ At(c, "claiming", IF claims THEN "working" ELSE "idle")
      /\ claimOf' = IF claims THEN c ELSE claimOf
      /\ savedCode' = IF claims THEN TakesTheCode ELSE savedCode
      /\ UNCHANGED <<cooldown, attempts, holds, issuedCodes, honoured>>

\* The operation the code authorises, and what follows it.
Perform(c) ==
  /\ At(c, "working", "committing")
  /\ honoured' = [honoured EXCEPT ![holds[c]] = @ + 1]
  /\ UNCHANGED <<savedCode, cooldown, attempts, claimOf, holds, issuedCodes>>

CommitClaim(c) ==
  /\ At(c, "committing", "idle")
  /\ claimOf' = IF claimOf = c THEN NoCaller ELSE claimOf
  /\ attempts' = 0
  /\ UNCHANGED <<savedCode, cooldown, holds, issuedCodes, honoured>>

\* releaseClaim gives the code back only while the claim is still the caller's.
StillClaims(c) == claimOf = c

ReleaseClaim(c) ==
  /\ At(c, "working", "idle")
  /\ claimOf' = IF StillClaims(c) THEN NoCaller ELSE claimOf
  /\ savedCode' = IF StillClaims(c) THEN holds[c] ELSE savedCode
  /\ UNCHANGED <<cooldown, attempts, holds, issuedCodes, honoured>>

\* The same with a wrong answer: read and compared, counted (here to one past the
\* limit), and at the limit the code is deleted.
GuessReads(c) ==
  /\ savedCode # 0
  /\ At(c, "idle", "counting")
  /\ UNCHANGED <<savedCode, cooldown, attempts, claimOf, holds, issuedCodes, honoured>>

GuessCounts(c) ==
  /\ At(c, "counting", IF attempts + 1 >= MaxAttempts THEN "deleting" ELSE "idle")
  /\ attempts' = IF attempts > MaxAttempts THEN attempts ELSE attempts + 1
  /\ UNCHANGED <<savedCode, cooldown, claimOf, holds, issuedCodes, honoured>>

GuessDeletes(c) ==
  /\ At(c, "deleting", "idle")
  /\ savedCode' = 0
  /\ UNCHANGED <<cooldown, attempts, claimOf, holds, issuedCodes, honoured>>

\* Redis forgets: the cooldown after a minute, the claim after 30 seconds, the
\* code after five minutes. A process dies.
CodeTimePasses ==
  \/ cooldown /\ cooldown' = FALSE
     /\ UNCHANGED <<savedCode, attempts, claimOf, step, holds, issuedCodes, honoured>>
  \/ claimOf # NoCaller /\ claimOf' = NoCaller
     /\ UNCHANGED <<savedCode, cooldown, attempts, step, holds, issuedCodes, honoured>>
  \/ savedCode # 0 /\ savedCode' = 0
     /\ UNCHANGED <<cooldown, attempts, claimOf, step, holds, issuedCodes, honoured>>

CallerDies(c) ==
  /\ step[c] # "idle" /\ step' = [step EXCEPT ![c] = "idle"]
  /\ UNCHANGED <<savedCode, cooldown, attempts, claimOf, holds, issuedCodes, honoured>>

CodesNext ==
  \/ CodeTimePasses
  \/ \E c \in Caller :
       \/ IssueReads(c) \/ IssueCools(c) \/ IssueWrites(c) \/ IssueResets(c)
       \/ ClaimReads(c) \/ CompareAndClaim(c)
       \/ Perform(c) \/ CommitClaim(c) \/ ReleaseClaim(c)
       \/ GuessReads(c) \/ GuessCounts(c) \/ GuessDeletes(c)
       \/ CallerDies(c)

CodesSpec == CodesInit /\ [][CodesNext]_codeVars

-----------------------------------------------------------------------------
\* A code authorises at most one operation, though several requests bring it at
\* once, a claim outlives its time or its caller, or an operation fails and
\* gives the code back (verification-code.ts claim, commit, release).
CodeWorksOnce == \A k \in Code : honoured[k] <= 1

=============================================================================
