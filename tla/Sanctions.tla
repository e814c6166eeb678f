------------------------------ MODULE Sanctions -----------------------------
(* The bans on one account and the status its row caches                     *)
(* (sanction.service.ts). Every operation locks the user's row and is one    *)
(* transaction; the clock moves bans from scheduled to active to expired.    *)
EXTENDS Naturals

CONSTANT MaxBans   \* bound: bans ever applied

ASSUME SanctionsAssumption == MaxBans \in Nat

VARIABLES status,  \* users.account_status
          bans     \* the sanctions of type BAN and their revocations

Ban == 1 .. MaxBans

SanctionsInit ==
  /\ status = "ACTIVE"
  /\ bans = [b \in Ban |-> [state |-> "none", revoked |-> FALSE]]

\* A ban that has started, has not run out and was not revoked.
Effective(b) == bans[b].state = "active" /\ ~bans[b].revoked
BannedNow == \E b \in Ban : Effective(b)

\* apply, for a ban that starts at once or later.
ApplyBan(b, state) ==
  /\ bans[b].state = "none" /\ \A c \in 1 .. b - 1 : bans[c].state # "none"
  /\ status # "DELETED"
  /\ bans' = [bans EXCEPT ![b].state = state]
  /\ status' = IF state = "active" THEN "BANNED" ELSE status

\* The query for another ban in force, and its omission.
NobodyElse(b) == TRUE
NoOtherActiveBan(b) == \A c \in Ban \ {b} : ~Effective(c)

RevokeBan(b) ==
  /\ bans[b].state # "none" /\ ~bans[b].revoked
  /\ bans' = [bans EXCEPT ![b].revoked = TRUE]
  /\ status' = IF NoOtherActiveBan(b) /\ status = "BANNED" THEN "ACTIVE" ELSE status

\* Time: a scheduled ban starts, an active one runs out.
BanTurns(b) ==
  /\ bans[b].state \in {"scheduled", "active"}
  /\ bans' = [bans EXCEPT ![b].state = IF @ = "scheduled" THEN "active" ELSE "expired"]
  /\ UNCHANGED status

\* reconcileUserStatus.
ReconcileUserStatus ==
  /\ status' = IF status = "DELETED" THEN status
               ELSE IF BannedNow THEN "BANNED" ELSE "ACTIVE"
  /\ UNCHANGED bans

\* The accounts the 60-second pass looks at: those cached as banned and those
\* with a ban in force; and a pass that looks at the first kind only.
CachedAsBanned == status = "BANNED"
ToReconcile == status = "BANNED" \/ BannedNow

RunScheduledReconciliation == ToReconcile /\ ReconcileUserStatus

\* The status column of deleteAccount.
MarkDeleted == status # "DELETED" /\ status' = "DELETED" /\ UNCHANGED bans

SanctionsStep ==
  \/ RunScheduledReconciliation
  \/ \E b \in Ban : \/ \E state \in {"active", "scheduled"} : ApplyBan(b, state)
                    \/ RevokeBan(b)
                    \/ BanTurns(b)

SanctionsNext == SanctionsStep \/ MarkDeleted

\* The reconciliation timer keeps running.
SanctionsSpec ==
  /\ SanctionsInit /\ [][SanctionsNext]_<<status, bans>>
  /\ WF_<<status, bans>>(RunScheduledReconciliation)

-----------------------------------------------------------------------------
\* Lifting or outliving one ban does not readmit a user whom another ban holds:
\* the account leaves BANNED for ACTIVE only when no ban is in force
\* (sanction.service.ts revoke, reconcileUserStatus).
BannedUntilTheLastBan ==
  [][status = "BANNED" /\ status' = "ACTIVE" => ~BannedNow']_<<status, bans>>

\* The status follows the bans: a scheduled ban that begins is enforced, and an
\* account whose bans ran out is readmitted, without anybody logging in
\* (sanction.service.ts runScheduledReconciliation).
StatusFollowsTheBans ==
  /\ (status = "ACTIVE" /\ BannedNow) ~> (status # "ACTIVE" \/ ~BannedNow)
  /\ (status = "BANNED" /\ ~BannedNow) ~> (status # "BANNED" \/ BannedNow)

\* Bans take effect, and only bans: the status follows them in both directions,
\* and never runs ahead of the last one (sanction.service.ts).
StatusMeansBans == BannedUntilTheLastBan /\ StatusFollowsTheBans

=============================================================================
