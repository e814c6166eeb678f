------------------------------ MODULE Accounts ------------------------------
(* One account of the matching server: its row, its sessions, its second     *)
(* factor and the bans on it (auth.service.ts, session.service.ts,           *)
(* mfa.service.ts, sanction.service.ts, user.service.ts, jwt-auth.guard.ts). *)
(* Every HTTP request is a process that reads the database and Redis step by *)
(* step; a database transaction that locks the user's row is one step.       *)
(* Whether a password or a mailed code is right is a choice of the           *)
(* environment; VerificationCodes says what a mailed code can do.            *)
EXTENDS Sanctions, Integers, FiniteSets

CONSTANTS Request,      \* the requests that may be under way together
          MaxRequests,  \* bound: requests ever started
          MaxStep       \* bound: the last 30-second TOTP step

ASSUME AccountsAssumption ==
  /\ Request # {}
  /\ MaxRequests \in Nat /\ MaxStep \in Nat

VARIABLES
  user,       \* password and security epoch of the users row
  sessions,   \* the sessions table
  issued,     \* refresh tokens a client was given
  closed,     \* ghost: families closed because a spent token came back
  mfa,        \* the mfaSettings row
  backup,     \* the unused backup code of the current set, or 0
  devices,    \* trusted devices, each the number of the request that added it
  challenges, \* login challenges in Redis
  setup,      \* the TOTP setup in Redis
  cache,      \* auth:rotate-result: what a spent token was exchanged for
  lock,       \* auth:rotate-lock: which request rotates a token
  spent,      \* ghost: second factors with the times each was accepted
  clock,      \* the current TOTP step
  started,    \* requests started so far
  req         \* the local variables of the requests

account == <<user, sessions, issued, closed>>
factors == <<mfa, backup, devices, challenges, setup, spent, clock>>
rotation == <<cache, lock>>
banning == <<status, bans>>
acctVars == <<account, factors, rotation, banning, started, req>>

Sid == 0 .. MaxRequests
Token == [sid : Sid, fam : Sid, gen : 0 .. MaxRequests, sev : 0 .. MaxRequests]
NoToken == [sid |-> 0, fam |-> 0, gen |-> 0, sev |-> 0]
NoRow == [kind |-> "none"]
Row == [kind : {"row"}, token : Token, revoked : BOOLEAN, expired : BOOLEAN,
        password : 0 .. MaxRequests, under : {"none", "email", "totp"},
        auth : {"none", "email", "totp", "device"}]
NoMfa == [method |-> "none", row |-> 0, secret |-> 0, lastStep |-> 0]
NoSetup == [secret |-> 0, epoch |-> 0]
Idle == [at |-> "idle", kind |-> "none", id |-> 0, epoch |-> 0, password |-> 0,
         auth |-> "none", token |-> NoToken, next |-> NoToken, mfa |-> NoMfa,
         seen |-> {}]

Live(s) == sessions[s].kind = "row" /\ ~sessions[s].revoked
Current(s) == Live(s) /\ ~sessions[s].expired

\* JwtAuthGuard: what lets the access token that came with refresh token t in.
Usable(t) ==
  /\ Current(t.sid)
  /\ status = "ACTIVE"
  /\ user.epoch = t.sev

\* The account starts with one session, opened before any second factor.
AccountsInit ==
  /\ SanctionsInit
  /\ user = [epoch |-> 0, password |-> 0]
  /\ sessions = [s \in Sid |-> IF s > 0 THEN NoRow
       ELSE [kind |-> "row", token |-> NoToken, revoked |-> FALSE, expired |-> FALSE,
             password |-> 0, under |-> "none", auth |-> "none"]]
  /\ issued = {NoToken} /\ closed = {}
  /\ mfa \in {NoMfa, [method |-> "email", row |-> 0, secret |-> 0, lastStep |-> 0],
              [method |-> "totp", row |-> 0, secret |-> 0, lastStep |-> 0]}
  /\ backup = IF mfa = NoMfa THEN 0 ELSE MaxRequests + 1
  /\ devices = {} /\ challenges = {}
  /\ setup = NoSetup
  /\ cache = {} /\ lock = {}
  /\ spent = {}
  /\ clock = 1
  /\ started = 0
  /\ req = [r \in Request |-> Idle]

-----------------------------------------------------------------------------
(* Requests.                                                                 *)

Becomes(r, local) == req' = [req EXCEPT ![r] = local]
Step(r, at) == Becomes(r, [req[r] EXCEPT !.at = at])
Done(r) == Becomes(r, Idle)

Start(r, local) ==
  /\ req[r].at = "idle"
  /\ started < MaxRequests
  /\ started' = started + 1
  /\ Becomes(r, [local EXCEPT !.id = started + 1])

NewRequest(at, kind) == [Idle EXCEPT !.at = at, !.kind = kind]

\* A process that dies, or a database that fails, leaves the locks and claims of
\* the request to their time limits.
Abandon(r) ==
  /\ req[r].at # "idle"
  /\ Done(r)
  /\ UNCHANGED <<account, factors, rotation, banning, started>>

-----------------------------------------------------------------------------
(* Bans (sanction.service.ts): the transaction that bans deletes the         *)
(* sessions.                                                                 *)

KeptBy(new) == IF new = "BANNED" /\ status # "BANNED" THEN [s \in Sid |-> NoRow] ELSE sessions

BanStep ==
  /\ SanctionsStep
  /\ sessions' = KeptBy(status')
  /\ UNCHANGED <<user, issued, closed, factors, rotation, started, req>>

-----------------------------------------------------------------------------
(* Login (auth.service.ts login, completeMfaLogin, createSession).           *)

LoginReads(r) ==
  /\ status # "DELETED"
  /\ Start(r, [NewRequest(IF status = "BANNED" THEN "reconcile" ELSE "method", "login")
               EXCEPT !.epoch = user.epoch, !.password = user.password])
  /\ UNCHANGED <<account, factors, rotation, banning>>

\* reconcileLoginStatus for a login or a refresh that read a BANNED row.
ReconcileLoginStatus(r) ==
  /\ req[r].at = "reconcile"
  /\ ReconcileUserStatus
  /\ sessions' = KeptBy(status')
  /\ IF status' # "ACTIVE" THEN Done(r)
     ELSE Step(r, IF req[r].kind = "login" THEN "method" ELSE "cached")
  /\ UNCHANGED <<user, issued, closed, factors, rotation, started>>

\* getMethod and, with a second factor, the trusted device or a challenge.
LoginMethod(r) ==
  /\ req[r].at = "method"
  /\ \/ /\ mfa.method = "none"
        /\ Step(r, "create") /\ UNCHANGED challenges
     \/ /\ mfa.method # "none"
        /\ \E d \in devices : Becomes(r, [req[r] EXCEPT !.at = "create", !.auth = "device",
                                                          !.seen = {d}])
        /\ UNCHANGED challenges
     \/ /\ mfa.method # "none"
        /\ challenges' = challenges \cup {[req[r] EXCEPT !.at = "challenge", !.auth = mfa.method]}
        /\ Done(r)
  /\ UNCHANGED <<account, mfa, backup, devices, setup, spent, clock, rotation, banning, started>>

\* completeLoginChallenge: the challenge is claimed before the factor is tried.
ClaimChallenge(r, c) ==
  /\ Start(r, [c EXCEPT !.at = "verify"])
  /\ challenges' = challenges \ {c}
  /\ UNCHANGED <<account, mfa, backup, devices, setup, spent, clock, rotation, banning>>

\* assertLoginAuthorized, in the transaction that opens the session.
LoginAuthorized(r) ==
  \/ mfa.method = "none"
  \/ req[r].auth = mfa.method
  \/ req[r].auth = "device" /\ req[r].seen \subseteq devices

SameEpoch(r) == user.epoch = req[r].epoch
AccountActive == status = "ACTIVE"

CreateSession(r) ==
  LET token == [sid |-> req[r].id, fam |-> req[r].id, gen |-> 0, sev |-> user.epoch]
  IN /\ req[r].at = "create"
     /\ Done(r)
     /\ IF AccountActive /\ SameEpoch(r) /\ LoginAuthorized(r)
        THEN /\ sessions' = [sessions EXCEPT ![req[r].id] =
                   [kind |-> "row", token |-> token, revoked |-> FALSE, expired |-> FALSE,
                    password |-> req[r].password, under |-> mfa.method, auth |-> req[r].auth]]
             /\ issued' = issued \cup {token}
             /\ \/ UNCHANGED devices
                \/ /\ req[r].auth \in {"email", "totp"}
                   /\ devices' = devices \cup {req[r].id}
        ELSE UNCHANGED <<sessions, issued, devices>>
     /\ UNCHANGED <<user, closed, mfa, backup, challenges, setup, spent, clock, rotation, banning, started>>

-----------------------------------------------------------------------------
(* The second factor (mfa.service.ts verifyFactor).                          *)

Window == {k \in 1 .. MaxStep : k \in clock - 1 .. clock + 1}

\* Where a request goes once its factor is accepted.
After(kind) == IF kind = "login" THEN "create" ELSE "commit"

\* A refused login gives its challenge back; every other request just fails.
Refused(r) ==
  /\ Done(r)
  /\ \/ /\ req[r].kind = "login"
        /\ challenges' = challenges \cup {[req[r] EXCEPT !.at = "challenge", !.mfa = NoMfa]}
     \/ UNCHANGED challenges

VerifyReads(r) ==
  /\ req[r].at = "verify"
  /\ IF mfa.method = req[r].auth
     THEN Becomes(r, [req[r] EXCEPT !.at = "spend", !.mfa = mfa]) /\ UNCHANGED challenges
     ELSE Refused(r)
  /\ UNCHANGED <<account, mfa, backup, devices, setup, spent, clock, rotation, banning, started>>

\* How often factor f was accepted, counted up to two.
Uses(f) == Cardinality({u \in spent : u[1] = f})
Accepted(f) == spent' = spent \cup {<<f, Uses(f) + 1>>}

FreshStep(k) == mfa.method = "totp" /\ mfa.lastStep < k

SpendTotp(r, k) ==
  /\ req[r].at = "spend" /\ req[r].mfa.method = "totp"
  /\ IF FreshStep(k)
     THEN /\ mfa' = [mfa EXCEPT !.lastStep = k, !.secret = req[r].mfa.secret]
          /\ Accepted(<<"totp", mfa.row, req[r].mfa.secret, k>>)
          /\ Step(r, After(req[r].kind)) /\ UNCHANGED challenges
     ELSE Refused(r) /\ UNCHANGED <<mfa, spent>>
  /\ UNCHANGED <<account, backup, devices, setup, clock, rotation, banning, started>>

\* consumeBackupCode: the row is read, the hash compared, the row then updated
\* only if it is still unused.
ReadBackupCode(r) ==
  /\ req[r].at = "spend" /\ backup # 0
  /\ Becomes(r, [req[r] EXCEPT !.at = "backup", !.seen = {backup}])
  /\ UNCHANGED <<account, factors, rotation, banning, started>>

WasUnused(r) == req[r].seen # {}
StillUnused(r) == backup \in req[r].seen

SpendBackupCode(r) ==
  /\ req[r].at = "backup"
  /\ IF StillUnused(r)
     THEN /\ backup' = 0
          /\ \E b \in req[r].seen : Accepted(<<"backup", 0, b, 0>>)
          /\ Becomes(r, [req[r] EXCEPT !.at = After(req[r].kind), !.seen = {}])
          /\ UNCHANGED challenges
     ELSE Refused(r) /\ UNCHANGED <<backup, spent>>
  /\ UNCHANGED <<account, mfa, devices, setup, clock, rotation, banning, started>>

\* A mailed code: right or wrong, and refused for an account that is not active.
SpendMailedCode(r) ==
  /\ req[r].at = "spend" /\ req[r].mfa.method = "email"
  /\ \/ status = "ACTIVE" /\ Step(r, After(req[r].kind)) /\ UNCHANGED challenges
     \/ Refused(r)
  /\ UNCHANGED <<account, mfa, backup, devices, setup, spent, clock, rotation, banning, started>>

-----------------------------------------------------------------------------
(* Switching the second factor on and off.                                   *)

\* enableEmail and startTotpSetup first compare the current password.
ReadsPassword(r, t, kind) ==
  /\ Usable(t)
  /\ kind = "totp-setup" => mfa.method = "none"
  /\ Start(r, [NewRequest("commit", kind) EXCEPT !.epoch = user.epoch,
                                                 !.password = user.password])
  /\ UNCHANGED <<account, factors, rotation, banning>>

\* confirmTotpSetup: the code is right for step k of the secret in the setup.
ReadsSetup(r, t, k) ==
  /\ Usable(t) /\ setup # NoSetup
  /\ Start(r, [NewRequest("commit", "totp-confirm") EXCEPT !.epoch = setup.epoch,
               !.mfa = [method |-> "totp", row |-> 0, secret |-> setup.secret, lastStep |-> k]])
  /\ UNCHANGED <<account, factors, rotation, banning>>

\* authorizeStepUp for disable, regenerateBackupCodes and revokeTrustedDevice.
StepUp(r, t, kind) ==
  /\ Usable(t) /\ mfa.method # "none"
  /\ Start(r, [NewRequest("verify", kind) EXCEPT !.auth = mfa.method])
  /\ UNCHANGED <<account, factors, rotation, banning>>

\* The transactions behind them.
Unchanged(r) == AccountActive /\ SameEpoch(r) /\ mfa.method = "none"
StillAuthorized(r) == AccountActive /\ mfa.method # "none" /\ req[r].auth = mfa.method

CommitMfa(r) ==
  /\ req[r].at = "commit"
  /\ Done(r)
  /\ \/ /\ req[r].kind = "email-enable"
        /\ IF Unchanged(r) /\ user.password = req[r].password
           THEN /\ mfa' = [method |-> "email", row |-> req[r].id, secret |-> 0, lastStep |-> 0]
                /\ backup' = req[r].id
           ELSE UNCHANGED <<mfa, backup>>
        /\ UNCHANGED <<devices, setup>>
     \/ /\ req[r].kind = "totp-setup"
        /\ setup' = [secret |-> req[r].id, epoch |-> req[r].epoch]
        /\ UNCHANGED <<mfa, backup, devices>>
     \/ /\ req[r].kind = "totp-confirm"
        /\ IF Unchanged(r)
           THEN /\ mfa' = [req[r].mfa EXCEPT !.row = req[r].id]
                /\ backup' = req[r].id
                /\ setup' = IF setup.secret = req[r].mfa.secret THEN NoSetup ELSE setup
           ELSE UNCHANGED <<mfa, backup, setup>>
        /\ UNCHANGED devices
     \/ /\ req[r].kind = "disable"
        /\ IF StillAuthorized(r)
           THEN mfa' = NoMfa /\ backup' = 0 /\ devices' = {} /\ setup' = NoSetup
           ELSE UNCHANGED <<mfa, backup, devices, setup>>
     \/ /\ req[r].kind = "regenerate"
        /\ backup' = IF StillAuthorized(r) THEN req[r].id ELSE backup
        /\ UNCHANGED <<mfa, devices, setup>>
     \/ /\ req[r].kind = "untrust"
        /\ IF StillAuthorized(r) /\ devices # {}
           THEN \E d \in devices : devices' = devices \ {d}
           ELSE UNCHANGED devices
        /\ UNCHANGED <<mfa, backup, setup>>
  /\ UNCHANGED <<account, challenges, spent, clock, rotation, banning, started>>

-----------------------------------------------------------------------------
(* Rotation of refresh tokens (auth.service.ts refresh).                     *)

RefreshReads(r, t) ==
  /\ t.sev = user.epoch
  /\ status # "DELETED"
  /\ Start(r, [NewRequest(IF status = "BANNED" THEN "reconcile" ELSE "cached", "refresh")
               EXCEPT !.token = t])
  /\ UNCHANGED <<account, factors, rotation, banning>>

\* The result of a rotation that just took place is handed out again; a Redis
\* that fails counts as an empty cache.
RefreshCached(r) ==
  /\ req[r].at = "cached"
  /\ \/ (\E c \in cache : c[1] = req[r].token) /\ Done(r)
     \/ Step(r, "lock")
  /\ UNCHANGED <<account, factors, rotation, banning, started>>

\* setIfAbsent: one request rotates, the others wait for its result. A Redis
\* that fails lets the request through to the database.
RefreshLock(r) ==
  /\ req[r].at = "lock"
  /\ \/ /\ \A l \in lock : l[1] # req[r].token
        /\ lock' = lock \cup {<<req[r].token, r>>}
        /\ Step(r, "rotate")
     \/ /\ \E l \in lock : l[1] = req[r].token
        /\ Step(r, "wait") /\ UNCHANGED lock
     \/ Step(r, "rotate") /\ UNCHANGED lock
  /\ UNCHANGED <<account, factors, cache, banning, started>>

\* Forty looks at the cache; with or without a result the request ends.
RefreshWait(r) ==
  /\ req[r].at = "wait"
  /\ Done(r)
  /\ UNCHANGED <<account, factors, rotation, banning, started>>

\* The row that carries exactly this token.
Holds(t) == sessions[t.sid].kind = "row" /\ sessions[t.sid].token = t
Successor(t, id) == [sid |-> id, fam |-> t.fam, gen |-> t.gen + 1, sev |-> user.epoch]

RevokedBy(S) == [s \in Sid |-> IF s \in S /\ sessions[s].kind = "row"
                               THEN [sessions[s] EXCEPT !.revoked = TRUE] ELSE sessions[s]]
Family(f) == {s \in Sid : sessions[s].kind = "row" /\ sessions[s].token.fam = f}

\* The session whose token is exchanged.
Exchanged(t) == RevokedBy({t.sid})

\* The answer to a token that was exchanged before: the family is closed.
CloseFamily(f) ==
  /\ sessions' = RevokedBy(Family(f))
  /\ closed' = closed \cup {f}

Unlocked(r) == {l \in lock : l[2] # r}

Rotate(r) ==
  LET t == req[r].token
      next == Successor(t, req[r].id)
  IN /\ req[r].at = "rotate"
     /\ IF ~AccountActive \/ user.epoch # t.sev \/ ~Holds(t)
        THEN UNCHANGED <<sessions, closed>> /\ Done(r) /\ lock' = Unlocked(r)
        ELSE IF sessions[t.sid].expired
        THEN /\ sessions' = RevokedBy({t.sid})
             /\ UNCHANGED closed /\ Done(r) /\ lock' = Unlocked(r)
        ELSE IF sessions[t.sid].revoked
        THEN CloseFamily(t.fam) /\ Done(r) /\ lock' = Unlocked(r)
        ELSE /\ sessions' = [Exchanged(t) EXCEPT ![next.sid] =
                               [sessions[t.sid] EXCEPT !.token = next]]
             /\ Becomes(r, [req[r] EXCEPT !.at = "store", !.next = next])
             /\ UNCHANGED <<closed, lock>>
     /\ UNCHANGED <<user, issued, factors, cache, banning, started>>

\* The committed rotation is cached, the lock given back and the token sent; a
\* Redis that fails keeps neither from the client.
StoreRotation(r) ==
  /\ req[r].at = "store"
  /\ issued' = issued \cup {req[r].next}
  /\ \/ /\ cache' = cache \cup {<<req[r].token, req[r].next>>}
        /\ lock' = Unlocked(r)
     \/ UNCHANGED rotation
  /\ Done(r)
  /\ UNCHANGED <<user, sessions, closed, factors, banning, started>>

\* Time limits of the two Redis keys.
RotationForgotten ==
  /\ \/ \E c \in cache : cache' = cache \ {c} /\ UNCHANGED lock
     \/ \E l \in lock : lock' = lock \ {l} /\ UNCHANGED cache
  /\ UNCHANGED <<account, factors, banning, started, req>>

-----------------------------------------------------------------------------
(* Passwords, sign-out and deletion.                                         *)

\* changePassword: the guard, the hash and the comparison come before the
\* transaction.
ChangeReads(r, t) ==
  /\ Usable(t)
  /\ Start(r, [NewRequest("commit", "change") EXCEPT !.password = user.password, !.token = t])
  /\ UNCHANGED <<account, factors, rotation, banning>>

\* resetPassword: the mailed code was right.
ResetReads(r) ==
  /\ status # "DELETED"
  /\ Start(r, IF status = "ACTIVE" /\ mfa.method # "none"
              THEN [NewRequest("verify", "reset") EXCEPT !.auth = mfa.method]
              ELSE NewRequest("commit", "reset"))
  /\ UNCHANGED <<account, factors, rotation, banning>>

\* deleteUser: with an authenticator a code is asked for, with mail the code
\* that confirms the deletion is the factor.
DeleteReads(r, t) ==
  /\ Usable(t)
  /\ Start(r, [NewRequest(IF mfa.method = "totp" THEN "verify" ELSE "commit", "delete")
               EXCEPT !.auth = mfa.method])
  /\ UNCHANGED <<account, factors, rotation, banning>>

NewPassword == [user EXCEPT !.password = @ + 1, !.epoch = @ + 1]

\* renewPasswordSession signs the session that changed the password anew.
Renewed(t) == [t EXCEPT !.gen = sessions[t.sid].token.gen + 1, !.sev = user.epoch + 1]
StillThere(s) == sessions[s].kind = "row"
StillCurrent(s) == Current(s)

ChangePassword(r) ==
  LET t == req[r].token
      new == Renewed(t)
  IN /\ req[r].at = "commit" /\ req[r].kind = "change"
     /\ Done(r)
     /\ IF StillCurrent(t.sid) /\ user.password = req[r].password
        THEN /\ user' = NewPassword
             /\ sessions' = [RevokedBy({s \in Sid : Live(s)}) EXCEPT ![t.sid] =
                               [sessions[t.sid] EXCEPT !.token = new, !.revoked = FALSE,
                                                       !.password = user.password + 1]]
             /\ issued' = issued \cup {new}
        ELSE UNCHANGED <<user, sessions, issued>>
     /\ UNCHANGED <<closed, factors, rotation, banning, started>>

\* assertAccountAuthorizationCurrent.
ResetPassword(r) ==
  /\ req[r].at = "commit" /\ req[r].kind = "reset"
  /\ Done(r)
  /\ IF AccountActive /\ (mfa.method = "none" \/ req[r].auth = mfa.method)
     THEN /\ user' = NewPassword
          /\ sessions' = RevokedBy({s \in Sid : Live(s)})
     ELSE UNCHANGED <<user, sessions>>
  /\ UNCHANGED <<issued, closed, factors, rotation, banning, started>>

DeleteAccount(r) ==
  /\ req[r].at = "commit" /\ req[r].kind = "delete"
  /\ Done(r)
  /\ IF status # "DELETED" /\ (mfa.method = "none" \/ req[r].auth = mfa.method)
     THEN /\ MarkDeleted
          /\ user' = [user EXCEPT !.epoch = @ + 1]
          /\ sessions' = [s \in Sid |-> NoRow]
          /\ devices' = {} /\ backup' = 0 /\ mfa' = NoMfa /\ setup' = NoSetup
     ELSE UNCHANGED <<user, sessions, mfa, backup, devices, setup, banning>>
  /\ UNCHANGED <<issued, closed, challenges, spent, clock, rotation, started>>

\* revoke and revokeCurrent (logout): one row by its id.
RevokeSession(t, s) ==
  /\ Usable(t) /\ Live(s)
  /\ sessions' = RevokedBy({s})
  /\ UNCHANGED <<user, issued, closed, factors, rotation, banning, started, req>>

\* revokeOthers without the user's row locked: the rows it finds, then the rows
\* it updates. A rotation may commit in between.
RevokeOthersReads(r, t) ==
  /\ Usable(t)
  /\ Start(r, [NewRequest("commit", "others") EXCEPT !.seen = {s \in Sid \ {t.sid} : Live(s)}])
  /\ UNCHANGED <<account, factors, rotation, banning>>

RevokeOthers(r) ==
  /\ req[r].at = "commit" /\ req[r].kind = "others"
  /\ sessions' = RevokedBy(req[r].seen)
  /\ Done(r)
  /\ UNCHANGED <<user, issued, closed, factors, rotation, banning, started>>

-----------------------------------------------------------------------------
(* Time and retention.                                                       *)

SessionExpires(s) ==
  /\ sessions[s].kind = "row" /\ ~sessions[s].expired
  /\ sessions' = [sessions EXCEPT ![s] = [@ EXCEPT !.expired = TRUE]]
  /\ UNCHANGED <<user, issued, closed, factors, rotation, banning, started, req>>

\* retention.service.ts deleteExpiredSessions.
DeleteExpiredSession(s) ==
  /\ sessions[s].kind = "row" /\ (sessions[s].revoked \/ sessions[s].expired)
  /\ sessions' = [sessions EXCEPT ![s] = NoRow]
  /\ UNCHANGED <<user, issued, closed, factors, rotation, banning, started, req>>

NextStep ==
  /\ clock < MaxStep
  /\ clock' = clock + 1
  /\ UNCHANGED <<account, mfa, backup, devices, challenges, setup, spent, rotation, banning, started, req>>

\* Time limits of a challenge, a setup and a trusted device.
FactorForgotten ==
  /\ \/ \E c \in challenges : challenges' = challenges \ {c} /\ UNCHANGED <<devices, setup>>
     \/ setup # NoSetup /\ setup' = NoSetup /\ UNCHANGED <<devices, challenges>>
     \/ \E d \in devices : devices' = devices \ {d} /\ UNCHANGED <<challenges, setup>>
  /\ UNCHANGED <<account, mfa, backup, spent, clock, rotation, banning, started, req>>

-----------------------------------------------------------------------------
AccountsNext ==
  \/ BanStep
  \/ \E r \in Request :
       \/ LoginReads(r) \/ ReconcileLoginStatus(r) \/ LoginMethod(r)
       \/ \E c \in challenges : ClaimChallenge(r, c)
       \/ CreateSession(r)
       \/ VerifyReads(r) \/ ReadBackupCode(r) \/ SpendBackupCode(r) \/ SpendMailedCode(r)
       \/ \E k \in Window : SpendTotp(r, k)
       \/ CommitMfa(r)
       \/ RefreshCached(r) \/ RefreshLock(r) \/ RefreshWait(r) \/ Rotate(r) \/ StoreRotation(r)
       \/ ResetReads(r) \/ ChangePassword(r) \/ ResetPassword(r) \/ DeleteAccount(r)
       \/ RevokeOthers(r) \/ Abandon(r)
       \/ \E t \in issued :
            \/ RefreshReads(r, t) \/ ChangeReads(r, t) \/ DeleteReads(r, t)
            \/ RevokeOthersReads(r, t)
            \/ \E kind \in {"email-enable", "totp-setup"} : ReadsPassword(r, t, kind)
            \/ \E k \in Window : ReadsSetup(r, t, k)
            \/ \E kind \in {"disable", "regenerate", "untrust"} : StepUp(r, t, kind)
  \/ \E t \in issued, s \in Sid : RevokeSession(t, s)
  \/ \E s \in Sid : SessionExpires(s) \/ DeleteExpiredSession(s)
  \/ RotationForgotten \/ FactorForgotten \/ NextStep

AccountsSpec == AccountsInit /\ [][AccountsNext]_acctVars


-----------------------------------------------------------------------------
(* Properties.                                                               *)

\* The shape of the state; only rows that exist count as live, and a session's
\* row and its token agree on the session.
AccountsTypeOK ==
  /\ status \in {"ACTIVE", "BANNED", "DELETED"}
  /\ user \in [epoch : 0 .. MaxRequests, password : 0 .. MaxRequests]
  /\ \A s \in Sid : sessions[s] # NoRow => sessions[s] \in Row /\ sessions[s].token.sid = s
  /\ issued \subseteq Token
  /\ mfa.method \in {"none", "email", "totp"}
  /\ backup \in 0 .. MaxRequests + 1
  /\ devices \subseteq Sid
  /\ cache \subseteq Token \X Token /\ lock \subseteq Token \X Request
  /\ started \in 0 .. MaxRequests
  /\ \A r \in Request : req[r].at \in {"idle", "reconcile", "method", "create", "verify",
       "spend", "backup", "commit", "cached", "lock", "wait", "rotate", "store"}

\* Whoever the guard lets in opened the session with the password the account
\* has now, or changed the password from it: a login, a refresh or a change that
\* was under way while somebody reset the password never leaves a session that
\* works (auth.service.ts resetPassword, createSession, refresh;
\* user.service.ts changePassword).
UsableSessionsKnowThePassword ==
  \A t \in issued : Usable(t) => sessions[t.sid].password = user.password

\* Once a spent refresh token came back and closed its family, no session of the
\* family is ever live again, whatever rotations and password changes were
\* under way (auth.service.ts refresh, renewPasswordSession).
ClosedFamiliesStayClosed ==
  \A s \in Sid : Live(s) => sessions[s].token.fam \notin closed

\* A family has one live session: two requests that rotate the same token, with
\* or without the Redis lock, never both get a successor that works.
OneSessionPerFamily ==
  \A s, u \in Sid : Live(s) /\ Live(u) /\ s # u
                      => sessions[s].token.fam # sessions[u].token.fam

\* A session opened while the second factor was on passed that factor, or came
\* from a device that had: switching the factor on while a login is under way
\* does not let the login past it (mfa.service.ts assertLoginAuthorized).
NobodyInsideWithoutTheFactor ==
  \A s \in Sid : sessions[s].kind = "row" /\ sessions[s].under # "none"
                  => sessions[s].auth \in {sessions[s].under, "device"}

\* A TOTP step and a backup code are each accepted once, however many requests
\* present them together (mfa.service.ts verifyFactor, consumeBackupCode).
FactorsAreSpentOnce == \A u \in spent : u[2] = 1

\* A banned or deleted account has no session at all, so that a login or a
\* rotation that began before the ban leaves none behind (sanction.service.ts
\* apply, deleteAccount, reconcileUserStatus).
NoSessionOutlivesTheAccount ==
  status # "ACTIVE" => \A s \in Sid : sessions[s] = NoRow

\* The sessions that work are those the account stands for: the password it has
\* now, families that were not closed, one session in each, none without an
\* active account (auth.service.ts, user.service.ts, sanction.service.ts).
SessionsFollowTheAccount ==
  /\ AccountsTypeOK
  /\ UsableSessionsKnowThePassword
  /\ ClosedFamiliesStayClosed
  /\ OneSessionPerFamily
  /\ NoSessionOutlivesTheAccount

\* The second factor is asked for and spent, whatever is switched on or presented
\* in the meantime (mfa.service.ts assertLoginAuthorized, verifyFactor).
FactorsGuardTheDoor == NobodyInsideWithoutTheFactor /\ FactorsAreSpentOnce

\* Only the owner is inside: every session that works was opened with what the
\* account asks for now and is closed with it (auth.service.ts, mfa.service.ts).
OnlyTheOwnerIsInside == SessionsFollowTheAccount /\ FactorsGuardTheDoor

=============================================================================
