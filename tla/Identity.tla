------------------------------ MODULE Identity ------------------------------
(* Who a browser tab is: the identity its requests carry (client/src/api/      *)
(* http.ts), the store the pages read (stores/useAuthStore.ts), and what the   *)
(* match server keeps of it: guest sessions in Redis, sessions of the account  *)
(* behind a cookie (server-match/src/auth/auth.controller.ts, auth.service.ts, *)
(* jwt-auth.guard.ts).                                                        *)
(*                                                                           *)
(* Every await is a place where another part of the page goes on: a job is one *)
(* asynchronous call of the page, a flight one refresh that several jobs may   *)
(* wait for. Answers may be lost, and the page reloaded at any time. How the   *)
(* server rotates an account's token is in Accounts; here it keeps the newest. *)
EXTENDS Naturals, Sequences, FiniteSets

CONSTANTS Job,          \* calls of the page that may be under way together
          MaxGuests,    \* bound: guest sessions issued
          MaxLogins,    \* bound: sessions of the account
          MaxTokens,    \* bound: rotations of a token
          MaxMishaps    \* bound: answers lost, reloads, tokens run out, rooms entered or left

ASSUME IdentityAssumption ==
  /\ IsFiniteSet(Job)
  /\ {MaxGuests, MaxLogins, MaxTokens} \subseteq Nat \ {0} /\ MaxMishaps \in Nat

VARIABLES bearer,      \* http.ts: identity, with the session and age of its access token
          guestKey,    \* the guest's refresh token in sessionStorage
          cookie,      \* the account's refresh token
          roomOpen,      \* an active room, here and at the server
          authStore,   \* useAuthStore
          mfaAsked,    \* LoginPage waits for a second factor
          jobs, flights,
          guestSessions, accountSessions,
          story,       \* history: what happened to this tab
          mishaps

identityVars == <<bearer, guestKey, cookie, roomOpen, authStore, mfaAsked, jobs, flights,
                  guestSessions, accountSessions, story, mishaps>>

Anonymous == [kind |-> "anonymous", sid |-> 0, old |-> FALSE]
Bearer(kind, sid) == [kind |-> kind, sid |-> sid, old |-> FALSE]
NoRefresh == [sid |-> 0, token |-> 0]
NewStore == [identity |-> "anonymous", status |-> "idle", admin |-> FALSE, pending |-> FALSE]
NoJob == [kind |-> "none", at |-> "none", with |-> Anonymous, got |-> "none", sid |-> 0,
          again |-> FALSE, on |-> "none", previous |-> NewStore]

IdentityInit ==
  /\ bearer = Anonymous /\ roomOpen = FALSE /\ authStore = NewStore /\ mfaAsked = FALSE
  /\ jobs = [j \in Job |-> NoJob] /\ flights = {}
  /\ guestSessions = <<>> /\ mishaps = 0
  /\ guestKey = NoRefresh
  /\ \E returning \in BOOLEAN :
       /\ accountSessions = IF returning THEN <<[live |-> TRUE, token |-> 1]>> ELSE <<>>
       /\ cookie = IF returning THEN [sid |-> 1, token |-> 1] ELSE NoRefresh
  /\ story = [lost |-> FALSE, doubled |-> FALSE, putBack |-> FALSE, overtaken |-> FALSE,
              lateAdmin |-> FALSE, inside |-> FALSE]

sessionTables == <<guestSessions, accountSessions>>
browserVars == <<guestKey, cookie, roomOpen>>

-----------------------------------------------------------------------------
(* http.ts                                                                  *)

\* setApiIdentity: the listener brings the store along.
Listened(i) == [authStore EXCEPT !.identity = i.kind, !.pending = FALSE,
                              !.status = IF i.kind = "anonymous" THEN "error" ELSE i.kind,
                              !.admin = @ /\ i.kind = "account"]

setApiIdentity(i) == bearer' = i /\ authStore' = Listened(i)

\* Mutant: every caller refreshes for itself.
NoneFlying(kind) == TRUE
\* singleFlight: one refresh of a kind at a time.
FreeToFly(kind) == \A f \in flights : f.kind # kind

\* What a refresh presents: the key of the guest, the cookie of the account.
RefreshTokenOf(kind) == IF kind = "guest" THEN guestKey ELSE cookie

\* A refresh of that kind: the one under way, or a new one.
Refresh(kind) ==
  /\ flights' = IF FreeToFly(kind)
                THEN flights \cup {[kind |-> kind, n |-> Cardinality(flights), served |-> FALSE,
                                    shown |-> RefreshTokenOf(kind), got |-> "none", sid |-> 0, token |-> 0]}
                ELSE flights
  /\ story' = [story EXCEPT !.doubled = @ \/ /\ FreeToFly(kind) /\ RefreshTokenOf(kind) # NoRefresh
                                             /\ \E f \in flights : f.kind = kind /\ f.shown = RefreshTokenOf(kind)]

\* The server looks at an access token: JwtAuthGuard.
Honoured(i) ==
  /\ ~i.old
  /\ \/ i.kind = "guest" /\ guestSessions[i.sid].live
     \/ i.kind = "account" /\ accountSessions[i.sid].live

\* refreshGuest rotates the guest's token if it is the newest.
ServeGuestFlight(f) ==
  /\ f \in flights /\ ~f.served /\ f.kind = "guest"
  /\ LET good == /\ f.shown.sid # 0 /\ guestSessions[f.shown.sid].live
                 /\ guestSessions[f.shown.sid].token = f.shown.token
     IN  /\ good => guestSessions[f.shown.sid].token < MaxTokens
         /\ guestSessions' = IF good THEN [guestSessions EXCEPT ![f.shown.sid].token = @ + 1] ELSE guestSessions
         /\ flights' = (flights \ {f}) \cup
              {[f EXCEPT !.served = TRUE, !.got = IF good THEN "ok" ELSE "401",
                         !.sid = f.shown.sid, !.token = f.shown.token + 1]}
  /\ UNCHANGED <<bearer, browserVars, authStore, mfaAsked, jobs, accountSessions, story, mishaps>>

\* refresh of the account: the newest token rotates, an older one brings the
\* answer of its rotation again, for a while, and later ends every session.
ServeAccountFlight(f) ==
  /\ f \in flights /\ ~f.served /\ f.kind = "account"
  /\ LET known == f.shown.sid # 0
         here  == accountSessions[f.shown.sid]
         fresh == known /\ here.live /\ here.token = f.shown.token
     IN  /\ fresh => here.token < MaxTokens
         /\ \E graced \in BOOLEAN :
              /\ graced => known /\ here.live /\ here.token = f.shown.token + 1
              /\ accountSessions' =
                   CASE fresh -> [accountSessions EXCEPT ![f.shown.sid].token = @ + 1]
                     [] ~fresh /\ known /\ ~graced -> [i \in DOMAIN accountSessions |-> [accountSessions[i] EXCEPT !.live = FALSE]]
                     [] OTHER -> accountSessions
              /\ flights' = (flights \ {f}) \cup
                   {[f EXCEPT !.served = TRUE, !.got = IF fresh \/ graced THEN "ok" ELSE "401",
                              !.sid = f.shown.sid, !.token = f.shown.token + 1]}
  /\ UNCHANGED <<bearer, browserVars, authStore, mfaAsked, jobs, guestSessions, story, mishaps>>

-----------------------------------------------------------------------------
(* Jobs: what each goes on with when what it awaits is there.                  *)

Awaiting(kind) == {j \in Job : jobs[j].at = "wait" /\ jobs[j].on = kind}

\* A request with the present identity.
SentNow(job) == [job EXCEPT !.at = "call", !.with = bearer, !.got = "none"]

\* readAdminAccess asks for an account only.
AdminJob(i) == IF i.kind = "account" THEN [NoJob EXCEPT !.kind = "admin", !.at = "call", !.with = i] ELSE NoJob

\* The store as it was when the job began, whatever happened since.
PutBack(j) == [jobs[j].previous EXCEPT !.pending = FALSE]
Outdated(j) == PutBack(j) # [authStore EXCEPT !.pending = FALSE]

\* A bootstrap that fails puts the store back and shows the recovery page.
BootFailed(j) == [PutBack(j) EXCEPT !.status = "error"]

\* A refresh that was accepted: the new identity, and everybody who waited sends
\* again; bootstrap is done.
FlightLands(f) ==
  /\ f \in flights /\ f.served /\ f.got = "ok"
  /\ LET now == Bearer(f.kind, f.sid)
     IN  /\ setApiIdentity(now)
         /\ IF f.kind = "guest"
            THEN guestKey' = [sid |-> f.sid, token |-> f.token] /\ UNCHANGED cookie
            ELSE cookie' = [sid |-> f.sid, token |-> f.token] /\ UNCHANGED guestKey
         /\ jobs' = [j \in Job |->
              IF j \notin Awaiting(f.kind) THEN jobs[j]
              ELSE IF jobs[j].kind = "boot" THEN AdminJob(now)
              ELSE [jobs[j] EXCEPT !.at = "call", !.with = now, !.got = "none", !.again = TRUE]]
         /\ story' = [story EXCEPT !.inside = @ \/ f.kind = "account",
                                   !.overtaken = @ \/ (story.inside /\ f.kind = "guest")]
  /\ flights' = flights \ {f}
  /\ UNCHANGED <<roomOpen, mfaAsked, sessionTables, mishaps>>

\* One that was refused: each job that waited gives its identity up; bootstrap
\* tries the account next, or a new guest, unless a room keeps the guest. The
\* server clears the cookie of an account it refuses.
FlightRefused(f) ==
  /\ f \in flights /\ f.served /\ f.got = "401"
  /\ LET booting == {j \in Awaiting(f.kind) : jobs[j].kind = "boot"}
         callers == Awaiting(f.kind) \ booting
         leaving == {j \in callers : jobs[j].kind = "logout"}
         kept    == f.kind = "guest" /\ roomOpen
         alone   == flights \ {f}
     IN  /\ bearer' = IF callers = {} THEN bearer ELSE Anonymous
         /\ authStore' = CASE callers # {} -> Listened(Anonymous)
                           [] callers = {} /\ booting # {} /\ kept -> BootFailed(CHOOSE j \in booting : TRUE)
                           [] OTHER -> authStore
         /\ guestKey' = IF \/ callers # {} /\ (bearer.kind = "guest" \/ leaving # {})
                           \/ booting # {} /\ f.kind = "guest" /\ ~kept
                        THEN NoRefresh ELSE guestKey
         /\ cookie' = IF f.kind = "account" THEN NoRefresh ELSE cookie
         /\ jobs' = [j \in Job |->
              CASE j \in leaving -> [jobs[j] EXCEPT !.at = "issue", !.got = "none"]
                [] j \in callers \ leaving -> NoJob
                [] j \in booting /\ kept -> NoJob
                [] j \in booting /\ ~kept /\ f.kind = "guest" -> [jobs[j] EXCEPT !.on = "account"]
                [] j \in booting /\ ~kept /\ f.kind = "account" -> [jobs[j] EXCEPT !.at = "issue", !.got = "none"]
                [] OTHER -> jobs[j]]
         /\ flights' = IF booting # {} /\ ~kept /\ f.kind = "guest" /\ \A o \in alone : o.kind # "account"
                       THEN alone \cup {[kind |-> "account", n |-> Cardinality(alone), served |-> FALSE,
                                         shown |-> cookie, got |-> "none", sid |-> 0, token |-> 0]}
                       ELSE alone
         /\ story' = [story EXCEPT !.inside = @ /\ f.kind = "guest",
                                   !.putBack = @ \/ (kept /\ \E j \in booting : jobs[j].previous.identity # authStore.identity),
                                   !.overtaken = @ \/ (story.inside /\ callers # {} /\ f.kind = "guest")]
  /\ UNCHANGED <<roomOpen, mfaAsked, sessionTables, mishaps>>

\* The answer of a refresh is lost, before or after the server gave it.
FlightLost(f) ==
  /\ f \in flights /\ mishaps < MaxMishaps /\ mishaps' = mishaps + 1
  /\ flights' = flights \ {f}
  /\ jobs' = [j \in Job |-> IF j \in Awaiting(f.kind) THEN NoJob ELSE jobs[j]]
  /\ LET booting == {j \in Awaiting(f.kind) : jobs[j].kind = "boot"}
     IN  /\ authStore' = IF booting # {} THEN BootFailed(CHOOSE j \in booting : TRUE)
                         ELSE [authStore EXCEPT !.pending = @ /\ \A j \in Awaiting(f.kind) : jobs[j].kind # "logout"]
         /\ story' = [story EXCEPT !.lost = @ \/ f.served,
                                   !.putBack = @ \/ \E j \in booting : jobs[j].previous.identity # authStore.identity]
  /\ UNCHANGED <<bearer, browserVars, mfaAsked, sessionTables>>

-----------------------------------------------------------------------------
(* What the page starts.                                                     *)

Spare(j) == jobs[j] = NoJob
PagesOpen == authStore.status \in {"guest", "account"}

\* bootstrap, at the start and from the recovery page.
bootstrap(j) ==
  /\ Spare(j) /\ authStore.status \in {"idle", "error"}
  /\ authStore' = [authStore EXCEPT !.status = "booting", !.pending = FALSE]
  /\ LET kind == IF guestKey # NoRefresh THEN "guest" ELSE "account"
     IN  /\ Refresh(kind)
         /\ jobs' = [jobs EXCEPT ![j] = [NoJob EXCEPT !.kind = "boot", !.at = "wait", !.on = kind, !.previous = authStore]]
  /\ UNCHANGED <<bearer, browserVars, mfaAsked, sessionTables, mishaps>>

\* A page asks the server something.
StartRequest(j) ==
  /\ Spare(j) /\ PagesOpen
  /\ jobs' = [jobs EXCEPT ![j] = SentNow([NoJob EXCEPT !.kind = "api"])]
  /\ UNCHANGED <<bearer, browserVars, authStore, mfaAsked, flights, sessionTables, story, mishaps>>

\* login and completeMfa remember the store to put it back when they fail.
login(j, kind) ==
  /\ Spare(j) /\ authStore.status = "guest" /\ ~authStore.pending
  /\ kind = "mfa" => mfaAsked
  /\ jobs' = [jobs EXCEPT ![j] = SentNow([NoJob EXCEPT !.kind = kind, !.previous = authStore])]
  /\ authStore' = [authStore EXCEPT !.pending = TRUE]
  /\ UNCHANGED <<bearer, browserVars, mfaAsked, flights, sessionTables, story, mishaps>>

logout(j) ==
  /\ Spare(j) /\ authStore.status = "account" /\ ~authStore.pending
  /\ authStore' = [authStore EXCEPT !.pending = TRUE]
  /\ jobs' = [jobs EXCEPT ![j] = IF bearer.kind = "anonymous"
                                 THEN [NoJob EXCEPT !.kind = "logout", !.at = "issue"]
                                 ELSE SentNow([NoJob EXCEPT !.kind = "logout"])]
  /\ UNCHANGED <<bearer, browserVars, mfaAsked, flights, sessionTables, story, mishaps>>

\* The account is deleted; abandonSession.
abandonSession(j) ==
  /\ Spare(j) /\ authStore.status = "account" /\ bearer.kind = "account" /\ Honoured(bearer)
  /\ accountSessions' = [i \in DOMAIN accountSessions |-> [accountSessions[i] EXCEPT !.live = FALSE]]
  /\ cookie' = NoRefresh /\ guestKey' = NoRefresh /\ roomOpen' = FALSE
  /\ setApiIdentity(Anonymous)
  /\ jobs' = [jobs EXCEPT ![j] = [NoJob EXCEPT !.kind = "abandon", !.at = "issue"]]
  /\ story' = [story EXCEPT !.inside = FALSE]
  /\ UNCHANGED <<mfaAsked, flights, guestSessions, mishaps>>

-----------------------------------------------------------------------------
(* The server answers a job.                                                 *)

NewLogin == Append(accountSessions, [live |-> TRUE, token |-> 1])

\* login and login/mfa: a bad token is refused, and so is a switch during a room.
ServeLogin(j) ==
  /\ jobs[j].at = "call" /\ jobs[j].got = "none" /\ jobs[j].kind \in {"login", "mfa"}
  /\ \E got \in {"ok", "mfa", "refused"} :
       /\ got = "ok" => Len(accountSessions) < MaxLogins
       /\ got = "mfa" => jobs[j].kind = "login"
       /\ got # "refused" => ~roomOpen /\ (jobs[j].with.kind = "anonymous" \/ Honoured(jobs[j].with))
       /\ accountSessions' = IF got = "ok" THEN NewLogin ELSE accountSessions
       /\ jobs' = [jobs EXCEPT ![j].got = got, ![j].sid = Len(accountSessions) + 1]
  /\ UNCHANGED <<bearer, browserVars, authStore, mfaAsked, flights, guestSessions, story, mishaps>>

\* logout ends the session of the token; other requests only need it.
ServeCall(j) ==
  /\ jobs[j].at = "call" /\ jobs[j].got = "none" /\ jobs[j].kind \in {"api", "admin", "logout"}
  /\ LET who  == jobs[j].with
         fine == Honoured(who)
         ends == fine /\ jobs[j].kind = "logout" /\ ~roomOpen
     IN  /\ jobs' = [jobs EXCEPT ![j].got = CASE ~fine -> "401"
                                              [] fine /\ jobs[j].kind = "logout" /\ roomOpen -> "409"
                                              [] OTHER -> "ok"]
         /\ guestSessions' = IF ends /\ who.kind = "guest"
                             THEN [guestSessions EXCEPT ![who.sid].live = FALSE] ELSE guestSessions
         /\ accountSessions' = IF ends /\ who.kind = "account"
                               THEN [accountSessions EXCEPT ![who.sid].live = FALSE] ELSE accountSessions
  /\ UNCHANGED <<bearer, browserVars, authStore, mfaAsked, flights, story, mishaps>>

\* createGuest.
ServeGuest(j) ==
  /\ jobs[j].at = "issue" /\ jobs[j].got = "none" /\ Len(guestSessions) < MaxGuests
  /\ guestSessions' = Append(guestSessions, [live |-> TRUE, token |-> 1])
  /\ jobs' = [jobs EXCEPT ![j].got = "ok", ![j].sid = Len(guestSessions) + 1]
  /\ UNCHANGED <<bearer, browserVars, authStore, mfaAsked, flights, accountSessions, story, mishaps>>

-----------------------------------------------------------------------------
(* The answer arrives.                                                       *)

\* A login takes the place of the guest, and asks whether it is an operator's.
LoginArrives(j) ==
  /\ jobs[j].at = "call" /\ jobs[j].kind \in {"login", "mfa"} /\ jobs[j].got # "none"
  /\ LET now == Bearer("account", jobs[j].sid)
     IN  IF jobs[j].got = "ok"
         THEN /\ bearer' = now /\ authStore' = Listened(now)
              /\ guestKey' = NoRefresh /\ cookie' = [sid |-> now.sid, token |-> 1]
              /\ mfaAsked' = FALSE
              /\ jobs' = [jobs EXCEPT ![j] = AdminJob(now)]
              /\ story' = [story EXCEPT !.inside = TRUE]
         ELSE /\ authStore' = PutBack(j)
              /\ mfaAsked' = (mfaAsked \/ jobs[j].got = "mfa")
              /\ jobs' = [jobs EXCEPT ![j] = NoJob]
              /\ story' = [story EXCEPT !.putBack = @ \/ Outdated(j)]
              /\ UNCHANGED <<bearer, guestKey, cookie>>
  /\ UNCHANGED <<roomOpen, flights, sessionTables, mishaps>>

\* apiRequest: a bare 401 is worth one refresh of whoever the tab is now.
MayRefresh(j) == jobs[j].got = "401" /\ ~jobs[j].again /\ bearer.kind # "anonymous"

CallRefreshes(j) ==
  /\ jobs[j].at = "call" /\ jobs[j].kind \in {"api", "admin", "logout"} /\ MayRefresh(j)
  /\ LET kind == IF bearer.kind = "guest" THEN "guest" ELSE "account"
     IN  /\ Refresh(kind)
         /\ jobs' = [jobs EXCEPT ![j].at = "wait", ![j].on = kind]
  /\ UNCHANGED <<bearer, browserVars, authStore, mfaAsked, sessionTables, mishaps>>

\* Otherwise the call is over. An operator's hint goes to the store as it comes;
\* logout lets the tab go only when the server has, or there is nobody to let go.
CallEnds(j) ==
  /\ jobs[j].at = "call" /\ jobs[j].kind \in {"api", "admin", "logout"}
  /\ jobs[j].got # "none" /\ ~MayRefresh(j)
  /\ LET gone == jobs[j].kind = "logout" /\
                 (jobs[j].got = "ok" \/ (jobs[j].got = "401" /\ bearer.kind = "anonymous"))
         hint == jobs[j].got = "ok"
     IN  /\ jobs' = [jobs EXCEPT ![j] = IF gone THEN [NoJob EXCEPT !.kind = "logout", !.at = "issue"] ELSE NoJob]
         /\ IF gone THEN setApiIdentity(Anonymous) /\ guestKey' = NoRefresh
            ELSE /\ UNCHANGED <<bearer, guestKey>>
                 /\ authStore' = CASE jobs[j].kind = "admin" -> [authStore EXCEPT !.admin = hint]
                                   [] jobs[j].kind = "logout" -> [authStore EXCEPT !.pending = FALSE]
                                   [] OTHER -> authStore
         /\ cookie' = IF jobs[j].kind = "logout" /\ jobs[j].got = "ok" THEN NoRefresh ELSE cookie
         /\ story' = [story EXCEPT !.inside = @ /\ ~gone,
                                   !.lateAdmin = @ \/ (jobs[j].kind = "admin" /\ hint /\ bearer.kind # "account")]
  /\ UNCHANGED <<roomOpen, mfaAsked, flights, sessionTables, mishaps>>

\* issueGuest.
GuestArrives(j) ==
  /\ jobs[j].at = "issue" /\ jobs[j].got = "ok"
  /\ setApiIdentity(Bearer("guest", jobs[j].sid))
  /\ guestKey' = [sid |-> jobs[j].sid, token |-> 1]
  /\ jobs' = [jobs EXCEPT ![j] = NoJob]
  /\ story' = [story EXCEPT !.overtaken = @ \/ story.inside]
  /\ UNCHANGED <<cookie, roomOpen, mfaAsked, flights, sessionTables, mishaps>>

\* A request or its answer is lost.
JobLost(j) ==
  /\ jobs[j].at \in {"call", "issue"} /\ mishaps < MaxMishaps /\ mishaps' = mishaps + 1
  /\ jobs' = [jobs EXCEPT ![j] = NoJob]
  /\ LET kind == jobs[j].kind
     IN  /\ authStore' = CASE kind \in {"login", "mfa"} -> PutBack(j)
                           [] kind = "boot" -> BootFailed(j)
                           [] kind = "abandon" -> [NewStore EXCEPT !.status = "error"]
                           [] kind = "logout" -> [authStore EXCEPT !.pending = FALSE]
                           [] kind = "admin" -> [authStore EXCEPT !.admin = FALSE]
                           [] OTHER -> authStore
         /\ story' = [story EXCEPT !.putBack = @ \/ (kind \in {"login", "mfa"} /\ Outdated(j))
                                            \/ (kind = "boot" /\ jobs[j].previous.identity # authStore.identity)
                                            \/ (kind = "abandon" /\ authStore.identity # "anonymous")]
  /\ UNCHANGED <<bearer, browserVars, mfaAsked, flights, sessionTables>>

-----------------------------------------------------------------------------
(* Around the page.                                                          *)

AccessExpires ==
  /\ bearer.kind # "anonymous" /\ ~bearer.old /\ mishaps < MaxMishaps /\ mishaps' = mishaps + 1
  /\ bearer' = [bearer EXCEPT !.old = TRUE]
  /\ UNCHANGED <<browserVars, authStore, mfaAsked, jobs, flights, sessionTables, story>>

RoomChanges ==
  /\ mishaps < MaxMishaps /\ mishaps' = mishaps + 1 /\ PagesOpen
  /\ roomOpen' = ~roomOpen
  /\ UNCHANGED <<bearer, guestKey, cookie, authStore, mfaAsked, jobs, flights, sessionTables, story>>

\* The page is loaded anew: its memory is gone, and with it what was under way.
ReloadPage ==
  /\ mishaps < MaxMishaps /\ mishaps' = mishaps + 1
  /\ bearer' = Anonymous /\ authStore' = NewStore /\ mfaAsked' = FALSE
  /\ jobs' = [j \in Job |-> NoJob] /\ flights' = {}
  /\ story' = [story EXCEPT !.lost = @ \/ \E f \in flights : f.served, !.inside = FALSE]
  /\ UNCHANGED <<browserVars, sessionTables>>

IdentityNext ==
  \/ \E f \in flights : \/ ServeGuestFlight(f) \/ ServeAccountFlight(f)
                        \/ FlightLands(f) \/ FlightRefused(f) \/ FlightLost(f)
  \/ \E j \in Job : \/ bootstrap(j) \/ StartRequest(j) \/ logout(j) \/ abandonSession(j)
                    \/ \E kind \in {"login", "mfa"} : login(j, kind)
                    \/ ServeLogin(j) \/ ServeCall(j) \/ ServeGuest(j)
                    \/ LoginArrives(j) \/ CallRefreshes(j) \/ CallEnds(j) \/ GuestArrives(j) \/ JobLost(j)
  \/ AccessExpires \/ RoomChanges \/ ReloadPage

IdentitySpec == IdentityInit /\ [][IdentityNext]_identityVars

-----------------------------------------------------------------------------
(* The parts of TabKnowsWhoItIs.                                              *)

\* The pages are shown the identity the requests carry, and an operator's menu
\* for an account only, unless a failed login put an older store back or the
\* answer about the operator came after the account was left.
PagesSeeTheIdentity ==
  /\ ~story.putBack => authStore.identity = bearer.kind
  /\ ~story.putBack /\ ~story.lateAdmin /\ authStore.admin => bearer.kind = "account"

\* Who has logged in is that account until they leave it or the server ends the
\* session, unless the refresh of the guest they were was still under way.
LoginLasts == story.inside /\ ~story.overtaken => bearer.kind = "account"

\* A refresh token is never under way twice, and none is presented that the
\* server has already exchanged unless the answer to that exchange was lost.
RefreshOnce ==
  /\ ~story.doubled
  /\ ~story.lost => \A f \in flights : /\ ~f.served /\ f.shown.sid # 0
                                       /\ f.kind = "account" /\ accountSessions[f.shown.sid].live
                                       => accountSessions[f.shown.sid].token = f.shown.token

\* The page waits only for something that is under way: a store that is booting
\* has a bootstrap, one that is pending a login or a logout.
WaitsForSomething ==
  /\ authStore.status = "booting" => \E j \in Job : jobs[j].kind = "boot"
  /\ authStore.pending => \E j \in Job : jobs[j].kind \in {"login", "mfa", "logout"}

\* A tab knows who it is through refreshes, logins and logouts that overlap
\* (http.ts:53, useAuthStore.ts:48).
TabKnowsWhoItIs == PagesSeeTheIdentity /\ LoginLasts /\ RefreshOnce /\ WaitsForSomething

=============================================================================
