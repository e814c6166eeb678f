-------------------------- MODULE AdmissionProofs --------------------------
(***************************************************************************)
(* Claims, seats and their clean-up, for any number of users, rooms and    *)
(* requests and in every order of their awaits.                            *)
(***************************************************************************)
EXTENDS Admission, FiniteSetTheorems, TLAPS

-----------------------------------------------------------------------------
(* The inductive invariant.                                                  *)

\* What is known of a request fits the await it has reached.
RequestInv ==
  \A q \in Request :
    /\ req[q].step # "idle" => req[q].room \in Room
    /\ req[q].step \in {"idle", "claim", "select", "insert"} => cmd[q] = "none"
    /\ req[q].step = "insert" => req[q].row # 0
    /\ req[q].step = "retry" => cmd[q] = "refused"
    /\ req[q].step = "assign" => cmd[q] = "ok"
    /\ req[q].granted => req[q].step = "done" /\ cmd[q] = "ok"

\* A held seat is the one its request was promised.
HeldInv ==
  \A q \in Request, r \in Room, u \in User :
    seat[r][u] = q => req[q].user = u /\ req[q].room = r /\ cmd[q] = "ok"

\* Every taken seat is in an open room and watched, and nobody who is banned has one.
SeatInv ==
  \A r \in Room, u \in User :
    /\ Taken(r, u) => phase[r] = "open" /\ tracked[r][u].on
    /\ <<r, u>> \in banned => ~ Taken(r, u) /\ phase[r] # "none"

\* A seat is watched or its release is queued, never both.
WatchInv ==
  \A r \in Room, u \in User :
    /\ tracked[r][u].joined => tracked[r][u].on
    /\ release[r][u].on => ~ tracked[r][u].on
    /\ release[r][u].cooldown => release[r][u].on
    /\ release[r][u].kicked => <<r, u>> \in banned

\* The user sits there, or was told that he may.
Rightful(r, u) == seat[r][u] = Member \/ (seat[r][u] \in Request /\ req[seat[r][u]].granted)

Granted(c) == c.state = "assigned" /\ c.req \in Request => req[c.req].granted
Names(c, r) == c.state = "assigned" /\ c.room = r

\* The claim names the room of a rightful seat from the grant until the end of the
\* clean-up after it.
ClaimInv ==
  /\ \A u \in User : (claim[u].state = "assigned" => claim[u].room \in Room) /\ Granted(claim[u])
  /\ \A r \in Room, u \in User :
       Rightful(r, u) \/ tracked[r][u].joined \/ release[r][u].cooldown => Names(claim[u], r)

\* While a release is flushed its user has no rightful seat, unless with another claim
\* than the one that was read.
PublishInv ==
  LET r == pub.room
      u == pub.user
  IN  /\ pub.at # "idle" => r \in Room
      /\ Granted(pub.raw)
      /\ pub.at \in {"read", "flush"} => ~ tracked[r][u].joined
      /\ pub.at = "read" => /\ release[r][u].on \/ tracked[r][u].on
                            /\ <<r, u>> \in banned \/ (Names(claim[u], r) /\ ~ Rightful(r, u))
      /\ pub.at = "flush" /\ Names(pub.raw, r) /\ claim[u] = pub.raw => ~ Rightful(r, u)

AdmissionInv ==
  AdmissionTypeOK /\ RequestInv /\ HeldInv /\ SeatInv /\ WatchInv /\ ClaimInv /\ PublishInv

-----------------------------------------------------------------------------
(* Tables of rooms and users.                                                *)

\* Put changes one entry of a table and keeps its type.
LEMMA PutAt ==
  ASSUME NEW S \in {TrackedSeat, PendingRelease, Request \cup {Free, Member}},
         NEW table \in [Room -> [User -> S]], NEW r \in Room, NEW u \in User, NEW x \in S
  PROVE  /\ Put(table, r, u, x) \in [Room -> [User -> S]]
         /\ Put(table, r, u, x)[r][u] = x
         /\ \A s \in Room, v \in User : s # r \/ v # u => Put(table, r, u, x)[s][v] = table[s][v]
<1> DEFINE f == [table[r] EXCEPT ![u] = x]
<1>1. f \in [User -> S] /\ \A v \in User : f[v] = IF v = u THEN x ELSE table[r][v]
  OBVIOUS
<1>2. Put(table, r, u, x) = [table EXCEPT ![r] = f]
  BY DEF Put
<1> HIDE DEF f
<1> QED
  BY <1>1, <1>2

\* The three tables of the model.
LEMMA PutTracked ==
  ASSUME NEW table \in [Room -> [User -> TrackedSeat]], NEW r \in Room, NEW u \in User,
         NEW x \in TrackedSeat
  PROVE  /\ Put(table, r, u, x) \in [Room -> [User -> TrackedSeat]]
         /\ Put(table, r, u, x)[r][u] = x
         /\ \A s \in Room, v \in User : s # r \/ v # u => Put(table, r, u, x)[s][v] = table[s][v]
BY PutAt

LEMMA PutRelease ==
  ASSUME NEW table \in [Room -> [User -> PendingRelease]], NEW r \in Room, NEW u \in User,
         NEW x \in PendingRelease
  PROVE  /\ Put(table, r, u, x) \in [Room -> [User -> PendingRelease]]
         /\ Put(table, r, u, x)[r][u] = x
         /\ \A s \in Room, v \in User : s # r \/ v # u => Put(table, r, u, x)[s][v] = table[s][v]
BY PutAt

LEMMA PutSeat ==
  ASSUME NEW table \in [Room -> [User -> Request \cup {Free, Member}]], NEW r \in Room, NEW u \in User,
         NEW x \in Request \cup {Free, Member}
  PROVE  /\ Put(table, r, u, x) \in [Room -> [User -> Request \cup {Free, Member}]]
         /\ Put(table, r, u, x)[r][u] = x
         /\ \A s \in Room, v \in User : s # r \/ v # u => Put(table, r, u, x)[s][v] = table[s][v]
BY PutAt

\* The constants that the initial state and the steps put into the tables.
LEMMA Constants ==
  /\ NoClaim \in Claim /\ NewRequest \in RequestRow /\ Idle \in Publishing
  /\ Untracked \in TrackedSeat /\ NoRelease \in PendingRelease
  /\ ~ Untracked.on /\ ~ Untracked.joined
  /\ ~ NoRelease.on /\ ~ NoRelease.cooldown /\ ~ NoRelease.kicked
  /\ NoClaim.state # "assigned"
<1> USE AdmissionAssumption
<1>1. (CHOOSE u \in User : TRUE) \in User
  OBVIOUS
<1>2. NoClaim \in Claim /\ NoClaim.state # "assigned"
  BY DEF NoClaim, Claim
<1>3. Untracked \in TrackedSeat /\ ~ Untracked.on /\ ~ Untracked.joined
  BY Zenon DEF Untracked, TrackedSeat
<1>4. NoRelease \in PendingRelease /\ ~ NoRelease.on /\ ~ NoRelease.cooldown /\ ~ NoRelease.kicked
  BY Zenon DEF NoRelease, PendingRelease
<1>5. Idle \in Publishing
  BY <1>1, <1>2, <1>3, Zenon DEF Idle, Publishing
<1>6. NewRequest \in RequestRow
  <2>1. 0 \in 0..MaxMatch
    OBVIOUS
  <2> QED
    BY <1>1, <2>1, Zenon DEF NewRequest, RequestRow, Kind, Step
<1> QED
  BY <1>2, <1>3, <1>4, <1>5, <1>6

\* Goto moves one request to a step.
LEMMA GotoMoves ==
  ASSUME req \in [Request -> RequestRow], NEW q \in Request, NEW s \in Step, Goto(q, s)
  PROVE  /\ req' \in [Request -> RequestRow]
         /\ \A p \in Request : p # q => req'[p] = req[p]
         /\ req'[q].step = s
         /\ req'[q].kind = req[q].kind /\ req'[q].user = req[q].user /\ req'[q].room = req[q].room
         /\ req'[q].row = req[q].row /\ req'[q].granted = req[q].granted
<1>1. req[q] \in RequestRow
  OBVIOUS
<1> DEFINE moved == [req[q] EXCEPT !.step = s]
<1>2. moved \in RequestRow /\ moved.step = s
  BY <1>1 DEF RequestRow
<1>3. /\ moved.kind = req[q].kind /\ moved.user = req[q].user /\ moved.room = req[q].room
      /\ moved.row = req[q].row
  BY <1>1 DEF RequestRow
<1>4. moved.granted = req[q].granted
  BY <1>1 DEF RequestRow
<1>5. req' = [req EXCEPT ![q] = moved]
  BY DEF Goto
<1> HIDE DEF moved
<1> QED
  BY <1>2, <1>3, <1>4, <1>5

\* A step of one request that takes no grant back; a claim may become a reservation, or
\* nothing, when it was no assignment before.
LEMMA RequestStepKeeps ==
  ASSUME AdmissionInv, AdmissionTypeOK', NEW q \in Request,
         UNCHANGED <<phase, seat, banned, tracked, release, pub>>,
         \A u \in User :
            claim'[u] = claim[u] \/ (claim[u].state # "assigned" /\ claim'[u].state # "assigned"),
         \A p \in Request : p # q => req'[p] = req[p] /\ cmd'[p] = cmd[p],
         req'[q].granted <=> req[q].granted,
         req'[q].granted => req'[q].step = "done",
         cmd[q] = "ok" => cmd'[q] = "ok" /\ req'[q].user = req[q].user /\ req'[q].room = req[q].room,
         req'[q].step # "idle" => req'[q].room \in Room,
         req'[q].step \in {"idle", "claim", "select", "insert"} => cmd'[q] = "none",
         req'[q].step = "insert" => req'[q].row # 0,
         req'[q].step = "retry" => cmd'[q] = "refused",
         req'[q].step = "assign" => cmd'[q] = "ok"
  PROVE  AdmissionInv'
<1>0. RequestInv /\ HeldInv /\ SeatInv /\ WatchInv /\ ClaimInv /\ PublishInv /\ AdmissionTypeOK
  BY DEF AdmissionInv
<1>1. RequestInv'
  BY <1>0 DEF RequestInv
<1>2. HeldInv'
  <2>1. \A p \in Request : cmd[p] = "ok" =>
          cmd'[p] = "ok" /\ req'[p].user = req[p].user /\ req'[p].room = req[p].room
    OBVIOUS
  <2> QED
    BY <1>0, <2>1 DEF HeldInv
<1>3. SeatInv' /\ WatchInv'
  BY <1>0 DEF SeatInv, WatchInv, Taken
<1>4. \A p \in Request : req'[p].granted <=> req[p].granted
  OBVIOUS
<1>5. \A r \in Room, u \in User : Rightful(r, u)' <=> Rightful(r, u)
  BY <1>4 DEF Rightful
<1>6. ClaimInv'
  <2>1. \A u \in User : (claim'[u].state = "assigned" => claim'[u].room \in Room) /\ Granted(claim[u])'
    BY <1>0, <1>4 DEF ClaimInv, Granted
  <2>2. ASSUME NEW r \in Room, NEW u \in User,
               (Rightful(r, u) \/ tracked[r][u].joined \/ release[r][u].cooldown)'
        PROVE  Names(claim[u], r)'
    BY <1>0, <2>2, <1>5 DEF ClaimInv, Names
  <2> QED
    BY <2>1, <2>2 DEF ClaimInv
<1>7. PublishInv'
  <2> DEFINE r == pub.room
             u == pub.user
  <2>1. pub' = pub /\ u \in User /\ (pub.at # "idle" => r \in Room)
    BY <1>0 DEF PublishInv, AdmissionTypeOK, Publishing
  <2>2. Granted(pub.raw)'
    BY <1>0, <1>4 DEF PublishInv, Granted
  <2>3. CASE pub.at = "read"
    BY <1>0, <2>1, <2>2, <2>3, <1>5 DEF PublishInv, Names
  <2>4. CASE pub.at = "flush"
    BY <1>0, <2>1, <2>2, <2>4, <1>5 DEF PublishInv, Names
  <2> QED
    BY <1>0, <2>1, <2>2, <2>3, <2>4 DEF PublishInv
<1> QED
  BY <1>1, <1>2, <1>3, <1>6, <1>7 DEF AdmissionInv

-----------------------------------------------------------------------------
(* The requests of the matching server.                                      *)

\* What the invariant says of types, for the provers.
LEMMA Typed ==
  ASSUME AdmissionInv
  PROVE  /\ claim \in [User -> Claim] /\ req \in [Request -> RequestRow] /\ pub \in Publishing
         /\ cmd \in [Request -> {"none", "queued", "read", "ok", "refused"}]
         /\ seat \in [Room -> [User -> Request \cup {Free, Member}]]
         /\ tracked \in [Room -> [User -> TrackedSeat]]
         /\ release \in [Room -> [User -> PendingRelease]]
         /\ phase \in [Room -> {"none", "open", "closed"}]
         /\ row \in [Room -> 0..MaxMatch]
         /\ \A q \in Request : req[q] \in RequestRow /\ req[q].user \in User /\ req[q].row \in 0..MaxMatch
         /\ pub.user \in User /\ pub.raw \in Claim
BY DEF AdmissionInv, AdmissionTypeOK, RequestRow, Publishing

\* A request begins, and perhaps sends its command at once.
LEMMA BeginKeeps ==
  ASSUME AdmissionInv, NEW q \in Request, NEW kind \in Kind, NEW u \in User, NEW r \in Room,
         NEW step \in {"claim", "sent"}, Begin(q, kind, u, r, step),
         UNCHANGED <<redisVars, dbVars, seatVars, gameVars, registryVars>>,
         \/ step = "claim" /\ cmd' = cmd
         \/ step = "sent" /\ cmd' = [cmd EXCEPT ![q] = "queued"]
  PROVE  AdmissionInv'
<1> DEFINE begun == [kind |-> kind, user |-> u, room |-> r, step |-> step,
                     row |-> 0, tried |-> {r}, granted |-> FALSE]
<1>1. begun \in RequestRow
  <2>1. 0 \in 0..MaxMatch /\ {r} \in SUBSET Room /\ step \in Step
    BY AdmissionAssumption DEF Step
  <2> QED
    BY <2>1, Zenon DEF RequestRow
<1>2. begun.step = step /\ begun.room = r /\ ~ begun.granted
  OBVIOUS
<1>3. req[q].step = "idle" /\ req' = [req EXCEPT ![q] = begun]
  BY DEF Begin
<1> HIDE DEF begun
<1>4. cmd[q] = "none" /\ ~ req[q].granted
  BY <1>3 DEF AdmissionInv, RequestInv
<1>5. /\ req' \in [Request -> RequestRow] /\ req'[q] = begun
      /\ \A p \in Request : p # q => req'[p] = req[p]
  BY <1>1, <1>3, Typed
<1>6. /\ cmd' \in [Request -> {"none", "queued", "read", "ok", "refused"}]
      /\ \A p \in Request : p # q => cmd'[p] = cmd[p]
      /\ step = "claim" => cmd'[q] = "none"
  BY <1>4, Typed
<1>7. AdmissionTypeOK'
  BY <1>5, <1>6 DEF AdmissionInv, AdmissionTypeOK, redisVars, dbVars, seatVars, gameVars, registryVars
<1>8. UNCHANGED <<phase, seat, banned, tracked, release, pub, claim>>
  BY DEF redisVars, seatVars, registryVars
<1> QED
  BY <1>2, <1>4, <1>5, <1>6, <1>7, <1>8, RequestStepKeeps

\* A request goes on to a step that fits its command.
LEMMA GotoKeeps ==
  ASSUME AdmissionInv, NEW q \in Request, NEW s \in Step \ {"idle", "insert", "assign"}, Goto(q, s),
         req[q].step \notin {"idle", "done"},
         UNCHANGED <<cooldown, marker, seatVars, gameVars, registryVars>>,
         claim' \in [User -> Claim], row' \in [Room -> 0..MaxMatch],
         assigned' \subseteq Room \X Match \X User,
         \A u \in User :
            claim'[u] = claim[u] \/ (claim[u].state # "assigned" /\ claim'[u].state # "assigned"),
         cmd' \in [Request -> {"none", "queued", "read", "ok", "refused"}],
         \A p \in Request : p # q => cmd'[p] = cmd[p],
         cmd[q] = "ok" => cmd'[q] = "ok",
         s \in {"claim", "select"} => cmd'[q] = "none",
         s = "retry" => cmd'[q] = "refused"
  PROVE  AdmissionInv'
<1>1. /\ req' \in [Request -> RequestRow] /\ req'[q].step = s
      /\ \A p \in Request : p # q => req'[p] = req[p]
      /\ req'[q].user = req[q].user /\ req'[q].room = req[q].room
  BY Typed, GotoMoves
<1>2. req'[q].granted <=> req[q].granted
  BY Typed, GotoMoves
<1>3. req[q].room \in Room /\ ~ req[q].granted
  BY DEF AdmissionInv, RequestInv
<1>4. AdmissionTypeOK'
  BY <1>1 DEF AdmissionInv, AdmissionTypeOK, seatVars, gameVars, registryVars
<1>5. UNCHANGED <<phase, seat, banned, tracked, release, pub>>
  BY DEF seatVars, registryVars
<1> QED
  BY <1>1, <1>2, <1>3, <1>4, <1>5, RequestStepKeeps

\* The grant: the claim was this request's reservation, so nobody had a rightful seat,
\* and the only seat that becomes one is in the room that the claim now names.
LEMMA AssignKeeps ==
  ASSUME AdmissionInv, NEW q \in Request, AssignActiveRoom(q)
  PROVE  AdmissionInv'
<1> DEFINE u == req[q].user
           r == req[q].room
<1>0. RequestInv /\ HeldInv /\ SeatInv /\ WatchInv /\ ClaimInv /\ PublishInv /\ AdmissionTypeOK
  BY DEF AdmissionInv
<1>t. /\ claim \in [User -> Claim] /\ req \in [Request -> RequestRow] /\ row \in [Room -> 0..MaxMatch]
      /\ req[q] \in RequestRow /\ u \in User /\ pub.user \in User
  BY Typed
<1>1. /\ req[q].step \in {"assign", "sent"} /\ cmd[q] = "ok" /\ r \in Room /\ ~ req[q].granted
      /\ UNCHANGED <<cooldown, marker, dbVars, seatVars, gameVars, registryVars, cmd>>
  BY <1>0 DEF AssignActiveRoom, RequestInv
<1>2. CASE claim[u] # Reservation(q)
  <2>1. Goto(q, "undoRow") \/ Goto(q, "undoClaim")
    BY <1>2 DEF AssignActiveRoom
  <2>2. claim' = claim /\ row' = row /\ assigned' = assigned
    BY <1>1, <1>2 DEF AssignActiveRoom, dbVars
  <2>3. \A s \in {"undoRow", "undoClaim"} : Goto(q, s) => AdmissionInv'
    BY <1>0, <1>1, <1>t, <2>2, GotoKeeps DEF Step, AdmissionTypeOK
  <2> QED
    BY <2>1, <2>3
<1>3. CASE claim[u] = Reservation(q)
  <2> DEFINE granted == [req[q] EXCEPT !.step = "done", !.granted = TRUE]
  <2>1. req' = [req EXCEPT ![q] = granted] /\ claim' = [claim EXCEPT ![u] = Assignment(q, r)]
    BY <1>3 DEF AssignActiveRoom
  <2>2. /\ granted.step = "done" /\ granted.user = u /\ granted.room = r /\ granted.row = req[q].row
    BY <1>t DEF RequestRow
  <2>3. granted.granted
    BY <1>t, Zenon DEF RequestRow
  <2>4. granted \in RequestRow
    BY <1>t DEF RequestRow, Step
  <2> HIDE DEF granted
  <2>5. /\ req' \in [Request -> RequestRow] /\ req'[q] = granted
        /\ \A p \in Request : p # q => req'[p] = req[p]
    BY <1>t, <2>1, <2>4
  <2>6. Assignment(q, r) \in Claim /\ Names(Assignment(q, r), r) /\ Assignment(q, r).req = q
    BY <1>1 DEF Assignment, Claim, Names
  <2>7. /\ claim' \in [User -> Claim] /\ claim'[u] = Assignment(q, r)
        /\ \A v \in User : v # u => claim'[v] = claim[v]
    BY <1>t, <2>1, <2>6
  <2>8. UNCHANGED <<phase, seat, banned, tracked, release, pub, cmd>>
    BY <1>1 DEF seatVars, registryVars
  <2>9. AdmissionTypeOK'
    BY <1>0, <1>1, <2>5, <2>7
       DEF AdmissionTypeOK, dbVars, seatVars, gameVars, registryVars
  <2>10. RequestInv'
    BY <1>0, <1>1, <2>2, <2>5, <2>8 DEF RequestInv
  <2>11. HeldInv'
    BY <1>0, <2>2, <2>5, <2>8 DEF HeldInv
  <2>12. SeatInv' /\ WatchInv'
    BY <1>0, <2>8 DEF SeatInv, WatchInv, Taken
  <2>13. claim[u].state # "assigned"
    BY <1>3 DEF Reservation
  <2>14. \A p \in Request : p # q => (req'[p].granted <=> req[p].granted)
    BY <2>5
  <2>15. \A s \in Room, v \in User :
           Rightful(s, v)' => Rightful(s, v) \/ seat[s][v] = q
    BY <2>8, <2>14 DEF Rightful
  <2>16. \A s \in Room, v \in User : seat[s][v] = q => s = r /\ v = u
    BY <1>0 DEF HeldInv
  <2>17. \A s \in Room :
           ~ Rightful(s, u) /\ ~ tracked[s][u].joined /\ ~ release[s][u].cooldown
    BY <1>0, <1>t, <2>13 DEF ClaimInv, Names
  <2>18. ClaimInv'
    <3>1. \A v \in User : (claim'[v].state = "assigned" => claim'[v].room \in Room)
      BY <1>0, <1>1, <2>6, <2>7 DEF ClaimInv, Names
    <3>2. \A v \in User : Granted(claim[v])'
      <4>1. ASSUME NEW v \in User, v # u PROVE Granted(claim[v])'
        BY <4>1, <1>0, <2>3, <2>5, <2>7, <2>14 DEF ClaimInv, Granted
      <4>2. ASSUME NEW v \in User, v = u PROVE Granted(claim[v])'
        BY <4>2, <1>t, <2>3, <2>5, <2>6, <2>7 DEF Granted
      <4> QED
        BY <4>1, <4>2
    <3>3. ASSUME NEW s \in Room, NEW v \in User,
                 (Rightful(s, v) \/ tracked[s][v].joined \/ release[s][v].cooldown)'
          PROVE  Names(claim[v], s)'
      <4>1. CASE v = u
        BY <3>3, <4>1, <2>6, <2>7, <2>8, <2>15, <2>16, <2>17
      <4>2. CASE v # u
        BY <3>3, <4>2, <1>0, <2>7, <2>8, <2>15, <2>16 DEF ClaimInv, Names
      <4> QED
        BY <4>1, <4>2
    <3> QED
      BY <3>1, <3>2, <3>3 DEF ClaimInv
  <2>19. PublishInv'
    <3> DEFINE s == pub.room
               v == pub.user
    <3>1. pub' = pub /\ v \in User /\ (pub.at # "idle" => s \in Room)
      BY <1>0, <1>t, <2>8 DEF PublishInv
    <3>2. Granted(pub.raw) /\ Granted(pub.raw)'
      <4>1. Granted(pub.raw)
        BY <1>0 DEF PublishInv
      <4> QED
        BY <4>1, <2>3, <2>5, <2>8, <2>14 DEF Granted
    <3>3. pub.at \in {"read", "flush"} => ~ tracked[s][v].joined
      BY <1>0 DEF PublishInv
    <3>4. CASE pub.at = "read"
      <4>1. /\ release[s][v].on \/ tracked[s][v].on
            /\ <<s, v>> \in banned \/ (Names(claim[v], s) /\ ~ Rightful(s, v))
        BY <1>0, <3>4 DEF PublishInv
      <4>2. CASE <<s, v>> \in banned
        BY <3>1, <3>2, <3>3, <3>4, <4>1, <4>2, <2>8 DEF PublishInv
      <4>3. CASE Names(claim[v], s) /\ ~ Rightful(s, v)
        <5>1. v # u
          BY <4>3, <2>13 DEF Names
        <5>2. (Names(claim[v], s) /\ ~ Rightful(s, v))'
          BY <5>1, <4>3, <3>1, <3>4, <2>7, <2>8, <2>15, <2>16 DEF Names
        <5> QED
          BY <5>2, <3>1, <3>2, <3>3, <3>4, <4>1, <2>8 DEF PublishInv
      <4> QED
        BY <4>1, <4>2, <4>3
    <3>5. CASE pub.at = "flush"
      <4>1. ASSUME Names(pub.raw, s), claim'[v] = pub.raw
            PROVE  ~ Rightful(s, v)'
        <5>1. v # u
          BY <4>1, <3>2, <1>1, <2>6, <2>7 DEF Granted, Names
        <5>2. claim[v] = pub.raw
          BY <4>1, <5>1, <3>1, <2>7
        <5>3. ~ Rightful(s, v)
          BY <1>0, <3>5, <4>1, <5>2 DEF PublishInv
        <5> QED
          BY <5>1, <5>3, <3>1, <3>5, <2>15, <2>16
      <4> QED
        BY <4>1, <3>1, <3>2, <3>3, <3>5, <2>8 DEF PublishInv, Names
    <3> QED
      BY <3>1, <3>2, <3>4, <3>5, <3>3, <2>8 DEF PublishInv
  <2> QED
    BY <2>9, <2>10, <2>11, <2>12, <2>18, <2>19 DEF AdmissionInv
<1> QED
  BY <1>2, <1>3

LEMMA MatchStepKeeps ==
  ASSUME AdmissionInv, NEW q \in Request, MatchStep(q)
  PROVE  AdmissionInv'
<1> DEFINE u == req[q].user
           r == req[q].room
<1>0. /\ claim \in [User -> Claim] /\ req \in [Request -> RequestRow] /\ row \in [Room -> 0..MaxMatch]
      /\ cmd \in [Request -> {"none", "queued", "read", "ok", "refused"}]
      /\ assigned \subseteq Room \X Match \X User
      /\ req[q] \in RequestRow /\ u \in User /\ req[q].row \in 0..MaxMatch
  BY Typed DEF AdmissionInv, AdmissionTypeOK
<1>s. /\ req[q].step # "idle" => r \in Room
      /\ req[q].step \in {"idle", "claim", "select", "insert"} => cmd[q] = "none"
      /\ req[q].step = "insert" => req[q].row # 0
      /\ req[q].step = "retry" => cmd[q] = "refused"
      /\ req[q].step = "assign" => cmd[q] = "ok"
      /\ req[q].granted => req[q].step = "done" /\ cmd[q] = "ok"
  BY DEF AdmissionInv, RequestInv
<1>1. ASSUME NEW v \in User, NEW s \in Room, BeginJoin(q, v, s) \/ BeginQuickJoin(q, v, s) \/ BeginCreate(q, v, s)
      PROVE  AdmissionInv'
  <2>1. CASE BeginJoin(q, v, s)
    BY <2>1, BeginKeeps DEF BeginJoin, Kind
  <2>2. CASE BeginQuickJoin(q, v, s)
    BY <2>2, BeginKeeps DEF BeginQuickJoin, Kind
  <2>3. CASE BeginCreate(q, v, s)
    BY <2>3, BeginKeeps DEF BeginCreate, Kind
  <2> QED
    BY <1>1, <2>1, <2>2, <2>3
<1>2. ASSUME NEW v \in User, BeginResume(q, v) \/ BeginEvict(q, v)
      PROVE  AdmissionInv'
  <2>1. claim[v].state = "assigned" => claim[v].room \in Room
    BY DEF AdmissionInv, ClaimInv
  <2>2. CASE BeginResume(q, v)
    BY <2>1, <2>2, BeginKeeps DEF BeginResume, Kind
  <2>3. CASE BeginEvict(q, v)
    BY <2>1, <2>3, BeginKeeps DEF BeginEvict, Kind
  <2> QED
    BY <1>2, <2>2, <2>3
<1>3. CASE ClaimActiveRoom(q)
  <2>1. Reservation(q) \in Claim /\ Reservation(q).state # "assigned" /\ NoClaim.state # "assigned"
    BY Constants DEF Reservation, Claim
  <2>2. claim' \in [User -> Claim]
    BY <1>0, <1>3, <2>1 DEF ClaimActiveRoom
  <2>3. \A v \in User :
          claim'[v] = claim[v] \/ (claim[v].state # "assigned" /\ claim'[v].state # "assigned")
    BY <1>0, <1>3, <2>1 DEF ClaimActiveRoom, Claimable
  <2>4. /\ req[q].step = "claim"
        /\ UNCHANGED <<cooldown, marker, row, assigned, seatVars, gameVars, registryVars>>
    BY <1>3 DEF ClaimActiveRoom, dbVars
  <2>5. \/ Goto(q, "sent") /\ cmd' = [cmd EXCEPT ![q] = "queued"]
        \/ (Goto(q, "select") \/ Goto(q, "done")) /\ cmd' = cmd
    BY <1>3 DEF ClaimActiveRoom
  <2>6. /\ cmd' \in [Request -> {"none", "queued", "read", "ok", "refused"}]
        /\ \A p \in Request : p # q => cmd'[p] = cmd[p]
    BY <1>0, <2>5
  <2>7. CASE Goto(q, "sent")
    BY <1>0, <1>s, <2>2, <2>3, <2>4, <2>6, <2>7, GotoKeeps DEF Step
  <2>8. CASE Goto(q, "select") /\ cmd' = cmd
    BY <1>0, <1>s, <2>2, <2>3, <2>4, <2>6, <2>8, GotoKeeps DEF Step
  <2>9. CASE Goto(q, "done") /\ cmd' = cmd
    BY <1>0, <1>s, <2>2, <2>3, <2>4, <2>6, <2>9, GotoKeeps DEF Step
  <2> QED
    BY <2>5, <2>7, <2>8, <2>9
<1>4. CASE SelectRow(q)
  <2> DEFINE selected == [req[q] EXCEPT !.row = row[r], !.step = AfterSelect(r)]
  <2>1. req[q].step = "select" /\ req' = [req EXCEPT ![q] = selected]
    BY <1>4 DEF SelectRow
  <2>2. AfterSelect(r) \in {"undoClaim", "insert"} /\ (AfterSelect(r) = "insert" => row[r] # 0)
    BY DEF AfterSelect
  <2>3. row[r] \in 0..MaxMatch
    BY <1>0, <1>s, <2>1
  <2>4. /\ selected.step = AfterSelect(r) /\ selected.row = row[r]
        /\ selected.user = req[q].user /\ selected.room = req[q].room
    BY <1>0 DEF RequestRow
  <2>5. selected.granted <=> req[q].granted
    BY <1>0, Zenon DEF RequestRow
  <2>6. selected \in RequestRow
    BY <1>0, <2>2, <2>3 DEF RequestRow, Step
  <2> HIDE DEF selected
  <2>7. /\ req' \in [Request -> RequestRow] /\ req'[q] = selected
        /\ \A p \in Request : p # q => req'[p] = req[p]
    BY <1>0, <2>1, <2>6
  <2>8. UNCHANGED <<redisVars, dbVars, seatVars, gameVars, registryVars, cmd>>
    BY <1>4 DEF SelectRow
  <2>9. AdmissionTypeOK'
    BY <2>7, <2>8
       DEF AdmissionInv, AdmissionTypeOK, redisVars, dbVars, seatVars, gameVars, registryVars
  <2>10. UNCHANGED <<phase, seat, banned, tracked, release, pub, claim, cmd>>
    BY <2>8 DEF redisVars, seatVars, registryVars
  <2> QED
    BY <1>s, <2>1, <2>2, <2>4, <2>5, <2>7, <2>9, <2>10, RequestStepKeeps
<1>5. CASE InsertAssignment(q)
  <2>1. /\ req[q].step = "insert" /\ r \in Room
        /\ UNCHANGED <<claim, cooldown, marker, row, seatVars, gameVars, registryVars>>
    BY <1>5, <1>s DEF InsertAssignment, redisVars
  <2>2. <<r, req[q].row, u>> \in Room \X Match \X User
    BY <1>0, <1>s, <2>1 DEF Match
  <2>3. assigned' \subseteq Room \X Match \X User
    BY <1>0, <1>5, <2>2 DEF InsertAssignment
  <2>4. \/ Goto(q, "sent") /\ cmd' = [cmd EXCEPT ![q] = "queued"]
        \/ Goto(q, "undoClaim") /\ cmd' = cmd
    BY <1>5 DEF InsertAssignment
  <2>5. /\ cmd' \in [Request -> {"none", "queued", "read", "ok", "refused"}]
        /\ \A p \in Request : p # q => cmd'[p] = cmd[p]
    BY <1>0, <2>4
  <2>6. CASE Goto(q, "sent")
    BY <1>0, <1>s, <2>1, <2>3, <2>5, <2>6, GotoKeeps DEF Step
  <2>7. CASE Goto(q, "undoClaim") /\ cmd' = cmd
    BY <1>0, <1>s, <2>1, <2>3, <2>5, <2>7, GotoKeeps DEF Step
  <2> QED
    BY <2>4, <2>6, <2>7
<1>6. CASE Rejected(q) \/ CommandTimeout(q)
  <2>1. /\ req[q].step = "sent"
        /\ UNCHANGED <<claim, cooldown, marker, row, assigned, seatVars, gameVars, registryVars, cmd>>
        /\ \/ Goto(q, "undoClaim") \/ Goto(q, "done") \/ Goto(q, "undoRow")
           \/ Goto(q, "retry") /\ cmd[q] = "refused"
    BY <1>6 DEF Rejected, CommandTimeout, redisVars, dbVars
  <2>2. \A s \in {"undoClaim", "done", "undoRow", "retry"} :
          Goto(q, s) /\ (s = "retry" => cmd[q] = "refused") => AdmissionInv'
    BY <1>0, <2>1, GotoKeeps DEF Step
  <2> QED
    BY <2>1, <2>2
<1>7. CASE Answered(q) \/ RequestDies(q)
  <2>1. /\ req[q].step \notin {"idle", "done"}
        /\ UNCHANGED <<claim, cooldown, marker, row, assigned, seatVars, gameVars, registryVars, cmd>>
        /\ Goto(q, "done") \/ Goto(q, "dead")
    BY <1>7 DEF Answered, RequestDies, redisVars, dbVars, Over
  <2>2. \A s \in {"done", "dead"} : Goto(q, s) => AdmissionInv'
    BY <1>0, <2>1, GotoKeeps DEF Step
  <2> QED
    BY <2>1, <2>2
<1>8. CASE Unclaim(q)
  <2>1. /\ req[q].step = "undoClaim"
        /\ UNCHANGED <<cooldown, marker, row, assigned, seatVars, gameVars, registryVars, cmd>>
        /\ Goto(q, "done") \/ Goto(q, "undoRow")
    BY <1>8 DEF Unclaim, dbVars
  <2>2. Reservation(q).state # "assigned" /\ NoClaim.state # "assigned" /\ NoClaim \in Claim
    BY Constants DEF Reservation
  <2>3. claim' = [claim EXCEPT ![u] = IF claim[u] = Reservation(q) THEN NoClaim ELSE claim[u]]
    BY <1>8 DEF Unclaim
  <2>4. claim' \in [User -> Claim]
    BY <1>0, <2>2, <2>3
  <2>5. \A v \in User :
          claim'[v] = claim[v] \/ (claim[v].state # "assigned" /\ claim'[v].state # "assigned")
    BY <1>0, <2>2, <2>3
  <2>6. \A s \in {"done", "undoRow"} : Goto(q, s) => AdmissionInv'
    BY <1>0, <2>1, <2>4, <2>5, GotoKeeps DEF Step
  <2> QED
    BY <2>1, <2>6
<1>9. CASE Unassign(q)
  <2>1. /\ req[q].step = "undoRow" /\ assigned' \subseteq assigned
        /\ row' = row \/ row' = [row EXCEPT ![r] = 0]
        /\ UNCHANGED <<claim, cooldown, marker, seatVars, gameVars, registryVars, cmd>>
        /\ Goto(q, "done") \/ Goto(q, "undoClaim")
    BY <1>9 DEF Unassign, redisVars
  <2>2. row' \in [Room -> 0..MaxMatch]
    BY <1>0, <2>1, AdmissionAssumption
  <2>3. \A s \in {"done", "undoClaim"} : Goto(q, s) => AdmissionInv'
    BY <1>0, <2>1, <2>2, GotoKeeps DEF Step
  <2> QED
    BY <2>1, <2>3
<1>10. CASE ConfirmRoom(q)
  <2> DEFINE confirmed == [req[q] EXCEPT !.row = 1, !.step = "assign"]
  <2>1. /\ req[q].step = "sent" /\ cmd[q] = "ok" /\ r \in Room
        /\ req' = [req EXCEPT ![q] = confirmed]
    BY <1>10, <1>s DEF ConfirmRoom
  <2>2. 1 \in 0..MaxMatch /\ 1 \in Match
    BY AdmissionAssumption DEF Match
  <2>3. /\ confirmed.step = "assign"
        /\ confirmed.user = req[q].user /\ confirmed.room = req[q].room
    BY <1>0 DEF RequestRow
  <2>4. confirmed.granted <=> req[q].granted
    BY <1>0, Zenon DEF RequestRow
  <2>5. confirmed \in RequestRow
    BY <1>0, <2>2 DEF RequestRow, Step
  <2> HIDE DEF confirmed
  <2>6. /\ req' \in [Request -> RequestRow] /\ req'[q] = confirmed
        /\ \A p \in Request : p # q => req'[p] = req[p]
    BY <1>0, <2>1, <2>5
  <2>7. row' \in [Room -> 0..MaxMatch] /\ assigned' \subseteq Room \X Match \X User
    BY <1>0, <1>10, <2>1, <2>2 DEF ConfirmRoom
  <2>8. UNCHANGED <<redisVars, seatVars, gameVars, registryVars, cmd>>
    BY <1>10 DEF ConfirmRoom
  <2>9. AdmissionTypeOK'
    BY <2>6, <2>7, <2>8
       DEF AdmissionInv, AdmissionTypeOK, redisVars, seatVars, gameVars, registryVars
  <2>10. UNCHANGED <<phase, seat, banned, tracked, release, pub, claim, cmd>>
    BY <2>8 DEF redisVars, seatVars, registryVars
  <2> QED
    BY <1>s, <2>1, <2>3, <2>4, <2>6, <2>9, <2>10, RequestStepKeeps
<1>11. CASE TryNextRoom(q)
  <2>1. /\ req[q].step = "retry" /\ assigned' \subseteq assigned
        /\ UNCHANGED <<claim, cooldown, marker, row, seatVars, gameVars, registryVars>>
    BY <1>11 DEF TryNextRoom, redisVars
  <2>2. CASE Goto(q, "undoClaim") /\ UNCHANGED cmd
    BY <1>0, <2>1, <2>2, GotoKeeps DEF Step
  <2>3. ASSUME NEW s \in Room,
               req' = [req EXCEPT ![q] = Candidate(q, s)],
               cmd' = [cmd EXCEPT ![q] = "none"]
        PROVE  AdmissionInv'
    <3> DEFINE next == Candidate(q, s)
    <3>1. next.step = "select" /\ next.room = s
      BY <1>0 DEF RequestRow, Candidate
    <3>2. next.granted <=> req[q].granted
      BY <1>0, Zenon DEF RequestRow, Candidate
    <3>3. next \in RequestRow
      <4>1. 0 \in 0..MaxMatch /\ req[q].tried \cup {s} \in SUBSET Room
        BY <1>0, AdmissionAssumption DEF RequestRow
      <4> QED
        BY <1>0, <4>1 DEF RequestRow, Step, Candidate
    <3> HIDE DEF next
    <3>4. /\ req' \in [Request -> RequestRow] /\ req'[q] = next
          /\ \A p \in Request : p # q => req'[p] = req[p]
      BY <1>0, <2>3, <3>3 DEF next
    <3>5. /\ cmd' \in [Request -> {"none", "queued", "read", "ok", "refused"}] /\ cmd'[q] = "none"
          /\ \A p \in Request : p # q => cmd'[p] = cmd[p]
      BY <1>0, <2>3
    <3>6. AdmissionTypeOK'
      BY <1>0, <2>1, <3>4, <3>5
         DEF AdmissionInv, AdmissionTypeOK, seatVars, gameVars, registryVars
    <3>7. UNCHANGED <<phase, seat, banned, tracked, release, pub, claim>>
      BY <2>1 DEF seatVars, registryVars
    <3> QED
      BY <1>s, <2>1, <3>1, <3>2, <3>4, <3>5, <3>6, <3>7, RequestStepKeeps
  <2>4. \/ Goto(q, "undoClaim") /\ UNCHANGED cmd
        \/ \E s \in Room :
              /\ req' = [req EXCEPT ![q] = Candidate(q, s)]
              /\ cmd' = [cmd EXCEPT ![q] = "none"]
    BY <1>11, Zenon DEF TryNextRoom
  <2> QED
    BY <2>2, <2>3, <2>4
<1>12. CASE AssignActiveRoom(q)
  BY <1>12, AssignKeeps
<1> QED
  <2>1. \/ \E v \in User :
            \/ \E s \in Room : BeginJoin(q, v, s) \/ BeginQuickJoin(q, v, s) \/ BeginCreate(q, v, s)
            \/ BeginResume(q, v) \/ BeginEvict(q, v)
        \/ ClaimActiveRoom(q) \/ SelectRow(q) \/ InsertAssignment(q)
        \/ ConfirmRoom(q) \/ AssignActiveRoom(q) \/ Rejected(q) \/ CommandTimeout(q)
        \/ Unclaim(q) \/ Unassign(q) \/ TryNextRoom(q) \/ Answered(q) \/ RequestDies(q)
    BY DEF MatchStep
  <2> QED
    BY <2>1, <1>1, <1>2, <1>3, <1>4, <1>5, <1>6, <1>7, <1>8, <1>9, <1>10, <1>11, <1>12

-----------------------------------------------------------------------------
(* The in-game server.                                                       *)

\* A command that waits for its answer: its request has sent it and was granted nothing.
LEMMA WaitingCommand ==
  ASSUME AdmissionInv, NEW q \in Request, cmd[q] \in {"queued", "read"}
  PROVE  /\ req[q].step \notin {"idle", "claim", "select", "insert", "retry", "assign"}
         /\ ~ req[q].granted /\ req[q].room \in Room /\ req[q].user \in User
         /\ \A r \in Room, u \in User : seat[r][u] # q
<1>1. RequestInv /\ HeldInv
  BY DEF AdmissionInv
<1>2. req[q].step \notin {"idle", "claim", "select", "insert", "retry", "assign"}
  BY <1>1 DEF RequestInv
<1>3. ~ req[q].granted
  BY <1>1 DEF RequestInv
<1>4. \A r \in Room, u \in User : seat[r][u] # q
  BY <1>1 DEF HeldInv
<1> QED
  BY <1>1, <1>2, <1>3, <1>4, Typed DEF RequestInv

\* Refusals, and the read before a join.
LEMMA AnswerKeeps ==
  ASSUME AdmissionInv, NEW q \in Request, Refuse(q) \/ ReadBlocks(q)
  PROVE  AdmissionInv'
<1>1. /\ cmd[q] \in {"queued", "read"}
      /\ cmd' = [cmd EXCEPT ![q] = "refused"] \/ cmd' = [cmd EXCEPT ![q] = "read"]
      /\ UNCHANGED <<redisVars, dbVars, seatVars, gameVars, registryVars, req>>
  BY DEF Refuse, ReadBlocks, Reply, Queued
<1>2. /\ cmd' \in [Request -> {"none", "queued", "read", "ok", "refused"}]
      /\ \A p \in Request : p # q => cmd'[p] = cmd[p]
  BY <1>1, Typed
<1>3. AdmissionTypeOK'
  BY <1>1, <1>2
     DEF AdmissionInv, AdmissionTypeOK, redisVars, dbVars, seatVars, gameVars, registryVars
<1>4. UNCHANGED <<claim, phase, seat, banned, tracked, release, pub>>
  BY <1>1 DEF redisVars, seatVars, registryVars
<1> QED
  BY <1>1, <1>2, <1>3, <1>4, WaitingCommand, RequestStepKeeps

\* An entry of the release queue is dropped.
LEMMA ReleaseDropped ==
  ASSUME release \in [Room -> [User -> PendingRelease]], NEW r \in Room, NEW u \in User,
         release' = Put(release, r, u, NoRelease)
  PROVE  /\ release' \in [Room -> [User -> PendingRelease]] /\ release'[r][u] = NoRelease
         /\ \A s \in Room, v \in User : s # r \/ v # u => release'[s][v] = release[s][v]
<1>1. NoRelease \in PendingRelease
  BY Constants
<1> QED
  BY <1>1, PutRelease

\* trackSeat watches the seat and forgets a release, unless it is a kick.
LEMMA TrackSeatWatches ==
  ASSUME AdmissionInv, NEW r \in Room, NEW u \in User, NEW w \in Request \cup {NoRequest},
         TrackSeat(r, u, w), ~ release[r][u].kicked
  PROVE  /\ tracked' \in [Room -> [User -> TrackedSeat]]
         /\ release' \in [Room -> [User -> PendingRelease]]
         /\ tracked'[r][u].on /\ (tracked'[r][u].joined => tracked[r][u].joined)
         /\ ~ release'[r][u].on /\ ~ release'[r][u].cooldown /\ ~ release'[r][u].kicked
         /\ \A s \in Room, v \in User : s # r \/ v # u =>
              tracked'[s][v] = tracked[s][v] /\ release'[s][v] = release[s][v]
<1>1. /\ tracked \in [Room -> [User -> TrackedSeat]] /\ release \in [Room -> [User -> PendingRelease]]
  BY Typed
<1>2. release' = Put(release, r, u, NoRelease)
  BY DEF TrackSeat
<1>3. /\ release' \in [Room -> [User -> PendingRelease]] /\ release'[r][u] = NoRelease
      /\ \A s \in Room, v \in User : s # r \/ v # u => release'[s][v] = release[s][v]
  BY <1>1, <1>2, ReleaseDropped
<1> DEFINE new == [on |-> TRUE, joined |-> FALSE, req |-> w]
<1>4. new \in TrackedSeat /\ new.on /\ ~ new.joined
  BY Zenon DEF TrackedSeat
<1>5. tracked' = IF tracked[r][u].on THEN tracked ELSE Put(tracked, r, u, new)
  BY DEF TrackSeat
<1> HIDE DEF new
<1>6. /\ tracked' \in [Room -> [User -> TrackedSeat]]
      /\ tracked'[r][u].on /\ (tracked'[r][u].joined => tracked[r][u].joined)
      /\ \A s \in Room, v \in User : s # r \/ v # u => tracked'[s][v] = tracked[s][v]
  <2>1. CASE tracked[r][u].on
    BY <1>1, <1>5, <2>1
  <2>2. CASE ~ tracked[r][u].on
    <3> DEFINE put == Put(tracked, r, u, new)
    <3>1. /\ put \in [Room -> [User -> TrackedSeat]] /\ put[r][u] = new
          /\ \A s \in Room, v \in User : s # r \/ v # u => put[s][v] = tracked[s][v]
      BY <1>1, <1>4, PutTracked
    <3> QED
      BY <1>4, <1>5, <2>2, <3>1
  <2> QED
    BY <2>1, <2>2
<1> QED
  BY <1>3, <1>6, Constants

\* A seat is held for the request whose command is answered, or its member returns; it
\* is watched from now on.
LEMMA ReservationKeeps ==
  ASSUME AdmissionInv, AdmissionTypeOK', NEW q \in Request, cmd[q] \in {"queued", "read"},
         NEW r \in Room, NEW u \in User, r = req[q].room, u = req[q].user,
         NEW w \in Request \cup {NoRequest}, TrackSeat(r, u, w),
         Reply(q, "ok"), UNCHANGED <<claim, banned, pub, req>>,
         <<r, u>> \notin banned,
         \A s \in Room, v \in User : s # r \/ v # u => seat'[s][v] = seat[s][v],
         seat'[r][u] = q \/ (seat'[r][u] = seat[r][u] /\ seat[r][u] = Member),
         phase'[r] = "open", \A s \in Room : s # r => phase'[s] = phase[s]
  PROVE  AdmissionInv'
<1>0. RequestInv /\ HeldInv /\ SeatInv /\ WatchInv /\ ClaimInv /\ PublishInv
  BY DEF AdmissionInv
<1>1. ~ release[r][u].kicked
  BY <1>0 DEF WatchInv
<1>2. /\ tracked'[r][u].on /\ (tracked'[r][u].joined => tracked[r][u].joined)
      /\ ~ release'[r][u].on /\ ~ release'[r][u].cooldown /\ ~ release'[r][u].kicked
      /\ \A s \in Room, v \in User : s # r \/ v # u =>
           tracked'[s][v] = tracked[s][v] /\ release'[s][v] = release[s][v]
  BY <1>1, TrackSeatWatches
<1>3. /\ req[q].step \notin {"idle", "claim", "select", "insert", "retry", "assign"}
      /\ ~ req[q].granted
  BY WaitingCommand
<1>4. cmd'[q] = "ok" /\ \A p \in Request : p # q => cmd'[p] = cmd[p]
  BY Typed DEF Reply
<1>5. RequestInv'
  BY <1>0, <1>3, <1>4 DEF RequestInv
<1>6. HeldInv'
  <2>1. ASSUME NEW p \in Request, NEW s \in Room, NEW v \in User, seat'[s][v] = p
        PROVE  req[p].user = v /\ req[p].room = s /\ cmd'[p] = "ok"
    <3>1. CASE s = r /\ v = u /\ seat'[r][u] = q
      BY <2>1, <3>1, <1>4
    <3>2. CASE seat'[s][v] = seat[s][v]
      BY <2>1, <3>2, <1>0, <1>4 DEF HeldInv
    <3> QED
      BY <3>1, <3>2
  <2> QED
    BY <2>1 DEF HeldInv
<1>7. SeatInv'
  <2>1. ASSUME NEW s \in Room, NEW v \in User, s # r \/ v # u
        PROVE  /\ Taken(s, v)' => phase'[s] = "open" /\ tracked'[s][v].on
               /\ <<s, v>> \in banned => ~ Taken(s, v)' /\ phase'[s] # "none"
    BY <2>1, <1>0, <1>2 DEF SeatInv, Taken
  <2> QED
    BY <2>1, <1>2 DEF SeatInv
<1>8. WatchInv'
  <2>1. ASSUME NEW s \in Room, NEW v \in User, s # r \/ v # u
        PROVE  /\ tracked'[s][v].joined => tracked'[s][v].on
               /\ release'[s][v].on => ~ tracked'[s][v].on
               /\ release'[s][v].cooldown => release'[s][v].on
               /\ release'[s][v].kicked => <<s, v>> \in banned
    BY <2>1, <1>0, <1>2 DEF WatchInv
  <2> QED
    BY <2>1, <1>2 DEF WatchInv
<1>9. \A s \in Room, v \in User : Rightful(s, v)' => Rightful(s, v)
  BY <1>3, AdmissionAssumption DEF Rightful
<1>10. ClaimInv'
  <2>1. \A v \in User : (claim'[v].state = "assigned" => claim'[v].room \in Room) /\ Granted(claim[v])'
    BY <1>0 DEF ClaimInv, Granted
  <2>2. ASSUME NEW s \in Room, NEW v \in User,
               (Rightful(s, v) \/ tracked[s][v].joined \/ release[s][v].cooldown)'
        PROVE  Names(claim[v], s)'
    <3>1. Rightful(s, v) \/ tracked[s][v].joined \/ release[s][v].cooldown
      BY <2>2, <1>2, <1>9
    <3> QED
      BY <3>1, <1>0 DEF ClaimInv, Names
  <2> QED
    BY <2>1, <2>2 DEF ClaimInv
<1>11. PublishInv'
  <2> DEFINE s == pub.room
             v == pub.user
  <2>1. pub' = pub /\ v \in User /\ (pub.at # "idle" => s \in Room)
    BY <1>0, Typed DEF PublishInv
  <2>2. Granted(pub.raw)'
    BY <1>0 DEF PublishInv, Granted
  <2>3. CASE pub.at = "read"
    <3>1. /\ release[s][v].on \/ tracked[s][v].on
          /\ <<s, v>> \in banned \/ (Names(claim[v], s) /\ ~ Rightful(s, v))
          /\ ~ tracked[s][v].joined
      BY <1>0, <2>3 DEF PublishInv
    <3>2. release'[s][v].on \/ tracked'[s][v].on
      BY <2>1, <2>3, <3>1, <1>2
    <3>3. ~ tracked'[s][v].joined
      BY <2>1, <2>3, <3>1, <1>2
    <3> QED
      BY <2>1, <2>2, <2>3, <3>1, <3>2, <3>3, <1>9 DEF PublishInv, Names
  <2>4. CASE pub.at = "flush"
    <3>1. ~ tracked'[s][v].joined
      BY <1>0, <2>1, <2>4, <1>2 DEF PublishInv
    <3>2. Names(pub.raw, s) /\ claim[v] = pub.raw => ~ Rightful(s, v)
      BY <1>0, <2>4 DEF PublishInv
    <3> QED
      BY <2>1, <2>2, <2>4, <3>1, <3>2, <1>9 DEF PublishInv, Names
  <2> QED
    BY <2>1, <2>2, <2>3, <2>4 DEF PublishInv
<1> QED
  BY <1>5, <1>6, <1>7, <1>8, <1>10, <1>11 DEF AdmissionInv

LEMMA CreateRoomKeeps ==
  ASSUME AdmissionInv, NEW q \in Request, CreateRoom(q)
  PROVE  AdmissionInv'
<1> DEFINE r == req[q].room
           u == req[q].user
<1>1. /\ cmd[q] = "queued" /\ phase[r] = "none" /\ phase' = [phase EXCEPT ![r] = "open"]
      /\ seat' = Put(seat, r, u, q) /\ TrackSeat(r, u, q) /\ Reply(q, "ok")
      /\ UNCHANGED <<redisVars, dbVars, banned, gameVars, pub, req>>
  BY DEF CreateRoom, Queued
<1>2. r \in Room /\ u \in User
  BY <1>1, WaitingCommand
<1>3. /\ seat' \in [Room -> [User -> Request \cup {Free, Member}]] /\ seat'[r][u] = q
      /\ \A s \in Room, v \in User : s # r \/ v # u => seat'[s][v] = seat[s][v]
  <2>1. seat \in [Room -> [User -> Request \cup {Free, Member}]] /\ q \in Request \cup {Free, Member}
    BY Typed
  <2> QED
    BY <1>1, <1>2, <2>1, PutSeat
<1>4. /\ phase' \in [Room -> {"none", "open", "closed"}] /\ phase'[r] = "open"
      /\ \A s \in Room : s # r => phase'[s] = phase[s]
  BY <1>1, <1>2, Typed
<1>5. <<r, u>> \notin banned
  BY <1>1, <1>2 DEF AdmissionInv, SeatInv
<1>6. ~ release[r][u].kicked
  BY <1>2, <1>5 DEF AdmissionInv, WatchInv
<1>7. /\ tracked' \in [Room -> [User -> TrackedSeat]]
      /\ release' \in [Room -> [User -> PendingRelease]]
  BY <1>1, <1>2, <1>6, TrackSeatWatches
<1>8. cmd' \in [Request -> {"none", "queued", "read", "ok", "refused"}]
  BY <1>1, Typed DEF Reply
<1>9. AdmissionTypeOK'
  BY <1>1, <1>3, <1>4, <1>7, <1>8
     DEF AdmissionInv, AdmissionTypeOK, redisVars, dbVars, gameVars
<1>10. UNCHANGED <<claim, banned, pub, req>>
  BY <1>1 DEF redisVars
<1> HIDE DEF r, u
<1> QED
  BY <1>1, <1>2, <1>3, <1>4, <1>5, <1>9, <1>10, ReservationKeeps DEF r, u

LEMMA ReserveJoinKeeps ==
  ASSUME AdmissionInv, NEW q \in Request, ReserveJoin(q)
  PROVE  AdmissionInv'
<1> DEFINE r == req[q].room
           u == req[q].user
<1>1. \E w \in Request \cup {NoRequest} :
        /\ cmd[q] = "read" /\ phase[r] = "open" /\ <<r, u>> \notin banned
        /\ seat' = Put(seat, r, u, q) /\ TrackSeat(r, u, w) /\ Reply(q, "ok")
        /\ UNCHANGED <<redisVars, dbVars, phase, banned, gameVars, pub, req>>
  BY DEF ReserveJoin
<1> PICK w \in Request \cup {NoRequest} :
        /\ cmd[q] = "read" /\ phase[r] = "open" /\ <<r, u>> \notin banned
        /\ seat' = Put(seat, r, u, q) /\ TrackSeat(r, u, w) /\ Reply(q, "ok")
        /\ UNCHANGED <<redisVars, dbVars, phase, banned, gameVars, pub, req>>
  BY <1>1
<1>2. r \in Room /\ u \in User
  BY WaitingCommand
<1>3. /\ seat' \in [Room -> [User -> Request \cup {Free, Member}]] /\ seat'[r][u] = q
      /\ \A s \in Room, v \in User : s # r \/ v # u => seat'[s][v] = seat[s][v]
  <2>1. seat \in [Room -> [User -> Request \cup {Free, Member}]] /\ q \in Request \cup {Free, Member}
    BY Typed
  <2> QED
    BY <1>2, <2>1, PutSeat
<1>4. ~ release[r][u].kicked
  BY <1>2 DEF AdmissionInv, WatchInv
<1>5. /\ tracked' \in [Room -> [User -> TrackedSeat]]
      /\ release' \in [Room -> [User -> PendingRelease]]
  BY <1>2, <1>4, TrackSeatWatches
<1>6. cmd' \in [Request -> {"none", "queued", "read", "ok", "refused"}]
  BY Typed DEF Reply
<1>7. AdmissionTypeOK'
  BY <1>3, <1>5, <1>6 DEF AdmissionInv, AdmissionTypeOK, redisVars, dbVars, gameVars
<1>8. UNCHANGED <<claim, banned, pub, req>>
  BY DEF redisVars
<1> HIDE DEF r, u
<1> QED
  BY <1>2, <1>3, <1>7, <1>8, ReservationKeeps DEF r, u

LEMMA ReserveResumeKeeps ==
  ASSUME AdmissionInv, NEW q \in Request, ReserveResume(q)
  PROVE  AdmissionInv'
<1> DEFINE r == req[q].room
           u == req[q].user
<1>1. /\ cmd[q] = "queued" /\ phase[r] = "open" /\ seat[r][u] = Member
      /\ TrackSeat(r, u, NoRequest) /\ Reply(q, "ok")
      /\ UNCHANGED <<redisVars, dbVars, seatVars, gameVars, pub, req>>
  BY DEF ReserveResume, Queued
<1>2. r \in Room /\ u \in User
  BY <1>1, WaitingCommand
<1>3. <<r, u>> \notin banned
  BY <1>1, <1>2, AdmissionAssumption DEF AdmissionInv, SeatInv, Taken, Free, Member
<1>4. ~ release[r][u].kicked
  BY <1>2, <1>3 DEF AdmissionInv, WatchInv
<1>5. /\ tracked' \in [Room -> [User -> TrackedSeat]]
      /\ release' \in [Room -> [User -> PendingRelease]]
  BY <1>1, <1>2, <1>4, TrackSeatWatches
<1>6. cmd' \in [Request -> {"none", "queued", "read", "ok", "refused"}]
  BY <1>1, Typed DEF Reply
<1>7. AdmissionTypeOK'
  BY <1>1, <1>5, <1>6 DEF AdmissionInv, AdmissionTypeOK, redisVars, dbVars, seatVars, gameVars
<1>8. UNCHANGED <<claim, phase, seat, banned, pub, req>>
  BY <1>1 DEF redisVars, seatVars
<1> HIDE DEF r, u
<1> QED
  BY <1>1, <1>2, <1>3, <1>7, <1>8, ReservationKeeps DEF r, u

\* Seats only become free, at least those of the users who go; a room that closes has none.
LEMMA VacateFrees ==
  ASSUME AdmissionInv, NEW r \in Room, NEW gone \in SUBSET User, Vacate(r, gone)
  PROVE  /\ seat' \in [Room -> [User -> Request \cup {Free, Member}]]
         /\ phase' \in [Room -> {"none", "open", "closed"}]
         /\ result' \in [Room -> {"none", "running", "pending", "recorded", "invalid"}]
         /\ \A s \in Room, v \in User : seat'[s][v] = seat[s][v] \/ seat'[s][v] = Free
         /\ \A v \in gone : seat'[r][v] = Free
         /\ \A s \in Room : phase'[s] # phase[s] =>
              phase'[s] = "closed" /\ \A v \in User : seat'[s][v] = Free
<1>1. /\ seat \in [Room -> [User -> Request \cup {Free, Member}]]
      /\ phase \in [Room -> {"none", "open", "closed"}]
      /\ result \in [Room -> {"none", "running", "pending", "recorded", "invalid"}]
  BY Typed DEF AdmissionInv, AdmissionTypeOK
<1> DEFINE seats == [u \in User |-> IF u \in gone THEN Free ELSE seat[r][u]]
           empty == [u \in User |-> Free]
<1>2. \/ seat' = [seat EXCEPT ![r] = seats] /\ phase' = phase /\ result' = result
      \/ /\ seat' = [seat EXCEPT ![r] = empty] /\ phase' = [phase EXCEPT ![r] = "closed"]
         /\ result' = [result EXCEPT ![r] = IF result[r] = "running" THEN "none" ELSE result[r]]
  BY DEF Vacate
<1>3. /\ seats \in [User -> Request \cup {Free, Member}]
      /\ \A v \in User : seats[v] = seat[r][v] \/ seats[v] = Free
      /\ \A v \in gone : seats[v] = Free
  BY <1>1
<1>4. empty \in [User -> Request \cup {Free, Member}] /\ \A v \in User : empty[v] = Free
  OBVIOUS
<1> HIDE DEF seats, empty
<1>5. CASE seat' = [seat EXCEPT ![r] = seats] /\ phase' = phase /\ result' = result
  <2>1. seat'[r] = seats /\ \A s \in Room : s # r => seat'[s] = seat[s]
    BY <1>1, <1>5
  <2>2. seat' \in [Room -> [User -> Request \cup {Free, Member}]]
    BY <1>1, <1>3, <1>5
  <2>3. \A s \in Room, v \in User : seat'[s][v] = seat[s][v] \/ seat'[s][v] = Free
    BY <1>3, <2>1
  <2> QED
    BY <1>1, <1>3, <1>5, <2>1, <2>2, <2>3
<1>6. CASE /\ seat' = [seat EXCEPT ![r] = empty] /\ phase' = [phase EXCEPT ![r] = "closed"]
           /\ result' = [result EXCEPT ![r] = IF result[r] = "running" THEN "none" ELSE result[r]]
  <2>1. seat'[r] = empty /\ \A s \in Room : s # r => seat'[s] = seat[s] /\ phase'[s] = phase[s]
    BY <1>1, <1>6
  <2>2. seat' \in [Room -> [User -> Request \cup {Free, Member}]]
    BY <1>1, <1>4, <1>6
  <2>3. \A s \in Room, v \in User : seat'[s][v] = seat[s][v] \/ seat'[s][v] = Free
    BY <1>4, <2>1
  <2>4. phase'[r] = "closed"
    BY <1>1, <1>6
  <2>5. /\ phase' \in [Room -> {"none", "open", "closed"}]
        /\ result' \in [Room -> {"none", "running", "pending", "recorded", "invalid"}]
    BY <1>1, <1>6
  <2> QED
    BY <1>4, <2>1, <2>2, <2>3, <2>4, <2>5
<1> QED
  BY <1>2, <1>5, <1>6

\* Users lose their seats and nothing else changes: the registry finds out later.
LEMMA VacateKeeps ==
  ASSUME AdmissionInv, NEW r \in Room, NEW gone \in SUBSET User, Vacate(r, gone),
         UNCHANGED <<redisVars, dbVars, banned, game, roster, registryVars, req, cmd>>
  PROVE  AdmissionInv'
<1>0. /\ RequestInv /\ HeldInv /\ SeatInv /\ WatchInv /\ ClaimInv /\ PublishInv
  BY DEF AdmissionInv
<1>1. /\ seat' \in [Room -> [User -> Request \cup {Free, Member}]]
      /\ phase' \in [Room -> {"none", "open", "closed"}]
      /\ result' \in [Room -> {"none", "running", "pending", "recorded", "invalid"}]
      /\ \A s \in Room, v \in User : seat'[s][v] = seat[s][v] \/ seat'[s][v] = Free
      /\ \A s \in Room : phase'[s] # phase[s] =>
           phase'[s] = "closed" /\ \A v \in User : seat'[s][v] = Free
  BY VacateFrees
<1>2. UNCHANGED <<claim, cooldown, marker, row, assigned, tracked, release, pub, banned, req, cmd>>
  BY DEF redisVars, dbVars, registryVars
<1>3. AdmissionTypeOK'
  BY <1>1, <1>2 DEF AdmissionInv, AdmissionTypeOK
<1>4. RequestInv' /\ WatchInv'
  BY <1>0, <1>2 DEF RequestInv, WatchInv
<1>5. HeldInv'
  <2>1. \A q \in Request : q # Free
    BY AdmissionAssumption
  <2> QED
    BY <1>0, <1>1, <1>2, <2>1 DEF HeldInv
<1>6. SeatInv'
  <2>1. ASSUME NEW s \in Room, NEW v \in User
        PROVE  /\ Taken(s, v)' => phase'[s] = "open" /\ tracked[s][v].on
               /\ <<s, v>> \in banned => ~ Taken(s, v)' /\ phase'[s] # "none"
    BY <1>0, <1>1 DEF SeatInv, Taken
  <2> QED
    BY <1>2, <2>1 DEF SeatInv
<1>7. \A s \in Room, v \in User : Rightful(s, v)' => Rightful(s, v)
  BY <1>1, <1>2, AdmissionAssumption DEF Rightful, Free, Member
<1>8. ClaimInv'
  BY <1>0, <1>2, <1>7 DEF ClaimInv, Granted, Names
<1>9. PublishInv'
  <2> DEFINE s == pub.room
             v == pub.user
  <2>1. pub' = pub /\ v \in User /\ (pub.at # "idle" => s \in Room)
    BY <1>0, <1>2, Typed DEF PublishInv
  <2>2. Granted(pub.raw)'
    BY <1>0, <1>2 DEF PublishInv, Granted
  <2>3. CASE pub.at = "read"
    BY <1>0, <1>2, <1>7, <2>1, <2>2, <2>3 DEF PublishInv, Names
  <2>4. CASE pub.at = "flush"
    BY <1>0, <1>2, <1>7, <2>1, <2>2, <2>4 DEF PublishInv, Names
  <2> QED
    BY <1>0, <1>2, <2>1, <2>2, <2>3, <2>4 DEF PublishInv
<1> QED
  BY <1>3, <1>4, <1>5, <1>6, <1>8, <1>9 DEF AdmissionInv

\* The seat of a granted request becomes its member's.
LEMMA AdmitKeeps ==
  ASSUME AdmissionInv, NEW q \in Request, Admit(q)
  PROVE  AdmissionInv'
<1> DEFINE r == req[q].room
           u == req[q].user
<1>0. /\ RequestInv /\ HeldInv /\ SeatInv /\ WatchInv /\ ClaimInv /\ PublishInv
  BY DEF AdmissionInv
<1>1. /\ req[q].granted /\ seat[r][u] = q /\ seat' = Put(seat, r, u, Member)
      /\ UNCHANGED <<redisVars, dbVars, phase, banned, gameVars, registryVars, req, cmd>>
  BY DEF Admit
<1>2. r \in Room /\ u \in User
  BY <1>0, <1>1, Typed DEF RequestInv
<1>3. /\ seat' \in [Room -> [User -> Request \cup {Free, Member}]] /\ seat'[r][u] = Member
      /\ \A s \in Room, v \in User : s # r \/ v # u => seat'[s][v] = seat[s][v]
  <2>1. seat \in [Room -> [User -> Request \cup {Free, Member}]] /\ Member \in Request \cup {Free, Member}
    BY Typed
  <2> QED
    BY <1>1, <1>2, <2>1, PutSeat
<1>4. UNCHANGED <<claim, tracked, release, pub, banned, phase, req, cmd>>
  BY <1>1 DEF redisVars, registryVars
<1>5. AdmissionTypeOK'
  BY <1>1, <1>3 DEF AdmissionInv, AdmissionTypeOK, redisVars, dbVars, gameVars, registryVars
<1>6. RequestInv' /\ WatchInv'
  BY <1>0, <1>4 DEF RequestInv, WatchInv
<1>7. Taken(r, u) /\ Rightful(r, u)
  BY <1>1, AdmissionAssumption DEF Taken, Rightful
<1> HIDE DEF r, u
<1>8. HeldInv'
  <2>1. ASSUME NEW p \in Request, NEW s \in Room, NEW v \in User, seat'[s][v] = p
        PROVE  req[p].user = v /\ req[p].room = s /\ cmd[p] = "ok"
    <3>1. seat[s][v] = p
      BY <1>3, <2>1, AdmissionAssumption
    <3> QED
      BY <3>1, <1>0 DEF HeldInv
  <2> QED
    BY <1>4, <2>1 DEF HeldInv
<1>9. \A s \in Room, v \in User : Taken(s, v)' => Taken(s, v)
  BY <1>3, <1>7 DEF Taken
<1>10. SeatInv'
  BY <1>0, <1>4, <1>9 DEF SeatInv
<1>11. \A s \in Room, v \in User : Rightful(s, v)' => Rightful(s, v)
  BY <1>3, <1>4, <1>7 DEF Rightful
<1>12. ClaimInv'
  BY <1>0, <1>4, <1>11 DEF ClaimInv, Granted, Names
<1>13. PublishInv'
  <2> DEFINE s == pub.room
             v == pub.user
  <2>1. pub' = pub /\ v \in User /\ (pub.at # "idle" => s \in Room)
    BY <1>0, <1>4, Typed DEF PublishInv
  <2>2. Granted(pub.raw)'
    BY <1>0, <1>4 DEF PublishInv, Granted
  <2>3. CASE pub.at = "read"
    BY <1>0, <1>4, <1>11, <2>1, <2>2, <2>3 DEF PublishInv, Names
  <2>4. CASE pub.at = "flush"
    BY <1>0, <1>4, <1>11, <2>1, <2>2, <2>4 DEF PublishInv, Names
  <2> QED
    BY <1>0, <1>4, <2>1, <2>2, <2>3, <2>4 DEF PublishInv
<1> QED
  BY <1>5, <1>6, <1>8, <1>10, <1>12, <1>13 DEF AdmissionInv

\* An eviction: the seat is free, unwatched, and its release queued as a kick.
LEMMA KickKeeps ==
  ASSUME AdmissionInv, NEW q \in Request, KickUser(q)
  PROVE  AdmissionInv'
<1> DEFINE r == req[q].room
           u == req[q].user
           kick == [on |-> TRUE, kicked |-> TRUE,
                    cooldown |-> release[r][u].cooldown \/ seat[r][u] = Member]
<1>0. /\ RequestInv /\ HeldInv /\ SeatInv /\ WatchInv /\ ClaimInv /\ PublishInv
  BY DEF AdmissionInv
<1>1. /\ cmd[q] = "queued" /\ phase[r] = "open" /\ Vacate(r, {u})
      /\ banned' = banned \cup {<<r, u>>}
      /\ release' = Put(release, r, u, kick)
      /\ tracked' = Put(tracked, r, u, Untracked)
      /\ Reply(q, "ok")
      /\ UNCHANGED <<redisVars, dbVars, game, roster, pub, req>>
  BY Zenon DEF KickUser, Queued
<1>2. r \in Room /\ u \in User
  BY <1>1, WaitingCommand
<1>3. kick.on /\ kick.kicked /\ (kick.cooldown <=> release[r][u].cooldown \/ seat[r][u] = Member)
  BY Zenon
<1>4. kick \in PendingRelease
  <2>1. (release[r][u].cooldown \/ seat[r][u] = Member) \in BOOLEAN
    OBVIOUS
  <2> QED
    BY <2>1, Zenon DEF PendingRelease
<1> HIDE DEF kick, r, u
<1>5. /\ release' \in [Room -> [User -> PendingRelease]] /\ release'[r][u] = kick
      /\ \A s \in Room, v \in User : s # r \/ v # u => release'[s][v] = release[s][v]
  <2>1. release \in [Room -> [User -> PendingRelease]]
    BY Typed
  <2> DEFINE put == Put(release, r, u, kick)
  <2>2. /\ put \in [Room -> [User -> PendingRelease]] /\ put[r][u] = kick
        /\ \A s \in Room, v \in User : s # r \/ v # u => put[s][v] = release[s][v]
    BY <1>2, <1>4, <2>1, PutRelease
  <2> HIDE DEF put
  <2>3. release' = put
    BY <1>1 DEF put
  <2> QED
    BY <2>2, <2>3
<1>6. /\ tracked' \in [Room -> [User -> TrackedSeat]] /\ tracked'[r][u] = Untracked
      /\ \A s \in Room, v \in User : s # r \/ v # u => tracked'[s][v] = tracked[s][v]
  <2>1. tracked \in [Room -> [User -> TrackedSeat]] /\ Untracked \in TrackedSeat
    BY Typed, Constants
  <2> DEFINE put == Put(tracked, r, u, Untracked)
  <2>2. /\ put \in [Room -> [User -> TrackedSeat]] /\ put[r][u] = Untracked
        /\ \A s \in Room, v \in User : s # r \/ v # u => put[s][v] = tracked[s][v]
    BY <1>2, <2>1, PutTracked
  <2> HIDE DEF put
  <2>3. tracked' = put
    BY <1>1 DEF put
  <2> QED
    BY <2>2, <2>3
<1>7. /\ seat' \in [Room -> [User -> Request \cup {Free, Member}]]
      /\ phase' \in [Room -> {"none", "open", "closed"}]
      /\ result' \in [Room -> {"none", "running", "pending", "recorded", "invalid"}]
      /\ \A s \in Room, v \in User : seat'[s][v] = seat[s][v] \/ seat'[s][v] = Free
      /\ seat'[r][u] = Free
      /\ \A s \in Room : phase'[s] # phase[s] =>
           phase'[s] = "closed" /\ \A v \in User : seat'[s][v] = Free
  BY <1>1, <1>2, VacateFrees
<1>8. /\ cmd' \in [Request -> {"none", "queued", "read", "ok", "refused"}] /\ cmd'[q] = "ok"
      /\ \A p \in Request : p # q => cmd'[p] = cmd[p]
  BY <1>1, Typed DEF Reply
<1>9. banned' \subseteq Room \X User
  BY <1>1, <1>2 DEF AdmissionInv, AdmissionTypeOK
<1>10. UNCHANGED <<claim, cooldown, marker, row, assigned, game, roster, pub, req>>
  BY <1>1 DEF redisVars, dbVars
<1>11. AdmissionTypeOK'
  BY <1>5, <1>6, <1>7, <1>8, <1>9, <1>10 DEF AdmissionInv, AdmissionTypeOK
<1>12. RequestInv'
  BY <1>0, <1>1, <1>2, <1>8, <1>10, WaitingCommand DEF RequestInv
<1>13. HeldInv'
  <2>1. \A p \in Request : p # Free
    BY AdmissionAssumption
  <2>2. \A p \in Request : cmd[p] = "ok" => cmd'[p] = "ok"
    BY <1>8
  <2> QED
    BY <1>0, <1>7, <1>10, <2>1, <2>2 DEF HeldInv
<1>14. SeatInv'
  <2>1. ASSUME NEW s \in Room, NEW v \in User, s # r \/ v # u
        PROVE  /\ Taken(s, v)' => phase'[s] = "open" /\ tracked'[s][v].on
               /\ <<s, v>> \in banned' => ~ Taken(s, v)' /\ phase'[s] # "none"
    <3>1. Taken(s, v)' => phase'[s] = "open" /\ tracked'[s][v].on
      <4>1. tracked'[s][v] = tracked[s][v]
        BY <1>6, <2>1
      <4>2. Taken(s, v)' => Taken(s, v) /\ phase'[s] = phase[s]
        BY <1>7 DEF Taken
      <4> QED
        BY <1>0, <4>1, <4>2 DEF SeatInv
    <3>2. <<s, v>> \in banned' => <<s, v>> \in banned
      BY <1>1, <2>1
    <3>3. <<s, v>> \in banned' => ~ Taken(s, v)' /\ phase'[s] # "none"
      BY <1>0, <1>7, <2>1, <3>2 DEF SeatInv, Taken
    <3> QED
      BY <3>1, <3>3
  <2>2. \A s \in Room, v \in User : s = r /\ v = u => ~ Taken(s, v)' /\ phase'[s] # "none"
    <3>1. phase'[r] \in {"open", "closed"}
      BY <1>1, <1>2, <1>7
    <3> QED
      BY <1>7, <3>1 DEF Taken
  <2> QED
    BY <2>1, <2>2 DEF SeatInv
<1>15. WatchInv'
  <2>1. ASSUME NEW s \in Room, NEW v \in User, s # r \/ v # u
        PROVE  /\ tracked'[s][v].joined => tracked'[s][v].on
               /\ release'[s][v].on => ~ tracked'[s][v].on
               /\ release'[s][v].cooldown => release'[s][v].on
               /\ release'[s][v].kicked => <<s, v>> \in banned'
    BY <2>1, <1>0, <1>1, <1>5, <1>6 DEF WatchInv
  <2>2. /\ release'[r][u].on /\ <<r, u>> \in banned'
        /\ ~ tracked'[r][u].joined /\ ~ tracked'[r][u].on
    BY <1>1, <1>3, <1>5, <1>6, Constants
  <2> QED
    BY <2>1, <2>2 DEF WatchInv
<1>16. \A s \in Room, v \in User : Rightful(s, v)' => Rightful(s, v)
  BY <1>7, <1>10, AdmissionAssumption DEF Rightful, Free, Member
<1>17. ClaimInv'
  <2>1. \A v \in User : (claim'[v].state = "assigned" => claim'[v].room \in Room) /\ Granted(claim[v])'
    BY <1>0, <1>10 DEF ClaimInv, Granted
  <2>2. ASSUME NEW s \in Room, NEW v \in User,
               (Rightful(s, v) \/ tracked[s][v].joined \/ release[s][v].cooldown)'
        PROVE  Names(claim[v], s)'
    <3>1. CASE s = r /\ v = u
      <4>1. Rightful(r, u) \/ release[r][u].cooldown
        BY <2>2, <3>1, <1>3, <1>5, <1>6, <1>16, Constants DEF Rightful
      <4> QED
        BY <4>1, <3>1, <1>0, <1>10 DEF ClaimInv, Names
    <3>2. CASE s # r \/ v # u
      BY <2>2, <3>2, <1>0, <1>5, <1>6, <1>10, <1>16 DEF ClaimInv, Names
    <3> QED
      BY <3>1, <3>2
  <2> QED
    BY <2>1, <2>2 DEF ClaimInv
<1>18. PublishInv'
  <2> DEFINE s == pub.room
             v == pub.user
  <2>1. pub' = pub /\ v \in User /\ (pub.at # "idle" => s \in Room)
    BY <1>0, <1>10, Typed DEF PublishInv
  <2>2. Granted(pub.raw)'
    BY <1>0, <1>10 DEF PublishInv, Granted
  <2>3. pub.at \in {"read", "flush"} => ~ tracked'[s][v].joined
    BY <1>0, <1>6, <2>1, Constants DEF PublishInv
  <2>4. CASE pub.at = "read"
    <3>1. /\ release[s][v].on \/ tracked[s][v].on
          /\ <<s, v>> \in banned \/ (Names(claim[v], s) /\ ~ Rightful(s, v))
      BY <1>0, <2>4 DEF PublishInv
    <3>2. release'[s][v].on \/ tracked'[s][v].on
      BY <1>3, <1>5, <1>6, <2>1, <2>4, <3>1
    <3>3. <<s, v>> \in banned' \/ (Names(claim[v], s)' /\ ~ Rightful(s, v)')
      BY <1>1, <1>10, <1>16, <2>1, <2>4, <3>1 DEF Names
    <3> QED
      BY <1>10, <2>1, <2>2, <2>3, <2>4, <3>2, <3>3 DEF PublishInv
  <2>5. CASE pub.at = "flush"
    <3>1. Names(pub.raw, s) /\ claim[v] = pub.raw => ~ Rightful(s, v)
      BY <1>0, <2>5 DEF PublishInv
    <3> QED
      BY <1>10, <1>16, <2>1, <2>2, <2>3, <2>5, <3>1 DEF PublishInv, Names
  <2> QED
    BY <2>1, <2>2, <2>3, <2>4, <2>5 DEF PublishInv
<1> QED
  BY <1>11, <1>12, <1>13, <1>14, <1>15, <1>17, <1>18 DEF AdmissionInv

\* Games, results and rows are no part of it.
LEMMA UntouchedKeeps ==
  ASSUME AdmissionInv, AdmissionTypeOK',
         UNCHANGED <<claim, phase, seat, banned, tracked, release, pub, req, cmd>>
  PROVE  AdmissionInv'
<1>0. /\ RequestInv /\ HeldInv /\ SeatInv /\ WatchInv /\ ClaimInv /\ PublishInv
  BY DEF AdmissionInv
<1>1. RequestInv' /\ HeldInv' /\ WatchInv'
  BY <1>0 DEF RequestInv, HeldInv, WatchInv
<1>2. SeatInv'
  BY <1>0 DEF SeatInv, Taken
<1>3. ClaimInv'
  BY <1>0 DEF ClaimInv, Rightful, Granted, Names
<1>4. PublishInv'
  BY <1>0 DEF PublishInv, Rightful, Granted, Names
<1> QED
  BY <1>1, <1>2, <1>3, <1>4 DEF AdmissionInv

LEMMA GameServerStepKeeps ==
  ASSUME AdmissionInv, GameServerStep
  PROVE  AdmissionInv'
<1>1. ASSUME NEW q \in Request,
             \/ Refuse(q) \/ CreateRoom(q) \/ ReadBlocks(q) \/ ReserveJoin(q) \/ ReserveResume(q)
             \/ KickUser(q) \/ Admit(q)
      PROVE  AdmissionInv'
  BY <1>1, AnswerKeeps, CreateRoomKeeps, ReserveJoinKeeps, ReserveResumeKeeps, KickKeeps, AdmitKeeps
<1>2. ASSUME NEW r \in Room, NEW u \in User, HoldExpires(r, u) \/ Leave(r, u)
      PROVE  AdmissionInv'
  <2>1. /\ Vacate(r, {u})
        /\ UNCHANGED <<redisVars, dbVars, banned, game, roster, registryVars, req, cmd>>
    BY <1>2 DEF HoldExpires, Leave
  <2> QED
    BY <2>1, VacateKeeps
<1>3. ASSUME NEW r \in Room, StartGame(r) \/ EndGame(r)
      PROVE  AdmissionInv'
  <2>1. UNCHANGED <<redisVars, dbVars, seatVars, registryVars, req, cmd>>
    BY <1>3 DEF StartGame, EndGame
  <2>2. /\ game' \in [Room -> 0..MaxMatch] /\ roster' \in [Room -> SUBSET User]
        /\ result' \in [Room -> {"none", "running", "pending", "recorded", "invalid"}]
    <3>1. /\ game \in [Room -> 0..MaxMatch] /\ roster \in [Room -> SUBSET User]
          /\ result \in [Room -> {"none", "running", "pending", "recorded", "invalid"}]
          /\ row[r] \in 0..MaxMatch
      BY DEF AdmissionInv, AdmissionTypeOK
    <3>2. {u \in User : seat[r][u] = Member} \in SUBSET User
      OBVIOUS
    <3> QED
      BY <1>3, <3>1, <3>2 DEF StartGame, EndGame
  <2>3. AdmissionTypeOK'
    BY <2>1, <2>2 DEF AdmissionInv, AdmissionTypeOK, redisVars, dbVars, seatVars, registryVars
  <2>4. UNCHANGED <<claim, phase, seat, banned, tracked, release, pub, req, cmd>>
    BY <2>1 DEF redisVars, seatVars, registryVars
  <2> QED
    BY <2>3, <2>4, UntouchedKeeps
<1> QED
  BY <1>1, <1>2, <1>3 DEF GameServerStep

-----------------------------------------------------------------------------
(* The registry's publish loop.                                              *)

\* The loop goes on without touching claims, seats or what it watches.
LEMMA PublishStepKeeps ==
  ASSUME AdmissionInv, pub' \in Publishing, PublishInv',
         cooldown' \subseteq Room \X User, marker' \subseteq Room \X User,
         UNCHANGED <<claim, dbVars, seatVars, gameVars, tracked, release, req, cmd>>
  PROVE  AdmissionInv'
<1>0. /\ RequestInv /\ HeldInv /\ SeatInv /\ WatchInv /\ ClaimInv /\ PublishInv
  BY DEF AdmissionInv
<1>1. UNCHANGED <<claim, phase, seat, banned, tracked, release, req, cmd>>
  BY DEF seatVars
<1>2. AdmissionTypeOK'
  BY DEF AdmissionInv, AdmissionTypeOK, dbVars, seatVars, gameVars
<1>3. RequestInv' /\ HeldInv' /\ WatchInv'
  BY <1>0, <1>1 DEF RequestInv, HeldInv, WatchInv
<1>4. SeatInv'
  BY <1>0, <1>1 DEF SeatInv, Taken
<1>5. ClaimInv'
  BY <1>0, <1>1 DEF ClaimInv, Rightful, Granted, Names
<1> QED
  BY <1>2, <1>3, <1>4, <1>5 DEF AdmissionInv

\* An entry of the release queue is taken up: its user has no seat.
LEMMA FlushKeeps ==
  ASSUME AdmissionInv, NEW r \in Room, NEW u \in User, FlushRelease(r, u)
  PROVE  AdmissionInv'
<1>0. /\ RequestInv /\ HeldInv /\ SeatInv /\ WatchInv /\ ClaimInv /\ PublishInv
  BY DEF AdmissionInv
<1>1. /\ pub.at = "idle" /\ release[r][u].on
      /\ UNCHANGED <<dbVars, seatVars, gameVars, tracked, req, cmd>>
  BY DEF FlushRelease
<1>2. ~ tracked[r][u].on /\ ~ tracked[r][u].joined /\ ~ Taken(r, u)
  BY <1>0, <1>1 DEF WatchInv, SeatInv
<1>3. /\ cooldown' = cooldown \cup {k \in {<<r, u>>} : release[r][u].cooldown}
      /\ marker' = marker \cup {k \in {<<r, u>>} : release[r][u].kicked}
      /\ pub' = [Idle EXCEPT !.at = IF release[r][u].cooldown \/ release[r][u].kicked
                                    THEN "read" ELSE "flush",
                             !.room = r, !.user = u,
                             !.raw = IF release[r][u].cooldown \/ release[r][u].kicked
                                     THEN NoClaim ELSE claim[u]]
      /\ UNCHANGED <<claim, release>>
  BY <1>2, Zenon DEF FlushRelease, SeatStands
<1>c. cooldown' \subseteq Room \X User /\ marker' \subseteq Room \X User
  <2>1. cooldown \subseteq Room \X User /\ marker \subseteq Room \X User /\ <<r, u>> \in Room \X User
    BY DEF AdmissionInv, AdmissionTypeOK
  <2>2. cooldown' \subseteq cooldown \cup {<<r, u>>} /\ marker' \subseteq marker \cup {<<r, u>>}
    BY <1>3, Zenon
  <2> QED
    BY <2>1, <2>2
<1>4. CASE release[r][u].cooldown \/ release[r][u].kicked
  <2>1. pub' = [Idle EXCEPT !.at = "read", !.room = r, !.user = u, !.raw = NoClaim]
    BY <1>3, <1>4
  <2>2. /\ pub' \in Publishing /\ pub'.at = "read" /\ pub'.room = r /\ pub'.user = u
        /\ pub'.raw = NoClaim
    BY <2>1, Constants DEF Publishing
  <2>3. <<r, u>> \in banned \/ Names(claim[u], r)
    BY <1>0, <1>4 DEF WatchInv, ClaimInv
  <2>4. ~ Rightful(r, u)'
    BY <1>1, <1>2, AdmissionAssumption DEF seatVars, Rightful, Taken, Free, Member
  <2>5. PublishInv'
    BY <1>1, <1>2, <1>3, <2>2, <2>3, <2>4, Constants DEF PublishInv, Granted, Names, seatVars
  <2> QED
    BY <1>1, <1>3, <1>c, <2>2, <2>5, PublishStepKeeps
<1>5. CASE ~ (release[r][u].cooldown \/ release[r][u].kicked)
  <2>1. pub' = [Idle EXCEPT !.at = "flush", !.room = r, !.user = u, !.raw = claim[u]]
    BY <1>3, <1>5
  <2>2. /\ pub' \in Publishing /\ pub'.at = "flush" /\ pub'.room = r /\ pub'.user = u
        /\ pub'.raw = claim[u]
    BY <2>1, Constants, Typed DEF Publishing
  <2>3. ~ Rightful(r, u)'
    BY <1>1, <1>2, AdmissionAssumption DEF seatVars, Rightful, Taken, Free, Member
  <2>4. Granted(pub.raw)'
    BY <1>0, <1>1, <2>2 DEF ClaimInv, Granted
  <2>5. PublishInv'
    BY <1>1, <1>2, <1>3, <2>2, <2>3, <2>4 DEF PublishInv
  <2> QED
    BY <1>1, <1>3, <1>c, <2>2, <2>5, PublishStepKeeps
<1> QED
  BY <1>4, <1>5

\* The claim is read after the keys are written, and a failure ends the pass.
LEMMA ReadClaimKeeps ==
  ASSUME AdmissionInv, ReadClaim \/ PublishFails
  PROVE  AdmissionInv'
<1>0. /\ RequestInv /\ HeldInv /\ SeatInv /\ WatchInv /\ ClaimInv /\ PublishInv
  BY DEF AdmissionInv
<1>t. pub \in Publishing /\ pub.user \in User /\ claim \in [User -> Claim]
  BY Typed
<1>1. CASE ReadClaim
  <2> DEFINE r == pub.room
             u == pub.user
  <2>1. /\ pub.at = "read" /\ pub' = [pub EXCEPT !.at = "flush", !.raw = claim[u]]
        /\ UNCHANGED <<redisVars, dbVars, seatVars, gameVars, tracked, release, req, cmd>>
    BY <1>1 DEF ReadClaim
  <2>2. /\ pub' \in Publishing /\ pub'.at = "flush" /\ pub'.room = r /\ pub'.user = u
        /\ pub'.raw = claim[u]
    BY <1>t, <2>1 DEF Publishing
  <2>3. /\ r \in Room /\ ~ tracked[r][u].joined
        /\ <<r, u>> \in banned \/ ~ Rightful(r, u)
    BY <1>0, <2>1 DEF PublishInv
  <2>4. ~ Rightful(r, u)
    BY <1>0, <1>t, <2>3, AdmissionAssumption DEF SeatInv, Taken, Rightful, Free, Member
  <2>5. Granted(pub.raw)'
    BY <1>0, <1>t, <2>1, <2>2 DEF ClaimInv, Granted
  <2>6. UNCHANGED <<claim, phase, seat, banned, tracked, release, req, cmd, cooldown, marker>>
    BY <2>1 DEF redisVars, seatVars
  <2>7. PublishInv'
    BY <2>2, <2>3, <2>4, <2>5, <2>6 DEF PublishInv, Rightful
  <2>8. cooldown' \subseteq Room \X User /\ marker' \subseteq Room \X User
    BY <2>6 DEF AdmissionInv, AdmissionTypeOK
  <2> QED
    BY <2>1, <2>2, <2>6, <2>7, <2>8, PublishStepKeeps
<1>2. CASE PublishFails
  <2>1. /\ pub' = Idle
        /\ UNCHANGED <<redisVars, dbVars, seatVars, gameVars, tracked, release, req, cmd>>
    BY <1>2 DEF PublishFails
  <2>2. pub' \in Publishing /\ pub'.at = "idle" /\ pub'.raw = NoClaim
    BY <2>1, Constants DEF Idle
  <2>3. PublishInv'
    BY <2>2, Constants DEF PublishInv, Granted
  <2>4. UNCHANGED <<claim, cooldown, marker>>
    BY <2>1 DEF redisVars
  <2>5. cooldown' \subseteq Room \X User /\ marker' \subseteq Room \X User
    BY <2>4 DEF AdmissionInv, AdmissionTypeOK
  <2> QED
    BY <2>1, <2>2, <2>3, <2>4, <2>5, PublishStepKeeps
<1> QED
  BY <1>1, <1>2

\* Nothing happens to seats and what is watched of them.
LEMMA SeatsStand ==
  ASSUME SeatInv, UNCHANGED <<phase, seat, banned, tracked>>
  PROVE  SeatInv'
BY DEF SeatInv, Taken

\* No rightful seat, no joined watch and no cooldown left behind: then the claim may go.
LEMMA ClaimMayGo ==
  ASSUME AdmissionInv, NEW u \in User, AdmissionTypeOK', PublishInv',
         claim' = [claim EXCEPT ![u] = NoClaim],
         \A r \in Room : ~ Rightful(r, u) /\ ~ tracked[r][u].joined /\ ~ release'[r][u].cooldown,
         UNCHANGED <<phase, seat, banned, tracked, req, cmd>>,
         \A r \in Room, v \in User : release'[r][v] = release[r][v] \/ release'[r][v] = NoRelease
  PROVE  AdmissionInv'
<1>0. /\ RequestInv /\ HeldInv /\ SeatInv /\ WatchInv /\ ClaimInv /\ PublishInv
  BY DEF AdmissionInv
<1>1. RequestInv' /\ HeldInv'
  BY <1>0 DEF RequestInv, HeldInv
<1>2. SeatInv'
  BY <1>0, SeatsStand
<1>3. WatchInv'
  BY <1>0, Constants DEF WatchInv
<1>4. /\ claim'[u] = NoClaim /\ \A v \in User : v # u => claim'[v] = claim[v]
      /\ \A r \in Room, v \in User : Rightful(r, v)' <=> Rightful(r, v)
  BY Typed DEF Rightful
<1>5. ClaimInv'
  <2>1. ASSUME NEW v \in User
        PROVE  (claim'[v].state = "assigned" => claim'[v].room \in Room) /\ Granted(claim[v])'
    <3>1. CASE v = u
      BY <1>4, <3>1, Constants DEF Granted
    <3>2. CASE v # u
      BY <1>0, <1>4, <3>2 DEF ClaimInv, Granted
    <3> QED
      BY <3>1, <3>2
  <2>2. ASSUME NEW r \in Room, NEW v \in User,
               (Rightful(r, v) \/ tracked[r][v].joined \/ release[r][v].cooldown)'
        PROVE  Names(claim[v], r)'
    <3>1. v # u
      BY <1>4, <2>2
    <3>2. Rightful(r, v) \/ tracked[r][v].joined \/ release[r][v].cooldown
      BY <1>4, <2>2, Constants
    <3> QED
      BY <1>0, <1>4, <3>1, <3>2 DEF ClaimInv, Names
  <2> QED
    BY <2>1, <2>2 DEF ClaimInv
<1> QED
  BY <1>1, <1>2, <1>3, <1>5 DEF AdmissionInv

\* The end of an entry: the claim that was read is deleted, if it is still there.
LEMMA DeleteKeeps ==
  ASSUME AdmissionInv, DeleteMatchingActiveRoom
  PROVE  AdmissionInv'
<1> DEFINE r == pub.room
           u == pub.user
<1>0. /\ RequestInv /\ HeldInv /\ SeatInv /\ WatchInv /\ ClaimInv /\ PublishInv
  BY DEF AdmissionInv
<1>1. /\ pub.at = "flush" /\ pub' = Idle /\ release' = Put(release, r, u, NoRelease)
      /\ claim' = IF StillMatches(r, u) THEN [claim EXCEPT ![u] = NoClaim] ELSE claim
      /\ UNCHANGED <<cooldown, marker, dbVars, seatVars, gameVars, tracked, req, cmd>>
  BY DEF DeleteMatchingActiveRoom
<1>2. r \in Room /\ u \in User
  BY <1>0, <1>1, Typed DEF PublishInv
<1>3. /\ release' \in [Room -> [User -> PendingRelease]] /\ release'[r][u] = NoRelease
      /\ \A s \in Room, v \in User : s # r \/ v # u => release'[s][v] = release[s][v]
  BY <1>1, <1>2, Typed, ReleaseDropped
<1>4. pub' \in Publishing /\ pub'.at = "idle" /\ pub'.raw = NoClaim
  BY <1>1, Constants DEF Idle
<1>5. claim' \in [User -> Claim]
  BY <1>1, <1>2, Typed, Constants
<1>6. AdmissionTypeOK'
  BY <1>1, <1>3, <1>4, <1>5 DEF AdmissionInv, AdmissionTypeOK, dbVars, seatVars, gameVars
<1>7. UNCHANGED <<phase, seat, banned, tracked, req, cmd>>
  BY <1>1 DEF seatVars
<1>8. CASE StillMatches(r, u)
  <2>1. Names(claim[u], r) /\ claim[u] = pub.raw
    BY <1>8 DEF StillMatches, Names
  <2>2. ~ Rightful(r, u) /\ ~ tracked[r][u].joined
    BY <1>0, <1>1, <2>1 DEF PublishInv
  <2>3. ASSUME NEW s \in Room
        PROVE  ~ Rightful(s, u) /\ ~ tracked[s][u].joined /\ ~ release'[s][u].cooldown
    <3>1. CASE s = r
      BY <3>1, <2>2, <1>3, Constants
    <3>2. CASE s # r
      BY <3>2, <2>1, <1>0, <1>2, <1>3 DEF ClaimInv, Names
    <3> QED
      BY <3>1, <3>2
  <2>4. claim' = [claim EXCEPT ![u] = NoClaim]
    BY <1>1, <1>8
  <2>5. PublishInv'
    BY <1>4, Constants DEF PublishInv, Granted
  <2> HIDE DEF r, u
  <2> QED
    BY <1>2, <1>3, <1>6, <1>7, <2>3, <2>4, <2>5, ClaimMayGo
<1>9. CASE ~ StillMatches(r, u)
  <2>1. claim' = claim
    BY <1>1, <1>9
  <2>2. RequestInv' /\ HeldInv'
    BY <1>0, <1>7 DEF RequestInv, HeldInv
  <2>3. SeatInv'
    BY <1>0, <1>7 DEF SeatInv, Taken
  <2>4. WatchInv'
    <3>1. \A s \in Room, v \in User : release'[s][v] = release[s][v] \/ release'[s][v] = NoRelease
      BY <1>3
    <3> QED
      BY <1>0, <1>7, <3>1, Constants DEF WatchInv
  <2>5. ClaimInv'
    <3>1. \A s \in Room, v \in User : release'[s][v].cooldown => release[s][v].cooldown
      BY <1>3, Constants
    <3> QED
      BY <1>0, <1>7, <2>1, <3>1 DEF ClaimInv, Granted, Names, Rightful
  <2>6. PublishInv'
    BY <1>4, Constants DEF PublishInv, Granted
  <2> QED
    BY <1>6, <2>2, <2>3, <2>4, <2>5, <2>6 DEF AdmissionInv
<1> QED
  BY <1>8, <1>9

\* A watched seat is looked at: its claim is read, or it is free and its release queued.
LEMMA SynchronizeKeeps ==
  ASSUME AdmissionInv, NEW r \in Room, NEW u \in User, SynchronizeSeat(r, u)
  PROVE  AdmissionInv'
<1> DEFINE t == tracked[r][u]
           now == [t EXCEPT !.joined = t.joined \/ seat[r][u] = Member]
           entry == [on |-> TRUE, cooldown |-> phase[r] = "open" /\ t.joined,
                     kicked |-> phase[r] = "open" /\ <<r, u>> \in banned]
<1>0. /\ RequestInv /\ HeldInv /\ SeatInv /\ WatchInv /\ ClaimInv /\ PublishInv
  BY DEF AdmissionInv
<1>1. /\ pub.at = "idle" /\ t.on
      /\ UNCHANGED <<redisVars, dbVars, seatVars, gameVars, req, cmd>>
  BY DEF SynchronizeSeat
<1>2. t \in TrackedSeat /\ tracked \in [Room -> [User -> TrackedSeat]]
      /\ release \in [Room -> [User -> PendingRelease]]
  BY Typed
<1>3. UNCHANGED <<claim, phase, seat, banned, req, cmd>>
  BY <1>1 DEF redisVars, seatVars
<1>4. RequestInv' /\ HeldInv'
  BY <1>0, <1>3 DEF RequestInv, HeldInv
<1>5. \A s \in Room, v \in User : Rightful(s, v)' => Rightful(s, v)
  BY <1>3 DEF Rightful
<1>6. \A v \in User : (claim'[v].state = "assigned" => claim'[v].room \in Room) /\ Granted(claim[v])'
  BY <1>0, <1>3 DEF ClaimInv, Granted
<1>7. CASE SeatStands(r, u)
  <2>1. /\ tracked' = Put(tracked, r, u, now) /\ release' = release
        /\ pub' = [at |-> "sync", room |-> r, user |-> u, raw |-> claim[u], tracked |-> now]
    BY <1>7, Zenon DEF SynchronizeSeat
  <2>2. now \in TrackedSeat
    <3>1. (t.joined \/ seat[r][u] = Member) \in BOOLEAN
      OBVIOUS
    <3> QED
      BY <1>2, <3>1, Zenon DEF TrackedSeat
  <2>3. now.on /\ (now.joined <=> t.joined \/ seat[r][u] = Member)
    BY <1>1, <1>2, Zenon DEF TrackedSeat
  <2> HIDE DEF now
  <2>4. /\ tracked' \in [Room -> [User -> TrackedSeat]] /\ tracked'[r][u] = now
        /\ \A s \in Room, v \in User : s # r \/ v # u => tracked'[s][v] = tracked[s][v]
    <3> DEFINE put == Put(tracked, r, u, now)
    <3>1. /\ put \in [Room -> [User -> TrackedSeat]] /\ put[r][u] = now
          /\ \A s \in Room, v \in User : s # r \/ v # u => put[s][v] = tracked[s][v]
      BY <1>2, <2>2, PutTracked
    <3> HIDE DEF put
    <3>2. tracked' = put
      BY <2>1 DEF put
    <3> QED
      BY <3>1, <3>2
  <2>5. /\ pub' \in Publishing /\ pub'.at = "sync" /\ pub'.room = r /\ pub'.raw = claim[u]
    BY <2>1, <2>2, Typed DEF Publishing
  <2>6. AdmissionTypeOK'
    BY <1>1, <2>1, <2>4, <2>5
       DEF AdmissionInv, AdmissionTypeOK, redisVars, dbVars, seatVars, gameVars
  <2>7. \A s \in Room, v \in User : tracked'[s][v].on <=> tracked[s][v].on
    BY <1>1, <2>3, <2>4
  <2>8. SeatInv'
    BY <1>0, <1>3, <2>7 DEF SeatInv, Taken
  <2>9. WatchInv'
    <3>1. \A s \in Room, v \in User : tracked'[s][v].joined => tracked'[s][v].on
      <4>1. ASSUME NEW s \in Room, NEW v \in User, s # r \/ v # u, tracked'[s][v].joined
            PROVE  tracked'[s][v].on
        <5>1. tracked'[s][v] = tracked[s][v]
          BY <4>1, <2>4
        <5>2. tracked[s][v].joined => tracked[s][v].on
          BY <1>0 DEF WatchInv
        <5> QED
          BY <4>1, <5>1, <5>2
      <4>2. tracked'[r][u].on
        BY <2>3, <2>4
      <4> QED
        BY <4>1, <4>2
    <3>2. release' = release /\ banned' = banned
      BY <1>3, <2>1
    <3> QED
      BY <1>0, <2>7, <3>1, <3>2 DEF WatchInv
  <2>10. ClaimInv'
    <3>1. ASSUME NEW s \in Room, NEW v \in User, tracked'[s][v].joined
          PROVE  tracked[s][v].joined \/ Rightful(s, v)
      BY <3>1, <2>3, <2>4 DEF Rightful
    <3>2. ASSUME NEW s \in Room, NEW v \in User,
                 (Rightful(s, v) \/ tracked[s][v].joined \/ release[s][v].cooldown)'
          PROVE  Names(claim[v], s)'
      BY <3>1, <3>2, <1>0, <1>3, <1>5, <2>1 DEF ClaimInv, Names
    <3> QED
      BY <1>6, <3>2 DEF ClaimInv
  <2>11. PublishInv'
    BY <1>6, <2>5, <1>3 DEF PublishInv, Granted
  <2> QED
    BY <1>4, <2>6, <2>8, <2>9, <2>10, <2>11 DEF AdmissionInv
<1>8. CASE ~ SeatStands(r, u)
  <2>1. /\ tracked' = Put(tracked, r, u, Untracked) /\ release' = Put(release, r, u, entry)
        /\ pub' = pub
    BY <1>8, Zenon DEF SynchronizeSeat
  <2>2. entry \in PendingRelease
    <3>1. (phase[r] = "open" /\ t.joined) \in BOOLEAN /\ (phase[r] = "open" /\ <<r, u>> \in banned) \in BOOLEAN
      OBVIOUS
    <3> QED
      BY <3>1, Zenon DEF PendingRelease
  <2>3. entry.on /\ (entry.cooldown => t.joined) /\ (entry.kicked => <<r, u>> \in banned)
    BY Zenon
  <2> HIDE DEF entry
  <2>4. /\ tracked' \in [Room -> [User -> TrackedSeat]] /\ tracked'[r][u] = Untracked
        /\ \A s \in Room, v \in User : s # r \/ v # u => tracked'[s][v] = tracked[s][v]
    <3>1. Untracked \in TrackedSeat
      BY Constants
    <3> QED
      BY <1>2, <2>1, <3>1, PutTracked
  <2>5. /\ release' \in [Room -> [User -> PendingRelease]] /\ release'[r][u] = entry
        /\ \A s \in Room, v \in User : s # r \/ v # u => release'[s][v] = release[s][v]
    <3> DEFINE put == Put(release, r, u, entry)
    <3>1. /\ put \in [Room -> [User -> PendingRelease]] /\ put[r][u] = entry
          /\ \A s \in Room, v \in User : s # r \/ v # u => put[s][v] = release[s][v]
      <4>1. release \in [Room -> [User -> PendingRelease]]
        BY Typed
      <4> QED
        BY <2>2, <4>1, PutRelease
    <3> HIDE DEF put
    <3>2. release' = put
      BY <2>1 DEF put
    <3> QED
      BY <3>1, <3>2
  <2>6. AdmissionTypeOK'
    BY <1>1, <2>1, <2>4, <2>5
       DEF AdmissionInv, AdmissionTypeOK, redisVars, dbVars, seatVars, gameVars
  <2>7. ~ Taken(r, u)
    BY <1>0, <1>8 DEF SeatInv, SeatStands
  <2>8. SeatInv'
    <3>1. ASSUME NEW s \in Room, NEW v \in User, Taken(s, v)'
          PROVE  phase[s] = "open" /\ tracked'[s][v].on
      <4>1. Taken(s, v) /\ (s # r \/ v # u)
        BY <3>1, <1>3, <2>7 DEF Taken
      <4> QED
        BY <4>1, <1>0, <2>4 DEF SeatInv
    <3>2. ASSUME NEW s \in Room, NEW v \in User, <<s, v>> \in banned
          PROVE  ~ Taken(s, v)' /\ phase[s] # "none"
      BY <3>2, <1>0, <1>3 DEF SeatInv, Taken
    <3> QED
      BY <3>1, <3>2, <1>3 DEF SeatInv
  <2>9. WatchInv'
    <3>1. ASSUME NEW s \in Room, NEW v \in User, s # r \/ v # u
          PROVE  /\ tracked'[s][v].joined => tracked'[s][v].on
                 /\ release'[s][v].on => ~ tracked'[s][v].on
                 /\ release'[s][v].cooldown => release'[s][v].on
                 /\ release'[s][v].kicked => <<s, v>> \in banned
      BY <3>1, <1>0, <2>4, <2>5 DEF WatchInv
    <3>2. ~ tracked'[r][u].joined /\ ~ tracked'[r][u].on
      BY <2>4, Constants
    <3>3. release'[r][u].on /\ (release'[r][u].kicked => <<r, u>> \in banned)
      BY <2>3, <2>5
    <3> QED
      BY <1>3, <3>1, <3>2, <3>3 DEF WatchInv
  <2>10. ClaimInv'
    <3>1. ASSUME NEW s \in Room, NEW v \in User,
                 (Rightful(s, v) \/ tracked[s][v].joined \/ release[s][v].cooldown)'
          PROVE  Rightful(s, v) \/ tracked[s][v].joined \/ release[s][v].cooldown
      <4>1. CASE s = r /\ v = u
        BY <3>1, <4>1, <1>5, <2>3, <2>4, <2>5, Constants
      <4>2. CASE s # r \/ v # u
        BY <3>1, <4>2, <1>5, <2>4, <2>5
      <4> QED
        BY <4>1, <4>2
    <3>2. ASSUME NEW s \in Room, NEW v \in User,
                 (Rightful(s, v) \/ tracked[s][v].joined \/ release[s][v].cooldown)'
          PROVE  Names(claim[v], s)'
      BY <3>1, <3>2, <1>0, <1>3 DEF ClaimInv, Names
    <3> QED
      BY <1>6, <3>2 DEF ClaimInv
  <2>11. PublishInv'
    BY <1>0, <1>1, <1>3, <2>1 DEF PublishInv, Granted
  <2> QED
    BY <1>4, <2>6, <2>8, <2>9, <2>10, <2>11 DEF AdmissionInv
<1> QED
  BY <1>7, <1>8

\* A claim appears where there was none: nobody has a rightful seat anywhere else.
LEMMA RefreshKeeps ==
  ASSUME AdmissionInv, RefreshClaim
  PROVE  AdmissionInv'
<1> DEFINE r == pub.room
           u == pub.user
<1>0. /\ RequestInv /\ HeldInv /\ SeatInv /\ WatchInv /\ ClaimInv /\ PublishInv
  BY DEF AdmissionInv
<1>1. /\ pub.at = "sync" /\ pub' = Idle
      /\ \/ claim' = claim
         \/ claim[u] = NoClaim /\ claim' = [claim EXCEPT ![u] = Assignment(NoRequest, r)]
      /\ UNCHANGED <<cooldown, marker, dbVars, seatVars, gameVars, tracked, release, req, cmd>>
  BY DEF RefreshClaim
<1>2. r \in Room /\ u \in User /\ claim \in [User -> Claim]
  BY <1>0, <1>1, Typed DEF PublishInv
<1>3. /\ Assignment(NoRequest, r) \in Claim /\ Assignment(NoRequest, r).room = r
      /\ Assignment(NoRequest, r).req = NoRequest
  BY <1>2 DEF Assignment, Claim
<1>4. claim' \in [User -> Claim]
  BY <1>1, <1>2, <1>3
<1>5. pub' \in Publishing /\ pub'.at = "idle" /\ pub'.raw = NoClaim
  BY <1>1, Constants DEF Idle
<1>6. AdmissionTypeOK'
  BY <1>1, <1>4, <1>5 DEF AdmissionInv, AdmissionTypeOK, dbVars, seatVars, gameVars
<1>7. UNCHANGED <<phase, seat, banned, tracked, release, req, cmd>>
  BY <1>1 DEF seatVars
<1>8. RequestInv' /\ HeldInv' /\ SeatInv' /\ WatchInv'
  BY <1>0, <1>7 DEF RequestInv, HeldInv, SeatInv, WatchInv, Taken
<1>9. PublishInv'
  BY <1>5, Constants DEF PublishInv, Granted
<1>10. \A s \in Room, v \in User : Rightful(s, v)' => Rightful(s, v)
  BY <1>7 DEF Rightful
<1>11. ClaimInv'
  <2>1. CASE claim' = claim
    BY <1>0, <1>7, <1>10, <2>1 DEF ClaimInv, Granted, Names
  <2>2. CASE claim[u] = NoClaim /\ claim' = [claim EXCEPT ![u] = Assignment(NoRequest, r)]
    <3>1. /\ claim'[u] = Assignment(NoRequest, r)
          /\ \A v \in User : v # u => claim'[v] = claim[v]
      BY <1>2, <2>2
    <3> HIDE DEF r, u
    <3>2. ASSUME NEW v \in User
          PROVE  (claim'[v].state = "assigned" => claim'[v].room \in Room) /\ Granted(claim[v])'
      <4>1. CASE v = u
        BY <3>1, <4>1, <1>2, <1>3, AdmissionAssumption DEF Granted
      <4>2. CASE v # u
        BY <1>0, <1>7, <3>1, <4>2 DEF ClaimInv, Granted
      <4> QED
        BY <4>1, <4>2
    <3>3. ASSUME NEW s \in Room, NEW v \in User,
                 (Rightful(s, v) \/ tracked[s][v].joined \/ release[s][v].cooldown)'
          PROVE  Names(claim[v], s)'
      <4>1. Names(claim[v], s)
        BY <1>0, <1>7, <1>10, <3>3 DEF ClaimInv
      <4>2. v # u
        BY <4>1, <2>2, Constants DEF Names
      <4> QED
        BY <3>1, <4>1, <4>2 DEF Names
    <3> QED
      BY <3>2, <3>3 DEF ClaimInv
  <2> QED
    BY <1>1, <2>1, <2>2
<1> QED
  BY <1>6, <1>8, <1>9, <1>11 DEF AdmissionInv

-----------------------------------------------------------------------------
(* Redis forgets, and the database records.                                  *)

\* The claim of a seat that is watched, taken or to be cleaned up does not run out.
LEMMA NotKeptAlive ==
  ASSUME AdmissionInv, NEW u \in User, ~ KeptAlive(u), NEW r \in Room, Names(claim[u], r)
  PROVE  ~ tracked[r][u].on /\ ~ release[r][u].on /\ ~ Taken(r, u)
<1>1. ~ tracked[r][u].on /\ ~ release[r][u].on
  BY DEF KeptAlive, Names
<1> QED
  BY <1>1 DEF AdmissionInv, SeatInv

LEMMA ClaimExpiresKeeps ==
  ASSUME AdmissionInv, NEW u \in User, ClaimExpires(u)
  PROVE  AdmissionInv'
<1>0. /\ RequestInv /\ HeldInv /\ SeatInv /\ WatchInv /\ ClaimInv /\ PublishInv
  BY DEF AdmissionInv
<1>1. /\ ~ KeptAlive(u) /\ claim' = [claim EXCEPT ![u] = NoClaim]
      /\ UNCHANGED <<cooldown, marker, dbVars, seatVars, gameVars, registryVars, req, cmd>>
  BY DEF ClaimExpires
<1>2. UNCHANGED <<phase, seat, banned, tracked, release, pub, req, cmd>>
  BY <1>1 DEF seatVars, registryVars
<1>3. /\ claim' \in [User -> Claim] /\ claim'[u] = NoClaim
      /\ \A v \in User : v # u => claim'[v] = claim[v]
  BY <1>1, Typed, Constants
<1>4. AdmissionTypeOK'
  BY <1>1, <1>3 DEF AdmissionInv, AdmissionTypeOK, dbVars, seatVars, gameVars, registryVars
<1>5. ASSUME NEW r \in Room
      PROVE  ~ Rightful(r, u) /\ ~ tracked[r][u].joined /\ ~ release[r][u].cooldown
  <2>1. Rightful(r, u) => Names(claim[u], r) /\ Taken(r, u)
    BY <1>0, AdmissionAssumption DEF ClaimInv, Rightful, Taken, Free, Member
  <2>2. tracked[r][u].joined => Names(claim[u], r) /\ tracked[r][u].on
    BY <1>0 DEF ClaimInv, WatchInv
  <2>3. release[r][u].cooldown => Names(claim[u], r) /\ release[r][u].on
    BY <1>0 DEF ClaimInv, WatchInv
  <2> QED
    BY <1>1, <2>1, <2>2, <2>3, NotKeptAlive
<1>6. PublishInv'
  <2> DEFINE s == pub.room
             v == pub.user
  <2>1. pub' = pub /\ v \in User /\ (pub.at # "idle" => s \in Room)
    BY <1>0, <1>2, Typed DEF PublishInv
  <2>2. Granted(pub.raw)'
    BY <1>0, <1>2 DEF PublishInv, Granted
  <2>3. CASE pub.at = "read"
    <3>1. /\ release[s][v].on \/ tracked[s][v].on
          /\ ~ tracked[s][v].joined
          /\ <<s, v>> \in banned \/ (Names(claim[v], s) /\ ~ Rightful(s, v))
      BY <1>0, <2>3 DEF PublishInv
    <3>2. <<s, v>> \in banned \/ (Names(claim[v], s)' /\ ~ Rightful(s, v)')
      <4>1. CASE v = u
        BY <4>1, <3>1, <2>1, <2>3, <1>1, <1>2, NotKeptAlive
      <4>2. CASE v # u
        BY <4>2, <3>1, <2>1, <1>2, <1>3 DEF Names, Rightful
      <4> QED
        BY <4>1, <4>2
    <3> QED
      BY <1>2, <2>1, <2>2, <2>3, <3>1, <3>2 DEF PublishInv
  <2>4. CASE pub.at = "flush"
    <3>1. ~ tracked[s][v].joined
      BY <1>0, <2>4 DEF PublishInv
    <3>2. ASSUME Names(pub.raw, s), claim'[v] = pub.raw
          PROVE  ~ Rightful(s, v)'
      <4>1. v # u
        BY <3>2, <1>3, Constants DEF Names
      <4>2. claim[v] = pub.raw
        BY <3>2, <4>1, <2>1, <1>3
      <4> QED
        BY <4>2, <3>2, <2>1, <2>4, <1>0, <1>2 DEF PublishInv, Rightful
    <3> QED
      BY <1>2, <2>1, <2>2, <2>4, <3>1, <3>2 DEF PublishInv, Names
  <2>5. CASE pub.at \notin {"read", "flush"}
    BY <2>1, <2>2, <2>5 DEF PublishInv
  <2> QED
    BY <2>3, <2>4, <2>5
<1> QED
  BY <1>1, <1>2, <1>4, <1>5, <1>6, ClaimMayGo

LEMMA StoreStepKeeps ==
  ASSUME AdmissionInv, StoreStep
  PROVE  AdmissionInv'
<1>1. ASSUME NEW u \in User, ClaimExpires(u) PROVE AdmissionInv'
  BY <1>1, ClaimExpiresKeeps
<1>2. ASSUME NEW u \in User, NEW r \in Room, BlockExpires(r, u) PROVE AdmissionInv'
  <2>1. /\ cooldown' \subseteq cooldown /\ marker' \subseteq marker
        /\ UNCHANGED <<claim, dbVars, seatVars, gameVars, registryVars, req, cmd>>
    BY <1>2 DEF BlockExpires
  <2>2. AdmissionTypeOK'
    BY <2>1 DEF AdmissionInv, AdmissionTypeOK, dbVars, seatVars, gameVars, registryVars
  <2>3. UNCHANGED <<claim, phase, seat, banned, tracked, release, pub, req, cmd>>
    BY <2>1 DEF seatVars, registryVars
  <2> QED
    BY <2>2, <2>3, UntouchedKeeps
<1>3. ASSUME NEW r \in Room, Record(r) PROVE AdmissionInv'
  <2>1. /\ result' \in [Room -> {"none", "running", "pending", "recorded", "invalid"}]
        /\ UNCHANGED <<redisVars, dbVars, seatVars, game, roster, registryVars, req, cmd>>
    <3>1. result \in [Room -> {"none", "running", "pending", "recorded", "invalid"}]
      BY DEF AdmissionInv, AdmissionTypeOK
    <3> QED
      BY <1>3, <3>1 DEF Record
  <2>2. AdmissionTypeOK'
    BY <2>1 DEF AdmissionInv, AdmissionTypeOK, redisVars, dbVars, seatVars, registryVars
  <2>3. UNCHANGED <<claim, phase, seat, banned, tracked, release, pub, req, cmd>>
    BY <2>1 DEF redisVars, seatVars, registryVars
  <2> QED
    BY <2>2, <2>3, UntouchedKeeps
<1>4. ASSUME NEW r \in Room, IssueNextMatch(r) PROVE AdmissionInv'
  <2>0. row \in [Room -> 0..MaxMatch] /\ assigned \subseteq Room \X Match \X User
    BY DEF AdmissionInv, AdmissionTypeOK
  <2>1. row[r] < MaxMatch /\ row[r] \in 0..MaxMatch /\ row' = [row EXCEPT ![r] = row[r] + 1]
    BY <1>4, <2>0 DEF IssueNextMatch
  <2>2. row[r] + 1 \in Match /\ row[r] + 1 \in 0..MaxMatch
    BY <2>1, AdmissionAssumption DEF Match
  <2>3. row' \in [Room -> 0..MaxMatch]
    BY <2>0, <2>1, <2>2
  <2> DEFINE copied == {a \in assigned : a[1] = r /\ a[2] = game[r]}
  <2>4. assigned' = assigned \cup {<<r, row[r] + 1, a[3]>> : a \in copied}
    BY <1>4 DEF IssueNextMatch
  <2>5. \A a \in copied : a[3] \in User
    BY <2>0
  <2>6. assigned' \subseteq Room \X Match \X User
    <3> HIDE DEF copied
    <3> QED
      BY <2>0, <2>2, <2>4, <2>5
  <2>7. UNCHANGED <<redisVars, seatVars, gameVars, registryVars, req, cmd>>
    BY <1>4 DEF IssueNextMatch
  <2>8. AdmissionTypeOK'
    BY <2>3, <2>6, <2>7 DEF AdmissionInv, AdmissionTypeOK, redisVars, seatVars, gameVars, registryVars
  <2>9. UNCHANGED <<claim, phase, seat, banned, tracked, release, pub, req, cmd>>
    BY <2>7 DEF redisVars, seatVars, registryVars
  <2> QED
    BY <2>8, <2>9, UntouchedKeeps
<1> QED
  BY <1>1, <1>2, <1>3, <1>4 DEF StoreStep

-----------------------------------------------------------------------------
(* The invariant holds in every state.                                       *)

LEMMA RegistryStepKeeps ==
  ASSUME AdmissionInv, RegistryStep
  PROVE  AdmissionInv'
<1>1. ASSUME NEW r \in Room, NEW u \in User, FlushRelease(r, u) \/ SynchronizeSeat(r, u)
      PROVE  AdmissionInv'
  BY <1>1, FlushKeeps, SynchronizeKeeps
<1>2. ReadClaim \/ PublishFails => AdmissionInv'
  BY ReadClaimKeeps
<1>3. DeleteMatchingActiveRoom => AdmissionInv'
  BY DeleteKeeps
<1>4. RefreshClaim => AdmissionInv'
  BY RefreshKeeps
<1> QED
  BY <1>1, <1>2, <1>3, <1>4 DEF RegistryStep

LEMMA AdmissionInvNext ==
  ASSUME AdmissionInv, [Next]_vars
  PROVE  AdmissionInv'
<1>1. CASE vars' = vars
  <2>1. /\ UNCHANGED <<claim, phase, seat, banned, tracked, release, pub, req, cmd>>
        /\ UNCHANGED <<cooldown, marker, row, assigned, game, roster, result>>
    BY <1>1 DEF vars, redisVars, dbVars, seatVars, gameVars, registryVars
  <2>2. AdmissionTypeOK'
    BY <2>1 DEF AdmissionInv, AdmissionTypeOK
  <2> QED
    BY <2>1, <2>2, UntouchedKeeps
<1>2. CASE Next
  BY <1>2, GameServerStepKeeps, RegistryStepKeeps, StoreStepKeeps, MatchStepKeeps DEF Next
<1> QED
  BY <1>1, <1>2

LEMMA AdmissionInvInit ==
  ASSUME Init
  PROVE  AdmissionInv
<1>1. /\ claim = [u \in User |-> NoClaim] /\ cooldown = {} /\ marker = {} /\ assigned = {}
      /\ phase \in [Room -> {"none", "open"}]
      /\ row = [r \in Room |-> IF phase[r] = "open" THEN 1 ELSE 0]
      /\ seat = [r \in Room |-> [u \in User |-> Free]] /\ banned = {}
      /\ game = [r \in Room |-> 0] /\ roster = [r \in Room |-> {}]
      /\ result = [r \in Room |-> "none"]
  BY DEF Init
<1>2. /\ tracked = [r \in Room |-> [u \in User |-> Untracked]]
      /\ release = [r \in Room |-> [u \in User |-> NoRelease]]
      /\ pub = Idle /\ req = [q \in Request |-> NewRequest] /\ cmd = [q \in Request |-> "none"]
  BY DEF Init
<1>3. /\ claim \in [User -> Claim] /\ pub \in Publishing
      /\ tracked \in [Room -> [User -> TrackedSeat]]
      /\ release \in [Room -> [User -> PendingRelease]]
      /\ req \in [Request -> RequestRow]
  BY <1>1, <1>2, Constants
<1>4. /\ row \in [Room -> 0..MaxMatch] /\ game \in [Room -> 0..MaxMatch]
      /\ roster \in [Room -> SUBSET User]
  BY <1>1, AdmissionAssumption
<1>5. AdmissionTypeOK
  BY <1>1, <1>2, <1>3, <1>4 DEF AdmissionTypeOK
<1>6. ASSUME NEW r \in Room, NEW u \in User
      PROVE  /\ seat[r][u] = Free /\ tracked[r][u] = Untracked /\ release[r][u] = NoRelease
             /\ claim[u] = NoClaim
  BY <1>1, <1>2
<1>7. \A q \in Request : req[q] = NewRequest /\ cmd[q] = "none"
  BY <1>2
<1>8. NewRequest.step = "idle" /\ ~ NewRequest.granted
  BY Zenon DEF NewRequest
<1>9. RequestInv
  <2>1. ASSUME NEW q \in Request
        PROVE  req[q].step = "idle" /\ ~ req[q].granted /\ cmd[q] = "none"
    BY <1>7, <1>8, Zenon
  <2> QED
    BY <2>1 DEF RequestInv
<1>10. HeldInv /\ SeatInv
  BY <1>1, <1>6, AdmissionAssumption DEF HeldInv, SeatInv, Taken, Free, Member
<1>11. \A r \in Room, u \in User :
         /\ ~ tracked[r][u].on /\ ~ tracked[r][u].joined
         /\ ~ release[r][u].on /\ ~ release[r][u].cooldown /\ ~ release[r][u].kicked
         /\ ~ Rightful(r, u)
  <2>1. ASSUME NEW r \in Room, NEW u \in User
        PROVE  /\ ~ tracked[r][u].on /\ ~ tracked[r][u].joined
               /\ ~ release[r][u].on /\ ~ release[r][u].cooldown /\ ~ release[r][u].kicked
    BY <1>6, Constants, Zenon
  <2>2. ASSUME NEW r \in Room, NEW u \in User PROVE ~ Rightful(r, u)
    BY <1>6, AdmissionAssumption DEF Rightful, Free, Member
  <2> QED
    BY <2>1, <2>2
<1>12. WatchInv
  BY <1>11, Zenon DEF WatchInv
<1>13. ASSUME NEW u \in User PROVE claim[u] = NoClaim
  BY <1>1
<1>14. ClaimInv
  BY <1>11, <1>13, Constants DEF ClaimInv, Granted
<1>15. Idle.at = "idle" /\ Idle.raw = NoClaim
  BY Zenon DEF Idle
<1>16. PublishInv
  BY <1>2, <1>15, Constants DEF PublishInv, Granted
<1> QED
  BY <1>5, <1>9, <1>10, <1>12, <1>14, <1>16 DEF AdmissionInv

\* What RoomsService, the rooms and the registry keep true at every moment: a user's
\* claim names the room of his seat from the grant to the end of the clean-up, every
\* taken seat is watched, and a release is queued only for a seat nobody watches.
THEOREM AdmissionInvariant == Spec => []AdmissionInv
<1>1. Init => AdmissionInv
  BY AdmissionInvInit
<1>2. AdmissionInv /\ [Next]_vars => AdmissionInv'
  BY AdmissionInvNext
<1> QED
  BY <1>1, <1>2, PTL DEF Spec

-----------------------------------------------------------------------------
(* The claims guard the seats.                                               *)

\* A user has one claim, and it names one room.
LEMMA OneRoom ==
  ASSUME AdmissionInv
  PROVE  OneRoomAtATime
<1> SUFFICES ASSUME NEW u \in User
             PROVE  Cardinality({r \in Room : seat[r][u] = Member}) <= 1
  BY DEF OneRoomAtATime
<1> DEFINE rooms == {r \in Room : seat[r][u] = Member}
<1>1. \A r \in rooms : Names(claim[u], r)
  BY DEF AdmissionInv, ClaimInv, Rightful
<1>2. \A r, s \in rooms : r = s
  BY <1>1 DEF Names
<1> HIDE DEF rooms
<1>3. rooms = {} \/ \E r : rooms = {r}
  BY <1>2
<1>4. Cardinality(rooms) <= 1
  BY <1>3, FS_EmptySet, FS_Singleton
<1> QED
  BY <1>4 DEF rooms

LEMMA SeatsApart ==
  ASSUME AdmissionInv
  PROVE  ClaimsKeepSeatsApart
<1>1. AdmissionTypeOK /\ SeatInv
  BY DEF AdmissionInv
<1>2. EverySeatIsWatched
  BY <1>1 DEF EverySeatIsWatched, SeatInv
<1> QED
  BY <1>1, <1>2, OneRoom DEF ClaimsKeepSeatsApart

\* Only the clean-up and the TTL take an assigned claim away.
LEMMA WhoRemovesClaims ==
  ASSUME AdmissionInv, [Next]_vars, NEW u \in User,
         claim[u].state = "assigned", claim'[u] = NoClaim
  PROVE  \/ DeleteMatchingActiveRoom /\ pub.user = u /\ StillMatches(pub.room, u)
         \/ ClaimExpires(u)
<1>t. claim \in [User -> Claim] /\ \A q \in Request : req[q].user \in User
  BY Typed
<1>0. claim'[u] # claim[u]
  BY Constants
<1>1. CASE vars' = vars
  BY <1>0, <1>1 DEF vars, redisVars
<1>2. CASE GameServerStep
  <2>1. UNCHANGED claim
    BY <1>2 DEF GameServerStep, Refuse, CreateRoom, ReadBlocks, ReserveJoin, ReserveResume,
                KickUser, Admit, HoldExpires, Leave, StartGame, EndGame, redisVars
  <2> QED
    BY <1>0, <2>1
<1>3. CASE RegistryStep
  <2>1. \A r \in Room, v \in User : FlushRelease(r, v) \/ SynchronizeSeat(r, v) => UNCHANGED claim
    BY DEF FlushRelease, SynchronizeSeat, redisVars
  <2>2. ReadClaim \/ PublishFails => UNCHANGED claim
    BY DEF ReadClaim, PublishFails, redisVars
  <2>3. CASE DeleteMatchingActiveRoom
    <3>1. claim' = IF StillMatches(pub.room, pub.user)
                   THEN [claim EXCEPT ![pub.user] = NoClaim] ELSE claim
      BY <2>3 DEF DeleteMatchingActiveRoom
    <3> QED
      BY <1>t, <1>0, <2>3, <3>1
  <2>4. CASE RefreshClaim
    <3>1. \/ claim' = claim
          \/ claim[pub.user] = NoClaim
             /\ claim' = [claim EXCEPT ![pub.user] = Assignment(NoRequest, pub.room)]
      BY <2>4 DEF RefreshClaim
    <3>2. claim[u] # NoClaim
      BY Constants
    <3> QED
      BY <1>t, <1>0, <3>1, <3>2
  <2> QED
    BY <1>0, <1>3, <2>1, <2>2, <2>3, <2>4 DEF RegistryStep
<1>4. CASE StoreStep
  <2>1. ASSUME NEW v \in User, ClaimExpires(v) PROVE ClaimExpires(u)
    BY <2>1, <1>t, <1>0 DEF ClaimExpires
  <2>2. \A r \in Room, v \in User : BlockExpires(r, v) => UNCHANGED claim
    BY DEF BlockExpires
  <2>3. \A r \in Room : Record(r) \/ IssueNextMatch(r) => UNCHANGED claim
    BY DEF Record, IssueNextMatch, redisVars
  <2> QED
    BY <1>0, <1>4, <2>1, <2>2, <2>3 DEF StoreStep
<1>5. ASSUME NEW q \in Request, MatchStep(q) PROVE FALSE
  <2>1. CASE ClaimActiveRoom(q)
    <3>1. \/ claim' = claim
          \/ claim[req[q].user] = NoClaim /\ claim' = [claim EXCEPT ![req[q].user] = Reservation(q)]
      BY <2>1 DEF ClaimActiveRoom, Claimable
    <3>2. claim[u] # NoClaim
      BY Constants
    <3> QED
      BY <1>t, <1>0, <3>1, <3>2
  <2>2. CASE AssignActiveRoom(q)
    <3>1. \/ claim' = claim
          \/ claim' = [claim EXCEPT ![req[q].user] = Assignment(q, req[q].room)]
      BY <2>2 DEF AssignActiveRoom
    <3>2. Assignment(q, req[q].room) # NoClaim
      BY DEF Assignment, NoClaim
    <3> QED
      BY <1>t, <1>0, <3>1, <3>2
  <2>3. CASE Unclaim(q)
    <3>1. claim' = [claim EXCEPT ![req[q].user] =
                      IF claim[req[q].user] = Reservation(q) THEN NoClaim ELSE claim[req[q].user]]
      BY <2>3 DEF Unclaim
    <3>2. claim[u] # Reservation(q)
      BY DEF Reservation
    <3> QED
      BY <1>t, <1>0, <3>1, <3>2
  <2>4. ClaimActiveRoom(q) \/ AssignActiveRoom(q) \/ Unclaim(q) \/ UNCHANGED claim
    BY <1>5 DEF MatchStep, BeginJoin, BeginQuickJoin, BeginCreate, BeginResume, BeginEvict,
                SelectRow, InsertAssignment, ConfirmRoom, Rejected, CommandTimeout, Unassign,
                TryNextRoom, Answered, RequestDies, redisVars
  <2> QED
    BY <1>0, <2>1, <2>2, <2>3, <2>4
<1> QED
  BY <1>1, <1>2, <1>3, <1>4, <1>5 DEF Next

\* Neither takes a claim whose user has a rightful seat in the room that it names.
LEMMA SparesTheNextSeat ==
  ASSUME AdmissionInv, [Next]_vars, NEW u \in User, NEW r \in Room,
         claim[u].state = "assigned", claim[u].room = r, claim'[u] = NoClaim
  PROVE  seat[r][u] \notin {Member, claim[u].req}
<1>1. ~ Rightful(r, u)
  <2>1. CASE DeleteMatchingActiveRoom /\ pub.user = u /\ StillMatches(pub.room, u)
    <3>1. pub.at = "flush" /\ Names(pub.raw, pub.room) /\ claim[u] = pub.raw /\ pub.room = r
      BY <2>1 DEF DeleteMatchingActiveRoom, StillMatches, Names
    <3> QED
      BY <2>1, <3>1 DEF AdmissionInv, PublishInv
  <2>2. CASE ClaimExpires(u)
    <3>1. ~ Taken(r, u)
      BY <2>2, NotKeptAlive DEF ClaimExpires, Names
    <3> QED
      BY <3>1, AdmissionAssumption DEF Rightful, Taken, Free, Member
  <2> QED
    BY <2>1, <2>2, WhoRemovesClaims
<1>2. seat[r][u] # Member
  BY <1>1 DEF Rightful
<1>3. seat[r][u] # claim[u].req
  <2>1. claim[u].req \in Request \cup {NoRequest} /\ seat[r][u] \in Request \cup {Free, Member}
    BY Typed DEF Claim
  <2>2. claim[u].req \in Request => req[claim[u].req].granted
    BY DEF AdmissionInv, ClaimInv, Granted
  <2> QED
    BY <1>1, <2>1, <2>2, AdmissionAssumption DEF Rightful
<1> QED
  BY <1>2, <1>3

\* One room for each user, every taken seat watched, and no clean-up that takes the
\* claim of the next seat: registry.ts, trackSeat, "the clean-up of a seat that came
\* back to life must not delete the new claim", in every order of the awaits.
THEOREM SeatsKeptApart == Spec => ClaimsGuardTheSeats
<1> DEFINE Spares == \A u \in User, r \in Room :
             claim[u].state = "assigned" /\ claim[u].room = r /\ claim'[u] = NoClaim
               => seat[r][u] \notin {Member, claim[u].req}
<1>1. AdmissionInv => ClaimsKeepSeatsApart
  BY SeatsApart
<1>2. AdmissionInv /\ [Next]_vars => [Spares]_vars
  BY SparesTheNextSeat
<1>3. Spec => [][Next]_vars
  BY PTL DEF Spec
<1> HIDE DEF Spares
<1>4. Spec => []ClaimsKeepSeatsApart /\ [][Spares]_vars
  BY <1>1, <1>2, <1>3, AdmissionInvariant, PTL
<1> QED
  BY <1>4, Zenon DEF ClaimsGuardTheSeats, CleanUpSparesTheNextSeat, Spares

=============================================================================
