---------------------------- MODULE HandOffProofs ----------------------------
(***************************************************************************)
(* The hand-off never makes two copies of a room count, for any number of  *)
(* servers, users and transfer attempts.                                   *)
(***************************************************************************)
EXTENDS HandOff, FiniteSetTheorems, TLAPS

LEMMA TypeInit == Init => TypeOK
BY HandOffAssumption DEF Init, TypeOK, CopyState, KeyState, SrcStep, PeerStep, Command

\* SourceInv and PeerInv are needed where a remembered transfer id goes to Redis.
LEMMA TypeStep == TypeOK /\ SourceInv /\ PeerInv /\ [Next]_vars => TypeOK'
<1> SUFFICES ASSUME TypeOK, SourceInv, PeerInv, [Next]_vars PROVE TypeOK'
  OBVIOUS
<1> USE DEF CopyState, KeyState, SrcStep, PeerStep
<1>1. ASSUME NEW s \in Server, RoomStep(s) PROVE TypeOK'
  <2>1. ASSUME NEW u \in User, Join(s, u) PROVE TypeOK'
    BY <2>1 DEF TypeOK, Join, srcVars, peerVars
  <2>2. ASSUME NEW u \in User, Leave(s, u) PROVE TypeOK'
    BY <2>2 DEF TypeOK, Leave, AfterRemoval, srcVars, peerVars
  <2>3. ASSUME NEW u \in User, Kick(s, u) PROVE TypeOK'
    BY <2>3 DEF TypeOK, Kick, AfterRemoval, srcVars, peerVars
  <2>4. ASSUME NEW u \in User, RestoreClaim(s, u) PROVE TypeOK'
    BY <2>4 DEF TypeOK, RestoreClaim, srcVars, peerVars
  <2>5. CASE BeginDrain(s)
    BY <2>5 DEF TypeOK, BeginDrain, srcVars, peerVars, redisVars
  <2>6. CASE Crash(s)
    BY <2>6 DEF TypeOK, Crash, redisVars
  <2>7. CASE ListRooms(s) \/ PublishRead(s) \/ PublishFails(s)
    BY <2>7 DEF TypeOK, ListRooms, PublishRead, PublishFails, srcVars, peerVars, redisVars
  <2>8. CASE PublishWrite(s)
    BY <2>8 DEF TypeOK, PublishWrite, EntryAfterWrite, srcVars, peerVars
  <2>9. CASE Unpublish(s)
    BY <2>9 DEF TypeOK, Unpublish, srcVars, peerVars
  <2>10. CASE RefreshMarkers(s)
    BY <2>10 DEF TypeOK, RefreshMarkers, srcVars, peerVars
  <2> QED
    BY <1>1, <2>1, <2>2, <2>3, <2>4, <2>5, <2>6, <2>7, <2>8, <2>9, <2>10 DEF RoomStep
<1>2. ASSUME NEW s \in Server, SourceStep(s) PROVE TypeOK'
  <2>1. ASSUME NEW t \in Transfer, Freeze(s, t) PROVE TypeOK'
    BY <2>1 DEF TypeOK, Freeze, peerVars, redisVars
  <2>2. CASE Announce(s)
    BY <2>2 DEF TypeOK, Announce, peerVars
  <2>3. CASE AnnounceFails(s)
    BY <2>3 DEF TypeOK, AnnounceFails, peerVars
  <2>4. ASSUME NEW p \in Server, Send(s, p) PROVE TypeOK'
    <3>1. out[s] \in Transfer
      BY <2>4 DEF Send, SourceInv, TypeOK
    <3>2. [id |-> out[s], from |-> s, to |-> p, members |-> roster[s]] \in Command
      BY <3>1 DEF Command, TypeOK
    <3> QED BY <2>4, <3>2 DEF TypeOK, Send, peerVars
  <2>5. CASE ResumeSettle(s)
    BY <2>5 DEF TypeOK, ResumeSettle, peerVars, redisVars
  <2>6. CASE SettleCas(s)
    BY <2>6 DEF TypeOK, SettleCas, CancelledUnlessCommitted, peerVars
  <2>7. CASE SettleFails(s)
    BY <2>7 DEF TypeOK, SettleFails, CancelledUnlessCommitted, peerVars
  <2>8. CASE SettleRead(s)
    BY <2>8 DEF TypeOK, SettleRead, peerVars, redisVars
  <2> QED
    BY <1>2, <2>1, <2>2, <2>3, <2>4, <2>5, <2>6, <2>7, <2>8 DEF SourceStep
<1>3. ASSUME NEW p \in Server, PeerStepOf(p) PROVE TypeOK'
  <2>1. ASSUME NEW c \in cmds, Refuse(p, c) PROVE TypeOK'
    BY <2>1 DEF TypeOK, Refuse, srcVars, redisVars, Command
  <2>2. ASSUME NEW c \in cmds, Stage(p, c) PROVE TypeOK'
    BY <2>2 DEF TypeOK, Stage, srcVars, redisVars, Command
  <2>3. ASSUME NEW c \in cmds, Claim(p, c) PROVE TypeOK'
    BY <2>3 DEF TypeOK, Claim, CommitKeys, Activate, srcVars, Command
  <2>4. ASSUME NEW c \in cmds, ClaimFails(p, c) PROVE TypeOK'
    BY <2>4 DEF TypeOK, ClaimFails, CommitKeys, srcVars, Command
  <2>5. CASE Redeliver(p)
    BY <2>5 DEF TypeOK, Redeliver, srcVars, redisVars
  <2>6. CASE ReadKey(p)
    BY <2>6 DEF TypeOK, PeerInv, ReadKey, Activate, srcVars, redisVars
  <2>7. CASE ReadKeyFails(p)
    BY <2>7 DEF TypeOK, ReadKeyFails, srcVars, redisVars
  <2>8. CASE Reconcile(p)
    BY <2>8 DEF TypeOK, PeerInv, Reconcile, Activate, Discard, srcVars, redisVars
  <2>9. CASE ReconcileFails(p)
    BY <2>9 DEF TypeOK, ReconcileFails, srcVars, redisVars
  <2> QED
    BY <1>3, <2>1, <2>2, <2>3, <2>4, <2>5, <2>6, <2>7, <2>8, <2>9 DEF PeerStepOf
<1>4. CASE Expire
  BY <1>4 DEF TypeOK, Expire, srcVars, peerVars
<1>5. CASE UNCHANGED vars
  BY <1>5 DEF TypeOK, vars
<1> QED
  BY <1>1, <1>2, <1>3, <1>4, <1>5 DEF Next

\* Steps that touch neither a copy, a transfer nor a command keep all of it.
LEMMA QuietStep ==
    ASSUME SingleAuthority, SourceInv, PeerInv, CommandInv,
           UNCHANGED <<copy, step, out, adopting, astep, key, cmds>>,
           handled \subseteq handled'
    PROVE  SingleAuthority' /\ SourceInv' /\ PeerInv' /\ CommandInv'
BY DEF SingleAuthority, Authoritative, SourceInv, PeerInv, CommandInv, Open

LEMMA LeaveStep ==
    ASSUME HandOffInv, NEW s \in Server, NEW u \in User, Leave(s, u)
    PROVE  SingleAuthority' /\ SourceInv' /\ PeerInv' /\ CommandInv'
<1> USE HandOffAssumption DEF HandOffInv, TypeOK, CopyState, KeyState
<1>1. SourceInv'
  BY DEF Leave, Serving, AfterRemoval, srcVars, peerVars, SourceInv, CommandInv, Open, Command
<1>2. PeerInv'
  BY DEF Leave, Serving, AfterRemoval, srcVars, peerVars, PeerInv, SourceInv, Command
<1>3. SingleAuthority'
  BY DEF Leave, Serving, AfterRemoval, srcVars, peerVars, SingleAuthority, Authoritative, SourceInv, PeerInv, CommandInv, Open, Command
<1>4. CommandInv'
  BY DEF Leave, Serving, AfterRemoval, srcVars, peerVars, SingleAuthority, Authoritative, SourceInv, PeerInv, CommandInv, Open, Command
<1> QED
  BY <1>1, <1>2, <1>3, <1>4

LEMMA KickStep ==
    ASSUME HandOffInv, NEW s \in Server, NEW u \in User, Kick(s, u)
    PROVE  SingleAuthority' /\ SourceInv' /\ PeerInv' /\ CommandInv'
<1> USE HandOffAssumption DEF HandOffInv, TypeOK, CopyState, KeyState
<1>1. SourceInv'
  BY DEF Kick, Serving, AfterRemoval, srcVars, peerVars, SourceInv, CommandInv, Open, Command
<1>2. PeerInv'
  BY DEF Kick, Serving, AfterRemoval, srcVars, peerVars, PeerInv, SourceInv, Command
<1>3. SingleAuthority'
  BY DEF Kick, Serving, AfterRemoval, srcVars, peerVars, SingleAuthority, Authoritative, SourceInv, PeerInv, CommandInv, Open, Command
<1>4. CommandInv'
  BY DEF Kick, Serving, AfterRemoval, srcVars, peerVars, SingleAuthority, Authoritative, SourceInv, PeerInv, CommandInv, Open, Command
<1> QED
  BY <1>1, <1>2, <1>3, <1>4

LEMMA CrashStep ==
    ASSUME HandOffInv, NEW s \in Server, Crash(s)
    PROVE  SingleAuthority' /\ SourceInv' /\ PeerInv' /\ CommandInv'
<1> USE HandOffAssumption DEF HandOffInv, TypeOK, CopyState, KeyState
<1>1. SourceInv'
  BY DEF Crash, redisVars, SourceInv, CommandInv, Open, Command
<1>2. PeerInv'
  BY DEF Crash, redisVars, PeerInv, SourceInv, Command
<1>3. SingleAuthority'
  BY DEF Crash, redisVars, SingleAuthority, Authoritative, SourceInv, PeerInv, CommandInv, Open, Command
<1>4. CommandInv'
  BY DEF Crash, redisVars, SingleAuthority, Authoritative, SourceInv, PeerInv, CommandInv, Open, Command
<1> QED
  BY <1>1, <1>2, <1>3, <1>4

LEMMA FreezeStep ==
    ASSUME HandOffInv, NEW s \in Server, NEW t \in Transfer, Freeze(s, t)
    PROVE  SingleAuthority' /\ SourceInv' /\ PeerInv' /\ CommandInv'
<1> USE HandOffAssumption DEF HandOffInv, TypeOK, CopyState, KeyState
<1>1. SourceInv'
  BY DEF Freeze, peerVars, redisVars, SourceInv, CommandInv, Open, Command
<1>2. PeerInv'
  BY DEF Freeze, peerVars, redisVars, PeerInv, SourceInv, Command
<1>3. SingleAuthority'
  BY DEF Freeze, peerVars, redisVars, SingleAuthority, Authoritative, SourceInv, PeerInv, CommandInv, Open, Command
<1>4. CommandInv'
  BY DEF Freeze, peerVars, redisVars, SingleAuthority, Authoritative, SourceInv, PeerInv, CommandInv, Open, Command
<1> QED
  BY <1>1, <1>2, <1>3, <1>4

LEMMA AnnounceStep ==
    ASSUME HandOffInv, NEW s \in Server, Announce(s)
    PROVE  SingleAuthority' /\ SourceInv' /\ PeerInv' /\ CommandInv'
<1> USE HandOffAssumption DEF HandOffInv, TypeOK, CopyState, KeyState
<1>1. SourceInv'
  BY DEF Announce, peerVars, SourceInv, CommandInv, Open, Command
<1>2. PeerInv'
  BY DEF Announce, peerVars, PeerInv, SourceInv, Command
<1>3. SingleAuthority'
  BY DEF Announce, peerVars, SingleAuthority, Authoritative, SourceInv, PeerInv, CommandInv, Open, Command
<1>4. CommandInv'
  BY DEF Announce, peerVars, SingleAuthority, Authoritative, SourceInv, PeerInv, CommandInv, Open, Command
<1> QED
  BY <1>1, <1>2, <1>3, <1>4

LEMMA AnnounceFailsStep ==
    ASSUME HandOffInv, NEW s \in Server, AnnounceFails(s)
    PROVE  SingleAuthority' /\ SourceInv' /\ PeerInv' /\ CommandInv'
<1> USE HandOffAssumption DEF HandOffInv, TypeOK, CopyState, KeyState
<1>1. SourceInv'
  BY DEF AnnounceFails, peerVars, SourceInv, CommandInv, Open, Command
<1>2. PeerInv'
  BY DEF AnnounceFails, peerVars, PeerInv, SourceInv, Command
<1>3. SingleAuthority'
  BY DEF AnnounceFails, peerVars, SingleAuthority, Authoritative, SourceInv, PeerInv, CommandInv, Open, Command
<1>4. CommandInv'
  BY DEF AnnounceFails, peerVars, SingleAuthority, Authoritative, SourceInv, PeerInv, CommandInv, Open, Command
<1> QED
  BY <1>1, <1>2, <1>3, <1>4

LEMMA SendStep ==
    ASSUME HandOffInv, NEW s \in Server, NEW p \in Server, Send(s, p)
    PROVE  SingleAuthority' /\ SourceInv' /\ PeerInv' /\ CommandInv'
<1> USE HandOffAssumption DEF HandOffInv, TypeOK, CopyState, KeyState
<1>1. SourceInv'
  BY DEF Send, peerVars, SourceInv, CommandInv, Open, Command
<1>2. PeerInv'
  BY DEF Send, peerVars, PeerInv, SourceInv, Command
<1>3. SingleAuthority'
  BY DEF Send, peerVars, SingleAuthority, Authoritative, SourceInv, PeerInv, CommandInv, Open, Command
<1>4. CommandInv'
  BY DEF Send, peerVars, SingleAuthority, Authoritative, SourceInv, PeerInv, CommandInv, Open, Command
<1> QED
  BY <1>1, <1>2, <1>3, <1>4

LEMMA ResumeSettleStep ==
    ASSUME HandOffInv, NEW s \in Server, ResumeSettle(s)
    PROVE  SingleAuthority' /\ SourceInv' /\ PeerInv' /\ CommandInv'
<1> USE HandOffAssumption DEF HandOffInv, TypeOK, CopyState, KeyState
<1>1. SourceInv'
  BY DEF ResumeSettle, peerVars, redisVars, SourceInv, CommandInv, Open, Command
<1>2. PeerInv'
  BY DEF ResumeSettle, peerVars, redisVars, PeerInv, SourceInv, Command
<1>3. SingleAuthority'
  BY DEF ResumeSettle, peerVars, redisVars, SingleAuthority, Authoritative, SourceInv, PeerInv, CommandInv, Open, Command
<1>4. CommandInv'
  BY DEF ResumeSettle, peerVars, redisVars, SingleAuthority, Authoritative, SourceInv, PeerInv, CommandInv, Open, Command
<1> QED
  BY <1>1, <1>2, <1>3, <1>4

LEMMA SettleCasStep ==
    ASSUME HandOffInv, NEW s \in Server, SettleCas(s)
    PROVE  SingleAuthority' /\ SourceInv' /\ PeerInv' /\ CommandInv'
<1> USE HandOffAssumption DEF HandOffInv, TypeOK, CopyState, KeyState
<1>1. SourceInv'
  BY DEF SettleCas, CancelledUnlessCommitted, peerVars, SourceInv, CommandInv, Open, Command
<1>2. PeerInv'
  BY DEF SettleCas, CancelledUnlessCommitted, peerVars, PeerInv, SourceInv, Command
<1>3. SingleAuthority'
  BY DEF SettleCas, CancelledUnlessCommitted, peerVars, SingleAuthority, Authoritative, SourceInv, PeerInv, CommandInv, Open, Command
<1>4. CommandInv'
  BY DEF SettleCas, CancelledUnlessCommitted, peerVars, SingleAuthority, Authoritative, SourceInv, PeerInv, CommandInv, Open, Command
<1> QED
  BY <1>1, <1>2, <1>3, <1>4

LEMMA SettleFailsStep ==
    ASSUME HandOffInv, NEW s \in Server, SettleFails(s)
    PROVE  SingleAuthority' /\ SourceInv' /\ PeerInv' /\ CommandInv'
<1> USE HandOffAssumption DEF HandOffInv, TypeOK, CopyState, KeyState
<1>1. SourceInv'
  BY DEF SettleFails, CancelledUnlessCommitted, peerVars, SourceInv, CommandInv, Open, Command
<1>2. PeerInv'
  BY DEF SettleFails, CancelledUnlessCommitted, peerVars, PeerInv, SourceInv, Command
<1>3. SingleAuthority'
  BY DEF SettleFails, CancelledUnlessCommitted, peerVars, SingleAuthority, Authoritative, SourceInv, PeerInv, CommandInv, Open, Command
<1>4. CommandInv'
  BY DEF SettleFails, CancelledUnlessCommitted, peerVars, SingleAuthority, Authoritative, SourceInv, PeerInv, CommandInv, Open, Command
<1> QED
  BY <1>1, <1>2, <1>3, <1>4

LEMMA SettleReadStep ==
    ASSUME HandOffInv, NEW s \in Server, SettleRead(s)
    PROVE  SingleAuthority' /\ SourceInv' /\ PeerInv' /\ CommandInv'
<1> USE HandOffAssumption DEF HandOffInv, TypeOK, CopyState, KeyState
<1>1. SourceInv'
  BY DEF SettleRead, peerVars, redisVars, SourceInv, CommandInv, Open, Command
<1>2. PeerInv'
  BY DEF SettleRead, peerVars, redisVars, PeerInv, SourceInv, Command
<1>3. SingleAuthority'
  BY DEF SettleRead, peerVars, redisVars, SingleAuthority, Authoritative, SourceInv, PeerInv, CommandInv, Open, Command
<1>4. CommandInv'
  BY DEF SettleRead, peerVars, redisVars, SingleAuthority, Authoritative, SourceInv, PeerInv, CommandInv, Open, Command
<1> QED
  BY <1>1, <1>2, <1>3, <1>4

LEMMA StageStep ==
    ASSUME HandOffInv, NEW p \in Server, NEW c \in cmds, Stage(p, c)
    PROVE  SingleAuthority' /\ SourceInv' /\ PeerInv' /\ CommandInv'
<1> USE HandOffAssumption DEF HandOffInv, TypeOK, CopyState, KeyState
<1>1. SourceInv'
  BY DEF Stage, FirstDelivery, srcVars, redisVars, SourceInv, CommandInv, Open, Command
<1>2. PeerInv'
  BY DEF Stage, FirstDelivery, srcVars, redisVars, PeerInv, SourceInv, Command
<1>3. SingleAuthority'
  BY DEF Stage, FirstDelivery, srcVars, redisVars, SingleAuthority, Authoritative, SourceInv, PeerInv, CommandInv, Open, Command
<1>4. CommandInv'
  BY DEF Stage, FirstDelivery, srcVars, redisVars, SingleAuthority, Authoritative, SourceInv, PeerInv, CommandInv, Open, Command
<1> QED
  BY <1>1, <1>2, <1>3, <1>4

LEMMA RedeliverStep ==
    ASSUME HandOffInv, NEW p \in Server, Redeliver(p)
    PROVE  SingleAuthority' /\ SourceInv' /\ PeerInv' /\ CommandInv'
<1> USE HandOffAssumption DEF HandOffInv, TypeOK, CopyState, KeyState
<1>1. SourceInv'
  BY DEF Redeliver, srcVars, redisVars, SourceInv, CommandInv, Open, Command
<1>2. PeerInv'
  BY DEF Redeliver, srcVars, redisVars, PeerInv, SourceInv, Command
<1>3. SingleAuthority'
  BY DEF Redeliver, srcVars, redisVars, SingleAuthority, Authoritative, SourceInv, PeerInv, CommandInv, Open, Command
<1>4. CommandInv'
  BY DEF Redeliver, srcVars, redisVars, SingleAuthority, Authoritative, SourceInv, PeerInv, CommandInv, Open, Command
<1> QED
  BY <1>1, <1>2, <1>3, <1>4

LEMMA ReadKeyStep ==
    ASSUME HandOffInv, NEW p \in Server, ReadKey(p)
    PROVE  SingleAuthority' /\ SourceInv' /\ PeerInv' /\ CommandInv'
<1> USE HandOffAssumption DEF HandOffInv, TypeOK, CopyState, KeyState
<1>1. SourceInv'
  BY DEF ReadKey, Activate, srcVars, redisVars, SourceInv, PeerInv, CommandInv, Open, Command
<1>2. PeerInv'
  BY DEF ReadKey, Activate, srcVars, redisVars, PeerInv, SourceInv, Command
<1>3. SingleAuthority'
  BY DEF ReadKey, Activate, srcVars, redisVars, SingleAuthority, Authoritative, SourceInv, PeerInv, CommandInv, Open, Command
<1>4. CommandInv'
  BY DEF ReadKey, Activate, srcVars, redisVars, SingleAuthority, Authoritative, SourceInv, PeerInv, CommandInv, Open, Command
<1> QED
  BY <1>1, <1>2, <1>3, <1>4

LEMMA ReadKeyFailsStep ==
    ASSUME HandOffInv, NEW p \in Server, ReadKeyFails(p)
    PROVE  SingleAuthority' /\ SourceInv' /\ PeerInv' /\ CommandInv'
<1> USE HandOffAssumption DEF HandOffInv, TypeOK, CopyState, KeyState
<1>1. SourceInv'
  BY DEF ReadKeyFails, srcVars, redisVars, SourceInv, CommandInv, Open, Command
<1>2. PeerInv'
  BY DEF ReadKeyFails, srcVars, redisVars, PeerInv, SourceInv, Command
<1>3. SingleAuthority'
  BY DEF ReadKeyFails, srcVars, redisVars, SingleAuthority, Authoritative, SourceInv, PeerInv, CommandInv, Open, Command
<1>4. CommandInv'
  BY DEF ReadKeyFails, srcVars, redisVars, SingleAuthority, Authoritative, SourceInv, PeerInv, CommandInv, Open, Command
<1> QED
  BY <1>1, <1>2, <1>3, <1>4

LEMMA ClaimStep ==
    ASSUME HandOffInv, NEW p \in Server, NEW c \in cmds, Claim(p, c)
    PROVE  SingleAuthority' /\ SourceInv' /\ PeerInv' /\ CommandInv'
<1> USE HandOffAssumption DEF HandOffInv, TypeOK, CopyState, KeyState
<1>1. SourceInv'
  BY DEF Claim, Fence, CommitKeys, Activate, srcVars, SourceInv, PeerInv, CommandInv, Open, Command
<1>2. PeerInv'
  BY DEF Claim, Fence, CommitKeys, Activate, srcVars, PeerInv, SourceInv, Command
<1>3. SingleAuthority'
  BY DEF Claim, Fence, CommitKeys, Activate, srcVars, SingleAuthority, Authoritative, SourceInv, PeerInv, CommandInv, Open, Command
<1>4. CommandInv'
  BY DEF Claim, Fence, CommitKeys, Activate, srcVars, SingleAuthority, Authoritative, SourceInv, PeerInv, CommandInv, Open, Command
<1> QED
  BY <1>1, <1>2, <1>3, <1>4

LEMMA ClaimFailsStep ==
    ASSUME HandOffInv, NEW p \in Server, NEW c \in cmds, ClaimFails(p, c)
    PROVE  SingleAuthority' /\ SourceInv' /\ PeerInv' /\ CommandInv'
<1> USE HandOffAssumption DEF HandOffInv, TypeOK, CopyState, KeyState
<1>1. SourceInv'
  BY DEF ClaimFails, Fence, CommitKeys, srcVars, SourceInv, CommandInv, Open, Command
<1>2. PeerInv'
  BY DEF ClaimFails, Fence, CommitKeys, srcVars, PeerInv, SourceInv, Command
<1>3. SingleAuthority'
  BY DEF ClaimFails, Fence, CommitKeys, srcVars, SingleAuthority, Authoritative, SourceInv, PeerInv, CommandInv, Open, Command
<1>4. CommandInv'
  BY DEF ClaimFails, Fence, CommitKeys, srcVars, SingleAuthority, Authoritative, SourceInv, PeerInv, CommandInv, Open, Command
<1> QED
  BY <1>1, <1>2, <1>3, <1>4

LEMMA ReconcileStep ==
    ASSUME HandOffInv, NEW p \in Server, Reconcile(p)
    PROVE  SingleAuthority' /\ SourceInv' /\ PeerInv' /\ CommandInv'
<1> USE HandOffAssumption DEF HandOffInv, TypeOK, CopyState, KeyState
<1>1. SourceInv'
  BY DEF Reconcile, Activate, Discard, srcVars, redisVars, SourceInv, PeerInv, CommandInv, Open, Command
<1>2. PeerInv'
  BY DEF Reconcile, Activate, Discard, srcVars, redisVars, PeerInv, SourceInv, Command
<1>3. SingleAuthority'
  BY DEF Reconcile, Activate, Discard, srcVars, redisVars, SingleAuthority, Authoritative, SourceInv, PeerInv, CommandInv, Open, Command
<1>4. CommandInv'
  BY DEF Reconcile, Activate, Discard, srcVars, redisVars, SingleAuthority, Authoritative, SourceInv, PeerInv, CommandInv, Open, Command
<1> QED
  BY <1>1, <1>2, <1>3, <1>4

LEMMA ReconcileFailsStep ==
    ASSUME HandOffInv, NEW p \in Server, ReconcileFails(p)
    PROVE  SingleAuthority' /\ SourceInv' /\ PeerInv' /\ CommandInv'
<1> USE HandOffAssumption DEF HandOffInv, TypeOK, CopyState, KeyState
<1>1. SourceInv'
  BY DEF ReconcileFails, srcVars, redisVars, SourceInv, CommandInv, Open, Command
<1>2. PeerInv'
  BY DEF ReconcileFails, srcVars, redisVars, PeerInv, SourceInv, Command
<1>3. SingleAuthority'
  BY DEF ReconcileFails, srcVars, redisVars, SingleAuthority, Authoritative, SourceInv, PeerInv, CommandInv, Open, Command
<1>4. CommandInv'
  BY DEF ReconcileFails, srcVars, redisVars, SingleAuthority, Authoritative, SourceInv, PeerInv, CommandInv, Open, Command
<1> QED
  BY <1>1, <1>2, <1>3, <1>4

LEMMA InvInit == Init => HandOffInv
<1> SUFFICES ASSUME Init PROVE HandOffInv
  OBVIOUS
<1>1. TypeOK
  BY TypeInit
<1>2. SingleAuthority
  BY DEF Init, SingleAuthority, Authoritative
<1>3. SourceInv /\ PeerInv /\ CommandInv
  BY DEF Init, SourceInv, PeerInv, CommandInv, Open
<1> QED
  BY <1>1, <1>2, <1>3 DEF HandOffInv

LEMMA InvStep == HandOffInv /\ [Next]_vars => HandOffInv'
<1> SUFFICES ASSUME HandOffInv, [Next]_vars PROVE HandOffInv'
  OBVIOUS
<1> DEFINE Kept == SingleAuthority' /\ SourceInv' /\ PeerInv' /\ CommandInv'
<1>1. TypeOK'
  BY TypeStep DEF HandOffInv
<1>2. ASSUME NEW s \in Server, RoomStep(s) PROVE Kept
  <2>1. CASE \/ \E u \in User : Join(s, u) \/ RestoreClaim(s, u)
             \/ BeginDrain(s) \/ ListRooms(s) \/ PublishRead(s) \/ PublishWrite(s) \/ PublishFails(s)
             \/ Unpublish(s) \/ RefreshMarkers(s)
    BY <2>1, QuietStep
       DEF HandOffInv, Join, RestoreClaim, BeginDrain, ListRooms, PublishRead, PublishFails, PublishWrite,
           Unpublish, RefreshMarkers, srcVars, peerVars, redisVars
  <2> QED
    BY <1>2, <2>1, LeaveStep, KickStep, CrashStep DEF RoomStep
<1>3. ASSUME NEW s \in Server, SourceStep(s) PROVE Kept
  BY <1>3, FreezeStep, AnnounceStep, AnnounceFailsStep, SendStep, ResumeSettleStep,
     SettleCasStep, SettleFailsStep, SettleReadStep DEF SourceStep
<1>4. ASSUME NEW p \in Server, PeerStepOf(p) PROVE Kept
  <2>1. ASSUME NEW c \in cmds, Refuse(p, c) PROVE Kept
    BY <2>1, QuietStep DEF HandOffInv, Refuse, srcVars, redisVars
  <2> QED
    BY <1>4, <2>1, StageStep, ClaimStep, ClaimFailsStep, RedeliverStep, ReadKeyStep,
       ReadKeyFailsStep, ReconcileStep, ReconcileFailsStep DEF PeerStepOf
<1>5. CASE Expire
  <2>1. UNCHANGED <<copy, step, out, adopting, astep, key, cmds, handled>>
    BY <1>5 DEF Expire, srcVars, peerVars
  <2> QED
    BY <1>1, <2>1, QuietStep DEF HandOffInv
<1>6. CASE UNCHANGED vars
  BY <1>1, <1>6, QuietStep DEF HandOffInv, vars
<1> QED
  BY <1>1, <1>2, <1>3, <1>4, <1>5, <1>6 DEF Next, HandOffInv

\* The inductive invariant holds throughout: no command in a stream can commit next
\* to a copy that counts (hand-off.ts settle, command-consumer.ts #adoptRoom).
THEOREM Invariant == Spec => []HandOffInv
BY InvInit, InvStep, PTL DEF Spec

\* Every value the protocol keeps, in memory and in Redis, stays in its domain.
THEOREM TypeCorrect == Spec => []TypeOK
<1>1. HandOffInv => TypeOK
  BY DEF HandOffInv
<1> QED
  BY Invariant, <1>1, PTL

\* settle and #adoptRoom never leave two copies of the room that both count, for
\* any number of servers and attempts and any placement of errors and crashes.
THEOREM OneAuthority == Spec => []SingleAuthority
<1>1. HandOffInv => SingleAuthority
  BY DEF HandOffInv
<1> QED
  BY Invariant, <1>1, PTL

LEMMA LossStep ==
    HandOffInv /\ [Next]_vars => LossIsDeathOrEmptiness
<1> SUFFICES ASSUME HandOffInv, [Next]_vars,
                    NEW s \in Server, Authoritative(s),
                    ~ (\E p \in Server : Authoritative(p)')
             PROVE  copy'[s] = "dead" \/ (copy[s] = "active" /\ Cardinality(roster[s]) = 1)
  BY DEF LossIsDeathOrEmptiness
<1> DEFINE Lost == copy'[s] = "dead" \/ (copy[s] = "active" /\ Cardinality(roster[s]) = 1)
<1> ~ Authoritative(s)'
  OBVIOUS
<1> USE DEF HandOffInv, TypeOK, CopyState, Authoritative
<1>1. CASE UNCHANGED <<copy, out, adopting, key>>
  BY <1>1
<1>2. ASSUME NEW x \in Server, RoomStep(x) PROVE Lost
  <2>1. ASSUME NEW u \in User, Leave(x, u) \/ Kick(x, u) PROVE Lost
    <3>1. copy[s] = "active" /\ x = s /\ roster[s] = {u}
      BY <2>1 DEF Leave, Kick, Serving, AfterRemoval, srcVars, peerVars
    <3> QED
      BY <3>1, FS_Singleton
  <2>2. CASE Crash(x)
    BY <2>2 DEF Crash, redisVars
  <2> QED
    BY <1>1, <1>2, <2>1, <2>2
       DEF RoomStep, Join, RestoreClaim, BeginDrain, ListRooms, PublishRead, PublishFails, PublishWrite,
           Unpublish, RefreshMarkers, srcVars, peerVars, redisVars
<1>3. ASSUME NEW x \in Server, SourceStep(x) PROVE Lost
  <2>1. ASSUME NEW t \in Transfer, Freeze(x, t) PROVE Lost
    BY <2>1 DEF Freeze, peerVars, redisVars, SourceInv
  <2>2. CASE Announce(x)
    BY <2>2 DEF Announce, peerVars, SourceInv
  <2>3. CASE AnnounceFails(x)
    BY <2>3 DEF AnnounceFails, peerVars, SourceInv
  <2>4. CASE SettleCas(x) \/ SettleFails(x)
    BY <2>4 DEF SettleCas, SettleFails, CancelledUnlessCommitted, peerVars, SourceInv
  <2>5. CASE SettleRead(x)
    BY <2>5 DEF SettleRead, peerVars, redisVars, SourceInv
  <2> QED
    BY <1>1, <1>3, <2>1, <2>2, <2>3, <2>4, <2>5
       DEF SourceStep, Send, ResumeSettle, peerVars, redisVars
<1>4. ASSUME NEW p \in Server, PeerStepOf(p) PROVE Lost
  <2>1. ASSUME NEW c \in cmds, Stage(p, c) PROVE Lost
    BY <2>1 DEF Stage, srcVars, redisVars
  <2>2. ASSUME NEW c \in cmds, Claim(p, c) PROVE Lost
    BY <2>2 DEF Claim, Activate, srcVars, PeerInv
  <2>3. ASSUME NEW c \in cmds, ClaimFails(p, c) PROVE Lost
    BY <2>3 DEF ClaimFails, CommitKeys, srcVars, PeerInv, Command
  <2>4. CASE ReadKey(p)
    BY <2>4 DEF ReadKey, Activate, srcVars, redisVars, PeerInv
  <2>5. CASE Reconcile(p)
    BY <2>5 DEF Reconcile, Activate, Discard, srcVars, redisVars, PeerInv
  <2> QED
    BY <1>1, <1>4, <2>1, <2>2, <2>3, <2>4, <2>5
       DEF PeerStepOf, Refuse, Redeliver, ReadKeyFails, ReconcileFails, srcVars, redisVars
<1>5. CASE Expire \/ UNCHANGED vars
  BY <1>1, <1>5 DEF Expire, vars, srcVars, peerVars
<1> QED
  BY <1>2, <1>3, <1>4, <1>5 DEF Next

\* The room is never dropped by both sides: the copy that counts goes away only
\* with its process or its last member.
THEOREM NoSilentLoss == Spec => OnlyDeathOrEmptinessLosesTheRoom
BY Invariant, LossStep, PTL DEF Spec, OnlyDeathOrEmptinessLosesTheRoom

------------------------------------------------------------------------------
(* Where the directory and the claims lead, and which roster moves.             *)

\* The one step that makes a copy count that did not: the compare-and-set of the peer.
TakesOver(p, c) == Claim(p, c) \/ (ClaimFails(p, c) /\ Fence(c) /\ CommitKeys(p, c))

\* Authority is gained by the compare-and-set only.
LEMMA AuthorityGained ==
    ASSUME HandOffInv, [Next]_vars, NEW p \in Server, Authoritative(p)', ~ Authoritative(p)
    PROVE  \E c \in cmds : TakesOver(p, c)
<1> DEFINE Taken == \E c \in cmds : TakesOver(p, c)
<1> USE HandOffAssumption DEF HandOffInv, TypeOK, CopyState, KeyState, Authoritative
<1>1. CASE UNCHANGED <<copy, out, adopting, key>>
  BY <1>1
<1>2. ASSUME NEW x \in Server, RoomStep(x) PROVE Taken
  <2>1. ASSUME NEW u \in User, Leave(x, u) \/ Kick(x, u) PROVE Taken
    BY <2>1 DEF Leave, Kick, Serving, AfterRemoval, srcVars, peerVars
  <2>2. CASE Crash(x)
    BY <2>2 DEF Crash, redisVars
  <2> QED
    BY <1>1, <1>2, <2>1, <2>2
       DEF RoomStep, Join, RestoreClaim, BeginDrain, ListRooms, PublishRead, PublishFails, PublishWrite,
           Unpublish, RefreshMarkers, srcVars, peerVars, redisVars
<1>3. ASSUME NEW x \in Server, SourceStep(x) PROVE Taken
  <2>1. ASSUME NEW t \in Transfer, Freeze(x, t) PROVE Taken
    BY <2>1 DEF Freeze, peerVars, redisVars, SourceInv
  <2>2. CASE Announce(x)
    BY <2>2 DEF Announce, peerVars, SourceInv
  <2>3. CASE AnnounceFails(x)
    <3>1. key[out[x]] = "none" /\ copy[x] = "frozen"
      BY <2>3 DEF AnnounceFails, SourceInv
    <3>2. \A t \in Transfer : key'[t] = "committed" => key[t] = "committed"
      BY <2>3, <3>1 DEF AnnounceFails
    <3>3. p # x
      BY <3>1
    <3>4. copy'[p] = copy[p] /\ out'[p] = out[p] /\ adopting'[p] = adopting[p]
      BY <2>3, <3>3 DEF AnnounceFails, peerVars
    <3>5. copy[p] = "frozen" => out[p] # out[x]
      BY <3>1, <3>3 DEF SourceInv
    <3>6. copy[p] = "frozen" => key'[out[p]] = key[out[p]]
      BY <2>3, <3>5 DEF AnnounceFails, SourceInv
    <3>7. copy[p] = "staged" => adopting[p] \in Transfer
      BY DEF PeerInv
    <3> QED
      BY <3>2, <3>4, <3>6, <3>7
  <2>4. CASE SettleCas(x) \/ SettleFails(x)
    <3>1. \A t \in Transfer : key'[t] = "committed" <=> key[t] = "committed"
      BY <2>4 DEF SettleCas, SettleFails, CancelledUnlessCommitted
    <3>2. UNCHANGED <<copy, out, adopting>>
      BY <2>4 DEF SettleCas, SettleFails, peerVars
    <3>3. /\ copy[p] = "frozen" => out[p] \in Transfer
          /\ copy[p] = "staged" => adopting[p] \in Transfer
      BY DEF SourceInv, PeerInv
    <3> QED
      BY <3>1, <3>2, <3>3
  <2>5. CASE SettleRead(x)
    BY <2>5 DEF SettleRead, peerVars, redisVars, SourceInv
  <2> QED
    BY <1>1, <1>3, <2>1, <2>2, <2>3, <2>4, <2>5
       DEF SourceStep, Send, ResumeSettle, peerVars, redisVars
<1>4. ASSUME NEW x \in Server, PeerStepOf(x) PROVE Taken
  <2>1. ASSUME NEW c \in cmds, Stage(x, c) PROVE Taken
    BY <2>1 DEF Stage, FirstDelivery, srcVars, redisVars, CommandInv, PeerInv, Command
  <2>2. ASSUME NEW c \in cmds, Claim(x, c) PROVE Taken
    <3>1. p = x
      BY <2>2 DEF Claim, CommitKeys, Fence, Activate, srcVars, PeerInv, CommandInv, Open, Command, SourceInv
    <3> QED
      BY <2>2, <3>1 DEF TakesOver
  <2>3. ASSUME NEW c \in cmds, ClaimFails(x, c) PROVE Taken
    <3>1. CASE UNCHANGED <<key, directory, claim>>
      BY <1>1, <2>3, <3>1 DEF ClaimFails, srcVars
    <3>2. CASE Fence(c) /\ CommitKeys(x, c)
      <4>1. p = x
        BY <2>3, <3>2 DEF ClaimFails, CommitKeys, Fence, srcVars, PeerInv, CommandInv, Open, Command, SourceInv
      <4> QED
        BY <2>3, <3>2, <4>1 DEF TakesOver
    <3> QED
      BY <2>3, <3>1, <3>2 DEF ClaimFails
  <2>4. CASE ReadKey(x)
    BY <2>4 DEF ReadKey, Activate, srcVars, redisVars, PeerInv
  <2>5. CASE Reconcile(x)
    BY <2>5 DEF Reconcile, Activate, Discard, srcVars, redisVars, PeerInv
  <2> QED
    BY <1>1, <1>4, <2>1, <2>2, <2>3, <2>4, <2>5
       DEF PeerStepOf, Refuse, Redeliver, ReadKeyFails, ReconcileFails, srcVars, redisVars
<1>5. CASE Expire \/ UNCHANGED vars
  BY <1>1, <1>5 DEF Expire, vars, srcVars, peerVars
<1> QED
  BY <1>2, <1>3, <1>4, <1>5 DEF Next

\* While a copy is active no command can commit, and an open command whose source is
\* frozen has it as the copy that counts.
LEMMA OpenMeansFrozen ==
    ASSUME HandOffInv, NEW c \in Open
    PROVE  /\ \A s \in Server : copy[s] # "active"
           /\ \A s \in Server : Authoritative(s) => s = c.from /\ copy[s] = "frozen"
<1> USE DEF HandOffInv, TypeOK, Command
<1>1. c \in cmds /\ key[c.id] = "pending" /\ c.from \in Server
  BY DEF Open
<1>2. CASE copy[c.from] = "dead"
  BY <1>2 DEF CommandInv, Authoritative
<1>3. CASE copy[c.from] = "frozen" /\ out[c.from] = c.id
  <2>1. Authoritative(c.from)
    BY <1>1, <1>3 DEF Authoritative
  <2> QED
    BY <1>1, <1>3, <2>1 DEF SingleAuthority, Authoritative
<1> QED
  BY <1>2, <1>3 DEF CommandInv

\* The rosters agree at the start.
LEMMA RosterInit == Init => RosterInv
BY DEF Init, RosterInv, Open

\* Rosters change only at an active copy, and no command is open then.
LEMMA RosterStep == HandOffInv /\ RosterInv /\ [Next]_vars => RosterInv'
<1> SUFFICES ASSUME HandOffInv, RosterInv, [Next]_vars PROVE RosterInv'
  OBVIOUS
<1> USE HandOffAssumption DEF HandOffInv, TypeOK, CopyState, KeyState, Command
<1>1. CASE UNCHANGED <<copy, roster, adopting, key, cmds>>
  BY <1>1 DEF RosterInv, Open
<1>2. ASSUME NEW s \in Server, RoomStep(s) PROVE RosterInv'
  <2>1. ASSUME NEW u \in User, Join(s, u) \/ Leave(s, u) \/ Kick(s, u) PROVE RosterInv'
    <3>1. copy[s] = "active" /\ UNCHANGED <<adopting, key, cmds>>
      BY <2>1 DEF Join, Leave, Kick, Serving, srcVars, peerVars
    <3>2. Open = {} /\ Open' = {}
      BY <3>1, OpenMeansFrozen DEF Open
    <3>3. \A x \in Server \ {s} : roster'[x] = roster[x] /\ copy'[x] = copy[x]
      BY <2>1 DEF Join, Leave, Kick
    <3>4. copy'[s] \in {"active", "absent"} /\ (copy'[s] = "active" => roster'[s] # {})
      BY <2>1, <3>1 DEF Join, Leave, Kick, AfterRemoval
    <3> QED
      BY <3>1, <3>2, <3>3, <3>4 DEF RosterInv
  <2>2. CASE Crash(s)
    BY <2>2 DEF Crash, redisVars, RosterInv, Open, PeerInv
  <2> QED
    BY <1>1, <1>2, <2>1, <2>2
       DEF RoomStep, RestoreClaim, BeginDrain, ListRooms, PublishRead, PublishFails, PublishWrite,
           Unpublish, RefreshMarkers, srcVars, peerVars, redisVars
<1>3. ASSUME NEW s \in Server, SourceStep(s) PROVE RosterInv'
  <2>1. ASSUME NEW t \in Transfer, Freeze(s, t) PROVE RosterInv'
    <3>1. copy[s] = "active" /\ UNCHANGED <<roster, adopting, key, cmds>>
      BY <2>1 DEF Freeze, peerVars, redisVars
    <3>2. Open = {} /\ Open' = {}
      BY <3>1, OpenMeansFrozen DEF Open
    <3> QED
      BY <2>1, <3>1, <3>2 DEF Freeze, RosterInv
  <2>2. CASE Announce(s)
    <3>1. Open' = Open
      BY <2>2 DEF Announce, Open, SourceInv, CommandInv
    <3> QED
      BY <2>2, <3>1 DEF Announce, RosterInv, peerVars
  <2>3. CASE AnnounceFails(s)
    <3>1. copy[s] = "frozen" /\ key[out[s]] = "none" /\ out[s] \in Transfer
      BY <2>3 DEF AnnounceFails, SourceInv
    <3>2. Open' = Open
      BY <2>3, <3>1 DEF AnnounceFails, Open, CommandInv
    <3>3. UNCHANGED <<roster, adopting, cmds>> /\ copy' = [copy EXCEPT ![s] = "active"]
      BY <2>3 DEF AnnounceFails, peerVars
    <3> QED
      BY <3>1, <3>2, <3>3 DEF RosterInv
  <2>4. ASSUME NEW p \in Server, Send(s, p) PROVE RosterInv'
    <3> DEFINE c == [id |-> out[s], from |-> s, to |-> p, members |-> roster[s]]
    <3>1. /\ copy[s] = "frozen" /\ out[s] \in Transfer /\ key[out[s]] = "pending"
          /\ \A d \in cmds : d.id # out[s]
      BY <2>4 DEF Send, SourceInv
    <3>2. UNCHANGED <<copy, roster, adopting, key>> /\ cmds' \in {cmds, cmds \cup {c}}
      BY <2>4 DEF Send, peerVars
    <3>3. c.id = out[s] /\ c.from = s /\ c.members = roster[s] /\ roster[s] # {}
      BY <3>1 DEF RosterInv
    <3>4. \A x \in Server : copy[x] = "staged" => adopting[x] # out[s]
      BY <3>1 DEF PeerInv
    <3> HIDE DEF c
    <3> QED
      BY <3>2, <3>3, <3>4 DEF RosterInv, Open
  <2>5. CASE SettleCas(s) \/ SettleFails(s)
    <3>1. UNCHANGED <<copy, roster, adopting, cmds>>
      BY <2>5 DEF SettleCas, SettleFails, peerVars
    <3>2. \A t \in Transfer : key'[t] = "pending" => key[t] = "pending"
      BY <2>5 DEF SettleCas, SettleFails, CancelledUnlessCommitted
    <3>3. Open' \subseteq Open
      BY <3>1, <3>2 DEF Open
    <3> QED
      BY <3>1, <3>3 DEF RosterInv
  <2>6. CASE SettleRead(s)
    <3>1. UNCHANGED <<adopting, key, cmds>> /\ Open' = Open /\ copy[s] = "frozen"
      BY <2>6 DEF SettleRead, peerVars, redisVars, Open, SourceInv
    <3>2. \A x \in Server \ {s} : roster'[x] = roster[x] /\ copy'[x] = copy[x]
      BY <2>6 DEF SettleRead
    <3>3. \/ copy'[s] = "absent"
          \/ copy'[s] \in {"active", "frozen"} /\ roster'[s] = roster[s]
      BY <2>6, <3>1 DEF SettleRead
    <3> QED
      BY <3>1, <3>2, <3>3 DEF RosterInv, Open
  <2> QED
    BY <1>1, <1>3, <2>1, <2>2, <2>3, <2>4, <2>5, <2>6
       DEF SourceStep, ResumeSettle, peerVars, redisVars
<1>4. ASSUME NEW p \in Server, PeerStepOf(p) PROVE RosterInv'
  <2>1. ASSUME NEW c \in cmds, Stage(p, c) PROVE RosterInv'
    <3>1. /\ copy[p] = "absent" /\ c.members # {}
          /\ copy' = [copy EXCEPT ![p] = "staged"] /\ roster' = [roster EXCEPT ![p] = c.members]
          /\ adopting' = [adopting EXCEPT ![p] = c.id] /\ UNCHANGED <<key, cmds>>
      BY <2>1 DEF Stage, redisVars
    <3>2. Open' = Open /\ \A d \in cmds : d.id = c.id => d = c
      BY <3>1 DEF Open, CommandInv
    <3> QED
      BY <3>1, <3>2 DEF RosterInv, Open
  <2>2. ASSUME NEW c \in cmds, Claim(p, c) \/ ClaimFails(p, c) PROVE RosterInv'
    <3>1. /\ UNCHANGED <<roster, cmds>> /\ copy[p] = "staged"
          /\ \A t \in Transfer : key'[t] = "pending" => key[t] = "pending"
      BY <2>2 DEF Claim, ClaimFails, CommitKeys, Activate, PeerInv
    <3>2. Open' \subseteq Open
      BY <3>1 DEF Open
    <3>3. \/ copy' = [copy EXCEPT ![p] = "active"] /\ adopting' = [adopting EXCEPT ![p] = NoTransfer]
          \/ UNCHANGED <<copy, adopting>>
      BY <2>2 DEF Claim, ClaimFails, Activate
    <3>4. Open \subseteq cmds
      BY DEF Open
    <3>5. CASE UNCHANGED <<copy, adopting>>
      BY <3>1, <3>2, <3>5 DEF RosterInv
    <3>6. CASE copy' = [copy EXCEPT ![p] = "active"] /\ adopting' = [adopting EXCEPT ![p] = NoTransfer]
      BY <3>1, <3>2, <3>4, <3>6 DEF RosterInv
    <3> QED
      BY <3>3, <3>5, <3>6
  <2>3. CASE ReadKey(p) \/ Reconcile(p)
    <3>1. UNCHANGED <<key, cmds>> /\ Open' = Open /\ copy[p] = "staged"
      BY <2>3 DEF ReadKey, Reconcile, redisVars, Open, PeerInv
    <3>2. /\ \A x \in Server \ {p} : copy'[x] = copy[x] /\ roster'[x] = roster[x] /\ adopting'[x] = adopting[x]
          /\ \/ copy'[p] = "absent"
             \/ copy'[p] = "active" /\ roster'[p] = roster[p]
             \/ copy'[p] = "staged" /\ roster'[p] = roster[p] /\ adopting'[p] = adopting[p]
      BY <2>3, <3>1 DEF ReadKey, Reconcile, Activate, Discard
    <3> QED
      BY <3>1, <3>2 DEF RosterInv, Open
  <2> QED
    BY <1>1, <1>4, <2>1, <2>2, <2>3
       DEF PeerStepOf, Refuse, Redeliver, ReadKeyFails, ReconcileFails, srcVars, redisVars
<1>5. CASE Expire \/ UNCHANGED vars
  BY <1>1, <1>5 DEF Expire, vars, srcVars, peerVars
<1> QED
  BY <1>2, <1>3, <1>4, <1>5 DEF Next

\* A command becomes open only when its frozen source sends it.
LEMMA OpenGained ==
    ASSUME HandOffInv, [Next]_vars, NEW c \in Open'
    PROVE  \/ c \in Open
           \/ \E s, p \in Server : Send(s, p) /\ copy[s] = "frozen" /\ c.from = s /\ c.members = roster[s]
<1> USE HandOffAssumption DEF HandOffInv, TypeOK, CopyState, KeyState, Command
<1> DEFINE Sent == \E s, p \in Server : Send(s, p) /\ copy[s] = "frozen" /\ c.from = s /\ c.members = roster[s]
<1> HIDE DEF Sent
<1>1. c \in cmds' /\ key'[c.id] = "pending"
  BY DEF Open
<1>2. ASSUME cmds' = cmds, \A t \in Transfer : key'[t] = "pending" => key[t] = "pending" PROVE c \in Open
  BY <1>1, <1>2 DEF Open
<1>3. ASSUME UNCHANGED <<key, cmds>> PROVE c \in Open
  BY <1>1, <1>3 DEF Open
<1>4. ASSUME NEW s \in Server, RoomStep(s) PROVE c \in Open
  <2>1. UNCHANGED <<key, cmds>>
    BY <1>4 DEF RoomStep, Join, Leave, Kick, RestoreClaim, BeginDrain, Crash, ListRooms, PublishRead, PublishFails,
                PublishWrite, Unpublish, RefreshMarkers, redisVars
  <2> QED
    BY <1>3, <2>1
<1>5. ASSUME NEW s \in Server, SourceStep(s) PROVE c \in Open \/ Sent
  <2>1. ASSUME NEW p \in Server, Send(s, p) PROVE c \in Open \/ Sent
    <3> DEFINE d == [id |-> out[s], from |-> s, to |-> p, members |-> roster[s]]
    <3>1. copy[s] = "frozen" /\ UNCHANGED key /\ cmds' \in {cmds, cmds \cup {d}}
      BY <2>1 DEF Send, SourceInv
    <3>2. d.from = s /\ d.members = roster[s]
      OBVIOUS
    <3> HIDE DEF d
    <3>3. CASE c \in cmds
      BY <1>1, <3>1, <3>3 DEF Open
    <3>4. CASE c = d
      BY <2>1, <3>1, <3>2, <3>4 DEF Sent
    <3> QED
      BY <1>1, <3>1, <3>3, <3>4
  <2>2. CASE Announce(s) \/ AnnounceFails(s)
    <3>1. key[out[s]] = "none" /\ out[s] \in Transfer
      BY <2>2 DEF Announce, AnnounceFails, SourceInv
    <3>2. cmds' = cmds /\ key' \in {key, [key EXCEPT ![out[s]] = "pending"]}
      BY <2>2 DEF Announce, AnnounceFails
    <3>3. c.id # out[s] /\ c.id \in Transfer
      BY <1>1, <3>1, <3>2 DEF CommandInv
    <3> QED
      BY <1>1, <3>2, <3>3 DEF Open
  <2>3. CASE SettleCas(s) \/ SettleFails(s)
    <3>1. cmds' = cmds /\ key' \in {key, CancelledUnlessCommitted(out[s])}
      BY <2>3 DEF SettleCas, SettleFails
    <3>2. \A t \in Transfer : key'[t] = "pending" => key[t] = "pending"
      BY <3>1 DEF CancelledUnlessCommitted
    <3> QED
      BY <1>2, <3>1, <3>2
  <2>4. CASE ResumeSettle(s) \/ SettleRead(s) \/ \E t \in Transfer : Freeze(s, t)
    BY <1>3, <2>4 DEF ResumeSettle, SettleRead, Freeze, redisVars
  <2> QED
    BY <1>5, <2>1, <2>2, <2>3, <2>4 DEF SourceStep
<1>6. ASSUME NEW p \in Server, PeerStepOf(p) PROVE c \in Open
  <2>1. ASSUME NEW d \in cmds, Claim(p, d) \/ ClaimFails(p, d) PROVE c \in Open
    <3>1. cmds' = cmds /\ key' \in {key, [key EXCEPT ![d.id] = "committed"]}
      BY <2>1 DEF Claim, ClaimFails, CommitKeys
    <3>2. \A t \in Transfer : key'[t] = "pending" => key[t] = "pending"
      BY <3>1
    <3> QED
      BY <1>2, <3>1, <3>2
  <2>2. CASE UNCHANGED <<key, cmds>>
    BY <1>3, <2>2
  <2> QED
    BY <1>6, <2>1, <2>2 DEF PeerStepOf, Refuse, Stage, Redeliver, ReadKey, ReadKeyFails,
                            Reconcile, ReconcileFails, redisVars
<1>7. CASE Expire \/ UNCHANGED vars
  BY <1>3, <1>7 DEF Expire, vars
<1> QED
  BY <1>4, <1>5, <1>6, <1>7 DEF Next, Sent

\* What a step may do with one server's copy.
LEMMA CopyStep ==
    ASSUME HandOffInv, [Next]_vars, NEW s \in Server
    PROVE  /\ draining \subseteq draining'
           /\ copy[s] = "dead" => copy'[s] = "dead"
           /\ copy[s] = "absent" /\ s \in draining => copy'[s] \in {"absent", "dead"}
           /\ copy'[s] = "frozen" => copy[s] = "frozen" \/ (copy[s] = "active" /\ s \in draining)
           /\ copy[s] \in {"active", "frozen"} => copy'[s] \in {"active", "frozen", "absent", "dead"}
<1> USE HandOffAssumption DEF HandOffInv, TypeOK, CopyState
<1> DEFINE Fits == /\ draining \subseteq draining'
                   /\ copy[s] = "dead" => copy'[s] = "dead"
                   /\ copy[s] = "absent" /\ s \in draining => copy'[s] \in {"absent", "dead"}
                   /\ copy'[s] = "frozen" => copy[s] = "frozen" \/ (copy[s] = "active" /\ s \in draining)
                   /\ copy[s] \in {"active", "frozen"} => copy'[s] \in {"active", "frozen", "absent", "dead"}
<1>1. CASE copy' = copy /\ draining \subseteq draining'
  BY <1>1
<1>2. ASSUME NEW x \in Server, RoomStep(x) PROVE Fits
  <2>1. ASSUME NEW u \in User, Leave(x, u) \/ Kick(x, u) PROVE Fits
    BY <2>1 DEF Leave, Kick, AfterRemoval, Serving
  <2>2. CASE Crash(x)
    BY <2>2 DEF Crash
  <2> QED
    BY <1>1, <1>2, <2>1, <2>2 DEF RoomStep, Join, RestoreClaim, BeginDrain, ListRooms, PublishRead,
                                  PublishWrite, PublishFails, Unpublish, RefreshMarkers
<1>3. ASSUME NEW x \in Server, SourceStep(x) PROVE Fits
  <2>1. ASSUME NEW t \in Transfer, Freeze(x, t) PROVE Fits
    BY <2>1 DEF Freeze
  <2>2. CASE AnnounceFails(x) \/ SettleRead(x)
    <3>1. copy[x] = "frozen" /\ draining' = draining
      BY <2>2 DEF AnnounceFails, SettleRead, SourceInv
    <3>2. copy' = copy \/ \E v \in {"active", "absent"} : copy' = [copy EXCEPT ![x] = v]
      BY <2>2 DEF AnnounceFails, SettleRead
    <3> QED
      BY <3>1, <3>2
  <2> QED
    BY <1>1, <1>3, <2>1, <2>2 DEF SourceStep, Announce, Send, ResumeSettle, SettleCas, SettleFails
<1>4. ASSUME NEW x \in Server, PeerStepOf(x) PROVE Fits
  <2>1. ASSUME NEW c \in cmds, Stage(x, c) PROVE Fits
    BY <2>1 DEF Stage
  <2>2. ASSUME copy[x] = "staged", draining' = draining,
               copy' = copy \/ \E v \in {"active", "absent"} : copy' = [copy EXCEPT ![x] = v]
        PROVE  Fits
    BY <2>2
  <2>3. ASSUME NEW c \in cmds, Claim(x, c) \/ ClaimFails(x, c) PROVE Fits
    <3>1. copy[x] = "staged"
      BY <2>3 DEF Claim, ClaimFails, PeerInv
    <3> QED
      BY <2>2, <2>3, <3>1 DEF Claim, ClaimFails, Activate
  <2>4. CASE ReadKey(x) \/ Reconcile(x)
    <3>1. copy[x] = "staged"
      BY <2>4 DEF ReadKey, Reconcile, PeerInv
    <3> QED
      BY <2>2, <2>4, <3>1 DEF ReadKey, Reconcile, Activate, Discard
  <2> QED
    BY <1>1, <1>4, <2>1, <2>3, <2>4 DEF PeerStepOf, Refuse, Redeliver, ReadKeyFails, ReconcileFails
<1>5. CASE Expire \/ UNCHANGED vars
  BY <1>1, <1>5 DEF Expire, vars
<1> QED
  BY <1>2, <1>3, <1>4, <1>5 DEF Next

\* Without a copy that counts and without an open command there is neither afterwards;
\* nor is there when the last member leaves the only copy.
LEMMA NothingComesBack ==
    ASSUME HandOffInv, [Next]_vars, Open = {},
           \A p \in Server : Authoritative(p) => copy[p] = "active" /\ ~ Authoritative(p)'
    PROVE  Open' = {} /\ \A p \in Server : ~ Authoritative(p)'
<1> USE DEF HandOffInv
<1>1. ASSUME NEW c \in Open' PROVE FALSE
  <2>1. PICK x \in Server, q \in Server : Send(x, q) /\ copy[x] = "frozen"
    BY <1>1, OpenGained
  <2>2. Authoritative(x)
    BY <2>1 DEF Send, SourceInv, Authoritative
  <2> QED
    BY <2>1, <2>2
<1>2. \A p \in Server, c \in cmds : ~ TakesOver(p, c)
  BY DEF TakesOver, Claim, Fence, Open
<1>3. ASSUME NEW p \in Server, Authoritative(p)' PROVE FALSE
  BY <1>2, <1>3, AuthorityGained
<1> QED
  BY <1>1, <1>3

\* A server that will not have the room again does not get it.
LEMMA GoneStays ==
    ASSUME HandOffInv, [Next]_vars, NEW s \in Server, Gone(s)
    PROVE  Gone(s)'
<1>1. CASE copy[s] = "dead" \/ (copy[s] = "absent" /\ s \in draining)
  BY <1>1, CopyStep DEF Gone
<1>2. CASE copy[s] \notin {"active", "frozen"} /\ (\A p \in Server : ~ Authoritative(p)) /\ Open = {}
  <2>1. Open' = {} /\ \A p \in Server : ~ Authoritative(p)'
    BY <1>2, NothingComesBack
  <2>2. copy'[s] # "active"
    BY <2>1 DEF Authoritative
  <2>3. copy'[s] # "frozen"
    BY <1>2, CopyStep
  <2> QED
    BY <2>1, <2>2, <2>3 DEF Gone
<1> QED
  BY <1>1, <1>2 DEF Gone

\* A server that has the room keeps it or loses it for good.
LEMMA HeldOrGone ==
    ASSUME HandOffInv, [Next]_vars, NEW s \in Server,
           copy[s] \in {"active", "frozen"}, copy[s] = "frozen" => s \in draining
    PROVE  copy'[s] \in {"active", "frozen"} \/ Gone(s)'
<1>1. CASE copy'[s] = "dead" \/ (copy[s] = "frozen" /\ copy'[s] = "absent")
  BY <1>1, CopyStep DEF Gone
<1>2. CASE copy[s] = "active" /\ copy'[s] = "absent"
  <2>1. Open = {}
    BY <1>2, OpenMeansFrozen
  <2>2. \A p \in Server : Authoritative(p) => p = s
    BY <1>2 DEF Authoritative, HandOffInv, SingleAuthority
  <2>3. ~ Authoritative(s)'
    BY <1>2 DEF Authoritative
  <2>4. Open' = {} /\ \A p \in Server : ~ Authoritative(p)'
    BY <1>2, <2>1, <2>2, <2>3, NothingComesBack
  <2> QED
    BY <1>2, <2>4 DEF Gone
<1> QED
  BY <1>1, <1>2, CopyStep

\* What a step may do to a server's round of publishing and to its history.
LEMMA RoundStep ==
    ASSUME HandOffInv, [Next]_vars, NEW s \in Server
    PROVE  /\ \/ seen'[s] \in {seen[s], Unlisted}
              \/ ListRooms(s)
              \/ PublishRead(s)
           /\ s \in belated' => s \in belated \/ (PublishWrite(s) /\ Belated(s))
<1> USE HandOffAssumption DEF HandOffInv, TypeOK
<1> DEFINE Fits == /\ \/ seen'[s] \in {seen[s], Unlisted}
                      \/ ListRooms(s)
                      \/ PublishRead(s)
                   /\ s \in belated' => s \in belated \/ (PublishWrite(s) /\ Belated(s))
<1>1. CASE seen' = seen /\ belated' = belated
  BY <1>1
<1>2. ASSUME NEW x \in Server, RoomStep(x) PROVE Fits
  <2>1. CASE ListRooms(x) \/ PublishRead(x)
    <3>1. belated' = belated /\ (x # s => seen'[s] = seen[s])
      BY <2>1 DEF ListRooms, PublishRead
    <3> QED
      BY <2>1, <3>1
  <2>2. CASE Crash(x) \/ PublishFails(x)
    BY <2>2 DEF Crash, PublishFails
  <2>3. CASE PublishWrite(x)
    <3>1. /\ seen'[s] \in {seen[s], Unlisted}
          /\ belated' \in {belated, belated \cup {x}}
          /\ belated' = belated \cup {x} => belated' = belated \/ Belated(x)
      BY <2>3 DEF PublishWrite
    <3> QED
      BY <2>3, <3>1
  <2> QED
    BY <1>1, <1>2, <2>1, <2>2, <2>3 DEF RoomStep, Join, Leave, Kick, RestoreClaim, BeginDrain, Unpublish,
                                        RefreshMarkers
<1>3. ASSUME NEW x \in Server, SourceStep(x) PROVE seen' = seen /\ belated' = belated
  BY <1>3 DEF SourceStep, Freeze, Announce, AnnounceFails, Send, ResumeSettle, SettleCas, SettleFails, SettleRead
<1>4. ASSUME NEW x \in Server, PeerStepOf(x) PROVE seen' = seen /\ belated' = belated
  BY <1>4 DEF PeerStepOf, Refuse, Stage, Claim, ClaimFails, Redeliver, ReadKey, ReadKeyFails, Reconcile,
              ReconcileFails
<1>5. CASE Expire \/ UNCHANGED vars
  BY <1>1, <1>5 DEF Expire, vars
<1> QED
  BY <1>1, <1>2, <1>3, <1>4, <1>5 DEF Next

\* Nobody publishes at the start.
LEMMA PublisherInit == Init => PublisherInv
BY HandOffAssumption DEF Init, PublisherInv

\* Without a takeover from s, only s can put its name into the directory.
LEMMA NotByOthers ==
    ASSUME HandOffInv, [Next]_vars, NEW s \in Server, directory # s, seen[s] = NoServer, seen'[s] = NoServer,
           \A p \in Server, c \in cmds : ~ Fence(c)
    PROVE  directory' # s
<1> USE HandOffAssumption DEF HandOffInv, TypeOK
<1>1. ASSUME NEW x \in Server, PublishWrite(x) PROVE directory' # s
  BY <1>1 DEF PublishWrite, EntryAfterWrite
<1>2. ASSUME NEW x \in Server, Unpublish(x) PROVE directory' # s
  BY <1>2 DEF Unpublish
<1>3. CASE Expire
  BY <1>3 DEF Expire
<1>4. CASE UNCHANGED directory
  BY <1>4
<1>5. ASSUME NEW x \in Server, RoomStep(x) PROVE directory' # s
  BY <1>1, <1>2, <1>4, <1>5 DEF RoomStep, Join, Leave, Kick, RestoreClaim, BeginDrain, Crash, ListRooms,
                                PublishRead, PublishFails, RefreshMarkers, redisVars
<1>6. ASSUME NEW x \in Server, SourceStep(x) PROVE directory' # s
  BY <1>4, <1>6 DEF SourceStep, Freeze, Announce, AnnounceFails, Send, ResumeSettle, SettleCas, SettleFails,
                    SettleRead, redisVars
<1>7. ASSUME NEW x \in Server, PeerStepOf(x) PROVE directory' # s
  BY <1>4, <1>7 DEF PeerStepOf, Refuse, Stage, Claim, ClaimFails, Redeliver, ReadKey, ReadKeyFails,
                    Reconcile, ReconcileFails, redisVars
<1> QED
  BY <1>3, <1>4, <1>5, <1>6, <1>7 DEF Next, vars

\* A publisher that has the room and found no entry stays the only one who can write the
\* next; one that lost the room meanwhile has lost it for good.
LEMMA PublisherStep == HandOffInv /\ PublisherInv /\ [Next]_vars => PublisherInv'
<1> SUFFICES ASSUME HandOffInv, PublisherInv, [Next]_vars, NEW s \in Server
             PROVE  /\ seen'[s] \in {s, NoServer, Unlisted, Listed}
                    /\ copy'[s] = "frozen" => s \in draining'
                    /\ seen'[s] # Unlisted => copy'[s] \in {"active", "frozen"} \/ Gone(s)'
                    /\ s \in belated' => Gone(s)'
                    /\ seen'[s] = NoServer /\ copy'[s] \in {"active", "frozen"} =>
                           /\ directory' # s
                           /\ \A p \in Server : Authoritative(p)' => p = s
                           /\ \A c \in Open' : c.from = s
  BY DEF PublisherInv
<1> USE HandOffAssumption DEF HandOffInv, TypeOK, CopyState, KeyState, Command
<1>i. /\ seen[s] \in {s, NoServer, Unlisted, Listed}
      /\ copy[s] = "frozen" => s \in draining
      /\ seen[s] # Unlisted => copy[s] \in {"active", "frozen"} \/ Gone(s)
      /\ s \in belated => Gone(s)
      /\ seen[s] = NoServer /\ copy[s] \in {"active", "frozen"} =>
             /\ directory # s
             /\ \A p \in Server : Authoritative(p) => p = s
             /\ \A c \in Open : c.from = s
  BY DEF PublisherInv
<1>r. /\ \/ seen'[s] \in {seen[s], Unlisted}
         \/ ListRooms(s)
         \/ PublishRead(s)
      /\ s \in belated' => s \in belated \/ (PublishWrite(s) /\ Belated(s))
  BY RoundStep
<1>1. seen'[s] \in {s, NoServer, Unlisted, Listed}
  BY <1>i, <1>r DEF ListRooms, PublishRead, MayPublish
<1>2. copy'[s] = "frozen" => s \in draining'
  BY <1>i, CopyStep
<1>3. ASSUME seen'[s] # Unlisted PROVE copy'[s] \in {"active", "frozen"} \/ Gone(s)'
  <2>1. copy[s] \in {"active", "frozen"} \/ Gone(s)
    BY <1>i, <1>r, <1>3 DEF ListRooms, PublishRead
  <2> QED
    BY <1>i, <2>1, HeldOrGone, GoneStays
<1>4. ASSUME s \in belated' PROVE Gone(s)'
  <2>1. s \in belated \/ (seen[s] # Unlisted /\ copy[s] \notin {"active", "frozen"})
    BY <1>r, <1>4 DEF Belated, PublishWrite
  <2>2. Gone(s)
    BY <1>i, <2>1
  <2> QED
    BY <2>2, GoneStays
<1>5. ASSUME seen'[s] = NoServer, copy'[s] \in {"active", "frozen"}
      PROVE  /\ directory' # s
             /\ \A p \in Server : Authoritative(p)' => p = s
             /\ \A c \in Open' : c.from = s
  <2>1. CASE PublishRead(s)
    <3>1. UNCHANGED <<directory, copy, key, out, adopting, cmds>>
      BY <2>1 DEF PublishRead, srcVars, peerVars, redisVars
    <3>2. directory = NoServer /\ copy[s] = "active"
      BY <1>5, <2>1, <3>1 DEF PublishRead, MayPublish
    <3>3. Open' = {}
      BY <3>1, <3>2, OpenMeansFrozen DEF Open
    <3>4. \A p \in Server : Authoritative(p)' => p = s
      BY <3>1, <3>2 DEF Authoritative, SingleAuthority
    <3> QED
      BY <3>1, <3>2, <3>3, <3>4
  <2>2. CASE seen[s] = NoServer
    <3>1. copy[s] \in {"active", "frozen"}
      <4>1. ASSUME Gone(s) PROVE FALSE
        <5>1. Gone(s)'
          BY <4>1, GoneStays
        <5> QED
          BY <1>5, <5>1 DEF Gone
      <4> QED
        BY <1>i, <2>2, <4>1
    <3>2. /\ directory # s
          /\ \A p \in Server : Authoritative(p) => p = s
          /\ \A c \in Open : c.from = s
      BY <1>i, <2>2, <3>1
    <3>3. \A p \in Server, c \in cmds : ~ Fence(c)
      <4> SUFFICES ASSUME NEW c \in cmds, Fence(c) PROVE FALSE
        OBVIOUS
      <4>1. c \in Open /\ directory = c.from
        BY DEF Fence, Open
      <4> QED
        BY <3>2, <4>1
    <3>4. \A p \in Server : Authoritative(p)' => p = s
      BY <3>2, <3>3, AuthorityGained DEF TakesOver, Claim
    <3>5. directory' # s
      BY <1>5, <2>2, <3>2, <3>3, NotByOthers
    <3>6. ASSUME NEW c \in Open' PROVE c.from = s
      <4>1. CASE c \in Open
        BY <3>2, <4>1
      <4>2. ASSUME NEW x \in Server, NEW q \in Server, Send(x, q), copy[x] = "frozen", c.from = x PROVE c.from = s
        <5>1. Authoritative(x)
          BY <4>2 DEF Send, SourceInv, Authoritative
        <5> QED
          BY <3>2, <4>2, <5>1
      <4> QED
        BY <4>1, <4>2, OpenGained
    <3> QED
      BY <3>4, <3>5, <3>6
  <2> QED
    BY <1>5, <1>r, <2>1, <2>2 DEF ListRooms
<1> QED
  BY <1>1, <1>2, <1>3, <1>4, <1>5

\* The compare-and-set makes the peer's copy count and points everything at it.
LEMMA TakeOverRoutes ==
    ASSUME HandOffInv, RosterInv, NEW p \in Server, NEW c \in cmds, TakesOver(p, c)
    PROVE  /\ Authoritative(p)'
           /\ c \in Open
           /\ roster' = roster /\ roster[p] = c.members
           /\ directory' = p
           /\ \A u \in roster'[p] : claim'[u] = p
<1> USE HandOffAssumption DEF HandOffInv, TypeOK, CopyState, KeyState, Command
<1>1. /\ astep[p] = "claim" /\ c.id = adopting[p] /\ Fence(c) /\ CommitKeys(p, c) /\ roster' = roster
      /\ \/ copy'[p] = "active"
         \/ copy' = copy /\ adopting' = adopting
  BY DEF TakesOver, Claim, ClaimFails, Activate
<1>2. copy[p] = "staged"
  BY <1>1 DEF PeerInv
<1>3. roster[p] = c.members
  BY <1>1, <1>2 DEF RosterInv
<1>4. key'[c.id] = "committed" /\ directory' = p /\ \A u \in c.members : claim'[u] = p
  BY <1>1 DEF CommitKeys
<1>5. Authoritative(p)'
  BY <1>1, <1>2, <1>4 DEF Authoritative
<1>6. c \in Open
  BY <1>1 DEF Fence, Open
<1> QED
  BY <1>1, <1>3, <1>4, <1>5, <1>6

\* Everything leads to the room at the start.
LEMMA RoutesInit == Init => RoutesLeadToTheRoom
BY HandOffAssumption DEF Init, RoutesLeadToTheRoom, Authoritative

\* The history only grows.
LEMMA RoundHistory == [Next]_vars => belated \subseteq belated'
<1> SUFFICES ASSUME [Next]_vars PROVE belated \subseteq belated'
  OBVIOUS
<1>1. ASSUME NEW x \in Server, RoomStep(x) PROVE belated \subseteq belated'
  BY <1>1 DEF RoomStep, Join, Leave, Kick, RestoreClaim, BeginDrain, Crash, ListRooms, PublishRead, PublishWrite,
              PublishFails, Unpublish, RefreshMarkers
<1>2. ASSUME NEW x \in Server, SourceStep(x) PROVE belated \subseteq belated'
  BY <1>2 DEF SourceStep, Freeze, Announce, AnnounceFails, Send, ResumeSettle, SettleCas, SettleFails, SettleRead
<1>3. ASSUME NEW x \in Server, PeerStepOf(x) PROVE belated \subseteq belated'
  BY <1>3 DEF PeerStepOf, Refuse, Stage, Claim, ClaimFails, Redeliver, ReadKey, ReadKeyFails, Reconcile,
              ReconcileFails
<1> QED
  BY <1>1, <1>2, <1>3 DEF Next, Expire, vars

\* What a step may do to the directory while the copy at s goes on counting.
LEMMA DirectoryStep ==
    ASSUME HandOffInv, PublisherInv, [Next]_vars,
           NEW s \in Server, Authoritative(s), directory \in {s, NoServer} \cup belated,
           \A p \in Server, c \in cmds : ~ TakesOver(p, c)
    PROVE  directory' \in {s, NoServer} \cup belated'
<1> USE HandOffAssumption DEF HandOffInv, TypeOK
<1>b. belated \subseteq belated'
  BY RoundHistory
<1>1. CASE UNCHANGED directory
  BY <1>1, <1>b
<1>2. ASSUME NEW x \in Server, RoomStep(x) PROVE directory' \in {s, NoServer} \cup belated'
  <2>1. CASE PublishWrite(x)
    <3>1. CASE directory = seen[x]
      <4>1. directory' = x /\ seen[x] \in {x, NoServer}
        BY <2>1, <3>1 DEF PublishWrite, EntryAfterWrite, PublisherInv
      <4>2. CASE seen[x] = x
        BY <1>b, <3>1, <4>1, <4>2
      <4>3. CASE seen[x] = NoServer /\ copy[x] \in {"active", "frozen"}
        BY <4>1, <4>3 DEF PublisherInv
      <4>4. CASE seen[x] = NoServer /\ copy[x] \notin {"active", "frozen"}
        BY <2>1, <3>1, <4>1, <4>4 DEF PublishWrite, Belated
      <4> QED
        BY <4>1, <4>2, <4>3, <4>4
    <3>2. CASE directory # seen[x]
      BY <1>b, <2>1, <3>2 DEF PublishWrite, EntryAfterWrite
    <3> QED
      BY <3>1, <3>2
  <2>2. CASE Unpublish(x)
    BY <2>2 DEF Unpublish
  <2> QED
    BY <1>1, <1>2, <2>1, <2>2 DEF RoomStep, Join, Leave, Kick, RestoreClaim, BeginDrain, Crash, ListRooms, PublishRead, PublishFails,
                                  RefreshMarkers, redisVars
<1>3. ASSUME NEW x \in Server, SourceStep(x) PROVE UNCHANGED directory
  BY <1>3 DEF SourceStep, Freeze, Announce, AnnounceFails, Send, ResumeSettle, SettleCas, SettleFails,
              SettleRead, redisVars
<1>4. ASSUME NEW x \in Server, PeerStepOf(x) PROVE UNCHANGED directory
  BY <1>4 DEF PeerStepOf, Refuse, Stage, Claim, ClaimFails, TakesOver, Redeliver, ReadKey, ReadKeyFails,
              Reconcile, ReconcileFails, redisVars
<1>5. CASE Expire \/ UNCHANGED vars
  BY <1>5 DEF Expire, vars
<1> QED
  BY <1>1, <1>2, <1>3, <1>4, <1>5 DEF Next

\* What a step may do to the members' claims while the copy at s goes on counting.
LEMMA ClaimsStep ==
    ASSUME HandOffInv, [Next]_vars,
           NEW s \in Server, Authoritative(s), \A u \in roster[s] : claim[u] \in {s, NoServer},
           \A p \in Server, c \in cmds : ~ TakesOver(p, c)
    PROVE  \A u \in roster'[s] : claim'[u] \in {s, NoServer}
<1> USE HandOffAssumption DEF HandOffInv, TypeOK
<1> DEFINE Led == \A u \in roster'[s] : claim'[u] \in {s, NoServer}
<1>1. ASSUME roster'[s] \subseteq roster[s], claim' = claim PROVE Led
  BY <1>1
<1>2. ASSUME NEW x \in Server, RoomStep(x) PROVE Led
  <2>1. ASSUME NEW u \in User, Join(x, u) \/ Leave(x, u) \/ Kick(x, u) \/ RestoreClaim(x, u) PROVE Led
    <3>1. x = s
      BY <2>1 DEF Join, Leave, Kick, RestoreClaim, Serving, SingleAuthority, Authoritative
    <3>2. CASE Join(x, u)
      BY <3>1, <3>2 DEF Join
    <3>3. CASE Leave(x, u)
      BY <3>1, <3>3 DEF Leave
    <3>4. CASE Kick(x, u)
      BY <3>1, <3>4 DEF Kick
    <3>5. CASE RestoreClaim(x, u)
      BY <3>1, <3>5 DEF RestoreClaim
    <3> QED
      BY <2>1, <3>2, <3>3, <3>4, <3>5
  <2>2. CASE Crash(x)
    BY <1>1, <2>2 DEF Crash, redisVars
  <2> QED
    BY <1>1, <1>2, <2>1, <2>2 DEF RoomStep, BeginDrain, ListRooms, PublishRead, PublishFails, PublishWrite, Unpublish,
                                  RefreshMarkers, redisVars
<1>3. ASSUME NEW x \in Server, SourceStep(x) PROVE Led
  <2>1. claim' = claim /\ (roster' = roster \/ roster' = [roster EXCEPT ![x] = {}])
    BY <1>3 DEF SourceStep, Freeze, Announce, AnnounceFails, Send, ResumeSettle, SettleCas, SettleFails,
                SettleRead, redisVars
  <2> QED
    BY <1>1, <2>1
<1>4. ASSUME NEW x \in Server, PeerStepOf(x) PROVE Led
  <2>1. ASSUME NEW c \in cmds, Stage(x, c) PROVE Led
    <3>1. x # s
      BY <2>1 DEF Stage, Authoritative
    <3> QED
      BY <1>1, <2>1, <3>1 DEF Stage, redisVars
  <2>2. CASE Reconcile(x)
    BY <1>1, <2>2 DEF Reconcile, Activate, Discard, redisVars
  <2> QED
    BY <1>1, <1>4, <2>1, <2>2 DEF PeerStepOf, Refuse, Claim, ClaimFails, TakesOver, Redeliver, ReadKey, Activate,
                                  ReadKeyFails, ReconcileFails, redisVars
<1>5. CASE Expire
  BY <1>5 DEF Expire
<1>6. CASE UNCHANGED vars
  BY <1>1, <1>6 DEF vars
<1> QED
  BY <1>2, <1>3, <1>4, <1>5, <1>6 DEF Next

\* Every step keeps the directory and the claims at the copy that counts.
LEMMA RoutesStep ==
    HandOffInv /\ HandOffInv' /\ RosterInv /\ PublisherInv /\ PublisherInv' /\ RoutesLeadToTheRoom /\ [Next]_vars
    => RoutesLeadToTheRoom'
<1> SUFFICES ASSUME HandOffInv, HandOffInv', RosterInv, PublisherInv, PublisherInv', RoutesLeadToTheRoom, [Next]_vars
             PROVE  RoutesLeadToTheRoom'
  OBVIOUS
<1>0. \A p \in belated' : copy'[p] \notin {"active", "frozen"}
  BY DEF PublisherInv, Gone, HandOffInv, TypeOK
<1> SUFFICES ASSUME NEW s \in Server, Authoritative(s)'
             PROVE  /\ directory' \in {s, NoServer} \cup belated'
                    /\ \A u \in roster'[s] : claim'[u] \in {s, NoServer}
  BY <1>0 DEF RoutesLeadToTheRoom
<1>1. ASSUME NEW p \in Server, NEW c \in cmds, TakesOver(p, c)
      PROVE  /\ directory' \in {s, NoServer} \cup belated'
             /\ \A u \in roster'[s] : claim'[u] \in {s, NoServer}
  <2>1. Authoritative(p)'
    BY <1>1, TakeOverRoutes
  <2>2. p = s
    BY <2>1 DEF HandOffInv, SingleAuthority
  <2> QED
    BY <1>1, <2>2, TakeOverRoutes
<1>2. CASE \A p \in Server, c \in cmds : ~ TakesOver(p, c)
  <2>1. Authoritative(s)
    BY <1>2, AuthorityGained
  <2>2. directory \in {s, NoServer} \cup belated /\ \A u \in roster[s] : claim[u] \in {s, NoServer}
    BY <2>1 DEF RoutesLeadToTheRoom
  <2> QED
    BY <1>2, <2>1, <2>2, DirectoryStep, ClaimsStep
<1> QED
  BY <1>1, <1>2

\* The roster and publisher invariants hold throughout.
THEOREM Rosters == Spec => []RosterInv
BY Invariant, RosterInit, RosterStep, PTL DEF Spec

THEOREM Publishers == Spec => []PublisherInv
BY Invariant, PublisherInit, PublisherStep, PTL DEF Spec

\* The directory entry and the members' claims never lead away from the copy that
\* counts (registry.ts #publishRoom, forgetRoom), unless a round that listed the room before
\* the move put up the old server's entry when the new one's had run out.
THEOREM RoutesLead == Spec => []RoutesLeadToTheRoom
BY Invariant, Rosters, Publishers, RoutesInit, RoutesStep, PTL DEF Spec

------------------------------------------------------------------------------
(* The protocol implements RoomOwnership.                                       *)

\* The owner is the server whose copy counts, and there is one or none.
LEMMA OwnerIs ==
    ASSUME SingleAuthority
    PROVE  /\ \A s \in Server : Authoritative(s) => Owner = s
           /\ (\A s \in Server : ~ Authoritative(s)) => Owner = NoServer
BY DEF SingleAuthority, Owner

\* The room's members are those of the copy that counts, or of the open command.
MembersFit ==
    /\ \A s \in Server : Authoritative(s) => Members = roster[s]
    /\ \A c \in Open : (\A s \in Server : ~ Authoritative(s)) => Members = c.members
    /\ (\A s \in Server : ~ Authoritative(s)) /\ Open = {} => Members = {}

LEMMA MembersAre == HandOffInv => MembersFit
<1> SUFFICES ASSUME HandOffInv PROVE MembersFit
  OBVIOUS
<1>1. ASSUME NEW s \in Server, Authoritative(s) PROVE Members = roster[s]
  BY <1>1, OwnerIs, HandOffAssumption DEF Members, HandOffInv
<1>2. ASSUME NEW c \in Open, \A s \in Server : ~ Authoritative(s) PROVE Members = c.members
  <2>1. (CHOOSE d \in Open : TRUE) = c
    BY DEF HandOffInv, CommandInv
  <2> QED
    BY <1>2, <2>1, OwnerIs DEF Members, HandOffInv
<1>3. ASSUME \A s \in Server : ~ Authoritative(s), Open = {} PROVE Members = {}
  BY <1>3, OwnerIs DEF Members, HandOffInv
<1> QED
  BY <1>1, <1>2, <1>3 DEF MembersFit

\* An open command closes only by the compare-and-set of the peer or of its source,
\* whose copy counts until then.
LEMMA OpenLost ==
    ASSUME HandOffInv, [Next]_vars, NEW c \in Open, c \notin Open',
           \A p \in Server, d \in cmds : ~ TakesOver(p, d)
    PROVE  \E s \in Server : Authoritative(s)
<1> USE HandOffAssumption DEF HandOffInv, TypeOK, CopyState, KeyState, Command
<1> DEFINE Held == \E s \in Server : Authoritative(s)
<1>1. c \in cmds /\ c.id \in Transfer /\ key[c.id] = "pending"
  BY DEF Open
<1>2. ASSUME cmds \subseteq cmds', key' = key PROVE FALSE
  BY <1>1, <1>2 DEF Open
<1>3. ASSUME NEW s \in Server, RoomStep(s) PROVE FALSE
  BY <1>2, <1>3 DEF RoomStep, Join, Leave, Kick, RestoreClaim, BeginDrain, Crash, ListRooms, PublishRead, PublishFails,
                    PublishWrite, Unpublish, RefreshMarkers, redisVars
<1>4. ASSUME NEW s \in Server, SourceStep(s) PROVE Held
  <2>1. CASE Announce(s) \/ AnnounceFails(s) \/ SettleCas(s) \/ SettleFails(s)
    <3>1. /\ copy[s] = "frozen" /\ out[s] \in Transfer /\ cmds' = cmds
          /\ \A t \in Transfer \ {out[s]} : key'[t] = key[t]
      BY <2>1 DEF Announce, AnnounceFails, SettleCas, SettleFails, CancelledUnlessCommitted, SourceInv
    <3>2. out[s] = c.id
      BY <1>1, <3>1 DEF Open
    <3> QED
      BY <1>1, <3>1, <3>2 DEF Authoritative
  <2>2. CASE (\E t \in Transfer : Freeze(s, t)) \/ (\E p \in Server : Send(s, p)) \/ ResumeSettle(s) \/ SettleRead(s)
    BY <1>2, <2>2 DEF Freeze, Send, ResumeSettle, SettleRead, redisVars
  <2> QED
    BY <1>4, <2>1, <2>2 DEF SourceStep
<1>5. ASSUME NEW p \in Server, PeerStepOf(p) PROVE FALSE
  BY <1>2, <1>5 DEF PeerStepOf, Refuse, Stage, Claim, ClaimFails, TakesOver, Redeliver, ReadKey, ReadKeyFails,
                    Reconcile, ReconcileFails, redisVars
<1>6. CASE Expire \/ UNCHANGED vars
  BY <1>2, <1>6 DEF Expire, vars
<1> QED
  BY <1>3, <1>4, <1>5, <1>6 DEF Next

\* The first state has an owner with members.
LEMMA OwnershipInit == HandOffInv /\ Init => Ownership!OInit
<1> SUFFICES ASSUME HandOffInv, Init PROVE Ownership!OInit
  OBVIOUS
<1>1. PICK s \in Server : Authoritative(s) /\ roster[s] # {}
  BY DEF Init, Authoritative
<1>2. Owner = s /\ Members = roster[s]
  BY <1>1, OwnerIs, MembersAre DEF HandOffInv, MembersFit
<1> QED
  BY <1>1, <1>2 DEF Ownership!OInit, HandOffInv, TypeOK

\* A step edits the roster at the owner, moves the room whole, loses it with its
\* process or its last member, or does not show.
LEMMA OwnershipStep ==
    HandOffInv /\ HandOffInv' /\ RosterInv /\ RosterInv' /\ [Next]_vars
    => [Ownership!ONext]_(Ownership!ovars)
<1> SUFFICES ASSUME HandOffInv, HandOffInv', RosterInv, RosterInv', [Next]_vars
             PROVE  Ownership!Edit \/ Ownership!Move \/ Ownership!Lose \/ (Owner' = Owner /\ Members' = Members)
  BY DEF Ownership!ONext, Ownership!ovars
<1>o. /\ \A s \in Server : Authoritative(s) => Owner = s
      /\ (\A s \in Server : ~ Authoritative(s)) => Owner = NoServer
  BY OwnerIs DEF HandOffInv
<1>p. /\ \A s \in Server : Authoritative(s)' => Owner' = s
      /\ (\A s \in Server : ~ Authoritative(s)') => Owner' = NoServer
  BY DEF HandOffInv, SingleAuthority, Owner
<1>m. /\ \A s \in Server : Authoritative(s) => Members = roster[s]
      /\ \A c \in Open : (\A s \in Server : ~ Authoritative(s)) => Members = c.members
      /\ (\A s \in Server : ~ Authoritative(s)) /\ Open = {} => Members = {}
  BY MembersAre DEF MembersFit
<1>n. /\ \A s \in Server : Authoritative(s)' => Members' = roster'[s]
      /\ \A c \in Open' : (\A s \in Server : ~ Authoritative(s)') => Members' = c.members
      /\ (\A s \in Server : ~ Authoritative(s)') /\ Open' = {} => Members' = {}
  <2>1. MembersFit'
    BY MembersAre, PTL
  <2> QED
    BY <2>1 DEF MembersFit
<1>1. ASSUME NEW p \in Server, NEW c \in cmds, TakesOver(p, c) PROVE Ownership!Move
  <2>1. /\ Authoritative(p)' /\ c \in Open
        /\ roster' = roster /\ roster[p] = c.members
    BY <1>1, TakeOverRoutes
  <2>2. Owner' = p /\ Members' = c.members
    BY <2>1, <1>p, <1>n
  <2>3. Members = c.members
    <3>1. ASSUME NEW s \in Server, Authoritative(s) PROVE Members = c.members
      <4>1. s = c.from /\ copy[s] = "frozen"
        BY <2>1, <3>1, OpenMeansFrozen
      <4>2. roster[s] = c.members
        BY <2>1, <4>1 DEF RosterInv
      <4> QED
        BY <3>1, <4>2, <1>m
    <3> QED
      BY <2>1, <3>1, <1>m
  <2>4. c.members # {}
    BY <2>1 DEF RosterInv
  <2> QED
    BY <2>2, <2>3, <2>4 DEF Ownership!Move
<1>2. CASE \A p \in Server, c \in cmds : ~ TakesOver(p, c)
  <2>1. \A p \in Server : Authoritative(p)' => Authoritative(p)
    BY <1>2, AuthorityGained
  <2>2. CASE \A s \in Server : ~ Authoritative(s)
    <3>1. Owner = NoServer /\ Owner' = NoServer
      BY <2>1, <2>2, <1>o, <1>p
    <3>2. Open' = Open
      <4>1. ASSUME NEW c \in Open' PROVE c \in Open
        <5>1. ASSUME NEW s \in Server, NEW p \in Server, Send(s, p), copy[s] = "frozen" PROVE FALSE
          BY <2>2, <5>1 DEF Send, SourceInv, Authoritative, HandOffInv
        <5> QED
          BY <5>1, OpenGained
      <4>2. ASSUME NEW c \in Open PROVE c \in Open'
        BY <1>2, <2>2, OpenLost
      <4> QED
        BY <4>1, <4>2
    <3>3. CASE Open = {}
      BY <2>1, <2>2, <3>1, <3>2, <3>3, <1>m, <1>n
    <3>4. ASSUME NEW c \in Open PROVE Members' = Members
      BY <2>1, <2>2, <3>2, <3>4, <1>m, <1>n
    <3> QED
      BY <3>1, <3>3, <3>4
  <2>3. ASSUME NEW s \in Server, Authoritative(s) PROVE Ownership!Edit \/ Ownership!Lose
    <3>1. Owner = s /\ Owner # NoServer /\ Members = roster[s]
      BY <2>3, <1>o, <1>m, HandOffAssumption
    <3>2. CASE Authoritative(s)'
      <4>1. Owner' = s /\ Members' = roster'[s]
        BY <3>2, <1>p, <1>n
      <4>2. roster'[s] # {} /\ roster'[s] \in SUBSET User
        BY <3>2 DEF RosterInv, HandOffInv, TypeOK, Authoritative
      <4> QED
        BY <3>1, <4>1, <4>2 DEF Ownership!Edit
    <3>3. CASE ~ Authoritative(s)'
      <4>1. \A p \in Server : ~ Authoritative(p)'
        BY <2>1, <2>3, <3>3 DEF HandOffInv, SingleAuthority
      <4>2. Owner' = NoServer
        BY <4>1, <1>p
      <4>3. ASSUME NEW c \in Open' PROVE Members' = Members
        <5>1. CASE c \in Open
          <6>1. s = c.from /\ copy[s] = "frozen"
            BY <2>3, <5>1, OpenMeansFrozen
          <6>2. roster[s] = c.members
            BY <5>1, <6>1 DEF RosterInv
          <6> QED
            BY <3>1, <4>1, <6>2, <1>n
        <5>2. ASSUME NEW x \in Server, NEW p \in Server, Send(x, p), copy[x] = "frozen", c.members = roster[x]
              PROVE  Members' = Members
          <6>1. x = s
            BY <2>3, <5>2 DEF Send, SourceInv, Authoritative, HandOffInv, SingleAuthority
          <6> QED
            BY <3>1, <4>1, <4>3, <5>2, <6>1, <1>n
        <5> QED
          BY <5>1, <5>2, OpenGained
      <4>4. Members' \in {Members, {}}
        BY <4>1, <4>3, <1>n
      <4> QED
        BY <3>1, <4>2, <4>4 DEF Ownership!Lose
    <3> QED
      BY <3>2, <3>3
  <2> QED
    BY <2>2, <2>3
<1> QED
  BY <1>1, <1>2

\* Every behaviour of the hand-off is one of a room with one owner that moves in one
\* step with the roster it has at that moment (exportForHandOff to commitAdoptedRoom).
THEOREM Refinement == Spec => ImplementsOwnership
<1>1. Init => HandOffInv
  BY InvInit
<1> QED
  BY <1>1, Invariant, Rosters, OwnershipInit, OwnershipStep, PTL DEF Spec, ImplementsOwnership, Ownership!OwnershipSpec
==============================================================================
