----------------------------- MODULE EdgeProofs ------------------------------
(***************************************************************************)
(* What comes into a room from outside: the player, through the gateway's  *)
(* upgrades, the sockets and tickets of a game server and the limiter of   *)
(* its packets; and the map, through its author's editor, the builder and  *)
(* the loader.  For any number of players, servers, sockets and tickets,   *)
(* maps of any size and storms of any speed.                               *)
(***************************************************************************)
EXTENDS MapTools, Gateway, Connections, RateLimit, FiniteSetTheorems, WellFoundedInduction, NaturalsInduction, TLAPS

-----------------------------------------------------------------------------
(* The gateway.                                                              *)

\* The states of the upgrades' sockets and lookups.
UpgradeTypeOK ==
  /\ wsSocket \in [Upgrade -> {"open", "closed"}]
  /\ wsPhase \in [Upgrade -> {"new", "looking", "settled", "linked", "over"}]
  /\ wsFound \in [Upgrade -> BOOLEAN]
  /\ wsUpstream \in [Upgrade -> {"none", "connecting", "open", "closed"}]
  /\ wsRefused \subseteq Upgrade /\ reads \subseteq Upgrade
  /\ relay \in [st : {"none", "forwarded", "streaming", "destroyed", "over"}, left : Nat,
                client : {"open", "closed"}]

\* An upstream belongs to a linked upgrade, whose closing takes it along; a refused
\* upgrade is over, and a new one has found nothing. A download that was not asked
\* for has not been given up.
PhasesAgree ==
  /\ \A u \in Upgrade : wsUpstream[u] \in {"connecting", "open"} => wsPhase[u] = "linked"
  /\ \A u \in wsRefused : wsPhase[u] = "over"
  /\ \A u \in Upgrade : wsPhase[u] = "new" => ~wsFound[u]
  /\ relay.st = "none" => relay.client = "open"

\* The reads under way are those the budget counts.
ReadsAreCounted == reads = pendingReads

\* The inductive invariant of the gateway.
GatewayInv == UpgradeTypeOK /\ PhasesAgree /\ ReadsAreCounted /\ UpgradesAreServed

\* A set of reads has a size, and one more read makes it at most one larger.
LEMMA ReadsGrow ==
  ASSUME NEW R \in SUBSET Upgrade, NEW u \in Upgrade
  PROVE  /\ Cardinality(R) \in Nat /\ Cardinality(R \ {u}) <= Cardinality(R)
         /\ Cardinality(R \cup {u}) <= Cardinality(R) + 1
<1>1. IsFiniteSet(R)
  BY GatewayAssumption, FS_Subset
<1>2. Cardinality(R) \in Nat
  BY <1>1, FS_CardinalityType
<1>3. Cardinality(R \cup {u}) = IF u \in R THEN Cardinality(R) ELSE Cardinality(R) + 1
  BY <1>1, FS_AddElement
<1>4. Cardinality(R \ {u}) <= Cardinality(R)
  BY <1>1, <1>2, FS_RemoveElement
<1> QED
  BY <1>2, <1>3, <1>4

\* Nothing is under way when the gateway starts.
LEMMA GatewayInvInit == GatewayInit => GatewayInv
<1> SUFFICES ASSUME GatewayInit PROVE GatewayInv
  OBVIOUS
<1> USE DEF GatewayInit
<1>1. UpgradeTypeOK /\ PhasesAgree /\ ReadsAreCounted
  BY DEF UpgradeTypeOK, PhasesAgree, ReadsAreCounted
<1>2. UpstreamsHaveAClient /\ FoundServersAreReached
  BY DEF UpstreamsHaveAClient, FoundServersAreReached
<1>3. ReadsStayInBudget
  BY GatewayAssumption, FS_EmptySet DEF ReadsStayInBudget
<1> QED
  BY <1>1, <1>2, <1>3 DEF GatewayInv, UpgradesAreServed

\* What touches neither upgrades nor reads keeps the invariant.
LEMMA TableSteps ==
  ASSUME GatewayInv, UNCHANGED <<upgradeVars, reads, pendingReads>>,
         relay' = relay
  PROVE  GatewayInv'
BY DEF GatewayInv, upgradeVars, UpgradeTypeOK, PhasesAgree, ReadsAreCounted, UpgradesAreServed,
       UpstreamsHaveAClient, FoundServersAreReached, ReadsStayInBudget

\* A download's record: its client is there while it is forwarded or streamed.
RelayInv ==
  /\ relay.st \in {"none", "forwarded", "streaming", "destroyed", "over"}
  /\ relay.left \in Nat /\ relay.client \in {"open", "closed"}
  /\ relay = [st |-> relay.st, left |-> relay.left, client |-> relay.client]
  /\ relay.st \in {"none", "forwarded", "streaming"} => relay.client = "open"

\* Whatever becomes of a download, only its own state and backends change.
LEMMA BecomeKeeps ==
  ASSUME RelayInv, NEW left \in Nat,
         NEW st \in {"none", "forwarded", "streaming", "destroyed", "over"},
         st \in {"none", "forwarded", "streaming"} => relay.client = "open",
         Become(st, left)
  PROVE  RelayInv'
<1>1. relay' = [st |-> st, left |-> left, client |-> relay.client]
  BY DEF Become
<1>2. relay'.st = st /\ relay'.left = left /\ relay'.client = relay.client
  BY <1>1
<1> QED
  BY <1>1, <1>2 DEF RelayInv

\* A download keeps its client while it is forwarded or streamed (main.ts handleRequest).
LEMMA DownloadSteps ==
  ASSUME GatewayInv, DownloadsNext
  PROVE  GatewayInv'
<1>1. UNCHANGED <<registryVars, upgradeVars>>
  BY DEF DownloadsNext, HandleRequest, BackendAnswers, RequestError, ResponseTimesOut,
         StreamEnds, StreamStalls, DownloadAborted, Become
<1>2. RelayInv
  BY DEF RelayInv, GatewayInv, UpgradeTypeOK, PhasesAgree, UpgradesAreServed, UpstreamsHaveAClient
<1>3. RelayInv'
  <2>1. CASE HandleRequest
    <3>1. relay.client = "open"
      BY <1>2, <2>1 DEF RelayInv, HandleRequest
    <3>2. CASE Become("over", 0)
      BY <1>2, <3>2, BecomeKeeps
    <3>3. CASE \E others \in 0..1 : Become("forwarded", others)
      BY <1>2, <3>1, <3>3, BecomeKeeps
    <3> QED
      BY <2>1, <3>2, <3>3 DEF HandleRequest
  <2>2. CASE BackendAnswers
    <3>1. relay.client = "open" /\ Become("streaming", 0)
      BY <1>2, <2>2 DEF RelayInv, BackendAnswers
    <3> QED
      BY <1>2, <3>1, BecomeKeeps
  <2>3. CASE RequestError
    <3>1. CASE MayRetry /\ Become("forwarded", relay.left - 1)
      <4>1. relay.client = "open" /\ relay.left - 1 \in Nat
        BY <1>2, <3>1 DEF RelayInv, MayRetry
      <4> QED
        BY <1>2, <3>1, <4>1, BecomeKeeps
    <3>2. CASE Become("over", 0)
      BY <1>2, <3>2, BecomeKeeps
    <3> QED
      BY <2>3, <3>1, <3>2 DEF RequestError
  <2>4. CASE ResponseTimesOut \/ StreamEnds \/ StreamStalls
    <3>1. Become("over", 0)
      BY <2>4 DEF ResponseTimesOut, StreamEnds, StreamStalls
    <3> QED
      BY <1>2, <3>1, BecomeKeeps
  <2>5. CASE DownloadAborted
    <3>1. relay' = [st |-> IF relay.st = "forwarded" THEN "destroyed" ELSE "over",
                    left |-> relay.left, client |-> "closed"]
      BY <2>5 DEF DownloadAborted
    <3>2. relay'.st \in {"destroyed", "over"} /\ relay'.left = relay.left
          /\ relay'.client = "closed"
      BY <3>1
    <3> QED
      BY <1>2, <3>1, <3>2 DEF RelayInv
  <2> QED
    BY <2>1, <2>2, <2>3, <2>4, <2>5 DEF DownloadsNext
<1>4. relay' \in [st : {"none", "forwarded", "streaming", "destroyed", "over"}, left : Nat,
                  client : {"open", "closed"}]
      /\ (relay'.st \in {"none", "forwarded", "streaming"} => relay'.client = "open")
  BY <1>3 DEF RelayInv
<1>5. UpgradeTypeOK'
  BY <1>1, <1>4 DEF GatewayInv, registryVars, upgradeVars, UpgradeTypeOK
<1>6. PhasesAgree' /\ ReadsAreCounted'
  BY <1>1, <1>4 DEF GatewayInv, registryVars, upgradeVars, PhasesAgree, ReadsAreCounted
<1>7. UpgradesAreServed'
  BY <1>1, <1>4 DEF GatewayInv, registryVars, upgradeVars, UpgradesAreServed,
     UpstreamsHaveAClient, FoundServersAreReached, ReadsStayInBudget
<1> QED
  BY <1>5, <1>6, <1>7 DEF GatewayInv

\* An answer reaches only those who wait for it; nobody refused or linked waits.
LEMMA SettleKeeps ==
  ASSUME UpgradeTypeOK, PhasesAgree, FoundServersAreReached, UpstreamsHaveAClient,
         NEW b, NEW found \in BOOLEAN, Settle(b, found),
         UNCHANGED <<wsSocket, wsUpstream, wsRefused, relay>>
  PROVE  /\ wsPhase' \in [Upgrade -> {"new", "looking", "settled", "linked", "over"}]
         /\ wsFound' \in [Upgrade -> BOOLEAN]
         /\ PhasesAgree' /\ FoundServersAreReached' /\ UpstreamsHaveAClient'
<1> DEFINE waiting == {u \in Upgrade : wsPhase[u] = "looking" /\ PathOf[u] = b}
<1>1. /\ wsPhase' = [u \in Upgrade |-> IF u \in waiting THEN "settled" ELSE wsPhase[u]]
      /\ wsFound' = [u \in Upgrade |-> IF u \in waiting THEN found ELSE wsFound[u]]
  BY DEF Settle
<1>2. \A u \in waiting : wsPhase[u] = "looking"
  OBVIOUS
<1> HIDE DEF waiting
<1>3. wsPhase' \in [Upgrade -> {"new", "looking", "settled", "linked", "over"}]
  BY <1>1 DEF UpgradeTypeOK
<1>4. wsFound' \in [Upgrade -> BOOLEAN]
  BY <1>1 DEF UpgradeTypeOK
<1>5. wsRefused \subseteq Upgrade /\ wsRefused \cap waiting = {}
  BY <1>2 DEF UpgradeTypeOK, PhasesAgree
<1>6. PhasesAgree'
  <2>1. ASSUME NEW u \in Upgrade, wsUpstream[u] \in {"connecting", "open"} PROVE wsPhase'[u] = "linked"
    BY <1>1, <1>2, <2>1 DEF PhasesAgree
  <2>2. ASSUME NEW u \in wsRefused PROVE wsPhase'[u] = "over"
    BY <1>1, <1>5, <2>2 DEF PhasesAgree
  <2>3. ASSUME NEW u \in Upgrade, wsPhase'[u] = "new" PROVE ~wsFound'[u]
    BY <1>1, <2>3 DEF PhasesAgree
  <2> QED
    BY <2>1, <2>2, <2>3 DEF PhasesAgree
<1>7. FoundServersAreReached'
  BY <1>1, <1>5 DEF FoundServersAreReached
<1>8. UpstreamsHaveAClient'
  BY DEF UpstreamsHaveAClient
<1> QED
  BY <1>3, <1>4, <1>6, <1>7, <1>8

\* A link is made for a client that is there, a refusal for one that found nothing.
LEMMA UpgradeMoves ==
  ASSUME UpgradeTypeOK, PhasesAgree, FoundServersAreReached, UpstreamsHaveAClient,
         NEW u \in Upgrade, UNCHANGED relay,
         \/ Link(u) /\ wsSocket[u] = "open" /\ wsPhase[u] \in {"new", "settled"}
         \/ RefuseUpgrade(u) /\ ~wsFound[u] /\ wsPhase[u] \in {"new", "settled"}
         \/ AwaitLookup(u) /\ wsPhase[u] = "new"
  PROVE  /\ UpgradeTypeOK' \/ reads' # reads
         /\ wsSocket' \in [Upgrade -> {"open", "closed"}]
         /\ wsPhase' \in [Upgrade -> {"new", "looking", "settled", "linked", "over"}]
         /\ wsFound' \in [Upgrade -> BOOLEAN]
         /\ wsUpstream' \in [Upgrade -> {"none", "connecting", "open", "closed"}]
         /\ wsRefused' \subseteq Upgrade
         /\ PhasesAgree' /\ FoundServersAreReached' /\ UpstreamsHaveAClient'
<1> USE DEF UpgradeTypeOK, PhasesAgree, FoundServersAreReached, UpstreamsHaveAClient
<1>1. CASE Link(u) /\ wsSocket[u] = "open" /\ wsPhase[u] \in {"new", "settled"}
  BY <1>1 DEF Link
<1>2. CASE RefuseUpgrade(u) /\ ~wsFound[u] /\ wsPhase[u] \in {"new", "settled"}
  BY <1>2 DEF RefuseUpgrade
<1>3. CASE AwaitLookup(u) /\ wsPhase[u] = "new"
  BY <1>3 DEF AwaitLookup
<1> QED
  BY <1>1, <1>2, <1>3

\* ensureServer and handleUpgrade keep the reads within the budget.
LEMMA HandleStep ==
  ASSUME GatewayInv, NEW u \in Upgrade, HandleUpgrade(u)
  PROVE  GatewayInv'
<1>1. wsPhase[u] = "new" /\ wsSocket[u] = "open" /\ ~wsFound[u] /\ UNCHANGED relay
  BY DEF HandleUpgrade, GatewayInv, PhasesAgree
<1>2. UpgradeTypeOK /\ PhasesAgree /\ FoundServersAreReached /\ UpstreamsHaveAClient
  BY DEF GatewayInv, UpgradesAreServed
<1>3. Link(u) \/ RefuseUpgrade(u) \/ AwaitLookup(u)
  BY DEF HandleUpgrade
<1>4. /\ wsSocket' \in [Upgrade -> {"open", "closed"}]
      /\ wsPhase' \in [Upgrade -> {"new", "looking", "settled", "linked", "over"}]
      /\ wsFound' \in [Upgrade -> BOOLEAN]
      /\ wsUpstream' \in [Upgrade -> {"none", "connecting", "open", "closed"}]
      /\ wsRefused' \subseteq Upgrade
      /\ PhasesAgree' /\ FoundServersAreReached' /\ UpstreamsHaveAClient'
  BY <1>1, <1>2, <1>3, UpgradeMoves
<1>5. \/ UNCHANGED <<reads, pendingReads>>
      \/ WithinBudget /\ reads' = reads \cup {u} /\ pendingReads' = pendingReads \cup {u}
  BY DEF HandleUpgrade
<1>6. reads' \subseteq Upgrade /\ reads' = pendingReads' /\ Cardinality(reads') <= ReadBudget
  <2>1. reads \subseteq Upgrade /\ reads = pendingReads /\ Cardinality(reads) <= ReadBudget
    BY DEF GatewayInv, UpgradeTypeOK, ReadsAreCounted, UpgradesAreServed, ReadsStayInBudget
  <2>2. Cardinality(reads) \in Nat /\ Cardinality(reads \cup {u}) <= Cardinality(reads) + 1
    BY <2>1, ReadsGrow
  <2>3. WithinBudget => Cardinality(reads) + 1 <= ReadBudget
    BY <2>1, <2>2, GatewayAssumption DEF WithinBudget
  <2>4. Cardinality(reads \cup {u}) \in Nat
    BY <2>1, ReadsGrow
  <2>5. CASE UNCHANGED <<reads, pendingReads>>
    BY <2>1, <2>5
  <2>6. CASE WithinBudget /\ reads' = reads \cup {u} /\ pendingReads' = pendingReads \cup {u}
    BY <2>1, <2>2, <2>3, <2>4, <2>6, GatewayAssumption
  <2> QED
    BY <1>5, <2>5, <2>6
<1>7. UpgradeTypeOK'
  BY <1>1, <1>2, <1>4, <1>6 DEF UpgradeTypeOK
<1> QED
  BY <1>4, <1>6, <1>7 DEF GatewayInv, ReadsAreCounted, UpgradesAreServed, ReadsStayInBudget

\* A read that settles leaves the budget, and its answer goes to those who wait.
LEMMA ReadStep ==
  ASSUME GatewayInv, NEW u \in Upgrade, ReadSettles(u)
  PROVE  GatewayInv'
<1>1. UpgradeTypeOK /\ PhasesAgree /\ FoundServersAreReached /\ UpstreamsHaveAClient
  BY DEF GatewayInv, UpgradesAreServed
<1>2. UNCHANGED <<wsSocket, wsUpstream, wsRefused, relay>>
  BY DEF ReadSettles
<1>3. \/ \E found \in BOOLEAN : Settle(PathOf[u], found)
      \/ UNCHANGED <<wsPhase, wsFound>>
  BY DEF ReadSettles
<1>4. /\ wsPhase' \in [Upgrade -> {"new", "looking", "settled", "linked", "over"}]
      /\ wsFound' \in [Upgrade -> BOOLEAN]
      /\ PhasesAgree' /\ FoundServersAreReached' /\ UpstreamsHaveAClient'
  <2>1. CASE \E found \in BOOLEAN : Settle(PathOf[u], found)
    BY <1>1, <1>2, <2>1, SettleKeeps
  <2>2. CASE UNCHANGED <<wsPhase, wsFound>>
    BY <1>1, <1>2, <2>2 DEF UpgradeTypeOK, PhasesAgree, FoundServersAreReached, UpstreamsHaveAClient
  <2> QED
    BY <1>3, <2>1, <2>2
<1>5. reads' = reads \ {u} /\ pendingReads' = pendingReads \ {u}
  BY DEF ReadSettles
<1>6. reads' = pendingReads' /\ Cardinality(reads') <= ReadBudget
  <2>1. reads \in SUBSET Upgrade /\ reads = pendingReads /\ Cardinality(reads) <= ReadBudget
    BY DEF GatewayInv, UpgradeTypeOK, ReadsAreCounted, UpgradesAreServed, ReadsStayInBudget
  <2>2. /\ Cardinality(reads \ {u}) <= Cardinality(reads)
        /\ Cardinality(reads) \in Nat /\ Cardinality(reads \ {u}) \in Nat
    BY <2>1, ReadsGrow
  <2> QED
    BY <1>5, <2>1, <2>2, GatewayAssumption
<1>7. UpgradeTypeOK'
  BY <1>1, <1>2, <1>4, <1>5 DEF UpgradeTypeOK
<1> QED
  BY <1>4, <1>6, <1>7 DEF GatewayInv, ReadsAreCounted, UpgradesAreServed, ReadsStayInBudget

\* A caller who gives up leaves its read in the budget.
LEMMA TimeoutStep ==
  ASSUME GatewayInv, NEW b \in Backend, LookupTimesOut(b)
  PROVE  GatewayInv'
<1>1. UpgradeTypeOK /\ PhasesAgree /\ FoundServersAreReached /\ UpstreamsHaveAClient
  BY DEF GatewayInv, UpgradesAreServed
<1>2. /\ UNCHANGED <<wsSocket, wsUpstream, wsRefused, relay>> /\ Settle(b, FALSE)
      /\ UNCHANGED <<reads, pendingReads>>
  BY DEF LookupTimesOut, ReadGoesOn
<1>3. /\ wsPhase' \in [Upgrade -> {"new", "looking", "settled", "linked", "over"}]
      /\ wsFound' \in [Upgrade -> BOOLEAN]
      /\ PhasesAgree' /\ FoundServersAreReached' /\ UpstreamsHaveAClient'
  BY <1>1, <1>2, SettleKeeps
<1>4. UpgradeTypeOK'
  BY <1>1, <1>2, <1>3 DEF UpgradeTypeOK
<1> QED
  BY <1>2, <1>3, <1>4 DEF GatewayInv, ReadsAreCounted, UpgradesAreServed, ReadsStayInBudget

\* After the wait the handler links a client that is there and was answered yes.
LEMMA ContinueStep ==
  ASSUME GatewayInv, NEW u \in Upgrade, ContinueUpgrade(u)
  PROVE  GatewayInv'
<1>1. UpgradeTypeOK /\ PhasesAgree /\ FoundServersAreReached /\ UpstreamsHaveAClient
  BY DEF GatewayInv, UpgradesAreServed
<1>2. wsPhase[u] = "settled" /\ UNCHANGED <<registryVars, relay>>
  BY DEF ContinueUpgrade
<1>3. CASE SocketDestroyed(u)
  <2>1. wsPhase' = [wsPhase EXCEPT ![u] = "over"] /\ UNCHANGED <<wsSocket, wsFound, wsUpstream, wsRefused>>
    BY <1>3 DEF ContinueUpgrade
  <2> QED
    BY <1>1, <1>2, <2>1 DEF GatewayInv, registryVars, UpgradeTypeOK, PhasesAgree, ReadsAreCounted,
       UpgradesAreServed, UpstreamsHaveAClient, FoundServersAreReached, ReadsStayInBudget
<1>4. CASE ~SocketDestroyed(u)
  <2>1. wsSocket[u] = "open"
    BY <1>1, <1>4 DEF SocketDestroyed, UpgradeTypeOK
  <2>2. Link(u) \/ (RefuseUpgrade(u) /\ ~wsFound[u])
    BY <1>4 DEF ContinueUpgrade, Resolved
  <2>3. /\ UpgradeTypeOK' \/ reads' # reads
        /\ PhasesAgree' /\ FoundServersAreReached' /\ UpstreamsHaveAClient'
    BY <1>1, <1>2, <2>1, <2>2, UpgradeMoves
  <2> QED
    BY <1>2, <2>3 DEF GatewayInv, registryVars, ReadsAreCounted, UpgradesAreServed, ReadsStayInBudget
<1> QED
  BY <1>3, <1>4

\* The two ends of a link close together.
LEMMA CloseSteps ==
  ASSUME GatewayInv, NEW u \in Upgrade, UpstreamConnects(u) \/ UpstreamCloses(u) \/ SocketCloses(u)
  PROVE  GatewayInv'
<1>1. UpgradeTypeOK /\ PhasesAgree /\ FoundServersAreReached /\ UpstreamsHaveAClient
  BY DEF GatewayInv, UpgradesAreServed
<1>2. UNCHANGED <<registryVars, relay>>
  BY DEF UpstreamConnects, UpstreamCloses, SocketCloses
<1>3. UpgradeTypeOK'
  BY <1>1, <1>2 DEF UpstreamConnects, UpstreamCloses, SocketCloses, UpgradeTypeOK, registryVars
<1>4. PhasesAgree'
  BY <1>1, <1>2 DEF UpstreamConnects, UpstreamCloses, SocketCloses, UpgradeTypeOK, PhasesAgree
<1>5. FoundServersAreReached' /\ UpstreamsHaveAClient'
  BY <1>1, <1>2 DEF UpstreamConnects, UpstreamCloses, SocketCloses, UpgradeTypeOK, PhasesAgree,
     FoundServersAreReached, UpstreamsHaveAClient
<1> QED
  BY <1>2, <1>3, <1>4, <1>5 DEF GatewayInv, registryVars, ReadsAreCounted, UpgradesAreServed, ReadsStayInBudget

\* For any number of upgrades and servers: the gateway links a client that is still
\* there to the server its lookup found, and never has more reads under way than its
\* budget (main.ts handleUpgrade, registry-view.ts ensureServer).
THEOREM UpgradesServed == GatewaySpec => []UpgradesAreServed
<1>1. ASSUME GatewayInv, UpgradesNext PROVE GatewayInv'
  <2>1. CASE TableReads \/ WindowTurns \/ (\E read \in refreshes : TableReplaced(read))
             \/ (\E b \in Backend : HeartbeatChanges(b))
    BY <1>1, <2>1, TableSteps DEF TableReads, WindowTurns, TableReplaced, HeartbeatChanges
  <2>2. CASE \E b \in Backend : LookupTimesOut(b)
    BY <1>1, <2>2, TimeoutStep
  <2>3. CASE \E u \in Upgrade : HandleUpgrade(u) \/ ReadSettles(u) \/ ContinueUpgrade(u)
    BY <1>1, <2>3, HandleStep, ReadStep, ContinueStep
  <2>4. CASE \E u \in Upgrade : UpstreamConnects(u) \/ UpstreamCloses(u) \/ SocketCloses(u)
    BY <1>1, <2>4, CloseSteps
  <2> QED
    BY <1>1, <2>1, <2>2, <2>3, <2>4 DEF UpgradesNext
<1>2. ASSUME GatewayInv, UNCHANGED gatewayVars PROVE GatewayInv'
  BY <1>2, TableSteps DEF gatewayVars, registryVars
<1>3. GatewayInv /\ [GatewayNext]_gatewayVars => GatewayInv'
  BY <1>1, <1>2, DownloadSteps DEF GatewayNext
<1>4. GatewayInv => UpgradesAreServed
  BY DEF GatewayInv
<1> QED
  BY <1>3, <1>4, GatewayInvInit, PTL DEF GatewaySpec

-----------------------------------------------------------------------------
(* Sockets, tickets and seats.                                               *)

\* A ticket that is not used up has let nobody in.
TicketsFresh == \A t \in Ticket : ticketState[t] # "gone" => admittedBy[t] = {}

\* A socket has a record from its upgrade to its close event, and no user before its
\* ticket was looked up; from then on, while it lives, it is the ticket's owner.
RecordsAgree ==
  \A s \in Socket :
    /\ ready[s] \in {"unused", "closed"} => record[s] = "none"
    /\ ready[s] = "unused" => auth[s] = "idle"
    /\ auth[s] # "idle" => presented[s] \in Ticket
    /\ auth[s] \in {"admitted", "done"} /\ ready[s] # "closed" => record[s] = OwnerOf[presented[s]]

\* The socket a seat is bound to has come all the way, so that its close event tells
\* the room.
BoundSocketsAreDone ==
  \A a \in Actor : place[a] = "bound" =>
    /\ boundTo[a] \in Socket /\ auth[boundTo[a]] = "done"
    /\ OwnerOf[presented[boundTo[a]]] = a /\ ready[boundTo[a]] \in {"open", "closing"}

\* The inductive invariant of the connections.
ConnectionsInv ==
  /\ ConnectionsTypeOK /\ TicketsFresh /\ OneSocketPerTicket
  /\ RecordsAgree /\ BoundSocketsAreDone /\ CountersMatchTheSockets

\* The sockets of an address without and with a user.
Unknown(i) == {s \in Socket : IpOf[s] = i /\ record[s] = Nobody}
Known(i) == {s \in Socket : IpOf[s] = i /\ record[s] \in Actor}

\* The counters, by the sets they count.
LEMMA Counters ==
  CountersMatchTheSockets <=>
    /\ \A i \in Ip : unauthByIp[i] = Cardinality(Unknown(i)) /\ authByIp[i] = Cardinality(Known(i))
    /\ \A a \in Actor : {s \in Socket : record[s] = a} = {activeUsers[a]} \ {Nobody}
BY DEF CountersMatchTheSockets, Unknown, Known

\* Counters and records that stay as they are still agree.
LEMMA CountersStay ==
  ASSUME CountersMatchTheSockets, UNCHANGED <<record, unauthByIp, authByIp, activeUsers>>
  PROVE  CountersMatchTheSockets'
BY DEF CountersMatchTheSockets

\* Sets of sockets have a size, which one socket more or less changes by one.
LEMMA SocketsCounted ==
  ASSUME NEW S \in SUBSET Socket, NEW s \in Socket
  PROVE  /\ Cardinality(S) \in Nat
         /\ s \notin S => Cardinality(S \cup {s}) = Cardinality(S) + 1
         /\ s \in S => Cardinality(S \ {s}) = Cardinality(S) - 1
<1>1. IsFiniteSet(S)
  BY ConnectionsAssumption, FS_Subset
<1>2. Cardinality(S) \in Nat
  BY <1>1, FS_CardinalityType
<1>3. s \notin S => Cardinality(S \cup {s}) = Cardinality(S) + 1
  BY <1>1, FS_AddElement
<1>4. s \in S => Cardinality(S \ {s}) = Cardinality(S) - 1
  BY <1>1, FS_RemoveElement
<1> QED
  BY <1>2, <1>3, <1>4

\* Nothing is connected when the server starts.
LEMMA ConnectionsInvInit == ConnectionsInit => ConnectionsInv
<1> SUFFICES ASSUME ConnectionsInit PROVE ConnectionsInv
  OBVIOUS
<1> USE ConnectionsAssumption DEF ConnectionsInit
<1>1. ConnectionsTypeOK
  BY DEF ConnectionsTypeOK
<1>2. TicketsFresh /\ RecordsAgree /\ BoundSocketsAreDone
  BY DEF TicketsFresh, RecordsAgree, BoundSocketsAreDone
<1>3. OneSocketPerTicket
  BY FS_EmptySet DEF OneSocketPerTicket
<1>4. CountersMatchTheSockets
  <2>1. \A i \in Ip : Unknown(i) = {} /\ Known(i) = {}
    BY DEF Unknown, Known, Nobody
  <2>2. \A a \in Actor : {s \in Socket : record[s] = a} = {}
    OBVIOUS
  <2> QED
    BY <2>1, <2>2, Counters, FS_EmptySet
<1> QED
  BY <1>1, <1>2, <1>3, <1>4 DEF ConnectionsInv

\* What leaves records, counters and sockets alone: tickets and seats without a socket.
LEMMA SeatSteps ==
  ASSUME ConnectionsInv,
         \/ \E t \in Ticket : IssueTicket(t) \/ TicketExpires(t)
         \/ \E a \in Actor : SeatExpires(a)
         \/ UNCHANGED connectionVars
  PROVE  ConnectionsInv'
<1> USE ConnectionsAssumption DEF ConnectionsInv
<1>1. CASE \E t \in Ticket : IssueTicket(t)
  <2> PICK t \in Ticket : IssueTicket(t)
    BY <1>1
  <2>1. UNCHANGED <<ready, record, auth, presented, boundTo, admittedBy, unauthByIp, authByIp, activeUsers>>
    BY DEF IssueTicket, ipVars
  <2>2. ConnectionsTypeOK' /\ TicketsFresh'
    BY <2>1 DEF IssueTicket, ConnectionsTypeOK, TicketsFresh
  <2>3. BoundSocketsAreDone'
    BY <2>1 DEF IssueTicket, ConnectionsTypeOK, BoundSocketsAreDone
  <2> QED
    BY <2>1, <2>2, <2>3, CountersStay DEF OneSocketPerTicket, RecordsAgree
<1>2. CASE \E t \in Ticket : TicketExpires(t)
  <2> PICK t \in Ticket : TicketExpires(t)
    BY <1>2
  <2>1. UNCHANGED <<ready, record, auth, presented, place, boundTo, reserved, admittedBy, unauthByIp,
                    authByIp, activeUsers>>
    BY DEF TicketExpires, ipVars
  <2>2. ConnectionsTypeOK' /\ TicketsFresh'
    BY <2>1 DEF TicketExpires, ConnectionsTypeOK, TicketsFresh
  <2> QED
    BY <2>1, <2>2, CountersStay DEF OneSocketPerTicket, RecordsAgree, BoundSocketsAreDone
<1>3. CASE \E a \in Actor : SeatExpires(a)
  <2> PICK a \in Actor : SeatExpires(a)
    BY <1>3
  <2>1. UNCHANGED <<ready, record, auth, presented, ticketState, boundTo, reserved, admittedBy,
                    unauthByIp, authByIp, activeUsers>>
    BY DEF SeatExpires, ipVars
  <2>2. \E next \in {"none", "away"} : place' = [place EXCEPT ![a] = next]
    BY DEF SeatExpires
  <2>3. ConnectionsTypeOK' /\ BoundSocketsAreDone'
    BY <2>1, <2>2 DEF ConnectionsTypeOK, BoundSocketsAreDone
  <2> QED
    BY <2>1, <2>3, CountersStay DEF OneSocketPerTicket, RecordsAgree, TicketsFresh
<1>4. CASE UNCHANGED connectionVars
  BY <1>4, CountersStay DEF connectionVars, ConnectionsTypeOK, OneSocketPerTicket, RecordsAgree,
     TicketsFresh, BoundSocketsAreDone
<1> QED
  BY <1>1, <1>2, <1>3, <1>4

\* A member is dismissed with his socket; a socket begins to close, or presents a ticket.
LEMMA SocketSteps ==
  ASSUME ConnectionsInv,
         \/ \E a \in Actor : Dismiss(a)
         \/ \E s \in Socket : BeginClose(s)
         \/ \E s \in Socket, t \in Ticket : Presents(s, t)
  PROVE  ConnectionsInv'
<1> USE ConnectionsAssumption DEF ConnectionsInv
<1>1. CASE \E a \in Actor : Dismiss(a)
  <2> PICK a \in Actor : Dismiss(a)
    BY <1>1
  <2>1. UNCHANGED <<record, auth, presented, ticketState, reserved, admittedBy, unauthByIp, authByIp, activeUsers>>
    BY DEF Dismiss, ipVars
  <2>2. boundTo[a] \in Socket /\ ready[boundTo[a]] \in {"open", "closing"}
    BY DEF Dismiss, BoundSocketsAreDone
  <2>3. ConnectionsTypeOK'
    BY <2>1, <2>2 DEF Dismiss, ConnectionsTypeOK
  <2>4. RecordsAgree'
    BY <2>1, <2>2 DEF Dismiss, ConnectionsTypeOK, RecordsAgree
  <2>5. BoundSocketsAreDone'
    BY <2>1, <2>2 DEF Dismiss, ConnectionsTypeOK, BoundSocketsAreDone
  <2> QED
    BY <2>1, <2>3, <2>4, <2>5, CountersStay DEF OneSocketPerTicket, TicketsFresh
<1>2. CASE \E s \in Socket : BeginClose(s)
  <2> PICK s \in Socket : BeginClose(s)
    BY <1>2
  <2>1. UNCHANGED <<record, auth, presented, ticketState, place, boundTo, reserved, admittedBy,
                    unauthByIp, authByIp, activeUsers>>
    BY DEF BeginClose, ipVars, roomVars
  <2>2. ConnectionsTypeOK' /\ RecordsAgree' /\ BoundSocketsAreDone'
    BY <2>1 DEF BeginClose, ConnectionsTypeOK, RecordsAgree, BoundSocketsAreDone
  <2> QED
    BY <2>1, <2>2, CountersStay DEF OneSocketPerTicket, TicketsFresh
<1>3. CASE \E s \in Socket, t \in Ticket : Presents(s, t)
  <2> PICK s \in Socket, t \in Ticket : Presents(s, t)
    BY <1>3
  <2>1. UNCHANGED <<ready, record, ticketState, place, boundTo, reserved, admittedBy, unauthByIp,
                    authByIp, activeUsers>>
    BY DEF Presents, ipVars, roomVars
  <2>2. ConnectionsTypeOK' /\ RecordsAgree' /\ BoundSocketsAreDone'
    BY <2>1 DEF Presents, ConnectionsTypeOK, RecordsAgree, BoundSocketsAreDone
  <2> QED
    BY <2>1, <2>2, CountersStay DEF OneSocketPerTicket, TicketsFresh
<1> QED
  BY <1>1, <1>2, <1>3

\* A new socket is counted at its address.
LEMMA AcceptStep ==
  ASSUME ConnectionsInv, NEW s \in Socket, AcceptSocket(s)
  PROVE  ConnectionsInv'
<1> USE ConnectionsAssumption
<1>1. /\ ready[s] = "unused" /\ record[s] = "none"
      /\ ready' = [ready EXCEPT ![s] = "open"] /\ record' = [record EXCEPT ![s] = Nobody]
      /\ unauthByIp' = [unauthByIp EXCEPT ![IpOf[s]] = @ + 1]
      /\ UNCHANGED <<auth, presented, authByIp, activeUsers, ticketState, place, boundTo, reserved,
                     admittedBy>>
  BY DEF AcceptSocket, roomVars, ConnectionsInv, RecordsAgree
<1>2. ConnectionsTypeOK /\ IpOf[s] \in Ip
  BY DEF ConnectionsInv, Ip
<1>3. ConnectionsTypeOK'
  BY <1>1, <1>2 DEF ConnectionsTypeOK
<1>4. RecordsAgree' /\ BoundSocketsAreDone'
  BY <1>1, <1>2 DEF ConnectionsInv, ConnectionsTypeOK, RecordsAgree, BoundSocketsAreDone
<1>5. CountersMatchTheSockets'
  <2>1. \A i \in Ip : /\ Known(i)' = Known(i)
                      /\ Unknown(i)' = IF i = IpOf[s] THEN Unknown(i) \cup {s} ELSE Unknown(i)
    BY <1>1, <1>2 DEF Known, Unknown, ConnectionsTypeOK, Nobody
  <2>2. \A i \in Ip : Unknown(i) \in SUBSET Socket /\ s \notin Unknown(i)
    BY <1>1 DEF Unknown, Nobody
  <2>3. \A i \in Ip : unauthByIp[i] = Cardinality(Unknown(i)) /\ authByIp[i] = Cardinality(Known(i))
    BY Counters DEF ConnectionsInv
  <2>4. ASSUME NEW i \in Ip PROVE unauthByIp'[i] = Cardinality(Unknown(i)')
    <3>1. Cardinality(Unknown(i) \cup {s}) = Cardinality(Unknown(i)) + 1
      BY <2>2, SocketsCounted
    <3> QED
      BY <1>1, <1>2, <2>1, <2>3, <3>1 DEF ConnectionsTypeOK
  <2>5. \A i \in Ip : authByIp'[i] = Cardinality(Known(i)')
    BY <1>1, <2>1, <2>3
  <2>6. ASSUME NEW a \in Actor
        PROVE  {q \in Socket : record'[q] = a} = {activeUsers'[a]} \ {Nobody}
    <3>1. {q \in Socket : record'[q] = a} = {q \in Socket : record[q] = a}
      BY <1>1, <1>2 DEF ConnectionsTypeOK
    <3> QED
      BY <1>1, <3>1 DEF ConnectionsInv, CountersMatchTheSockets
  <2> QED
    BY <2>4, <2>5, <2>6 DEF CountersMatchTheSockets, Unknown, Known, Ip
<1> QED
  BY <1>1, <1>3, <1>4, <1>5 DEF ConnectionsInv, TicketsFresh, OneSocketPerTicket

\* A ticket lets its socket in, once, and the socket changes columns.
LEMMA AuthenticateStep ==
  ASSUME ConnectionsInv, NEW s \in Socket, Authenticate(s)
  PROVE  ConnectionsInv'
<1> USE ConnectionsAssumption
<1> DEFINE t == presented[s]
           a == OwnerOf[t]
           ip == IpOf[s]
           lets == ticketState[t] = "live" /\ CanAuthenticate(s, a) /\ Admits(a)
<1>1. /\ auth[s] = "looking" /\ t \in Ticket /\ a \in Actor /\ ip \in Ip
      /\ auth' = [auth EXCEPT ![s] = IF lets THEN "admitted" ELSE "refused"]
      /\ UNCHANGED <<ready, presented, boundTo, reserved>>
  BY DEF Authenticate, ConnectionsInv, RecordsAgree, Ip
<1>2. ConnectionsTypeOK
  BY DEF ConnectionsInv
<1>3. CASE ~lets
  <2>1. /\ UNCHANGED <<ticketState, place, record, unauthByIp, authByIp, activeUsers, admittedBy>>
        /\ auth' = [auth EXCEPT ![s] = "refused"]
    BY <1>1, <1>3 DEF Authenticate
  <2> HIDE DEF lets
  <2>2. ConnectionsTypeOK' /\ RecordsAgree' /\ BoundSocketsAreDone'
    BY <1>1, <2>1 DEF ConnectionsInv, ConnectionsTypeOK, RecordsAgree, BoundSocketsAreDone
  <2> QED
    BY <2>1, <2>2, CountersStay DEF ConnectionsInv, OneSocketPerTicket, TicketsFresh
<1>4. CASE lets
  <2>1. /\ ticketState' = [ticketState EXCEPT ![t] = "gone"]
        /\ place' = [place EXCEPT ![a] = "pending"]
        /\ record' = [record EXCEPT ![s] = a]
        /\ unauthByIp' = [unauthByIp EXCEPT ![ip] = @ - 1]
        /\ authByIp' = [authByIp EXCEPT ![ip] = @ + 1]
        /\ activeUsers' = [activeUsers EXCEPT ![a] = s]
        /\ admittedBy' = [admittedBy EXCEPT ![t] = @ \cup {s}]
        /\ auth' = [auth EXCEPT ![s] = "admitted"]
    BY <1>1, <1>4 DEF Authenticate, Consumed
  <2>2. /\ ticketState[t] = "live" /\ place[a] \in {"held", "away"} /\ record[s] = Nobody
        /\ activeUsers[a] = Nobody
    BY <1>4 DEF CanAuthenticate, Admits
  <2> HIDE DEF t, a, ip, lets
  <2>3. admittedBy' = [admittedBy EXCEPT ![t] = {s}]
    BY <1>1, <1>2, <2>1, <2>2 DEF ConnectionsInv, TicketsFresh, ConnectionsTypeOK
  <2>4. OneSocketPerTicket'
    <3>1. Cardinality({s}) = 1
      BY FS_Singleton
    <3> QED
      BY <1>1, <1>2, <2>3, <3>1 DEF ConnectionsInv, OneSocketPerTicket, ConnectionsTypeOK
  <2>5. TicketsFresh'
    BY <1>1, <1>2, <2>1, <2>3 DEF ConnectionsInv, TicketsFresh, ConnectionsTypeOK
  <2>6. RecordsAgree'
    BY <1>1, <1>2, <2>1, <2>2 DEF ConnectionsInv, RecordsAgree, ConnectionsTypeOK, t, a, Nobody
  <2>7. BoundSocketsAreDone'
    BY <1>1, <1>2, <2>1, <2>2 DEF ConnectionsInv, BoundSocketsAreDone, ConnectionsTypeOK
  <2>8. /\ \A i \in Ip : unauthByIp[i] = Cardinality(Unknown(i)) /\ authByIp[i] = Cardinality(Known(i))
        /\ \A b \in Actor : {q \in Socket : record[q] = b} = {activeUsers[b]} \ {Nobody}
    BY Counters DEF ConnectionsInv
  <2>9. \A i \in Ip : /\ Unknown(i)' = IF i = ip THEN Unknown(i) \ {s} ELSE Unknown(i)
                      /\ Known(i)' = IF i = ip THEN Known(i) \cup {s} ELSE Known(i)
    BY <1>1, <1>2, <2>1, <2>2 DEF Unknown, Known, ConnectionsTypeOK, ip
  <2>10. s \in Unknown(ip) /\ s \notin Known(ip)
    BY <2>2 DEF Unknown, Known, ip
  <2>11. \A i \in Ip : Unknown(i) \in SUBSET Socket /\ Known(i) \in SUBSET Socket
    BY DEF Unknown, Known
  <2>12. /\ Cardinality(Unknown(ip) \ {s}) = Cardinality(Unknown(ip)) - 1
         /\ Cardinality(Known(ip) \cup {s}) = Cardinality(Known(ip)) + 1
         /\ Cardinality(Unknown(ip) \ {s}) \in Nat
    BY <1>1, <2>10, <2>11, SocketsCounted
  <2>13. /\ unauthByIp' \in [Ip -> Nat] /\ authByIp' \in [Ip -> Nat]
         /\ \A i \in Ip : unauthByIp'[i] = Cardinality(Unknown(i)') /\ authByIp'[i] = Cardinality(Known(i)')
    <3>1. unauthByIp[ip] - 1 \in Nat /\ authByIp[ip] + 1 \in Nat
      BY <1>1, <1>2, <2>8, <2>12 DEF ConnectionsTypeOK
    <3>2. unauthByIp' \in [Ip -> Nat] /\ authByIp' \in [Ip -> Nat]
      BY <1>1, <1>2, <2>1, <3>1 DEF ConnectionsTypeOK
    <3>3. ASSUME NEW i \in Ip PROVE unauthByIp'[i] = Cardinality(Unknown(i)')
      <4>1. unauthByIp'[i] = IF i = ip THEN unauthByIp[ip] - 1 ELSE unauthByIp[i]
        BY <1>2, <2>1 DEF ConnectionsTypeOK
      <4> QED
        BY <1>1, <2>8, <2>9, <2>12, <4>1
    <3>4. ASSUME NEW i \in Ip PROVE authByIp'[i] = Cardinality(Known(i)')
      <4>1. authByIp'[i] = IF i = ip THEN authByIp[ip] + 1 ELSE authByIp[i]
        BY <1>2, <2>1 DEF ConnectionsTypeOK
      <4> QED
        BY <1>1, <2>8, <2>9, <2>12, <4>1
    <3> QED
      BY <3>2, <3>3, <3>4
  <2>14. ASSUME NEW b \in Actor
         PROVE  {q \in Socket : record'[q] = b} = {activeUsers'[b]} \ {Nobody}
    <3>1. CASE b = a
      <4>1. {q \in Socket : record[q] = a} = {}
        BY <1>1, <2>2, <2>8
      <4> QED
        BY <1>1, <1>2, <2>1, <3>1, <4>1 DEF ConnectionsTypeOK
    <3>2. CASE b # a
      <4>1. {q \in Socket : record'[q] = b} = {q \in Socket : record[q] = b}
        BY <1>2, <2>1, <2>2, <3>2 DEF ConnectionsTypeOK
      <4> QED
        BY <1>1, <1>2, <2>1, <2>8, <3>2, <4>1 DEF ConnectionsTypeOK
    <3> QED
      BY <3>1, <3>2
  <2>15. CountersMatchTheSockets'
    BY <2>13, <2>14 DEF CountersMatchTheSockets, Unknown, Known, Ip
  <2>16. ConnectionsTypeOK'
    BY <1>1, <1>2, <2>1, <2>3, <2>13 DEF ConnectionsTypeOK
  <2> QED
    BY <2>4, <2>5, <2>6, <2>7, <2>15, <2>16 DEF ConnectionsInv
<1> QED
  BY <1>3, <1>4

\* The handler binds the seat to a socket that is open and is still its user's.
LEMMA AnswerStep ==
  ASSUME ConnectionsInv, NEW s \in Socket, Answer(s)
  PROVE  ConnectionsInv'
<1> USE ConnectionsAssumption
<1> DEFINE a == OwnerOf[presented[s]]
           lets == auth[s] = "admitted" /\ StillOpen(s)
           binds == lets /\ place[a] = "pending"
<1>1. /\ auth[s] \in {"admitted", "refused"} /\ presented[s] \in Ticket /\ a \in Actor
      /\ auth' = [auth EXCEPT ![s] = IF lets THEN "done" ELSE "idle"]
      /\ presented' = IF lets THEN presented ELSE [presented EXCEPT ![s] = Nobody]
      /\ ready' = [ready EXCEPT ![s] = IF ready[s] = "open" /\ ~binds THEN "closing" ELSE ready[s]]
      /\ place' = [place EXCEPT ![a] = IF binds THEN "bound" ELSE place[a]]
      /\ boundTo' = [boundTo EXCEPT ![a] = IF binds THEN s ELSE boundTo[a]]
      /\ UNCHANGED <<record, ticketState, reserved, admittedBy, unauthByIp, authByIp, activeUsers>>
  BY DEF Answer, ConnectionsInv, RecordsAgree, ipVars
<1>2. ConnectionsTypeOK /\ RecordsAgree /\ BoundSocketsAreDone
  BY DEF ConnectionsInv
<1>3. lets => ready[s] = "open" /\ auth[s] = "admitted"
  BY DEF StillOpen
<1>4. binds => lets /\ place[a] = "pending"
  OBVIOUS
<1>5. ready[s] # "unused"
  BY <1>1, <1>2 DEF RecordsAgree
<1>6. presented[s] \in Ticket /\ OwnerOf[presented[s]] = a
  BY <1>1
<1> HIDE DEF a, lets, binds
<1>7. ConnectionsTypeOK'
  BY <1>1, <1>2 DEF ConnectionsTypeOK
<1>8. RecordsAgree'
  <2> SUFFICES ASSUME NEW q \in Socket
               PROVE  /\ ready'[q] \in {"unused", "closed"} => record'[q] = "none"
                      /\ ready'[q] = "unused" => auth'[q] = "idle"
                      /\ auth'[q] # "idle" => presented'[q] \in Ticket
                      /\ auth'[q] \in {"admitted", "done"} /\ ready'[q] # "closed" =>
                           record'[q] = OwnerOf[presented'[q]]
    BY DEF RecordsAgree
  <2>1. CASE q # s
    <3>1. ready'[q] = ready[q] /\ auth'[q] = auth[q] /\ presented'[q] = presented[q] /\ record'[q] = record[q]
      BY <1>1, <1>2, <2>1 DEF ConnectionsTypeOK
    <3> QED
      BY <1>2, <3>1 DEF RecordsAgree
  <2>2. CASE q = s
    <3>1. /\ ready'[s] = IF ready[s] = "open" /\ ~binds THEN "closing" ELSE ready[s]
          /\ auth'[s] = IF lets THEN "done" ELSE "idle"
          /\ lets => presented'[s] = presented[s]
          /\ record'[s] = record[s]
      BY <1>1, <1>2 DEF ConnectionsTypeOK
    <3> QED
      BY <1>2, <1>3, <1>5, <1>6, <2>2, <3>1 DEF RecordsAgree
  <2> QED
    BY <2>1, <2>2
<1>9. BoundSocketsAreDone'
  <2> SUFFICES ASSUME NEW c \in Actor, place'[c] = "bound"
               PROVE  /\ boundTo'[c] \in Socket /\ auth'[boundTo'[c]] = "done"
                      /\ OwnerOf[presented'[boundTo'[c]]] = c /\ ready'[boundTo'[c]] \in {"open", "closing"}
    BY DEF BoundSocketsAreDone
  <2>1. CASE binds /\ c = a
    <3>1. boundTo'[c] = s /\ auth'[s] = "done" /\ presented'[s] = presented[s] /\ ready'[s] = "open"
      BY <1>1, <1>2, <1>3, <1>4, <2>1 DEF ConnectionsTypeOK
    <3> QED
      BY <1>6, <2>1, <3>1
  <2>2. CASE ~(binds /\ c = a)
    <3>1. place[c] = "bound" /\ boundTo'[c] = boundTo[c]
      BY <1>1, <1>2, <2>2 DEF ConnectionsTypeOK
    <3>2. /\ boundTo[c] \in Socket /\ auth[boundTo[c]] = "done" /\ boundTo[c] # s
          /\ OwnerOf[presented[boundTo[c]]] = c /\ ready[boundTo[c]] \in {"open", "closing"}
      BY <1>1, <1>2, <3>1 DEF BoundSocketsAreDone
    <3>3. /\ auth'[boundTo[c]] = auth[boundTo[c]] /\ presented'[boundTo[c]] = presented[boundTo[c]]
          /\ ready'[boundTo[c]] = ready[boundTo[c]]
      BY <1>1, <1>2, <3>2 DEF ConnectionsTypeOK
    <3> QED
      BY <3>1, <3>2, <3>3
  <2> QED
    BY <2>1, <2>2
<1> QED
  BY <1>1, <1>7, <1>8, <1>9, CountersStay DEF ConnectionsInv, OneSocketPerTicket, TicketsFresh

\* The close event gives back what the socket had, the seat included.
LEMMA CloseStep ==
  ASSUME ConnectionsInv, NEW s \in Socket, CloseEvent(s)
  PROVE  ConnectionsInv'
<1> USE ConnectionsAssumption
<1> DEFINE ip == IpOf[s]
           a == OwnerOf[presented[s]]
           leaves == auth[s] = "done" /\ boundTo[a] = s
<1>1. /\ ready[s] \in {"open", "closing"} /\ ip \in Ip
      /\ ready' = [ready EXCEPT ![s] = "closed"] /\ record' = [record EXCEPT ![s] = "none"]
      /\ unauthByIp' = [unauthByIp EXCEPT ![ip] = IF record[s] = Nobody THEN @ - 1 ELSE @]
      /\ authByIp' = [authByIp EXCEPT ![ip] = IF record[s] \in Actor THEN @ - 1 ELSE @]
      /\ activeUsers' = UserFreed(s)
      /\ place' = IF leaves THEN [place EXCEPT ![a] = "away"] ELSE place
      /\ boundTo' = IF leaves THEN [boundTo EXCEPT ![a] = Nobody] ELSE boundTo
      /\ UNCHANGED <<auth, presented, ticketState, reserved, admittedBy>>
  BY DEF CloseEvent, Ip
<1>2. ConnectionsTypeOK /\ RecordsAgree /\ BoundSocketsAreDone
  BY DEF ConnectionsInv
<1>3. leaves => a \in Actor
  BY <1>2 DEF RecordsAgree
<1>4. ASSUME NEW c \in Actor, place[c] = "bound", boundTo[c] = s PROVE leaves /\ c = a
  BY <1>2, <1>4 DEF BoundSocketsAreDone
<1> HIDE DEF a, leaves, ip
<1>5. RecordsAgree'
  BY <1>1, <1>2 DEF RecordsAgree, ConnectionsTypeOK
<1>6. BoundSocketsAreDone'
  <2> SUFFICES ASSUME NEW c \in Actor, place'[c] = "bound"
               PROVE  /\ boundTo'[c] \in Socket /\ auth'[boundTo'[c]] = "done"
                      /\ OwnerOf[presented'[boundTo'[c]]] = c /\ ready'[boundTo'[c]] \in {"open", "closing"}
    BY DEF BoundSocketsAreDone
  <2>1. place[c] = "bound" /\ ~(leaves /\ c = a)
    BY <1>1, <1>2, <1>3 DEF ConnectionsTypeOK
  <2>2. boundTo'[c] = boundTo[c] /\ boundTo[c] # s
    BY <1>1, <1>2, <1>3, <1>4, <2>1 DEF ConnectionsTypeOK
  <2> QED
    BY <1>1, <1>2, <2>1, <2>2 DEF BoundSocketsAreDone, ConnectionsTypeOK
<1>7. /\ \A i \in Ip : unauthByIp[i] = Cardinality(Unknown(i)) /\ authByIp[i] = Cardinality(Known(i))
      /\ \A b \in Actor : {q \in Socket : record[q] = b} = {activeUsers[b]} \ {Nobody}
  BY Counters DEF ConnectionsInv
<1>8. \A i \in Ip : /\ Unknown(i)' = Unknown(i) \ {s} /\ Known(i)' = Known(i) \ {s}
                    /\ i # ip => s \notin Unknown(i) /\ s \notin Known(i)
                    /\ Unknown(i) \in SUBSET Socket /\ Known(i) \in SUBSET Socket
  BY <1>1, <1>2 DEF Unknown, Known, ConnectionsTypeOK, ip, Nobody
<1>9. (s \in Unknown(ip) <=> record[s] = Nobody) /\ (s \in Known(ip) <=> record[s] \in Actor)
  BY DEF Unknown, Known, ip
<1>10. ASSUME NEW i \in Ip
       PROVE  /\ unauthByIp'[i] = Cardinality(Unknown(i)') /\ authByIp'[i] = Cardinality(Known(i)')
              /\ Cardinality(Unknown(i)') \in Nat /\ Cardinality(Known(i)') \in Nat
  <2>1. /\ s \in Unknown(i) => Cardinality(Unknown(i) \ {s}) = Cardinality(Unknown(i)) - 1
        /\ s \notin Unknown(i) => Unknown(i) \ {s} = Unknown(i)
        /\ s \in Known(i) => Cardinality(Known(i) \ {s}) = Cardinality(Known(i)) - 1
        /\ s \notin Known(i) => Known(i) \ {s} = Known(i)
        /\ Cardinality(Unknown(i) \ {s}) \in Nat /\ Cardinality(Known(i) \ {s}) \in Nat
    BY <1>8, SocketsCounted
  <2>2. unauthByIp'[i] = IF s \in Unknown(i) THEN unauthByIp[i] - 1 ELSE unauthByIp[i]
    BY <1>1, <1>2, <1>8, <1>9 DEF ConnectionsTypeOK
  <2>3. authByIp'[i] = IF s \in Known(i) THEN authByIp[i] - 1 ELSE authByIp[i]
    BY <1>1, <1>2, <1>8, <1>9 DEF ConnectionsTypeOK
  <2> QED
    BY <1>7, <1>8, <2>1, <2>2, <2>3
<1>11. ASSUME NEW b \in Actor
       PROVE  {q \in Socket : record'[q] = b} = {activeUsers'[b]} \ {Nobody}
  <2>1. activeUsers'[b] = IF record[s] = b /\ activeUsers[b] = s THEN Nobody ELSE activeUsers[b]
    BY <1>1 DEF UserFreed
  <2>2. {q \in Socket : record'[q] = b} = {q \in Socket : record[q] = b} \ {s}
    BY <1>1, <1>2 DEF ConnectionsTypeOK
  <2>3. {q \in Socket : record[q] = b} = {activeUsers[b]} \ {Nobody}
    BY <1>7
  <2>4. record[s] = b => activeUsers[b] = s
    BY <2>3
  <2>5. activeUsers[b] = s => record[s] = b
    BY <2>3
  <2> QED
    BY <2>1, <2>2, <2>3, <2>4, <2>5
<1>12. CountersMatchTheSockets'
  BY <1>10, <1>11 DEF CountersMatchTheSockets, Unknown, Known, Ip
<1>13. ConnectionsTypeOK'
  <2>1. activeUsers' \in [Actor -> Socket \cup {Nobody}]
    BY <1>1, <1>2 DEF UserFreed, ConnectionsTypeOK
  <2>2. unauthByIp' \in [Ip -> Nat] /\ authByIp' \in [Ip -> Nat]
    BY <1>1, <1>2, <1>10 DEF ConnectionsTypeOK
  <2>3. place' \in [Actor -> {"none", "held", "pending", "bound", "away"}]
        /\ boundTo' \in [Actor -> Socket \cup {Nobody}]
    BY <1>1, <1>2, <1>3 DEF ConnectionsTypeOK
  <2> QED
    BY <1>1, <1>2, <2>1, <2>2, <2>3 DEF ConnectionsTypeOK
<1> QED
  BY <1>1, <1>5, <1>6, <1>12, <1>13 DEF ConnectionsInv, TicketsFresh, OneSocketPerTicket

\* For any number of sockets, users and tickets: a ticket lets one socket in, a bound
\* seat has its socket, and the limits count what is connected (ws-transport.ts,
\* connection-manager.ts, ticket-store.ts).
THEOREM SocketsAccounted == ConnectionsSpec => []SocketsAreAccountedFor
<1>1. ConnectionsInv /\ [ConnectionsNext]_connectionVars => ConnectionsInv'
  BY SeatSteps, SocketSteps, AcceptStep, AuthenticateStep, AnswerStep, CloseStep DEF ConnectionsNext
<1>2. ConnectionsInv => SocketsAreAccountedFor
  <2> SUFFICES ASSUME ConnectionsInv PROVE BoundSeatsHaveTheirSocket
    BY DEF ConnectionsInv, SocketsAreAccountedFor
  <2> QED
    BY DEF ConnectionsInv, BoundSeatsHaveTheirSocket, BoundSocketsAreDone, RecordsAgree
<1> QED
  BY <1>1, <1>2, ConnectionsInvInit, PTL DEF ConnectionsSpec

-----------------------------------------------------------------------------
(* The packet limiter.                                                       *)

\* Window i is one in which the abusive threshold was passed.
Flooded(i) == recent[i] > RateBound * AbusiveFactor

\* The types of the limiter.
RateTypeOK ==
  /\ bucket \in [age : 0 .. 2, count : Nat, abusive : BOOLEAN, streak : Nat]
  /\ verdict \in [allowed : BOOLEAN, open : BOOLEAN]
  /\ recent \in [1 .. AbusiveWindows -> Nat]

\* What the bucket knows of the windows: its own count, whether it was passed, and
\* how many windows before the current one, without a gap, were. A bucket that is
\* two windows old knows that the two last ones were quiet.
BucketKnows ==
  /\ bucket.age = 0 => bucket.count = recent[1] /\ (bucket.abusive <=> Flooded(1))
  /\ bucket.age # 0 => recent[1] = 0
  /\ bucket.age = 1 /\ AbusiveWindows > 1 => (bucket.abusive <=> Flooded(2))
  /\ bucket.age = 2 /\ AbusiveWindows > 1 => recent[2] = 0
  /\ bucket.age = 0 /\ bucket.abusive =>
       \A j \in 1 .. AbusiveWindows : bucket.streak >= j <=> \A i \in 1 .. j : Flooded(i)
  /\ bucket.age = 0 /\ ~bucket.abusive =>
       \A j \in 1 .. AbusiveWindows - 1 : bucket.streak >= j <=> \A i \in 2 .. j + 1 : Flooded(i)
  /\ bucket.age = 1 /\ bucket.abusive =>
       \A j \in 1 .. AbusiveWindows - 1 : bucket.streak >= j <=> \A i \in 2 .. j + 1 : Flooded(i)

\* The inductive invariant of the limiter.
RateInv == RateTypeOK /\ BucketKnows /\ OnlyFloodsAreClosed

\* The threshold is a number.
LEMMA Threshold == RateBound * AbusiveFactor \in Nat \ {0} /\ AbusiveWindows \in Nat \ {0}
<1>1. RateBound \in Nat \ {0} /\ AbusiveFactor \in Nat \ {0} /\ AbusiveWindows \in Nat \ {0}
  BY RateLimitAssumption
<1> QED
  BY <1>1

\* No packet was seen when the limiter starts.
LEMMA RateInvInit == RateInit => RateInv
<1> SUFFICES ASSUME RateInit PROVE RateInv
  OBVIOUS
<1> DEFINE T == RateBound * AbusiveFactor
<1>1. T \in Nat \ {0} /\ AbusiveWindows \in Nat \ {0}
  BY Threshold
<1>2. \A i : Flooded(i) <=> recent[i] > T
  BY DEF Flooded
<1>3. OnlyFloodsAreClosed <=> (~verdict.open <=> \A i \in 1 .. AbusiveWindows : recent[i] > T)
  BY DEF OnlyFloodsAreClosed
<1> HIDE DEF T
<1>4. RateTypeOK
  BY <1>1 DEF RateInit, RateTypeOK, NoBucket
<1>5. BucketKnows
  BY <1>1, <1>2 DEF RateInit, BucketKnows, NoBucket
<1>6. OnlyFloodsAreClosed
  BY <1>1, <1>3 DEF RateInit
<1> QED
  BY <1>4, <1>5, <1>6 DEF RateInv

\* What check begins with: a bucket of this window that knows the windows before it.
LEMMA CurrentKnows ==
  ASSUME RateInv, NEW due \in BOOLEAN, NEW b, b = CurrentBucket(Swept(bucket, due))
  PROVE  /\ b \in [age : 0 .. 2, count : Nat, abusive : BOOLEAN, streak : Nat]
         /\ b.count = recent[1] /\ (b.abusive <=> Flooded(1))
         /\ b.abusive =>
              \A j \in 1 .. AbusiveWindows : b.streak >= j <=> \A i \in 1 .. j : Flooded(i)
         /\ ~b.abusive =>
              \A j \in 1 .. AbusiveWindows - 1 : b.streak >= j <=> \A i \in 2 .. j + 1 : Flooded(i)
<1>1. AbusiveWindows \in Nat \ {0} /\ RateTypeOK /\ BucketKnows
  BY Threshold DEF RateInv
<1>2. \A i \in 1 .. AbusiveWindows : recent[i] = 0 => ~Flooded(i)
  <2>1. RateBound * AbusiveFactor \in Nat
    BY Threshold
  <2> HIDE DEF Flooded
  <2> QED
    BY <2>1 DEF Flooded
<1> HIDE DEF Flooded
<1>3. CASE bucket.age = 0
  <2>1. b = bucket
    BY <1>3, <1>1 DEF CurrentBucket, Swept
  <2> QED
    BY <1>1, <1>3, <2>1 DEF RateTypeOK, BucketKnows
<1>4. CASE bucket.age = 1
  <2>1. b = [age |-> 0, count |-> 0, abusive |-> FALSE,
             streak |-> IF bucket.abusive THEN bucket.streak ELSE 0]
    BY <1>4, <1>1 DEF CurrentBucket, Swept, Streak
  <2>2. b.count = 0 /\ ~b.abusive /\ b.streak = IF bucket.abusive THEN bucket.streak ELSE 0
    BY <2>1
  <2>3. b \in [age : 0 .. 2, count : Nat, abusive : BOOLEAN, streak : Nat]
    BY <1>1, <2>1 DEF RateTypeOK
  <2>4. ASSUME NEW j \in 1 .. AbusiveWindows - 1
        PROVE  b.streak >= j <=> \A i \in 2 .. j + 1 : Flooded(i)
    <3>1. CASE bucket.abusive
      BY <1>1, <1>4, <2>2, <3>1 DEF BucketKnows
    <3>2. CASE ~bucket.abusive
      <4>1. ~Flooded(2) /\ 2 \in 2 .. j + 1
        BY <1>1, <1>4, <3>2 DEF BucketKnows
      <4>2. ~(0 >= j)
        BY <1>1
      <4> QED
        BY <2>2, <3>2, <4>1, <4>2
    <3> QED
      BY <3>1, <3>2
  <2>5. recent[1] = 0 /\ ~Flooded(1)
    BY <1>1, <1>2, <1>4 DEF BucketKnows
  <2> QED
    BY <2>2, <2>3, <2>4, <2>5
<1>5. CASE bucket.age = 2
  <2>1. b = [age |-> 0, count |-> 0, abusive |-> FALSE, streak |-> 0]
    <3>1. Swept(bucket, due).age = 2
      BY <1>5 DEF Swept, NoBucket
    <3> QED
      BY <3>1 DEF CurrentBucket, Streak
  <2>2. b.count = 0 /\ ~b.abusive /\ b.streak = 0
    BY <2>1
  <2>3. b \in [age : 0 .. 2, count : Nat, abusive : BOOLEAN, streak : Nat]
    BY <2>1
  <2>4. ASSUME NEW j \in 1 .. AbusiveWindows - 1
        PROVE  b.streak >= j <=> \A i \in 2 .. j + 1 : Flooded(i)
    <3>1. ~Flooded(2) /\ 2 \in 2 .. j + 1
      BY <1>1, <1>2, <1>5 DEF BucketKnows
    <3>2. ~(0 >= j)
      BY <1>1
    <3> QED
      BY <2>2, <3>1, <3>2
  <2>5. recent[1] = 0 /\ ~Flooded(1)
    BY <1>1, <1>2, <1>5 DEF BucketKnows
  <2> QED
    BY <2>2, <2>3, <2>4, <2>5
<1>6. bucket.age \in {0, 1, 2}
  BY <1>1 DEF RateTypeOK
<1> QED
  BY <1>3, <1>4, <1>5, <1>6

\* check counts the packet, and closes the connection exactly when this window makes
\* the row of flooded windows complete.
LEMMA CheckStep ==
  ASSUME RateInv, NEW due \in BOOLEAN, CheckPacket(due)
  PROVE  RateInv'
<1> DEFINE T == RateBound * AbusiveFactor
           b == CurrentBucket(Swept(bucket, due))
           count == b.count + 1
           abusive == count > T
           streak == IF abusive /\ ~b.abusive THEN b.streak + 1 ELSE b.streak
           flood == abusive /\ streak >= AbusiveWindows
<1>1. T \in Nat \ {0} /\ AbusiveWindows \in Nat \ {0}
  BY Threshold
<1>2. /\ b \in [age : 0 .. 2, count : Nat, abusive : BOOLEAN, streak : Nat]
      /\ b.count = recent[1] /\ (b.abusive <=> Flooded(1))
      /\ b.abusive =>
           \A j \in 1 .. AbusiveWindows : b.streak >= j <=> \A i \in 1 .. j : Flooded(i)
      /\ ~b.abusive =>
           \A j \in 1 .. AbusiveWindows - 1 : b.streak >= j <=> \A i \in 2 .. j + 1 : Flooded(i)
  BY CurrentKnows
<1>3. /\ bucket' = [age |-> 0, count |-> count, abusive |-> b.abusive \/ abusive, streak |-> streak]
      /\ verdict' = [allowed |-> count <= RateBound, open |-> ~flood]
      /\ recent' = [recent EXCEPT ![1] = @ + 1]
  BY DEF CheckPacket
<1>4. recent \in [1 .. AbusiveWindows -> Nat] /\ 1 \in 1 .. AbusiveWindows
  BY <1>1 DEF RateInv, RateTypeOK
<1>5. \A i : (Flooded(i) <=> recent[i] > T) /\ (Flooded(i)' <=> recent'[i] > T)
  BY DEF Flooded
<1>6. OnlyFloodsAreClosed' <=> (~verdict'.open <=> \A i \in 1 .. AbusiveWindows : Flooded(i)')
  BY DEF OnlyFloodsAreClosed, Flooded
<1> HIDE DEF T, b, Flooded
<1>7. recent'[1] = count /\ \A i \in 2 .. AbusiveWindows : recent'[i] = recent[i]
  BY <1>2, <1>3, <1>4
<1>8. (Flooded(1)' <=> abusive) /\ \A i \in 2 .. AbusiveWindows : Flooded(i)' <=> Flooded(i)
  BY <1>5, <1>7
<1>9. b.abusive => abusive
  BY <1>1, <1>2, <1>4, <1>5
<1>10. streak \in Nat /\ count \in Nat
  BY <1>2
<1>11. RateTypeOK'
  BY <1>2, <1>3, <1>4, <1>10 DEF RateTypeOK
<1>12. abusive => \A j \in 1 .. AbusiveWindows : streak >= j <=> \A i \in 1 .. j : Flooded(i)'
  <2> SUFFICES ASSUME abusive, NEW j \in 1 .. AbusiveWindows
               PROVE  streak >= j <=> \A i \in 1 .. j : Flooded(i)'
    OBVIOUS
  <2>1. (\A i \in 1 .. j : Flooded(i)') <=> (\A i \in 2 .. j : Flooded(i))
    BY <1>1, <1>8
  <2>2. CASE b.abusive
    <3>1. Flooded(1) /\ streak = b.streak
      BY <1>2, <2>2
    <3>2. b.streak >= j <=> \A i \in 1 .. j : Flooded(i)
      BY <1>2, <2>2
    <3>3. (\A i \in 1 .. j : Flooded(i)) <=> (\A i \in 2 .. j : Flooded(i))
      BY <3>1
    <3> QED
      BY <2>1, <3>1, <3>2, <3>3
  <2>3. CASE ~b.abusive
    <3>1. streak = b.streak + 1 /\ b.streak \in Nat
      BY <1>2, <2>3
    <3>2. CASE j = 1
      BY <2>1, <3>1, <3>2
    <3>3. CASE j # 1
      <4>1. j - 1 \in 1 .. AbusiveWindows - 1 /\ (j - 1) + 1 = j
        BY <1>1, <3>3
      <4>2. b.streak >= j - 1 <=> \A i \in 2 .. j : Flooded(i)
        BY <1>2, <2>3, <4>1
      <4> QED
        BY <2>1, <3>1, <4>1, <4>2
    <3> QED
      BY <3>2, <3>3
  <2> QED
    BY <2>2, <2>3
<1>13. ~abusive => \A j \in 1 .. AbusiveWindows - 1 : streak >= j <=> \A i \in 2 .. j + 1 : Flooded(i)'
  <2> SUFFICES ASSUME ~abusive, NEW j \in 1 .. AbusiveWindows - 1
               PROVE  streak >= j <=> \A i \in 2 .. j + 1 : Flooded(i)'
    OBVIOUS
  <2>1. ~b.abusive /\ streak = b.streak
    BY <1>9
  <2>2. b.streak >= j <=> \A i \in 2 .. j + 1 : Flooded(i)
    BY <1>2, <2>1
  <2>3. \A i \in 2 .. j + 1 : i \in 2 .. AbusiveWindows
    BY <1>1
  <2> QED
    BY <1>8, <2>1, <2>2, <2>3
<1> HIDE DEF count, streak
<1>14. /\ bucket'.age = 0 /\ bucket'.count = count /\ bucket'.streak = streak
       /\ bucket'.abusive <=> abusive
  BY <1>3, <1>9
<1>15. BucketKnows'
  BY <1>7, <1>8, <1>12, <1>13, <1>14 DEF BucketKnows
<1>16. verdict'.open <=> ~flood
  BY <1>3
<1>17. flood <=> \A i \in 1 .. AbusiveWindows : Flooded(i)'
  <2>1. AbusiveWindows \in 1 .. AbusiveWindows
    BY <1>1
  <2>2. (\A i \in 1 .. AbusiveWindows : Flooded(i)') => abusive
    BY <1>4, <1>8
  <2> QED
    BY <1>12, <2>1, <2>2
<1> QED
  BY <1>6, <1>11, <1>15, <1>16, <1>17 DEF RateInv

\* The next window: what was this one's is now the one before.
LEMMA WindowStep ==
  ASSUME RateInv, NextWindow
  PROVE  RateInv'
<1> DEFINE T == RateBound * AbusiveFactor
           next == IF bucket.age < 2 THEN bucket.age + 1 ELSE 2
<1>1. T \in Nat \ {0} /\ AbusiveWindows \in Nat \ {0}
  BY Threshold
<1>2. RateTypeOK /\ BucketKnows
  BY DEF RateInv
<1>3. /\ verdict.open /\ verdict' = verdict
      /\ bucket' = [bucket EXCEPT !.age = next]
      /\ recent' = [i \in 1 .. AbusiveWindows |-> IF i = 1 THEN 0 ELSE recent[i - 1]]
  BY DEF NextWindow
<1>4. \A i : (Flooded(i) <=> recent[i] > T) /\ (Flooded(i)' <=> recent'[i] > T)
  BY DEF Flooded
<1>5. OnlyFloodsAreClosed' <=> (~verdict'.open <=> \A i \in 1 .. AbusiveWindows : Flooded(i)')
  BY DEF OnlyFloodsAreClosed, Flooded
<1> HIDE DEF T, Flooded
<1>6. next \in 1 .. 2 /\ (next = 1 <=> bucket.age = 0)
  BY <1>2 DEF RateTypeOK
<1> HIDE DEF next
<1>7. /\ bucket'.age = next /\ bucket'.abusive = bucket.abusive /\ bucket'.streak = bucket.streak
      /\ bucket' \in [age : 0 .. 2, count : Nat, abusive : BOOLEAN, streak : Nat]
  BY <1>2, <1>3, <1>6 DEF RateTypeOK
<1>8. recent' \in [1 .. AbusiveWindows -> Nat]
  BY <1>1, <1>2, <1>3 DEF RateTypeOK
<1>9. recent'[1] = 0 /\ ~Flooded(1)' /\ 1 \in 1 .. AbusiveWindows
  <2>1. recent'[1] = 0 /\ 1 \in 1 .. AbusiveWindows
    BY <1>1, <1>3
  <2>2. Flooded(1)' <=> recent'[1] > T
    BY <1>4
  <2> QED
    BY <1>1, <2>1, <2>2
<1>10. \A i \in 2 .. AbusiveWindows : recent'[i] = recent[i - 1] /\ (Flooded(i)' <=> Flooded(i - 1))
  <2> SUFFICES ASSUME NEW i \in 2 .. AbusiveWindows
               PROVE  recent'[i] = recent[i - 1] /\ (Flooded(i)' <=> Flooded(i - 1))
    OBVIOUS
  <2>1. recent'[i] = recent[i - 1]
    BY <1>1, <1>3
  <2>2. (Flooded(i - 1) <=> recent[i - 1] > T) /\ (Flooded(i)' <=> recent'[i] > T)
    BY <1>4
  <2> QED
    BY <2>1, <2>2
<1>11. RateTypeOK'
  BY <1>2, <1>3, <1>7, <1>8 DEF RateTypeOK
<1>12. ASSUME bucket'.age = 1, AbusiveWindows > 1 PROVE bucket'.abusive <=> Flooded(2)'
  BY <1>1, <1>2, <1>6, <1>7, <1>10, <1>12 DEF BucketKnows
<1>13. ASSUME bucket'.age = 2, AbusiveWindows > 1 PROVE recent'[2] = 0
  BY <1>1, <1>2, <1>6, <1>7, <1>10, <1>13 DEF BucketKnows
<1>14. ASSUME bucket'.age = 1, bucket'.abusive, NEW j \in 1 .. AbusiveWindows - 1
       PROVE  bucket'.streak >= j <=> \A i \in 2 .. j + 1 : Flooded(i)'
  <2>1. bucket.age = 0 /\ bucket.abusive /\ j \in 1 .. AbusiveWindows
    BY <1>1, <1>6, <1>7, <1>14
  <2>2. bucket.streak >= j <=> \A i \in 1 .. j : Flooded(i)
    BY <1>2, <2>1 DEF BucketKnows
  <2>3. (\A i \in 2 .. j + 1 : Flooded(i)') => \A i \in 1 .. j : Flooded(i)
    <3> SUFFICES ASSUME \A i \in 2 .. j + 1 : Flooded(i)', NEW i \in 1 .. j PROVE Flooded(i)
      OBVIOUS
    <3>1. i + 1 \in 2 .. j + 1 /\ i + 1 \in 2 .. AbusiveWindows /\ (i + 1) - 1 = i
      BY <1>1
    <3> QED
      BY <1>10, <3>1
  <2>4. (\A i \in 1 .. j : Flooded(i)) => \A i \in 2 .. j + 1 : Flooded(i)'
    <3> SUFFICES ASSUME \A i \in 1 .. j : Flooded(i), NEW i \in 2 .. j + 1 PROVE Flooded(i)'
      OBVIOUS
    <3>1. i - 1 \in 1 .. j /\ i \in 2 .. AbusiveWindows
      BY <1>1
    <3> QED
      BY <1>10, <3>1
  <2> QED
    BY <1>7, <2>2, <2>3, <2>4
<1>15. BucketKnows'
  BY <1>6, <1>7, <1>9, <1>12, <1>13, <1>14 DEF BucketKnows
<1> QED
  BY <1>3, <1>5, <1>9, <1>11, <1>15 DEF RateInv

\* For every limit, factor and number of windows: a connection is closed exactly when
\* each of the last windows passed the abusive threshold (rate-limit.ts check, sweep).
THEOREM FloodsOnly == RateSpec => []OnlyFloodsAreClosed
<1>1. ASSUME RateInv, UNCHANGED rateVars PROVE RateInv'
  BY <1>1 DEF rateVars, RateInv, RateTypeOK, BucketKnows, Flooded, OnlyFloodsAreClosed
<1>2. RateInv /\ [RateNext]_rateVars => RateInv'
  BY <1>1, CheckStep, WindowStep DEF RateNext
<1>3. RateInv => OnlyFloodsAreClosed
  BY DEF RateInv
<1> QED
  BY <1>2, <1>3, RateInvInit, PTL DEF RateSpec

-----------------------------------------------------------------------------
(* Maps: functions of a tick.                                               *)

\* A number that has a property has a least one that has it.
LEMMA LeastOf ==
  ASSUME NEW some \in SUBSET Nat, some # {}
  PROVE  \E n \in some : \A m \in some : n <= m
<1>1. PICK n \in some : \A m \in some : ~ (<<m, n>> \in OpToRel(<, Nat))
  BY WFMin, NatLessThanWellFounded, Zenon
<1>2. \A m \in some : ~ (m < n)
  BY <1>1 DEF OpToRel
<1> QED
  BY <1>2

\* Ticks that hold the first, and with each tick the next, are all there are.
LEMMA AllTicks ==
  ASSUME NEW E \in Nat, NEW good \in SUBSET (0 .. E), 0 \in good,
         \A t \in 1 .. E : t - 1 \in good => t \in good
  PROVE  good = 0 .. E
<1> SUFFICES ASSUME NEW some \in 0 .. E, some \notin good PROVE FALSE
  OBVIOUS
<1>1. PICK bad : bad = {t \in 0 .. E : t \notin good}
  OBVIOUS
<1>2. bad \in SUBSET Nat /\ bad # {}
  BY <1>1
<1>3. PICK n \in bad : \A m \in bad : n <= m
  BY <1>2, LeastOf
<1>4. n \in 0 .. E /\ n \notin good
  BY <1>1
<1>5. n \in 1 .. E /\ n - 1 \in 0 .. E
  BY <1>4
<1>6. n - 1 \in good
  BY <1>1, <1>3, <1>5
<1> QED
  BY <1>4, <1>5, <1>6

\* A function of the ticks that begins with a and goes on by g.
Stepwise(f, E, S, a, g) ==
  /\ f \in [0 .. E -> S] /\ f[0] = a
  /\ \A t \in 1 .. E : f[t] = g[t][f[t - 1]]

\* A first value and a step make a function of the ticks.
LEMMA StepByStep ==
  ASSUME NEW E \in Nat, NEW S, NEW a \in S, NEW g \in [1 .. E -> [S -> S]]
  PROVE  \E f : Stepwise(f, E, S, a, g)
<1> DEFINE upTo(n) == \E f \in [0 .. n -> S] : f[0] = a /\ \A t \in 1 .. n : f[t] = g[t][f[t - 1]]
           good == {n \in 0 .. E : upTo(n)}
<1>1. 0 \in good
  <2>1. PICK f : f = [t \in 0 .. 0 |-> a]
    OBVIOUS
  <2>2. f \in [0 .. 0 -> S] /\ f[0] = a
    BY <2>1
  <2>3. \A t \in 1 .. 0 : f[t] = g[t][f[t - 1]]
    OBVIOUS
  <2> QED
    BY <2>2, <2>3
<1>2. ASSUME NEW n \in 1 .. E, n - 1 \in good PROVE n \in good
  <2>1. PICK f \in [0 .. n - 1 -> S] : f[0] = a /\ \A t \in 1 .. n - 1 : f[t] = g[t][f[t - 1]]
    BY <1>2
  <2>2. PICK h : h = [t \in 0 .. n |-> IF t = n THEN g[n][f[n - 1]] ELSE f[t]]
    OBVIOUS
  <2>3. n - 1 \in 0 .. n - 1 /\ f[n - 1] \in S
    BY <2>1
  <2>4. g[n] \in [S -> S]
    OBVIOUS
  <2>5. g[n][f[n - 1]] \in S
    BY <2>3, <2>4
  <2>6. h \in [0 .. n -> S]
    <3>1. \A t \in 0 .. n : t # n => t \in 0 .. n - 1
      OBVIOUS
    <3> QED
      BY <2>1, <2>2, <2>5, <3>1
  <2>7. h[0] = a
    BY <2>1, <2>2
  <2>8. ASSUME NEW t \in 1 .. n PROVE h[t] = g[t][h[t - 1]]
    <3>1. t - 1 \in 0 .. n /\ t - 1 # n /\ t \in 0 .. n
      OBVIOUS
    <3>2. h[t - 1] = f[t - 1]
      BY <2>2, <3>1
    <3>3. CASE t = n
      BY <2>2, <3>1, <3>2, <3>3
    <3>4. CASE t # n
      <4>1. t \in 1 .. n - 1
        BY <3>4
      <4> QED
        BY <2>1, <2>2, <3>1, <3>2, <3>4, <4>1
    <3> QED
      BY <3>3, <3>4
  <2> QED
    BY <2>6, <2>7, <2>8
<1> HIDE DEF good
<1>3. good = 0 .. E
  <2>1. good \in SUBSET (0 .. E)
    BY DEF good
  <2> QED
    BY <1>1, <1>2, <2>1, AllTicks
<1> QED
  BY <1>3 DEF good, Stepwise

\* A function that begins in a set and whose every step stays there.
LEMMA StaysIn ==
  ASSUME NEW E \in Nat, NEW S, NEW f, f[0] \in S, \A t \in 1 .. E : f[t - 1] \in S => f[t] \in S
  PROVE  \A t \in 0 .. E : f[t] \in S
<1>1. PICK good : good = {t \in 0 .. E : f[t] \in S}
  OBVIOUS
<1>2. good \in SUBSET (0 .. E) /\ 0 \in good
  BY <1>1
<1>3. ASSUME NEW t \in 1 .. E, t - 1 \in good PROVE t \in good
  <2>1. f[t - 1] \in S /\ t \in 0 .. E
    BY <1>1, <1>3
  <2> QED
    BY <1>1, <2>1
<1>4. good = 0 .. E
  BY <1>2, <1>3, AllTicks
<1> QED
  BY <1>1, <1>4

-----------------------------------------------------------------------------
(* Maps: the three programs, tick by tick.                                  *)

\* A step of the editor's simulate, of what a cell is.
ShownStep(m, p, t, before) ==
  LET due == Due(m.cells[p], t)
      timed == IF due # {} /\ InTime(m, p, t) THEN m.cells[p].changes[Farthest(due)][2] ELSE before
  IN IF AtTheEdge(m, p, t) /\ Physics[timed] \in Breaks THEN lastTile(m.cells[p]) ELSE timed

\* What simulate computes.
LEMMA SimulateIs ==
  ASSUME NEW m, NEW p, NEW S, StormEnds(m) \in Nat, m.cells[p].start \in S,
         \A t \in 1 .. StormEnds(m), b \in S : ShownStep(m, p, t, b) \in S
  PROVE  /\ \A t \in 0 .. StormEnds(m) : simulate(m, p)[t] \in S
         /\ simulate(m, p)[0] = m.cells[p].start
         /\ \A t \in 1 .. StormEnds(m) : simulate(m, p)[t] = ShownStep(m, p, t, simulate(m, p)[t - 1])
<1> DEFINE E == StormEnds(m)
           a == m.cells[p].start
           Step(t, b) == ShownStep(m, p, t, b)
           IsIt(f) == f = [t \in 0 .. E |-> IF t = 0 THEN a ELSE Step(t, f[t - 1])]
<1>1. simulate(m, p) = CHOOSE f : IsIt(f)
  BY DEF simulate, ShownStep
<1>2. E \in Nat /\ a \in S /\ \A t \in 1 .. E, b \in S : Step(t, b) \in S
  OBVIOUS
<1> HIDE DEF E, a, Step
<1>3. PICK g : g = [t \in 1 .. E |-> [b \in S |-> Step(t, b)]]
  OBVIOUS
<1>4. g \in [1 .. E -> [S -> S]]
  BY <1>2, <1>3
<1>5. PICK h : h \in [0 .. E -> S] /\ h[0] = a /\ \A t \in 1 .. E : h[t] = g[t][h[t - 1]]
  <2>1. \E h : Stepwise(h, E, S, a, g)
    BY <1>2, <1>4, StepByStep, Zenon
  <2> QED
    BY <2>1 DEF Stepwise
<1>6. ASSUME NEW t \in 0 .. E PROVE h[t] = IF t = 0 THEN a ELSE Step(t, h[t - 1])
  <2>1. CASE t = 0
    BY <1>5, <2>1
  <2>2. CASE t # 0
    <3>1. t \in 1 .. E /\ t - 1 \in 0 .. E
      BY <1>2, <2>2
    <3>2. h[t - 1] \in S
      BY <1>5, <3>1
    <3> QED
      BY <1>3, <1>5, <2>2, <3>1, <3>2
  <2> QED
    BY <2>1, <2>2
<1>7. IsIt(h)
  BY <1>5, <1>6
<1>8. PICK f : f = simulate(m, p)
  OBVIOUS
<1>9. IsIt(f)
  <2> HIDE DEF IsIt
  <2> QED
    BY <1>1, <1>7, <1>8
<1>10. f[0] = a
  BY <1>2, <1>9
<1>11. \A t \in 1 .. E : f[t] = Step(t, f[t - 1])
  BY <1>2, <1>9
<1>12. \A t \in 0 .. E : f[t] \in S
  <2>1. f[0] \in S /\ \A t \in 1 .. E : f[t - 1] \in S => f[t] \in S
    BY <1>2, <1>10, <1>11
  <2> QED
    BY <1>2, <2>1, StaysIn, Zenon
<1> QED
  BY <1>8, <1>10, <1>11, <1>12 DEF E, a, Step

\* A step of the builder, of a cell's tile and what the timeline says of it.
BuiltStep(m, p, t, prev) ==
  LET cell == m.cells[p]
      due == Due(cell, t)
      now == due # {} /\ InTime(m, p, t)
      earlier == due \ {Farthest(due)}
      from == IF earlier # {} THEN cell.changes[Farthest(earlier)][2] ELSE prev.tile
      timed == IF now THEN cell.changes[Farthest(due)][2] ELSE prev.tile
  IN IF p \in checking_index(m, t) /\ Physics[timed] \in Breaks
     THEN [tile |-> lastTile(cell),
           change |-> IF ~now THEN lastTile(cell) ELSE IF from = lastTile(cell) THEN Untouched ELSE Bursts]
     ELSE [tile |-> timed, change |-> IF now THEN timed ELSE Untouched]

\* What builder.py computes.
LEMMA BuilderIs ==
  ASSUME NEW m, NEW p, NEW S, StormEnds(m) \in Nat, [tile |-> m.cells[p].start, change |-> Untouched] \in S,
         \A t \in 1 .. StormEnds(m), b \in S : BuiltStep(m, p, t, b) \in S
  PROVE  /\ \A t \in 0 .. StormEnds(m) : BuilderCell(m, p)[t] \in S
         /\ BuilderCell(m, p)[0] = [tile |-> m.cells[p].start, change |-> Untouched]
         /\ \A t \in 1 .. StormEnds(m) : BuilderCell(m, p)[t] = BuiltStep(m, p, t, BuilderCell(m, p)[t - 1])
<1> DEFINE E == StormEnds(m)
           a == [tile |-> m.cells[p].start, change |-> Untouched]
           Step(t, b) == BuiltStep(m, p, t, b)
           IsIt(f) == f = [t \in 0 .. E |-> IF t = 0 THEN a ELSE Step(t, f[t - 1])]
<1>1. BuilderCell(m, p) = CHOOSE f : IsIt(f)
  BY DEF BuilderCell, BuiltStep
<1>2. E \in Nat /\ a \in S /\ \A t \in 1 .. E, b \in S : Step(t, b) \in S
  OBVIOUS
<1> HIDE DEF E, a, Step
<1>3. PICK g : g = [t \in 1 .. E |-> [b \in S |-> Step(t, b)]]
  OBVIOUS
<1>4. g \in [1 .. E -> [S -> S]]
  BY <1>2, <1>3
<1>5. PICK h : h \in [0 .. E -> S] /\ h[0] = a /\ \A t \in 1 .. E : h[t] = g[t][h[t - 1]]
  <2>1. \E h : Stepwise(h, E, S, a, g)
    BY <1>2, <1>4, StepByStep, Zenon
  <2> QED
    BY <2>1 DEF Stepwise
<1>6. ASSUME NEW t \in 0 .. E PROVE h[t] = IF t = 0 THEN a ELSE Step(t, h[t - 1])
  <2>1. CASE t = 0
    BY <1>5, <2>1
  <2>2. CASE t # 0
    <3>1. t \in 1 .. E /\ t - 1 \in 0 .. E
      BY <1>2, <2>2
    <3>2. h[t - 1] \in S
      BY <1>5, <3>1
    <3> QED
      BY <1>3, <1>5, <2>2, <3>1, <3>2
  <2> QED
    BY <2>1, <2>2
<1>7. IsIt(h)
  BY <1>5, <1>6
<1>8. PICK f : f = BuilderCell(m, p)
  OBVIOUS
<1>9. IsIt(f)
  <2> HIDE DEF IsIt
  <2> QED
    BY <1>1, <1>7, <1>8
<1>10. f[0] = a
  BY <1>2, <1>9
<1>11. \A t \in 1 .. E : f[t] = Step(t, f[t - 1])
  BY <1>2, <1>9
<1>12. \A t \in 0 .. E : f[t] \in S
  <2>1. f[0] \in S /\ \A t \in 1 .. E : f[t - 1] \in S => f[t] \in S
    BY <1>2, <1>10, <1>11
  <2> QED
    BY <1>2, <2>1, StaysIn, Zenon
<1> QED
  BY <1>8, <1>10, <1>11, <1>12 DEF E, a, Step

\* What the timeline changes of a cell in a tick.
PlayedStep(b, p, t, before) ==
  LET now == {c \in b.timeline : c[1] = t /\ c[2] = p} IN
  IF now = {} THEN before ELSE (CHOOSE c \in now : TRUE)[3]

\* What a game computes.
LEMMA PlayIs ==
  ASSUME NEW b, NEW p, NEW E \in Nat, NEW S, b.initial[p] \in S,
         \A t \in 1 .. E, k \in S : PlayedStep(b, p, t, k) \in S
  PROVE  /\ applyMapTimeline(b, p, E)[0] = b.initial[p]
         /\ \A t \in 1 .. E : applyMapTimeline(b, p, E)[t] = PlayedStep(b, p, t, applyMapTimeline(b, p, E)[t - 1])
<1> DEFINE a == b.initial[p]
           Step(t, k) == PlayedStep(b, p, t, k)
           IsIt(f) == f = [t \in 0 .. E |-> IF t = 0 THEN a ELSE Step(t, f[t - 1])]
<1>1. applyMapTimeline(b, p, E) = CHOOSE f : IsIt(f)
  BY DEF applyMapTimeline, PlayedStep
<1>2. a \in S /\ \A t \in 1 .. E, k \in S : Step(t, k) \in S
  OBVIOUS
<1> HIDE DEF a, Step
<1>3. PICK g : g = [t \in 1 .. E |-> [k \in S |-> Step(t, k)]]
  OBVIOUS
<1>4. g \in [1 .. E -> [S -> S]]
  BY <1>2, <1>3
<1>5. PICK h : h \in [0 .. E -> S] /\ h[0] = a /\ \A t \in 1 .. E : h[t] = g[t][h[t - 1]]
  <2>1. \E h : Stepwise(h, E, S, a, g)
    BY <1>2, <1>4, StepByStep, Zenon
  <2> QED
    BY <2>1 DEF Stepwise
<1>6. ASSUME NEW t \in 0 .. E PROVE h[t] = IF t = 0 THEN a ELSE Step(t, h[t - 1])
  <2>1. CASE t = 0
    BY <1>5, <2>1
  <2>2. CASE t # 0
    <3>1. t \in 1 .. E /\ t - 1 \in 0 .. E
      BY <2>2
    <3>2. h[t - 1] \in S
      BY <1>5, <3>1
    <3> QED
      BY <1>3, <1>5, <2>2, <3>1, <3>2
  <2> QED
    BY <2>1, <2>2
<1>7. IsIt(h)
  BY <1>5, <1>6
<1>8. PICK f : f = applyMapTimeline(b, p, E)
  OBVIOUS
<1>9. IsIt(f)
  <2> HIDE DEF IsIt
  <2> QED
    BY <1>1, <1>7, <1>8
<1>10. f[0] = a
  BY <1>9
<1>11. \A t \in 1 .. E : f[t] = Step(t, f[t - 1])
  BY <1>9
<1> QED
  BY <1>8, <1>10, <1>11 DEF a, Step

-----------------------------------------------------------------------------
(* Maps: cells, rings and ends.                                             *)

Tile == DOMAIN Physics
Cell == [start : Tile, changes : Seq((Nat \cup {-1}) \X Tile)]

\* Tiles are the numbers of setting.json, and none of them is one of the builder's marks.
LEMMA Tiles ==
  /\ Tile = 0 .. 4 /\ \A n \in Tile : Physics[n] \in 0 .. 3
  /\ Untouched \notin Tile /\ Bursts \notin Tile /\ Untouched # Bursts
BY DEF Tile, Physics, Untouched, Bursts

\* The last of some positions.
LEMMA FarthestOf ==
  ASSUME NEW n \in Nat, NEW some \in SUBSET (1 .. n), some # {}
  PROVE  Farthest(some) \in some /\ \A k \in some : Farthest(some) >= k
<1>1. PICK back : back = {j \in 0 .. n : n - j \in some}
  OBVIOUS
<1>2. PICK s \in some : TRUE
  OBVIOUS
<1>3. s \in 1 .. n /\ n - (n - s) = s /\ n - s \in 0 .. n
  OBVIOUS
<1>4. back \in SUBSET Nat /\ back # {}
  <2>1. n - s \in back
    BY <1>1, <1>3
  <2> QED
    BY <1>1, <2>1
<1>5. PICK j \in back : \A i \in back : j <= i
  BY <1>4, LeastOf
<1>6. n - j \in some /\ j \in 0 .. n
  BY <1>1
<1>7. ASSUME NEW k \in some PROVE n - j >= k
  <2>1. k \in 1 .. n /\ n - (n - k) = k /\ n - k \in 0 .. n
    OBVIOUS
  <2>2. n - k \in back
    BY <1>1, <2>1
  <2> QED
    BY <1>5, <1>6, <2>1, <2>2
<1> QED
  BY <1>6, <1>7 DEF Farthest

\* The change that counts in a tick is one of the cell's, and so is the one before it.
LEMMA DueOfCell ==
  ASSUME NEW cell \in Cell, NEW t
  PROVE  /\ lastTile(cell) \in Tile /\ cell.start \in Tile
         /\ \A some \in SUBSET Due(cell, t) :
              some # {} => Farthest(some) \in some /\ cell.changes[Farthest(some)][2] \in Tile
<1>1. PICK s : s = cell.changes
  OBVIOUS
<1>2. s \in Seq((Nat \cup {-1}) \X Tile) /\ cell.start \in Tile
  BY <1>1 DEF Cell
<1>3. \A i \in 1 .. Len(s) : s[i][2] \in Tile
  BY <1>2
<1>4. Len(s) \in Nat /\ DOMAIN s = 1 .. Len(s) /\ (s # <<>> => Len(s) \in 1 .. Len(s))
  BY <1>2
<1>5. lastTile(cell) \in Tile
  BY <1>1, <1>2, <1>3, <1>4 DEF lastTile
<1>6. ASSUME NEW some \in SUBSET Due(cell, t), some # {}
      PROVE  Farthest(some) \in some /\ cell.changes[Farthest(some)][2] \in Tile
  <2>1. some \in SUBSET (1 .. Len(s))
    BY <1>1, <1>4 DEF Due
  <2>2. Farthest(some) \in some
    BY <1>4, <1>6, <2>1, FarthestOf
  <2> QED
    BY <1>1, <1>3, <2>1, <2>2
<1> QED
  BY <1>2, <1>5, <1>6

\* Quotients of numbers are numbers.
LEMMA Quotients ==
  ASSUME NEW a \in Nat, NEW b \in Nat \ {0}
  PROVE  a \div b \in Nat
OBVIOUS

\* The storm ends, and reaches a ring.
LEMMA StormIsANumber ==
  ASSUME NEW m, m.size \in Nat \ {0}, m.barrier \in Nat \ {0}
  PROVE  StormEnds(m) \in Nat /\ \A t \in Nat : (t * m.barrier) \div TileSize + 1 \in Nat \ {0}
<1>1. TileSize \in Nat \ {0}
  BY MapToolsAssumption
<1>2. m.size * TileSize \in Nat /\ 2 * m.barrier \in Nat \ {0}
  BY <1>1
<1>3. m.size * TileSize + 2 * m.barrier - 1 \in Nat
  BY <1>2
<1>4. StormEnds(m) \in Nat
  BY <1>2, <1>3, Quotients DEF StormEnds
<1>5. ASSUME NEW t \in Nat PROVE (t * m.barrier) \div TileSize + 1 \in Nat \ {0}
  <2>1. t * m.barrier \in Nat
    OBVIOUS
  <2>2. (t * m.barrier) \div TileSize \in Nat
    BY <1>1, <2>1, Quotients
  <2> QED
    BY <2>2
<1> QED
  BY <1>4, <1>5

\* The four sides that the builder checks are the ring that the editor checks.
LEMMA SidesAreTheRing ==
  ASSUME NEW m, m.size \in Nat \ {0}, m.barrier \in Nat \ {0}, NEW p \in Spots(m.size), NEW t \in Nat
  PROVE  p \in checking_index(m, t) <=> AtTheEdge(m, p, t)
<1>1. PICK n, d, x, y : n = m.size /\ d = (t * m.barrier) \div TileSize + 1 /\ x = p[1] /\ y = p[2]
  OBVIOUS
<1>2. n \in Nat /\ d \in Nat /\ x \in 0 .. n - 1 /\ y \in 0 .. n - 1 /\ p = <<x, y>>
  BY <1>1, StormIsANumber DEF Spots
<1>3. AtTheEdge(m, p, t) <=> RingOf(p, n) = d
  BY <1>1 DEF AtTheEdge
<1>4. RingOf(p, n) = d <=>
        /\ d <= x /\ d <= y /\ d <= n - x - 1 /\ d <= n - y - 1
        /\ d = x \/ d = y \/ d = n - x - 1 \/ d = n - y - 1
  BY <1>1, <1>2 DEF RingOf, Smallest
<1>5. p \in checking_index(m, t) <=>
        \E k \in d .. n - d - 1 :
          p \in {<<d, k>>, <<n - d - 1, k>>, <<k, d>>, <<k, n - d - 1>>}
  BY <1>1 DEF checking_index
<1>6. ASSUME NEW k \in d .. n - d - 1, p \in {<<d, k>>, <<n - d - 1, k>>, <<k, d>>, <<k, n - d - 1>>}
      PROVE  RingOf(p, n) = d
  <2>1. /\ k \in Int /\ d <= k /\ k <= n - d - 1
        /\ \/ x = d /\ y = k
           \/ x = n - d - 1 /\ y = k
           \/ x = k /\ y = d
           \/ x = k /\ y = n - d - 1
    BY <1>2, <1>6
  <2> QED
    BY <1>2, <1>4, <2>1
<1>7. ASSUME RingOf(p, n) = d
      PROVE  \E k \in d .. n - d - 1 : p \in {<<d, k>>, <<n - d - 1, k>>, <<k, d>>, <<k, n - d - 1>>}
  <2>1. /\ d <= x /\ d <= y /\ x <= n - d - 1 /\ y <= n - d - 1
        /\ x = d \/ y = d \/ x = n - d - 1 \/ y = n - d - 1
    BY <1>2, <1>4, <1>7
  <2>2. x \in d .. n - d - 1 /\ y \in d .. n - d - 1
    BY <1>2, <2>1
  <2> QED
    BY <1>2, <2>1, <2>2
<1> QED
  BY <1>3, <1>5, <1>6, <1>7

-----------------------------------------------------------------------------
(* Maps: what is built plays as it is shown.                                *)

\* A map whose cells and storm are sound.
CellsOK(m) ==
  /\ m.size \in Nat \ {0} /\ m.cells \in [Spots(m.size) -> Cell]

\* What the builder may say of a cell.
Line == [tile : Tile, change : Tile \cup {Untouched, Bursts}]

\* A step of the editor, and of the builder, gives a tile.
LEMMA StepsGiveTiles ==
  ASSUME NEW m, CellsOK(m), NEW p \in Spots(m.size), NEW t
  PROVE  /\ \A b \in Tile : ShownStep(m, p, t, b) \in Tile
         /\ \A b \in Line : BuiltStep(m, p, t, b) \in Line
<1>1. PICK cell : cell = m.cells[p]
  OBVIOUS
<1>2. cell \in Cell
  BY <1>1 DEF CellsOK
<1>3. PICK due : due = Due(cell, t)
  OBVIOUS
<1>4. /\ lastTile(cell) \in Tile
      /\ due # {} => cell.changes[Farthest(due)][2] \in Tile
  BY <1>2, <1>3, DueOfCell
<1>5. ASSUME NEW b \in Tile PROVE ShownStep(m, p, t, b) \in Tile
  BY <1>1, <1>3, <1>4 DEF ShownStep
<1>6. ASSUME NEW b \in Line PROVE BuiltStep(m, p, t, b) \in Line
  <2>1. PICK timed : timed = IF due # {} /\ InTime(m, p, t) THEN cell.changes[Farthest(due)][2] ELSE b.tile
    OBVIOUS
  <2>2. timed \in Tile
    BY <1>4, <2>1 DEF Line
  <2>3. \E c \in Tile \cup {Untouched, Bursts}, k \in Tile : BuiltStep(m, p, t, b) = [tile |-> k, change |-> c]
    BY <1>1, <1>3, <1>4, <2>1, <2>2 DEF BuiltStep
  <2> QED
    BY <2>3 DEF Line
<1> QED
  BY <1>5, <1>6

\* The builder's tile is the editor's.
LEMMA BuilderFollowsTheEditor ==
  ASSUME NEW m, CellsOK(m), m.barrier \in Nat \ {0}, NEW p \in Spots(m.size), NEW t \in 0 .. StormEnds(m)
  PROVE  BuilderCell(m, p)[t] \in Line /\ BuilderCell(m, p)[t].tile = simulate(m, p)[t]
<1>1. PICK E, shown, built : E = StormEnds(m) /\ shown = simulate(m, p) /\ built = BuilderCell(m, p)
  OBVIOUS
<1>2. E \in Nat
  BY <1>1, StormIsANumber DEF CellsOK
<1>3. m.cells[p].start \in Tile /\ [tile |-> m.cells[p].start, change |-> Untouched] \in Line
  BY DEF CellsOK, Cell, Line
<1>4. /\ \A k \in 0 .. E : shown[k] \in Tile
      /\ shown[0] = m.cells[p].start
      /\ \A k \in 1 .. E : shown[k] = ShownStep(m, p, k, shown[k - 1])
  BY <1>1, <1>2, <1>3, StepsGiveTiles, SimulateIs
<1>5. /\ \A k \in 0 .. E : built[k] \in Line
      /\ built[0] = [tile |-> m.cells[p].start, change |-> Untouched]
      /\ \A k \in 1 .. E : built[k] = BuiltStep(m, p, k, built[k - 1])
  BY <1>1, <1>2, <1>3, StepsGiveTiles, BuilderIs
<1>6. PICK good : good = {k \in 0 .. E : built[k].tile = shown[k]}
  OBVIOUS
<1>7. good \in SUBSET (0 .. E) /\ 0 \in good
  BY <1>2, <1>4, <1>5, <1>6
<1>8. ASSUME NEW k \in 1 .. E, k - 1 \in good PROVE k \in good
  <2>1. PICK prev, before : prev = built[k - 1] /\ before = shown[k - 1]
    OBVIOUS
  <2>2. prev.tile = before
    BY <1>6, <1>8, <2>1
  <2>3. p \in checking_index(m, k) <=> AtTheEdge(m, p, k)
    BY SidesAreTheRing, <1>2 DEF CellsOK
  <2>4. BuiltStep(m, p, k, prev).tile = ShownStep(m, p, k, before)
    BY <2>2, <2>3 DEF BuiltStep, ShownStep
  <2> QED
    BY <1>4, <1>5, <1>6, <2>1, <2>4
<1>9. good = 0 .. E
  BY <1>2, <1>7, <1>8, AllTicks
<1> QED
  BY <1>1, <1>5, <1>6, <1>9

\* What the timeline says of a cell in a tick is what the builder found to change.
LEMMA TimelineOfACell ==
  ASSUME NEW m, NEW p \in Spots(m.size), NEW t \in 1 .. StormEnds(m), NEW k, k = BuilderCell(m, p)[t].change
  PROVE  {c \in Bundle(m).timeline : c[1] = t /\ c[2] = p} = IF k = Untouched THEN {} ELSE {<<t, p, Physics[k]>>}
<1> DEFINE Row(q) == {<<j, BuilderCell(m, q)[j].change>> : j \in 1 .. StormEnds(m)}
           Told(q) == {<<c[1], q, Physics[c[2]]>> : c \in {d \in Row(q) : d[2] # Untouched}}
<1>1. Bundle(m).timeline = UNION {Told(q) : q \in Spots(m.size)}
  BY DEF Bundle
<1>2. \A q \in Spots(m.size) : \A c \in Told(q) :
        \E j \in 1 .. StormEnds(m) : /\ BuilderCell(m, q)[j].change # Untouched
                                     /\ c = <<j, q, Physics[BuilderCell(m, q)[j].change]>>
  OBVIOUS
<1>3. ASSUME k # Untouched PROVE <<t, p, Physics[k]>> \in Told(p)
  <2>1. <<t, k>> \in Row(p) /\ <<t, k>>[1] = t /\ <<t, k>>[2] = k
    OBVIOUS
  <2> QED
    BY <1>3, <2>1
<1> HIDE DEF Told
<1>4. ASSUME NEW c \in Bundle(m).timeline, c[1] = t, c[2] = p
      PROVE  k # Untouched /\ c = <<t, p, Physics[k]>>
  <2>1. PICK q \in Spots(m.size) : c \in Told(q)
    BY <1>1, <1>4
  <2>2. PICK j \in 1 .. StormEnds(m) : /\ BuilderCell(m, q)[j].change # Untouched
                                       /\ c = <<j, q, Physics[BuilderCell(m, q)[j].change]>>
    BY <1>2, <2>1
  <2>3. j = t /\ q = p
    BY <1>4, <2>2
  <2> QED
    BY <2>2, <2>3
<1>5. k # Untouched => <<t, p, Physics[k]>> \in Bundle(m).timeline
  BY <1>1, <1>3
<1> QED
  BY <1>4, <1>5

\* Unless a tick has two changes of a cell, a cell of which the builder says nothing
\* keeps its tile, and what the builder says is the tile.
LEMMA WhatIsSaid ==
  ASSUME NEW m, CellsOK(m), NEW p \in Spots(m.size), OneChangeATick(m.cells[p]), NEW t, NEW prev \in Line,
         NEW next, next = BuiltStep(m, p, t, prev), next.change # Bursts
  PROVE  next.tile = IF next.change = Untouched THEN prev.tile ELSE next.change
<1>1. PICK cell, due : cell = m.cells[p] /\ due = Due(cell, t)
  OBVIOUS
<1>2. cell \in Cell /\ OneChangeATick(cell)
  BY <1>1 DEF CellsOK
<1>3. /\ lastTile(cell) \in Tile
      /\ due # {} => cell.changes[Farthest(due)][2] \in Tile /\ Farthest(due) \in due
  BY <1>1, <1>2, DueOfCell
<1>4. due # {} => due \ {Farthest(due)} = {}
  BY <1>1, <1>2, <1>3 DEF OneChangeATick, Due
<1>5. PICK now : now = (due # {} /\ InTime(m, p, t))
  OBVIOUS
<1>6. PICK timed : timed = IF now THEN cell.changes[Farthest(due)][2] ELSE prev.tile
  OBVIOUS
<1>7. timed \in Tile /\ prev.tile \in Tile /\ Untouched \notin Tile /\ Untouched # Bursts
  BY <1>3, <1>5, <1>6, Tiles DEF Line
<1>8. CASE p \in checking_index(m, t) /\ Physics[timed] \in Breaks
  <2>1. CASE now
    <3>1. next = [tile |-> lastTile(cell),
                  change |-> IF prev.tile = lastTile(cell) THEN Untouched ELSE Bursts]
      BY <1>1, <1>4, <1>5, <1>6, <1>8, <2>1 DEF BuiltStep
    <3> QED
      BY <3>1
  <2>2. CASE ~now
    <3>1. next = [tile |-> lastTile(cell), change |-> lastTile(cell)]
      BY <1>1, <1>5, <1>6, <1>8, <2>2 DEF BuiltStep
    <3> QED
      BY <1>3, <1>7, <3>1
  <2> QED
    BY <2>1, <2>2
<1>9. CASE ~(p \in checking_index(m, t) /\ Physics[timed] \in Breaks)
  <2>1. next = [tile |-> timed, change |-> IF now THEN timed ELSE Untouched]
    BY <1>1, <1>5, <1>6, <1>9 DEF BuiltStep
  <2> QED
    BY <1>6, <1>7, <2>1
<1> QED
  BY <1>8, <1>9

\* A map the builder took, but for cells with two changes in a tick, is played as built.
LEMMA PlayFollowsTheBuilder ==
  ASSUME NEW m, CellsOK(m), m.barrier \in Nat \ {0}, NEW p \in Spots(m.size), OneChangeATick(m.cells[p]),
         \A t \in 1 .. StormEnds(m) : BuilderCell(m, p)[t].change # Bursts,
         NEW t \in 0 .. StormEnds(m)
  PROVE  applyMapTimeline(Bundle(m), p, StormEnds(m))[t] = Physics[BuilderCell(m, p)[t].tile]
<1>1. PICK E, b, built, play :
        /\ E = StormEnds(m) /\ b = Bundle(m) /\ built = BuilderCell(m, p)
        /\ play = applyMapTimeline(b, p, E)
  OBVIOUS
<1>2. E \in Nat
  BY <1>1, StormIsANumber DEF CellsOK
<1>3. m.cells[p].start \in Tile /\ [tile |-> m.cells[p].start, change |-> Untouched] \in Line
  BY DEF CellsOK, Cell, Line
<1>4. /\ \A k \in 0 .. E : built[k] \in Line
      /\ built[0] = [tile |-> m.cells[p].start, change |-> Untouched]
      /\ \A k \in 1 .. E : built[k] = BuiltStep(m, p, k, built[k - 1])
  BY <1>1, <1>2, <1>3, StepsGiveTiles, BuilderIs
<1>5. b.initial[p] = Physics[m.cells[p].start] /\ b.initial[p] \in 0 .. 3
  BY <1>1, <1>3, Tiles DEF Bundle
<1>6. ASSUME NEW k \in 1 .. E, NEW before
      PROVE  PlayedStep(b, p, k, before)
               = IF built[k].change = Untouched THEN before ELSE Physics[built[k].change]
  <2>1. PICK c : c = built[k].change
    OBVIOUS
  <2>2. {d \in b.timeline : d[1] = k /\ d[2] = p} = IF c = Untouched THEN {} ELSE {<<k, p, Physics[c]>>}
    BY <1>1, <2>1, TimelineOfACell
  <2>3. PICK now : now = {d \in b.timeline : d[1] = k /\ d[2] = p}
    OBVIOUS
  <2>4. PlayedStep(b, p, k, before) = IF now = {} THEN before ELSE (CHOOSE d \in now : TRUE)[3]
    BY <2>3 DEF PlayedStep
  <2>5. CASE c = Untouched
    BY <2>1, <2>2, <2>3, <2>4, <2>5
  <2>6. CASE c # Untouched
    <3>1. now = {<<k, p, Physics[c]>>}
      BY <2>2, <2>3, <2>6
    <3>2. (CHOOSE d \in now : TRUE) = <<k, p, Physics[c]>>
      BY <3>1
    <3> QED
      BY <2>1, <2>4, <2>6, <3>1, <3>2
  <2> QED
    BY <2>5, <2>6
<1>7. \A k \in 1 .. E, before \in 0 .. 3 : PlayedStep(b, p, k, before) \in 0 .. 3
  <2> SUFFICES ASSUME NEW k \in 1 .. E, NEW before \in 0 .. 3 PROVE PlayedStep(b, p, k, before) \in 0 .. 3
    OBVIOUS
  <2>1. k \in 0 .. E /\ built[k].change # Bursts
    BY <1>1
  <2>2. built[k].change \in Tile \cup {Untouched}
    BY <1>4, <2>1 DEF Line
  <2> QED
    BY <1>6, <2>2, Tiles
<1>8. play[0] = b.initial[p] /\ \A k \in 1 .. E : play[k] = PlayedStep(b, p, k, play[k - 1])
  <2>1. PICK S : S = 0 .. 3
    OBVIOUS
  <2>2. E \in Nat /\ b.initial[p] \in S /\ \A k \in 1 .. E, before \in S : PlayedStep(b, p, k, before) \in S
    BY <1>2, <1>5, <1>7, <2>1
  <2>3. /\ applyMapTimeline(b, p, E)[0] = b.initial[p]
        /\ \A k \in 1 .. E : applyMapTimeline(b, p, E)[k] = PlayedStep(b, p, k, applyMapTimeline(b, p, E)[k - 1])
    BY <2>2, PlayIs
  <2> QED
    BY <1>1, <2>3
<1>9. PICK good : good = {k \in 0 .. E : play[k] = Physics[built[k].tile]}
  OBVIOUS
<1>10. good \in SUBSET (0 .. E) /\ 0 \in good
  BY <1>2, <1>4, <1>5, <1>8, <1>9
<1>11. ASSUME NEW k \in 1 .. E, k - 1 \in good PROVE k \in good
  <2>1. play[k - 1] = Physics[built[k - 1].tile] /\ k - 1 \in 0 .. E /\ k \in 0 .. E
    BY <1>9, <1>11
  <2>2. PICK prev, next : prev = built[k - 1] /\ next = built[k]
    OBVIOUS
  <2>3. prev \in Line /\ next \in Line /\ next = BuiltStep(m, p, k, prev) /\ next.change # Bursts
    BY <1>1, <1>4, <2>1, <2>2
  <2>4. next.tile = IF next.change = Untouched THEN prev.tile ELSE next.change
    BY <2>3, WhatIsSaid
  <2>5. play[k] = IF next.change = Untouched THEN Physics[prev.tile] ELSE Physics[next.change]
    BY <1>6, <1>8, <2>1, <2>2
  <2>6. play[k] = Physics[next.tile]
    BY <2>4, <2>5
  <2> QED
    BY <1>9, <2>1, <2>2, <2>6
<1>12. good = 0 .. E
  BY <1>2, <1>10, <1>11, AllTicks
<1> QED
  BY <1>1, <1>9, <1>12

-----------------------------------------------------------------------------
(* Maps: what is taken by the builder is taken by the loader.               *)

Marker == [kind : MarkerKinds, at : Nat \X Nat]
Zone == [kind : ZoneKinds, at : Nat \X Nat, width : Nat \ {0}, height : Nat \ {0}]

\* Cells of a map of some size; a map's first file; a map; what undo remembers of it.
Grid == UNION {[Spots(n) -> Cell] : n \in Nat \ {0}}
MapHeader == [size : Nat \ {0}, barrier : Nat, markers : Seq(Marker), zones : Seq(Zone)]
AnyMap == [size : Nat \ {0}, barrier : Nat, markers : Seq(Marker), zones : Seq(Zone), cells : Grid]
IsMap(m) == m \in AnyMap /\ DOMAIN m.cells = Spots(m.size)
AnyLayers == [size : Nat \ {0}, cells : Grid, markers : Seq(Marker), zones : Seq(Zone)]
IsLayers(l) == l \in AnyLayers /\ DOMAIN l.cells = Spots(l.size)

\* A grid is its cells.
LEMMA GridOfCells ==
  ASSUME NEW c \in Grid
  PROVE  c \in [DOMAIN c -> Cell]
BY DEF Grid

\* Cells of a size are a grid.
LEMMA CellsOfGrid ==
  ASSUME NEW n \in Nat \ {0}, NEW c \in [Spots(n) -> Cell]
  PROVE  c \in Grid /\ DOMAIN c = Spots(n)
BY DEF Grid

\* A map has a cell for every spot, with tiles and changes there are.
LEMMA MapHasCells ==
  ASSUME NEW m, IsMap(m)
  PROVE  CellsOK(m) /\ m.cells \in [Spots(m.size) -> Cell]
BY GridOfCells DEF IsMap, AnyMap, CellsOK

\* A map that the builder takes.
Taken(m) ==
  /\ IsMap(m) /\ m.barrier # 0 /\ validate_map_layers(Json(m), m.cells)
  /\ \A p \in Spots(m.size), t \in 1 .. StormEnds(m) : BuilderCell(m, p)[t].change # Bursts

\* What the builder makes of a map's two files is a map that it takes.
LEMMA BuildableIsTaken ==
  ASSUME NEW json \in MapHeader, NEW cells \in Grid, Buildable(json, cells)
  PROVE  Taken(MapOf(json, cells))
<1>1. PICK m : m = MapOf(json, cells)
  OBVIOUS
<1>2. /\ validate_map_layers(json, cells) /\ json.barrier > 0 /\ Spots(json.size) \subseteq DOMAIN cells
      /\ \A p \in Spots(m.size), t \in 1 .. StormEnds(m) : BuilderCell(m, p)[t].change # Bursts
  BY <1>1 DEF Buildable, validate_map_layers
<1>3. /\ m.size = json.size /\ m.barrier = json.barrier /\ m.markers = json.markers /\ m.zones = json.zones
      /\ m.cells = [p \in Spots(json.size) |-> cells[p]]
  BY <1>1, <1>2 DEF MapOf
<1>4. m.cells \in [Spots(json.size) -> Cell] /\ json.size \in Nat \ {0}
  BY <1>2, <1>3, GridOfCells DEF MapHeader
<1>5. m.cells \in Grid /\ DOMAIN m.cells = Spots(m.size)
  BY <1>3, <1>4, CellsOfGrid
<1>6. m = [size |-> m.size, barrier |-> m.barrier, markers |-> m.markers, zones |-> m.zones, cells |-> m.cells]
  BY <1>1 DEF MapOf
<1>7. IsMap(m)
  BY <1>3, <1>5, <1>6 DEF IsMap, AnyMap, MapHeader
<1>8. Json(m) = json
  BY <1>3 DEF Json, MapHeader
<1>9. validate_map_layers(Json(m), m.cells)
  <2>1. \A p \in Spots(json.size) : m.cells[p] = cells[p]
    BY <1>3
  <2> QED
    BY <1>2, <1>3, <1>5, <1>8, <2>1 DEF validate_map_layers
<1> QED
  BY <1>1, <1>2, <1>3, <1>7, <1>9 DEF Taken, MapHeader

\* A map in which the editor finds no fault is valid for the builder.
LEMMA EditorIsStricter ==
  ASSUME NEW m, IsMap(m), ~problems(m)
  PROVE  validate_map_layers(Json(m), m.cells)
<1>1. /\ m.barrier \in Nat /\ m.barrier > 0 /\ DOMAIN m.cells = Spots(m.size)
      /\ m.markers \in Seq(Marker) /\ m.zones \in Seq(Zone)
  <2>1. /\ m.barrier \in Nat /\ DOMAIN m.cells = Spots(m.size)
        /\ m.markers \in Seq(Marker) /\ m.zones \in Seq(Zone)
    BY DEF IsMap, AnyMap
  <2>2. ~(m.barrier <= 0)
    BY DEF problems
  <2> QED
    BY <2>1, <2>2
<1>2. PICK json : json = Json(m)
  OBVIOUS
<1>3. json.size = m.size /\ json.barrier = m.barrier /\ json.markers = m.markers /\ json.zones = m.zones
  BY <1>2 DEF Json
<1>4. ASSUME NEW i \in 1 .. Len(m.markers)
      PROVE  /\ m.markers[i].kind \in MarkerKinds /\ m.markers[i].at \in Spots(m.size)
             /\ m.markers[i].at \notin {m.markers[j].at : j \in 1 .. i - 1}
             /\ Physics[m.cells[m.markers[i].at].start] # WALL
  BY DEF problems
<1>5. ASSUME NEW i \in 1 .. Len(m.zones)
      PROVE  /\ m.zones[i].kind \in ZoneKinds /\ m.zones[i].width > 0 /\ m.zones[i].height > 0
             /\ m.zones[i].at[1] + m.zones[i].width <= m.size /\ m.zones[i].at[2] + m.zones[i].height <= m.size
  <2>1. m.zones[i] \in Zone /\ m.size \in Nat
    BY <1>1 DEF IsMap, AnyMap
  <2>2. PICK z : z = m.zones[i]
    OBVIOUS
  <2>3. z.width \in Nat \ {0} /\ z.height \in Nat \ {0} /\ z.at[1] \in Nat /\ z.at[2] \in Nat
    BY <2>1, <2>2 DEF Zone
  <2>4. z.kind \in ZoneKinds /\ ~(z.at[1] + z.width > m.size) /\ ~(z.at[2] + z.height > m.size)
    BY <2>2 DEF problems
  <2> QED
    BY <2>1, <2>2, <2>3, <2>4
<1> QED
  BY <1>1, <1>2, <1>3, <1>4, <1>5 DEF validate_map_layers

\* The loader takes what was built.
LEMMA LoaderAgrees ==
  ASSUME NEW m, Taken(m)
  PROVE  parseMap(Bundle(m))
<1>1. PICK b : b = Bundle(m)
  OBVIOUS
<1>2. /\ m.size \in Nat \ {0} /\ m.barrier \in Nat \ {0} /\ CellsOK(m)
      /\ m.markers \in Seq(Marker) /\ m.zones \in Seq(Zone)
  BY MapHasCells DEF Taken, IsMap, AnyMap
<1>3. /\ b.size = m.size /\ b.speed = m.barrier /\ b.markers = m.markers /\ b.zones = m.zones
      /\ b.initial = [p \in Spots(m.size) |-> Physics[m.cells[p].start]]
  BY <1>1 DEF Bundle
<1>4. \A p \in Spots(m.size) : b.initial[p] \in 0 .. 3
  BY <1>2, <1>3, Tiles DEF CellsOK, Cell
<1>5. ASSUME NEW c \in b.timeline PROVE c[2] \in Spots(m.size) /\ c[3] \in 0 .. 3
  <2>1. PICK p \in Spots(m.size), t \in 1 .. StormEnds(m) :
          /\ BuilderCell(m, p)[t].change # Untouched
          /\ c = <<t, p, Physics[BuilderCell(m, p)[t].change]>>
    BY <1>1 DEF Bundle
  <2>2. t \in 0 .. StormEnds(m)
    OBVIOUS
  <2>3. BuilderCell(m, p)[t] \in Line
    BY <1>2, <2>2, BuilderFollowsTheEditor
  <2>4. BuilderCell(m, p)[t].change \in Tile
    BY <2>1, <2>3 DEF Taken, Line
  <2> QED
    BY <2>1, <2>4, Tiles
<1>6. validate_map_layers(Json(m), m.cells)
  BY DEF Taken
<1>7. parseMarkers(b)
  <2>1. ASSUME NEW i \in 1 .. Len(m.markers)
        PROVE  /\ m.markers[i].kind \in MarkerKinds /\ m.markers[i].at \in Spots(m.size)
               /\ m.markers[i].at \notin {m.markers[j].at : j \in 1 .. i - 1}
               /\ Physics[m.cells[m.markers[i].at].start] # WALL
    BY <1>6 DEF validate_map_layers, Json
  <2> QED
    BY <1>3, <2>1 DEF parseMarkers
<1>8. parseZones(b)
  <2>1. ASSUME NEW i \in 1 .. Len(m.zones)
        PROVE  /\ m.zones[i].kind \in ZoneKinds /\ m.zones[i].width > 0 /\ m.zones[i].height > 0
               /\ m.zones[i].at[1] + m.zones[i].width <= m.size /\ m.zones[i].at[2] + m.zones[i].height <= m.size
    BY <1>6 DEF validate_map_layers, Json
  <2>2. ASSUME NEW i \in 1 .. Len(m.zones) PROVE m.zones[i].at \in Spots(m.size)
    <3>1. m.zones[i] \in Zone
      BY <1>2
    <3>2. PICK x, y, w, h : /\ m.zones[i].at = <<x, y>> /\ w = m.zones[i].width /\ h = m.zones[i].height
                            /\ x \in Nat /\ y \in Nat /\ w \in Nat \ {0} /\ h \in Nat \ {0}
      BY <3>1 DEF Zone
    <3>3. x + w <= m.size /\ y + h <= m.size
      BY <2>1, <3>2
    <3>4. x \in 0 .. m.size - 1 /\ y \in 0 .. m.size - 1
      <4>1. PICK n : n = m.size
        OBVIOUS
      <4>2. n \in Nat /\ x \in Nat /\ y \in Nat /\ w \in Nat /\ h \in Nat /\ w # 0 /\ h # 0
        BY <1>2, <3>2, <4>1
      <4>3. x + w <= n /\ y + h <= n
        BY <3>3, <4>1
      <4>4. x \in 0 .. n - 1 /\ y \in 0 .. n - 1
        BY <4>2, <4>3
      <4> QED
        BY <4>1, <4>4
    <3>5. <<x, y>> \in Spots(m.size)
      BY <3>4 DEF Spots
    <3> QED
      BY <3>2, <3>5
  <2> QED
    BY <1>3, <2>1, <2>2 DEF parseZones
<1> QED
  BY <1>1, <1>2, <1>3, <1>4, <1>5, <1>7, <1>8 DEF parseMap

\* Nobody starts in a wall within whose reach there is a floor.
LEMMA StartsAreFloors ==
  ASSUME NEW m, NEW p \in Spots(m.size), m.size \in Nat \ {0},
         NEW q \in startPositions(m, p), Physics[m.cells[q].start] = WALL,
         NEW r \in Spots(m.size), Away(p, r) < SearchLimit(m.size)
  PROVE  Physics[m.cells[r].start] = WALL
<1> SUFFICES ASSUME Physics[m.cells[r].start] # WALL PROVE FALSE
  OBVIOUS
<1>1. PICK n, far : n = m.size /\ far = Away(p, r)
  OBVIOUS
<1>2. SearchLimit(n) \in Nat
  <2>1. n \in Nat /\ n \div 2 \in Nat
    BY <1>1
  <2> QED
    BY <2>1 DEF SearchLimit
<1>3. far \in Nat /\ (far = 0 => p = r)
  <2>1. PICK x, y, u, v : /\ p = <<x, y>> /\ r = <<u, v>> /\ x \in Nat /\ y \in Nat /\ u \in Nat /\ v \in Nat
    BY DEF Spots
  <2> QED
    BY <1>1, <2>1 DEF Away
<1>4. CASE Physics[m.cells[p].start] # WALL
  BY <1>4 DEF startPositions
<1>5. CASE Physics[m.cells[p].start] = WALL
  <2>1. far \in 1 .. SearchLimit(n) - 1
    BY <1>1, <1>2, <1>3, <1>5
  <2>2. \E s \in 1 .. SearchLimit(m.size) - 1 :
          \E k \in Spots(m.size) : Away(p, k) = s /\ Physics[m.cells[k].start] # WALL
    BY <1>1, <2>1
  <2>3. {s \in 1 .. SearchLimit(m.size) - 1 :
           \E k \in Spots(m.size) : Away(p, k) = s /\ Physics[m.cells[k].start] # WALL} # {}
    BY <2>2
  <2> QED
    BY <1>5, <2>3 DEF startPositions
<1> QED
  BY <1>4, <1>5

\* A map that was built is played as it is shown.
LEMMA BuiltIsShown ==
  ASSUME NEW m, Taken(m)
  PROVE  Shown(m, Bundle(m))
<1>1. PICK b : b = Bundle(m)
  OBVIOUS
<1>2. m.size \in Nat \ {0} /\ m.barrier \in Nat \ {0} /\ CellsOK(m)
  BY MapHasCells DEF Taken, IsMap, AnyMap
<1>3. /\ b.initial = [p \in Spots(m.size) |-> Physics[m.cells[p].start]]
      /\ b.starts = [p \in Spots(m.size) |-> startPositions(m, p)]
  BY <1>1 DEF Bundle
<1>4. ASSUME NEW p \in Spots(m.size), OneChangeATick(m.cells[p]), NEW t \in 0 .. StormEnds(m)
      PROVE  applyMapTimeline(b, p, StormEnds(m))[t] = Physics[simulate(m, p)[t]]
  <2>1. BuilderCell(m, p)[t].tile = simulate(m, p)[t]
    BY <1>2, BuilderFollowsTheEditor
  <2>2. \A k \in 1 .. StormEnds(m) : BuilderCell(m, p)[k].change # Bursts
    BY DEF Taken
  <2>3. applyMapTimeline(b, p, StormEnds(m))[t] = Physics[BuilderCell(m, p)[t].tile]
    BY <1>1, <1>2, <1>4, <2>2, PlayFollowsTheBuilder
  <2> QED
    BY <2>1, <2>3
<1>5. ASSUME NEW p \in Spots(m.size), NEW t \in 0 .. StormEnds(m), t > 0, AtTheEdge(m, p, t)
      PROVE  Physics[simulate(m, p)[t]] \notin Breaks \/ Physics[lastTile(m.cells[p])] \in Breaks
  <2>1. StormEnds(m) \in Nat
    BY <1>2, StormIsANumber
  <2>2. t \in 1 .. StormEnds(m)
    BY <1>5, <2>1
  <2>3. m.cells[p].start \in Tile
    BY <1>2 DEF CellsOK, Cell
  <2>4. simulate(m, p)[t] = ShownStep(m, p, t, simulate(m, p)[t - 1])
    BY <1>2, <2>1, <2>2, <2>3, StepsGiveTiles, SimulateIs
  <2> QED
    BY <1>5, <2>4 DEF ShownStep
<1>6. ASSUME NEW p \in Spots(m.size), NEW q \in b.starts[p], b.initial[q] = WALL,
             NEW r \in Spots(m.size), Away(p, r) < SearchLimit(m.size)
      PROVE  b.initial[r] = WALL
  <2>1. q \in startPositions(m, p) /\ startPositions(m, p) \subseteq Spots(m.size)
    BY <1>3, <1>6 DEF startPositions
  <2>2. Physics[m.cells[q].start] = WALL
    BY <1>3, <1>6, <2>1
  <2> QED
    BY <1>2, <1>3, <1>6, <2>1, <2>2, StartsAreFloors
<1> QED
  BY <1>1, <1>4, <1>5, <1>6 DEF Shown

-----------------------------------------------------------------------------
(* Maps: the author's sheet.                                                *)

AllMaps == {m \in AnyMap : IsMap(m)}
AllLayers == {l \in AnyLayers : IsLayers(l)}

\* What the editor holds, what is on its way and what is stored are maps.
SheetFits ==
  /\ sheet \in [file : File, map : AllMaps] /\ undos \in Seq(AllLayers) /\ redos \in Seq(AllLayers)
  /\ DOMAIN files \subseteq File /\ "plaza" \in DOMAIN files /\ \A f \in DOMAIN files : files[f] \in AllMaps
  /\ fetched # NoSheet => fetched \in [file : DOMAIN files, map : AllMaps]
  /\ saving # NoSheet => saving \in [file : File, map : AllMaps, written : BOOLEAN, thenBuild : BOOLEAN]

\* A save under way is of the sheet as it is, unless it was changed since.
SaveIsOfTheSheet ==
  saving # NoSheet /\ ~late =>
    /\ saving.file = sheet.file /\ saving.map = sheet.map
    /\ saving.written => saving.file \in DOMAIN files /\ files[saving.file] = saving.map

EditorInv == SheetFits /\ SaveIsOfTheSheet /\ CleanMeansSaved

\* A map with other cells, markers, zones or another storm is a map.
LEMMA MapsChange ==
  ASSUME NEW m \in AllMaps
  PROVE  /\ \A c \in [Spots(m.size) -> Cell] : [m EXCEPT !.cells = c] \in AllMaps
         /\ \A k \in Seq(Marker) : [m EXCEPT !.markers = k] \in AllMaps
         /\ \A z \in Seq(Zone) : [m EXCEPT !.zones = z] \in AllMaps
         /\ \A s \in Nat : [m EXCEPT !.barrier = s] \in AllMaps
<1>1. m \in AnyMap /\ DOMAIN m.cells = Spots(m.size) /\ m.size \in Nat \ {0}
  BY DEF AllMaps, IsMap, AnyMap
<1>2. ASSUME NEW c \in [Spots(m.size) -> Cell] PROVE [m EXCEPT !.cells = c] \in AllMaps
  <2>1. c \in Grid /\ DOMAIN c = Spots(m.size)
    BY <1>1, CellsOfGrid
  <2> QED
    BY <1>1, <2>1 DEF AllMaps, IsMap, AnyMap
<1>3. ASSUME NEW k \in Seq(Marker) PROVE [m EXCEPT !.markers = k] \in AllMaps
  BY <1>1 DEF AllMaps, IsMap, AnyMap
<1>4. ASSUME NEW z \in Seq(Zone) PROVE [m EXCEPT !.zones = z] \in AllMaps
  BY <1>1 DEF AllMaps, IsMap, AnyMap
<1>5. ASSUME NEW s \in Nat PROVE [m EXCEPT !.barrier = s] \in AllMaps
  BY <1>1 DEF AllMaps, IsMap, AnyMap
<1> QED
  BY <1>2, <1>3, <1>4, <1>5

\* What a map is made of.
LEMMA MapsCells ==
  ASSUME NEW m \in AllMaps
  PROVE  /\ m.cells \in [Spots(m.size) -> Cell] /\ m.size \in Nat \ {0} /\ m.barrier \in Nat
         /\ m.markers \in Seq(Marker) /\ m.zones \in Seq(Zone)
  BY MapHasCells DEF AllMaps, IsMap, AnyMap

\* A plain cell.
LEMMA PlainCells ==
  ASSUME NEW n \in 0 .. 4
  PROVE  Plain(n) \in Cell
<1>1. n \in Tile /\ <<>> \in Seq((Nat \cup {-1}) \X Tile)
  BY Tiles
<1> QED
  BY <1>1 DEF Plain, Cell

\* A map of parts.
LEMMA MapOfParts ==
  ASSUME NEW n \in Nat \ {0}, NEW s \in Nat, NEW k \in Seq(Marker), NEW z \in Seq(Zone), NEW c \in [Spots(n) -> Cell],
         NEW m, m = [size |-> n, barrier |-> s, markers |-> k, zones |-> z, cells |-> c]
  PROVE  m \in AllMaps
<1>1. c \in Grid /\ DOMAIN c = Spots(n)
  BY CellsOfGrid
<1> QED
  BY <1>1 DEF AllMaps, IsMap, AnyMap

\* The maps there are without an author.
LEMMA FirstMaps == FreshMap \in AllMaps /\ Plaza \in AllMaps
<1>1. PICK c : c = [p \in Spots(FreshSize) |-> Plain(IF RingOf(p, FreshSize) = 0 THEN 0 ELSE 1)]
  OBVIOUS
<1>2. c \in [Spots(FreshSize) -> Cell] /\ FreshSize \in Nat \ {0} /\ FreshSize = 5
  BY <1>1, PlainCells DEF FreshSize
<1>3. FreshMap = [size |-> FreshSize, barrier |-> 1, markers |-> <<>>, zones |-> <<>>, cells |-> c]
  BY <1>1 DEF FreshMap
<1>4. <<>> \in Seq(Marker) /\ <<>> \in Seq(Zone) /\ 1 \in Nat
  OBVIOUS
<1>5. FreshMap \in AllMaps
  BY <1>2, <1>3, <1>4, MapOfParts
<1>6. PICK e : e = [start |-> 0, changes |-> <<<<Star, 1>>>>]
  OBVIOUS
<1>7. e \in Cell
  <2>1. Star \in Nat \cup {-1} /\ 1 \in Tile /\ 0 \in Tile
    BY Tiles DEF Star
  <2>2. <<Star, 1>> \in (Nat \cup {-1}) \X Tile
    BY <2>1
  <2>3. <<<<Star, 1>>>> \in Seq((Nat \cup {-1}) \X Tile)
    BY <2>2
  <2> QED
    BY <1>6, <2>1, <2>3 DEF Cell
<1>8. PICK d : d = [c EXCEPT ![<<2, 1>>] = e]
  OBVIOUS
<1>9. d \in [Spots(FreshSize) -> Cell]
  BY <1>2, <1>7, <1>8
<1>10. PICK k : k = <<[kind |-> "tagger", at |-> <<1, 1>>]>>
  OBVIOUS
<1>11. k \in Seq(Marker)
  <2>1. [kind |-> "tagger", at |-> <<1, 1>>] \in Marker
    BY DEF Marker, MarkerKinds
  <2> QED
    BY <1>10, <2>1
<1>12. PICK z : z = <<[kind |-> "training.chase", at |-> <<2, 2>>, width |-> 1, height |-> 1]>>
  OBVIOUS
<1>13. z \in Seq(Zone)
  <2>1. [kind |-> "training.chase", at |-> <<2, 2>>, width |-> 1, height |-> 1] \in Zone
    BY DEF Zone, ZoneKinds
  <2> QED
    BY <1>12, <2>1
<1>14. Plaza = [size |-> FreshSize, barrier |-> 1, markers |-> k, zones |-> z, cells |-> d]
  <2>1. PICK m : m = FreshMap
    OBVIOUS
  <2>2. m = [size |-> FreshSize, barrier |-> 1, markers |-> <<>>, zones |-> <<>>, cells |-> c] /\ m.cells = c
    BY <1>3, <2>1
  <2>3. Plaza = [m EXCEPT !.cells = [m.cells EXCEPT ![<<2, 1>>] = e], !.markers = k, !.zones = z]
    BY <1>6, <1>10, <1>12, <2>1, Zenon DEF Plaza
  <2>4. Plaza = [m EXCEPT !.cells = d, !.markers = k, !.zones = z]
    BY <1>8, <2>2, <2>3
  <2> QED
    BY <2>2, <2>4
<1>15. Plaza \in AllMaps
  BY <1>2, <1>4, <1>9, <1>11, <1>13, <1>14, MapOfParts
<1> QED
  BY <1>5, <1>15

\* What undo remembers, and what it brings back.
LEMMA LayersFit ==
  ASSUME NEW m \in AllMaps
  PROVE  /\ [size |-> m.size, cells |-> m.cells, markers |-> m.markers, zones |-> m.zones] \in AllLayers
         /\ \A l \in AllLayers : WithLayers(m, l) \in AllMaps
<1>1. m \in AnyMap /\ DOMAIN m.cells = Spots(m.size)
  BY DEF AllMaps, IsMap
<1>2. [size |-> m.size, cells |-> m.cells, markers |-> m.markers, zones |-> m.zones] \in AllLayers
  BY <1>1 DEF AllLayers, IsLayers, AnyLayers, AnyMap
<1>3. ASSUME NEW l \in AllLayers PROVE WithLayers(m, l) \in AllMaps
  BY <1>1 DEF WithLayers, AllLayers, IsLayers, AnyLayers, AllMaps, IsMap, AnyMap
<1> QED
  BY <1>2, <1>3

\* The editor remembers the sheet, and at its limit forgets the oldest state.
LEMMA RememberKeeps ==
  ASSUME SheetFits, remember
  PROVE  undos' \in Seq(AllLayers) /\ redos' \in Seq(AllLayers)
<1>1. PICK l : l = Layers
  OBVIOUS
<1>2. l \in AllLayers
  BY <1>1, LayersFit DEF SheetFits, Layers
<1>3. undos \in Seq(AllLayers) /\ (Len(undos) = UndoDepth => undos # <<>>)
  BY MapToolsAssumption DEF SheetFits
<1>4. undos' = (IF Len(undos) = UndoDepth THEN Append(Tail(undos), l) ELSE Append(undos, l)) /\ redos' = <<>>
  BY <1>1 DEF remember
<1> QED
  BY <1>2, <1>3, <1>4

\* The map changes on the sheet.
LEMMA ChangedKeeps ==
  ASSUME EditorInv, NEW m \in AllMaps, changed(m), UNCHANGED serverVars,
         undos' \in Seq(AllLayers), redos' \in Seq(AllLayers)
  PROVE  EditorInv'
<1>1. /\ sheet' = [sheet EXCEPT !.map = m] /\ dirty' = TRUE /\ late' = (late \/ saving # NoSheet)
      /\ fetched' = fetched /\ saving' = saving /\ files' = files
  BY DEF changed, serverVars
<1>2. SheetFits'
  BY <1>1 DEF EditorInv, SheetFits
<1>3. SaveIsOfTheSheet' /\ CleanMeansSaved'
  BY <1>1 DEF SaveIsOfTheSheet, CleanMeansSaved
<1> QED
  BY <1>2, <1>3 DEF EditorInv

\* A cell drawn with another tile, or given other changes.
LEMMA CellsChange ==
  ASSUME NEW cell \in Cell
  PROVE  /\ \A n \in 0 .. 4 : [cell EXCEPT !.start = n] \in Cell
         /\ \A s \in Seq((Nat \cup {-1}) \X (0 .. 4)) : [cell EXCEPT !.changes = s] \in Cell
BY Tiles DEF Cell

\* The nearer and the farther of two numbers.
LEMMA OfTwo ==
  ASSUME NEW a \in Nat, NEW b \in Nat
  PROVE  /\ Nearest({a, b}) \in Nat /\ Farthest({a, b}) \in Nat
         /\ Nearest({a, b}) <= Farthest({a, b})
<1>1. CASE a <= b
  <2>1. Nearest({a, b}) = a
    BY <1>1 DEF Nearest
  <2>2. Farthest({a, b}) = b
    BY <1>1 DEF Farthest
  <2> QED
    BY <1>1, <2>1, <2>2
<1>2. CASE b < a
  <2>1. Nearest({a, b}) = b
    BY <1>2 DEF Nearest
  <2>2. Farthest({a, b}) = a
    BY <1>2 DEF Farthest
  <2> QED
    BY <1>2, <2>1, <2>2
<1> QED
  BY <1>1, <1>2

\* A step of the author's that leaves the sheet as it is.
LEMMA SheetStays ==
  ASSUME EditorInv, UNCHANGED <<sheet, dirty, late>>, UNCHANGED serverVars,
         undos' \in Seq(AllLayers), redos' \in Seq(AllLayers)
  PROVE  EditorInv'
<1>1. UNCHANGED <<sheet, dirty, late, fetched, saving, files>>
  BY DEF serverVars
<1>2. SheetFits'
  BY <1>1 DEF EditorInv, SheetFits
<1>3. SaveIsOfTheSheet' /\ CleanMeansSaved'
  BY <1>1 DEF EditorInv, SaveIsOfTheSheet, CleanMeansSaved
<1> QED
  BY <1>2, <1>3 DEF EditorInv

\* The author draws, drags, marks and schedules.
LEMMA DrawingKeeps ==
  ASSUME EditorInv, Brush \/ Drag \/ Mark \/ Unzone \/ Schedule
  PROVE  EditorInv'
<1>1. PICK m : m = sheet.map
  OBVIOUS
<1>2. /\ m \in AllMaps /\ m.cells \in [Spots(m.size) -> Cell] /\ m.markers \in Seq(Marker) /\ m.zones \in Seq(Zone)
      /\ SheetFits
  BY <1>1, MapsCells DEF EditorInv, SheetFits
<1>3. remember /\ UNCHANGED serverVars
  BY DEF Brush, Drag, Mark, Unzone, Schedule
<1>4. undos' \in Seq(AllLayers) /\ redos' \in Seq(AllLayers)
  BY <1>2, <1>3, RememberKeeps
<1>5. ASSUME NEW k \in AllMaps, changed(k) PROVE EditorInv'
  BY <1>3, <1>4, <1>5, ChangedKeeps
<1>6. changed(m) => EditorInv'
  BY <1>2, <1>5
<1>7. CASE Brush
  <2>1. PICK p \in Touched \cap Spots(m.size), n \in Painted :
          \/ UNCHANGED <<sheet, dirty, late>>
          \/ changed([m EXCEPT !.cells[p].start = n])
    BY <1>1, <1>7 DEF Brush
  <2>2. CASE UNCHANGED <<sheet, dirty, late>>
    BY <1>3, <1>4, <2>2, SheetStays
  <2>3. CASE changed([m EXCEPT !.cells[p].start = n])
    <3>1. n \in 0 .. 4
      BY MapToolsAssumption
    <3>2. PICK c : c = [m.cells EXCEPT ![p] = [m.cells[p] EXCEPT !.start = n]]
      OBVIOUS
    <3>3. c \in [Spots(m.size) -> Cell]
      BY <1>2, <3>1, <3>2, CellsChange
    <3>4. changed([m EXCEPT !.cells = c])
      BY <2>3, <3>2
    <3> QED
      BY <1>2, <1>5, <3>3, <3>4, MapsChange
  <2> QED
    BY <2>1, <2>2, <2>3
<1>8. CASE Drag
  <2>1. PICK p, q :
          /\ p \in Touched /\ q \in Touched
          /\ LET lo == <<Nearest({p[1], q[1]}), Nearest({p[2], q[2]})>>
                 hi == <<Farthest({p[1], q[1]}), Farthest({p[2], q[2]})>>
                 within == (lo[1] .. hi[1]) \X (lo[2] .. hi[2])
             IN \/ changed([sheet.map EXCEPT !.cells = [r \in DOMAIN @ |->
                               IF r \in within THEN [@[r] EXCEPT !.start = 0] ELSE @[r]]])
                \/ changed([sheet.map EXCEPT !.zones = Append(@,
                               [kind |-> "training.chase", at |-> lo,
                                width |-> hi[1] - lo[1] + 1, height |-> hi[2] - lo[2] + 1])])
                \/ changed(sheet.map)
    BY <1>8, Zenon DEF Drag
  <2>2. PICK a, b, c, d : /\ a = Nearest({p[1], q[1]}) /\ b = Nearest({p[2], q[2]})
                          /\ c = Farthest({p[1], q[1]}) /\ d = Farthest({p[2], q[2]})
    OBVIOUS
  <2>3. /\ a \in Nat /\ b \in Nat /\ c \in Nat /\ d \in Nat /\ a <= c /\ b <= d
    <3>1. p[1] \in Nat /\ p[2] \in Nat /\ q[1] \in Nat /\ q[2] \in Nat
      BY <2>1, MapToolsAssumption
    <3> QED
      BY <2>2, <3>1, OfTwo
  <2>4. PICK within : within = (a .. c) \X (b .. d)
    OBVIOUS
  <2>5. PICK cells : cells = [r \in Spots(m.size) |->
                                IF r \in within THEN [m.cells[r] EXCEPT !.start = 0] ELSE m.cells[r]]
    OBVIOUS
  <2>6. PICK z : z = [kind |-> "training.chase", at |-> <<a, b>>, width |-> c - a + 1, height |-> d - b + 1]
    OBVIOUS
  <2>7. \/ changed([m EXCEPT !.cells = cells])
        \/ changed([m EXCEPT !.zones = Append(m.zones, z)])
        \/ changed(m)
    <3>1. DOMAIN m.cells = Spots(m.size)
      BY <1>2
    <3> QED
      BY <1>1, <2>1, <2>2, <2>4, <2>5, <2>6, <3>1
  <2>8. cells \in [Spots(m.size) -> Cell]
    <3>1. \A r \in Spots(m.size) : [m.cells[r] EXCEPT !.start = 0] \in Cell /\ m.cells[r] \in Cell
      <4>1. 0 \in 0 .. 4
        OBVIOUS
      <4>2. \A r \in Spots(m.size) : m.cells[r] \in Cell
        BY <1>2
      <4> QED
        BY <4>1, <4>2, CellsChange
    <3> QED
      BY <2>5, <3>1
  <2>9. Append(m.zones, z) \in Seq(Zone)
    <3>1. c - a + 1 \in Nat \ {0} /\ d - b + 1 \in Nat \ {0}
      BY <2>3
    <3>2. z \in Zone
      BY <2>3, <2>6, <3>1 DEF Zone, ZoneKinds
    <3> QED
      BY <1>2, <3>2
  <2> QED
    BY <1>2, <1>5, <1>6, <2>7, <2>8, <2>9, MapsChange
<1>9. CASE Mark
  <2>1. PICK p \in Touched \cap Spots(m.size), i \in 1 .. Len(m.markers) \cup {0} :
          \/ changed([m EXCEPT !.markers = Append(@, [kind |-> "reset", at |-> p])])
          \/ i # 0 /\ changed([m EXCEPT !.markers[i].kind = "reset"])
          \/ i # 0 /\ changed([m EXCEPT !.markers = SubSeq(@, 1, i - 1) \o SubSeq(@, i + 1, Len(@))])
          \/ changed(m)
    <3>1. PICK p \in Touched \cap Spots(m.size) :
            LET here == {i \in 1 .. Len(m.markers) : m.markers[i].at = p} IN
            \/ here = {} /\ changed([m EXCEPT !.markers = Append(@, [kind |-> "reset", at |-> p])])
            \/ \E i \in here : changed([m EXCEPT !.markers[i].kind = "reset"])
            \/ \E i \in here : changed([m EXCEPT !.markers = SubSeq(@, 1, i - 1) \o SubSeq(@, i + 1, Len(@))])
            \/ here = {} /\ changed(m)
      BY <1>1, <1>9 DEF Mark
    <3>2. \A i \in 1 .. Len(m.markers) : i # 0
      OBVIOUS
    <3>3. \/ changed([m EXCEPT !.markers = Append(@, [kind |-> "reset", at |-> p])])
          \/ \E i \in 1 .. Len(m.markers) : changed([m EXCEPT !.markers[i].kind = "reset"])
          \/ \E i \in 1 .. Len(m.markers) :
               changed([m EXCEPT !.markers = SubSeq(@, 1, i - 1) \o SubSeq(@, i + 1, Len(@))])
          \/ changed(m)
      BY <3>1, Zenon
    <3> QED
      BY <3>2, <3>3, Zenon
  <2>2. [kind |-> "reset", at |-> p] \in Marker
    BY MapToolsAssumption DEF Marker, MarkerKinds
  <2>3. Append(m.markers, [kind |-> "reset", at |-> p]) \in Seq(Marker)
    BY <1>2, <2>2
  <2>4. i # 0 => SubSeq(m.markers, 1, i - 1) \o SubSeq(m.markers, i + 1, Len(m.markers)) \in Seq(Marker)
    <3> SUFFICES ASSUME i # 0 PROVE SubSeq(m.markers, 1, i - 1) \o SubSeq(m.markers, i + 1, Len(m.markers)) \in Seq(Marker)
      OBVIOUS
    <3>1. i \in 1 .. Len(m.markers) /\ Len(m.markers) \in Nat
      BY <1>2
    <3>2. SubSeq(m.markers, 1, i - 1) \in Seq(Marker)
      BY <1>2, <3>1
    <3>3. SubSeq(m.markers, i + 1, Len(m.markers)) \in Seq(Marker)
      BY <1>2, <3>1
    <3> QED
      BY <3>2, <3>3
  <2>5. ASSUME i # 0 PROVE [m.markers EXCEPT ![i] = [m.markers[i] EXCEPT !.kind = "reset"]] \in Seq(Marker)
    <3>1. i \in 1 .. Len(m.markers) /\ m.markers[i] \in Marker
      BY <1>2, <2>5
    <3>2. [m.markers[i] EXCEPT !.kind = "reset"] \in Marker
      BY <3>1 DEF Marker, MarkerKinds
    <3> QED
      BY <1>2, <3>1, <3>2
  <2>6. CASE changed([m EXCEPT !.markers = Append(@, [kind |-> "reset", at |-> p])])
    BY <1>2, <1>5, <2>3, <2>6, MapsChange
  <2>7. CASE i # 0 /\ changed([m EXCEPT !.markers[i].kind = "reset"])
    <3>1. changed([m EXCEPT !.markers = [m.markers EXCEPT ![i] = [m.markers[i] EXCEPT !.kind = "reset"]]])
      BY <2>7
    <3> QED
      BY <1>2, <1>5, <2>5, <2>7, <3>1, MapsChange
  <2>8. CASE i # 0 /\ changed([m EXCEPT !.markers = SubSeq(@, 1, i - 1) \o SubSeq(@, i + 1, Len(@))])
    BY <1>2, <1>5, <2>4, <2>8, MapsChange
  <2> QED
    BY <1>6, <2>1, <2>6, <2>7, <2>8
<1>10. CASE Unzone
  <2>1. changed([m EXCEPT !.zones = SubSeq(@, 1, Len(@) - 1)]) /\ m.zones # <<>>
    BY <1>1, <1>10 DEF Unzone
  <2>2. SubSeq(m.zones, 1, Len(m.zones) - 1) \in Seq(Zone)
    BY <1>2, <2>1
  <2> QED
    BY <1>2, <1>5, <2>1, <2>2, MapsChange
<1>11. CASE Schedule
  <2>1. CASE changed(m)
    BY <1>6, <2>1
  <2>2. ASSUME NEW p \in Touched \cap Spots(m.size), NEW s \in Schedules, changed([m EXCEPT !.cells[p].changes = s])
        PROVE  EditorInv'
    <3>1. s \in Seq((Nat \cup {-1}) \X (0 .. 4))
      BY MapToolsAssumption
    <3>2. PICK c : c = [m.cells EXCEPT ![p] = [m.cells[p] EXCEPT !.changes = s]]
      OBVIOUS
    <3>3. c \in [Spots(m.size) -> Cell]
      BY <1>2, <3>1, <3>2, CellsChange
    <3>4. changed([m EXCEPT !.cells = c])
      BY <2>2, <3>2
    <3> QED
      BY <1>2, <1>5, <3>3, <3>4, MapsChange
  <2> QED
    BY <1>1, <1>11, <2>1, <2>2 DEF Schedule
<1> QED
  BY <1>7, <1>8, <1>9, <1>10, <1>11

\* The author gives the storm another speed and the map another size, and takes back.
LEMMA RearrangingKeeps ==
  ASSUME EditorInv, SetBarrier \/ Resize \/ Undo \/ Redo
  PROVE  EditorInv'
<1>1. PICK m : m = sheet.map
  OBVIOUS
<1>2. /\ m \in AllMaps /\ m.cells \in [Spots(m.size) -> Cell] /\ m.size \in Nat \ {0} /\ m.barrier \in Nat
      /\ m.markers \in Seq(Marker) /\ m.zones \in Seq(Zone)
      /\ SheetFits /\ undos \in Seq(AllLayers) /\ redos \in Seq(AllLayers)
  BY <1>1, MapsCells DEF EditorInv, SheetFits
<1>3. UNCHANGED serverVars
  BY DEF SetBarrier, Resize, Undo, Redo
<1>4. ASSUME NEW k \in AllMaps, changed(k), undos' \in Seq(AllLayers), redos' \in Seq(AllLayers) PROVE EditorInv'
  BY <1>3, <1>4, ChangedKeeps
<1>5. CASE SetBarrier
  <2>1. PICK n \in Speeds : changed([m EXCEPT !.barrier = n])
    BY <1>1, <1>5 DEF SetBarrier
  <2>2. n \in Nat /\ undos' = undos /\ redos' = redos
    BY <1>5, MapToolsAssumption DEF SetBarrier
  <2> QED
    BY <1>2, <1>4, <2>1, <2>2, MapsChange
<1>6. CASE Resize
  <2>1. PICK n \in Resized :
          changed([m EXCEPT !.size = n,
                            !.cells = [p \in Spots(n) |-> IF p \in DOMAIN m.cells THEN m.cells[p] ELSE Plain(1)]])
    BY <1>1, <1>6 DEF Resize
  <2>2. n \in Nat \ {0}
    BY MapToolsAssumption
  <2>3. PICK c : c = [p \in Spots(n) |-> IF p \in DOMAIN m.cells THEN m.cells[p] ELSE Plain(1)]
    OBVIOUS
  <2>4. c \in [Spots(n) -> Cell]
    BY <1>2, <2>3, PlainCells
  <2>5. PICK k : k = [m EXCEPT !.size = n, !.cells = c]
    OBVIOUS
  <2>6. k = [size |-> n, barrier |-> m.barrier, markers |-> m.markers, zones |-> m.zones, cells |-> c]
    BY <1>2, <2>5 DEF AllMaps, AnyMap
  <2>7. k \in AllMaps
    BY <1>2, <2>2, <2>4, <2>6, MapOfParts
  <2>8. undos' \in Seq(AllLayers) /\ redos' \in Seq(AllLayers)
    BY <1>2, <1>6, RememberKeeps DEF Resize
  <2> QED
    BY <1>4, <2>1, <2>3, <2>5, <2>7, <2>8
<1>7. Layers \in AllLayers /\ \A l \in AllLayers : WithLayers(m, l) \in AllMaps
  BY <1>1, <1>2, LayersFit DEF Layers
<1>8. CASE Undo
  <2>1. PICK l, k : l = undos[Len(undos)] /\ k = WithLayers(m, l)
    OBVIOUS
  <2>2. l \in AllLayers /\ SubSeq(undos, 1, Len(undos) - 1) \in Seq(AllLayers)
    BY <1>2, <1>8, <2>1 DEF Undo
  <2>3. undos' \in Seq(AllLayers) /\ redos' \in Seq(AllLayers)
    BY <1>2, <1>7, <1>8, <2>2 DEF Undo
  <2>4. changed(k)
    BY <1>1, <1>8, <2>1 DEF Undo
  <2> QED
    BY <1>4, <1>7, <2>1, <2>2, <2>3, <2>4
<1>9. CASE Redo
  <2>1. PICK l, k : l = redos[Len(redos)] /\ k = WithLayers(m, l)
    OBVIOUS
  <2>2. l \in AllLayers /\ SubSeq(redos, 1, Len(redos) - 1) \in Seq(AllLayers)
    BY <1>2, <1>9, <2>1 DEF Redo
  <2>3. undos' \in Seq(AllLayers) /\ redos' \in Seq(AllLayers)
    BY <1>2, <1>7, <1>9, <2>2 DEF Redo
  <2>4. changed(k)
    BY <1>1, <1>9, <2>1 DEF Redo
  <2> QED
    BY <1>4, <1>7, <2>1, <2>2, <2>3, <2>4
<1> QED
  BY <1>5, <1>6, <1>8, <1>9

\* Another map comes on the sheet.
LEMMA AnotherMapKeeps ==
  ASSUME EditorInv, OpenMap \/ MapOpened \/ NewMap
  PROVE  EditorInv'
<1> USE DEF EditorInv
<1>1. CASE OpenMap
  <2>1. /\ UNCHANGED <<sheet, undos, redos, dirty, late, saving, files>>
        /\ \E f \in DOMAIN files : fetched' = [file |-> f, map |-> files[f]]
    BY <1>1 DEF OpenMap, editVars
  <2>2. SheetFits'
    BY <2>1 DEF SheetFits
  <2> QED
    BY <2>1, <2>2 DEF SaveIsOfTheSheet, CleanMeansSaved
<1>2. ASSUME NEW f \in File, NEW m \in AllMaps, NEW unsaved \in BOOLEAN, TakesTheSheet(f, m, unsaved),
             fetched' \in {fetched, NoSheet}, UNCHANGED <<saving, files>>, unsaved \/ f \in DOMAIN files
      PROVE  EditorInv'
  <2>1. /\ sheet' = [file |-> f, map |-> m] /\ undos' = <<>> /\ redos' = <<>> /\ dirty' = unsaved
        /\ late' = (saving # NoSheet \/ (f \in DOMAIN files /\ files[f] # m))
    BY <1>2 DEF TakesTheSheet
  <2>2. SheetFits'
    BY <1>2, <2>1 DEF SheetFits
  <2>3. SaveIsOfTheSheet'
    BY <1>2, <2>1 DEF SaveIsOfTheSheet
  <2>4. CleanMeansSaved'
    BY <1>2, <2>1 DEF CleanMeansSaved
  <2> QED
    BY <2>2, <2>3, <2>4
<1>3. CASE MapOpened
  <2>1. /\ fetched.file \in DOMAIN files /\ fetched.file \in File /\ fetched.map \in AllMaps
        /\ TakesTheSheet(fetched.file, fetched.map, FALSE) /\ fetched' = NoSheet /\ UNCHANGED <<saving, files>>
    BY <1>3 DEF MapOpened, SheetFits
  <2> QED
    BY <1>2, <2>1
<1>4. CASE NewMap
  <2>1. TakesTheSheet("draft", FreshMap, TRUE) /\ UNCHANGED <<fetched, saving, files>> /\ "draft" \in File
    BY <1>4 DEF NewMap, serverVars, File
  <2> QED
    BY <1>2, <2>1, FirstMaps
<1> QED
  BY <1>1, <1>3, <1>4

\* A save is sent, written, answered or fails.
LEMMA SavingKeeps ==
  ASSUME EditorInv, Save \/ PutMap \/ SaveEnds \/ SaveFails \/ Build
  PROVE  EditorInv'
<1> USE DEF EditorInv
<1>1. ASSUME NEW build \in BOOLEAN, saving = NoSheet, dirty,
             saving' = [file |-> sheet.file, map |-> sheet.map, written |-> FALSE, thenBuild |-> build],
             late' = FALSE, UNCHANGED <<sheet, undos, redos, dirty, fetched, files>>
      PROVE  EditorInv'
  <2>1. SheetFits'
    BY <1>1 DEF SheetFits
  <2>2. SaveIsOfTheSheet' /\ CleanMeansSaved'
    BY <1>1 DEF SaveIsOfTheSheet, CleanMeansSaved
  <2> QED
    BY <2>1, <2>2
<1>2. CASE Save
  BY <1>1, <1>2 DEF Save
<1>3. CASE PutMap
  <2>1. PICK f, m : f = saving.file /\ m = saving.map
    OBVIOUS
  <2>2. /\ saving # NoSheet /\ ~saving.written /\ saving' = [saving EXCEPT !.written = TRUE]
        /\ UNCHANGED <<sheet, undos, redos, dirty, late, fetched>>
        /\ files' = [g \in DOMAIN files \cup {f} |-> IF g = f THEN m ELSE files[g]]
    BY <1>3, <2>1 DEF PutMap
  <2>3. saving \in [file : File, map : AllMaps, written : BOOLEAN, thenBuild : BOOLEAN] /\ f \in File /\ m \in AllMaps
    BY <2>1, <2>2 DEF SheetFits
  <2>4. SheetFits'
    BY <2>2, <2>3 DEF SheetFits
  <2>5. saving'.file = f /\ saving'.map = m /\ saving'.written
    BY <2>1, <2>2, <2>3
  <2>6. SaveIsOfTheSheet'
    BY <2>1, <2>2, <2>5 DEF SaveIsOfTheSheet
  <2>7. CleanMeansSaved'
    BY <2>1, <2>2 DEF SaveIsOfTheSheet, CleanMeansSaved
  <2> QED
    BY <2>4, <2>6, <2>7
<1>4. CASE SaveEnds
  <2>1. /\ saving # NoSheet /\ saving.written /\ dirty' = FALSE /\ saving' = NoSheet
        /\ UNCHANGED <<sheet, undos, redos, late, fetched, files>>
    BY <1>4 DEF SaveEnds, SaveAnswered
  <2>2. SheetFits'
    BY <2>1 DEF SheetFits
  <2> QED
    BY <2>1, <2>2 DEF SaveIsOfTheSheet, CleanMeansSaved
<1>5. CASE SaveFails
  <2>1. saving' = NoSheet /\ UNCHANGED <<sheet, undos, redos, dirty, late, fetched, files>>
    BY <1>5 DEF SaveFails, editVars
  <2>2. SheetFits'
    BY <2>1 DEF SheetFits
  <2> QED
    BY <2>1, <2>2 DEF SaveIsOfTheSheet, CleanMeansSaved
<1>6. CASE Build
  <2>1. UNCHANGED <<sheet, undos, redos, dirty, fetched, files>> /\ saving = NoSheet
    BY <1>6 DEF Build
  <2>2. CASE dirty
    BY <1>1, <1>6, <2>1, <2>2 DEF Build
  <2>3. CASE ~dirty
    <3>1. UNCHANGED <<saving, late>>
      BY <1>6, <2>3 DEF Build
    <3>2. SheetFits'
      BY <2>1, <3>1 DEF SheetFits
    <3> QED
      BY <2>1, <3>1, <3>2 DEF SaveIsOfTheSheet, CleanMeansSaved
  <2> QED
    BY <2>2, <2>3
<1> QED
  BY <1>2, <1>3, <1>4, <1>5, <1>6

-----------------------------------------------------------------------------
(* Maps: the builder's processes.                                           *)

\* What is known of some of the files.
PerFile(S) == UNION {[D -> S] : D \in SUBSET File}

BuildRecord ==
  [at : {"started"}, json : PerFile(MapHeader), cells : PerFile(Grid)] \cup [at : {"writing"}, result : PerFile(AnyMap)]
    \cup [at : {"written", "ended"}]

\* A process has read of files there are, and writes of maps it takes.
BuildFits(b) ==
  /\ b.at = "started" => DOMAIN b.json \subseteq DOMAIN files
  /\ b.at = "writing" => DOMAIN b.result # {} /\ \A f \in DOMAIN b.result : Taken(b.result[f])

\* Unless two builds ran at once there is one, which is writing if the output is not whole.
BuildInv ==
  /\ builds \in Seq(BuildRecord) /\ \A i \in 1 .. Len(builds) : BuildFits(builds[i])
  /\ ~crowded => \A i, j \in Building : i = j
  /\ ~crowded /\ output = Broken => \E i \in Building : builds[i].at = "writing"
  /\ target = Broken => crowded

\* What is known of files is known of files of the map directory.
LEMMA KnownFiles ==
  ASSUME NEW S
  PROVE  /\ \A h \in PerFile(S) : h \in [DOMAIN h -> S] /\ DOMAIN h \subseteq File
         /\ \A D \in SUBSET File : [D -> S] \subseteq PerFile(S)
BY DEF PerFile

\* One more file is read.
LEMMA OneMoreFile ==
  ASSUME NEW S, NEW h \in PerFile(S), NEW f \in File, NEW v \in S,
         NEW k, k = [g \in DOMAIN h \cup {f} |-> IF g = f THEN v ELSE h[g]]
  PROVE  k \in PerFile(S) /\ DOMAIN k = DOMAIN h \cup {f} /\ k \in [DOMAIN h \cup {f} -> S]
<1>1. h \in [DOMAIN h -> S] /\ DOMAIN h \subseteq File
  BY KnownFiles
<1>2. k \in [DOMAIN h \cup {f} -> S] /\ DOMAIN h \cup {f} \in SUBSET File
  BY <1>1
<1> QED
  BY <1>2, KnownFiles

\* A map's two files.
LEMMA TwoFiles ==
  ASSUME NEW m \in AllMaps
  PROVE  Json(m) \in MapHeader /\ m.cells \in Grid
BY DEF AllMaps, AnyMap, Json, MapHeader

\* No process moves, and no file is lost.
LEMMA BuildsStay ==
  ASSUME BuildInv, UNCHANGED buildVars, DOMAIN files \subseteq DOMAIN files'
  PROVE  BuildInv'
<1>1. builds' = builds /\ output' = output /\ target' = target /\ crowded' = crowded
  BY DEF buildVars
<1>2. Building' = Building
  BY <1>1 DEF Building
<1>3. \A i \in 1 .. Len(builds) : BuildFits(builds[i])'
  BY <1>1 DEF BuildInv, BuildFits
<1> QED
  BY <1>1, <1>2, <1>3 DEF BuildInv

\* A process is started.
LEMMA StartKeepsBuilds ==
  ASSUME BuildInv, StartBuild, UNCHANGED files
  PROVE  BuildInv'
<1>1. PICK n : n = Len(builds)
  OBVIOUS
<1>2. n \in Nat /\ builds \in Seq(BuildRecord)
  BY <1>1 DEF BuildInv
<1>3. /\ builds' = Append(builds, Begun) /\ crowded' = (crowded \/ Building # {})
      /\ output' = output /\ target' = target
  BY DEF StartBuild
<1>4. Begun \in BuildRecord /\ Begun.at = "started" /\ DOMAIN Begun.json = {}
  <2>1. <<>> \in [{} -> MapHeader] /\ <<>> \in [{} -> Grid] /\ DOMAIN <<>> = {}
    OBVIOUS
  <2>2. <<>> \in PerFile(MapHeader) /\ <<>> \in PerFile(Grid)
    BY <2>1, KnownFiles
  <2> QED
    BY <2>1, <2>2 DEF Begun, BuildRecord
<1>5. /\ builds' \in Seq(BuildRecord) /\ Len(builds') = n + 1 /\ builds'[n + 1] = Begun
      /\ \A i \in 1 .. n : builds'[i] = builds[i]
  BY <1>1, <1>2, <1>3, <1>4
<1>6. ASSUME NEW i \in 1 .. n + 1 PROVE BuildFits(builds[i])'
  <2>1. CASE i = n + 1
    <3>1. builds'[i] = Begun
      BY <1>5, <2>1
    <3> QED
      BY <1>4, <3>1 DEF BuildFits
  <2>2. CASE i # n + 1
    <3>1. i \in 1 .. n
      BY <1>2, <2>2
    <3>2. BuildFits(builds[i]) /\ builds'[i] = builds[i]
      BY <1>1, <1>5, <3>1 DEF BuildInv
    <3> QED
      BY <3>2 DEF BuildFits
  <2> QED
    BY <2>1, <2>2
<1>7. Building' \subseteq Building \cup {n + 1}
  BY <1>1, <1>2, <1>5 DEF Building
<1>8. ~crowded' => ~crowded /\ Building = {} /\ output # Broken
  BY <1>3 DEF BuildInv
<1>9. ~crowded' => \A j, k \in Building' : j = k
  BY <1>7, <1>8
<1>10. ~crowded' => output' # Broken
  BY <1>3, <1>8
<1>11. target' = Broken => crowded'
  BY <1>3 DEF BuildInv
<1>12. builds' \in Seq(BuildRecord) /\ \A i \in 1 .. Len(builds') : BuildFits(builds[i])'
  BY <1>5, <1>6
<1> QED
  BY <1>9, <1>10, <1>11, <1>12 DEF BuildInv

\* A process that is not over moves.
LEMMA OneProcessMoves ==
  ASSUME BuildInv, NEW i \in 1 .. Len(builds), builds[i].at # "ended", NEW b \in BuildRecord, BuildFits(b),
         BuildStep(i, b), UNCHANGED <<files, crowded>>,
         ~crowded /\ output' = Broken => b.at = "writing" \/ (output = Broken /\ builds[i].at # "writing"),
         target' = Broken => crowded
  PROVE  BuildInv'
<1>1. PICK n : n = Len(builds)
  OBVIOUS
<1>2. /\ n \in Nat /\ builds \in Seq(BuildRecord) /\ i \in 1 .. n
      /\ builds' = [builds EXCEPT ![i] = b] /\ files' = files /\ crowded' = crowded
  BY <1>1 DEF BuildInv, BuildStep
<1>3. /\ builds' \in Seq(BuildRecord) /\ Len(builds') = n
      /\ builds'[i] = b /\ \A j \in 1 .. n : j # i => builds'[j] = builds[j]
  BY <1>1, <1>2
<1>4. ASSUME NEW j \in 1 .. n PROVE BuildFits(builds[j])'
  <2>1. PICK k : k = builds'[j]
    OBVIOUS
  <2>2. BuildFits(k)
    BY <1>1, <1>3, <2>1 DEF BuildInv
  <2> QED
    BY <1>2, <2>1, <2>2 DEF BuildFits
<1>5. i \in Building /\ Building' \subseteq Building
  BY <1>1, <1>2, <1>3 DEF Building
<1>6. ~crowded' => \A j, k \in Building' : j = k
  <2>1. ~crowded => \A j, k \in Building : j = k
    BY DEF BuildInv
  <2> QED
    BY <1>2, <1>5, <2>1
<1>7. ASSUME ~crowded', output' = Broken PROVE \E j \in Building' : builds'[j].at = "writing"
  <2>1. CASE b.at = "writing"
    <3>1. i \in Building'
      BY <1>2, <1>3, <2>1 DEF Building
    <3> QED
      BY <1>3, <2>1, <3>1
  <2>2. CASE output = Broken /\ builds[i].at # "writing"
    <3>1. PICK j \in Building : builds[j].at = "writing"
      BY <1>2, <1>7, <2>2 DEF BuildInv
    <3>2. ~crowded => \A k, l \in Building : k = l
      BY DEF BuildInv
    <3>3. j = i
      BY <1>2, <1>5, <1>7, <3>1, <3>2
    <3> QED
      BY <2>2, <3>1, <3>3
  <2> QED
    BY <1>2, <1>7, <2>1, <2>2
<1>8. target' = Broken => crowded'
  BY <1>2
<1>9. builds' \in Seq(BuildRecord) /\ \A j \in 1 .. Len(builds') : BuildFits(builds[j])'
  BY <1>3, <1>4
<1> QED
  BY <1>6, <1>7, <1>8, <1>9 DEF BuildInv

\* A process reads, works out, writes and ends.
LEMMA ProcessesKeepBuilds ==
  ASSUME EditorInv, BuildInv, NEW i \in 1 .. Len(builds), ReadJson(i) \/ ReadCsv(i) \/ Writes(i) \/ CopiesOut(i),
         UNCHANGED <<files, crowded>>
  PROVE  BuildInv'
<1> DEFINE p == builds[i]
<1>1. p = builds[i]
  OBVIOUS
<1>2. p \in BuildRecord /\ BuildFits(p)
  BY <1>1 DEF BuildInv
<1>3. \A f \in DOMAIN files : f \in File /\ files[f] \in AllMaps
  BY DEF EditorInv, SheetFits
<1>4. target = Broken => crowded
  BY DEF BuildInv
<1>5. p.at = "started" => p \in [at : {"started"}, json : PerFile(MapHeader), cells : PerFile(Grid)]
  BY <1>2 DEF BuildRecord
<1>6. CASE ReadJson(i)
  <2> HIDE DEF p
  <2>1. PICK f \in DOMAIN files :
          /\ p.at = "started" /\ UNCHANGED <<output, target>>
          /\ BuildStep(i, [p EXCEPT !.json =
                             [g \in DOMAIN p.json \cup {f} |-> IF g = f THEN Json(files[f]) ELSE p.json[g]]])
    BY <1>1, <1>6 DEF ReadJson
  <2>2. PICK json : json = [g \in DOMAIN p.json \cup {f} |-> IF g = f THEN Json(files[f]) ELSE p.json[g]]
    OBVIOUS
  <2>3. /\ p.at = "started" /\ UNCHANGED <<output, target>>
        /\ json = [g \in DOMAIN p.json \cup {f} |-> IF g = f THEN Json(files[f]) ELSE p.json[g]]
        /\ BuildStep(i, [p EXCEPT !.json = json])
    BY <2>1, <2>2
  <2>4. json \in PerFile(MapHeader) /\ DOMAIN json = DOMAIN p.json \cup {f}
    <3>1. p.json \in PerFile(MapHeader) /\ f \in File /\ Json(files[f]) \in MapHeader
      BY <1>3, <1>5, <2>3, TwoFiles
    <3>2. PICK v, h : v = Json(files[f]) /\ h = p.json
      OBVIOUS
    <3>3. json = [g \in DOMAIN h \cup {f} |-> IF g = f THEN v ELSE h[g]]
      BY <2>3, <3>2
    <3>4. h \in PerFile(MapHeader) /\ v \in MapHeader /\ f \in File
      BY <3>1, <3>2
    <3>5. json \in PerFile(MapHeader) /\ DOMAIN json = DOMAIN h \cup {f}
      BY ONLY <3>3, <3>4, OneMoreFile
    <3> QED
      BY <3>2, <3>5
  <2>5. PICK b : b = [p EXCEPT !.json = json]
    OBVIOUS
  <2>6. b \in BuildRecord /\ b.at = "started" /\ b.json = json
    BY <1>5, <2>3, <2>4, <2>5 DEF BuildRecord
  <2>7. BuildFits(b)
    BY <1>2, <2>3, <2>4, <2>6 DEF BuildFits
  <2> QED
    BY <1>1, <1>4, <2>3, <2>5, <2>6, <2>7, OneProcessMoves
<1>7. CASE ReadCsv(i)
  <2>1. PICK f \in DOMAIN p.json \ DOMAIN p.cells :
          LET json == p.json
              cells == [g \in DOMAIN p.cells \cup {f} |-> IF g = f THEN files[f].cells ELSE p.cells[g]]
          IN IF DOMAIN cells # DOMAIN files THEN BuildStep(i, [p EXCEPT !.cells = cells]) /\ UNCHANGED output
             ELSE IF \A g \in DOMAIN json : Buildable(json[g], cells[g])
             THEN /\ BuildStep(i, [at |-> "writing", result |-> [g \in DOMAIN json |-> MapOf(json[g], cells[g])]])
                  /\ output' = Broken
             ELSE BuildStep(i, [at |-> "ended"]) /\ UNCHANGED output
    BY <1>7, Zenon DEF ReadCsv
  <2> HIDE DEF p
  <2> DEFINE cells == [g \in DOMAIN p.cells \cup {f} |-> IF g = f THEN files[f].cells ELSE p.cells[g]]
  <2>2. cells = [g \in DOMAIN p.cells \cup {f} |-> IF g = f THEN files[f].cells ELSE p.cells[g]]
    OBVIOUS
  <2>3. IF DOMAIN cells # DOMAIN files THEN BuildStep(i, [p EXCEPT !.cells = cells]) /\ UNCHANGED output
         ELSE IF \A g \in DOMAIN p.json : Buildable(p.json[g], cells[g])
         THEN /\ BuildStep(i, [at |-> "writing", result |-> [g \in DOMAIN p.json |-> MapOf(p.json[g], cells[g])]])
              /\ output' = Broken
         ELSE BuildStep(i, [at |-> "ended"]) /\ UNCHANGED output
    BY <2>1, Zenon
  <2> HIDE DEF cells
  <2>4. p.at = "started" /\ UNCHANGED target
    BY <1>1, <1>7 DEF ReadCsv
  <2>5. /\ p.json \in PerFile(MapHeader) /\ p.cells \in PerFile(Grid) /\ DOMAIN p.json \subseteq DOMAIN files
        /\ p.json \in [DOMAIN p.json -> MapHeader] /\ DOMAIN p.json \subseteq File
    BY <1>2, <1>5, <2>4, KnownFiles DEF BuildFits
  <2>6. cells \in PerFile(Grid) /\ cells \in [DOMAIN cells -> Grid]
    <3>1. f \in File /\ files[f].cells \in Grid
      BY <1>3, <2>5, TwoFiles
    <3>2. cells \in PerFile(Grid)
      <4>1. PICK v, h : v = files[f].cells /\ h = p.cells
        OBVIOUS
      <4>2. cells = [g \in DOMAIN h \cup {f} |-> IF g = f THEN v ELSE h[g]]
        BY <2>2, <4>1
      <4>3. h \in PerFile(Grid) /\ v \in Grid
        BY <2>5, <3>1, <4>1
      <4>4. f \in File
        BY <3>1
      <4> QED
        BY ONLY <4>2, <4>3, <4>4, OneMoreFile
    <3> QED
      BY <3>2, KnownFiles
  <2>7. CASE DOMAIN cells # DOMAIN files
    <3>1. PICK b : b = [p EXCEPT !.cells = cells]
      OBVIOUS
    <3>2. b \in BuildRecord /\ b.at = "started" /\ b.json = p.json
      BY <1>5, <2>4, <2>6, <3>1 DEF BuildRecord
    <3>3. BuildFits(b) /\ BuildStep(i, b) /\ UNCHANGED output
      BY <2>5, <2>7, <2>3, <3>1, <3>2 DEF BuildFits
    <3> QED
      BY <1>1, <1>4, <2>4, <3>2, <3>3, OneProcessMoves
  <2>8. CASE DOMAIN cells = DOMAIN files /\ \A g \in DOMAIN p.json : Buildable(p.json[g], cells[g])
    <3>1. PICK result : result = [g \in DOMAIN p.json |-> MapOf(p.json[g], cells[g])]
      OBVIOUS
    <3>2. ASSUME NEW g \in DOMAIN p.json PROVE Taken(result[g]) /\ result[g] \in AnyMap
      <4>1. p.json[g] \in MapHeader /\ cells[g] \in Grid
        BY <2>5, <2>6, <2>8
      <4>2. Taken(MapOf(p.json[g], cells[g]))
        BY <2>8, <4>1, BuildableIsTaken
      <4> QED
        BY <3>1, <4>2 DEF Taken, IsMap
    <3>3. result \in [DOMAIN p.json -> AnyMap] /\ DOMAIN result = DOMAIN p.json
      BY <3>1, <3>2
    <3>4. result \in PerFile(AnyMap)
      BY <2>5, <3>3, KnownFiles
    <3>5. PICK b : b = [at |-> "writing", result |-> result]
      OBVIOUS
    <3>6. b \in BuildRecord /\ b.at = "writing" /\ b.result = result
      BY <3>4, <3>5 DEF BuildRecord
    <3>7. BuildFits(b) /\ BuildStep(i, b)
      BY <2>8, <2>3, <3>1, <3>2, <3>3, <3>5, <3>6 DEF BuildFits
    <3> QED
      BY <1>1, <1>4, <2>4, <3>6, <3>7, OneProcessMoves
  <2>9. CASE DOMAIN cells = DOMAIN files /\ ~\A g \in DOMAIN p.json : Buildable(p.json[g], cells[g])
    <3>1. PICK b : b = [at |-> "ended"]
      OBVIOUS
    <3>2. b \in BuildRecord /\ b.at = "ended" /\ BuildFits(b)
      BY <3>1 DEF BuildRecord, BuildFits
    <3>3. BuildStep(i, b) /\ UNCHANGED output
      BY <2>9, <2>3, <3>1
    <3> QED
      BY <1>1, <1>4, <2>4, <3>2, <3>3, OneProcessMoves
  <2> QED
    BY <2>7, <2>8, <2>9
<1>8. CASE Writes(i)
  <2>1. PICK b : b = [at |-> "written"]
    OBVIOUS
  <2>2. b \in BuildRecord /\ b.at = "written" /\ BuildFits(b)
    BY <2>1 DEF BuildRecord, BuildFits
  <2>3. BuildStep(i, b) /\ builds[i].at = "writing" /\ output' # Broken /\ UNCHANGED target
    BY <1>8, <2>1 DEF Writes, Broken, WholeFile
  <2> QED
    BY <1>4, <2>2, <2>3, OneProcessMoves
<1>9. CASE CopiesOut(i)
  <2>1. PICK b : b = [at |-> "ended"]
    OBVIOUS
  <2>2. b \in BuildRecord /\ b.at = "ended" /\ BuildFits(b)
    BY <2>1 DEF BuildRecord, BuildFits
  <2>3. BuildStep(i, b) /\ builds[i].at = "written" /\ UNCHANGED output /\ target' = output
    BY <1>9, <2>1 DEF CopiesOut
  <2>4. output = Broken => crowded
    <3> SUFFICES ASSUME output = Broken, ~crowded PROVE FALSE
      OBVIOUS
    <3>1. PICK j \in Building : builds[j].at = "writing"
      BY DEF BuildInv
    <3>2. i \in Building
      BY <2>3 DEF Building
    <3>3. i = j
      BY <3>2 DEF BuildInv
    <3> QED
      BY <2>3, <3>1, <3>3
  <2> QED
    BY <2>2, <2>3, <2>4, OneProcessMoves
<1> QED
  BY <1>6, <1>7, <1>8, <1>9

-----------------------------------------------------------------------------
(* Maps: the invariant.                                                     *)

\* What is on the author's sheet, in the files and in the builder's processes.
MapToolsInv == EditorInv /\ BuildInv

\* At the start the editor shows the one map there is, and nothing is built.
LEMMA MapToolsStarts == MapToolsInit => MapToolsInv
<1> SUFFICES ASSUME MapToolsInit PROVE MapToolsInv
  OBVIOUS
<1>1. PICK m : m = Plaza
  OBVIOUS
<1>2. m \in AllMaps
  BY <1>1, FirstMaps
<1>3. /\ sheet = [file |-> "plaza", map |-> m] /\ undos = <<>> /\ redos = <<>> /\ fetched = NoSheet
      /\ saving = NoSheet /\ files = [f \in {"plaza"} |-> m]
  BY <1>1 DEF MapToolsInit
<1>4. SheetFits
  BY <1>2, <1>3 DEF SheetFits, File
<1>5. SaveIsOfTheSheet /\ CleanMeansSaved
  BY <1>3 DEF SaveIsOfTheSheet, CleanMeansSaved
<1>6. BuildInv
  <2>1. builds = <<>> /\ output = "none" /\ target = "none" /\ Building = {}
    BY DEF MapToolsInit, Building
  <2>2. builds \in Seq(BuildRecord) /\ Len(builds) = 0
    BY <2>1
  <2> QED
    BY <2>1, <2>2 DEF BuildInv, Broken
<1> QED
  BY <1>4, <1>5, <1>6 DEF MapToolsInv, EditorInv

\* The processes leave the sheet and the files alone.
LEMMA BuildsLeaveTheSheet ==
  ASSUME EditorInv, Builds
  PROVE  EditorInv'
<1>1. UNCHANGED <<sheet, undos, redos, dirty, late, fetched, saving, files>>
  BY DEF Builds, editVars
<1> QED
  BY <1>1 DEF EditorInv, SheetFits, SaveIsOfTheSheet, CleanMeansSaved

\* What the author does, but for starting a process, leaves the processes alone.
LEMMA AuthorLeavesBuilds ==
  ASSUME EditorInv, BuildInv,
         \/ Brush \/ Drag \/ Mark \/ Unzone \/ SetBarrier \/ Resize \/ Schedule \/ Undo \/ Redo
         \/ OpenMap \/ MapOpened \/ NewMap \/ Save \/ PutMap \/ SaveFails
  PROVE  BuildInv'
<1>1. UNCHANGED buildVars
  BY DEF Brush, Drag, Mark, Unzone, SetBarrier, Resize, Schedule, Undo, Redo, OpenMap, MapOpened, NewMap,
         Save, PutMap, SaveFails, serverVars
<1>2. PutMap => DOMAIN files' = DOMAIN files \cup {saving.file}
  BY DEF PutMap
<1>3. ~PutMap => files' = files
  BY DEF Brush, Drag, Mark, Unzone, SetBarrier, Resize, Schedule, Undo, Redo, OpenMap, MapOpened, NewMap,
         Save, SaveFails, serverVars
<1> QED
  BY <1>1, <1>2, <1>3, BuildsStay

\* The answer to a save, and the build button, may start a process.
LEMMA StartingKeepsBuilds ==
  ASSUME EditorInv, BuildInv, SaveEnds \/ Build
  PROVE  BuildInv'
<1>1. files' = files
  BY DEF SaveEnds, Build
<1>2. StartBuild \/ UNCHANGED buildVars
  BY DEF SaveEnds, SaveAnswered, Build
<1> QED
  BY <1>1, <1>2, BuildsStay, StartKeepsBuilds

\* Every step keeps the invariant.
LEMMA MapToolsKeeps == MapToolsInv /\ [MapToolsNext]_mapVars => MapToolsInv'
<1> SUFFICES ASSUME EditorInv, BuildInv, [MapToolsNext]_mapVars PROVE EditorInv' /\ BuildInv'
  BY DEF MapToolsInv
<1>1. CASE Brush \/ Drag \/ Mark \/ Unzone \/ Schedule
  BY <1>1, DrawingKeeps, AuthorLeavesBuilds
<1>2. CASE SetBarrier \/ Resize \/ Undo \/ Redo
  BY <1>2, RearrangingKeeps, AuthorLeavesBuilds
<1>3. CASE OpenMap \/ MapOpened \/ NewMap
  BY <1>3, AnotherMapKeeps, AuthorLeavesBuilds
<1>4. CASE Save \/ PutMap \/ SaveFails
  BY <1>4, SavingKeeps, AuthorLeavesBuilds
<1>5. CASE SaveEnds \/ Build
  BY <1>5, SavingKeeps, StartingKeepsBuilds
<1>6. CASE Builds
  <2>1. PICK i \in 1 .. Len(builds) : ReadJson(i) \/ ReadCsv(i) \/ Writes(i) \/ CopiesOut(i)
    BY <1>6 DEF Builds
  <2>2. UNCHANGED <<files, crowded>>
    BY <1>6 DEF Builds
  <2> QED
    BY <1>6, <2>1, <2>2, ProcessesKeepBuilds, BuildsLeaveTheSheet
<1>7. CASE UNCHANGED mapVars
  <2>1. UNCHANGED <<sheet, undos, redos, dirty, late, fetched, saving, files>> /\ UNCHANGED buildVars
    BY <1>7 DEF mapVars, buildVars
  <2>2. EditorInv'
    BY <2>1 DEF EditorInv, SheetFits, SaveIsOfTheSheet, CleanMeansSaved
  <2> QED
    BY <2>1, <2>2, BuildsStay
<1> QED
  BY <1>1, <1>2, <1>3, <1>4, <1>5, <1>6, <1>7 DEF MapToolsNext

\* In every state the editor, the builder, the loader and the game agree.
LEMMA MapToolsAgree == MapToolsInv => MapsPlayAsDrawn
<1> SUFFICES ASSUME EditorInv, BuildInv PROVE MapsPlayAsDrawn
  BY DEF MapToolsInv
<1>1. BundlePlaysAsShown
  <2> SUFFICES ASSUME NEW i \in Building, builds[i].at = "writing", NEW sources, sources = builds[i].result,
                      NEW bundle, bundle = [f \in DOMAIN sources |-> Bundle(sources[f])]
               PROVE  parseMapBundle(bundle) /\ \A f \in DOMAIN sources : Shown(sources[f], bundle[f])
    BY DEF BundlePlaysAsShown
  <2>1. DOMAIN sources # {} /\ \A f \in DOMAIN sources : Taken(sources[f])
    BY DEF BuildInv, BuildFits, Building
  <2>2. \A f \in DOMAIN sources : parseMap(bundle[f]) /\ Shown(sources[f], bundle[f])
    BY <2>1, LoaderAgrees, BuiltIsShown
  <2> QED
    BY <2>1, <2>2 DEF parseMapBundle
<1>2. BuildFollowsTheEditor
  <2> SUFFICES ASSUME saving # NoSheet, ~problems(saving.map)
               PROVE  validate_map_layers(Json(saving.map), saving.map.cells)
    BY DEF BuildFollowsTheEditor
  <2>1. IsMap(saving.map)
    BY DEF EditorInv, SheetFits, AllMaps
  <2> QED
    BY <2>1, EditorIsStricter
<1> QED
  BY <1>1, <1>2 DEF MapsPlayAsDrawn, EditorInv, BuildInv

\* MapsPlayAsDrawn, for maps of any size, any storm, markers, zones and changes of
\* cells, any number of edits and builds and whatever the order of their steps: what
\* the builder writes the loader accepts, and in a game it plays, tick by tick, as
\* the editor's picture shows it; a map the editor finds no fault with is valid for
\* the builder; a sheet that counts as saved is the file, unless it was changed while
\* the save was under way; and the servers' file is whole unless two builds ran at
\* once (editor.js simulate, problems, save; builder.py; server.cjs; map-loader.ts;
\* step.ts applyMapTimeline).
THEOREM MapsPlayAlways == MapToolsSpec => []MapsPlayAsDrawn
<1>1. MapToolsInit => MapToolsInv
  BY MapToolsStarts
<1>2. MapToolsInv /\ [MapToolsNext]_mapVars => MapToolsInv'
  BY MapToolsKeeps
<1>3. MapToolsInv => MapsPlayAsDrawn
  BY MapToolsAgree
<1> QED
  BY <1>1, <1>2, <1>3, PTL DEF MapToolsSpec

=============================================================================
