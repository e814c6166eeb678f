------------------------------- MODULE Gateway ------------------------------
(* The gateway (server-gateway/src/main.ts, registry-view.ts, routing.ts):   *)
(* WebSocket upgrades for servers its cached list may not know yet, with     *)
(* lookups in Redis that callers give up and that a refresh of the list may  *)
(* overtake; and downloads that any server can answer, sent once more when a *)
(* connection fails. A socket may close at any await.                        *)
EXTENDS Naturals, FiniteSets

CONSTANTS Upgrade,     \* upgrade requests
          Backend,     \* game servers
          PathOf,      \* the server named in each upgrade's path
          ReadBudget,  \* bound of pendingReads (16 in the code)
          LookupBudget \* bound of lookupCount in a window (16 in the code)

ASSUME GatewayAssumption ==
  /\ IsFiniteSet(Upgrade) /\ PathOf \in [Upgrade -> Backend]
  /\ ReadBudget \in Nat \ {0} /\ LookupBudget \in Nat \ {0}

VARIABLES beating,       \* servers with a valid heartbeat in Redis
          routeTable,    \* #servers
          refreshes,     \* what each refresh under way has read; they may overlap
          lookupBy,      \* #lookups: the upgrade that started each one, or "no"
          reads,         \* upgrades whose Redis read has not settled
          pendingReads,  \* the reads that #pendingReads accounts for
          lookupCount,
          wsSocket,      \* the client's socket: open, closed
          wsPhase,       \* new, looking, settled, linked, over
          wsFound,       \* the lookup this upgrade waited for found its server
          wsUpstream,    \* none, connecting, open, closed
          wsRefused,     \* answered 502
          relay          \* a download: its state, backends left, its client

registryVars == <<beating, routeTable, refreshes, lookupBy, reads, pendingReads,
                  lookupCount>>
upgradeVars == <<wsSocket, wsPhase, wsFound, wsUpstream, wsRefused>>
gatewayVars == <<registryVars, upgradeVars, relay>>

GatewayInit ==
  /\ beating = {} /\ routeTable = {} /\ refreshes = {}
  /\ lookupBy = [b \in Backend |-> "no"] /\ reads = {} /\ pendingReads = {}
  /\ lookupCount = 0
  /\ wsSocket = [u \in Upgrade |-> "open"] /\ wsPhase = [u \in Upgrade |-> "new"]
  /\ wsFound = [u \in Upgrade |-> FALSE] /\ wsUpstream = [u \in Upgrade |-> "none"]
  /\ wsRefused = {}
  /\ relay = [st |-> "none", left |-> 0, client |-> "open"]

-----------------------------------------------------------------------------
(* The list of servers.                                                      *)
HeartbeatChanges(b) ==
  /\ beating' = IF b \in beating THEN beating \ {b} ELSE beating \cup {b}
  /\ UNCHANGED <<routeTable, refreshes, lookupBy, reads, pendingReads, lookupCount,
                 upgradeVars, relay>>

TableReads ==
  /\ refreshes' = refreshes \cup {beating}
  /\ UNCHANGED <<beating, routeTable, lookupBy, reads, pendingReads, lookupCount,
                 upgradeVars, relay>>

\* The list is replaced; when a read fails the last one is kept.
TableReplaced(read) ==
  /\ refreshes' = refreshes \ {read}
  /\ routeTable' \in {routeTable, read}
  /\ UNCHANGED <<beating, lookupBy, reads, pendingReads, lookupCount, upgradeVars, relay>>

WindowTurns ==
  /\ lookupCount > 0 /\ lookupCount' = 0
  /\ UNCHANGED <<beating, routeTable, refreshes, lookupBy, reads, pendingReads,
                 upgradeVars, relay>>

-----------------------------------------------------------------------------
(* handleUpgrade and ensureServer.                                           *)
Link(u) ==
  /\ wsPhase' = [wsPhase EXCEPT ![u] = "linked"]
  /\ wsUpstream' = [wsUpstream EXCEPT ![u] = "connecting"]
  /\ UNCHANGED <<wsSocket, wsFound, wsRefused>>

RefuseUpgrade(u) ==
  /\ wsPhase' = [wsPhase EXCEPT ![u] = "over"]
  /\ wsRefused' = wsRefused \cup {u}
  /\ UNCHANGED <<wsSocket, wsFound, wsUpstream>>

AwaitLookup(u) ==
  /\ wsPhase' = [wsPhase EXCEPT ![u] = "looking"]
  /\ UNCHANGED <<wsSocket, wsFound, wsUpstream, wsRefused>>

WithinBudget == lookupCount < LookupBudget /\ Cardinality(pendingReads) < ReadBudget

HandleUpgrade(u) ==
  LET b == PathOf[u] IN
  /\ wsPhase[u] = "new" /\ wsSocket[u] = "open"
  /\ UNCHANGED <<beating, routeTable, refreshes, relay>>
  /\ \/ /\ b \in routeTable /\ Link(u)
        /\ UNCHANGED <<lookupBy, reads, pendingReads, lookupCount>>
     \/ /\ b \notin routeTable /\ lookupBy[b] # "no" /\ AwaitLookup(u)
        /\ UNCHANGED <<lookupBy, reads, pendingReads, lookupCount>>
     \/ /\ b \notin routeTable /\ lookupBy[b] = "no" /\ ~WithinBudget /\ RefuseUpgrade(u)
        /\ UNCHANGED <<lookupBy, reads, pendingReads, lookupCount>>
     \/ /\ b \notin routeTable /\ lookupBy[b] = "no" /\ WithinBudget /\ AwaitLookup(u)
        /\ lookupBy' = [lookupBy EXCEPT ![b] = u]
        /\ reads' = reads \cup {u} /\ pendingReads' = pendingReads \cup {u}
        /\ lookupCount' = lookupCount + 1

\* Everybody who shares the lookup of b gets its answer.
Settle(b, found) ==
  LET waiting == {u \in Upgrade : wsPhase[u] = "looking" /\ PathOf[u] = b} IN
  /\ wsPhase' = [u \in Upgrade |-> IF u \in waiting THEN "settled" ELSE wsPhase[u]]
  /\ wsFound' = [u \in Upgrade |-> IF u \in waiting THEN found ELSE wsFound[u]]
  /\ lookupBy' = [lookupBy EXCEPT ![b] = "no"]

\* The read settles, with the heartbeat or an error; nobody may be waiting any more.
ReadSettles(u) ==
  LET b == PathOf[u] IN
  /\ u \in reads /\ reads' = reads \ {u} /\ pendingReads' = pendingReads \ {u}
  /\ IF lookupBy[b] = u
     THEN \/ Settle(b, FALSE) /\ UNCHANGED routeTable
          \/ b \in beating /\ Settle(b, TRUE) /\ routeTable' = routeTable \cup {b}
     ELSE UNCHANGED <<wsPhase, wsFound, lookupBy, routeTable>>
  /\ UNCHANGED <<beating, refreshes, lookupCount, wsSocket, wsUpstream, wsRefused, relay>>

\* The caller gives up after a second; the read goes on and stays in the budget.
ReadGoesOn(b) == pendingReads

LookupTimesOut(b) ==
  /\ lookupBy[b] # "no" /\ Settle(b, FALSE)
  /\ pendingReads' = ReadGoesOn(b)
  /\ UNCHANGED <<beating, routeTable, refreshes, reads, lookupCount, wsSocket, wsUpstream,
                 wsRefused, relay>>

\* Whether the client's socket is gone after the await.
SocketDestroyed(u) == wsSocket[u] = "closed"

\* Which answer counts, and a handler that asks the list again.
InTheTable(u) == PathOf[u] \in routeTable
Resolved(u) == wsFound[u]

ContinueUpgrade(u) ==
  /\ wsPhase[u] = "settled"
  /\ IF SocketDestroyed(u)
     THEN /\ wsPhase' = [wsPhase EXCEPT ![u] = "over"]
          /\ UNCHANGED <<wsSocket, wsFound, wsUpstream, wsRefused>>
     ELSE IF Resolved(u) THEN Link(u) ELSE RefuseUpgrade(u)
  /\ UNCHANGED <<registryVars, relay>>

UpstreamConnects(u) ==
  /\ wsUpstream[u] = "connecting" /\ wsUpstream' = [wsUpstream EXCEPT ![u] = "open"]
  /\ UNCHANGED <<registryVars, wsSocket, wsPhase, wsFound, wsRefused, relay>>

\* One side ends, fails or times out, and the other is destroyed; a client's
\* socket that closes before the upstream exists has no other side yet.
UpstreamCloses(u) ==
  /\ wsUpstream[u] \in {"connecting", "open"} /\ wsSocket[u] = "open"
  /\ wsUpstream' = [wsUpstream EXCEPT ![u] = "closed"]
  /\ wsSocket' = [wsSocket EXCEPT ![u] = "closed"] /\ wsPhase' = [wsPhase EXCEPT ![u] = "over"]
  /\ UNCHANGED <<registryVars, wsFound, wsRefused, relay>>

SocketCloses(u) ==
  /\ wsSocket[u] = "open" /\ wsSocket' = [wsSocket EXCEPT ![u] = "closed"]
  /\ IF wsPhase[u] = "linked"
     THEN /\ wsUpstream' = [wsUpstream EXCEPT ![u] = "closed"]
          /\ wsPhase' = [wsPhase EXCEPT ![u] = "over"]
     ELSE UNCHANGED <<wsUpstream, wsPhase>>
  /\ UNCHANGED <<registryVars, wsFound, wsRefused, relay>>

-----------------------------------------------------------------------------
(* handleRequest: left is the number of backends that can still be tried, one *)
(* at most. A request refused at once (path, method, body, limit, no server)  *)
(* is over.                                                                   *)
Become(st, left) ==
  /\ relay' = [st |-> st, left |-> left, client |-> relay.client]
  /\ UNCHANGED <<registryVars, upgradeVars>>

HandleRequest ==
  /\ relay.st = "none"
  /\ \/ Become("over", 0)
     \/ \E others \in 0..1 : Become("forwarded", others)

BackendAnswers == relay.st = "forwarded" /\ Become("streaming", 0)

MayRetry == relay.client = "open" /\ relay.left > 0

RequestError ==
  /\ relay.st \in {"forwarded", "destroyed"}
  /\ \/ MayRetry /\ Become("forwarded", relay.left - 1)
     \/ ~MayRetry /\ Become("over", 0)

ResponseTimesOut ==
  /\ relay.st = "forwarded" /\ relay.client = "open" /\ Become("over", 0)

StreamEnds == relay.st = "streaming" /\ Become("over", 0)

\* The body stands still for responseTimeoutMs; and without that timer.
NoTimer == FALSE
BodyTimer == relay.st = "streaming"

StreamStalls == BodyTimer /\ Become("over", 0)

\* The client goes: aborted and close destroy the request, whose error comes later.
DownloadAborted ==
  /\ relay.client = "open" /\ relay.st \in {"forwarded", "streaming"}
  /\ relay' = [st |-> IF relay.st = "forwarded" THEN "destroyed" ELSE "over",
                left |-> relay.left, client |-> "closed"]
  /\ UNCHANGED <<registryVars, upgradeVars>>

-----------------------------------------------------------------------------
UpgradesNext ==
  \/ TableReads \/ WindowTurns
  \/ \E read \in refreshes : TableReplaced(read)
  \/ \E b \in Backend : HeartbeatChanges(b) \/ LookupTimesOut(b)
  \/ \E u \in Upgrade :
       \/ HandleUpgrade(u) \/ ReadSettles(u) \/ ContinueUpgrade(u)
       \/ UpstreamConnects(u) \/ UpstreamCloses(u) \/ SocketCloses(u)

DownloadsNext ==
  \/ HandleRequest \/ BackendAnswers \/ RequestError \/ ResponseTimesOut
  \/ StreamEnds \/ StreamStalls \/ DownloadAborted

GatewayNext == UpgradesNext \/ DownloadsNext

\* Timers fire and destroyed requests report it; nothing is asked of a backend.
GatewayFairness ==
  /\ WF_gatewayVars(ResponseTimesOut) /\ WF_gatewayVars(StreamStalls)
  /\ WF_gatewayVars(RequestError /\ relay.st = "destroyed")

GatewaySpec == GatewayInit /\ [][GatewayNext]_gatewayVars /\ GatewayFairness

-----------------------------------------------------------------------------
\* Whatever closes while the gateway waits for Redis or for a backend, it holds
\* no connection to a game server on behalf of a client that has gone
\* (main.ts handleUpgrade, handleRequest).
UpstreamsHaveAClient ==
  /\ \A u \in Upgrade : wsUpstream[u] \in {"connecting", "open"} => wsSocket[u] = "open"
  /\ relay.st \in {"forwarded", "streaming"} => relay.client = "open"

\* Callers who give up and come again never drive more reads into a slow Redis
\* than the budget (registry-view.ts ensureServer, pendingReads).
ReadsStayInBudget == Cardinality(reads) <= ReadBudget

\* A player whose server the lookup found is sent there, though a refresh that
\* began earlier has taken the server out of the list again (main.ts handleUpgrade).
FoundServersAreReached == \A u \in wsRefused : ~wsFound[u]

\* The gateway keeps faith with whoever still waits, and only with them: no
\* upstream without a client, no refusal of a server it found, no more reads than
\* its budget (main.ts handleUpgrade, registry-view.ts ensureServer).
UpgradesAreServed == UpstreamsHaveAClient /\ FoundServersAreReached /\ ReadsStayInBudget

\* Every download comes to an end, whatever backend and client do (main.ts).
EveryDownloadEnds == relay.st = "forwarded" ~> relay.st = "over"

=============================================================================
