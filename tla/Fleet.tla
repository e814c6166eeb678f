-------------------------------- MODULE Fleet -------------------------------
(* The supervisor and the game servers it starts and puts to sleep           *)
(* (server-supervisor/src/main.ts, policy.ts; the drain in                   *)
(* server-game/src/main.ts). The supervisor knows its children from process  *)
(* events and their state from heartbeats in Redis, which are older than the *)
(* processes and may be missing. The load is any.                            *)
EXTENDS Naturals, FiniteSets

CONSTANTS GameServer,   \* names of processes; an exited one's name is used again
          MinServers, MaxServers,
          MaxFaults     \* bound: processes that die, lose Redis, or are put to sleep by others

ASSUME FleetAssumption ==
  /\ IsFiniteSet(GameServer)
  /\ MinServers \in Nat \ {0} /\ MaxServers \in Nat /\ MinServers <= MaxServers
  /\ MaxFaults \in Nat

VARIABLES proc,      \* each process: none, starting, serving, draining, exited
          heartbeat, \* its heartbeat in Redis: none, serving, draining
          child,     \* the children map
          seenChild, \* children whose seen is set
          drainSent, \* servers with a DRAIN_SERVER they have not read
          cooldownOn,  \* the last action is less than cooldownMs ago
          faults

fleetVars == <<proc, heartbeat, child, seenChild, drainSent, cooldownOn, faults>>

FleetInit ==
  /\ proc = [s \in GameServer |-> "none"] /\ heartbeat = [s \in GameServer |-> "none"]
  /\ child = {} /\ seenChild = {} /\ drainSent = {}
  /\ cooldownOn = FALSE
  /\ faults = 0

-----------------------------------------------------------------------------
(* tick. What happens between its read of the heartbeats and its decision    *)
(* changes heartbeats, which it has read, or children, which it reads then: a *)
(* heartbeat written in between is one written after the tick.               *)
Reported(what) == {s \in GameServer : heartbeat[s] = what}
SeenNow == seenChild \cup {s \in child : heartbeat[s] # "none"}
Starting == child \ SeenNow
CapacitySeen == Cardinality(Reported("serving")) + Cardinality(Starting)

\* decideLocalScaling: whether another process may run beside the children; then
\* decideScaling with a low, middle or high average load.
BelowCap == Cardinality(child) < MaxServers

WantsUp(load) ==
  \/ CapacitySeen < MinServers
  \/ /\ ~cooldownOn /\ Starting = {} /\ load = "high" /\ CapacitySeen < MaxServers

WantsDown(load) ==
  /\ ~WantsUp(load) /\ CapacitySeen >= MinServers
  /\ ~cooldownOn /\ Starting = {} /\ Reported("draining") = {}
  /\ load = "low" /\ Cardinality(Reported("serving")) > MinServers

\* spawnServer, under a name that is not in use: which one makes no difference.
Fresh(s) == proc[s] \in {"none", "exited"} /\ s \notin child /\ heartbeat[s] = "none"

ScaleUp(load, s) ==
  /\ WantsUp(load) /\ BelowCap
  /\ Fresh(s) /\ s = (CHOOSE f \in GameServer : Fresh(f))
  /\ proc' = [proc EXCEPT ![s] = "starting"]
  /\ child' = child \cup {s} /\ seenChild' = SeenNow \ {s}
  /\ drainSent' = drainSent \ {s}
  /\ cooldownOn' = TRUE
  /\ UNCHANGED <<heartbeat, faults>>

\* sendDrain to the quietest; the write may fail.
ScaleDown(load, s) ==
  /\ WantsDown(load) /\ s \in Reported("serving")
  /\ drainSent' \in {drainSent, drainSent \cup {s}}
  /\ seenChild' = SeenNow
  /\ cooldownOn' = TRUE
  /\ UNCHANGED <<proc, heartbeat, child, faults>>

HoldFleet(load) ==
  /\ ~(WantsUp(load) /\ BelowCap) /\ ~WantsDown(load)
  /\ seenChild' = SeenNow
  /\ UNCHANGED <<proc, heartbeat, child, drainSent, cooldownOn, faults>>

\* The cooldown ends; a drain command's deadline is not longer than it.
CooldownEnds ==
  /\ cooldownOn /\ cooldownOn' = FALSE /\ drainSent' = {}
  /\ UNCHANGED <<proc, heartbeat, child, seenChild, faults>>

\* The exit or error event; and a handler that keeps a child it never saw.
KeptUnlessSeen(s) == IF s \in seenChild THEN child \ {s} ELSE child
Remaining(s) == child \ {s}

ChildExits(s) ==
  /\ s \in child /\ proc[s] = "exited"
  /\ child' = Remaining(s) /\ seenChild' = seenChild \cap child'
  /\ UNCHANGED <<proc, heartbeat, drainSent, cooldownOn, faults>>

-----------------------------------------------------------------------------
(* The game servers.                                                         *)
Started(s) ==
  /\ proc[s] = "starting" /\ proc' = [proc EXCEPT ![s] = "serving"]
  /\ UNCHANGED <<heartbeat, child, seenChild, drainSent, cooldownOn, faults>>

Beats(s) ==
  /\ proc[s] \in {"serving", "draining"} /\ heartbeat[s] # proc[s]
  /\ heartbeat' = [heartbeat EXCEPT ![s] = proc[s]]
  /\ UNCHANGED <<proc, child, seenChild, drainSent, cooldownOn, faults>>

\* A heartbeat's TTL runs out: its process is gone, or does not reach Redis.
BeatExpires(s) ==
  /\ heartbeat[s] # "none" /\ heartbeat' = [heartbeat EXCEPT ![s] = "none"]
  /\ \/ proc[s] = "exited" /\ UNCHANGED faults
     \/ proc[s] # "exited" /\ faults < MaxFaults /\ faults' = faults + 1
  /\ UNCHANGED <<proc, child, seenChild, drainSent, cooldownOn>>

\* shutdown by the supervisor's command, or by another one or a signal.
Drain(s) ==
  /\ proc[s] = "serving"
  /\ \/ s \in drainSent /\ drainSent' = drainSent \ {s} /\ UNCHANGED faults
     \/ faults < MaxFaults /\ faults' = faults + 1 /\ UNCHANGED drainSent
  /\ proc' = [proc EXCEPT ![s] = "draining"]
  /\ heartbeat' \in {heartbeat, [heartbeat EXCEPT ![s] = "draining"]}
  /\ UNCHANGED <<child, seenChild, cooldownOn>>

\* waitForEmptyRooms is over; or the process dies.
DrainEnds(s) ==
  /\ proc[s] = "draining" /\ proc' = [proc EXCEPT ![s] = "exited"]
  /\ UNCHANGED <<heartbeat, child, seenChild, drainSent, cooldownOn, faults>>

ServerCrashes(s) ==
  /\ faults < MaxFaults /\ proc[s] \in {"starting", "serving", "draining"}
  /\ proc' = [proc EXCEPT ![s] = "exited"] /\ faults' = faults + 1
  /\ UNCHANGED <<heartbeat, child, seenChild, drainSent, cooldownOn>>

FleetNext ==
  \/ CooldownEnds
  \/ \E load \in {"low", "middle", "high"} :
       \/ HoldFleet(load)
       \/ \E s \in GameServer : ScaleUp(load, s) \/ ScaleDown(load, s)
  \/ \E s \in GameServer :
       \/ ChildExits(s) \/ Started(s) \/ Beats(s) \/ BeatExpires(s)
       \/ Drain(s) \/ DrainEnds(s) \/ ServerCrashes(s)

\* Ticks go on and reach Redis; a process that starts comes up or dies; games
\* end; exit events are delivered and the keys of the dead expire.
FleetTick ==
  \E load \in {"low", "middle", "high"} :
    \/ HoldFleet(load)
    \/ \E s \in GameServer : ScaleUp(load, s) \/ ScaleDown(load, s)

FleetProcessFairness ==
  \A s \in GameServer :
    /\ WF_fleetVars(ChildExits(s)) /\ WF_fleetVars(Started(s))
    /\ WF_fleetVars(DrainEnds(s))
    /\ WF_fleetVars(proc[s] = "exited" /\ BeatExpires(s))

FleetFairness == WF_fleetVars(FleetTick) /\ FleetProcessFairness

FleetSpec == FleetInit /\ [][FleetNext]_fleetVars /\ FleetFairness

-----------------------------------------------------------------------------
LiveProcesses == {s \in GameServer : proc[s] \in {"starting", "serving", "draining"}}

\* Whatever the heartbeats say, late, missing or those of servers falling asleep,
\* no more processes run than the policy allows (main.ts decideLocalScaling).
FleetStaysBounded == Cardinality(LiveProcesses) <= MaxServers

\* Once the first server was started the players always get one again: when fewer
\* than the minimum serve, as many come up, though processes die while they
\* start, servers are put to sleep from outside, and heartbeats are stale
\* (policy.ts decideScaling).
MinimumComesBack ==
  (child # {} /\ Cardinality({s \in GameServer : proc[s] = "serving"}) < MinServers) ~>
    Cardinality({s \in GameServer : proc[s] = "serving"}) >= MinServers

\* The fleet keeps to its size, from above always and from below in the end.
FleetHoldsItsSize == []FleetStaysBounded /\ MinimumComesBack

=============================================================================
