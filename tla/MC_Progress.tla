---------------------------- MODULE MC_Progress -----------------------------
(* What must get on. A behaviour is one of one component, chosen at the start; *)
(* the others stay where they began.                                          *)
EXTENDS Room, StartLock, Training, Sanctions, Evidence, Fleet, Gateway, TLC

VARIABLE part

Path == [u1 |-> "b1"]

\* Rounds of several processes overlap until the player is reported; later on
\* one process cleans up.
CleanUpNext ==
  LET leader == CHOOSE w \in Sweeper : TRUE
  IN  /\ EvidenceNext
      /\ \A w \in Sweeper \ {leader} : sweep'[w] # "idle" => caseStatus' = "none"

banVars == <<status, bans>>

\* Nobody locks the room, which keeps nobody in it from getting on.
UnlockedNext == Next /\ locked' = locked

inRoom == <<vars, lockVars, trainingVars>>
inPlatform == <<banVars, evidenceVars, fleetVars, gatewayVars>>
all == <<inRoom, inPlatform, part>>

Part == {"room", "lock", "training", "bans", "evidence", "fleet", "downloads"}

\* Of a component that stands still one initial state is enough.
Standing ==
  part # "room" => phase = "Allocating" /\ held[CHOOSE u \in User : TRUE] = 1

ProgressInit ==
  /\ part \in Part
  /\ Init /\ LockInit /\ TrainingInit /\ SanctionsInit /\ EvidenceInit /\ FleetInit /\ GatewayInit
  /\ Standing

ProgressNext ==
  \/ /\ part = "room" /\ UnlockedNext
     /\ UNCHANGED <<lockVars, trainingVars, inPlatform, part>>
  \/ /\ part = "lock" /\ LockNext
     /\ UNCHANGED <<vars, trainingVars, inPlatform, part>>
  \/ /\ part = "training" /\ TrainingNext
     /\ UNCHANGED <<vars, lockVars, inPlatform, part>>
  \/ /\ part = "bans" /\ SanctionsNext
     /\ UNCHANGED <<evidenceVars, fleetVars, gatewayVars, inRoom, part>>
  \/ /\ part = "evidence" /\ CleanUpNext
     /\ UNCHANGED <<banVars, fleetVars, gatewayVars, inRoom, part>>
  \/ /\ part = "fleet" /\ FleetNext
     /\ UNCHANGED <<banVars, evidenceVars, gatewayVars, inRoom, part>>
  \/ /\ part = "downloads" /\ DownloadsNext
     /\ UNCHANGED <<banVars, evidenceVars, fleetVars, inRoom, part>>

\* A component that stands still owes nothing; where no fair action is enabled in
\* its first state its own fairness says so.
ProgressFairness ==
  /\ Fairness
  /\ WF_banVars(RunScheduledReconciliation)
  /\ WF_lockVars(LockTick)
  /\ WF_trainingVars(part = "training" /\ TrainingTick)
  /\ GatewayFairness
  /\ WF_evidenceVars(part = "evidence" /\ \E w \in Sweeper : BeginSweep(w))
  /\ EvidenceStepFairness
  /\ WF_fleetVars(part = "fleet" /\ FleetTick)
  /\ FleetProcessFairness

ProgressSpec == ProgressInit /\ [][ProgressNext]_all /\ ProgressFairness

=============================================================================
