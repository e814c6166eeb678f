------------------------------- MODULE Match --------------------------------
(* One match: the rules of the simulation (simulation/step.ts, skills.ts,    *)
(* effects.ts) under the game session that drives them                       *)
(* (game/game-session.ts, game-lifecycle.ts).                                *)
(*                                                                           *)
(* A tick is one synchronous call. Here it is BeginTick, a UseSkill for each *)
(* queued request in the order of the player numbers, and EndTick; nothing   *)
(* else may run between them. Positions are left out: who is within range    *)
(* and who touches whom is any choice, and so is how long a cooldown or a    *)
(* frenzy lasts.                                                             *)
EXTENDS Integers, FiniteSets, FiniteSetsExt

CONSTANTS Player,          \* the room's player numbers
          WinnersWanted,  \* GAMEPLAY.SURVIVORS_TO_WIN
          MaxMatchTicks,   \* GAMEPLAY.MAX_MATCH_DURATION_TICKS
          RotateTicks,     \* GAMEPLAY.TAGGER_CHANGE_COOLDOWN_MS in ticks
          MaxSkillRequests      \* bound: skill requests in one tick

ASSUME MatchAssumption ==
  /\ Player \subseteq Nat /\ IsFiniteSet(Player) /\ Player # {}
  /\ WinnersWanted \in Nat /\ MaxMatchTicks \in Nat
  /\ RotateTicks \in Nat /\ MaxSkillRequests \in Nat

VARIABLES stage,      \* waiting for a tick, inside it, or how the match ended
          tick,
          survivors,
          taggers,    \* the players whose isTagger is set
          changedAt,  \* taggerChangedAtTick
          frenzy,     \* who has the frenzy effect
          cooling,    \* whose switch is on cooldown
          requests,   \* pendingSkills: <<player, target>>, switches only
          outAt,      \* stats.eliminatedAtTick, -1 for undefined
          tagCount, taggedCount,
          winners,    \* what finishGame was told
          result      \* what onFinished was told

worldVars == <<stage, tick, survivors, taggers, changedAt, frenzy, cooling, requests,
               outAt, tagCount, taggedCount, winners, result>>

Running == stage \in {"waiting", "skills"}
NoResult == [winners |-> {}, survived |-> [p \in Player |-> 0], tags |-> 0, tagged |-> 0]

MatchTypeOK ==
  /\ stage \in {"waiting", "skills", "saving", "reported", "stopped"}
  /\ tick \in Nat /\ changedAt \in Nat
  /\ survivors \subseteq Player /\ taggers \subseteq Player
  /\ frenzy \subseteq Player /\ cooling \subseteq Player
  /\ requests \subseteq Player \X Player
  /\ outAt \in [Player -> Int]
  /\ tagCount \in [Player -> Nat] /\ taggedCount \in [Player -> Nat]
  /\ winners \subseteq Player

\* startGame: placePlayers, and the first tagger with his frenzy.
MatchInit ==
  /\ stage = "waiting" /\ tick = 0 /\ changedAt = 0
  /\ survivors = Player
  /\ \E first \in Player : taggers = {first} /\ frenzy = {first}
  /\ cooling = {} /\ requests = {}
  /\ outAt = [p \in Player |-> -1]
  /\ tagCount = [p \in Player |-> 0] /\ taggedCount = [p \in Player |-> 0]
  /\ winners = {} /\ result = NoResult

-----------------------------------------------------------------------------
IsFinished(living) == Cardinality(living) <= WinnersWanted
MatchHasEnded(living) == IsFinished(living) \/ tick >= MaxMatchTicks
RotationCandidates(living) == living \ taggers

\* The end of the match in the step that decided it: finished is set, the room
\* is told the winners (it takes them once), and the replay begins to be saved.
StartFinish(living) ==
  /\ stage' = "saving"
  /\ winners' = IF stage = "saving" THEN winners ELSE living

\* queueSkill.
QueueSkill(p, target) ==
  /\ stage = "waiting"
  /\ Cardinality(requests) < MaxSkillRequests
  /\ requests' = requests \cup {<<p, target>>}
  /\ UNCHANGED <<stage, tick, survivors, taggers, changedAt, frenzy, cooling, outAt,
                 tagCount, taggedCount, winners, result>>

\* The start of stepWorld: effects run out and cooldowns recover, a runner's
\* near the tagger sooner than the others'.
BeginTick ==
  /\ stage = "waiting"
  /\ stage' = "skills"
  /\ tick' = tick + 1
  /\ \E kept \in SUBSET frenzy : frenzy' = kept
  /\ \E still \in SUBSET cooling : cooling' = still
  /\ UNCHANGED <<survivors, taggers, changedAt, requests, outAt, tagCount, taggedCount,
                 winners, result>>

NextRequest == CHOOSE r \in requests : \A s \in requests : r[1] <= s[1]

\* players.find((p) => p.isTagger && p.alive); the players are kept by number.
LivingTagger == taggers \cap survivors
TheTagger == CHOOSE t \in LivingTagger : \A u \in LivingTagger : t <= u

\* grantTaggerFrenzy.
GrantTaggerFrenzy(p) == frenzy \cup {p}

\* useSkill for slot 1: refused for the dead, the tagger and during the
\* cooldown; out of range or with a wrong target it only costs the cooldown.
SwitchRefused(p) ==
  p \notin survivors \/ p \in taggers \/ p \in cooling \/ LivingTagger = {}

TargetValid(p, target) == target \in survivors \ (taggers \cup {p})

UseSkill(inRange) ==
  /\ stage = "skills" /\ requests # {}
  /\ LET p == NextRequest[1]
         target == NextRequest[2]
         hits == ~SwitchRefused(p) /\ inRange /\ TargetValid(p, target)
     IN  /\ requests' = requests \ {NextRequest}
         /\ cooling' = IF SwitchRefused(p) THEN cooling ELSE cooling \cup {p}
         /\ taggers' = IF hits THEN (taggers \ {TheTagger}) \cup {target} ELSE taggers
         /\ frenzy' = IF hits THEN GrantTaggerFrenzy(target) \cup {p} ELSE frenzy
         /\ changedAt' = IF hits THEN tick ELSE changedAt
  /\ UNCHANGED <<stage, tick, survivors, outAt, tagCount, taggedCount, winners, result>>

\* resolveTagging: everybody living whom the one tagger of this tick touches.
Caught(touched) ==
  IF LivingTagger = {} THEN {} ELSE (touched \cap survivors) \ {TheTagger}

\* rotateTaggerIfStale, on the state after the tagging.
Stale(changed) == tick - changed >= RotateTicks

\* The rest of stepWorld and of step: movement and collisions give the touched
\* players, tagging, rotation unless the match is decided, and the end.
EndTick(touched) ==
  /\ stage = "skills" /\ requests = {}
  /\ LET caught == Caught(touched)
         living == survivors \ caught
         changed == IF caught = {} THEN changedAt ELSE tick
         rotates == ~IsFinished(living) /\ Stale(changed) /\ RotationCandidates(living) # {}
     IN  /\ survivors' = living
         /\ outAt' = [p \in Player |-> IF p \in caught THEN tick ELSE outAt[p]]
         /\ taggedCount' = [p \in Player |-> IF p \in caught THEN taggedCount[p] + 1
                                                             ELSE taggedCount[p]]
         /\ tagCount' = [p \in Player |-> IF p \in LivingTagger /\ p = TheTagger
                                          THEN tagCount[p] + Cardinality(caught)
                                          ELSE tagCount[p]]
         /\ IF rotates
            THEN \E picked \in RotationCandidates(living) :
                   /\ taggers' = {picked} /\ frenzy' = GrantTaggerFrenzy(picked)
                   /\ changedAt' = tick
            ELSE UNCHANGED <<taggers, frenzy>> /\ changedAt' = changed
         /\ IF MatchHasEnded(living) THEN StartFinish(living)
                                     ELSE stage' = "waiting" /\ UNCHANGED winners
  /\ UNCHANGED <<tick, cooling, requests, result>>

\* eliminateDisconnected's first guard, and its omission.
SessionEverOpen == stage \in {"waiting", "saving"}
SessionOpen == stage = "waiting"

\* Whether eliminateDisconnected names another tagger, and its omission.
NeverReplaces(living) == FALSE
NeedsTagger(living) == ~MatchHasEnded(living) /\ living \cap taggers = {}

\* eliminateDisconnected: a player's connection is gone between two ticks.
EliminateDisconnected(p) ==
  /\ SessionOpen /\ p \in survivors
  /\ LET living == survivors \ {p}
     IN  /\ survivors' = living
         /\ outAt' = [outAt EXCEPT ![p] = tick]
         /\ IF NeedsTagger(living)
            THEN \E picked \in RotationCandidates(living) :
                   /\ taggers' = {picked} /\ frenzy' = GrantTaggerFrenzy(picked)
                   /\ changedAt' = tick
            ELSE UNCHANGED <<taggers, frenzy, changedAt>>
         /\ IF MatchHasEnded(living)
            THEN StartFinish(living) ELSE UNCHANGED <<stage, winners>>
  /\ UNCHANGED <<tick, cooling, requests, tagCount, taggedCount, result>>

\* The replay is saved (or given up): buildResult reads the world as it is now.
BuildResult ==
  [winners  |-> winners,
   survived |-> [p \in Player |-> IF outAt[p] = -1 THEN tick ELSE outAt[p]],
   tags     |-> MapThenSumSet(LAMBDA p : tagCount[p], Player),
   tagged   |-> MapThenSumSet(LAMBDA p : taggedCount[p], Player)]

Report ==
  /\ stage = "saving"
  /\ stage' = "reported"
  /\ result' = BuildResult
  /\ UNCHANGED <<tick, survivors, taggers, changedAt, frenzy, cooling, requests, outAt,
                 tagCount, taggedCount, winners>>

\* stopRoom: the room was closed during the match.
StopMatch ==
  /\ stage = "waiting"
  /\ stage' = "stopped"
  /\ UNCHANGED <<tick, survivors, taggers, changedAt, frenzy, cooling, requests, outAt,
                 tagCount, taggedCount, winners, result>>

MatchNext ==
  \/ \E p, target \in Player : QueueSkill(p, target)
  \/ BeginTick
  \/ \E inRange \in BOOLEAN : UseSkill(inRange)
  \/ \E touched \in SUBSET Player : EndTick(touched)
  \/ \E p \in Player : EliminateDisconnected(p)
  \/ Report
  \/ StopMatch

MatchSpec == MatchInit /\ [][MatchNext]_worldVars

-----------------------------------------------------------------------------
\* While the match runs exactly one player is the tagger, and he is alive,
\* whatever order tags, switches, rotations and lost connections come in
\* (step.ts resolveTagging, skills.ts useSwitch, game-session.ts
\* eliminateDisconnected). Without a tagger nobody could be caught and no switch
\* would be accepted.
OneLivingTagger == Running => \E p \in survivors : taggers = {p}

\* The winners are those who were never out and are credited with the whole
\* duration, and more of them than the rules want exist only when the time was
\* up, though the result is put together after the wait for the replay
\* (game-session.ts finish, confirmedWinnerIds).
WinnersAreTheNeverOut ==
  stage = "reported" =>
    /\ result.winners = {p \in Player : outAt[p] = -1}
    /\ \A p \in result.winners : result.survived[p] = tick
    /\ Cardinality(result.winners) > WinnersWanted => tick >= MaxMatchTicks

\* Every catch is counted once on both sides (game-session.ts buildResult).
CatchesAreCounted ==
  stage = "reported" =>
    /\ result.tags = result.tagged
    /\ result.tags <= Cardinality(Player \ result.winners)

\* The result describes the match that was decided (game-session.ts buildResult).
ResultTellsTheMatch == WinnersAreTheNeverOut /\ CatchesAreCounted

=============================================================================
