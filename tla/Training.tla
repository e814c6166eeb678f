------------------------------ MODULE Training ------------------------------
(* The training ground (training/training-ground.ts): targets that stand,    *)
(* patrol or chase beside the people of the room, pads that change roles,    *)
(* and a chase zone that wakes when somebody enters it.                      *)
(*                                                                           *)
(* A tick is two steps: resolveInputs with resolveSkills, then stepWorld with *)
(* afterStep. Nothing runs between them. Positions are left out: who stands   *)
(* in the zone or on a pad, who touches whom, where a wall is in the way and  *)
(* where a safe tile is are any choice. The course of a patrol, effects and    *)
(* cooldowns are left out.                                                    *)
EXTENDS Naturals, FiniteSets

CONSTANTS Human,         \* people in the room, by number
          Still,         \* targets outside the chase zone
          Chaser,        \* targets of the chase zone
          RespawnDelay   \* TRAINING_DUMMY_RESPAWN_MS in ticks

ASSUME TrainingAssumption ==
  /\ Human \subseteq Nat /\ IsFiniteSet(Human) /\ Human # {}
  /\ IsFiniteSet(Still \cup Chaser) /\ Chaser # {} /\ Still \cap Chaser = {}
  /\ (Still \cup Chaser) \cap Human = {}
  /\ RespawnDelay \in Nat

Dummy == Still \cup Chaser
Someone == Human \cup Dummy
Pad == {"tagger", "chaseMode", "skill"}

VARIABLES moment,     \* between ticks, or inside one
          mode,       \* #chaseMode
          chase,      \* #chaseActive
          living,     \* players with alive
          it,         \* players with isTagger
          due,        \* respawnAtTick as ticks to go, RespawnDelay + 1 for null
          onPad,      \* #standingOn
          inZone,     \* people inside the chase zone
          aimed,      \* flashAimedAtTick: null, this tick or an earlier one
          facing,     \* chasers whose last input turned them to aim
          fired,      \* chasers that flash in this tick
          leftover    \* chasers whose aim outlived the hunt it was made in

trainingVars == <<moment, mode, chase, living, it, due, onPad, inZone,
                  aimed, facing, fired, leftover>>

NotDue == RespawnDelay + 1
NoPad == "none"

\* startGame in a training room: nobody is the tagger.
TrainingInit ==
  /\ moment = "between" /\ mode = "hunt" /\ chase = FALSE
  /\ living = Someone /\ it = {}
  /\ due = [d \in Dummy |-> NotDue]
  /\ onPad = [h \in Human |-> NoPad] /\ inZone = {}
  /\ aimed = [c \in Chaser |-> "null"] /\ facing = {} /\ fired = {} /\ leftover = {}

-----------------------------------------------------------------------------
First(people) == CHOOSE p \in people : \A q \in people : p <= q

\* What #resetChase makes of the taggers, and whom it sends home alive.
AfterReset(taggers) == IF chase THEN {} ELSE taggers \ Chaser

ResetChase(taggers, alive, timers) ==
  /\ chase' = FALSE
  /\ it' = AfterReset(taggers)
  /\ living' = alive \cup Chaser
  /\ due' = [d \in Dummy |-> IF d \in Chaser THEN NotDue ELSE timers[d]]

KeepChase(taggers, alive, timers) ==
  it' = taggers /\ living' = alive /\ due' = timers /\ UNCHANGED chase

\* A chase begins: the first person inside hunts, or the nearest living target does.
NewTaggers(inside, alive) ==
  IF mode = "hunt" THEN {{First(inside)}}
  ELSE IF Chaser \cap alive = {} THEN {{}}
  ELSE {{c} : c \in Chaser \cap alive}

\* #updateChaseZone, after #respawnDue.
RolesDiffer(taggers) == (mode = "flee") # (taggers \cap Chaser # {})

UpdateChaseZone(taggers, alive, timers) ==
  LET inside == inZone \cap alive
  IN  \/ /\ inside = {} /\ chase
         /\ ResetChase(taggers, alive, timers)
      \/ /\ inside = {} /\ ~chase
         /\ KeepChase(taggers, alive, timers)
      \/ /\ inside # {} /\ chase /\ RolesDiffer(taggers)
         /\ ResetChase(taggers, alive, timers)
      \/ /\ inside # {} /\ chase /\ ~RolesDiffer(taggers)
         /\ KeepChase(taggers, alive, timers)
      \/ /\ inside # {} /\ ~chase
         /\ chase' = TRUE
         /\ it' \in NewTaggers(inside, alive)
         /\ living' = alive /\ due' = timers

\* #hunt, for a living chaser that is the tagger of an active chase: the way is
\* clear, a flash over the wall pays, or there is a way round. Then #chooseSkill:
\* a flash is fired when it was aimed on an earlier tick. Nothing clears the aim of
\* a chaser that stops hunting in between.
FiresNow(c) == aimed[c] = "earlier"

Hunters == {c \in Chaser \cap living' \cap it' : chase' /\ Human \cap living' # {}}

Hunt(clear, wantsFlash) ==
  /\ clear \cap wantsFlash = {} /\ clear \cup wantsFlash \subseteq Hunters
  /\ fired' = {c \in wantsFlash : FiresNow(c)}
  /\ aimed' = [c \in Chaser |->
       IF c \in Hunters
       THEN IF c \notin wantsFlash \/ c \in fired' THEN "null"
            ELSE IF aimed[c] = "null" THEN "now" ELSE aimed[c]
       ELSE IF chase' /\ c \in living' \cap it' THEN "null" ELSE aimed[c]]
  /\ leftover' = {c \in Chaser : /\ aimed'[c] # "null" \/ c \in fired'
                                 /\ c \in leftover \/ c \notin Hunters}

\* #respawnDue: whose time has come, and the timers without them.
Due == {d \in Dummy : due[d] = 0}
NoLongerDue == [d \in Dummy |-> IF d \in Due THEN NotDue ELSE due[d]]

ResolveInputs(clear, wantsFlash) ==
  /\ moment = "between"
  /\ moment' = "inside"
  /\ UpdateChaseZone(it \ Due, living \cup Due, NoLongerDue)
  /\ Hunt(clear, wantsFlash)
  /\ UNCHANGED <<mode, onPad, inZone, facing>>

-----------------------------------------------------------------------------
\* #trigger: the pads that matter here. A pad acts when it is stepped on.
PadTaggers(h, taggers) == IF h \in taggers THEN {} ELSE {h}

\* afterStep gives a dead target its time, once; and one that gives it every tick.
DueAlways(d, alive) == IF d \notin alive THEN RespawnDelay ELSE NotDue
DueAfter(d, alive) ==
  IF d \notin alive /\ due[d] = NotDue THEN RespawnDelay ELSE due[d]

\* stepWorld's rules: a person's switch may make somebody else the tagger, the
\* living tagger catches some he touches, and a tagger who stays too long is
\* replaced, or one is named where there is none.
Switched ==
  {it} \cup (IF it \cap living = {} THEN {} ELSE {{p} : p \in living \ it})

Catchable(taggers) == IF taggers \cap living = {} THEN {} ELSE living \ taggers

Rotated(taggers, alive) ==
  {taggers} \cup (IF taggers = it /\ alive = living THEN {{p} : p \in alive \ taggers} ELSE {})

Ticked(timers) ==
  [d \in Dummy |-> IF timers[d] \in 1 .. RespawnDelay THEN timers[d] - 1 ELSE timers[d]]

\* One person moves in the tick: in or out of the zone, on or off a pad.
AfterStep(taggers, alive, h, pad) ==
  LET timers == Ticked([d \in Dummy |-> DueAfter(d, alive)])
      steps == h \in alive /\ pad # NoPad /\ onPad[h] # pad
  IN  IF steps /\ pad = "chaseMode"
      THEN /\ mode' = (IF mode = "hunt" THEN "flee" ELSE "hunt")
           /\ ResetChase(taggers, alive, timers)
      ELSE /\ living' = alive /\ due' = timers
           /\ it' = (IF steps /\ pad = "tagger" THEN PadTaggers(h, taggers) ELSE taggers)
           /\ UNCHANGED <<mode, chase>>

StepAndAfterStep(h, zone, pad) ==
  /\ moment = "inside"
  /\ moment' = "between"
  /\ \E taggers \in Switched : \E caught \in SUBSET Catchable(taggers) :
       \E rotated \in Rotated(taggers, living \ caught) :
         /\ AfterStep(rotated, living \ caught, h, pad)
         /\ onPad' = IF h \in caught \/ h \notin living THEN onPad
                     ELSE [onPad EXCEPT ![h] = pad]
  /\ inZone' = zone
  /\ aimed' = [c \in Chaser |-> IF aimed[c] = "now" THEN "earlier" ELSE aimed[c]]
  /\ fired' = {} /\ facing' = {c \in Chaser : aimed[c] = "now"}
  /\ UNCHANGED leftover

\* training.respawn of a dead person, where a safe tile exists: outside the zone
\* and off the pads.
Respawn(h) ==
  /\ moment = "between" /\ h \notin living
  /\ ResetChase(it \ {h}, living \cup {h}, due)
  /\ onPad' = [onPad EXCEPT ![h] = NoPad]
  /\ inZone' = inZone \ {h}
  /\ UNCHANGED <<moment, mode, aimed, facing, fired, leftover>>

\* eliminateDisconnected, which names no other tagger in a training room.
TrainingDisconnect(h) ==
  /\ moment = "between" /\ h \in living
  /\ living' = living \ {h}
  /\ UNCHANGED <<moment, mode, chase, it, due, onPad, inZone, aimed, facing, fired, leftover>>

TrainingTick ==
  \/ \E clear, wantsFlash \in SUBSET Chaser : ResolveInputs(clear, wantsFlash)
  \/ \E h \in Human, zone \in SUBSET Human, pad \in Pad \cup {NoPad} :
       StepAndAfterStep(h, zone, pad)

TrainingNext == TrainingTick \/ \E h \in Human : Respawn(h) \/ TrainingDisconnect(h)

\* The session's clock keeps ticking.
TrainingFairness == WF_trainingVars(TrainingTick)

TrainingSpec == TrainingInit /\ [][TrainingNext]_trainingVars /\ TrainingFairness

-----------------------------------------------------------------------------
\* Roles stay in order, whatever pads, switches, catches, rotations and lost
\* connections come in which order: there is one tagger at most; while the zone is
\* awake somebody living is in it, and its targets are hunted or hunt as the mode
\* says, unless all of them lay dead when it woke (#updateChaseZone, #trigger,
\* respawn).
ZoneRolesHold ==
  /\ Cardinality(it) <= 1
  /\ moment = "inside" /\ chase =>
       /\ inZone \cap living # {}
       /\ mode = "hunt" => it \cap Chaser = {}
       /\ mode = "flee" => it \cap Chaser # {} \/ Chaser \cap living = {}

\* A target flashes where it looked on the tick before, at its prey (#hunt,
\* #chooseSkill). Left out is a target whose aim outlived the hunt.
FlashIsAimed == fired \ leftover \subseteq facing

\* A target that was caught comes back (afterStep, #respawnDue).
DummiesComeBack == \A d \in Dummy : d \notin living ~> d \in living

\* The training ground keeps its roles and never runs out of targets.
TrainingGoesOn == [](ZoneRolesHold /\ FlashIsAimed) /\ DummiesComeBack

=============================================================================
