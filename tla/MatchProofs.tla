----------------------------- MODULE MatchProofs -----------------------------
(***************************************************************************)
(* A running match has one living tagger, and its result tells the match,  *)
(* for any number of players and any length of match; every viewer and the *)
(* replay show what its session broadcasts; the recorders and downloads of *)
(* its replays give back what they take; and the room obeys a player's     *)
(* controls, whatever the size of the ring their packets are numbered in.  *)
(***************************************************************************)
EXTENDS Match, Broadcast, Replays, Controls, FiniteSetTheorems, WellFoundedInduction,
        NaturalsInduction, TLAPS

-----------------------------------------------------------------------------
(* Sums over players and recorders.  MapThenSumSet takes the elements one by *)
(* one in an order nobody chose; what it comes to is the number of the units *)
(* that are counted, whatever that order is.                                 *)

\* What a count comes to over some of those it counts for.
Total(count, who) == MapThenSumSet(LAMBDA x : count[x], who)

\* The function by which it is computed.
Sums(count, who, f) ==
  f = [s \in SUBSET who |-> IF s = {} THEN 0
                            ELSE count[CHOOSE x \in s : TRUE] + f[s \ {CHOOSE x \in s : TRUE}]]

\* Everything that is counted, one by one.
Units(count, who) == UNION {{x} \X (1 .. count[x]) : x \in who}

LEMMA TotalIsFolded ==
  ASSUME NEW count, NEW who
  PROVE  Total(count, who) = (CHOOSE f : Sums(count, who, f))[who]
BY DEF Total, MapThenSumSet, MapThenFoldSet, Sums

\* The units of some are finitely many, and those of one more are his own more.
LEMMA UnitsOfMany ==
  ASSUME NEW who, IsFiniteSet(who), NEW count, \A x \in who : count[x] \in Nat
  PROVE  IsFiniteSet(Units(count, who)) /\ Cardinality(Units(count, who)) \in Nat
<1> DEFINE parts == {{x} \X (1 .. count[x]) : x \in who}
<1>1. IsFiniteSet(parts)
  <2> DEFINE h == [x \in who |-> {x} \X (1 .. count[x])]
  <2>1. h \in Surjection(who, parts)
    BY DEF Surjection
  <2> QED
    BY <2>1, FS_Surjection
<1>2. \A T \in parts : IsFiniteSet(T)
  <2> SUFFICES ASSUME NEW x \in who PROVE IsFiniteSet({x} \X (1 .. count[x]))
    OBVIOUS
  <2>1. 1 \in Int /\ count[x] \in Int
    OBVIOUS
  <2>2. IsFiniteSet({x}) /\ IsFiniteSet(1 .. count[x])
    BY <2>1, FS_Singleton, FS_Interval
  <2> QED
    BY <2>2, FS_Product
<1>3. IsFiniteSet(UNION parts)
  BY <1>1, <1>2, FS_UNION, Zenon
<1> QED
  BY <1>3, FS_CardinalityType DEF Units

LEMMA UnitsOfOneMore ==
  ASSUME NEW who, IsFiniteSet(who), NEW count, \A x \in who : count[x] \in Nat, NEW y \in who
  PROVE  Cardinality(Units(count, who)) = count[y] + Cardinality(Units(count, who \ {y}))
<1> DEFINE own == {y} \X (1 .. count[y])
           rest == Units(count, who \ {y})
<1>1. IsFiniteSet(who \ {y}) /\ \A x \in who \ {y} : count[x] \in Nat
  BY FS_Difference
<1>2. IsFiniteSet(rest) /\ Cardinality(rest) \in Nat
  BY <1>1, UnitsOfMany
<1>3. IsFiniteSet(own) /\ Cardinality(own) = count[y]
  <2>1. IsFiniteSet({y}) /\ Cardinality({y}) = 1
    BY FS_Singleton
  <2>2. count[y] \in Nat /\ count[y] \in Int /\ 1 \in Int
    OBVIOUS
  <2>3. /\ IsFiniteSet(1 .. count[y])
        /\ Cardinality(1 .. count[y]) = IF 1 > count[y] THEN 0 ELSE count[y] - 1 + 1
    BY <2>2, FS_Interval
  <2>4. Cardinality(1 .. count[y]) = count[y]
    BY <2>2, <2>3
  <2>5. IsFiniteSet(own) /\ Cardinality(own) = Cardinality({y}) * Cardinality(1 .. count[y])
    BY <2>1, <2>3, FS_Product
  <2> QED
    BY <2>1, <2>2, <2>4, <2>5
<1>4. Units(count, who) = own \cup rest
  BY DEF Units
<1>5. own \cap rest = {}
  BY DEF Units
<1> HIDE DEF own, rest
<1>6. Cardinality(own \cup rest) = Cardinality(own) + Cardinality(rest) - Cardinality(own \cap rest)
  BY <1>2, <1>3, FS_Union
<1>7. Cardinality(own \cap rest) = 0
  BY <1>5, FS_EmptySet
<1>8. Cardinality(Units(count, who)) = count[y] + Cardinality(rest)
  BY <1>2, <1>3, <1>4, <1>6, <1>7
<1> QED
  BY <1>8 DEF rest

\* Units depend on the counts of those asked for alone.
LEMMA UnitsSame ==
  ASSUME NEW who, NEW a, NEW b, \A x \in who : a[x] = b[x]
  PROVE  Units(a, who) = Units(b, who)
BY DEF Units

\* The sum is the number of units.
LEMMA TotalIsUnits ==
  ASSUME NEW who, IsFiniteSet(who), NEW count, \A x \in who : count[x] \in Nat
  PROVE  Total(count, who) = Cardinality(Units(count, who)) /\ Total(count, who) \in Nat
<1> DEFINE g == [s \in SUBSET who |-> Cardinality(Units(count, s))]
           first(s) == CHOOSE x \in s : TRUE
           f == CHOOSE h : Sums(count, who, h)
<1>1. \A s \in SUBSET who : s # {} => first(s) \in s
  OBVIOUS
<1>2. \A s \in SUBSET who : IsFiniteSet(s) /\ \A x \in s : count[x] \in Nat
  BY FS_Subset
<1>3. Cardinality(Units(count, {})) = 0
  BY FS_EmptySet DEF Units
<1>4. \A s \in SUBSET who : s # {} =>
         Cardinality(Units(count, s)) = count[first(s)] + Cardinality(Units(count, s \ {first(s)}))
  <2> SUFFICES ASSUME NEW s \in SUBSET who, s # {}
               PROVE  Cardinality(Units(count, s)) = count[first(s)] + Cardinality(Units(count, s \ {first(s)}))
    OBVIOUS
  <2>1. first(s) \in s /\ IsFiniteSet(s) /\ \A x \in s : count[x] \in Nat
    BY <1>1, <1>2
  <2> HIDE DEF first
  <2> QED
    BY <2>1, UnitsOfOneMore
<1>5. Sums(count, who, g)
  <2>1. \A s \in SUBSET who : s \ {first(s)} \in SUBSET who
    OBVIOUS
  <2>2. \A s \in SUBSET who : g[s] = IF s = {} THEN 0 ELSE count[first(s)] + g[s \ {first(s)}]
    BY <1>3, <1>4, <2>1
  <2>3. g = [s \in SUBSET who |-> IF s = {} THEN 0 ELSE count[first(s)] + g[s \ {first(s)}]]
    <3> HIDE DEF first
    <3> QED
      BY <2>2
  <2> QED
    BY <2>3 DEF Sums
<1>6. Sums(count, who, f)
  BY <1>5, Zenon
<1>7. \A s \in SUBSET who : f[s] = IF s = {} THEN 0 ELSE count[first(s)] + f[s \ {first(s)}]
  <2> HIDE DEF f
  <2> QED
    BY <1>6 DEF Sums
<1> HIDE DEF f, g, first
<1>8. ASSUME NEW s0 \in SUBSET who, f[s0] # Cardinality(Units(count, s0)) PROVE FALSE
  <2> DEFINE bad == {n \in Nat : \E s \in SUBSET who : /\ f[s] # Cardinality(Units(count, s))
                                                       /\ Cardinality(s) = n}
  <2>1. bad \subseteq Nat /\ bad # {}
    BY <1>2, <1>8, FS_CardinalityType
  <2>2. PICK n \in bad : \A m \in bad : ~ (<<m, n>> \in OpToRel(<, Nat))
    BY <2>1, WFMin, NatLessThanWellFounded, Zenon
  <2>3. PICK s \in SUBSET who : f[s] # Cardinality(Units(count, s)) /\ Cardinality(s) = n
    BY <2>2
  <2>4. s # {}
    BY <1>3, <1>7, <2>3
  <2>5. first(s) \in s /\ s \ {first(s)} \in SUBSET who
    BY <1>1, <2>4
  <2>6. Cardinality(s \ {first(s)}) = n - 1 /\ n - 1 \in Nat
    <3>1. IsFiniteSet(s) /\ n \in Nat
      BY <1>2, <2>2
    <3>2. Cardinality(s \ {first(s)}) = n - 1 /\ IsFiniteSet(s \ {first(s)})
      BY <2>3, <2>5, <3>1, FS_RemoveElement
    <3>3. Cardinality(s \ {first(s)}) \in Nat
      BY <3>2, FS_CardinalityType
    <3> QED
      BY <3>2, <3>3
  <2>7. n - 1 \notin bad
    <3>1. n \in Nat
      BY <2>2
    <3>2. n - 1 < n
      BY <3>1
    <3>3. <<n - 1, n>> \in OpToRel(<, Nat)
      BY <2>6, <3>1, <3>2 DEF OpToRel
    <3> QED
      BY <2>2, <3>3
  <2>8. f[s \ {first(s)}] = Cardinality(Units(count, s \ {first(s)}))
    BY <2>5, <2>6, <2>7
  <2> QED
    BY <1>4, <1>7, <2>3, <2>4, <2>8
<1>9. f[who] = Cardinality(Units(count, who))
  BY <1>8
<1>10. Total(count, who) = f[who]
  BY TotalIsFolded DEF f
<1> QED
  BY <1>9, <1>10, UnitsOfMany

\* One more: his own count more.
LEMMA TotalOfOneMore ==
  ASSUME NEW who, IsFiniteSet(who), NEW count, \A x \in who : count[x] \in Nat, NEW y \in who
  PROVE  Total(count, who) = count[y] + Total(count, who \ {y}) /\ Total(count, who \ {y}) \in Nat
<1>1. IsFiniteSet(who \ {y}) /\ \A x \in who \ {y} : count[x] \in Nat
  BY FS_Difference
<1> QED
  BY <1>1, TotalIsUnits, UnitsOfOneMore

\* Two counts that agree come to the same, and one that differs at one of those
\* counted differs by as much.
LEMMA TotalSame ==
  ASSUME NEW who, IsFiniteSet(who), NEW a, NEW b, \A x \in who : a[x] \in Nat /\ a[x] = b[x]
  PROVE  Total(a, who) = Total(b, who)
<1>1. \A x \in who : a[x] \in Nat /\ b[x] \in Nat /\ a[x] = b[x]
  OBVIOUS
<1> QED
  BY <1>1, TotalIsUnits, UnitsSame

LEMMA TotalOfOneChanged ==
  ASSUME NEW who, IsFiniteSet(who), NEW a, NEW b, NEW y \in who,
         \A x \in who : a[x] \in Nat /\ b[x] \in Nat /\ (x # y => a[x] = b[x])
  PROVE  Total(b, who) = Total(a, who) - a[y] + b[y] /\ a[y] <= Total(a, who)
<1>1. Total(a, who) = a[y] + Total(a, who \ {y}) /\ Total(a, who \ {y}) \in Nat
  BY TotalOfOneMore
<1>2. Total(b, who) = b[y] + Total(b, who \ {y})
  BY TotalOfOneMore
<1>3. IsFiniteSet(who \ {y}) /\ \A x \in who \ {y} : a[x] \in Nat /\ a[x] = b[x]
  BY FS_Difference
<1>4. Total(a, who \ {y}) = Total(b, who \ {y})
  BY <1>3, TotalSame
<1> QED
  BY <1>1, <1>2, <1>4

\* Counts of one or none come to as many as have one.
LEMMA TotalOfOnes ==
  ASSUME NEW who, IsFiniteSet(who), NEW count, \A x \in who : count[x] \in {0, 1}
  PROVE  Total(count, who) = Cardinality({x \in who : count[x] = 1})
<1> DEFINE ones == {x \in who : count[x] = 1}
<1>1. IsFiniteSet(ones) /\ \A x \in who : count[x] \in Nat
  BY FS_Subset
<1>2. Units(count, who) = ones \X {1}
  <2>1. \A x \in who : count[x] = 0 => {x} \X (1 .. count[x]) = {}
    OBVIOUS
  <2>2. \A x \in who : count[x] = 1 => {x} \X (1 .. count[x]) = {<<x, 1>>}
    OBVIOUS
  <2> QED
    BY <2>1, <2>2 DEF Units
<1>3. Cardinality(ones \X {1}) = Cardinality(ones)
  <2>1. IsFiniteSet({1}) /\ Cardinality({1}) = 1
    BY FS_Singleton
  <2>2. Cardinality(ones) \in Nat
    BY <1>1, FS_CardinalityType
  <2> QED
    BY <1>1, <2>1, <2>2, FS_Product
<1>4. Total(count, who) = Cardinality(Units(count, who))
  BY <1>1, TotalIsUnits
<1> QED
  BY <1>2, <1>3, <1>4

-----------------------------------------------------------------------------
(* A match.                                                                  *)

\* Whoever is alive was never put down as out, and the other way round.
OutIsOut == \A p \in Player : outAt[p] = -1 <=> p \in survivors

\* From its decision on the winners are the living, and they are too many only
\* when the time is up.
Decided ==
  stage \in {"saving", "reported"} =>
    winners = survivors /\ (Cardinality(survivors) > WinnersWanted => tick >= MaxMatchTicks)

\* The result that was sent is the decided one.
Reported ==
  stage = "reported" =>
    /\ result.winners = winners
    /\ result.survived = [p \in Player |-> IF outAt[p] = -1 THEN tick ELSE outAt[p]]

\* The inductive invariant of a match.
MatchInv == MatchTypeOK /\ OneLivingTagger /\ OutIsOut /\ Decided /\ Reported

-----------------------------------------------------------------------------
\* While the match runs the tagger that resolveTagging and useSwitch find is the one.
LEMMA TaggerFound ==
  ASSUME MatchTypeOK, OneLivingTagger, Running
  PROVE  TheTagger \in survivors /\ taggers = {TheTagger} /\ LivingTagger = {TheTagger}
<1>1. PICK q \in survivors : taggers = {q}
  BY DEF OneLivingTagger
<1>2. LivingTagger = {q}
  BY <1>1 DEF LivingTagger
<1>3. q <= q
  BY MatchAssumption DEF MatchTypeOK
<1>4. TheTagger = q
  BY <1>2, <1>3 DEF TheTagger
<1> QED
  BY <1>1, <1>2, <1>4

\* A set of players has a size.
LEMMA PlayersCounted ==
  ASSUME NEW S \in SUBSET Player
  PROVE  IsFiniteSet(S) /\ Cardinality(S) \in Nat
BY MatchAssumption, FS_Subset, FS_CardinalityType

-----------------------------------------------------------------------------
\* A match begins in the invariant.
LEMMA MatchInvInit == MatchInit => MatchInv
<1> SUFFICES ASSUME MatchInit PROVE MatchInv
  OBVIOUS
<1> USE MatchAssumption DEF MatchInit
<1>1. MatchTypeOK
  BY DEF MatchTypeOK
<1>2. OneLivingTagger
  BY DEF OneLivingTagger
<1>3. OutIsOut /\ Decided /\ Reported
  BY DEF OutIsOut, Decided, Reported
<1> QED
  BY <1>1, <1>2, <1>3 DEF MatchInv

\* queueSkill, the beginning of a tick and stopRoom touch neither players nor result.
LEMMA QuietSteps ==
  ASSUME MatchInv,
         \/ \E p, target \in Player : QueueSkill(p, target)
         \/ BeginTick
         \/ StopMatch
         \/ UNCHANGED worldVars
  PROVE  MatchInv'
<1>1. CASE \E p, target \in Player : QueueSkill(p, target)
  BY <1>1 DEF QueueSkill, MatchInv, MatchTypeOK, OneLivingTagger, Running, OutIsOut, Decided, Reported
<1>2. CASE BeginTick
  BY <1>2 DEF BeginTick, MatchInv, MatchTypeOK, OneLivingTagger, Running, OutIsOut, Decided, Reported
<1>3. CASE StopMatch
  BY <1>3 DEF StopMatch, MatchInv, MatchTypeOK, OneLivingTagger, Running, OutIsOut, Decided, Reported
<1>4. CASE UNCHANGED worldVars
  BY <1>4 DEF worldVars, MatchInv, MatchTypeOK, OneLivingTagger, Running, OutIsOut, Decided, Reported
<1> QED
  BY <1>1, <1>2, <1>3, <1>4

\* useSkill hands the role from the one tagger to a living target, or to nobody new.
LEMMA SkillStep ==
  ASSUME MatchInv, NEW inRange \in BOOLEAN, UseSkill(inRange)
  PROVE  MatchInv'
<1> DEFINE p == NextRequest[1]
           target == NextRequest[2]
           hits == ~SwitchRefused(p) /\ inRange /\ TargetValid(p, target)
<1>1. Running /\ MatchTypeOK /\ OneLivingTagger
  BY DEF UseSkill, Running, MatchInv
<1>2. TheTagger \in survivors /\ taggers = {TheTagger}
  BY <1>1, TaggerFound
<1>3. /\ requests' = requests \ {NextRequest}
      /\ cooling' = IF SwitchRefused(p) THEN cooling ELSE cooling \cup {p}
      /\ taggers' = IF hits THEN (taggers \ {TheTagger}) \cup {target} ELSE taggers
      /\ frenzy' = IF hits THEN GrantTaggerFrenzy(target) \cup {p} ELSE frenzy
      /\ changedAt' = IF hits THEN tick ELSE changedAt
      /\ UNCHANGED <<stage, tick, survivors, outAt, tagCount, taggedCount, winners, result>>
  BY DEF UseSkill
<1>4. ~SwitchRefused(p) => p \in survivors
  BY DEF SwitchRefused
<1>5. hits => target \in survivors /\ p \in survivors
  BY <1>4 DEF TargetValid
<1> HIDE DEF p, target, hits
<1>6. MatchTypeOK'
  BY <1>1, <1>3, <1>4, <1>5 DEF MatchTypeOK, GrantTaggerFrenzy
<1>7. OneLivingTagger'
  BY <1>2, <1>3, <1>5 DEF OneLivingTagger
<1>8. OutIsOut' /\ Decided' /\ Reported'
  BY <1>3 DEF MatchInv, OutIsOut, Decided, Reported
<1> QED
  BY <1>6, <1>7, <1>8 DEF MatchInv

\* What is decided when the living are too few or the time is up.
LEMMA DecidedNow ==
  ASSUME MatchInv, NEW living \in SUBSET Player, MatchHasEnded(living), StartFinish(living),
         Running, survivors' = living, tick' = tick
  PROVE  Decided' /\ winners' \subseteq Player
<1>1. winners' = living
  BY DEF StartFinish, Running
<1>2. Cardinality(living) \in Nat
  BY PlayersCounted
<1> QED
  BY <1>1, <1>2, MatchAssumption DEF Decided, MatchHasEnded, IsFinished, MatchInv, MatchTypeOK

\* The end of a tick: the tagger is never among the caught, and a rotation names
\* one of the living.
LEMMA TickStep ==
  ASSUME MatchInv, NEW touched \in SUBSET Player, EndTick(touched)
  PROVE  MatchInv'
<1> DEFINE caught == Caught(touched)
           living == survivors \ caught
           changed == IF caught = {} THEN changedAt ELSE tick
           rotates == ~IsFinished(living) /\ Stale(changed) /\ RotationCandidates(living) # {}
<1>1. Running /\ MatchTypeOK /\ OneLivingTagger /\ stage = "skills"
  BY DEF EndTick, Running, MatchInv
<1>2. TheTagger \in survivors /\ taggers = {TheTagger} /\ LivingTagger = {TheTagger}
  BY <1>1, TaggerFound
<1>3. caught \subseteq survivors /\ TheTagger \notin caught
  BY <1>2 DEF Caught
<1>4. living \in SUBSET Player /\ caught \in SUBSET Player /\ TheTagger \in living
  BY <1>1, <1>2, <1>3 DEF MatchTypeOK
<1>5. /\ survivors' = living
      /\ outAt' = [p \in Player |-> IF p \in caught THEN tick ELSE outAt[p]]
      /\ taggedCount' = [p \in Player |-> IF p \in caught THEN taggedCount[p] + 1
                                                          ELSE taggedCount[p]]
      /\ tagCount' = [p \in Player |-> IF p \in LivingTagger /\ p = TheTagger
                                       THEN tagCount[p] + Cardinality(caught)
                                       ELSE tagCount[p]]
      /\ IF rotates
         THEN \E picked \in RotationCandidates(living) :
                /\ taggers' = {picked} /\ frenzy' = GrantTaggerFrenzy(picked)
                /\ changedAt' = tick
         ELSE UNCHANGED <<taggers, frenzy>> /\ changedAt' = changed
      /\ IF MatchHasEnded(living) THEN StartFinish(living)
                                  ELSE stage' = "waiting" /\ UNCHANGED winners
      /\ UNCHANGED <<tick, cooling, requests, result>>
  BY DEF EndTick
<1>6. Cardinality(caught) \in Nat
  BY <1>4, PlayersCounted
<1>7. changed \in Nat
  BY <1>1 DEF MatchTypeOK
<1> HIDE DEF caught, living, changed, rotates
<1>8. \E q \in living : taggers' = {q}
  BY <1>2, <1>4, <1>5 DEF RotationCandidates
<1>9. frenzy' \subseteq Player /\ changedAt' \in Nat
  BY <1>1, <1>4, <1>5, <1>7 DEF RotationCandidates, GrantTaggerFrenzy, MatchTypeOK
<1>10. stage' \in {"waiting", "saving"} /\ winners' \subseteq Player /\ Decided'
  <2>1. CASE MatchHasEnded(living)
    BY <2>1, <1>1, <1>4, <1>5, DecidedNow DEF StartFinish
  <2>2. CASE ~MatchHasEnded(living)
    BY <2>2, <1>1, <1>5 DEF Decided, MatchTypeOK
  <2> QED
    BY <2>1, <2>2
<1>11. outAt' \in [Player -> Int] /\ tagCount' \in [Player -> Nat] /\ taggedCount' \in [Player -> Nat]
  BY <1>1, <1>5, <1>6 DEF MatchTypeOK
<1>12. MatchTypeOK'
  BY <1>1, <1>4, <1>5, <1>8, <1>9, <1>10, <1>11 DEF MatchTypeOK
<1>13. OneLivingTagger'
  BY <1>5, <1>8 DEF OneLivingTagger
<1>14. OutIsOut'
  <2> SUFFICES ASSUME NEW p \in Player PROVE outAt'[p] = -1 <=> p \in survivors'
    BY DEF OutIsOut
  <2>1. outAt'[p] = IF p \in caught THEN tick ELSE outAt[p]
    BY <1>5
  <2>2. outAt[p] = -1 <=> p \in survivors
    BY DEF MatchInv, OutIsOut
  <2>3. tick # -1
    BY <1>1 DEF MatchTypeOK
  <2> QED
    BY <2>1, <2>2, <2>3, <1>5 DEF living
<1> QED
  BY <1>10, <1>12, <1>13, <1>14 DEF MatchInv, Reported

\* A lost connection: a tagger who goes is replaced by one of the living.
LEMMA DisconnectStep ==
  ASSUME MatchInv, NEW p \in Player, EliminateDisconnected(p)
  PROVE  MatchInv'
<1> DEFINE living == survivors \ {p}
<1>1. Running /\ MatchTypeOK /\ OneLivingTagger /\ stage = "waiting"
  BY DEF EliminateDisconnected, SessionOpen, Running, MatchInv
<1>2. living \in SUBSET Player
  BY <1>1 DEF MatchTypeOK
<1>3. /\ survivors' = living
      /\ outAt' = [outAt EXCEPT ![p] = tick]
      /\ IF NeedsTagger(living)
         THEN \E picked \in RotationCandidates(living) :
                /\ taggers' = {picked} /\ frenzy' = GrantTaggerFrenzy(picked)
                /\ changedAt' = tick
         ELSE UNCHANGED <<taggers, frenzy, changedAt>>
      /\ IF MatchHasEnded(living)
         THEN StartFinish(living) ELSE UNCHANGED <<stage, winners>>
      /\ UNCHANGED <<tick, cooling, requests, tagCount, taggedCount, result>>
  BY DEF EliminateDisconnected
<1> HIDE DEF living
<1>4. taggers' \subseteq Player /\ frenzy' \subseteq Player /\ changedAt' \in Nat
  BY <1>1, <1>2, <1>3 DEF RotationCandidates, GrantTaggerFrenzy, MatchTypeOK
<1>5. stage' \in {"waiting", "saving"} /\ winners' \subseteq Player /\ Decided'
  <2>1. CASE MatchHasEnded(living)
    BY <2>1, <1>1, <1>2, <1>3, DecidedNow DEF StartFinish
  <2>2. CASE ~MatchHasEnded(living)
    BY <2>2, <1>1, <1>3 DEF Decided, MatchTypeOK
  <2> QED
    BY <2>1, <2>2
<1>6. MatchTypeOK'
  BY <1>1, <1>2, <1>3, <1>4, <1>5 DEF MatchTypeOK
<1>7. OneLivingTagger'
  <2> SUFFICES ASSUME stage' = "waiting" PROVE \E q \in living : taggers' = {q}
    BY <1>3, <1>5 DEF OneLivingTagger, Running
  <2>1. ~MatchHasEnded(living)
    BY <1>3 DEF StartFinish
  <2>2. CASE living \cap taggers = {}
    BY <2>1, <2>2, <1>3 DEF NeedsTagger, RotationCandidates
  <2>3. CASE living \cap taggers # {}
    BY <2>3, <1>1, <1>3 DEF NeedsTagger, OneLivingTagger
  <2> QED
    BY <2>2, <2>3
<1>8. OutIsOut'
  <2> SUFFICES ASSUME NEW q \in Player PROVE outAt'[q] = -1 <=> q \in survivors'
    BY DEF OutIsOut
  <2>1. outAt'[q] = IF q = p THEN tick ELSE outAt[q]
    BY <1>1, <1>3 DEF MatchTypeOK
  <2>2. outAt[q] = -1 <=> q \in survivors
    BY DEF MatchInv, OutIsOut
  <2>3. tick # -1
    BY <1>1 DEF MatchTypeOK
  <2> QED
    BY <2>1, <2>2, <2>3, <1>3 DEF living
<1> QED
  BY <1>5, <1>6, <1>7, <1>8 DEF MatchInv, Reported

\* The result is built from the world that was decided.
LEMMA ReportStep ==
  ASSUME MatchInv, Report
  PROVE  MatchInv'
<1>1. stage = "saving" /\ stage' = "reported" /\ result' = BuildResult
  BY DEF Report
<1>2. UNCHANGED <<tick, survivors, taggers, changedAt, frenzy, cooling, requests, outAt,
                  tagCount, taggedCount, winners>>
  BY DEF Report
<1>3. Reported'
  BY <1>1, <1>2 DEF Reported, BuildResult
<1>4. MatchTypeOK' /\ OneLivingTagger' /\ OutIsOut' /\ Decided'
  BY <1>1, <1>2 DEF MatchInv, MatchTypeOK, OneLivingTagger, Running, OutIsOut, Decided
<1> QED
  BY <1>3, <1>4 DEF MatchInv

\* The inductive invariant holds in every match.
THEOREM MatchInvariant == MatchSpec => []MatchInv
<1>1. MatchInv /\ [MatchNext]_worldVars => MatchInv'
  BY QuietSteps, SkillStep, TickStep, DisconnectStep, ReportStep DEF MatchNext
<1> QED
  BY <1>1, MatchInvInit, PTL DEF MatchSpec

\* For any number of players: while a match runs exactly one player is the tagger,
\* and he is alive (step.ts resolveTagging, skills.ts useSwitch, game-session.ts
\* eliminateDisconnected).
THEOREM OneTagger == MatchSpec => []OneLivingTagger
BY MatchInvariant, PTL DEF MatchInv

\* For any number of players: the result names as winners exactly those who were
\* never out, credits them with the whole match, and names more than the rules want
\* only when the time was up (game-session.ts finish, buildResult).
THEOREM WinnersAreRight == MatchSpec => []WinnersAreTheNeverOut
<1>1. MatchInv => WinnersAreTheNeverOut
  <2> SUFFICES ASSUME MatchInv, stage = "reported"
               PROVE  /\ result.winners = {p \in Player : outAt[p] = -1}
                      /\ \A p \in result.winners : result.survived[p] = tick
                      /\ Cardinality(result.winners) > WinnersWanted => tick >= MaxMatchTicks
    BY DEF WinnersAreTheNeverOut
  <2>1. result.winners = survivors /\ survivors \subseteq Player
    BY DEF MatchInv, Reported, Decided, MatchTypeOK
  <2>2. survivors = {p \in Player : outAt[p] = -1}
    BY <2>1 DEF MatchInv, OutIsOut
  <2> QED
    BY <2>1, <2>2 DEF MatchInv, Reported, Decided
<1> QED
  BY <1>1, MatchInvariant, PTL

-----------------------------------------------------------------------------
(* The score of a match.                                                     *)

\* Whoever was caught.
Tagged == {p \in Player : taggedCount[p] = 1}

\* Nobody is caught twice, or caught and alive; the taggers' catches are those who
\* were; and the result that was sent has both sums.
Scored ==
  /\ \A p \in Player : taggedCount[p] \in {0, 1} /\ (taggedCount[p] = 1 => p \notin survivors)
  /\ Total(tagCount, Player) = Cardinality(Tagged)
  /\ stage = "reported" =>
       result.tags = Total(tagCount, Player) /\ result.tagged = Total(taggedCount, Player)

LEMMA ScoredInit == MatchInit => Scored
<1> SUFFICES ASSUME MatchInit PROVE Scored
  OBVIOUS
<1>1. \A p \in Player : tagCount[p] = 0 /\ taggedCount[p] = 0
  BY DEF MatchInit
<1>2. Tagged = {} /\ {p \in Player : tagCount[p] = 1} = {}
  BY <1>1 DEF Tagged
<1>3. Total(tagCount, Player) = 0
  <2>1. IsFiniteSet(Player) /\ \A p \in Player : tagCount[p] \in {0, 1}
    BY <1>1, MatchAssumption
  <2>2. Total(tagCount, Player) = Cardinality({p \in Player : tagCount[p] = 1})
    BY <2>1, TotalOfOnes
  <2> QED
    BY <1>2, <2>2, FS_EmptySet
<1> QED
  BY <1>1, <1>2, <1>3, FS_EmptySet DEF Scored, MatchInit

\* Where nobody is caught, the score stands: fewer may be alive.
LEMMA ScoreStands ==
  ASSUME Scored, UNCHANGED <<tagCount, taggedCount>>, survivors' \subseteq survivors,
         stage' = "reported" => UNCHANGED <<stage, result>>
  PROVE  Scored'
BY DEF Scored, Tagged

\* A credit to one player is one to their sum.
LEMMA OneIsCredited ==
  ASSUME NEW t \in Player, NEW n \in Nat, NEW before \in [Player -> Nat], NEW after,
         after = [p \in Player |-> IF p = t THEN before[p] + n ELSE before[p]]
  PROVE  Total(after, Player) = Total(before, Player) + n
<1>1. IsFiniteSet(Player)
  BY MatchAssumption
<1>2. \A x \in Player : before[x] \in Nat /\ after[x] \in Nat /\ (x # t => before[x] = after[x])
  OBVIOUS
<1>3. Total(after, Player) = Total(before, Player) - before[t] + after[t]
  BY <1>1, <1>2, TotalOfOneChanged
<1>4. Total(before, Player) \in Nat
  BY <1>1, <1>2, TotalIsUnits
<1> QED
  BY <1>3, <1>4

\* The end of a tick: the one tagger is credited with everybody caught in it, and
\* each of them was alive until then.
LEMMA TickScores ==
  ASSUME MatchInv, Scored, NEW touched \in SUBSET Player, EndTick(touched)
  PROVE  Scored'
<1> DEFINE caught == Caught(touched)
<1>1. Running /\ MatchTypeOK /\ OneLivingTagger
  BY DEF EndTick, Running, MatchInv
<1>2. TheTagger \in survivors /\ LivingTagger = {TheTagger} /\ TheTagger \in Player
  BY <1>1, TaggerFound DEF MatchTypeOK
<1>3. caught \subseteq survivors /\ caught \in SUBSET Player
  BY <1>1 DEF Caught, MatchTypeOK
<1>4. /\ survivors' = survivors \ caught
      /\ taggedCount' = [p \in Player |-> IF p \in caught THEN taggedCount[p] + 1 ELSE taggedCount[p]]
      /\ tagCount' = [p \in Player |-> IF p \in LivingTagger /\ p = TheTagger
                                       THEN tagCount[p] + Cardinality(caught) ELSE tagCount[p]]
      /\ stage' # "reported"
  BY DEF EndTick, StartFinish
<1> HIDE DEF caught
<1>5. \A p \in Player : taggedCount'[p] = IF p \in caught THEN 1 ELSE taggedCount[p]
  BY <1>3, <1>4 DEF Scored
<1>6. \A p \in Player : taggedCount'[p] \in {0, 1} /\ (taggedCount'[p] = 1 => p \notin survivors')
  BY <1>4, <1>5 DEF Scored
<1>7. Tagged' = Tagged \cup caught /\ Tagged \cap caught = {}
  BY <1>3, <1>5 DEF Tagged, Scored
<1>8. Cardinality(Tagged') = Cardinality(Tagged) + Cardinality(caught)
  <2>1. IsFiniteSet(Tagged) /\ IsFiniteSet(caught)
    BY <1>3, PlayersCounted DEF Tagged
  <2>2. Cardinality(Tagged) \in Nat /\ Cardinality(caught) \in Nat
    BY <2>1, FS_CardinalityType
  <2>3. Cardinality(Tagged \cap caught) = 0
    BY <1>7, FS_EmptySet
  <2>4. Cardinality(Tagged \cup caught) = Cardinality(Tagged) + Cardinality(caught) - Cardinality(Tagged \cap caught)
    BY <2>1, FS_Union
  <2> QED
    BY <1>7, <2>2, <2>3, <2>4
<1>9. Total(tagCount', Player) = Total(tagCount, Player) + Cardinality(caught)
  <2>1. Cardinality(caught) \in Nat /\ TheTagger \in Player /\ tagCount \in [Player -> Nat]
    BY <1>1, <1>2, <1>3, PlayersCounted DEF MatchTypeOK
  <2>2. tagCount' = [p \in Player |-> IF p = TheTagger THEN tagCount[p] + Cardinality(caught) ELSE tagCount[p]]
    BY <1>2, <1>4
  <2> QED
    BY <2>1, <2>2, OneIsCredited
<1>10. Total(tagCount, Player)' = Total(tagCount', Player)
  BY DEF Total, MapThenSumSet, MapThenFoldSet
<1> QED
  BY <1>4, <1>6, <1>8, <1>9, <1>10 DEF Scored

\* buildResult adds up what the players have.
LEMMA ReportScores ==
  ASSUME Scored, Report
  PROVE  Scored'
<1>1. UNCHANGED <<survivors, tagCount, taggedCount>> /\ result' = BuildResult
  BY DEF Report
<1>2. BuildResult.tags = Total(tagCount, Player) /\ BuildResult.tagged = Total(taggedCount, Player)
  BY DEF BuildResult, Total
<1> QED
  BY <1>1, <1>2 DEF Scored, Tagged

\* The score holds in every match.
LEMMA ScoredAlways == MatchSpec => [](MatchInv /\ Scored)
<1>1. MatchInv /\ Scored /\ [MatchNext]_worldVars => Scored'
  <2> SUFFICES ASSUME MatchInv, Scored, [MatchNext]_worldVars PROVE Scored'
    OBVIOUS
  <2>1. CASE \E p, target \in Player : QueueSkill(p, target)
    BY <2>1, ScoreStands DEF QueueSkill
  <2>2. CASE BeginTick
    BY <2>2, ScoreStands DEF BeginTick
  <2>3. CASE \E inRange \in BOOLEAN : UseSkill(inRange)
    BY <2>3, ScoreStands DEF UseSkill
  <2>4. CASE \E touched \in SUBSET Player : EndTick(touched)
    BY <2>4, TickScores
  <2>5. CASE \E p \in Player : EliminateDisconnected(p)
    BY <2>5, ScoreStands DEF EliminateDisconnected, SessionOpen, StartFinish
  <2>6. CASE Report
    BY <2>6, ReportScores
  <2>7. CASE StopMatch
    BY <2>7, ScoreStands DEF StopMatch
  <2>8. CASE UNCHANGED worldVars
    BY <2>8, ScoreStands DEF worldVars
  <2> QED
    BY <2>1, <2>2, <2>3, <2>4, <2>5, <2>6, <2>7, <2>8 DEF MatchNext
<1>2. MatchSpec => []MatchInv
  BY MatchInvariant
<1> QED
  BY <1>1, <1>2, ScoredInit, PTL DEF MatchSpec

\* For any number of players: the result names as winners those who were never out,
\* and the catches it credits to the taggers are as many as it charges to the caught,
\* each of them one of those who did not win (game-session.ts finish, buildResult).
THEOREM ResultIsTheMatch == MatchSpec => []ResultTellsTheMatch
<1>1. MatchInv /\ Scored => CatchesAreCounted
  <2> SUFFICES ASSUME MatchInv, Scored, stage = "reported"
               PROVE  /\ result.tags = result.tagged
                      /\ result.tags <= Cardinality(Player \ result.winners)
    BY DEF CatchesAreCounted
  <2>1. Total(taggedCount, Player) = Cardinality(Tagged)
    BY MatchAssumption, TotalOfOnes DEF Scored, Tagged
  <2>2. result.winners = survivors
    BY DEF MatchInv, Reported, Decided
  <2>3. Tagged \in SUBSET (Player \ survivors) /\ IsFiniteSet(Player \ survivors)
    BY MatchAssumption, FS_Difference DEF Tagged, Scored
  <2>4. Cardinality(Tagged) <= Cardinality(Player \ survivors)
    BY <2>3, FS_Subset
  <2> QED
    BY <2>1, <2>2, <2>4 DEF Scored
<1> QED
  BY <1>1, ScoredAlways, WinnersAreRight, PTL DEF ResultTellsTheMatch

-----------------------------------------------------------------------------
(* The viewers and the replay of one session.                                *)

\* A viewer who turned spectating off has missed something until he is sent the whole
\* map: without this the next frame after he turns it on again would be his first.
PausedHaveLapsed == paused \subseteq lapsed

\* The inductive invariant of the session's broadcast.
BroadcastInv == BroadcastTypeOK /\ ViewersShowTheMap /\ ReplayShowsTheMap /\ PausedHaveLapsed

\* Everybody is owed the map, and the replay is empty.
LEMMA BroadcastInvInit == BroadcastInit => BroadcastInv
<1> SUFFICES ASSUME BroadcastInit PROVE BroadcastInv
  OBVIOUS
<1> USE DEF BroadcastInit
<1>0. screen \in [Viewer -> SUBSET (Tile \cup NoMap)]
  <2>1. NoMap \in SUBSET (Tile \cup NoMap)
    OBVIOUS
  <2> QED
    BY <2>1
<1>1. BroadcastTypeOK
  BY <1>0, BroadcastAssumption DEF BroadcastTypeOK
<1>2. ViewersShowTheMap /\ ReplayShowsTheMap /\ PausedHaveLapsed
  BY DEF ViewersShowTheMap, ReplayShowsTheMap, PausedHaveLapsed
<1> QED
  BY <1>1, <1>2 DEF BroadcastInv

\* A tick that goes on, with or without a publication.
LEMMA StepAllKeeps ==
  ASSUME BroadcastInv, NEW changes \in SUBSET (Tile \ collapsed), NEW levels \in [Viewer -> Level],
         StepAll(changes, levels)
  PROVE  BroadcastInv'
<1> USE DEF BroadcastInv, BroadcastTypeOK
<1>0. /\ showing /\ showing' = showing /\ watching' = watching /\ paused' = paused /\ drops' = drops
      /\ collapsed' = collapsed \cup changes /\ beat' = 1 - beat
  BY DEF StepAll
<1>1. beat' \in {0, 1} /\ collapsed' \subseteq Tile
  BY <1>0
<1>2. CASE beat' # 0
  <2>1. unsent' = unsent \cup changes /\ UNCHANGED <<screen, needsFull, frames, recorded, lapsed>>
    BY <1>2 DEF StepAll
  <2>2. collapsed' \ unsent' = collapsed \ unsent
    BY <1>0, <2>1
  <2>3. BroadcastTypeOK'
    BY <1>0, <1>1, <2>1
  <2>4. ViewersShowTheMap'
    BY <1>0, <2>1, <2>2 DEF ViewersShowTheMap, UpToDate
  <2>5. ReplayShowsTheMap'
    BY <1>0, <2>1, <2>2 DEF ReplayShowsTheMap
  <2> QED
    BY <1>0, <2>1, <2>3, <2>4, <2>5 DEF PausedHaveLapsed
<1>3. CASE beat' = 0
  <2> DEFINE sent == {v \in watching : levels[v] = "below"}
             lost == {v \in watching : DroppedBySocket(v, levels[v])}
             ch == unsent \cup changes
  <2>1. /\ screen' = [v \in Viewer |-> IF v \in sent THEN Shows(v, collapsed', ch) ELSE screen[v]]
        /\ lapsed' = (lapsed \ (needsFull \cap sent)) \cup lost
        /\ needsFull' = OwedAfter(levels)
        /\ recorded' = (IF frames = 0 THEN collapsed' ELSE recorded \cup ch)
        /\ frames' = (frames + 1) % FramesPerChunk
        /\ unsent' = {}
    BY <1>3 DEF StepAll, Publish, Record
  <2>2. collapsed' = (collapsed \ unsent) \cup ch
    BY <1>0
  <2>3. frames' \in 0 .. FramesPerChunk - 1
    BY <2>1, BroadcastAssumption
  <2>4. screen' \in [Viewer -> SUBSET (Tile \cup NoMap)]
    <3>1. \A v \in Viewer : Shows(v, collapsed', ch) \subseteq Tile \cup NoMap
      BY <1>1 DEF Shows
    <3> QED
      BY <2>1, <3>1
  <2>5. BroadcastTypeOK'
    BY <1>0, <1>1, <2>1, <2>3, <2>4 DEF OwedAfter
  <2>6. ViewersShowTheMap'
    <3> SUFFICES ASSUME NEW v \in watching, v \notin needsFull', v \notin lapsed'
                 PROVE  screen'[v] = collapsed'
      BY <1>0, <2>1 DEF ViewersShowTheMap, UpToDate
    <3>1. v \in sent
      BY <2>1 DEF OwedAfter, DroppedBySocket, Skipped, Level
    <3>2. CASE v \in needsFull
      BY <2>1, <3>1, <3>2 DEF Shows
    <3>3. CASE v \notin needsFull
      <4>1. v \notin lapsed
        BY <2>1, <3>3
      <4>2. screen[v] = collapsed \ unsent
        BY <1>0, <3>3, <4>1 DEF ViewersShowTheMap, UpToDate
      <4> QED
        BY <2>1, <2>2, <3>1, <3>3, <4>2 DEF Shows
    <3> QED
      BY <3>2, <3>3
  <2>7. ReplayShowsTheMap'
    BY <1>0, <2>1, <2>2 DEF ReplayShowsTheMap
  <2>8. PausedHaveLapsed'
    BY <1>0, <2>1 DEF PausedHaveLapsed
  <2> QED
    BY <2>5, <2>6, <2>7, <2>8
<1> QED
  BY <1>2, <1>3

\* Ticks, the end of the match, and the coming and going of viewers keep the invariant.
LEMMA BroadcastInvNext == BroadcastInv /\ [BroadcastNext]_broadcastVars => BroadcastInv'
<1> SUFFICES ASSUME BroadcastInv, [BroadcastNext]_broadcastVars PROVE BroadcastInv'
  OBVIOUS
<1> USE DEF BroadcastInv, BroadcastTypeOK, ViewersShowTheMap, ReplayShowsTheMap, PausedHaveLapsed,
            UpToDate
<1>1. CASE UNCHANGED broadcastVars
  BY <1>1 DEF broadcastVars
<1>2. ASSUME NEW changes \in SUBSET (Tile \ collapsed), NEW levels \in [Viewer -> Level],
             StepAll(changes, levels)
      PROVE  BroadcastInv'
  BY <1>2, StepAllKeeps
<1>3. ASSUME NEW changes \in SUBSET (Tile \ collapsed), StepEnds(changes) PROVE BroadcastInv'
  <2>1. /\ showing' = FALSE /\ collapsed' = collapsed \cup changes /\ beat' = 1 - beat
        /\ recorded' = collapsed' /\ unsent' \subseteq collapsed'
        /\ UNCHANGED <<needsFull, watching, paused, screen, frames, drops, lapsed>>
    BY <1>3 DEF StepEnds, FinalFrame
  <2>2. beat' \in {0, 1} /\ collapsed' \subseteq Tile
    BY <2>1
  <2> QED
    BY <2>1, <2>2
<1>4. ASSUME NEW v \in Viewer, EndBetweenTicks(v) PROVE BroadcastInv'
  BY <1>4 DEF EndBetweenTicks, FinalFrame
<1>5. ASSUME NEW v \in Viewer, LoseConnection(v) PROVE BroadcastInv'
  <2>1. NoMap \in SUBSET (Tile \cup NoMap)
    OBVIOUS
  <2>2. screen' \in [Viewer -> SUBSET (Tile \cup NoMap)] /\ \A u \in Viewer \ {v} : screen'[u] = screen[u]
    BY <1>5, <2>1 DEF LoseConnection
  <2>3. BroadcastTypeOK'
    BY <1>5, <2>2, BroadcastAssumption DEF LoseConnection
  <2> QED
    BY <1>5, <2>2, <2>3 DEF LoseConnection
<1>6. ASSUME NEW v \in Viewer, Reconnect(v) PROVE BroadcastInv'
  BY <1>6 DEF Reconnect
<1>7. ASSUME NEW v \in Viewer, SpectateOff(v) PROVE BroadcastInv'
  BY <1>7, BroadcastAssumption DEF SpectateOff
<1>8. ASSUME NEW v \in Viewer, SpectateOn(v) PROVE BroadcastInv'
  BY <1>8 DEF SpectateOn
<1> QED
  BY <1>1, <1>2, <1>3, <1>4, <1>5, <1>6, <1>7, <1>8 DEF BroadcastNext

\* Neither the viewers nor the replay miss a collapsed tile, for any number of viewers,
\* tiles and frames per chunk (game-session.ts publish, session-recorder.ts).
THEOREM EverybodySees == BroadcastSpec => []EverybodySeesTheMap
<1>1. BroadcastInv => EverybodySeesTheMap
  BY DEF BroadcastInv, EverybodySeesTheMap
<1> QED
  BY <1>1, BroadcastInvInit, BroadcastInvNext, PTL DEF BroadcastSpec

-----------------------------------------------------------------------------
(* What recorders and downloads take from the budgets they share.            *)

ReplaysTypeOK ==
  /\ recording \in [Recorder -> {"recording", "aborted", "storing", "done"}]
  /\ spooled \in [Recorder -> Nat] /\ frameCount \in [Recorder -> Nat]
  /\ processSpool \in Nat
  /\ download \in [Download -> {"none", "busy", "admitted", "claiming", "reading", "failed",
                                "served", "missing"}]
  /\ downloads \in Nat
  /\ replayTicket \in BOOLEAN

\* A recorder at work holds the frames it wrote, any other nothing, and the shared
\* budget is what all of them hold.
SpoolKept ==
  /\ \A r \in Recorder :
       spooled[r] = IF recording[r] \in {"recording", "storing"} THEN frameCount[r] ELSE 0
  /\ processSpool = Total(spooled, Recorder) /\ processSpool <= SpoolLimit

\* Whoever reads the file or was served took the ticket, and is the only one.
GotTheFile(q) == download[q] \in {"reading", "served"}
TicketKept ==
  /\ replayTicket => \A q \in Download : ~GotTheFile(q)
  /\ \A p, q \in Download : GotTheFile(p) /\ GotTheFile(q) => p = q

\* The slots taken are those of the requests at work.
AtWork == {q \in Download : download[q] \in {"admitted", "claiming", "reading", "failed"}}
SlotsKept == downloads = Cardinality(AtWork) /\ downloads <= MaxDownloads

\* The inductive invariant of the replays.
ReplaysInv == ReplaysTypeOK /\ SpoolKept /\ TicketKept /\ SlotsKept

\* One recorder's bytes are set anew.
LEMMA OneSpoolSet ==
  ASSUME NEW r \in Recorder, NEW before \in [Recorder -> Nat], NEW after \in [Recorder -> Nat],
         \A x \in Recorder : x # r => before[x] = after[x]
  PROVE  /\ Total(after, Recorder) = Total(before, Recorder) - before[r] + after[r]
         /\ Total(before, Recorder) \in Nat /\ before[r] <= Total(before, Recorder)
<1>1. IsFiniteSet(Recorder)
  BY ReplaysAssumption
<1>2. \A x \in Recorder : before[x] \in Nat /\ after[x] \in Nat /\ (x # r => before[x] = after[x])
  OBVIOUS
<1>3. Total(after, Recorder) = Total(before, Recorder) - before[r] + after[r]
  BY <1>1, <1>2, TotalOfOneChanged
<1>4. before[r] <= Total(before, Recorder)
  BY <1>1, <1>2, TotalOfOneChanged
<1>5. Total(before, Recorder) \in Nat
  BY <1>1, <1>2, TotalIsUnits
<1> QED
  BY <1>3, <1>4, <1>5

\* Those who have nothing do not count.
LEMMA TotalOfSome ==
  ASSUME NEW who, IsFiniteSet(who), NEW some \in SUBSET who, NEW a, NEW b,
         \A x \in who : a[x] \in Nat,
         \A x \in who : a[x] = IF x \in some THEN b[x] ELSE 0
  PROVE  Total(a, who) = Total(b, some)
<1>1. IsFiniteSet(some) /\ \A x \in some : b[x] \in Nat
  BY FS_Subset
<1>2. Units(a, who) = Units(b, some)
  <2>1. \A x \in who : x \notin some => {x} \X (1 .. a[x]) = {}
    OBVIOUS
  <2>2. \A x \in some : {x} \X (1 .. a[x]) = {x} \X (1 .. b[x])
    OBVIOUS
  <2> QED
    BY <2>1, <2>2 DEF Units
<1> QED
  BY <1>1, <1>2, TotalIsUnits

LEMMA ReplaysInvInit == ReplaysInit => ReplaysInv
<1> SUFFICES ASSUME ReplaysInit PROVE ReplaysInv
  OBVIOUS
<1> USE ReplaysAssumption DEF ReplaysInit
<1>1. ReplaysTypeOK
  BY DEF ReplaysTypeOK
<1>2. Total(spooled, Recorder) = 0
  <2>1. \A r \in Recorder : spooled[r] \in {0, 1}
    OBVIOUS
  <2>2. Total(spooled, Recorder) = Cardinality({r \in Recorder : spooled[r] = 1})
    BY <2>1, TotalOfOnes
  <2>3. {r \in Recorder : spooled[r] = 1} = {}
    OBVIOUS
  <2> QED
    BY <2>2, <2>3, FS_EmptySet
<1>3. SpoolKept
  BY <1>2 DEF SpoolKept
<1>4. TicketKept
  BY DEF TicketKept, GotTheFile
<1>5. SlotsKept
  <2>1. AtWork = {}
    BY DEF AtWork
  <2> QED
    BY <2>1, FS_EmptySet DEF SlotsKept
<1> QED
  BY <1>1, <1>3, <1>4, <1>5 DEF ReplaysInv

\* What is left alone keeps its part of the invariant.
LEMMA SpoolStands ==
  ASSUME SpoolKept, UNCHANGED spoolVars
  PROVE  SpoolKept'
BY DEF SpoolKept, spoolVars

LEMMA DownloadsStand ==
  ASSUME TicketKept, SlotsKept, UNCHANGED downloadVars
  PROVE  TicketKept' /\ SlotsKept'
BY DEF TicketKept, SlotsKept, GotTheFile, AtWork, downloadVars

\* A recorder that is done with its bytes gives back what it holds, and no more.
LEMMA ReleaseKeeps ==
  ASSUME ReplaysTypeOK, SpoolKept, NEW r \in Recorder, Release(r), UNCHANGED frameCount,
         NEW to \in {"aborted", "done"}, recording' = [recording EXCEPT ![r] = to]
  PROVE  /\ SpoolKept' /\ recording' \in [Recorder -> {"recording", "aborted", "storing", "done"}]
         /\ spooled' \in [Recorder -> Nat] /\ processSpool' \in Nat
<1> USE DEF ReplaysTypeOK
<1>1. spooled' = [spooled EXCEPT ![r] = 0]
  BY DEF Release, Released
<1>2. /\ Total(spooled', Recorder) = Total(spooled, Recorder) - spooled[r]
      /\ Total(spooled, Recorder) \in Nat /\ spooled[r] <= Total(spooled, Recorder)
  <2>1. /\ spooled' \in [Recorder -> Nat] /\ spooled \in [Recorder -> Nat] /\ spooled'[r] = 0
        /\ \A x \in Recorder : x # r => spooled[x] = spooled'[x]
    BY <1>1
  <2>2. /\ Total(spooled', Recorder) = Total(spooled, Recorder) - spooled[r] + spooled'[r]
        /\ Total(spooled, Recorder) \in Nat /\ spooled[r] <= Total(spooled, Recorder)
    BY <2>1, OneSpoolSet
  <2> QED
    BY <2>1, <2>2
<1>3. processSpool' = Total(spooled', Recorder) /\ processSpool' <= SpoolLimit /\ processSpool' \in Nat
  BY <1>2, ReplaysAssumption DEF Release, SpoolKept
<1>4. ASSUME NEW s \in Recorder
      PROVE  spooled'[s] = IF recording'[s] \in {"recording", "storing"} THEN frameCount'[s] ELSE 0
  BY <1>1 DEF SpoolKept
<1>5. Total(spooled, Recorder)' = Total(spooled', Recorder)
  BY DEF Total, MapThenSumSet, MapThenFoldSet
<1> QED
  BY <1>1, <1>3, <1>4, <1>5 DEF SpoolKept

LEMMA WriteKeeps ==
  ASSUME ReplaysInv, NEW r \in Recorder, WriteFrame(r)
  PROVE  ReplaysInv'
<1> USE DEF ReplaysInv
<1>1. TicketKept' /\ SlotsKept'
  BY DownloadsStand DEF WriteFrame
<1>2. CASE frameCount[r] >= FrameLimit \/ processSpool + 1 > SpoolLimit
  <2>1. Release(r) /\ UNCHANGED frameCount /\ recording' = [recording EXCEPT ![r] = "aborted"]
    BY <1>2 DEF WriteFrame
  <2> QED
    BY <1>1, <2>1, ReleaseKeeps DEF WriteFrame, ReplaysTypeOK, downloadVars
<1>3. CASE ~(frameCount[r] >= FrameLimit \/ processSpool + 1 > SpoolLimit)
  <2>1. /\ recording[r] = "recording" /\ recording' = recording
        /\ frameCount' = [frameCount EXCEPT ![r] = @ + 1]
        /\ spooled' = [spooled EXCEPT ![r] = @ + 1]
        /\ processSpool' = processSpool + 1
        /\ UNCHANGED downloadVars
    BY <1>3 DEF WriteFrame
  <2>2. ReplaysTypeOK'
    BY <2>1 DEF ReplaysTypeOK, downloadVars
  <2>3. /\ spooled' \in [Recorder -> Nat] /\ spooled \in [Recorder -> Nat] /\ spooled'[r] = spooled[r] + 1
        /\ \A x \in Recorder : x # r => spooled[x] = spooled'[x]
    BY <2>1 DEF ReplaysTypeOK
  <2>4. /\ Total(spooled', Recorder) = Total(spooled, Recorder) - spooled[r] + spooled'[r]
        /\ Total(spooled, Recorder) \in Nat
    BY <2>3, OneSpoolSet
  <2>5. processSpool' = Total(spooled', Recorder)
    BY <2>1, <2>3, <2>4 DEF SpoolKept, ReplaysTypeOK
  <2>6. processSpool' <= SpoolLimit
    BY <1>3, <2>1, ReplaysAssumption DEF ReplaysTypeOK
  <2>7. ASSUME NEW s \in Recorder
        PROVE  spooled'[s] = IF recording'[s] \in {"recording", "storing"} THEN frameCount'[s] ELSE 0
    BY <2>1 DEF SpoolKept, ReplaysTypeOK
  <2>8. Total(spooled, Recorder)' = Total(spooled', Recorder)
    BY DEF Total, MapThenSumSet, MapThenFoldSet
  <2> QED
    BY <1>1, <2>2, <2>5, <2>6, <2>7, <2>8 DEF SpoolKept
<1> QED
  BY <1>2, <1>3

\* abort, finish and the file that is stored.
LEMMA RecorderEndsKeeps ==
  ASSUME ReplaysInv, NEW r \in Recorder, AbortRecording(r) \/ FinishRecording(r) \/ StoreReplay(r)
  PROVE  ReplaysInv'
<1> USE DEF ReplaysInv
<1>1. TicketKept' /\ SlotsKept' /\ UNCHANGED frameCount /\ UNCHANGED downloadVars
  BY DownloadsStand DEF AbortRecording, FinishRecording, StoreReplay
<1>2. CASE Release(r) /\ \E to \in {"aborted", "done"} : recording' = [recording EXCEPT ![r] = to]
  BY <1>1, <1>2, ReleaseKeeps DEF ReplaysTypeOK, downloadVars
<1>3. CASE recording[r] = "recording" /\ recording' = [recording EXCEPT ![r] = "storing"]
           /\ UNCHANGED <<spooled, processSpool>>
  <2>1. ReplaysTypeOK'
    BY <1>1, <1>3 DEF ReplaysTypeOK, downloadVars
  <2>2. SpoolKept'
    BY <1>1, <1>3 DEF SpoolKept, ReplaysTypeOK
  <2> QED
    BY <1>1, <2>1, <2>2
<1> QED
  BY <1>2, <1>3 DEF AbortRecording, FinishRecording, StoreReplay

\* One request goes on, and takes or leaves a slot.
LEMMA SlotTaken ==
  ASSUME ReplaysTypeOK, NEW q \in Download, NEW to, download' = [download EXCEPT ![q] = to]
  PROVE  /\ to \in {"admitted", "claiming", "reading", "failed"} => AtWork' = AtWork \cup {q}
         /\ to \notin {"admitted", "claiming", "reading", "failed"} => AtWork' = AtWork \ {q}
         /\ IsFiniteSet(AtWork) /\ Cardinality(AtWork) \in Nat
<1>1. AtWork \in SUBSET Download
  BY DEF AtWork
<1>2. IsFiniteSet(AtWork) /\ Cardinality(AtWork) \in Nat
  BY <1>1, ReplaysAssumption, FS_Subset, FS_CardinalityType
<1>3. \A p \in Download : download'[p] = IF p = q THEN to ELSE download[p]
  BY DEF ReplaysTypeOK
<1> QED
  BY <1>2, <1>3 DEF AtWork

LEMMA AdmitKeeps ==
  ASSUME ReplaysInv, NEW q \in Download, AdmitReplay(q)
  PROVE  ReplaysInv'
<1> USE DEF ReplaysInv
<1>1. /\ SpoolKept' /\ UNCHANGED spoolVars /\ replayTicket' = replayTicket /\ q \notin AtWork
      /\ download[q] = "none"
  BY SpoolStands DEF AdmitReplay, AtWork
<1>2. CASE downloads >= MaxDownloads
  <2>1. download' = [download EXCEPT ![q] = "busy"] /\ downloads' = downloads
    BY <1>2 DEF AdmitReplay
  <2>2. AtWork' = AtWork \ {q}
    <3>1. "busy" \notin {"admitted", "claiming", "reading", "failed"}
      OBVIOUS
    <3> QED
      BY <2>1, <3>1, SlotTaken
  <2>3. AtWork' = AtWork
    BY <1>1, <2>2
  <2> QED
    BY <1>1, <2>1, <2>3 DEF ReplaysTypeOK, TicketKept, GotTheFile, SlotsKept, spoolVars
<1>3. CASE ~(downloads >= MaxDownloads)
  <2>1. download' = [download EXCEPT ![q] = "admitted"] /\ downloads' = downloads + 1
    BY <1>3 DEF AdmitReplay
  <2>2. AtWork' = AtWork \cup {q} /\ IsFiniteSet(AtWork) /\ Cardinality(AtWork) \in Nat
    BY <2>1, SlotTaken
  <2>3. Cardinality(AtWork') = Cardinality(AtWork) + 1
    BY <1>1, <2>2, FS_AddElement
  <2>4. SlotsKept'
    BY <1>3, <2>1, <2>2, <2>3, ReplaysAssumption DEF SlotsKept
  <2> QED
    BY <1>1, <2>1, <2>4 DEF ReplaysTypeOK, TicketKept, GotTheFile, spoolVars
<1> QED
  BY <1>2, <1>3

\* The ticket is read, and then claimed by one only.
LEMMA TicketKeeps ==
  ASSUME ReplaysInv, NEW q \in Download, ReadTicket(q) \/ ClaimTicket(q)
  PROVE  ReplaysInv'
<1> USE DEF ReplaysInv
<1>1. PICK to \in {"claiming", "reading", "failed"} :
        /\ download' = [download EXCEPT ![q] = to]
        /\ to = "reading" => replayTicket /\ ~replayTicket'
  BY DEF ReadTicket, ClaimTicket, ClaimsTicket
<1>2. /\ SpoolKept' /\ UNCHANGED spoolVars /\ UNCHANGED downloads /\ q \in AtWork
      /\ replayTicket' = replayTicket \/ replayTicket' = FALSE
  BY SpoolStands DEF ReadTicket, ClaimTicket, AtWork, ReplaysTypeOK
<1>3. SlotsKept'
  <2>1. AtWork' = AtWork \cup {q}
    BY <1>1, SlotTaken
  <2>2. AtWork' = AtWork
    BY <1>2, <2>1
  <2> QED
    BY <1>2, <2>2 DEF SlotsKept
<1>4. TicketKept'
  <2>1. \A p \in Download : download'[p] = IF p = q THEN to ELSE download[p]
    BY <1>1 DEF ReplaysTypeOK
  <2>2. CASE to = "reading"
    BY <1>1, <2>1, <2>2 DEF TicketKept, GotTheFile
  <2>3. CASE to # "reading"
    BY <1>1, <1>2, <2>1, <2>3 DEF TicketKept, GotTheFile
  <2> QED
    BY <2>2, <2>3
<1>5. ReplaysTypeOK'
  <2>1. replayTicket' \in BOOLEAN
    BY <1>2 DEF ReplaysTypeOK
  <2> QED
    BY <1>1, <1>2, <2>1 DEF ReplaysTypeOK, spoolVars
<1> QED
  BY <1>2, <1>3, <1>4, <1>5

\* The response gives the slot back.
LEMMA RespondKeeps ==
  ASSUME ReplaysInv, NEW q \in Download, Respond(q)
  PROVE  ReplaysInv'
<1> USE DEF ReplaysInv
<1>1. PICK to \in {"served", "missing"} :
        /\ download' = [download EXCEPT ![q] = to]
        /\ to = "served" => download[q] = "reading"
  BY DEF Respond
<1>2. /\ SpoolKept' /\ UNCHANGED spoolVars /\ q \in AtWork
      /\ replayTicket' = replayTicket /\ downloads' = downloads - 1
  BY SpoolStands DEF Respond, AtWork
<1>3. SlotsKept' /\ downloads' \in Nat
  <2>1. AtWork' = AtWork \ {q} /\ IsFiniteSet(AtWork) /\ Cardinality(AtWork) \in Nat
    BY <1>1, SlotTaken
  <2>2. Cardinality(AtWork') = Cardinality(AtWork) - 1 /\ IsFiniteSet(AtWork')
    BY <1>2, <2>1, FS_RemoveElement
  <2>3. Cardinality(AtWork') \in Nat
    BY <2>2, FS_CardinalityType
  <2> QED
    BY <1>2, <2>1, <2>2, <2>3, ReplaysAssumption DEF SlotsKept
<1>4. TicketKept'
  <2>1. \A p \in Download : download'[p] = IF p = q THEN to ELSE download[p]
    BY <1>1 DEF ReplaysTypeOK
  <2>2. \A p \in Download : GotTheFile(p)' => GotTheFile(p)
    BY <1>1, <2>1 DEF GotTheFile
  <2> QED
    BY <1>2, <2>2 DEF TicketKept
<1>5. ReplaysTypeOK'
  BY <1>1, <1>2, <1>3 DEF ReplaysTypeOK, spoolVars
<1> QED
  BY <1>2, <1>3, <1>4, <1>5

\* For any number of recorders and downloads and any limits: the shared budget is
\* what the recorders at work hold, the slots are those in use, neither passes its
\* limit, and one ticket serves one file once (recorder.ts release, ws-transport.ts
\* admitReplay, main.ts readReplay).
THEOREM BudgetsAreGivenBack == ReplaysSpec => []ReplayBudgetsHold
<1>1. ReplaysInv /\ [ReplaysNext]_replayVars => ReplaysInv'
  <2> SUFFICES ASSUME ReplaysInv, [ReplaysNext]_replayVars PROVE ReplaysInv'
    OBVIOUS
  <2>1. CASE UNCHANGED replayVars
    <3>1. UNCHANGED spoolVars /\ UNCHANGED downloadVars
      BY <2>1 DEF replayVars, spoolVars, downloadVars
    <3>2. SpoolKept' /\ TicketKept' /\ SlotsKept'
      BY <3>1, SpoolStands, DownloadsStand DEF ReplaysInv
    <3> QED
      BY <3>1, <3>2 DEF ReplaysInv, ReplaysTypeOK, spoolVars, downloadVars
  <2> QED
    BY <2>1, WriteKeeps, RecorderEndsKeeps, AdmitKeeps, TicketKeeps, RespondKeeps DEF ReplaysNext
<1>2. ReplaysInv => SpoolAccountsForEveryRecorder
  <2> SUFFICES ASSUME ReplaysInv PROVE SpoolAccountsForEveryRecorder
    OBVIOUS
  <2> DEFINE working == {r \in Recorder : recording[r] \in {"recording", "storing"}}
  <2>1. Total(spooled, Recorder) = Total(frameCount, working)
    <3>1. IsFiniteSet(Recorder) /\ working \in SUBSET Recorder
      BY ReplaysAssumption
    <3>2. /\ \A r \in Recorder : spooled[r] \in Nat
          /\ \A r \in Recorder : spooled[r] = IF r \in working THEN frameCount[r] ELSE 0
      BY DEF ReplaysInv, ReplaysTypeOK, SpoolKept
    <3> HIDE DEF working
    <3> QED
      BY <3>1, <3>2, TotalOfSome
  <2> QED
    BY <2>1 DEF SpoolAccountsForEveryRecorder, ReplaysInv, SpoolKept, Total
<1>3. ReplaysInv => TicketServesOnce
  <2> SUFFICES ASSUME ReplaysInv PROVE TicketServesOnce
    OBVIOUS
  <2> DEFINE got == {q \in Download : download[q] \in {"reading", "served"}}
  <2>1. Cardinality(got) <= 1
    <3>1. \A p, q \in got : p = q
      BY DEF ReplaysInv, TicketKept, GotTheFile
    <3> HIDE DEF got
    <3>2. CASE got = {}
      BY <3>2, FS_EmptySet
    <3>3. CASE got # {}
      <4>1. PICK p \in got : got = {p}
        BY <3>1, <3>3
      <4>2. Cardinality({p}) = 1
        BY FS_Singleton
      <4> QED
        BY <4>1, <4>2
    <3> QED
      BY <3>2, <3>3
  <2> QED
    BY <2>1 DEF TicketServesOnce, ReplaysInv, SlotsKept, AtWork
<1> QED
  BY <1>1, <1>2, <1>3, ReplaysInvInit, PTL DEF ReplaysSpec, ReplayBudgetsHold

-----------------------------------------------------------------------------
(* What a player steers.                                                     *)

\* A direction, and a packet that carries one.
Bits == SUBSET {"left", "right", "up", "down"}
Packet == [sequence : 0 .. Ring - 1, bits : Bits]

SteeringTypeOK ==
  /\ number \in 0 .. Ring - 1 /\ gap \in 0 .. MaxDropped
  /\ lastInputSequence \in -1 .. Ring - 1
  /\ flight \in Seq(Packet)
  /\ pressed \in Bits /\ touch \in Bits

\* The page sends only what can be sent, and nothing outlives the connection.
LoopIsHeard == (looping => Sendable) /\ (~open => flight = <<>>)

\* A room that plays takes what arrives, unless the page has begun its numbers anew.
Heard == steering /\ open /\ ~restarted

\* The packets under way are numbered one after the other, up to the page's next number.
NumbersFollow ==
  Heard => \A i \in 1 .. Len(flight) :
             nextSequence(flight[i].sequence) = IF i < Len(flight) THEN flight[i + 1].sequence ELSE number

\* The next one to arrive is as far ahead of the last one taken as packets were dropped.
NextToArrive == IF flight = <<>> THEN number ELSE Head(flight).sequence
GapIsKnown ==
  Heard /\ lastInputSequence # NoInput =>
    NextToArrive \in {lastInputSequence + gap + 1, lastInputSequence + gap + 1 - Ring}

\* The last packet sent is the last one under way, or was taken.
LastIsSent ==
  Heard => IF flight = <<>> THEN gap = 0 => latestInput = lastSent
           ELSE flight[Len(flight)].bits = lastSent

\* A page that stopped listening has said so.
StoppedMeansStill == Heard /\ ~looping => lastSent = {}

\* The inductive invariant of the controls.
SteeringInv ==
  /\ SteeringTypeOK /\ LoopIsHeard
  /\ NumbersFollow /\ GapIsKnown /\ LastIsSent
  /\ StoppedMeansStill
  /\ ignored => restarted

\* Numbers below the ring's size, and just around it.
LEMMA RingNumbers ==
  /\ Ring \in Nat /\ Ring > 1
  /\ \A n \in 0 .. Ring - 1 : n % Ring = n
  /\ \A n \in Ring .. 2 * Ring - 1 : n % Ring = n - Ring
  /\ \A n \in -Ring .. -1 : n % Ring = n + Ring
<1>1. Ring \in Nat /\ Ring > 1
  BY ControlsAssumption
<1>2. ASSUME NEW n \in Int, NEW q \in Int, 0 <= n - q * Ring, n - q * Ring < Ring
      PROVE  n % Ring = n - q * Ring
  <2> DEFINE d == n \div Ring
             m == n % Ring
  <2>1. d \in Int /\ m \in Int /\ n = Ring * d + m /\ 0 <= m /\ m < Ring
    BY <1>1
  <2> HIDE DEF d, m
  <2>2. d <= q
    <3> SUFFICES ASSUME d >= q + 1 PROVE FALSE
      BY <2>1
    <3>1. Ring * d >= Ring * (q + 1)
      BY <1>1, <2>1
    <3> QED
      BY <1>1, <1>2, <2>1, <3>1
  <2>3. d >= q
    <3> SUFFICES ASSUME q >= d + 1 PROVE FALSE
      BY <2>1
    <3>1. Ring * q >= Ring * (d + 1)
      BY <1>1, <2>1
    <3> QED
      BY <1>1, <1>2, <2>1, <3>1
  <2>4. d = q
    BY <2>1, <2>2, <2>3
  <2> QED
    BY <1>1, <2>1, <2>4 DEF m
<1>3. \A n \in 0 .. Ring - 1 : n % Ring = n
  BY <1>1, <1>2, 0 * Ring = 0
<1>4. \A n \in Ring .. 2 * Ring - 1 : n % Ring = n - Ring
  BY <1>1, <1>2, 1 * Ring = Ring
<1>5. \A n \in -Ring .. -1 : n % Ring = n + Ring
  BY <1>1, <1>2, (-1) * Ring = -Ring
<1> QED
  BY <1>1, <1>3, <1>4, <1>5

\* The number after one of the ring is one of the ring.
LEMMA NextNumber ==
  ASSUME NEW n \in 0 .. Ring - 1
  PROVE  /\ nextSequence(n) \in 0 .. Ring - 1
         /\ nextSequence(n) = IF n = Ring - 1 THEN 0 ELSE n + 1
<1>1. CASE n = Ring - 1
  BY <1>1, RingNumbers DEF nextSequence
<1>2. CASE n # Ring - 1
  BY <1>2, RingNumbers DEF nextSequence
<1> QED
  BY <1>1, <1>2

\* Some steps ahead, and less than half the ring, is newer.
LEMMA AheadIsNewer ==
  ASSUME NEW b \in 0 .. Ring - 1, NEW a \in 0 .. Ring - 1, NEW k \in 1 .. MaxDropped + 1,
         a \in {b + k, b + k - Ring}
  PROVE  isNewerSequence(a, b)
<1>1. 2 * k < Ring /\ k \in Nat /\ Ring \in Nat
  BY ControlsAssumption
<1>2. (a - b) % Ring = k
  <2>1. CASE a - b = k
    BY <1>1, <2>1, RingNumbers
  <2>2. CASE a - b = k - Ring
    BY <1>1, <2>2, RingNumbers
  <2> QED
    BY <1>1, <2>1, <2>2
<1>3. compareSequence(a, b) = k
  BY <1>1, <1>2 DEF compareSequence
<1> QED
  BY <1>1, <1>3 DEF isNewerSequence

-----------------------------------------------------------------------------
\* Where the room does not take what arrives, nothing is claimed of it.
LEMMA UnheardIsFree ==
  ASSUME ~Heard'
  PROVE  NumbersFollow' /\ GapIsKnown' /\ LastIsSent' /\ StoppedMeansStill'
  BY DEF NumbersFollow, GapIsKnown, LastIsSent, StoppedMeansStill

\* A step that leaves the packets alone.
LEMMA PacketsSame ==
  ASSUME SteeringInv, Heard' => Heard,
         UNCHANGED <<number, gap, lastInputSequence, latestInput, lastSent, flight>>
  PROVE  NumbersFollow' /\ GapIsKnown' /\ LastIsSent'
  BY DEF SteeringInv, NumbersFollow, GapIsKnown, LastIsSent, NextToArrive

\* A room that forgets, with nothing under way, begins anew.
LEMMA ForgottenIsNew ==
  ASSUME Forgets, flight' = <<>>
  PROVE  NumbersFollow' /\ GapIsKnown' /\ LastIsSent' /\ StoppedMeansStill' /\ ~ignored'
  BY DEF Forgets, NumbersFollow, GapIsKnown, LastIsSent, StoppedMeansStill

\* The page sends.
LEMMA SentFollows ==
  ASSUME SteeringInv, Sendable, NEW bits \in Bits, SendInput(bits),
         UNCHANGED <<steering, open, restarted, gap, lastInputSequence, latestInput>>
  PROVE  /\ number' \in 0 .. Ring - 1 /\ flight' \in Seq(Packet) /\ lastSent' = bits
         /\ NumbersFollow' /\ GapIsKnown' /\ LastIsSent'
<1> USE DEF SteeringInv, SteeringTypeOK
<1> DEFINE new == [sequence |-> number, bits |-> bits]
<1>1. /\ number' = nextSequence(number) /\ flight' = Append(flight, new) /\ lastSent' = bits
      /\ Heard' <=> Heard
  BY DEF SendInput, Heard
<1>2. new \in Packet /\ new.sequence = number /\ new.bits = bits
  BY DEF Packet
<1> HIDE DEF new
<1>3. /\ flight' \in Seq(Packet) /\ Len(flight') = Len(flight) + 1 /\ Len(flight) \in Nat
      /\ flight'[Len(flight')] = new /\ flight' # <<>>
      /\ \A i \in 1 .. Len(flight) : flight'[i] = flight[i]
  BY <1>1, <1>2
<1>4. number' \in 0 .. Ring - 1
  BY <1>1, NextNumber
<1>5. NumbersFollow'
  <2> SUFFICES ASSUME Heard, NEW i \in 1 .. Len(flight')
               PROVE  nextSequence(flight'[i].sequence) = IF i < Len(flight') THEN flight'[i + 1].sequence ELSE number'
    BY <1>1 DEF NumbersFollow
  <2>1. CASE i = Len(flight')
    BY <1>1, <1>2, <1>3, <2>1
  <2>2. CASE i = Len(flight)
    BY <1>2, <1>3, <2>2 DEF NumbersFollow
  <2>3. CASE i < Len(flight)
    <3>1. i \in 1 .. Len(flight) /\ i + 1 \in 1 .. Len(flight)
      BY <1>3, <2>3
    <3>2. nextSequence(flight[i].sequence) = flight[i + 1].sequence
      BY <2>3, <3>1 DEF NumbersFollow
    <3> QED
      BY <1>3, <2>3, <3>1, <3>2
  <2> QED
    BY <1>3, <2>1, <2>2, <2>3
<1>6. NextToArrive' = NextToArrive
  <2>1. CASE flight = <<>>
    BY <1>2, <1>3, <2>1 DEF NextToArrive
  <2>2. CASE flight # <<>>
    <3>1. 1 \in 1 .. Len(flight) /\ Head(flight) = flight[1] /\ Head(flight') = flight'[1]
      BY <1>3, <2>2
    <3> QED
      BY <1>3, <2>2, <3>1 DEF NextToArrive
  <2> QED
    BY <2>1, <2>2
<1>7. GapIsKnown'
  BY <1>1, <1>6 DEF GapIsKnown
<1>8. LastIsSent'
  BY <1>1, <1>2, <1>3 DEF LastIsSent
<1> QED
  BY <1>1, <1>3, <1>4, <1>5, <1>7, <1>8

\* The first packet under way leaves it.
LEMMA FirstLeaves ==
  ASSUME SteeringInv, flight # <<>>, flight' = Tail(flight), number' = number, Heard' => Heard
  PROVE  /\ flight' \in Seq(Packet) /\ NumbersFollow' /\ Head(flight) \in Packet
         /\ Heard => NextToArrive' = nextSequence(Head(flight).sequence)
         /\ flight' # <<>> => flight'[Len(flight')] = flight[Len(flight)]
         /\ flight' = <<>> => Head(flight) = flight[Len(flight)]
<1> USE DEF SteeringInv, SteeringTypeOK
<1>1. /\ flight' \in Seq(Packet) /\ Len(flight) \in Nat /\ Len(flight) >= 1
      /\ Len(flight') = Len(flight) - 1
      /\ \A i \in 1 .. Len(flight') : flight'[i] = flight[i + 1]
      /\ Head(flight) = flight[1] /\ Head(flight) \in Packet
  OBVIOUS
<1>a. Len(flight') \in Nat /\ (flight' = <<>> <=> Len(flight') = 0)
  <2>1. \A q \in Seq(Packet) : Len(q) \in Nat /\ (q = <<>> <=> Len(q) = 0)
    OBVIOUS
  <2> QED
    BY <1>1, <2>1
<1>2. NumbersFollow'
  <2> SUFFICES ASSUME Heard, NEW i \in 1 .. Len(flight')
               PROVE  nextSequence(flight'[i].sequence) = IF i < Len(flight') THEN flight'[i + 1].sequence ELSE number'
    BY DEF NumbersFollow
  <2>1. i + 1 \in 1 .. Len(flight) /\ flight'[i] = flight[i + 1]
    BY <1>1
  <2>2. nextSequence(flight[i + 1].sequence) = IF i + 1 < Len(flight) THEN flight[i + 2].sequence ELSE number
    BY <2>1 DEF NumbersFollow
  <2>3. CASE i < Len(flight')
    BY <1>1, <2>1, <2>2, <2>3
  <2>4. CASE i = Len(flight')
    BY <1>1, <2>1, <2>2, <2>4
  <2> QED
    <3>1. i < Len(flight') \/ i = Len(flight')
      BY <1>a
    <3> QED
      BY <2>3, <2>4, <3>1
<1>3. ASSUME Heard PROVE NextToArrive' = nextSequence(Head(flight).sequence)
  <2>1. nextSequence(flight[1].sequence) = IF 1 < Len(flight) THEN flight[2].sequence ELSE number
    BY <1>1, <1>3 DEF NumbersFollow
  <2>2. CASE flight' = <<>>
    BY <1>1, <1>a, <2>1, <2>2 DEF NextToArrive
  <2>3. CASE flight' # <<>>
    <3>1. Len(flight') >= 1 /\ Head(flight') = flight'[1]
      BY <1>1, <2>3
    <3>2. flight'[1] = flight[2]
      BY <1>1, <3>1
    <3> QED
      BY <1>1, <2>1, <2>3, <3>1, <3>2 DEF NextToArrive
  <2> QED
    BY <2>2, <2>3
<1>4. flight' # <<>> => flight'[Len(flight')] = flight[Len(flight)]
  <2> SUFFICES ASSUME flight' # <<>> PROVE flight'[Len(flight')] = flight[Len(flight)]
    OBVIOUS
  <2>1. Len(flight') >= 1
    BY <1>1
  <2> QED
    BY <1>1, <2>1
<1>5. flight' = <<>> => Head(flight) = flight[Len(flight)]
  BY <1>1, <1>a
<1> QED
  BY <1>1, <1>2, <1>3, <1>4, <1>5

-----------------------------------------------------------------------------
\* A finger or a key.
LEMMA FingersKeep ==
  ASSUME SteeringInv, KeyDown \/ KeyUp \/ FingerMoves
  PROVE  SteeringInv'
<1> USE DEF SteeringInv, SteeringTypeOK
<1>1. pressed' \in Bits /\ touch' \in Bits
  <2>1. CASE KeyDown
    BY <2>1, ControlsAssumption DEF KeyDown, Bits
  <2>2. CASE KeyUp
    <3>1. pressed' \subseteq pressed /\ touch' = touch
      BY <2>2 DEF KeyUp
    <3> QED
      BY <3>1 DEF Bits
  <2>3. CASE FingerMoves
    <3>1. \A s : directionFromOffset(s) \in Bits
      BY DEF directionFromOffset, Bits
    <3> QED
      BY <2>3, <3>1 DEF FingerMoves, Bits
  <2> QED
    BY <2>1, <2>2, <2>3
<1>2. UNCHANGED <<number, gap, lastInputSequence, latestInput, lastSent, flight, steering, open,
                  restarted, looping, sees, ignored>>
  BY DEF KeyDown, KeyUp, FingerMoves, steerVars
<1>3. NumbersFollow' /\ GapIsKnown' /\ LastIsSent'
  BY <1>2, PacketsSame DEF Heard
<1> QED
  BY <1>1, <1>2, <1>3 DEF LoopIsHeard, Sendable, StoppedMeansStill, Heard

LEMMA TimerSendsKeeps == ASSUME SteeringInv, TimerSends PROVE SteeringInv'
<1> USE DEF SteeringInv, SteeringTypeOK
<1>1. /\ looping /\ SendInput(Direction)
      /\ UNCHANGED <<pressed, touch, looping, open, sees, gap, restarted, steering,
                     lastInputSequence, latestInput, ignored>>
  BY DEF TimerSends, steerVars
<1>2. Sendable
  BY <1>1 DEF LoopIsHeard
<1>3. Direction \in Bits
  BY DEF Direction, Bits
<1>4. /\ number' \in 0 .. Ring - 1 /\ flight' \in Seq(Packet)
      /\ NumbersFollow' /\ GapIsKnown' /\ LastIsSent'
  BY <1>1, <1>2, <1>3, SentFollows
<1> QED
  BY <1>1, <1>2, <1>4 DEF LoopIsHeard, Sendable, StoppedMeansStill

LEMMA OpenSettingsKeeps == ASSUME SteeringInv, OpenSettings PROVE SteeringInv'
<1> USE DEF SteeringInv, SteeringTypeOK
<1>1. /\ looping /\ looping' = FALSE /\ pressed' = {} /\ SendInput({})
      /\ UNCHANGED <<touch, open, sees, gap, restarted, steering, lastInputSequence, latestInput, ignored>>
  BY DEF OpenSettings, LoopStops, JoystickGoes, steerVars
<1>2. Sendable
  BY <1>1 DEF LoopIsHeard
<1>3. {} \in Bits
  BY DEF Bits
<1>4. /\ number' \in 0 .. Ring - 1 /\ flight' \in Seq(Packet) /\ lastSent' = {}
      /\ NumbersFollow' /\ GapIsKnown' /\ LastIsSent'
  BY <1>1, <1>2, <1>3, SentFollows
<1> QED
  BY <1>1, <1>2, <1>3, <1>4 DEF LoopIsHeard, Sendable, StoppedMeansStill

LEMMA LoopStartsKeeps == ASSUME SteeringInv, CloseSettings \/ HearStart PROVE SteeringInv'
<1> USE DEF SteeringInv, SteeringTypeOK
<1>1. /\ UNCHANGED <<number, gap, lastInputSequence, latestInput, lastSent, flight, touch, open,
                     restarted, steering, ignored>>
      /\ pressed' \in {pressed, {}}
  BY DEF CloseSettings, HearStart, LoopStarts, steerVars
<1>2. NumbersFollow' /\ GapIsKnown' /\ LastIsSent'
  BY <1>1, PacketsSame DEF Heard
<1>3. /\ looping => looping'
      /\ looping' => Sendable'
  <2>1. CASE CloseSettings
    BY <2>1 DEF CloseSettings, LoopStarts, LoopIsHeard, Sendable
  <2>2. CASE HearStart
    BY <2>2 DEF HearStart, LoopStarts, LoopIsHeard, Sendable
  <2> QED
    BY <2>1, <2>2
<1>4. pressed' \in Bits
  BY <1>1 DEF Bits
<1> QED
  BY <1>1, <1>2, <1>3, <1>4 DEF LoopIsHeard, StoppedMeansStill, Heard

\* The page stops where the room no longer takes what arrives.
LEMMA PageStopsKeeps == ASSUME SteeringInv, HearEnd \/ ConnectionBreaks PROVE SteeringInv'
<1> USE DEF SteeringInv, SteeringTypeOK
<1>1. /\ looping' = FALSE /\ pressed' = {} /\ number' \in {number, nextSequence(number)}
      /\ UNCHANGED <<touch, gap, restarted, lastInputSequence, latestInput, ignored>>
      /\ \/ flight' = flight /\ open' = open
         \/ flight' = <<>>
  BY DEF HearEnd, ConnectionBreaks, JoystickGoes, steerVars
<1>2. ~Heard'
  BY DEF HearEnd, ConnectionBreaks, Heard, steerVars
<1>3. NumbersFollow' /\ GapIsKnown' /\ LastIsSent' /\ StoppedMeansStill'
  BY <1>2, UnheardIsFree
<1>4. number' \in 0 .. Ring - 1
  <2>1. nextSequence(number) \in 0 .. Ring - 1
    BY NextNumber
  <2> QED
    BY <1>1, <2>1
<1>5. flight' \in Seq(Packet)
  <2>1. <<>> \in Seq(Packet)
    OBVIOUS
  <2> QED
    BY <1>1, <2>1
<1>6. pressed' \in Bits
  BY <1>1 DEF Bits
<1> QED
  BY <1>1, <1>3, <1>4, <1>5, <1>6 DEF LoopIsHeard

LEMMA ReenterKeeps == ASSUME SteeringInv, Reenter PROVE SteeringInv'
<1> USE DEF SteeringInv, SteeringTypeOK
<1> DEFINE new == [sequence |-> number, bits |-> {}]
<1>1. /\ flight' = Append(flight, new) /\ number' = 0 /\ pressed' = {} /\ restarted' = TRUE /\ looping
      /\ UNCHANGED <<touch, looping, open, sees, gap, steering, lastInputSequence, latestInput, ignored>>
  BY DEF Reenter, steerVars
<1>2. new \in Packet
  BY DEF Packet, Bits
<1> HIDE DEF new
<1>3. flight' \in Seq(Packet)
  BY <1>1, <1>2
<1>4. 0 \in 0 .. Ring - 1 /\ {} \in Bits
  BY RingNumbers DEF Bits
<1>5. NumbersFollow' /\ GapIsKnown' /\ LastIsSent' /\ StoppedMeansStill'
  BY <1>1, UnheardIsFree DEF Heard
<1> QED
  BY <1>1, <1>3, <1>4, <1>5 DEF LoopIsHeard, Sendable

LEMMA DeliverKeeps == ASSUME SteeringInv, Deliver PROVE SteeringInv'
<1> USE DEF SteeringInv, SteeringTypeOK
<1> DEFINE packet == Head(flight)
<1>1. /\ flight # <<>> /\ acceptInput(packet) /\ flight' = Tail(flight) /\ gap' = 0
      /\ UNCHANGED <<open, sees, lastSent, restarted, steering, pressed, touch, looping, number>>
  BY DEF Deliver, pageVars
<1>2. Heard' <=> Heard
  BY <1>1 DEF Heard
<1>3. /\ flight' \in Seq(Packet) /\ NumbersFollow' /\ packet \in Packet
      /\ Heard => NextToArrive' = nextSequence(packet.sequence)
      /\ flight' # <<>> => flight'[Len(flight')] = flight[Len(flight)]
      /\ flight' = <<>> => packet = flight[Len(flight)]
  BY <1>1, <1>2, FirstLeaves
<1>4. NextToArrive = packet.sequence
  BY <1>1 DEF NextToArrive
<1> HIDE DEF packet
<1>5. packet.sequence \in 0 .. Ring - 1
  BY <1>3 DEF Packet
<1>6. gap' \in 0 .. MaxDropped
  BY <1>1, ControlsAssumption
<1>7. ASSUME Heard
      PROVE  lastInputSequence' = packet.sequence /\ latestInput' = packet.bits /\ ignored' = ignored
  <2>1. ASSUME lastInputSequence # NoInput PROVE isNewerSequence(packet.sequence, lastInputSequence)
    <3>1. /\ lastInputSequence \in 0 .. Ring - 1
          /\ gap + 1 \in 1 .. MaxDropped + 1
      BY <2>1, ControlsAssumption DEF NoInput
    <3>2. packet.sequence \in {lastInputSequence + (gap + 1), lastInputSequence + (gap + 1) - Ring}
      BY <1>4, <1>7, <2>1, <3>1, ControlsAssumption DEF GapIsKnown
    <3> QED
      BY <1>5, <3>1, <3>2, AheadIsNewer
  <2> QED
    BY <1>1, <1>7, <2>1 DEF acceptInput, Heard
<1>8. GapIsKnown'
  <2>1. ASSUME Heard PROVE NextToArrive' \in {lastInputSequence' + gap' + 1, lastInputSequence' + gap' + 1 - Ring}
    BY <1>1, <1>3, <1>5, <1>7, <2>1, NextNumber, ControlsAssumption
  <2> QED
    BY <1>2, <2>1 DEF GapIsKnown
<1>9. LastIsSent'
  BY <1>1, <1>2, <1>3, <1>7 DEF LastIsSent
<1>10. /\ lastInputSequence' \in -1 .. Ring - 1
       /\ ignored' => restarted'
  <2>1. open
    BY <1>1 DEF LoopIsHeard
  <2>2. CASE ~steering
    BY <1>1, <2>2 DEF acceptInput
  <2>3. CASE steering /\ restarted
    <3>1. lastInputSequence' \in {lastInputSequence, packet.sequence}
      BY <1>1, <2>3 DEF acceptInput
    <3> QED
      BY <1>1, <1>5, <2>3, <3>1
  <2>4. CASE steering /\ ~restarted
    BY <1>1, <1>5, <1>7, <2>1, <2>4 DEF Heard
  <2> QED
    BY <2>2, <2>3, <2>4
<1>11. LoopIsHeard' /\ StoppedMeansStill'
  BY <1>1, <1>2 DEF LoopIsHeard, Sendable, StoppedMeansStill
<1> QED
  BY <1>1, <1>3, <1>6, <1>8, <1>9, <1>10, <1>11

LEMMA DroppedKeeps == ASSUME SteeringInv, Dropped PROVE SteeringInv'
<1> USE DEF SteeringInv, SteeringTypeOK
<1> DEFINE packet == Head(flight)
<1>1. /\ flight # <<>> /\ flight' = Tail(flight) /\ gap' = gap + 1 /\ gap < MaxDropped
      /\ UNCHANGED <<open, sees, lastSent, restarted, steering, pressed, touch, looping, number,
                     lastInputSequence, latestInput, ignored>>
  BY DEF Dropped, pageVars, steerVars
<1>2. Heard' <=> Heard
  BY <1>1 DEF Heard
<1>3. /\ flight' \in Seq(Packet) /\ NumbersFollow' /\ packet \in Packet
      /\ Heard => NextToArrive' = nextSequence(packet.sequence)
      /\ flight' # <<>> => flight'[Len(flight')] = flight[Len(flight)]
  BY <1>1, <1>2, FirstLeaves
<1>4. NextToArrive = packet.sequence
  BY <1>1 DEF NextToArrive
<1> HIDE DEF packet
<1>5. packet.sequence \in 0 .. Ring - 1
  BY <1>3 DEF Packet
<1>6. gap' \in 0 .. MaxDropped /\ gap' # 0
  BY <1>1, ControlsAssumption
<1>7. GapIsKnown'
  <2>1. ASSUME Heard, lastInputSequence # NoInput
        PROVE  NextToArrive' \in {lastInputSequence + gap' + 1, lastInputSequence + gap' + 1 - Ring}
    <3>1. packet.sequence \in {lastInputSequence + gap + 1, lastInputSequence + gap + 1 - Ring}
      BY <1>4, <2>1 DEF GapIsKnown
    <3>2. NextToArrive' = IF packet.sequence = Ring - 1 THEN 0 ELSE packet.sequence + 1
      BY <1>3, <1>5, <2>1, NextNumber
    <3>3. 2 * (MaxDropped + 1) < Ring /\ lastInputSequence \in 0 .. Ring - 1
      BY <2>1, ControlsAssumption DEF NoInput
    <3> QED
      BY <1>1, <1>5, <3>1, <3>2, <3>3, ControlsAssumption
  <2> QED
    BY <1>1, <1>2, <2>1 DEF GapIsKnown
<1>8. LastIsSent'
  BY <1>1, <1>2, <1>3, <1>6 DEF LastIsSent
<1>9. LoopIsHeard' /\ StoppedMeansStill'
  BY <1>1, <1>2 DEF LoopIsHeard, Sendable, StoppedMeansStill
<1> QED
  BY <1>1, <1>3, <1>6, <1>7, <1>8, <1>9

LEMMA BeginsAnewKeeps == ASSUME SteeringInv, GameBegins \/ ConnectionResumes PROVE SteeringInv'
<1> USE DEF SteeringInv, SteeringTypeOK
<1>1. /\ Forgets /\ flight' = <<>> /\ flight' = flight
      /\ UNCHANGED <<pressed, touch, number>>
      /\ \/ UNCHANGED <<looping, open, sees>>
         \/ open' = TRUE /\ sees' = steering /\ looping' = (steering /\ ~dialog)
  BY DEF GameBegins, ConnectionResumes, pageVars, LoopIsHeard
<1>2. NumbersFollow' /\ GapIsKnown' /\ LastIsSent' /\ StoppedMeansStill' /\ ~ignored'
  BY <1>1, ForgottenIsNew
<1>3. gap' \in 0 .. MaxDropped /\ lastInputSequence' \in -1 .. Ring - 1
  BY <1>1, RingNumbers, ControlsAssumption DEF Forgets, NoInput
<1>4. looping' => Sendable'
  <2>1. CASE UNCHANGED <<looping, open, sees>>
    BY <2>1 DEF LoopIsHeard, Sendable
  <2>2. CASE open' = TRUE /\ sees' = steering /\ looping' = (steering /\ ~dialog)
    <3>1. looping' => steering
      BY <2>2, Zenon
    <3>2. steering => sees'
      BY <2>2, Zenon
    <3> QED
      BY <2>2, <3>1, <3>2, Zenon DEF Sendable
  <2> QED
    BY <1>1, <2>1, <2>2, Zenon
<1>5. LoopIsHeard'
  BY <1>1, <1>4 DEF LoopIsHeard
<1> QED
  BY <1>1, <1>2, <1>3, <1>5

LEMMA GameIsOverKeeps == ASSUME SteeringInv, GameIsOver PROVE SteeringInv'
<1> USE DEF SteeringInv, SteeringTypeOK
<1>1. UNCHANGED <<open, sees, flight, lastInputSequence, gap, restarted, ignored, pressed, touch, looping, number>>
  BY DEF GameIsOver, pageVars
<1>2. NumbersFollow' /\ GapIsKnown' /\ LastIsSent' /\ StoppedMeansStill'
  BY UnheardIsFree DEF GameIsOver, Heard
<1> QED
  BY <1>1, <1>2 DEF LoopIsHeard, Sendable

-----------------------------------------------------------------------------
LEMMA SteeringInvInit == ControlsInit => SteeringInv
<1> SUFFICES ASSUME ControlsInit PROVE SteeringInv
  OBVIOUS
<1>1. SteeringTypeOK
  BY RingNumbers, ControlsAssumption DEF ControlsInit, SteeringTypeOK, Bits, NoInput
<1> QED
  BY <1>1 DEF ControlsInit, SteeringInv, LoopIsHeard, NumbersFollow, GapIsKnown, LastIsSent,
              StoppedMeansStill, Heard

LEMMA SteeringStep == SteeringInv /\ [ControlsNext]_controlVars => SteeringInv'
<1> SUFFICES ASSUME SteeringInv, [ControlsNext]_controlVars PROVE SteeringInv'
  OBVIOUS
<1>1. CASE UNCHANGED controlVars
  <2>1. UNCHANGED <<number, gap, lastInputSequence, latestInput, lastSent, flight, steering, open,
                    restarted, looping, sees, ignored, pressed, touch>>
    BY <1>1 DEF controlVars
  <2>2. NumbersFollow' /\ GapIsKnown' /\ LastIsSent'
    BY <2>1, PacketsSame DEF Heard
  <2> QED
    BY <2>1, <2>2 DEF SteeringInv, SteeringTypeOK, LoopIsHeard, Sendable, StoppedMeansStill, Heard
<1> QED
  BY <1>1, FingersKeep, TimerSendsKeeps, OpenSettingsKeeps, LoopStartsKeeps, PageStopsKeeps,
     ReenterKeeps, DeliverKeeps, DroppedKeeps, BeginsAnewKeeps, GameIsOverKeeps DEF ControlsNext

\* The room never takes a newer packet for an old one, though numbers wrap, packets are
\* dropped, games begin and connections are resumed, and a player whose page has stopped
\* listening stands still once its last packet is in (input.ts compareSequence, room.ts
\* acceptInput, the clean-up of GamePage.tsx).
THEOREM RoomObeys == ControlsSpec => []ControlsAreObeyed
<1>1. SteeringInv => ControlsAreObeyed
  BY DEF SteeringInv, ControlsAreObeyed, LastIsSent, StoppedMeansStill, Heard, Heading
<1> QED
  BY <1>1, SteeringInvInit, SteeringStep, PTL DEF ControlsSpec

=============================================================================
