------------------------------ MODULE RateLimit -----------------------------
(* The limiter of the packet path (gateway/rate-limit.ts) for one subject,   *)
(* and what ws-transport.ts does with its decision: excess packets are       *)
(* dropped, a flood that goes on for several windows closes the connection.  *)
(* Windows are kept relative to the current one.                             *)
EXTENDS Naturals, Sequences

CONSTANTS RateBound,       \* the rule's limit in one window
          AbusiveFactor,   \* abusiveMultiplier
          AbusiveWindows,
          MaxPackets       \* bound: packets in one window

ASSUME RateLimitAssumption ==
  /\ {RateBound, AbusiveFactor, AbusiveWindows} \subseteq Nat \ {0}
  /\ MaxPackets \in Nat /\ MaxPackets > RateBound * AbusiveFactor

VARIABLES bucket,   \* the subject's bucket; its window is age windows back
          verdict,  \* the last decision, and whether the connection is open
          recent    \* history: packets in the last windows, the current one first

rateVars == <<bucket, verdict, recent>>

NoBucket == [age |-> 2, count |-> 0, abusive |-> FALSE, streak |-> 0]

RateInit ==
  /\ bucket = NoBucket
  /\ verdict = [allowed |-> TRUE, open |-> TRUE]
  /\ recent = [i \in 1 .. AbusiveWindows |-> 0]

\* A bucket begun for this window continues the streak of the one before it
\* only if that one is the window before; and one that continues any.
AnyStreak(old) == old.streak
Streak(old) == IF old.abusive /\ old.age = 1 THEN old.streak ELSE 0

\* sweep drops a bucket that is two windows old or more; whether it is due does
\* not matter to what check decides, so it may or may not run.
Swept(old, due) == IF due /\ old.age >= 2 THEN NoBucket ELSE old

CurrentBucket(old) ==
  IF old.age = 0 THEN old
  ELSE [age |-> 0, count |-> 0, abusive |-> FALSE, streak |-> Streak(old)]

\* check, and the handler that asked.
CheckPacket(due) ==
  LET b == CurrentBucket(Swept(bucket, due))
      count == b.count + 1
      abusive == count > RateBound * AbusiveFactor
      streak == IF abusive /\ ~b.abusive THEN b.streak + 1 ELSE b.streak
      flood == abusive /\ streak >= AbusiveWindows
  IN  /\ verdict.open /\ recent[1] < MaxPackets
      /\ bucket' = [age |-> 0, count |-> count, abusive |-> b.abusive \/ abusive,
                    streak |-> streak]
      /\ verdict' = [allowed |-> count <= RateBound, open |-> ~flood]
      /\ recent' = [recent EXCEPT ![1] = @ + 1]

NextWindow ==
  /\ verdict.open
  /\ bucket' = [bucket EXCEPT !.age = IF @ < 2 THEN @ + 1 ELSE 2]
  /\ recent' = [i \in 1 .. AbusiveWindows |-> IF i = 1 THEN 0 ELSE recent[i - 1]]
  /\ UNCHANGED verdict

RateNext == (\E due \in BOOLEAN : CheckPacket(due)) \/ NextWindow

RateSpec == RateInit /\ [][RateNext]_rateVars

-----------------------------------------------------------------------------
\* A connection is closed for flooding exactly when each of the last windows,
\* the current one included, passed the abusive threshold: a pause, a quiet
\* window or a swept bucket between two bursts starts the count anew
\* (rate-limit.ts check, sweep; ws-transport.ts handleBinary, handleJson).
OnlyFloodsAreClosed ==
  ~verdict.open <=> \A i \in 1 .. AbusiveWindows : recent[i] > RateBound * AbusiveFactor

=============================================================================
