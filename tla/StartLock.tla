------------------------------ MODULE StartLock -----------------------------
(* The lock that keeps a host from starting while people come in             *)
(* (rooms/lobby-state.ts StartLock, and its callers in room.ts). Time is     *)
(* kept relative to now: what is left of the lock, and the age of each grant *)
(* the joins were given in the rolling window.                               *)
EXTENDS Naturals, Sequences, SequencesExt

CONSTANTS JoinLock,      \* startLockOnJoinMs
          JoinBudget,    \* startLockJoinBudgetMs
          BudgetWindow,  \* startLockJoinBudgetWindowMs
          MapLock,       \* startLockOnMapChangeMs
          MaxMapChanges  \* bound: the host's own changes of the map

ASSUME StartLockAssumption ==
  /\ {JoinLock, JoinBudget, BudgetWindow, MapLock} \subseteq Nat \ {0}
  /\ MaxMapChanges \in Nat
  /\ JoinBudget < BudgetWindow

VARIABLES lockLeft,    \* remainingMs
          joinGrants,  \* #joinGrants, oldest first: age and duration
          mapChanges

lockVars == <<lockLeft, joinGrants, mapChanges>>

LockInit == lockLeft = 0 /\ joinGrants = <<>> /\ mapChanges = 0

\* prune, one that drops a grant with the lock it gave, and the sum of what is left.
PrunedWithTheLock == SelectSeq(joinGrants, LAMBDA g : g.age < JoinLock)
Pruned == SelectSeq(joinGrants, LAMBDA g : g.age < BudgetWindow)
Used(grants) == FoldSeq(LAMBDA g, sum : g.duration + sum, 0, grants)

\* The grant a join is given.
Granted(grants) ==
  LET left == IF Used(grants) > JoinBudget THEN 0 ELSE JoinBudget - Used(grants)
  IN  IF left < JoinLock THEN left ELSE JoinLock

Longer(m, n) == IF m > n THEN m ELSE n

ApplyJoin ==
  LET grant == Granted(Pruned)
  IN  /\ joinGrants' = IF grant = 0 THEN Pruned
                       ELSE Append(Pruned, [age |-> 0, duration |-> grant])
      /\ lockLeft' = Longer(lockLeft, grant)
      /\ UNCHANGED mapChanges

ApplyMapChange ==
  /\ mapChanges < MaxMapChanges
  /\ lockLeft' = Longer(lockLeft, MapLock)
  /\ mapChanges' = mapChanges + 1
  /\ UNCHANGED joinGrants

\* A unit of time. A grant older than the window is as good as pruned.
LockTick ==
  /\ lockLeft' = IF lockLeft = 0 THEN 0 ELSE lockLeft - 1
  /\ joinGrants' = SelectSeq([i \in DOMAIN joinGrants |->
                               [joinGrants[i] EXCEPT !.age = @ + 1]],
                             LAMBDA g : g.age < BudgetWindow)
  /\ UNCHANGED mapChanges

LockNext == ApplyJoin \/ ApplyMapChange \/ LockTick

\* Time passes; joins may come at every moment.
LockSpec == LockInit /\ [][LockNext]_lockVars /\ WF_lockVars(LockTick)

-----------------------------------------------------------------------------
\* People who come and go cannot lock the host out for good: again and again the
\* lock is open, whatever the joins (lobby-state.ts applyJoin).
HostMayStart == []<>(lockLeft = 0)

=============================================================================
