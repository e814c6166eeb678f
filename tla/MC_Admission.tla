---------------------------- MODULE MC_Admission ----------------------------
(* One user and two requests, in three scopes that are too large together:    *)
(* "rooms", a join and a quickJoin racing for two rooms; "games", joins and   *)
(* creations around the games of one room; "lobby", every kind of request for *)
(* one room, with matching servers that die.                                  *)
EXTENDS Admission, TLC

CONSTANT Scopes

VARIABLE scope

Home == CHOOSE r \in Room : TRUE
Running(kind) == {q \in Request : req'[q].step # "idle" /\ req'[q].kind = kind}
Only(kinds) == \A k \in Kind \ kinds : Running(k) = {}
AtHome == \A q \in Request : req'[q].room \in {NoRoom, Home}
NobodyDies == \A q \in Request : req'[q].step # "dead"

InScope ==
    \/ /\ scope = "rooms" /\ game' = game /\ NobodyDies /\ Only({"join", "quick"})
       /\ Cardinality(Running("join")) <= 1 /\ Cardinality(Running("quick")) <= 1
    \/ scope = "games" /\ AtHome /\ NobodyDies /\ Only({"join", "create"})
    \/ scope = "lobby" /\ AtHome /\ game' = game

ScopedInit ==
    /\ Init /\ scope \in Scopes
    /\ \A r \in Room \ {Home} : phase[r] = IF scope = "rooms" THEN "open" ELSE "none"
    /\ scope = "rooms" => phase[Home] = "open"

ScopedNext == Next /\ InScope /\ UNCHANGED scope

ScopedSpec == ScopedInit /\ [][ScopedNext]_<<vars, scope>>
FairScopedSpec == ScopedSpec /\ Fairness
=============================================================================
