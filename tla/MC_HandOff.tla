----------------------------- MODULE MC_HandOff -----------------------------
(* Two or three servers, two transfer attempts.  Servers, users and transfer *)
(* ids are interchangeable, so safety is checked up to their permutations.   *)
EXTENDS HandOff, TLC

Symmetry == Permutations(Server) \cup Permutations(User) \cup Permutations(Transfer)
=============================================================================
