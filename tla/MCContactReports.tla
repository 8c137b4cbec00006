--------------------------- MODULE MCContactReports ---------------------------
(* Instances of ContactReports for TLC: the values the configuration names.    *)
EXTENDS ContactReports

Delays == {1, 2}
Weights == {1, 2}
Full == {9}
Alike == Permutations(Target) \cup Permutations(Place)
===============================================================================
