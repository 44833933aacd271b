--------------------------- MODULE MCSeedNetwork ---------------------------
(* SeedNetwork on small instances. *)
EXTENDS SeedNetwork, TLC

CONSTANTS none, partial, first, second, own, torn, s1, s2

MCDoc      == {none, partial, first, second}
MCComplete == {first, second}
MCOneDoc   == {none, partial, first}
MCOneReady == {first}
Symmetric  == Permutations(Seed) \cup Permutations(MCComplete)
============================================================================
