--------------------------- MODULE MCQueryStore ---------------------------
(* Instances of QueryStore for TLC. *)
EXTENDS QueryStore, TLC

CONSTANTS k1, k2

\* Keys are interchangeable.
Symmetric == Permutations(Key)
=============================================================================
