--------------------------- MODULE MCAshmemPages ----------------------------
(* A small instance of AshmemPages. *)
EXTENDS AshmemPages, TLC

CONSTANTS a1, a2, t1, t2, s1, s2, p1, p2

MCSymmetry == Permutations({t1, t2}) \cup Permutations({s1, s2}) \cup Permutations({p1, p2})
=============================================================================
