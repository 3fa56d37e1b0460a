------------------------------ MODULE MCAshmem ------------------------------
(* Instances of Ashmem for TLC: a page has 2 bytes and a __u32 16 values.   *)
EXTENDS Ashmem

CONSTANTS a1, a2, t1, t2, s1, s2, v1, v2, n1

MCRead == {{"r"}}
MCFewProts == {{}, {"r"}}
MCSymmetry == Permutations({t1, t2}) \cup Permutations({s1, s2})
=============================================================================
