---------------------------- MODULE MCBinderAlloc ---------------------------
(* Instances of BinderAlloc for TLC.                                         *)
EXTENDS BinderAlloc

CONSTANTS t1, t2, t3, u1, u2

Req(d, o, e, async) == [data |-> d, offsets |-> o, extra |-> e, async |-> async]
Sync(n) == Req(n, 0, 0, FALSE)
Async(n) == Req(n, 0, 0, TRUE)

\* A word of two bytes, pages of three words: a buffer can lie inside a page.
\* The last three requests have sums that wrap a size_t of 32 values.
MCSizes == {Sync(2), Sync(10), Req(31, 0, 0, FALSE), Req(3, 30, 0, FALSE), Req(3, 0, 30, FALSE)}
MCMixed == {Sync(2), Async(1)}

MCSymmetry == Permutations({t1, t2, t3}) \cup Permutations({u1, u2})
=============================================================================
