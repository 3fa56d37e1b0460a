------------------------ MODULE MCBinderTransaction -------------------------
(* Instances of BinderTransaction for TLC.                                 *)
EXTENDS BinderTransaction, TLC
CONSTANTS p1, p2, p3, h1, h2, h3, t1, t2, t3, t4

\* Three processes with one thread each.
ThreeProcs == h1 :> p1 @@ h2 :> p2 @@ h3 :> p3
\* Two processes; the second has two threads.
TwoProcs == h1 :> p1 @@ h2 :> p2 @@ h3 :> p2

Symm == Permutations(Txns)
=============================================================================
