---------------------------- MODULE MCBinderRef -----------------------------
(* Small instances of BinderRef.                                           *)
EXTENDS BinderRef, TLC
CONSTANTS c1, a1

\* The client thread belongs to the first client; the server's threads race with it
\* for the first client's references when they send to it.
MCHome == a1 :> c1

\* The server's threads and the node objects are interchangeable.
Symmetry == Permutations(Locals) \cup Permutations(Nodes)
=============================================================================
