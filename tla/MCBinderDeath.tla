--------------------------- MODULE MCBinderDeath ----------------------------
(* Small instances of BinderDeath. *)
EXTENDS BinderDeath

CONSTANTS r1, r2, t1, t2, d1, d2, c1, c2
=============================================================================
