-------------------------- MODULE MCBinderObjects ---------------------------
(* An instance of BinderObjects for TLC.                                   *)
EXTENDS BinderObjects
=============================================================================
