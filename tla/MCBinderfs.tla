----------------------------- MODULE MCBinderfs -----------------------------
(* Instances of Binderfs for TLC.                                          *)
EXTENDS Binderfs, TLC
CONSTANTS m1, m2, x1, x2, n1, d1, d2, d3

OneDefault == <<n1>>
OptionStrings == {<<"stats">>, <<"max", "bad">>}

Symm == Permutations(Slots) \cup Permutations(Tasks)
=============================================================================
