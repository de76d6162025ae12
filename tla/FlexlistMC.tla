----------------------------- MODULE FlexlistMC -----------------------------
(* An instance of Flexlist. *)
EXTENDS Flexlist, TLC

CONSTANTS a1, a2, a3, a4, a5, a6

SixNodes == {a1, a2, a3, a4, a5, a6}
TwoData == {"x", "y"}
Alike == Permutations(SixNodes)
=============================================================================
