------------------------------- MODULE MCLuxTimer -------------------------------
(* Instantiates LuxTimer for TLC.                                               *)
EXTENDS LuxTimer, TLC

SubSymmetry == Permutations(Subs)
=============================================================================
