------------------------------ MODULE MCMathAccel ------------------------------
(* Instantiates MathAccel for TLC.                                              *)
EXTENDS MathAccel, TLC

TaskSymmetry == Permutations(Tasks)

MCOneRequest == { [op |-> "ADD", a |-> 1, b |-> 0] }
=============================================================================
