------------------------------- MODULE MCMathRing -------------------------------
(* Instantiates MathRing for TLC: callers that all ask for the same thing.  That *)
(* each gets the answer to its own command is what MCHammer checks.             *)
EXTENDS MathRing, TLC

\* Sound for the safety properties: no task is told apart from another.
TaskSymmetry == Permutations(Tasks)

MCOneRequest == { [op |-> "ADD", a |-> 1, b |-> 0] }
=============================================================================
