------------------------------ MODULE MCMathDevice ------------------------------
(* Instantiates MathDevice for TLC.  One command is enough: 0 / 1 succeeds,     *)
(* and the same operation on argument registers still zero after a reset fails. *)
EXTENDS MathDevice

MCRequests == {[op |-> "DIV", a |-> 0, b |-> 1]}
=============================================================================
