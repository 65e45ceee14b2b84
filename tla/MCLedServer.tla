------------------------------- MODULE MCLedServer -------------------------------
(* Instantiates LedServer for TLC.  Clients are interchangeable, so that it does  *)
(* not matter which of them comes late.  In the first window the pointer is on    *)
(* an LED, in the second beside one.                                              *)
EXTENDS LedServer

CONSTANTS c1, c2

MCLatecomers == {{}, {c2}}
MCDefault == [width |-> 5, height |-> 2]
MCSizes == {MCDefault, [width |-> 4, height |-> 4]}
MCPositions == {[x |-> 0, y |-> 1]}
=============================================================================
