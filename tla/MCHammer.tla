-------------------------------- MODULE MCHammer --------------------------------
(* Instantiates Hammer for TLC: -n 1 with every command of 2-bit words; several  *)
(* threads with few operations; files that are wrong, short or malformed.       *)
EXTENDS Hammer

Line(cmd, expected) ==
  <<Number(cmd.a), Operator(cmd.op), Number(cmd.b), Number(expected)>>

Right(cmd) == Line(cmd, Execute(cmd).result)
Wrong(cmd) == Line(cmd, Execute(cmd).result + 1)

One == [op |-> "ADD", a |-> 1, b |-> 0]
Two == [op |-> "DIV", a |-> 1, b |-> 0]

MCRequests == {cmd \in Commands : ~Traps(cmd) /\ cmd.op # OpCount}

Malformed ==
  { <<>>,
    << <<Number(1), Number(1), Number(1), Number(1)>> >>,
    << <<Number(1), Junk>> >>,
    << <<Number(1), Number(-1), Number(1), Number(0)>> >>,
    << Right(One), <<Number(1), Operator("ADD"), Number(0)>> >> }

MCInvocations ==
  [n : {1}, file : {<<Right(cmd)>> : cmd \in MCRequests} \cup Malformed]
  \cup [n : {1}, file : {<<Wrong(One), Right(Two), Right(One)>>}]
  \cup [n : {2}, file : {<<Right(One), Wrong(Two)>>}]
  \cup [n : {3}, file : {<<Right(One)>>}]
=============================================================================
