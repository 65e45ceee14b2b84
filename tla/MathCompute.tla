------------------------------ MODULE MathCompute ------------------------------
(***************************************************************************)
(* The arithmetic unit of the mathaccel device: execute_operation() of     *)
(* qemu-devices/mathaccel/compute.c, over words of a parametric width.     *)
(*                                                                         *)
(* The arguments of a command are signed words (__s32 args[2]); the        *)
(* operation is done at that width, wraps around, and is then widened to   *)
(* the result field of the completion (__s64 result).  A word here ranges  *)
(* over -Half .. Half - 1, so Half = 2^31 for the real device.             *)
(***************************************************************************)
EXTENDS Integers

CONSTANT Half       \* half the number of words: 2^(width - 1)

ASSUME HalfAssumption == Half \in Nat \ {0}

Word == (-Half) .. (Half - 1)

Ops == {"ADD", "SUB", "MUL", "DIV"}

\* MATH_OP_COUNT: no operation; a command register that holds it is empty.
OpCount == "COUNT"

Statuses == {"SUCCESS", "UNKNOWN_CMD", "DIV_BY_ZERO"}

\* A submission entry's operation and arguments, and a completion's outcome.
Commands == [op : Ops \cup {OpCount}, a : Word, b : Word]
Outcomes == [status : Statuses, result : Int]

\* Mutant of Wrap: forgets the sign bit.
UnsignedWrap(x) == x % (2 * Half)

Wrap(x) == ((x + Half) % (2 * Half)) - Half

Abs(x) == IF x < 0 THEN -x ELSE x

\* Mutant of TruncDiv: rounds down, as \div does.
FloorDiv(x, y) == IF y > 0 THEN x \div y ELSE (-x) \div (-y)

\* C's division truncates towards zero; TLA+'s \div rounds down.
TruncDiv(x, y) ==
  IF (x < 0) = (y < 0) THEN Abs(x) \div Abs(y) ELSE -(Abs(x) \div Abs(y))

(***************************************************************************)
(* The one division whose quotient is no word.  The C leaves it undefined  *)
(* and x86 traps, which kills the device process: commands that trap are   *)
(* outside the domain of Execute.                                          *)
(***************************************************************************)
Traps(cmd) == cmd.op = "DIV" /\ cmd.a = -Half /\ cmd.b = -1

Execute(cmd) ==
  CASE cmd.op = "ADD" -> [status |-> "SUCCESS", result |-> Wrap(cmd.a + cmd.b)]
    [] cmd.op = "SUB" -> [status |-> "SUCCESS", result |-> Wrap(cmd.a - cmd.b)]
    [] cmd.op = "MUL" -> [status |-> "SUCCESS", result |-> Wrap(cmd.a * cmd.b)]
    [] cmd.op = "DIV" /\ cmd.b # 0 ->
         [status |-> "SUCCESS", result |-> TruncDiv(cmd.a, cmd.b)]
    [] cmd.op = "DIV" /\ cmd.b = 0 -> [status |-> "DIV_BY_ZERO", result |-> -1]
    [] OTHER -> [status |-> "UNKNOWN_CMD", result |-> -1]
-----------------------------------------------------------------------------
(***************************************************************************)
(* What the answer to a command must satisfy, stated without the           *)
(* operators above.  ADD, SUB and MUL: the word congruent to the exact     *)
(* result modulo the number of words.  DIV: the quotient whose remainder   *)
(* is smaller than the divisor and has the dividend's sign; a zero divisor *)
(* is an error status and -1.                                              *)
(***************************************************************************)
Exact(cmd) == CASE cmd.op = "ADD" -> cmd.a + cmd.b
                [] cmd.op = "SUB" -> cmd.a - cmd.b
                [] cmd.op = "MUL" -> cmd.a * cmd.b

WrapLaw(cmd, out) ==
  cmd.op \in {"ADD", "SUB", "MUL"} =>
    /\ out.status = "SUCCESS"
    /\ out.result \in Word
    /\ (out.result - Exact(cmd)) % (2 * Half) = 0

QuotientLaw(cmd, out) ==
  cmd.op = "DIV" =>
    LET rem == cmd.a - out.result * cmd.b IN
    IF cmd.b = 0
      THEN out = [status |-> "DIV_BY_ZERO", result |-> -1]
      ELSE /\ out.status = "SUCCESS"
           /\ out.result \in Word
           /\ Abs(rem) < Abs(cmd.b)
           /\ rem # 0 => (rem < 0) = (cmd.a < 0)
=============================================================================
