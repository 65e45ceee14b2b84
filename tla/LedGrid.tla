--------------------------------- MODULE LedGrid ---------------------------------
(***************************************************************************)
(* Where the LEDs are in the server's window: as it is painted             *)
(* (led/render.c) and as a position of the pointer is looked up            *)
(* (led/seat.c).  Windows are small enough for squares of distances to fit *)
(* 32 bits.                                                                *)
(***************************************************************************)
EXTENDS Integers

CONSTANTS LED_COLS, LED_ROWS

ASSUME GridAssumption == LED_COLS \in Nat \ {0} /\ LED_ROWS \in Nat \ {0}

LED_NR == LED_COLS * LED_ROWS
Leds == 0 .. (LED_NR - 1)
NoLed == -1

Dimensions == [width : Nat, height : Nat]
Points == [x : Int, y : Int]

\* C's division, by a positive divisor.
Div(a, b) == IF a >= 0 THEN a \div b ELSE -((-a) \div b)

SpacingX(dim) == dim.width \div LED_COLS
SpacingY(dim) == dim.height \div LED_ROWS

Radius(dim) == dim.width \div (LED_COLS * 2)

CenterX(dim, col) == SpacingX(dim) * col + SpacingX(dim) \div 2
CenterY(dim, row) == SpacingY(dim) * row + SpacingY(dim) \div 2

InCircle(dim, col, row, p) ==
  LET dx == p.x - CenterX(dim, col)
      dy == p.y - CenterY(dim, row)
  IN  dx * dx + dy * dy <= Radius(dim) * Radius(dim)

(***************************************************************************)
(* render_led_grid: the LEDs are painted in order, so that a later circle  *)
(* covers an earlier one.                                                  *)
(***************************************************************************)
Covers(dim, l, p) == InCircle(dim, l % LED_COLS, l \div LED_COLS, p)

PaintedLed(dim, p) ==
  IF \E l \in Leds : Covers(dim, l, p)
  THEN CHOOSE l \in Leds : Covers(dim, l, p) /\ \A k \in Leds : Covers(dim, k, p) => k <= l
  ELSE NoLed

(***************************************************************************)
(* get_underlying_led: looks at the circle of one cell.  A column beyond   *)
(* the last gives an LED of the next row.                                  *)
(***************************************************************************)
\* Mutant of UnderlyingLed: rounds the cell to the nearest.
UnderlyingLedRounded(dim, p) ==
  LET col == Div(p.x + SpacingX(dim) \div 2, SpacingX(dim))
      row == Div(p.y, SpacingY(dim))
      index == LED_COLS * row + col
  IN  IF InCircle(dim, col, row, p) /\ index < LED_NR THEN index ELSE NoLed

UnderlyingLed(dim, p) ==
  LET col == Div(p.x, SpacingX(dim))
      row == Div(p.y, SpacingY(dim))
      index == LED_COLS * row + col
  IN  IF InCircle(dim, col, row, p) /\ index < LED_NR THEN index ELSE NoLed

\* Positions in the cells of the grid; what division leaves is right of and below them.
Cells(dim) == [x : 0 .. (LED_COLS * SpacingX(dim) - 1), y : 0 .. (LED_ROWS * SpacingY(dim) - 1)]
=============================================================================
