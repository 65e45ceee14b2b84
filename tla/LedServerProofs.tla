----------------------------- MODULE LedServerProofs -----------------------------
(***************************************************************************)
(* The LED grid server, for every table of clients, every set of sizes and *)
(* every number of calls.  A click is for the LED that is painted where it *)
(* goes: first the geometry, then the resizes.  A half of the buffer is    *)
(* busy exactly while the compositor has it once: every step is followed   *)
(* in the number of places where a half is.  And the table of connections  *)
(* counts its clients right.                                               *)
(***************************************************************************)
EXTENDS LedServer, FiniteSetTheorems, TLAPS

(***************************************************************************)
(* Painting and look-up agree in every cell of every window that is wide   *)
(* enough for the columns and high enough for the circles, for any grid.   *)
(***************************************************************************)
LEMMA TimesMonotone ==
  ASSUME NEW a \in Int, NEW b \in Int, NEW c \in Nat, a <= b
  PROVE  c * a <= c * b
<1>1. c * (b - a) >= 0
  OBVIOUS
<1>2. QED
  BY <1>1

LEMMA Cancel ==
  ASSUME NEW a \in Int, NEW b \in Int, NEW c \in Nat, c * a < c * b
  PROVE  a < b
  BY TimesMonotone

\* Division, by its characteristic inequalities.
LEMMA Quotient ==
  ASSUME NEW n \in Nat, NEW d \in Nat \ {0}
  PROVE  /\ n \div d \in Nat
         /\ d * (n \div d) <= n /\ n < d * (n \div d) + d
  OBVIOUS

LEMMA QuotientIs ==
  ASSUME NEW n \in Nat, NEW d \in Nat \ {0}, NEW q \in Int, d * q <= n, n < d * q + d
  PROVE  n \div d = q
<1> DEFINE m == n \div d
<1>1. m \in Nat /\ d * m <= n /\ n < d * m + d
  BY Quotient
<1> HIDE DEF m
<1>2. d * m < d * (q + 1) /\ d * q < d * (m + 1)
  BY <1>1
<1>3. m < q + 1 /\ q < m + 1
  BY <1>1, <1>2, Cancel
<1>4. QED
  BY <1>1, <1>3 DEF m

LEMMA SquareBounds ==
  ASSUME NEW d \in Int, NEW r \in Nat, d * d <= r * r
  PROVE  -r <= d /\ d <= r
<1>1. ~(d > r)
  <2> SUFFICES ASSUME d > r PROVE FALSE
    OBVIOUS
  <2>1. r * r <= r * d /\ d * r < d * d
    <3>1. r * r <= r * d
      BY TimesMonotone
    <3>2. d * (d - r) > 0
      OBVIOUS
    <3>3. QED
      BY <3>1, <3>2
  <2>2. QED
    BY <2>1
<1>2. ~(-d > r)
  <2> SUFFICES ASSUME -d > r PROVE FALSE
    OBVIOUS
  <2> DEFINE e == -d
  <2>0. e \in Int /\ e * e = d * d /\ e > r
    OBVIOUS
  <2> HIDE DEF e
  <2>1. r * r <= r * e
    BY <2>0, TimesMonotone
  <2>2. e * (e - r) > 0
    BY <2>0
  <2>3. QED
    BY <2>0, <2>1, <2>2
<1>3. QED
  BY <1>1, <1>2

-----------------------------------------------------------------------------
(***************************************************************************)
(* Windows whose cells are not empty and at least as high as wide.         *)
(***************************************************************************)
Fits(dim) == dim \in Dimensions /\ SpacingX(dim) > 0 /\ SpacingX(dim) <= SpacingY(dim)

LEMMA Spacings ==
  ASSUME NEW dim, Fits(dim)
  PROVE  /\ SpacingX(dim) \in Nat \ {0} /\ SpacingY(dim) \in Nat \ {0} /\ Radius(dim) \in Nat
         /\ Radius(dim) <= SpacingX(dim) \div 2
<1> DEFINE w == dim.width   sx == SpacingX(dim)   r == Radius(dim)
<1>1. w \in Nat /\ dim.height \in Nat /\ LED_COLS \in Nat \ {0} /\ LED_ROWS \in Nat \ {0}
  BY GridAssumption DEF Fits, Dimensions
<1>2. sx \in Nat /\ w < LED_COLS * sx + LED_COLS
  BY <1>1, Quotient DEF SpacingX
<1>3. r \in Nat /\ (LED_COLS * 2) * r <= w
  <2>1. LED_COLS * 2 \in Nat \ {0}
    BY <1>1
  <2>2. QED
    BY <1>1, <2>1, Quotient DEF Radius
<1>4. SpacingY(dim) \in Nat
  BY <1>1, Quotient DEF SpacingY
<1> HIDE DEF w, sx, r
<1>5. LED_COLS * (2 * r) < LED_COLS * (sx + 1)
  BY <1>1, <1>2, <1>3
<1>6. 2 * r < sx + 1
  BY <1>1, <1>2, <1>3, <1>5, Cancel
<1>7. r <= sx \div 2
  BY <1>2, <1>3, <1>6
<1>8. QED
  BY <1>2, <1>3, <1>4, <1>7 DEF Fits, w, sx, r

(***************************************************************************)
(* One axis: a position within a radius of the centre of cell c is in that *)
(* cell, or it is the first of the next one, and then at the radius.       *)
(***************************************************************************)
LEMMA Axis ==
  ASSUME NEW s \in Nat \ {0}, NEW r \in Nat, r <= s \div 2, NEW c \in Nat, NEW n \in Nat,
         -r <= n - (s * c + s \div 2), n - (s * c + s \div 2) <= r
  PROVE  \/ n \div s = c
         \/ /\ n \div s = c + 1
            /\ n - (s * c + s \div 2) = r
            /\ r = s \div 2
            /\ n - (s * (c + 1) + s \div 2) = -r
<1> DEFINE a == s * c
<1>1. a \in Nat /\ s * (c + 1) = a + s
  OBVIOUS
<1> HIDE DEF a
<1>2. a <= n /\ n <= a + s
  BY <1>1 DEF a
<1>3. CASE n < a + s
  BY <1>1, <1>2, <1>3, QuotientIs DEF a
<1>4. CASE n = a + s
  <2>1. n \div s = c + 1
    BY <1>1, <1>4, QuotientIs DEF a
  <2>2. r = s \div 2 /\ s = 2 * (s \div 2)
    BY <1>1, <1>4 DEF a
  <2>3. QED
    BY <1>1, <1>4, <2>1, <2>2 DEF a
<1>5. QED
  BY <1>1, <1>2, <1>3, <1>4

(***************************************************************************)
(* Both axes: a position in the circle of cell (col, row) is in that cell  *)
(* or on the point where the circle touches that of the next one.          *)
(***************************************************************************)
Within(sx, sy, r, col, row, x, y) ==
  LET dx == x - (sx * col + sx \div 2)
      dy == y - (sy * row + sy \div 2)
  IN  dx * dx + dy * dy <= r * r

LEMMA WithinAxes ==
  ASSUME NEW r \in Nat, NEW dx \in Int, NEW dy \in Int, dx * dx + dy * dy <= r * r
  PROVE  -r <= dx /\ dx <= r /\ -r <= dy /\ dy <= r /\ (dx = r => dy = 0) /\ (dy = r => dx = 0)
<1>1. dx * dx >= 0 /\ dy * dy >= 0 /\ dx * dx \in Int /\ dy * dy \in Int /\ r * r \in Int
  OBVIOUS
<1>2. dx * dx <= r * r /\ dy * dy <= r * r
  BY <1>1
<1>3. dx = r => dy = 0
  BY <1>1
<1>4. dy = r => dx = 0
  BY <1>1
<1>5. QED
  BY <1>2, <1>3, <1>4, SquareBounds

LEMMA TouchingCell ==
  ASSUME NEW s \in Nat \ {0}, NEW c \in Nat, NEW n \in Nat, n - (s * c + s \div 2) = 0
  PROVE  n \div s = c
<1> DEFINE a == s * c
<1>1. a \in Nat /\ a <= n /\ n < a + s
  OBVIOUS
<1>2. QED
  BY <1>1, QuotientIs

\* The cell the position is in is (col, row) or a later one, and its circle has the position too.
Touches(sx, sy, r, col, row, x, y) ==
  /\ Within(sx, sy, r, x \div sx, y \div sy, x, y)
  /\ \/ x \div sx = col /\ y \div sy = row
     \/ x \div sx = col + 1 /\ y \div sy = row
     \/ x \div sx = col /\ y \div sy = row + 1

LEMMA CirclesTouch ==
  ASSUME NEW sx \in Nat \ {0}, NEW sy \in Nat \ {0}, NEW r \in Nat,
         r <= sx \div 2, r <= sy \div 2,
         NEW col \in Nat, NEW row \in Nat, NEW x \in Nat, NEW y \in Nat,
         Within(sx, sy, r, col, row, x, y)
  PROVE  Touches(sx, sy, r, col, row, x, y)
<1> DEFINE dx == x - (sx * col + sx \div 2)
           dy == y - (sy * row + sy \div 2)
<1>1. dx \in Int /\ dy \in Int /\ dx * dx + dy * dy <= r * r
  BY DEF Within
<1>2. -r <= dx /\ dx <= r /\ -r <= dy /\ dy <= r /\ (dx = r => dy = 0) /\ (dy = r => dx = 0)
  <2> HIDE DEF dx, dy
  <2>1. QED
    BY <1>1, WithinAxes
<1>3. \/ x \div sx = col
      \/ x \div sx = col + 1 /\ dx = r /\ x - (sx * (col + 1) + sx \div 2) = -r
  <2>1. -r <= dx /\ dx <= r
    BY <1>2
  <2>2. QED
    BY <2>1, Axis, SMTT(60)
<1>4. \/ y \div sy = row
      \/ y \div sy = row + 1 /\ dy = r /\ y - (sy * (row + 1) + sy \div 2) = -r
  <2>1. -r <= dy /\ dy <= r
    BY <1>2
  <2>2. QED
    BY <2>1, Axis, SMTT(60)
<1>5. CASE x \div sx = col /\ y \div sy = row
  BY <1>5 DEF Touches
<1>6. CASE x \div sx = col + 1 /\ dx = r /\ x - (sx * (col + 1) + sx \div 2) = -r
  <2>1. dy = 0 /\ y \div sy = row
    BY <1>2, <1>6, TouchingCell
  <2>2. Within(sx, sy, r, col + 1, row, x, y) <=> (-r) * (-r) + 0 * 0 <= r * r
    BY <1>6, <2>1 DEF Within
  <2>3. QED
    BY <1>6, <2>1, <2>2 DEF Touches
<1>7. CASE y \div sy = row + 1 /\ dy = r /\ y - (sy * (row + 1) + sy \div 2) = -r
  <2>1. dx = 0 /\ x \div sx = col
    BY <1>2, <1>7, TouchingCell
  <2>2. Within(sx, sy, r, col, row + 1, x, y) <=> 0 * 0 + (-r) * (-r) <= r * r
    BY <1>7, <2>1 DEF Within
  <2>3. QED
    BY <1>7, <2>1, <2>2 DEF Touches
<1>8. QED
  BY <1>3, <1>4, <1>5, <1>6, <1>7
-----------------------------------------------------------------------------
(***************************************************************************)
(* Indices and cells.                                                      *)
(***************************************************************************)
LEMMA CellOfLed ==
  ASSUME NEW l \in Leds
  PROVE  /\ l \in Nat /\ l % LED_COLS \in Nat /\ l \div LED_COLS \in Nat
         /\ l = LED_COLS * (l \div LED_COLS) + (l % LED_COLS)
<1>1. l \in Nat /\ LED_COLS \in Nat \ {0}
  BY GridAssumption DEF Leds, LED_NR
<1>2. QED
  BY <1>1

LEMMA LedOfCell ==
  ASSUME NEW c \in 0 .. (LED_COLS - 1), NEW r \in 0 .. (LED_ROWS - 1)
  PROVE  LET l == LED_COLS * r + c
         IN  l \in Leds /\ l % LED_COLS = c /\ l \div LED_COLS = r
<1> DEFINE l == LED_COLS * r + c
<1>1. LED_COLS \in Nat \ {0} /\ LED_ROWS \in Nat \ {0} /\ c \in Nat /\ r \in Nat
      /\ c < LED_COLS /\ r + 1 <= LED_ROWS
  BY GridAssumption
<1>2. l \in Nat /\ LED_COLS * r <= l /\ l < LED_COLS * r + LED_COLS
  BY <1>1
<1>3. l < LED_NR /\ LED_NR \in Int
  <2>1. LED_COLS * (r + 1) <= LED_COLS * LED_ROWS
    BY <1>1, TimesMonotone
  <2>2. LED_COLS * (r + 1) = LED_COLS * r + LED_COLS /\ LED_COLS * LED_ROWS \in Int
    BY <1>1
  <2>3. QED
    BY <1>1, <1>2, <2>1, <2>2 DEF LED_NR
<1>4. l \div LED_COLS = r
  <2> HIDE DEF l
  <2>1. QED
    BY <1>1, <1>2, QuotientIs
<1>5. l = LED_COLS * (l \div LED_COLS) + (l % LED_COLS) /\ l % LED_COLS \in Nat
  <2> HIDE DEF l
  <2>1. QED
    BY <1>1, <1>2
<1>6. l % LED_COLS = c
  <2>1. LED_COLS * r \in Nat
    BY <1>1
  <2>2. QED
    BY <1>1, <1>4, <1>5, <2>1
<1>7. QED
  BY <1>2, <1>3, <1>4, <1>6 DEF Leds

\* A position in the cells of the grid is in a column and a row of it.
LEMMA CellOfPosition ==
  ASSUME NEW s \in Nat \ {0}, NEW m \in Nat, NEW n \in 0 .. (m * s - 1)
  PROVE  n \in Nat /\ n \div s \in 0 .. (m - 1)
<1> DEFINE q == n \div s
<1>1. n \in Nat /\ q \in Nat /\ s * q <= n /\ n < m * s
  <2>1. n \in Nat /\ n < m * s
    BY m * s \in Int
  <2>2. QED
    BY <2>1, Quotient
<1> HIDE DEF q
<1>2. s * q < s * m
  BY <1>1
<1>3. q < m
  BY <1>1, <1>2, Cancel
<1>4. QED
  BY <1>1, <1>3 DEF q
-----------------------------------------------------------------------------
(***************************************************************************)
(* get_underlying_led finds the LED that render_led_grid painted last at   *)
(* the position, and none where it painted none.                           *)
(***************************************************************************)
THEOREM LookupFindsPainted ==
  ASSUME NEW dim, Fits(dim), NEW p \in Cells(dim)
  PROVE  UnderlyingLed(dim, p) = PaintedLed(dim, p)
<1> DEFINE c == p.x \div SpacingX(dim)
           r == p.y \div SpacingY(dim)
           k == LED_COLS * r + c
<1>1. p.x \in Nat /\ p.y \in Nat /\ c \in 0 .. (LED_COLS - 1) /\ r \in 0 .. (LED_ROWS - 1)
  <2>1. LED_COLS \in Nat /\ LED_ROWS \in Nat
    BY GridAssumption
  <2>2. p.x \in 0 .. (LED_COLS * SpacingX(dim) - 1) /\ p.y \in 0 .. (LED_ROWS * SpacingY(dim) - 1)
    BY DEF Cells
  <2>3. QED
    BY <2>1, <2>2, Spacings, CellOfPosition
<1>2. k \in Leds /\ k % LED_COLS = c /\ k \div LED_COLS = r /\ k \in Nat /\ k < LED_NR
  <2>1. k \in Leds /\ k % LED_COLS = c /\ k \div LED_COLS = r
    BY <1>1, LedOfCell
  <2>2. LED_NR \in Int
    BY GridAssumption DEF LED_NR
  <2>3. QED
    BY <2>1, <2>2 DEF Leds
<1>3. UnderlyingLed(dim, p) = IF Covers(dim, k, p) THEN k ELSE NoLed
  BY <1>1, <1>2 DEF UnderlyingLed, Div, Covers
<1>4. \A l \in Leds : Covers(dim, l, p) => Covers(dim, k, p) /\ l <= k
  <2> SUFFICES ASSUME NEW l \in Leds, Covers(dim, l, p)
               PROVE  Covers(dim, k, p) /\ l <= k
    OBVIOUS
  <2> DEFINE col == l % LED_COLS   row == l \div LED_COLS
  <2>1. l \in Nat /\ col \in Nat /\ row \in Nat /\ l = LED_COLS * row + col
    BY CellOfLed
  <2>2. \A cc, rr : InCircle(dim, cc, rr, p)
          <=> Within(SpacingX(dim), SpacingY(dim), Radius(dim), cc, rr, p.x, p.y)
    BY DEF InCircle, Within, CenterX, CenterY
  <2>3. /\ Within(SpacingX(dim), SpacingY(dim), Radius(dim), c, r, p.x, p.y)
        /\ \/ c = col /\ r = row
           \/ c = col + 1 /\ r = row
           \/ c = col /\ r = row + 1
    <3>1. Within(SpacingX(dim), SpacingY(dim), Radius(dim), col, row, p.x, p.y)
      BY <2>2 DEF Covers
    <3>2. /\ SpacingX(dim) \in Nat \ {0} /\ SpacingY(dim) \in Nat \ {0} /\ Radius(dim) \in Nat
          /\ Radius(dim) <= SpacingX(dim) \div 2 /\ Radius(dim) <= SpacingY(dim) \div 2
      BY Spacings DEF Fits
    <3>3. p.x \in Nat /\ p.y \in Nat
      BY <1>1
    <3> HIDE DEF col, row
    <3>4. Touches(SpacingX(dim), SpacingY(dim), Radius(dim), col, row, p.x, p.y)
      BY <2>1, <3>1, <3>2, <3>3, CirclesTouch, Zenon
    <3>5. QED
      BY <3>4 DEF Touches
  <2>4. Covers(dim, k, p)
    BY <1>2, <2>2, <2>3 DEF Covers
  <2>5. l <= k
    <3>1. LED_COLS \in Nat /\ LED_COLS * (row + 1) = LED_COLS * row + LED_COLS
      BY <2>1, GridAssumption
    <3> HIDE DEF col, row
    <3>2. LED_COLS * row \in Nat
      BY <2>1, <3>1
    <3>3. QED
      BY <2>1, <2>3, <3>1, <3>2
  <2>6. QED
    BY <2>4, <2>5
<1>5. CASE Covers(dim, k, p)
  <2>1. \A l \in Leds : (Covers(dim, l, p) /\ \A j \in Leds : Covers(dim, j, p) => j <= l) <=> l = k
    <3>1. \A l \in Leds : l \in Nat
      BY CellOfLed
    <3>2. QED
      BY <1>2, <1>4, <1>5, <3>1
  <2>2. PaintedLed(dim, p) = k
    <3> HIDE DEF k
    <3>1. QED
      BY <1>2, <1>5, <2>1 DEF PaintedLed
  <2>3. QED
    BY <1>3, <1>5, <2>2
<1>6. CASE ~Covers(dim, k, p)
  BY <1>3, <1>4, <1>6 DEF PaintedLed
<1>7. QED
  BY <1>5, <1>6
------------------------------------------------------------------------------
(***************************************************************************)
(* How often an element is in a queue, as the queue grows and shrinks.     *)
(***************************************************************************)
Places(q, x) == {i \in DOMAIN q : q[i] = x}
Count(q, x) == Cardinality(Places(q, x))

LEMMA CountType ==
  ASSUME NEW S, NEW q \in Seq(S), NEW x
  PROVE  /\ IsFiniteSet(Places(q, x)) /\ Count(q, x) \in Nat
         /\ Count(q, x) = 0 <=> \A i \in DOMAIN q : q[i] # x
<1>1. IsFiniteSet(1 .. Len(q)) /\ DOMAIN q = 1 .. Len(q)
  BY FS_Interval
<1>2. Places(q, x) \in SUBSET (1 .. Len(q))
  BY <1>1 DEF Places
<1>3. IsFiniteSet(Places(q, x))
  BY <1>1, <1>2, FS_Subset
<1>4. Count(q, x) \in Nat
  BY <1>3, FS_CardinalityType DEF Count
<1>5. Count(q, x) = 0 <=> Places(q, x) = {}
  BY <1>3, FS_EmptySet DEF Count
<1>6. QED
  BY <1>3, <1>4, <1>5 DEF Places

LEMMA CountAppend ==
  ASSUME NEW S, NEW q \in Seq(S), NEW e \in S, NEW x
  PROVE  Count(Append(q, e), x) = Count(q, x) + IF e = x THEN 1 ELSE 0
<1> DEFINE n == Len(q) + 1
<1>1. /\ DOMAIN q = 1 .. Len(q) /\ Len(q) \in Nat /\ n \notin DOMAIN q
      /\ DOMAIN Append(q, e) = DOMAIN q \cup {n}
      /\ \A i \in DOMAIN q : Append(q, e)[i] = q[i]
      /\ Append(q, e)[n] = e
  OBVIOUS
<1> HIDE DEF n
<1>2. IsFiniteSet(Places(q, x)) /\ n \notin Places(q, x) /\ Count(q, x) \in Nat
  BY <1>1, CountType DEF Places
<1>3. CASE e = x
  <2>1. Places(Append(q, e), x) = Places(q, x) \cup {n}
    BY <1>1, <1>3 DEF Places
  <2>2. QED
    BY <1>2, <1>3, <2>1, FS_AddElement DEF Count
<1>4. CASE e # x
  <2>1. Places(Append(q, e), x) = Places(q, x)
    BY <1>1, <1>4 DEF Places
  <2>2. QED
    BY <1>2, <1>4, <2>1 DEF Count
<1>5. QED
  BY <1>3, <1>4

LEMMA CountTail ==
  ASSUME NEW S, NEW q \in Seq(S), q # <<>>, NEW x
  PROVE  Count(q, x) = Count(Tail(q), x) + IF Head(q) = x THEN 1 ELSE 0
<1> DEFINE A == Places(Tail(q), x)
           B == Places(q, x) \ {1}
           f == [i \in A |-> i + 1]
<1>1. /\ Len(q) \in Nat \ {0} /\ DOMAIN q = 1 .. Len(q) /\ Head(q) = q[1]
      /\ Tail(q) \in Seq(S) /\ DOMAIN Tail(q) = 1 .. (Len(q) - 1)
      /\ \A i \in DOMAIN Tail(q) : Tail(q)[i] = q[i + 1]
  OBVIOUS
<1>2. f \in Bijection(A, B)
  <2>1. \A i \in A : i \in Int /\ i + 1 \in B
    BY <1>1 DEF Places
  <2>2. \A j \in B : j \in Int /\ j - 1 \in A /\ f[j - 1] = j
    BY <1>1 DEF Places
  <2>3. f \in [A -> B]
    BY <2>1
  <2>4. \A i, j \in A : f[i] = f[j] => i = j
    BY <2>1
  <2> HIDE DEF A, B, f
  <2>5. DOMAIN f = A
    BY <2>3
  <2>6. QED
    BY <2>2, <2>3, <2>4, <2>5 DEF Bijection, Injection, Surjection, IsInjective
<1>3. IsFiniteSet(A) /\ IsFiniteSet(Places(q, x)) /\ Count(q, x) \in Nat
      /\ Cardinality(A) \in Nat
  BY <1>1, CountType DEF Count
<1>4. Cardinality(B) = Count(Tail(q), x)
  <2>1. ExistsBijection(A, B)
    BY <1>2 DEF ExistsBijection
  <2> HIDE DEF B, f
  <2>2. Cardinality(B) = Cardinality(A)
    BY <1>3, <2>1, FS_Bijection
  <2>3. QED
    BY <2>2 DEF Count
<1>5. Cardinality(B) = IF 1 \in Places(q, x) THEN Count(q, x) - 1 ELSE Count(q, x)
  BY <1>3, FS_RemoveElement DEF Count
<1>6. 1 \in Places(q, x) <=> Head(q) = x
  BY <1>1 DEF Places
<1>7. QED
  BY <1>3, <1>4, <1>5, <1>6 DEF Count

LEMMA CountConcat ==
  ASSUME NEW S, NEW q \in Seq(S), NEW r \in Seq(S), NEW x,
         \A i \in DOMAIN r : r[i] # x
  PROVE  Count(q \o r, x) = Count(q, x)
<1>1. /\ DOMAIN q = 1 .. Len(q) /\ DOMAIN r = 1 .. Len(r) /\ Len(q) \in Nat /\ Len(r) \in Nat
      /\ DOMAIN (q \o r) = 1 .. (Len(q) + Len(r))
      /\ \A i \in DOMAIN q : (q \o r)[i] = q[i]
      /\ \A i \in 1 .. (Len(q) + Len(r)) : i \notin DOMAIN q => (q \o r)[i] = r[i - Len(q)]
  OBVIOUS
<1>2. \A i \in 1 .. (Len(q) + Len(r)) : i \notin DOMAIN q => i - Len(q) \in DOMAIN r
  BY <1>1
<1>3. Places(q \o r, x) = Places(q, x)
  BY <1>1, <1>2 DEF Places
<1>4. QED
  BY <1>3 DEF Count
-----------------------------------------------------------------------------

Sized == [dim : AllSizes, allocated : BOOLEAN,
          busy : [Halves -> BOOLEAN], image : [Halves -> BOOLEAN]]
Framed == [initialized : BOOLEAN, pending_resize : BOOLEAN,
           current : AllSizes, pending : AllSizes]

(***************************************************************************)
(* The invariant.  A window has buffers of its own size, and a resize that *)
(* is pending is to a size that can be painted, never to NoSize.           *)
(***************************************************************************)
QueuesOK ==
  /\ wayland \in Seq(Events)
  /\ requests \in Seq(Halves \cup {Gone})
  /\ screen \in [half : Halves \cup {Gone}, callbacks : Nat]

SizesOK ==
  /\ window \in Framed /\ buffer \in Sized /\ grid \in BOOLEAN
  /\ window.pending_resize => window.pending \in Sizes
  /\ buffer.allocated => buffer.dim = window.current /\ window.current \in Sizes

WindowInv == QueuesOK /\ SizesOK

sizes == <<window, buffer, grid>>
queues == <<wayland, requests, screen>>

LEMMA SizesKept == SizesOK /\ UNCHANGED sizes => SizesOK'
  BY DEF SizesOK, sizes, Sized, Framed

LEMMA QueuesKept == QueuesOK /\ UNCHANGED queues => QueuesOK'
  BY DEF QueuesOK, queues

LEMMA SomeEvents ==
  /\ \A size \in AllSizes : [ev |-> "toplevel", size |-> size] \in Events
  /\ \A half \in Halves \cup {Gone} : ReleaseOf(half) \in Events
  /\ \A button \in Buttons, at \in Positions :
       [ev |-> "pointer", button |-> button, at |-> at] \in Events
  /\ Event("surface") \in Events /\ Event("done") \in Events
  BY DEF Events, ReleaseOf, Event

\* Only configures of the toplevel have a size.
LEMMA ToplevelSize ==
  ASSUME NEW e \in Events, e.ev = "toplevel"
  PROVE  e.size \in AllSizes
  BY DEF Events

LEMMA HeadAndTail ==
  ASSUME NEW S, NEW q \in Seq(S), q # <<>>
  PROVE  Head(q) \in S /\ Tail(q) \in Seq(S)
  OBVIOUS

\* Appending an element of the set.
LEMMA AppendIn ==
  ASSUME NEW S, NEW q \in Seq(S), NEW x \in S
  PROVE  Append(q, x) \in Seq(S)
  OBVIOUS

LEMMA ConcatIn ==
  ASSUME NEW S, NEW q \in Seq(S), NEW r \in Seq(S)
  PROVE  q \o r \in Seq(S)
  OBVIOUS

\* Sequences of one length with the same elements.
LEMMA SameSequence ==
  ASSUME NEW S, NEW s \in Seq(S), NEW t \in Seq(S), NEW n \in Nat, Len(s) = n, Len(t) = n,
         \A i \in 1 .. n : s[i] = t[i]
  PROVE  s = t
<1>1. s \in [1 .. n -> S] /\ t \in [1 .. n -> S]
  OBVIOUS
<1>2. QED
  BY <1>1

LEMMA MappedQueue ==
  ASSUME NEW S, NEW q \in Seq(S), NEW T, NEW f, f = [i \in DOMAIN q |-> f[i]],
         \A i \in DOMAIN q : f[i] \in T
  PROVE  f \in Seq(T)
<1>1. DOMAIN q = 1 .. Len(q) /\ Len(q) \in Nat
  OBVIOUS
<1>2. f \in [1 .. Len(q) -> T]
  BY <1>1
<1>3. QED
  BY <1>1, <1>2

LEMMA ResizedQueues ==
  ASSUME QueuesOK, wayland # <<>>
  PROVE  /\ Resized.wayland \in Seq(Events)
         /\ Resized.requests \in Seq(Halves \cup {Gone})
         /\ Resized.screen \in [half : Halves \cup {Gone}, callbacks : Nat]
<1> DEFINE rest == Tail(wayland)
<1>1. rest \in Seq(Events)
  BY HeadAndTail DEF QueuesOK
<1>2. WithoutReleases(rest) \in Seq(Events)
  <2> DEFINE f == WithoutReleases(rest)
  <2>1. f = [i \in DOMAIN rest |-> f[i]]
    BY DEF WithoutReleases
  <2>2. \A i \in DOMAIN rest : f[i] \in Events
    <3>1. \A i \in DOMAIN rest : rest[i] \in Events
      BY <1>1
    <3>2. QED
      BY <3>1, SomeEvents, Zenon DEF WithoutReleases
  <2> HIDE DEF f, rest
  <2>3. f \in Seq(Events)
    BY <1>1, <2>1, <2>2, MappedQueue
  <2>4. QED
    BY <2>3 DEF f
<1>3. Destroyed(requests) \in Seq(Halves \cup {Gone})
  <2> DEFINE f == Destroyed(requests)
  <2>1. /\ f = [i \in DOMAIN requests |-> f[i]]
        /\ \A i \in DOMAIN requests : f[i] \in Halves \cup {Gone}
    BY DEF Destroyed
  <2>2. requests \in Seq(Halves \cup {Gone})
    BY DEF QueuesOK
  <2> HIDE DEF f
  <2>3. f \in Seq(Halves \cup {Gone})
    BY <2>1, <2>2, MappedQueue
  <2>4. QED
    BY <2>3 DEF f
<1>4. [screen EXCEPT !.half = Gone] \in [half : Halves \cup {Gone}, callbacks : Nat]
  BY DEF QueuesOK
<1> HIDE DEF rest
<1>5. QED
  BY <1>1, <1>2, <1>3, <1>4 DEF Resized, QueuesOK, rest

\* A resize leaves buffers of the window's size.
LEMMA ResizedSizes ==
  ASSUME SizesOK
  PROVE  /\ Resized.window \in Framed /\ Resized.buffer \in Sized
         /\ Resized.window.pending_resize = FALSE
         /\ Resized.buffer.allocated =>
              /\ Resized.buffer.dim = Resized.window.current
              /\ Resized.window.current \in Sizes
<1>1. CASE ~window.pending_resize
  BY <1>1 DEF SizesOK, Resized, Framed
<1>2. CASE window.pending_resize /\ buffer.allocated /\ window.pending = buffer.dim
  BY <1>2 DEF SizesOK, Resized, Framed
<1>3. CASE window.pending_resize /\ ~(buffer.allocated /\ window.pending = buffer.dim)
  BY <1>3 DEF SizesOK, Resized, Framed, Sized
<1>4. QED
  BY <1>1, <1>2, <1>3
-----------------------------------------------------------------------------
(***************************************************************************)
(* The steps that touch the window, its buffers or the queues.             *)
(***************************************************************************)
LEMMA FreeHalf ==
  ASSUME NEW busy, FreeHalves(busy) # {}
  PROVE  Min(FreeHalves(busy)) \in Halves /\ ~busy[Min(FreeHalves(busy))]
<1>1. FreeHalves(busy) \in {{0}, {1}, {0, 1}}
  BY DEF FreeHalves, Halves
<1>2. \E x \in FreeHalves(busy) : \A y \in FreeHalves(busy) : x <= y
  BY <1>1
<1>3. Min(FreeHalves(busy)) \in FreeHalves(busy)
  BY <1>2 DEF Min
<1>4. QED
  BY <1>3 DEF FreeHalves

LEMMA DrawKeeps == WindowInv /\ Draw => WindowInv'
<1> SUFFICES ASSUME WindowInv, Draw PROVE WindowInv'
  OBVIOUS
<1>1. wayland # <<>> /\ Redraw /\ grid' = grid
  BY DEF Draw
<1>2. CASE ~window.initialized
  <2>1. wayland' = Tail(wayland) /\ UNCHANGED <<window, buffer, requests, screen>>
    BY <1>1, <1>2 DEF Redraw
  <2>2. Tail(wayland) \in Seq(Events)
    BY <1>1, HeadAndTail DEF WindowInv, QueuesOK
  <2>3. QueuesOK'
    BY <2>1, <2>2 DEF WindowInv, QueuesOK
  <2>4. SizesOK'
    BY <1>1, <2>1, SizesKept DEF WindowInv, sizes
  <2>5. QED
    BY <2>3, <2>4 DEF WindowInv
<1>3. CASE window.initialized
  <2> DEFINE free == FreeHalves(Resized.buffer.busy)
             half == Min(free)
  <2>1. window' = Resized.window /\ wayland' = Resized.wayland /\ screen' = Resized.screen
    BY <1>1, <1>3 DEF Redraw
  <2>2. \/ buffer' = Resized.buffer /\ requests' = Resized.requests
        \/ /\ free # {}
           /\ buffer' = [Resized.buffer EXCEPT !.busy[half] = TRUE, !.image[half] = grid]
           /\ requests' = Append(Resized.requests, half)
    BY <1>1, <1>3 DEF Redraw
  <2>3. free # {} => half \in Halves
    BY FreeHalf
  <2> DEFINE r == Resized
  <2>4. /\ r.wayland \in Seq(Events)
        /\ r.requests \in Seq(Halves \cup {Gone})
        /\ r.screen \in [half : Halves \cup {Gone}, callbacks : Nat]
        /\ r.window \in Framed /\ r.buffer \in Sized
        /\ r.window.pending_resize = FALSE
        /\ r.buffer.allocated => r.buffer.dim = r.window.current /\ r.window.current \in Sizes
    BY <1>1, ResizedQueues, ResizedSizes DEF WindowInv
  <2>5. QueuesOK'
    <3> HIDE DEF half, free, r
    <3>1. wayland' = r.wayland /\ screen' = r.screen
          /\ (requests' = r.requests \/ (half \in Halves /\ requests' = Append(r.requests, half)))
      BY <2>1, <2>2, <2>3 DEF r
    <3>2. requests' \in Seq(Halves \cup {Gone})
      <4>1. PICK H : H = Halves \cup {Gone}
        OBVIOUS
      <4>2. PICK q : q = r.requests
        OBVIOUS
      <4>3. q \in Seq(H) /\ (half \in Halves => half \in H)
        BY <2>4, <4>1, <4>2
      <4>4. half \in Halves => Append(q, half) \in Seq(H)
        BY <4>3, AppendIn
      <4>5. requests' \in Seq(H)
        BY <3>1, <4>2, <4>3, <4>4, Zenon
      <4>6. QED
        BY <4>1, <4>5, Zenon
    <3>3. QED
      BY <2>4, <3>1, <3>2 DEF QueuesOK
  <2> HIDE DEF half, free, r
  <2>6. SizesOK'
    <3>1. buffer' \in Sized /\ buffer'.dim = r.buffer.dim
          /\ buffer'.allocated = r.buffer.allocated
      <4>1. CASE buffer' = r.buffer
        BY <2>4, <4>1
      <4>2. CASE free # {} /\ buffer' = [r.buffer EXCEPT !.busy[half] = TRUE, !.image[half] = grid]
        <5>1. grid \in BOOLEAN
          BY DEF WindowInv, SizesOK
        <5>2. QED
          BY <2>3, <2>4, <4>2, <5>1 DEF Sized
      <4>3. QED
        BY <2>2, <4>1, <4>2 DEF r
    <3>2. window' = r.window /\ grid' = grid /\ grid \in BOOLEAN
      BY <1>1, <2>1 DEF r, WindowInv, SizesOK
    <3>3. QED
      BY <2>4, <3>1, <3>2 DEF SizesOK
  <2>7. QED
    BY <2>5, <2>6 DEF WindowInv
<1>4. QED
  BY <1>2, <1>3

LEMMA ToplevelKeeps == WindowInv /\ ToplevelConfigure => WindowInv'
<1> SUFFICES ASSUME WindowInv, ToplevelConfigure PROVE WindowInv'
  OBVIOUS
<1> DEFINE size == Head(wayland).size
<1>1. Head(wayland) \in Events /\ Tail(wayland) \in Seq(Events)
  BY HeadAndTail DEF ToplevelConfigure, WindowInv, QueuesOK
<1>2. QueuesOK'
  BY <1>1 DEF ToplevelConfigure, WindowInv, QueuesOK
<1>3. size \in AllSizes
  BY <1>1, ToplevelSize DEF ToplevelConfigure
<1>4. buffer' = buffer /\ grid' = grid
  BY DEF ToplevelConfigure
<1> HIDE DEF size
<1>5. CASE size = NoSize
  <2>1. window' = [window EXCEPT !.pending = Default, !.initialized = TRUE,
                                 !.pending_resize = TRUE]
    BY <1>5 DEF ToplevelConfigure, size
  <2>2. Default \in Sizes
    BY ServerAssumption
  <2>3. SizesOK'
    BY <1>4, <2>1, <2>2 DEF WindowInv, SizesOK, Framed, AllSizes
  <2>4. QED
    BY <1>2, <2>3 DEF WindowInv
<1>6. CASE size # NoSize /\ window' = window
  BY <1>2, <1>4, <1>6, SizesKept DEF WindowInv, sizes
<1>7. CASE size # NoSize /\ window' = [window EXCEPT !.pending = size, !.pending_resize = TRUE]
  <2>1. size \in Sizes
    BY <1>3, <1>7 DEF AllSizes
  <2>2. SizesOK'
    BY <1>4, <1>7, <2>1 DEF WindowInv, SizesOK, Framed, AllSizes
  <2>3. QED
    BY <1>2, <2>2 DEF WindowInv
<1>8. size = NoSize \/ window' = window
        \/ window' = [window EXCEPT !.pending = size, !.pending_resize = TRUE]
  BY DEF ToplevelConfigure, size
<1>9. QED
  BY <1>5, <1>6, <1>7, <1>8

LEMMA ReleaseKeeps == WindowInv /\ BufferRelease => WindowInv'
<1> SUFFICES ASSUME WindowInv, BufferRelease PROVE WindowInv'
  OBVIOUS
<1>1. QueuesOK'
  BY HeadAndTail DEF BufferRelease, WindowInv, QueuesOK
<1>2. SizesOK'
  <2>1. window' = window /\ grid' = grid
    BY DEF BufferRelease
  <2>2. buffer' \in Sized /\ buffer'.dim = buffer.dim /\ buffer'.allocated = buffer.allocated
    <3>1. buffer \in Sized
      BY DEF WindowInv, SizesOK
    <3>2. \A half : [b \in Halves |-> buffer.busy[b] /\ b # half] \in [Halves -> BOOLEAN]
      OBVIOUS
    <3>3. QED
      BY <3>1, <3>2 DEF BufferRelease, Sized
  <2>3. QED
    BY <2>1, <2>2 DEF WindowInv, SizesOK
<1>3. QED
  BY <1>1, <1>2 DEF WindowInv

LEMMA PointerKeeps == WindowInv /\ PointerFrame => WindowInv'
<1> SUFFICES ASSUME WindowInv, PointerFrame PROVE WindowInv'
  OBVIOUS
<1>1. QueuesOK'
  BY HeadAndTail DEF PointerFrame, WindowInv, QueuesOK
<1>2. SizesOK'
  BY SizesKept DEF PointerFrame, WindowInv, sizes
<1>3. QED
  BY <1>1, <1>2 DEF WindowInv
-----------------------------------------------------------------------------
(***************************************************************************)
(* Clients, the user and the compositor only add to the queues.            *)
(***************************************************************************)
LEMMA ConnectionsKeep ==
  ASSUME WindowInv,
         \/ Accept
         \/ \E i \in Slots : Disconnect(i)
         \/ \E c \in Clients : Connect(c) \/ SendCommand(c) \/ HangUp(c)
  PROVE  WindowInv'
<1>1. UNCHANGED sizes /\ UNCHANGED queues
  BY DEF Accept, Disconnect, Connect, SendCommand, HangUp, sizes, queues
<1>2. QED
  BY <1>1, SizesKept, QueuesKept DEF WindowInv

LEMMA CommandKeeps == \A i \in Slots : WindowInv /\ Command(i) => WindowInv'
<1> SUFFICES ASSUME NEW i \in Slots, WindowInv, Command(i) PROVE WindowInv'
  OBVIOUS
<1>1. QueuesOK'
  BY QueuesKept DEF WindowInv, Command, queues
<1>2. SizesOK'
  BY DEF WindowInv, Command, SizesOK, Sized, Framed
<1>3. QED
  BY <1>1, <1>2 DEF WindowInv

LEMMA SentKeeps == \A events \in Seq(Events) : WindowInv /\ Sent(events) => WindowInv'
<1> SUFFICES ASSUME NEW events \in Seq(Events), WindowInv, Sent(events) PROVE WindowInv'
  OBVIOUS
<1>1. QueuesOK'
  BY DEF WindowInv, QueuesOK, Sent
<1>2. SizesOK'
  BY SizesKept DEF WindowInv, Sent, sizes
<1>3. QED
  BY <1>1, <1>2 DEF WindowInv

LEMMA OutsideKeeps == WindowInv /\ (Configure \/ Point) => WindowInv'
<1> SUFFICES ASSUME WindowInv, Configure \/ Point PROVE WindowInv'
  OBVIOUS
<1>1. CASE Configure
  <2>1. PICK size \in AllSizes : Sent(<<[ev |-> "toplevel", size |-> size], Event("surface")>>)
    BY <1>1 DEF Configure
  <2>2. <<[ev |-> "toplevel", size |-> size], Event("surface")>> \in Seq(Events)
    BY SomeEvents
  <2>3. QED
    BY <2>1, <2>2, SentKeeps
<1>2. CASE Point
  <2>1. PICK button \in Buttons, at \in Positions :
          Sent(<<[ev |-> "pointer", button |-> button, at |-> at]>>)
    BY <1>2 DEF Point
  <2>2. <<[ev |-> "pointer", button |-> button, at |-> at]>> \in Seq(Events)
    BY SomeEvents
  <2>3. QED
    BY <2>1, <2>2, SentKeeps
<1>3. QED
  BY <1>1, <1>2

LEMMA CompositorKeeps == WindowInv /\ Compositor => WindowInv'
<1> SUFFICES ASSUME WindowInv, Compositor PROVE WindowInv'
  OBVIOUS
<1>1. SizesOK'
  BY SizesKept DEF WindowInv, Compositor, CompositorTakes, CompositorRepaints, sizes
<1>2. CASE CompositorTakes
  <2>1. Head(requests) \in Halves \cup {Gone} /\ Tail(requests) \in Seq(Halves \cup {Gone})
    BY <1>2, HeadAndTail DEF CompositorTakes, WindowInv, QueuesOK
  <2>2. ReleaseOf(screen.half) \in Events
    BY SomeEvents DEF WindowInv, QueuesOK
  <2>3. wayland' \in Seq(Events)
    <3>1. PICK e : e = ReleaseOf(screen.half)
      OBVIOUS
    <3>2. wayland' = wayland \/ wayland' = Append(wayland, e)
      BY <1>2, <3>1 DEF CompositorTakes
    <3>3. wayland \in Seq(Events) /\ e \in Events
      BY <2>2, <3>1 DEF WindowInv, QueuesOK
    <3>4. QED
      BY <3>2, <3>3, AppendIn
  <2>4. screen' \in [half : Halves \cup {Gone}, callbacks : Nat]
    BY <1>2, <2>1 DEF CompositorTakes, WindowInv, QueuesOK
  <2>5. requests' \in Seq(Halves \cup {Gone})
    BY <1>2, <2>1 DEF CompositorTakes
  <2>6. QueuesOK'
    BY <2>3, <2>4, <2>5 DEF QueuesOK
  <2>7. QED
    BY <1>1, <2>6 DEF WindowInv
<1>3. CASE CompositorRepaints
  <2> DEFINE done == [i \in 1 .. screen.callbacks |-> Event("done")]
  <2>1. done \in Seq(Events)
    BY SomeEvents DEF WindowInv, QueuesOK
  <2>2. wayland' = wayland \o done /\ screen' = [screen EXCEPT !.callbacks = 0]
        /\ requests' = requests
    BY <1>3 DEF CompositorRepaints
  <2> HIDE DEF done
  <2>3. wayland \in Seq(Events) /\ screen \in [half : Halves \cup {Gone}, callbacks : Nat]
        /\ requests \in Seq(Halves \cup {Gone})
    BY DEF WindowInv, QueuesOK
  <2>4. wayland' \in Seq(Events)
    BY <2>1, <2>2, <2>3, ConcatIn
  <2>5. screen' \in [half : Halves \cup {Gone}, callbacks : Nat]
    BY <2>2, <2>3
  <2>6. QueuesOK'
    BY <2>2, <2>3, <2>4, <2>5 DEF QueuesOK
  <2>7. QED
    BY <1>1, <2>6 DEF WindowInv
<1>4. QED
  BY <1>2, <1>3 DEF Compositor
-----------------------------------------------------------------------------
LEMMA WindowInvInit == ServerInit => WindowInv
<1> SUFFICES ASSUME ServerInit PROVE WindowInv
  OBVIOUS
<1>1. PICK size \in AllSizes :
        wayland = <<[ev |-> "toplevel", size |-> size], Event("surface")>>
  BY DEF ServerInit
<1>2. wayland \in Seq(Events)
  BY <1>1, SomeEvents
<1>3. QueuesOK
  BY <1>2 DEF ServerInit, QueuesOK
<1>4. SizesOK
  BY DEF ServerInit, SizesOK, Sized, Framed, AllSizes
<1>5. QED
  BY <1>3, <1>4 DEF WindowInv

LEMMA WindowInvStep == WindowInv /\ [ServerNext]_vars => WindowInv'
<1> SUFFICES ASSUME WindowInv, [ServerNext]_vars PROVE WindowInv'
  OBVIOUS
<1>1. CASE Wayland
  BY <1>1, DrawKeeps, ToplevelKeeps, ReleaseKeeps, PointerKeeps DEF Wayland
<1>2. CASE Compositor
  BY <1>2, CompositorKeeps
<1>3. CASE Configure \/ Point
  BY <1>3, OutsideKeeps
<1>4. CASE \/ Accept
           \/ \E i \in Slots : Disconnect(i)
           \/ \E c \in Clients : Connect(c) \/ SendCommand(c) \/ HangUp(c)
  BY <1>4, ConnectionsKeep
<1>5. CASE \E i \in Slots : Command(i)
  BY <1>5, CommandKeeps
<1>6. CASE UNCHANGED vars
  <2>1. UNCHANGED sizes /\ UNCHANGED queues
    BY <1>6 DEF vars, sizes, queues
  <2>2. QED
    BY <2>1, SizesKept, QueuesKept DEF WindowInv
<1>7. QED
  BY <1>1, <1>2, <1>3, <1>4, <1>5, <1>6 DEF ServerNext, Outside

\* Sizes are large enough for LookupFindsPainted.
LEMMA InvHits == WindowInv => ClicksHitWhatIsPainted
<1> DEFINE dim == window.current
<1> SUFFICES ASSUME WindowInv, buffer.allocated, SpacingX(dim) <= SpacingY(dim),
                    NEW p \in Cells(dim)
             PROVE  UnderlyingLed(dim, p) = Picture[buffer.dim][p]
  BY DEF ClicksHitWhatIsPainted
<1>1. dim \in Sizes /\ buffer.dim = dim
  BY DEF WindowInv, SizesOK
<1> HIDE DEF dim
<1>2. dim \in Dimensions /\ dim.width >= LED_COLS
  BY <1>1, ServerAssumption
<1>3. SpacingX(dim) > 0
  <2>1. dim.width \in Nat /\ LED_COLS \in Nat \ {0}
    BY <1>2, GridAssumption DEF Dimensions
  <2>2. QED
    BY <1>2, <2>1 DEF SpacingX
<1>4. UnderlyingLed(dim, p) = PaintedLed(dim, p)
  BY <1>2, <1>3, LookupFindsPainted DEF Fits
<1>5. QED
  BY <1>1, <1>4 DEF Picture

\* In every window large enough for the grid, and at every time, a click in a cell of the grid is
\* for the LED painted there: seat.c's look-up in the current size and what render.c painted into
\* the buffers agree through resizes.
THEOREM ServerClicksHit == ServerSpec => []ClicksHitWhatIsPainted
<1>1. ServerSpec => []WindowInv
  BY WindowInvInit, WindowInvStep, PTL DEF ServerSpec
<1>2. QED
  BY <1>1, InvHits, PTL
-----------------------------------------------------------------------------
(***************************************************************************)
(* Who has the halves of the buffer.  One lemma per way in which commits,  *)
(* screen, releases and busy flags change.                                 *)
(***************************************************************************)
Shows(b) == IF screen.half = b THEN 1 ELSE 0
Busy(b) == IF buffer.busy[b] THEN 1 ELSE 0
Owners(b) == Count(requests, b) + Count(wayland, ReleaseOf(b)) + Shows(b)

LEMMA BusyOwnedIs ==
  /\ BusyOwned <=> \A b \in Halves : Owners(b) = Busy(b)
  /\ BusyOwned' <=> \A b \in Halves : Owners(b)' = Busy(b)'
  BY DEF BusyOwned, Owners, Busy, Shows, Count, Places

LEMMA Counts ==
  ASSUME QueuesOK, NEW b \in Halves
  PROVE  Count(requests, b) \in Nat /\ Count(wayland, ReleaseOf(b)) \in Nat /\ Shows(b) \in {0, 1}
  BY CountType DEF QueuesOK, Shows

\* Commits and screen stay, and the wayland queue loses or gains what is not a release.
LEMMA OwnersKept ==
  ASSUME BusyOwned, requests' = requests, screen'.half = screen.half, buffer'.busy = buffer.busy,
         \A b \in Halves : Count(wayland', ReleaseOf(b)) = Count(wayland, ReleaseOf(b))
  PROVE  BusyOwned'
<1>1. \A b \in Halves : Owners(b)' = Owners(b) /\ Busy(b)' = Busy(b)
  BY DEF Owners, Busy, Shows
<1>2. QED
  BY <1>1, BusyOwnedIs

LEMMA OtherEvent ==
  ASSUME QueuesOK, wayland # <<>>, Head(wayland).ev # "release", NEW b \in Halves
  PROVE  Count(Tail(wayland), ReleaseOf(b)) = Count(wayland, ReleaseOf(b))
<1>1. Head(wayland) # ReleaseOf(b)
  BY DEF ReleaseOf
<1>2. wayland \in Seq(Events) /\ Tail(wayland) \in Seq(Events)
  BY HeadAndTail DEF QueuesOK
<1>3. Count(wayland, ReleaseOf(b)) = Count(Tail(wayland), ReleaseOf(b)) + 0
  BY <1>1, <1>2, CountTail
<1>4. Count(Tail(wayland), ReleaseOf(b)) \in Nat
  BY <1>2, CountType
<1>5. QED
  BY <1>3, <1>4

LEMMA OtherEvents ==
  ASSUME QueuesOK, NEW events \in Seq(Events), \A i \in DOMAIN events : events[i].ev # "release",
         NEW b \in Halves
  PROVE  Count(wayland \o events, ReleaseOf(b)) = Count(wayland, ReleaseOf(b))
<1>1. \A i \in DOMAIN events : events[i] # ReleaseOf(b)
  BY DEF ReleaseOf
<1>2. wayland \in Seq(Events)
  BY DEF QueuesOK
<1>3. QED
  BY <1>1, <1>2, CountConcat

\* The steps that leave the owners as they are.
LEMMA EventKeepsOwners ==
  ASSUME WindowInv, BusyOwned, wayland # <<>>, Head(wayland).ev # "release",
         wayland' = Tail(wayland), requests' = requests, screen' = screen,
         buffer' = buffer
  PROVE  BusyOwned'
<1>1. \A b \in Halves : Count(wayland', ReleaseOf(b)) = Count(wayland, ReleaseOf(b))
  BY OtherEvent DEF WindowInv
<1>2. QED
  BY <1>1, OwnersKept

LEMMA SentKeepsOwners ==
  ASSUME WindowInv, BusyOwned,
         NEW events \in Seq(Events), \A i \in DOMAIN events : events[i].ev # "release",
         wayland' = wayland \o events, requests' = requests, screen'.half = screen.half,
         buffer' = buffer
  PROVE  BusyOwned'
<1>1. \A b \in Halves : Count(wayland', ReleaseOf(b)) = Count(wayland, ReleaseOf(b))
  BY OtherEvents DEF WindowInv
<1>2. QED
  BY <1>1, OwnersKept

LEMMA OutsideKeepsOwners == WindowInv /\ BusyOwned /\ (Configure \/ Point) => BusyOwned'
<1> SUFFICES ASSUME WindowInv, BusyOwned, Configure \/ Point PROVE BusyOwned'
  OBVIOUS
<1>1. PICK events \in Seq(Events) :
        Sent(events) /\ \A i \in DOMAIN events : events[i].ev # "release"
  <2>1. CASE Configure
    <3>1. PICK size \in AllSizes : Sent(<<[ev |-> "toplevel", size |-> size], Event("surface")>>)
      BY <2>1 DEF Configure
    <3> DEFINE q == <<[ev |-> "toplevel", size |-> size], Event("surface")>>
    <3>2. q \in Seq(Events)
      BY SomeEvents
    <3>3. \A i \in DOMAIN q : q[i].ev # "release"
      BY DEF Event
    <3>4. QED
      BY <3>1, <3>2, <3>3
  <2>2. CASE Point
    <3>1. PICK button \in Buttons, at \in Positions :
            Sent(<<[ev |-> "pointer", button |-> button, at |-> at]>>)
      BY <2>2 DEF Point
    <3> DEFINE q == <<[ev |-> "pointer", button |-> button, at |-> at]>>
    <3>2. q \in Seq(Events)
      BY SomeEvents
    <3>3. \A i \in DOMAIN q : q[i].ev # "release"
      OBVIOUS
    <3>4. QED
      BY <3>1, <3>2, <3>3
  <2>3. QED
    BY <2>1, <2>2
<1>2. QED
  BY <1>1, SentKeepsOwners DEF Sent

LEMMA RepaintKeepsOwners == WindowInv /\ BusyOwned /\ CompositorRepaints => BusyOwned'
<1> SUFFICES ASSUME WindowInv, BusyOwned, CompositorRepaints PROVE BusyOwned'
  OBVIOUS
<1> DEFINE done == [i \in 1 .. screen.callbacks |-> Event("done")]
<1>1. done \in Seq(Events)
  BY SomeEvents DEF WindowInv, QueuesOK
<1>2. \A i \in DOMAIN done : done[i].ev # "release"
  BY DEF Event
<1>3. wayland' = wayland \o done /\ requests' = requests /\ buffer' = buffer
  BY DEF CompositorRepaints
<1>4. screen'.half = screen.half
  BY DEF CompositorRepaints, WindowInv, QueuesOK
<1> HIDE DEF done
<1>5. QED
  BY <1>1, <1>2, <1>3, <1>4, SentKeepsOwners

(***************************************************************************)
(* A commit moves a half from the queue to the screen, and the one that is *)
(* there into a release.                                                   *)
(***************************************************************************)
LEMMA TakeMovesHalves == WindowInv /\ BusyOwned /\ CompositorTakes => BusyOwned'
<1> SUFFICES ASSUME WindowInv, BusyOwned, CompositorTakes, NEW b \in Halves
             PROVE  Owners(b)' = Busy(b)'
  BY BusyOwnedIs
<1> DEFINE h == Head(requests)
           old == screen.half
<1>1. requests # <<>> /\ requests' = Tail(requests) /\ buffer' = buffer
      /\ screen' = [half |-> h, callbacks |-> screen.callbacks + 1]
      /\ wayland' = IF old = Gone THEN wayland ELSE Append(wayland, ReleaseOf(old))
  BY DEF CompositorTakes
<1>2. requests \in Seq(Halves \cup {Gone}) /\ wayland \in Seq(Events)
      /\ old \in Halves \cup {Gone} /\ Tail(requests) \in Seq(Halves \cup {Gone})
  BY <1>1, HeadAndTail DEF WindowInv, QueuesOK
<1> HIDE DEF h, old
<1>3. Count(requests, b) = Count(Tail(requests), b) + IF h = b THEN 1 ELSE 0
  BY <1>1, <1>2, CountTail DEF h
<1>4. Count(wayland', ReleaseOf(b)) = Count(wayland, ReleaseOf(b)) + IF old = b THEN 1 ELSE 0
  <2>1. ReleaseOf(old) = ReleaseOf(b) <=> old = b
    BY DEF ReleaseOf
  <2>2. ReleaseOf(old) \in Events
    BY <1>2, SomeEvents
  <2>3. Count(Append(wayland, ReleaseOf(old)), ReleaseOf(b))
          = Count(wayland, ReleaseOf(b)) + IF old = b THEN 1 ELSE 0
    BY <1>2, <2>1, <2>2, CountAppend
  <2>4. Count(wayland, ReleaseOf(b)) \in Nat
    BY <1>2, CountType
  <2>5. old = Gone => old # b
    BY DEF Halves, Gone
  <2>6. QED
    BY <1>1, <2>3, <2>4, <2>5
<1>5. Count(Tail(requests), b) \in Nat /\ Count(wayland, ReleaseOf(b)) \in Nat
  BY <1>2, CountType
<1>6. Shows(b)' = (IF h = b THEN 1 ELSE 0) /\ Shows(b) = IF old = b THEN 1 ELSE 0
  BY <1>1 DEF Shows, old
<1>7. Busy(b)' = Busy(b) /\ Owners(b) = Busy(b)
  BY <1>1, BusyOwnedIs DEF Busy
<1>8. Owners(b)' = Owners(b)
  BY <1>1, <1>3, <1>4, <1>5, <1>6 DEF Owners
<1>9. QED
  BY <1>7, <1>8

\* A release clears the flag of its half, which only that release had.
LEMMA ReleaseFreesHalf == WindowInv /\ BusyOwned /\ BufferRelease => BusyOwned'
<1> SUFFICES ASSUME WindowInv, BusyOwned, BufferRelease, NEW b \in Halves
             PROVE  Owners(b)' = Busy(b)'
  BY BusyOwnedIs
<1> DEFINE e == Head(wayland)
<1>1. wayland # <<>> /\ e.ev = "release" /\ wayland' = Tail(wayland)
      /\ requests' = requests /\ screen' = screen
      /\ buffer' = [buffer EXCEPT !.busy = [x \in Halves |-> @[x] /\ x # e.half]]
  BY DEF BufferRelease
<1>2. wayland \in Seq(Events) /\ Tail(wayland) \in Seq(Events) /\ e \in Events
  BY <1>1, HeadAndTail DEF WindowInv, QueuesOK
<1>3. buffer'.busy[b] = (buffer.busy[b] /\ b # e.half)
  <2>1. \A half : [buffer EXCEPT !.busy = [x \in Halves |-> @[x] /\ x # half]].busy[b]
                    = (buffer.busy[b] /\ b # half)
    BY DEF WindowInv, SizesOK, Sized
  <2> HIDE DEF e
  <2>2. QED
    BY <1>1, <2>1
<1> HIDE DEF e
<1>4. e = ReleaseOf(b) <=> e.half = b
  BY <1>1, <1>2 DEF Events, ReleaseOf
<1>5. Count(wayland, ReleaseOf(b))
        = Count(Tail(wayland), ReleaseOf(b)) + IF e.half = b THEN 1 ELSE 0
  BY <1>1, <1>2, <1>4, CountTail DEF e
<1>6. Count(Tail(wayland), ReleaseOf(b)) \in Nat /\ Count(requests, b) \in Nat
      /\ Shows(b) \in {0, 1}
  BY <1>2, CountType, Counts DEF WindowInv
<1>7. Owners(b) = Busy(b)
  BY BusyOwnedIs
<1>8. Owners(b)' = Count(requests, b) + Count(Tail(wayland), ReleaseOf(b)) + Shows(b)
  BY <1>1 DEF Owners, Shows
<1>9. CASE e.half = b
  <2>1. Owners(b)' = Busy(b) - 1 /\ Owners(b)' >= 0
    BY <1>5, <1>6, <1>7, <1>8, <1>9 DEF Owners
  <2>2. Busy(b)' = 0
    BY <1>3, <1>9 DEF Busy
  <2>3. Busy(b) \in {0, 1}
    BY DEF Busy
  <2>4. QED
    BY <2>1, <2>2, <2>3
<1>10. CASE e.half # b
  <2>1. Owners(b)' = Owners(b)
    BY <1>5, <1>6, <1>8, <1>10 DEF Owners
  <2>2. Busy(b)' = Busy(b)
    BY <1>3, <1>10 DEF Busy
  <2>3. QED
    BY <1>7, <2>1, <2>2
<1>11. QED
  BY <1>9, <1>10

(***************************************************************************)
(* A resize that makes new buffers takes both halves away from everyone;   *)
(* every other draw finds them as they were, and commits one that is free. *)
(***************************************************************************)
ResizedOwners(b) ==
  Count(Resized.requests, b) + Count(Resized.wayland, ReleaseOf(b))
    + IF Resized.screen.half = b THEN 1 ELSE 0

LEMMA ResizedOwned ==
  ASSUME WindowInv, BusyOwned, wayland # <<>>, Head(wayland).ev # "release", NEW b \in Halves
  PROVE  ResizedOwners(b) = IF Resized.buffer.busy[b] THEN 1 ELSE 0
<1> DEFINE anew == window.pending_resize /\ ~(buffer.allocated /\ window.pending = buffer.dim)
<1>1. CASE anew
  <2>1. /\ Resized.requests = Destroyed(requests)
        /\ Resized.wayland = WithoutReleases(Tail(wayland))
        /\ Resized.screen = [screen EXCEPT !.half = Gone]
        /\ Resized.buffer = [dim |-> window.pending, allocated |-> TRUE,
                             busy |-> [x \in Halves |-> FALSE],
                             image |-> [x \in Halves |-> FALSE]]
    BY <1>1 DEF Resized
  <2>2. b # Gone
    BY DEF Halves, Gone
  <2>3. \A i \in DOMAIN Resized.requests : Resized.requests[i] # b
    BY <2>1, <2>2 DEF Destroyed
  <2>4. \A i \in DOMAIN Resized.wayland : Resized.wayland[i] # ReleaseOf(b)
    <3>1. ReleaseOf(Gone) # ReleaseOf(b) /\ ReleaseOf(b).ev = "release"
      BY <2>2 DEF ReleaseOf
    <3> DEFINE rest == Tail(wayland)
    <3>2. \A i \in DOMAIN rest :
            WithoutReleases(rest)[i] = IF rest[i].ev = "release" THEN ReleaseOf(Gone) ELSE rest[i]
      BY DEF WithoutReleases
    <3>3. DOMAIN WithoutReleases(rest) = DOMAIN rest
      BY DEF WithoutReleases
    <3> HIDE DEF rest
    <3>4. \A i \in DOMAIN rest : WithoutReleases(rest)[i] # ReleaseOf(b)
      BY <3>1, <3>2, Zenon
    <3>5. QED
      BY <2>1, <3>3, <3>4, Zenon DEF rest
  <2>5. Resized.screen.half # b
    BY <2>1, <2>2 DEF WindowInv, QueuesOK
  <2>6. ~Resized.buffer.busy[b]
    BY <2>1
  <2>7. Resized.wayland \in Seq(Events) /\ Resized.requests \in Seq(Halves \cup {Gone})
    BY ResizedQueues DEF WindowInv
  <2>8. Count(Resized.requests, b) = 0 /\ Count(Resized.wayland, ReleaseOf(b)) = 0
    BY <2>3, <2>4, <2>7, CountType
  <2>9. QED
    BY <2>5, <2>6, <2>8 DEF ResizedOwners
<1>2. CASE ~anew
  <2>1. Resized.requests = requests /\ Resized.wayland = Tail(wayland)
        /\ Resized.screen = screen /\ Resized.buffer = buffer
    BY <1>2 DEF Resized
  <2>2. Count(Tail(wayland), ReleaseOf(b)) = Count(wayland, ReleaseOf(b))
    BY OtherEvent DEF WindowInv
  <2>3. Owners(b) = Busy(b)
    BY BusyOwnedIs
  <2>4. QED
    BY <2>1, <2>2, <2>3 DEF ResizedOwners, Owners, Shows, Busy
<1>3. QED
  BY <1>1, <1>2

LEMMA DrawTakesFreeHalf == WindowInv /\ BusyOwned /\ Draw => BusyOwned'
<1> SUFFICES ASSUME WindowInv, BusyOwned, Draw PROVE BusyOwned'
  OBVIOUS
<1>1. wayland # <<>> /\ Head(wayland).ev # "release" /\ Redraw
  BY DEF Draw
<1>2. CASE ~window.initialized
  <2>1. wayland' = Tail(wayland) /\ UNCHANGED <<window, buffer, requests, screen>>
    BY <1>1, <1>2 DEF Redraw
  <2>2. QED
    BY <1>1, <2>1, EventKeepsOwners
<1>3. CASE window.initialized
  <2> SUFFICES ASSUME NEW b \in Halves PROVE Owners(b)' = Busy(b)'
    BY BusyOwnedIs
  <2> DEFINE r == Resized
             free == FreeHalves(r.buffer.busy)
             half == Min(free)
  <2>1. wayland' = r.wayland /\ screen' = r.screen
    BY <1>1, <1>3 DEF Redraw
  <2>2. \/ buffer' = r.buffer /\ requests' = r.requests
        \/ /\ free # {}
           /\ buffer' = [r.buffer EXCEPT !.busy[half] = TRUE, !.image[half] = grid]
           /\ requests' = Append(r.requests, half)
    BY <1>1, <1>3 DEF Redraw
  <2>3. ResizedOwners(b) = IF r.buffer.busy[b] THEN 1 ELSE 0
    BY <1>1, ResizedOwned
  <2>4. r.buffer \in Sized /\ r.requests \in Seq(Halves \cup {Gone})
    BY <1>1, ResizedQueues, ResizedSizes DEF WindowInv
  <2>5. free # {} => half \in Halves /\ ~r.buffer.busy[half]
    BY FreeHalf
  <2>6. /\ ResizedOwners(b) = Count(r.requests, b) + Count(r.wayland, ReleaseOf(b))
                               + IF r.screen.half = b THEN 1 ELSE 0
        /\ Count(r.requests, b) \in Nat /\ Count(r.wayland, ReleaseOf(b)) \in Nat
    BY <1>1, <2>4, CountType, ResizedQueues DEF ResizedOwners, WindowInv
  <2>7. Owners(b)' = Count(requests', b) + Count(r.wayland, ReleaseOf(b))
                       + IF r.screen.half = b THEN 1 ELSE 0
    BY <2>1 DEF Owners, Shows
  <2> HIDE DEF half, free, r
  <2>8. CASE buffer' = r.buffer /\ requests' = r.requests
    BY <2>3, <2>6, <2>7, <2>8 DEF Busy
  <2>9. CASE /\ free # {}
             /\ buffer' = [r.buffer EXCEPT !.busy[half] = TRUE, !.image[half] = grid]
             /\ requests' = Append(r.requests, half)
    <3>1. Count(requests', b) = Count(r.requests, b) + IF half = b THEN 1 ELSE 0
      BY <2>4, <2>5, <2>9, CountAppend
    <3>2. buffer'.busy[b] = (r.buffer.busy[b] \/ half = b)
      <4>1. \A x \in Halves, v \in BOOLEAN :
              [r.buffer EXCEPT !.busy[x] = TRUE, !.image[x] = v].busy[b]
                = (r.buffer.busy[b] \/ x = b)
        BY <2>4 DEF Sized
      <4>2. grid \in BOOLEAN
        BY DEF WindowInv, SizesOK
      <4>3. QED
        BY <2>5, <2>9, <4>1, <4>2
    <3>3. half = b => ~r.buffer.busy[b]
      BY <2>5, <2>9
    <3>4. CASE half = b
      <4>1. Count(r.requests, b) + Count(r.wayland, ReleaseOf(b))
              + (IF r.screen.half = b THEN 1 ELSE 0) = 0
        BY <2>3, <2>6, <3>3, <3>4
      <4>2. Owners(b)' = 1
        BY <2>6, <2>7, <3>1, <3>4, <4>1
      <4>3. Busy(b)' = 1
        BY <3>2, <3>4 DEF Busy
      <4>4. QED
        BY <4>2, <4>3
    <3>5. CASE half # b
      <4>1. Owners(b)' = ResizedOwners(b)
        BY <2>6, <2>7, <3>1, <3>5
      <4>2. Busy(b)' = IF r.buffer.busy[b] THEN 1 ELSE 0
        BY <3>2, <3>5 DEF Busy
      <4>3. QED
        BY <2>3, <4>1, <4>2
    <3>6. QED
      BY <3>4, <3>5
  <2>10. QED
    BY <2>2, <2>8, <2>9 DEF r
<1>4. QED
  BY <1>2, <1>3
-----------------------------------------------------------------------------
LEMMA BusyOwnedInit == ServerInit => BusyOwned
<1> SUFFICES ASSUME ServerInit, NEW b \in Halves PROVE Owners(b) = Busy(b)
  BY BusyOwnedIs
<1>1. WindowInv
  BY WindowInvInit
<1>2. PICK size \in AllSizes :
        wayland = <<[ev |-> "toplevel", size |-> size], Event("surface")>>
  BY DEF ServerInit
<1>3. \A i \in DOMAIN wayland : wayland[i].ev # "release"
  BY <1>2 DEF Event
<1>4. \A i \in DOMAIN wayland : wayland[i] # ReleaseOf(b)
  BY <1>3 DEF ReleaseOf
<1>5. \A i \in DOMAIN requests : requests[i] # b
  BY DEF ServerInit
<1>6. Count(requests, b) = 0 /\ Count(wayland, ReleaseOf(b)) = 0
  BY <1>1, <1>4, <1>5, CountType DEF WindowInv, QueuesOK
<1>7. Shows(b) = 0 /\ Busy(b) = 0
  BY DEF ServerInit, Shows, Busy, Halves, Gone
<1>8. QED
  BY <1>6, <1>7 DEF Owners

LEMMA BusyOwnedStep == WindowInv /\ BusyOwned /\ [ServerNext]_vars => BusyOwned'
<1> SUFFICES ASSUME WindowInv, BusyOwned, [ServerNext]_vars PROVE BusyOwned'
  OBVIOUS
<1>1. CASE Draw
  BY <1>1, DrawTakesFreeHalf
<1>2. CASE BufferRelease
  BY <1>2, ReleaseFreesHalf
<1>3. CASE ToplevelConfigure \/ PointerFrame
  <2>1. wayland # <<>> /\ Head(wayland).ev # "release" /\ wayland' = Tail(wayland)
        /\ UNCHANGED <<requests, screen, buffer>>
    BY <1>3 DEF ToplevelConfigure, PointerFrame
  <2>2. QED
    BY <2>1, EventKeepsOwners
<1>4. CASE Compositor
  BY <1>4, TakeMovesHalves, RepaintKeepsOwners DEF Compositor
<1>5. CASE Configure \/ Point
  BY <1>5, OutsideKeepsOwners
<1>6. CASE \/ Accept
           \/ \E i \in Slots : Disconnect(i) \/ Command(i)
           \/ \E c \in Clients : Connect(c) \/ SendCommand(c) \/ HangUp(c)
           \/ UNCHANGED vars
  <2>1. UNCHANGED <<wayland, requests, screen, buffer>>
    BY <1>6 DEF Accept, Disconnect, Command, Connect, SendCommand, HangUp, vars
  <2>2. QED
    BY <2>1, OwnersKept
<1>7. QED
  BY <1>1, <1>2, <1>3, <1>4, <1>5, <1>6 DEF ServerNext, Wayland, Outside

\* In every behaviour, whatever the compositor's sizes and however commits, frame callbacks,
\* releases and resizes interleave, a half of the buffer is busy exactly while the compositor has
\* it in one place, a commit, the screen or a release on its way back: render_draw never paints
\* into what is shown or queued, and no half stays busy that nobody will give back.
THEOREM ServerBusyOwned == ServerSpec => []BusyOwned
<1>1. ServerInit => WindowInv /\ BusyOwned
  BY WindowInvInit, BusyOwnedInit
<1>2. WindowInv /\ BusyOwned /\ [ServerNext]_vars => (WindowInv /\ BusyOwned)'
  BY WindowInvStep, BusyOwnedStep
<1>3. QED
  BY <1>1, <1>2, PTL DEF ServerSpec
-----------------------------------------------------------------------------
(***************************************************************************)
(* The table of connections.                                               *)
(***************************************************************************)
InUse(table) == {i \in Slots : table[i] # NoClient}

LEMMA SlotsFinite ==
  ASSUME NEW table
  PROVE  IsFiniteSet(InUse(table)) /\ Cardinality(InUse(table)) \in Nat
<1>1. IsFiniteSet(Slots)
  BY ServerAssumption, FS_Interval DEF Slots
<1>2. InUse(table) \in SUBSET Slots
  BY DEF InUse
<1>3. QED
  BY <1>1, <1>2, FS_Subset, FS_CardinalityType

LEMMA LeastNumber ==
  ASSUME NEW S \in SUBSET Nat, S # {}
  PROVE  Min(S) \in S
<1> DEFINE R == {ss \in Nat \X Nat : ss[1] < ss[2]}
<1>1. IsWellFoundedOn(R, Nat)
  BY NatLessThanWellFounded, Zenon DEF OpToRel
<1>2. \E n \in S : \A m \in S : <<m, n>> \notin R
  <2> HIDE DEF R
  <2> QED
    BY <1>1, WFMin
<1>3. PICK n \in S : \A m \in S : <<m, n>> \notin R
  BY <1>2
<1>4. \A m \in S : n <= m
  <2> SUFFICES ASSUME NEW m \in S PROVE n <= m
    OBVIOUS
  <2>1. n \in Nat /\ m \in Nat /\ ~(<<m, n>>[1] < <<m, n>>[2])
    BY <1>3
  <2>2. QED
    BY <2>1
<1>5. QED
  BY <1>4 DEF Min

LEMMA SlotTaken ==
  ASSUME EmptySlots # {}
  PROVE  Min(EmptySlots) \in Slots /\ fds[Min(EmptySlots)] = NoClient
<1>1. EmptySlots \in SUBSET Nat
  BY DEF EmptySlots, Slots
<1>2. QED
  BY <1>1, LeastNumber DEF EmptySlots

\* The clients that are there from the start, in some order.
LEMMA SomeOrder ==
  ASSUME NEW S, IsFiniteSet(S)
  PROVE  SetToSeq(S) \in Seq(S)
<1> DEFINE n == Cardinality(S)
<1>1. n \in Nat /\ ExistsBijection(1 .. n, S)
  BY FS_CardinalityType
<1>2. \E f \in [1 .. n -> S] : IsInjective(f)
  BY <1>1 DEF ExistsBijection, Bijection, Injection
<1>3. SetToSeq(S) \in [1 .. n -> S]
  BY <1>2 DEF SetToSeq
<1>4. QED
  BY <1>1, <1>3

(***************************************************************************)
(* What is said of the table, and of the commands that are waiting.  A     *)
(* click is a command only once the server has seen it: until then it is   *)
(* a pointer event, and the two together are what users have done.         *)
(***************************************************************************)
Kinds(q) == [i \in DOMAIN q |-> q[i].ev]
Pointers(q) == Count(Kinds(q), "pointer")

TableOK ==
  /\ fds \in [Slots -> Connections \cup {NoClient}]
  /\ conn_nr = Cardinality(InUse(fds))
  /\ away \subseteq Clients /\ backlog \in Seq(Connections)
  /\ hung \subseteq Clients

InboxOK ==
  /\ inbox \in [Connections -> Nat] /\ calls \in 0 .. MaxCalls
  /\ \A c \in Clients : inbox[c] <= calls
  /\ inbox[Window] + Pointers(wayland) <= calls

TableInv == TableOK /\ InboxOK /\ pressed \in BOOLEAN

table == <<fds, conn_nr, away, backlog, hung>>

LEMMA TableKept == TableOK /\ UNCHANGED table => TableOK'
  BY DEF TableOK, table, InUse

LEMMA InboxKept == InboxOK /\ UNCHANGED <<inbox, calls, wayland>> => InboxOK'
  BY DEF InboxOK, Pointers, Count, Places, Kinds

LEMMA KindsSeq ==
  ASSUME NEW q \in Seq(Events)
  PROVE  Kinds(q) \in Seq({e.ev : e \in Events}) /\ Len(Kinds(q)) = Len(q)
         /\ Pointers(q) \in Nat
<1>1. DOMAIN q = 1 .. Len(q) /\ Len(q) \in Nat /\ \A i \in DOMAIN q : q[i] \in Events
  OBVIOUS
<1>2. PICK S : S = {e.ev : e \in Events}
  OBVIOUS
<1>3. \A i \in DOMAIN q : q[i].ev \in S
  BY <1>1, <1>2
<1>4. Kinds(q) \in Seq(S) /\ Len(Kinds(q)) = Len(q)
  BY <1>1, <1>3 DEF Kinds
<1>5. Pointers(q) \in Nat
  BY <1>4, CountType DEF Pointers
<1>6. QED
  BY <1>2, <1>4, <1>5

LEMMA PointersTail ==
  ASSUME NEW q \in Seq(Events), q # <<>>
  PROVE  Pointers(q) = Pointers(Tail(q)) + IF Head(q).ev = "pointer" THEN 1 ELSE 0
<1>1. PICK S : S = {e.ev : e \in Events}
  OBVIOUS
<1>2. PICK k : k = Kinds(q)
  OBVIOUS
<1>3. k \in Seq(S) /\ Len(k) = Len(q) /\ Len(q) \in Nat \ {0}
  BY <1>1, <1>2, KindsSeq
<1>4. k # <<>> /\ Head(k) = Head(q).ev
  BY <1>2, <1>3 DEF Kinds
<1>5. Kinds(Tail(q)) = Tail(k)
  <2>1. DOMAIN Tail(q) = 1 .. (Len(q) - 1) /\ \A i \in DOMAIN Tail(q) : Tail(q)[i] = q[i + 1]
    BY <1>3
  <2>2. Tail(q) \in Seq(Events)
    BY HeadAndTail
  <2>3. PICK t : t = Kinds(Tail(q))
    OBVIOUS
  <2>4. t \in Seq(S) /\ Len(t) = Len(q) - 1
    <3>1. t \in Seq(S) /\ Len(t) = Len(Tail(q))
      BY <1>1, <2>2, <2>3, KindsSeq
    <3>2. Len(Tail(q)) = Len(q) - 1
      BY <1>3
    <3>3. QED
      BY <3>1, <3>2
  <2>5. \A i \in 1 .. (Len(q) - 1) : t[i] = q[i + 1].ev
    BY <2>1, <2>3 DEF Kinds
  <2>6. \A i \in 1 .. (Len(q) - 1) : k[i + 1] = q[i + 1].ev
    BY <1>2, <1>3 DEF Kinds
  <2>7. Tail(k) \in Seq(S) /\ Len(Tail(k)) = Len(q) - 1
        /\ \A i \in 1 .. (Len(q) - 1) : Tail(k)[i] = k[i + 1]
    BY <1>3
  <2>8. t = Tail(k)
    BY <2>4, <2>5, <2>6, <2>7
  <2>9. QED
    BY <2>3, <2>8
<1>6. Count(k, "pointer") = Count(Tail(k), "pointer") + IF Head(k) = "pointer" THEN 1 ELSE 0
  BY <1>3, <1>4, CountTail
<1>7. QED
  BY <1>2, <1>4, <1>5, <1>6 DEF Pointers

LEMMA ConcatIs ==
  ASSUME NEW S, NEW q \in Seq(S), NEW r \in Seq(S)
  PROVE  /\ q \o r \in Seq(S) /\ Len(q \o r) = Len(q) + Len(r)
         /\ \A i \in 1 .. (Len(q) + Len(r)) :
              (q \o r)[i] = IF i <= Len(q) THEN q[i] ELSE r[i - Len(q)]
  OBVIOUS

LEMMA PointersConcat ==
  ASSUME NEW q \in Seq(Events), NEW r \in Seq(Events),
         \A i \in DOMAIN r : r[i].ev # "pointer"
  PROVE  Pointers(q \o r) = Pointers(q)
<1>1. PICK S : S = {e.ev : e \in Events}
  OBVIOUS
<1>2. PICK k : k = Kinds(q)
  OBVIOUS
<1>3. PICK l : l = Kinds(r)
  OBVIOUS
<1>4. k \in Seq(S) /\ Len(k) = Len(q) /\ l \in Seq(S) /\ Len(l) = Len(r)
  BY <1>1, <1>2, <1>3, KindsSeq
<1>5. \A i \in DOMAIN l : l[i] # "pointer"
  BY <1>3 DEF Kinds
<1>6. Kinds(q \o r) = k \o l
  <2>1. /\ Len(q) \in Nat /\ Len(r) \in Nat
        /\ DOMAIN q = 1 .. Len(q) /\ DOMAIN r = 1 .. Len(r)
        /\ DOMAIN (q \o r) = 1 .. (Len(q) + Len(r))
        /\ \A i \in 1 .. (Len(q) + Len(r)) :
             (q \o r)[i] = IF i <= Len(q) THEN q[i] ELSE r[i - Len(q)]
    BY ConcatIs
  <2>2. /\ k \o l \in Seq(S) /\ Len(k \o l) = Len(q) + Len(r)
        /\ \A i \in 1 .. (Len(q) + Len(r)) :
             (k \o l)[i] = IF i <= Len(q) THEN k[i] ELSE l[i - Len(q)]
    <3>1. k \in Seq(S) /\ l \in Seq(S)
      BY <1>4
    <3>2. /\ k \o l \in Seq(S) /\ Len(k \o l) = Len(k) + Len(l)
          /\ \A i \in 1 .. (Len(k) + Len(l)) :
               (k \o l)[i] = IF i <= Len(k) THEN k[i] ELSE l[i - Len(k)]
      BY <3>1, ConcatIs
    <3>3. Len(k) = Len(q) /\ Len(l) = Len(r)
      BY <1>4
    <3>4. QED
      BY <3>2, <3>3, Zenon
  <2>3. \A i \in 1 .. Len(q) : k[i] = q[i].ev
    BY <1>2, <2>1 DEF Kinds
  <2>4. \A i \in 1 .. Len(r) : l[i] = r[i].ev
    BY <1>3, <2>1 DEF Kinds
  <2>5. \A i \in 1 .. (Len(q) + Len(r)) :
          (q \o r)[i].ev = IF i <= Len(q) THEN k[i] ELSE l[i - Len(q)]
    <3>1. SUFFICES ASSUME NEW i \in 1 .. (Len(q) + Len(r))
                   PROVE  (q \o r)[i].ev = IF i <= Len(q) THEN k[i] ELSE l[i - Len(q)]
      OBVIOUS
    <3>2. CASE i <= Len(q)
      BY <2>1, <2>3, <3>2
    <3>3. CASE ~(i <= Len(q))
      BY <2>1, <2>4, <3>3
    <3>4. QED
      BY <3>2, <3>3
  <2>6. PICK t : t = Kinds(q \o r)
    OBVIOUS
  <2>7. t \in Seq(S) /\ Len(t) = Len(q) + Len(r)
    <3>1. q \o r \in Seq(Events) /\ Len(q \o r) = Len(q) + Len(r)
      BY ConcatIs
    <3>2. QED
      BY <1>1, <2>6, <3>1, KindsSeq
  <2>8. \A i \in 1 .. (Len(q) + Len(r)) : t[i] = (q \o r)[i].ev
    BY <2>1, <2>6 DEF Kinds
  <2>9. PICK j : j = k \o l
    OBVIOUS
  <2>10. \A i \in 1 .. (Len(q) + Len(r)) : t[i] = j[i]
    <3>1. \A i \in 1 .. (Len(q) + Len(r)) : j[i] = IF i <= Len(q) THEN k[i] ELSE l[i - Len(q)]
      BY <2>2, <2>9, Zenon
    <3>2. QED
      BY <2>5, <2>8, <3>1, Zenon
  <2>11. t = j
    <3>1. j \in Seq(S) /\ Len(j) = Len(q) + Len(r) /\ Len(q) + Len(r) \in Nat
      BY <2>2, <2>9
    <3>2. QED
      BY <2>7, <2>10, <3>1, SameSequence
  <2>12. QED
    BY <2>6, <2>9, <2>11
<1>7. QED
  BY <1>2, <1>4, <1>5, <1>6, CountConcat DEF Pointers

LEMMA PointersAppend ==
  ASSUME NEW q \in Seq(Events), NEW e \in Events
  PROVE  Pointers(Append(q, e)) = Pointers(q) + IF e.ev = "pointer" THEN 1 ELSE 0
<1>1. PICK S : S = {x.ev : x \in Events}
  OBVIOUS
<1>2. PICK k : k = Kinds(q)
  OBVIOUS
<1>3. k \in Seq(S) /\ Len(k) = Len(q) /\ e.ev \in S
  BY <1>1, <1>2, KindsSeq
<1>4. Kinds(Append(q, e)) = Append(k, e.ev)
  BY <1>2, <1>3 DEF Kinds
<1>5. QED
  BY <1>2, <1>3, <1>4, CountAppend DEF Pointers

LEMMA PointersResized ==
  ASSUME NEW q \in Seq(Events)
  PROVE  Pointers(WithoutReleases(q)) = Pointers(q)
<1>1. \A i \in DOMAIN q : WithoutReleases(q)[i].ev = q[i].ev
  BY DEF WithoutReleases, ReleaseOf
<1>2. DOMAIN WithoutReleases(q) = DOMAIN q
  BY DEF WithoutReleases
<1>3. Kinds(WithoutReleases(q)) = Kinds(q)
  BY <1>1, <1>2 DEF Kinds
<1>4. QED
  BY <1>3 DEF Pointers

(***************************************************************************)
(* The steps that serve connections.                                       *)
(***************************************************************************)
LEMMA AcceptCounts == TableInv /\ Accept => TableInv'
<1> SUFFICES ASSUME TableInv, Accept PROVE TableInv'
  OBVIOUS
<1>1. Head(backlog) \in Connections /\ Tail(backlog) \in Seq(Connections)
  BY HeadAndTail DEF TableInv, TableOK, Accept
<1>2. InboxOK' /\ pressed' \in BOOLEAN
  BY InboxKept DEF TableInv, Accept
<1>3. CASE EmptySlots = {}
  BY <1>1, <1>2, <1>3 DEF TableInv, TableOK, Accept, InUse
<1>4. CASE EmptySlots # {}
  <2> DEFINE slot == Min(EmptySlots)
  <2>1. slot \in Slots /\ fds[slot] = NoClient
    BY <1>4, SlotTaken
  <2>2. fds' = [fds EXCEPT ![slot] = Head(backlog)] /\ conn_nr' = conn_nr + 1
    BY <1>4 DEF Accept
  <2> HIDE DEF slot
  <2>3. Head(backlog) # NoClient
    BY <1>1, ServerAssumption DEF Connections
  <2>4. InUse(fds)' = InUse(fds) \cup {slot} /\ slot \notin InUse(fds)
    BY <2>1, <2>2, <2>3 DEF TableInv, TableOK, InUse
  <2>5. conn_nr' = Cardinality(InUse(fds)')
    BY <2>2, <2>4, SlotsFinite, FS_AddElement DEF TableInv, TableOK
  <2>6. fds' \in [Slots -> Connections \cup {NoClient}]
    BY <1>1, <2>2 DEF TableInv, TableOK
  <2>7. TableOK'
    BY <1>1, <2>5, <2>6 DEF TableInv, TableOK, Accept, InUse
  <2>8. QED
    BY <1>2, <2>7 DEF TableInv
<1>5. QED
  BY <1>3, <1>4

LEMMA DisconnectCounts == \A i \in Slots : TableInv /\ Disconnect(i) => TableInv'
<1> SUFFICES ASSUME NEW i \in Slots, TableInv, Disconnect(i) PROVE TableInv'
  OBVIOUS
<1>1. fds[i] \in Clients
  BY DEF TableInv, TableOK, Disconnect
<1>2. fds[i] # NoClient
  BY <1>1, ServerAssumption
<1>3. fds' = [fds EXCEPT ![i] = NoClient] /\ conn_nr' = conn_nr - 1
  BY DEF Disconnect
<1>4. InUse(fds)' = InUse(fds) \ {i} /\ i \in InUse(fds)
  BY <1>2, <1>3 DEF TableInv, TableOK, InUse
<1>5. conn_nr' = Cardinality(InUse(fds)')
  BY <1>3, <1>4, SlotsFinite, FS_RemoveElement DEF TableInv, TableOK
<1>6. TableOK'
  BY <1>3, <1>5 DEF TableInv, TableOK, Disconnect, InUse
<1>7. InboxOK'
  <2>1. PICK c \in Clients : c = fds[i]
    BY <1>1
  <2>2. inbox' = [inbox EXCEPT ![c] = 0] /\ UNCHANGED <<calls, wayland>>
    BY <2>1 DEF Disconnect
  <2>3. c # Window /\ Window \in Connections /\ Clients \subseteq Connections
    BY ServerAssumption DEF Connections
  <2>4. Pointers(wayland)' = Pointers(wayland)
    BY <2>2
  <2>5. QED
    BY <2>2, <2>3, <2>4 DEF TableInv, InboxOK
<1>8. QED
  BY <1>6, <1>7 DEF TableInv, Disconnect

LEMMA CommandCounts == \A i \in Slots : WindowInv /\ TableInv /\ Command(i) => TableInv'
<1> SUFFICES ASSUME NEW i \in Slots, WindowInv, TableInv, Command(i) PROVE TableInv'
  OBVIOUS
<1>1. TableOK'
  BY TableKept DEF TableInv, Command, table
<1>2. InboxOK'
  <2>1. PICK c \in Connections : c = fds[i]
    BY DEF Command
  <2>2. inbox[c] > 0 /\ inbox' = [inbox EXCEPT ![c] = @ - 1] /\ UNCHANGED <<calls, wayland>>
    BY <2>1 DEF Command
  <2>3. inbox' \in [Connections -> Nat] /\ \A d \in Connections : inbox'[d] <= inbox[d]
    BY <2>2 DEF TableInv, InboxOK
  <2>4. Window \in Connections /\ Clients \subseteq Connections
    BY DEF Connections
  <2>5. Pointers(wayland)' = Pointers(wayland) /\ Pointers(wayland) \in Nat
    BY <2>2, KindsSeq DEF WindowInv, QueuesOK
  <2>6. \A d \in Connections : inbox[d] \in Nat /\ inbox'[d] \in Nat
    BY <2>3 DEF TableInv, InboxOK
  <2>7. calls' = calls /\ calls \in 0 .. MaxCalls /\ MaxCalls \in Nat
    BY <2>2, ServerAssumption DEF TableInv, InboxOK
  <2>8. \A d \in Clients : inbox'[d] <= calls'
    BY <2>3, <2>4, <2>6, <2>7 DEF TableInv, InboxOK
  <2>9. inbox'[Window] + Pointers(wayland)' <= calls'
    BY <2>3, <2>4, <2>5, <2>6, <2>7 DEF TableInv, InboxOK
  <2>10. QED
    BY <2>3, <2>7, <2>8, <2>9 DEF InboxOK
<1>3. QED
  BY <1>1, <1>2 DEF TableInv, Command

(***************************************************************************)
(* The steps that serve the compositor's events.  Only pointer frames are  *)
(* taken from what users have done.                                        *)
(***************************************************************************)
LEMMA NoMorePointers ==
  ASSUME WindowInv, InboxOK, UNCHANGED <<inbox, calls>>,
         Pointers(wayland') <= Pointers(wayland), Pointers(wayland') \in Nat
  PROVE  InboxOK'
<1>1. PICK n \in Nat : n = Pointers(wayland')
  OBVIOUS
<1>2. PICK m \in Nat : m = Pointers(wayland)
  BY KindsSeq DEF WindowInv, QueuesOK
<1>3. inbox[Window] \in Nat /\ calls \in Nat
  BY ServerAssumption DEF InboxOK, Connections
<1>4. inbox'[Window] + Pointers(wayland)' <= calls'
  BY <1>1, <1>2, <1>3 DEF InboxOK
<1>5. QED
  BY <1>4 DEF InboxOK

LEMMA PointersServed ==
  ASSUME WindowInv, wayland # <<>>
  PROVE  /\ Tail(wayland) \in Seq(Events)
         /\ Pointers(wayland) \in Nat /\ Pointers(Tail(wayland)) \in Nat
         /\ Pointers(wayland) = Pointers(Tail(wayland))
                                  + IF Head(wayland).ev = "pointer" THEN 1 ELSE 0
<1>1. wayland \in Seq(Events) /\ Tail(wayland) \in Seq(Events)
  BY HeadAndTail DEF WindowInv, QueuesOK
<1>2. QED
  BY <1>1, KindsSeq, PointersTail

LEMMA EventCounts ==
  WindowInv /\ TableInv /\ (Draw \/ ToplevelConfigure \/ BufferRelease) => TableInv'
<1> SUFFICES ASSUME WindowInv, TableInv, Draw \/ ToplevelConfigure \/ BufferRelease
             PROVE  TableInv'
  OBVIOUS
<1>1. wayland # <<>> /\ UNCHANGED table /\ UNCHANGED <<inbox, pressed, calls>>
  BY DEF Draw, ToplevelConfigure, BufferRelease, table
<1>2. Pointers(wayland') <= Pointers(wayland) /\ Pointers(wayland') \in Nat
  <2>1. Pointers(Tail(wayland)) <= Pointers(wayland) /\ Pointers(Tail(wayland)) \in Nat
    BY <1>1, PointersServed
  <2>2. wayland' = Tail(wayland) \/ wayland' = WithoutReleases(Tail(wayland))
    BY DEF Draw, Redraw, Resized, ToplevelConfigure, BufferRelease
  <2>3. Pointers(WithoutReleases(Tail(wayland))) = Pointers(Tail(wayland))
    BY <1>1, PointersServed, PointersResized
  <2>4. QED
    BY <2>1, <2>2, <2>3
<1>3. InboxOK'
  BY <1>1, <1>2, NoMorePointers DEF TableInv
<1>4. QED
  BY <1>1, <1>3, TableKept DEF TableInv

LEMMA PointerCounts == WindowInv /\ TableInv /\ PointerFrame => TableInv'
<1> SUFFICES ASSUME WindowInv, TableInv, PointerFrame PROVE TableInv'
  OBVIOUS
<1>1. /\ wayland # <<>> /\ Head(wayland).ev = "pointer" /\ wayland' = Tail(wayland)
      /\ UNCHANGED table /\ calls' = calls
  BY DEF PointerFrame, table
<1>2. pressed' \in BOOLEAN
  <2>1. pressed' = (Head(wayland).button = "pressed"
                      \/ (Head(wayland).button = "none" /\ pressed))
    BY DEF PointerFrame
  <2>2. QED
    BY <2>1, Zenon
<1>3. inbox' = inbox \/ inbox' = [inbox EXCEPT ![Window] = @ + 1]
  BY DEF PointerFrame
<1>4. PICK n \in Nat : n = Pointers(wayland')
  BY <1>1, PointersServed
<1>5. Pointers(wayland) = n + 1
  BY <1>1, <1>4, PointersServed
<1>6. InboxOK'
  <2>1. Window \in Connections /\ Window \notin Clients /\ Clients \subseteq Connections
    BY ServerAssumption DEF Connections
  <2>2. inbox[Window] \in Nat /\ inbox[Window] + (n + 1) <= calls /\ calls \in Nat
    BY <1>5, <2>1, ServerAssumption DEF TableInv, InboxOK
  <2>3. inbox' \in [Connections -> Nat] /\ (\A c \in Clients : inbox'[c] = inbox[c])
        /\ inbox'[Window] \in {inbox[Window], inbox[Window] + 1}
    BY <1>3, <2>1, <2>2 DEF TableInv, InboxOK
  <2>4. inbox'[Window] + n <= calls'
    BY <1>1, <2>2, <2>3
  <2>5. \A c \in Clients : inbox'[c] <= calls'
    BY <1>1, <2>3 DEF TableInv, InboxOK
  <2>6. calls' \in 0 .. MaxCalls
    BY <1>1 DEF TableInv, InboxOK
  <2>7. QED
    BY <1>4, <2>3, <2>4, <2>5, <2>6 DEF InboxOK
<1>7. QED
  BY <1>1, <1>2, <1>6, TableKept DEF TableInv

(***************************************************************************)
(* What comes from outside is counted.                                     *)
(***************************************************************************)
LEMMA CountedGrows ==
  ASSUME InboxOK, Counted
  PROVE  calls' = calls + 1 /\ calls \in Nat /\ calls' \in 0 .. MaxCalls
  BY ServerAssumption DEF InboxOK, Counted

LEMMA OneMore ==
  ASSUME InboxOK, Counted, inbox' = inbox, NEW n \in Nat, n = Pointers(wayland'),
         NEW m \in Nat, m = Pointers(wayland), n <= m + 1
  PROVE  InboxOK'
<1>1. calls' = calls + 1 /\ calls \in Nat /\ calls' \in 0 .. MaxCalls
  BY CountedGrows
<1>2. inbox[Window] \in Nat /\ \A c \in Clients : inbox[c] \in Nat
  BY DEF InboxOK, Connections
<1>3. inbox'[Window] + n <= calls'
  BY <1>1, <1>2 DEF InboxOK
<1>4. \A c \in Clients : inbox'[c] <= calls'
  BY <1>1, <1>2 DEF InboxOK
<1>5. QED
  BY <1>1, <1>3, <1>4 DEF InboxOK

LEMMA ClientsCount ==
  \A c \in Clients : WindowInv /\ TableInv /\ (Connect(c) \/ SendCommand(c) \/ HangUp(c))
                       => TableInv'
<1> SUFFICES ASSUME NEW c \in Clients, WindowInv, TableInv,
                    Connect(c) \/ SendCommand(c) \/ HangUp(c)
             PROVE  TableInv'
  OBVIOUS
<1>1. Counted /\ wayland' = wayland /\ fds' = fds /\ conn_nr' = conn_nr /\ pressed' = pressed
  BY DEF Connect, SendCommand, HangUp
<1>2. TableOK'
  BY <1>1 DEF TableInv, TableOK, Connect, SendCommand, HangUp, InUse, Connections
<1>3. PICK n \in Nat : n = Pointers(wayland)
  BY KindsSeq DEF WindowInv, QueuesOK
<1>4. Pointers(wayland') = n
  BY <1>1, <1>3
<1>5. CASE inbox' = inbox
  <2>1. InboxOK'
    BY <1>1, <1>3, <1>4, <1>5, OneMore DEF TableInv
  <2>2. QED
    BY <1>1, <1>2, <2>1 DEF TableInv
<1>6. CASE inbox' = [inbox EXCEPT ![c] = @ + 1]
  <2>1. calls' = calls + 1 /\ calls \in Nat /\ calls' \in 0 .. MaxCalls
    BY <1>1, CountedGrows DEF TableInv
  <2>2. c # Window /\ Window \in Connections /\ Clients \subseteq Connections
    BY ServerAssumption DEF Connections
  <2>3. inbox' \in [Connections -> Nat] /\ inbox'[Window] = inbox[Window]
        /\ \A d \in Clients : inbox[d] \in Nat /\ inbox'[d] <= inbox[d] + 1
    BY <1>6, <2>2 DEF TableInv, InboxOK
  <2>4. \A d \in Clients : inbox'[d] \in Nat
    BY <2>2, <2>3
  <2>5. \A d \in Clients : inbox'[d] <= calls'
    BY <2>1, <2>3, <2>4 DEF TableInv, InboxOK
  <2>6. inbox[Window] \in Nat /\ inbox[Window] + n <= calls
    BY <1>3, <2>2 DEF TableInv, InboxOK
  <2>7. inbox'[Window] + n <= calls'
    BY <2>1, <2>3, <2>6
  <2>8. InboxOK'
    BY <1>4, <2>1, <2>3, <2>5, <2>7 DEF InboxOK
  <2>9. QED
    BY <1>1, <1>2, <2>8 DEF TableInv
<1>7. QED
  BY <1>5, <1>6 DEF Connect, SendCommand, HangUp

LEMMA SentCounts ==
  ASSUME WindowInv, TableInv, NEW events \in Seq(Events), Sent(events),
         Pointers(wayland \o events) <= Pointers(wayland) + 1
  PROVE  TableInv'
<1>1. Counted /\ wayland' = wayland \o events /\ inbox' = inbox /\ pressed' = pressed
      /\ UNCHANGED table
  BY DEF Sent, table
<1>2. PICK m \in Nat : m = Pointers(wayland)
  BY KindsSeq DEF WindowInv, QueuesOK
<1>3. wayland \o events \in Seq(Events)
  BY ConcatIs DEF WindowInv, QueuesOK
<1>4. PICK n \in Nat : n = Pointers(wayland \o events)
  BY <1>3, KindsSeq
<1>5. InboxOK'
  BY <1>1, <1>2, <1>4, OneMore DEF TableInv
<1>6. QED
  BY <1>1, <1>5, TableKept DEF TableInv

LEMMA OutsideCounts == WindowInv /\ TableInv /\ (Configure \/ Point) => TableInv'
<1> SUFFICES ASSUME WindowInv, TableInv, Configure \/ Point PROVE TableInv'
  OBVIOUS
<1> wayland \in Seq(Events)
  BY DEF WindowInv, QueuesOK
<1>1. PICK m \in Nat : m = Pointers(wayland)
  BY KindsSeq
<1>2. CASE Configure
  <2>1. PICK size \in AllSizes : Sent(<<[ev |-> "toplevel", size |-> size], Event("surface")>>)
    BY <1>2 DEF Configure
  <2>2. PICK events : events = <<[ev |-> "toplevel", size |-> size], Event("surface")>>
    OBVIOUS
  <2>3. events \in Seq(Events)
    BY <2>2, SomeEvents
  <2>4. \A i \in DOMAIN events : events[i].ev # "pointer"
    BY <2>2 DEF Event
  <2>5. Pointers(wayland \o events) = Pointers(wayland)
    BY <2>3, <2>4, PointersConcat
  <2>6. Pointers(wayland \o events) <= Pointers(wayland) + 1
    BY <1>1, <2>5
  <2>7. QED
    BY <2>1, <2>2, <2>3, <2>6, SentCounts
<1>3. CASE Point
  <2>1. PICK button \in Buttons, at \in Positions :
          Sent(<<[ev |-> "pointer", button |-> button, at |-> at]>>)
    BY <1>3 DEF Point
  <2>2. PICK e \in Events : e = [ev |-> "pointer", button |-> button, at |-> at]
    BY SomeEvents
  <2>3. <<e>> \in Seq(Events) /\ wayland \o <<e>> = Append(wayland, e)
    OBVIOUS
  <2>4. Pointers(wayland \o <<e>>) <= Pointers(wayland) + 1
    <3>1. Pointers(Append(wayland, e)) = m + 1
      BY <1>1, <2>2, PointersAppend
    <3>2. Pointers(wayland \o <<e>>) = m + 1
      BY <2>3, <3>1, Zenon
    <3>3. QED
      BY <1>1, <3>2
  <2>5. QED
    BY <2>1, <2>2, <2>3, <2>4, SentCounts
<1>4. QED
  BY <1>2, <1>3

LEMMA CompositorCounts == WindowInv /\ TableInv /\ Compositor => TableInv'
<1> SUFFICES ASSUME WindowInv, TableInv, Compositor PROVE TableInv'
  OBVIOUS
<1>1. UNCHANGED table /\ UNCHANGED <<inbox, pressed, calls>>
  BY DEF Compositor, CompositorTakes, CompositorRepaints, table
<1>2. wayland \in Seq(Events) /\ Pointers(wayland) \in Nat
  BY KindsSeq DEF WindowInv, QueuesOK
<1> PICK m \in Nat : m = Pointers(wayland)
  BY <1>2
<1>3. Pointers(wayland') = Pointers(wayland)
  <2>1. CASE CompositorTakes
    <3>1. PICK e \in Events : e = ReleaseOf(screen.half)
      <4>1. screen.half \in Halves \cup {Gone}
        BY DEF WindowInv, QueuesOK
      <4>2. QED
        BY <4>1, SomeEvents
    <3>2. wayland' = wayland \/ wayland' = Append(wayland, e)
      BY <2>1, <3>1 DEF CompositorTakes
    <3>3. e.ev # "pointer"
      BY <3>1 DEF ReleaseOf
    <3>4. Pointers(Append(wayland, e)) = m
      BY <1>2, <3>3, PointersAppend
    <3>5. QED
      BY <1>2, <3>2, <3>4
  <2>2. CASE CompositorRepaints
    <3>1. PICK done : done = [i \in 1 .. screen.callbacks |-> Event("done")]
      OBVIOUS
    <3>2. done \in Seq(Events)
      <4>1. Event("done") \in Events /\ screen.callbacks \in Nat
        BY SomeEvents DEF WindowInv, QueuesOK
      <4>2. QED
        BY <3>1, <4>1
    <3>3. \A i \in DOMAIN done : done[i].ev # "pointer"
      BY <3>1 DEF Event
    <3>4. wayland' = wayland \o done
      BY <2>2, <3>1, Zenon DEF CompositorRepaints
    <3>5. QED
      BY <1>2, <3>2, <3>3, <3>4, PointersConcat
  <2>3. QED
    BY <2>1, <2>2 DEF Compositor
<1>4. InboxOK'
  <2>1. Pointers(wayland') = m
    BY <1>3
  <2>2. QED
    BY <1>1, <2>1, NoMorePointers DEF TableInv
<1>5. QED
  BY <1>1, <1>4, TableKept DEF TableInv
-----------------------------------------------------------------------------
LEMMA TableInvInit == ServerInit => TableInv
<1> SUFFICES ASSUME ServerInit PROVE TableInv
  OBVIOUS
<1>1. away \subseteq Clients
  BY ServerAssumption DEF ServerInit
<1>2. backlog \in Seq(Connections)
  <2>1. PICK S : S = Clients \ away
    OBVIOUS
  <2>2. IsFiniteSet(S) /\ S \subseteq Connections
    BY <2>1, ServerAssumption, FS_Subset DEF Connections
  <2>3. PICK q : q = SetToSeq(S)
    OBVIOUS
  <2>4. q \in Seq(S)
    BY <2>2, <2>3, SomeOrder
  <2>5. q \in Seq(Connections) /\ Window \in Connections
    BY <2>2, <2>4 DEF Connections
  <2>6. backlog = Append(q, Window)
    BY <2>1, <2>3 DEF ServerInit
  <2>7. QED
    BY <2>5, <2>6
<1>3. fds \in [Slots -> Connections \cup {NoClient}] /\ InUse(fds) = {} /\ conn_nr = 0
  BY DEF ServerInit, InUse
<1>4. TableOK
  BY <1>1, <1>2, <1>3, FS_EmptySet DEF TableOK, ServerInit
<1>5. PICK size \in AllSizes :
        wayland = <<[ev |-> "toplevel", size |-> size], Event("surface")>>
  BY DEF ServerInit
<1>6. \A i \in DOMAIN wayland : wayland[i].ev # "pointer"
  BY <1>5 DEF Event
<1>7. Pointers(wayland) = 0
  <2>1. \A i \in DOMAIN wayland : Kinds(wayland)[i] # "pointer"
    BY <1>6 DEF Kinds
  <2>2. Places(Kinds(wayland), "pointer") = {}
    BY <2>1 DEF Places, Kinds
  <2>3. QED
    BY <2>2, FS_EmptySet DEF Pointers, Count
<1>8. InboxOK
  <2>1. inbox = [c \in Connections |-> 0] /\ calls = 0
    BY DEF ServerInit
  <2>2. Window \in Connections /\ Clients \subseteq Connections
    BY DEF Connections
  <2>3. QED
    BY <1>7, <2>1, <2>2, ServerAssumption DEF InboxOK
<1>9. QED
  BY <1>4, <1>8 DEF TableInv, ServerInit

LEMMA TableInvStep == WindowInv /\ TableInv /\ [ServerNext]_vars => TableInv'
<1> SUFFICES ASSUME WindowInv, TableInv, [ServerNext]_vars PROVE TableInv'
  OBVIOUS
<1>1. CASE Wayland
  BY <1>1, EventCounts, PointerCounts DEF Wayland
<1>2. CASE Compositor
  BY <1>2, CompositorCounts
<1>3. CASE Configure \/ Point
  BY <1>3, OutsideCounts
<1>4. CASE \E c \in Clients : Connect(c) \/ SendCommand(c) \/ HangUp(c)
  BY <1>4, ClientsCount
<1>5. CASE Accept \/ \E i \in Slots : Disconnect(i) \/ Command(i)
  BY <1>5, AcceptCounts, DisconnectCounts, CommandCounts
<1>6. CASE UNCHANGED vars
  <2>1. UNCHANGED table /\ UNCHANGED <<inbox, calls, wayland, pressed>>
    BY <1>6 DEF vars, table
  <2>2. QED
    BY <2>1, TableKept, InboxKept DEF TableInv
<1>7. QED
  BY <1>1, <1>2, <1>3, <1>4, <1>5, <1>6 DEF ServerNext, Outside

LEMMA TableInvTypes == WindowInv /\ TableInv => ServerTypeOK
<1> SUFFICES ASSUME WindowInv, TableInv PROVE ServerTypeOK
  OBVIOUS
<1>1. inbox \in [Connections -> 0 .. MaxCalls]
  <2>1. SUFFICES ASSUME NEW c \in Connections PROVE inbox[c] \in 0 .. MaxCalls
    BY DEF TableInv, InboxOK
  <2>2. inbox[c] \in Nat /\ calls \in 0 .. MaxCalls /\ MaxCalls \in Nat
    BY ServerAssumption DEF TableInv, InboxOK
  <2>3. inbox[c] <= calls
    <3>1. CASE c \in Clients
      BY <3>1 DEF TableInv, InboxOK
    <3>2. CASE c = Window
      <4>1. PICK n \in Nat : n = Pointers(wayland)
        BY KindsSeq DEF WindowInv, QueuesOK
      <4>2. inbox[c] + n <= calls
        BY <3>2, <4>1 DEF TableInv, InboxOK
      <4>3. QED
        BY <2>2, <4>1, <4>2
    <3>3. QED
      BY <3>1, <3>2 DEF Connections
  <2>4. QED
    BY <2>2, <2>3
<1>2. conn_nr = Cardinality({i \in Slots : fds[i] # NoClient})
  BY DEF TableInv, TableOK, InUse
<1>3. QED
  BY <1>1, <1>2 DEF WindowInv, QueuesOK, SizesOK, Sized, Framed, TableInv, TableOK, InboxOK,
                    ServerTypeOK

\* The types of the server for any table, and with them the count of its clients: conn_nr is the
\* number of slots in use whatever order accepts, hang-ups and connections beyond the table come
\* in, and a click stands for at most one command, however long the pointer event waited.
THEOREM ServerTypes == ServerSpec => []ServerTypeOK
<1>1. ServerInit => WindowInv /\ TableInv
  BY WindowInvInit, TableInvInit
<1>2. WindowInv /\ TableInv /\ [ServerNext]_vars => (WindowInv /\ TableInv)'
  BY WindowInvStep, TableInvStep
<1>3. QED
  BY <1>1, <1>2, TableInvTypes, PTL DEF ServerSpec
================================================================================
