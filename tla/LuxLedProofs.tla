------------------------------ MODULE LuxLedProofs ------------------------------
(***************************************************************************)
(* What is proved of LuxLed, for any number of LEDs, writers and callers   *)
(* and any capacity of the sockets: the types, and that the grid follows   *)
(* the register file.  An access appends its commands to those under way,  *)
(* and the grid they lead to changes as the registers did, LED by LED;     *)
(* what the server executes only moves a command from the one to the       *)
(* other.                                                                  *)
(***************************************************************************)
EXTENDS LuxLed, SequenceTheorems, WellFoundedInduction, TLAPS

(***************************************************************************)
(* What holds of 0 and passes from n to n + 1 holds of every n: there is   *)
(* no least counterexample.                                                *)
(***************************************************************************)
LEMMA FromZeroUp ==
  ASSUME NEW T, 0 \in T, \A n \in Nat : n \in T => n + 1 \in T
  PROVE  \A n \in Nat : n \in T
<1> DEFINE C == {n \in Nat : n \notin T}
           R == {ss \in Nat \X Nat : ss[1] < ss[2]}
<1>1. SUFFICES ASSUME C # {} PROVE FALSE
  OBVIOUS
<1>2. IsWellFoundedOn(R, Nat)
  BY NatLessThanWellFounded, Zenon DEF OpToRel
<1>3. \E n \in C : \A m \in C : <<m, n>> \notin R
  <2>1. C \subseteq Nat
    OBVIOUS
  <2> HIDE DEF C, R
  <2>2. QED
    BY <1>1, <1>2, <2>1, WFMin
<1>4. PICK n \in C : \A m \in C : <<m, n>> \notin R
  BY <1>3
<1>5. n - 1 \in Nat /\ n - 1 < n
  BY <1>4
<1>6. n - 1 \in T
  BY <1>4, <1>5
<1>7. QED
  BY <1>4, <1>5, <1>6

(***************************************************************************)
(* Executing a sequence of commands.                                       *)
(***************************************************************************)
Executes(after, leds, cs, n) ==
  after = [k \in 0 .. n |-> IF k = 0 THEN leds ELSE Execute(after[k - 1], cs[k])]

LEMMA ExecutionExists ==
  ASSUME NEW leds, NEW cs, NEW n \in Nat PROVE \E after : Executes(after, leds, cs, n)
<1> DEFINE T == {m \in Nat : \E after : Executes(after, leds, cs, m)}
<1>1. 0 \in T
  <2>1. Executes([k \in 0 .. 0 |-> leds], leds, cs, 0)
    BY DEF Executes
  <2>2. QED
    BY <2>1
<1>2. ASSUME NEW m \in Nat, m \in T PROVE m + 1 \in T
  <2>1. PICK after : Executes(after, leds, cs, m)
    BY <1>2
  <2>2. PICK further : further = [k \in 0 .. (m + 1) |->
                         IF k = m + 1 THEN Execute(after[m], cs[m + 1]) ELSE after[k]]
    OBVIOUS
  <2>3. ASSUME NEW k \in 0 .. (m + 1)
        PROVE  further[k] = IF k = 0 THEN leds ELSE Execute(further[k - 1], cs[k])
    <3>1. CASE k = m + 1
      BY <2>2, <3>1
    <3>2. CASE k \in 0 .. m
      <4>1. further[k] = after[k] /\ k - 1 # m /\ (k # 0 => further[k - 1] = after[k - 1])
        BY <2>2, <3>2
      <4>2. QED
        BY <2>1, <3>2, <4>1 DEF Executes
    <3>3. QED
      BY <3>1, <3>2
  <2>4. Executes(further, leds, cs, m + 1)
    BY <2>2, <2>3 DEF Executes
  <2>5. QED
    BY <2>4
<1>3. n \in T
  <2> HIDE DEF T
  <2> QED
    BY <1>1, <1>2, FromZeroUp
<1>4. QED
  BY <1>3

LEMMA ExecutedIs ==
  ASSUME NEW leds, NEW cs, Len(cs) \in Nat
  PROVE  \E after : /\ Executes(after, leds, cs, Len(cs))
                    /\ Executed(leds, cs) = after[Len(cs)]
<1> DEFINE f == CHOOSE after : Executes(after, leds, cs, Len(cs))
<1>1. Executes(f, leds, cs, Len(cs))
  BY ExecutionExists
<1>2. Executed(leds, cs) = f[Len(cs)]
  BY DEF Executed, Executes
<1>3. QED
  BY <1>1, <1>2

\* Two executions go through the same grids as long as their commands are the same.
SameUpTo(cs, ds, m) == \A i \in 1 .. m : cs[i] = ds[i]

LEMMA ExecutedPrefix ==
  ASSUME NEW leds, NEW a, NEW b, NEW cs, NEW ds, NEW m \in Nat, NEW n \in Nat, m <= n,
         Executes(a, leds, cs, m), Executes(b, leds, ds, n), SameUpTo(cs, ds, m)
  PROVE  a[m] = b[m]
<1> DEFINE T == {k \in Nat : k <= m => a[k] = b[k]}
<1>1. 0 \in T
  <2>1. 0 \in 0 .. m /\ 0 \in 0 .. n
    OBVIOUS
  <2>2. a[0] = leds /\ b[0] = leds
    BY <2>1 DEF Executes
  <2>3. QED
    BY <2>2
<1>2. ASSUME NEW k \in Nat, k \in T PROVE k + 1 \in T
  <2>1. SUFFICES ASSUME k + 1 <= m PROVE a[k + 1] = b[k + 1]
    OBVIOUS
  <2>2. k + 1 \in 0 .. m /\ k + 1 \in 0 .. n /\ k + 1 \in 1 .. m /\ (k + 1) - 1 = k /\ k + 1 # 0
    BY <2>1
  <2>3. a[k + 1] = Execute(a[k], cs[k + 1])
    BY <2>2 DEF Executes
  <2>4. b[k + 1] = Execute(b[k], ds[k + 1])
    BY <2>2 DEF Executes
  <2>5. QED
    BY <1>2, <2>1, <2>2, <2>3, <2>4 DEF SameUpTo
<1>3. m \in T
  <2> HIDE DEF T
  <2> QED
    BY <1>1, <1>2, FromZeroUp
<1>4. QED
  BY <1>3

\* Commands appended to those under way find the grid that these lead to.
LEMMA ExecutedAppended ==
  ASSUME NEW leds, NEW cs \in Seq(Commands), NEW ds \in Seq(Commands)
  PROVE  Executed(leds, cs \o ds) = Executed(Executed(leds, cs), ds)
<1>1. PICK a : Executes(a, leds, cs, Len(cs)) /\ Executed(leds, cs) = a[Len(cs)]
  BY ExecutedIs
<1>2. PICK b : /\ Executes(b, a[Len(cs)], ds, Len(ds))
               /\ Executed(a[Len(cs)], ds) = b[Len(ds)]
  BY ExecutedIs
<1>3. PICK es : es = cs \o ds
  OBVIOUS
<1>4. /\ Len(es) \in Nat /\ Len(es) = Len(cs) + Len(ds)
      /\ \A i \in 1 .. Len(cs) : cs[i] = es[i]
      /\ \A i \in 1 .. Len(ds) : ds[i] = es[Len(cs) + i]
  BY <1>3
<1>5. PICK c : Executes(c, leds, es, Len(es)) /\ Executed(leds, es) = c[Len(es)]
  BY <1>4, ExecutedIs
<1>6. a[Len(cs)] = c[Len(cs)]
  <2>1. Len(cs) \in Nat /\ Len(es) \in Nat /\ Len(cs) <= Len(es)
    BY <1>4
  <2>2. SameUpTo(cs, es, Len(cs))
    BY <1>4 DEF SameUpTo
  <2>3. QED
    BY <1>1, <1>5, <2>1, <2>2, ExecutedPrefix
<1> DEFINE T == {k \in Nat : k <= Len(ds) => c[Len(cs) + k] = b[k]}
<1>7. 0 \in T
  <2>1. b[0] = a[Len(cs)]
    BY <1>2 DEF Executes
  <2>2. QED
    BY <1>6, <2>1
<1>8. ASSUME NEW k \in Nat, k \in T PROVE k + 1 \in T
  <2>1. SUFFICES ASSUME k + 1 <= Len(ds) PROVE c[Len(cs) + (k + 1)] = b[k + 1]
    OBVIOUS
  <2>2. b[k + 1] = Execute(b[k], ds[k + 1])
    BY <1>2, <2>1 DEF Executes
  <2>3. PICK n : n = Len(cs) + (k + 1)
    OBVIOUS
  <2>4. n \in 0 .. Len(es) /\ n # 0 /\ n - 1 = Len(cs) + k
    BY <1>4, <2>1, <2>3
  <2>5. c[n] = Execute(c[n - 1], es[n])
    BY <1>5, <2>4 DEF Executes
  <2>6. es[n] = ds[k + 1]
    BY <1>4, <2>1, <2>3
  <2>7. QED
    BY <1>8, <2>1, <2>2, <2>3, <2>4, <2>5, <2>6
<1>9. Len(ds) \in T
  <2> HIDE DEF T
  <2> QED
    BY <1>7, <1>8, FromZeroUp
<1>10. QED
  BY <1>1, <1>2, <1>3, <1>4, <1>5, <1>9

LEMMA OneExecuted ==
  ASSUME NEW leds, NEW c PROVE Executed(leds, <<c>>) = Execute(leds, c)
<1>1. PICK a : Executes(a, leds, <<c>>, 1) /\ Executed(leds, <<c>>) = a[1]
  BY ExecutedIs
<1>2. a[0] = leds /\ a[1] = Execute(a[0], c)
  BY <1>1 DEF Executes
<1>3. QED
  BY <1>1, <1>2

\* The server takes the first command.
LEMMA HeadExecuted ==
  ASSUME NEW leds, NEW cs \in Seq(Commands), cs # <<>>
  PROVE  Executed(Execute(leds, Head(cs)), Tail(cs)) = Executed(leds, cs)
<1>1. Head(cs) \in Commands /\ <<Head(cs)>> \in Seq(Commands) /\ Tail(cs) \in Seq(Commands)
  OBVIOUS
<1>2. cs = <<Head(cs)>> \o Tail(cs)
  OBVIOUS
<1>3. Executed(leds, <<Head(cs)>> \o Tail(cs)) = Executed(Executed(leds, <<Head(cs)>>), Tail(cs))
  BY <1>1, ExecutedAppended
<1>4. Executed(leds, <<Head(cs)>>) = Execute(leds, Head(cs))
  BY OneExecuted
<1>5. QED
  BY <1>2, <1>3, <1>4

(***************************************************************************)
(* What commands do to one LED.                                            *)
(***************************************************************************)
Grids == [Leds -> [on : BOOLEAN, color : Colors]]

\* One of the first n commands is the command cmd to the LED l.
Names(cs, n, cmd, l) == \E i \in 1 .. n : cs[i].cmd = cmd /\ cs[i].led = l

\* A function with one value replaced.
LEMMA Replaced ==
  ASSUME NEW D, NEW E, NEW f \in [D -> E], NEW d \in D, NEW e \in E,
         NEW g, g = [f EXCEPT ![d] = e]
  PROVE  g \in [D -> E] /\ g[d] = e /\ \A x \in D : x # d => g[x] = f[x]
OBVIOUS

LEMMA Executing ==
  ASSUME NEW leds \in Grids, NEW c \in Commands
  PROVE  /\ Execute(leds, c) \in Grids
         /\ \A l \in Leds :
              /\ Execute(leds, c)[l].on
                   = IF c.led = l /\ c.cmd = "CMD_ON" THEN TRUE
                     ELSE IF c.led = l /\ c.cmd = "CMD_OFF" THEN FALSE ELSE leds[l].on
              /\ Execute(leds, c)[l].color
                   = IF c.led = l /\ c.cmd = "CMD_SET_COLOR" THEN c.color ELSE leds[l].color
<1>1. c.cmd \in {"CMD_ON", "CMD_OFF", "CMD_SET_COLOR"} /\ c.led \in Leds /\ c.color \in Colors
  BY DEF Commands
<1>2. PICK r : r = leds[c.led]
  OBVIOUS
<1>3. r \in [on : BOOLEAN, color : Colors]
  BY <1>1, <1>2 DEF Grids
<1>4. PICK E : E = [on : BOOLEAN, color : Colors]
  OBVIOUS
<1>5. leds \in [Leds -> E] /\ Grids = [Leds -> E]
  BY <1>4 DEF Grids
<1>6. CASE c.cmd = "CMD_ON"
  <2>1. Execute(leds, c) = [leds EXCEPT ![c.led].on = TRUE]
    BY <1>6 DEF Execute
  <2>2. PICK e : e = [r EXCEPT !.on = TRUE]
    OBVIOUS
  <2>3. e \in E
    BY <1>1, <1>3, <1>4, <2>2
  <2>4. e.on = TRUE /\ e.color = r.color
    BY <1>3, <2>2, Zenon
  <2>5. PICK g : g = Execute(leds, c)
    OBVIOUS
  <2>6. g = [leds EXCEPT ![c.led] = e]
    BY <1>2, <2>1, <2>2, <2>5
  <2>7. g \in Grids /\ g[c.led] = e /\ \A l \in Leds : l # c.led => g[l] = leds[l]
    BY <1>1, <1>5, <2>3, <2>6, Replaced
  <2>8. g[c.led] = e
    BY <2>7
  <2>9. g[c.led].on = TRUE /\ g[c.led].color = leds[c.led].color
    BY <1>2, <2>4, <2>8
  <2>10. QED
    BY <1>6, <2>5, <2>7, <2>9
<1>7. CASE c.cmd = "CMD_OFF"
  <2>1. Execute(leds, c) = [leds EXCEPT ![c.led].on = FALSE]
    BY <1>7 DEF Execute
  <2>2. PICK e : e = [r EXCEPT !.on = FALSE]
    OBVIOUS
  <2>3. e \in E
    BY <1>1, <1>3, <1>4, <2>2
  <2>4. e.on = FALSE /\ e.color = r.color
    BY <1>3, <2>2, Zenon
  <2>5. PICK g : g = Execute(leds, c)
    OBVIOUS
  <2>6. g = [leds EXCEPT ![c.led] = e]
    BY <1>2, <2>1, <2>2, <2>5
  <2>7. g \in Grids /\ g[c.led] = e /\ \A l \in Leds : l # c.led => g[l] = leds[l]
    BY <1>1, <1>5, <2>3, <2>6, Replaced
  <2>8. g[c.led] = e
    BY <2>7
  <2>9. g[c.led].on = FALSE /\ g[c.led].color = leds[c.led].color
    BY <1>2, <2>4, <2>8
  <2>10. QED
    BY <1>7, <2>5, <2>7, <2>9
<1>8. CASE c.cmd = "CMD_SET_COLOR"
  <2>1. Execute(leds, c) = [leds EXCEPT ![c.led].color = c.color]
    BY <1>8 DEF Execute
  <2>2. PICK e : e = [r EXCEPT !.color = c.color]
    OBVIOUS
  <2>3. e \in E
    BY <1>1, <1>3, <1>4, <2>2
  <2>4. e.color = c.color /\ e.on = r.on
    BY <1>3, <2>2, Zenon
  <2>5. PICK g : g = Execute(leds, c)
    OBVIOUS
  <2>6. g = [leds EXCEPT ![c.led] = e]
    BY <1>2, <2>1, <2>2, <2>5
  <2>7. g \in Grids /\ g[c.led] = e /\ \A l \in Leds : l # c.led => g[l] = leds[l]
    BY <1>1, <1>5, <2>3, <2>6, Replaced
  <2>8. g[c.led] = e
    BY <2>7
  <2>9. g[c.led].color = c.color /\ g[c.led].on = leds[c.led].on
    BY <1>2, <2>4, <2>8
  <2>10. QED
    BY <1>8, <2>5, <2>7, <2>9
<1>9. QED
  BY <1>1, <1>6, <1>7, <1>8

\* What the first n commands cs make of the LED l of `leds`, if they agree about it.
Shows(g, leds, cs, n, l) ==
  /\ Names(cs, n, "CMD_ON", l) => g[l].on
  /\ Names(cs, n, "CMD_OFF", l) => ~ g[l].on
  /\ ~ Names(cs, n, "CMD_ON", l) /\ ~ Names(cs, n, "CMD_OFF", l) => g[l].on = leds[l].on

Colored(g, leds, cs, n, l, color) ==
  /\ Names(cs, n, "CMD_SET_COLOR", l) => g[l].color = color
  /\ ~ Names(cs, n, "CMD_SET_COLOR", l) => g[l].color = leds[l].color

LEMMA OneMore ==
  ASSUME NEW cs, NEW n \in Nat, NEW cmd, NEW l
  PROVE  Names(cs, n + 1, cmd, l)
           <=> Names(cs, n, cmd, l) \/ (cs[n + 1].cmd = cmd /\ cs[n + 1].led = l)
BY DEF Names

LEMMA ExecutedTypes ==
  ASSUME NEW leds \in Grids, NEW cs \in Seq(Commands), NEW after,
         Executes(after, leds, cs, Len(cs))
  PROVE  \A k \in 0 .. Len(cs) : after[k] \in Grids
<1> DEFINE T == {k \in Nat : k <= Len(cs) => after[k] \in Grids}
<1>1. 0 \in T
  BY DEF Executes
<1>2. ASSUME NEW k \in Nat, k \in T PROVE k + 1 \in T
  <2>1. SUFFICES ASSUME k + 1 <= Len(cs) PROVE after[k + 1] \in Grids
    OBVIOUS
  <2>2. after[k] \in Grids /\ cs[k + 1] \in Commands
    BY <1>2, <2>1
  <2>3. after[k + 1] = Execute(after[k], cs[k + 1])
    BY <2>1 DEF Executes
  <2>4. QED
    BY <2>2, <2>3, Executing
<1>3. \A k \in Nat : k \in T
  <2> HIDE DEF T
  <2> QED
    BY <1>1, <1>2, FromZeroUp
<1>4. QED
  BY <1>3

LEMMA ExecutedShows ==
  ASSUME NEW leds \in Grids, NEW cs \in Seq(Commands), NEW l \in Leds, NEW color,
         ~ (Names(cs, Len(cs), "CMD_ON", l) /\ Names(cs, Len(cs), "CMD_OFF", l)),
         \A i \in 1 .. Len(cs) : cs[i].cmd = "CMD_SET_COLOR" /\ cs[i].led = l
                                   => cs[i].color = color
  PROVE  /\ Executed(leds, cs) \in Grids
         /\ Shows(Executed(leds, cs), leds, cs, Len(cs), l)
         /\ Colored(Executed(leds, cs), leds, cs, Len(cs), l, color)
<1>1. PICK a : Executes(a, leds, cs, Len(cs)) /\ Executed(leds, cs) = a[Len(cs)]
  BY ExecutedIs
<1>2. \A k \in 0 .. Len(cs) : a[k] \in Grids
  BY <1>1, ExecutedTypes
<1> DEFINE T == {k \in Nat : k <= Len(cs) => /\ Shows(a[k], leds, cs, k, l)
                                             /\ Colored(a[k], leds, cs, k, l, color)}
<1>3. 0 \in T
  <2>1. a[0] = leds
    BY <1>1 DEF Executes
  <2>2. \A cmd : ~ Names(cs, 0, cmd, l)
    BY DEF Names
  <2>3. QED
    BY <2>1, <2>2 DEF Shows, Colored
<1>4. ASSUME NEW k \in Nat, k \in T PROVE k + 1 \in T
  <2>1. SUFFICES ASSUME k + 1 <= Len(cs)
                 PROVE  /\ Shows(a[k + 1], leds, cs, k + 1, l)
                        /\ Colored(a[k + 1], leds, cs, k + 1, l, color)
    OBVIOUS
  <2>2. PICK c \in Commands : c = cs[k + 1]
    BY <2>1
  <2>3. PICK g \in Grids : g = a[k]
    BY <1>2, <2>1
  <2>4. PICK h : h = a[k + 1]
    OBVIOUS
  <2>5. h = Execute(g, c)
    <3>1. a[k + 1] = Execute(a[k], cs[k + 1])
      BY <1>1, <2>1 DEF Executes
    <3>2. QED
      BY <2>2, <2>3, <2>4, <3>1
  <2>6. Shows(g, leds, cs, k, l) /\ Colored(g, leds, cs, k, l, color)
    BY <1>4, <2>1, <2>3
  <2>7. \A cmd : Names(cs, k + 1, cmd, l)
                   <=> Names(cs, k, cmd, l) \/ (c.cmd = cmd /\ c.led = l)
    BY <2>2, OneMore
  <2>8. ~ (Names(cs, k + 1, "CMD_ON", l) /\ Names(cs, k + 1, "CMD_OFF", l))
    BY <2>1 DEF Names
  <2>9. Shows(h, leds, cs, k + 1, l)
    <3>1. h[l].on = IF c.led = l /\ c.cmd = "CMD_ON" THEN TRUE
                    ELSE IF c.led = l /\ c.cmd = "CMD_OFF" THEN FALSE ELSE g[l].on
      BY <2>5, Executing
    <3>2. QED
      BY <2>6, <2>7, <2>8, <3>1 DEF Shows
  <2>10. Colored(h, leds, cs, k + 1, l, color)
    <3>1. h[l].color = IF c.led = l /\ c.cmd = "CMD_SET_COLOR" THEN c.color ELSE g[l].color
      BY <2>5, Executing
    <3>2. c.led = l /\ c.cmd = "CMD_SET_COLOR" => c.color = color
      BY <2>1, <2>2
    <3>3. QED
      BY <2>6, <2>7, <3>1, <3>2 DEF Colored
  <2>11. QED
    BY <2>4, <2>9, <2>10
<1>5. Len(cs) \in T
  <2> HIDE DEF T
  <2> QED
    BY <1>3, <1>4, FromZeroUp
<1>6. QED
  BY <1>1, <1>2, <1>5

\* A command to one LED is nothing to another, and a click neither.
LEMMA ExecutedApart ==
  ASSUME NEW leds \in Grids, NEW other \in Grids, NEW cs \in Seq(Commands), NEW l \in Leds,
         leds[l] = other[l]
  PROVE  Executed(leds, cs)[l] = Executed(other, cs)[l]
<1>1. PICK a : Executes(a, leds, cs, Len(cs)) /\ Executed(leds, cs) = a[Len(cs)]
  BY ExecutedIs
<1>2. PICK b : Executes(b, other, cs, Len(cs)) /\ Executed(other, cs) = b[Len(cs)]
  BY ExecutedIs
<1>3. \A k \in 0 .. Len(cs) : a[k] \in Grids /\ b[k] \in Grids
  BY <1>1, <1>2, ExecutedTypes
<1> DEFINE T == {k \in Nat : k <= Len(cs) => a[k][l] = b[k][l]}
<1>4. 0 \in T
  BY <1>1, <1>2 DEF Executes
<1>5. ASSUME NEW k \in Nat, k \in T PROVE k + 1 \in T
  <2>1. SUFFICES ASSUME k + 1 <= Len(cs) PROVE a[k + 1][l] = b[k + 1][l]
    OBVIOUS
  <2>2. PICK c \in Commands : c = cs[k + 1]
    BY <2>1
  <2>3. PICK g \in Grids, h \in Grids : g = a[k] /\ h = b[k]
    BY <1>3, <2>1
  <2>4. a[k + 1] = Execute(g, c) /\ b[k + 1] = Execute(h, c)
    <3>1. a[k + 1] = Execute(a[k], cs[k + 1])
      BY <1>1, <2>1 DEF Executes
    <3>2. b[k + 1] = Execute(b[k], cs[k + 1])
      BY <1>2, <2>1 DEF Executes
    <3>3. QED
      BY <2>2, <2>3, <3>1, <3>2
  <2>5. g[l] = h[l]
    BY <1>5, <2>1, <2>3
  <2>6. PICK x, y : x = Execute(g, c) /\ y = Execute(h, c)
    OBVIOUS
  <2>7. x \in Grids /\ y \in Grids
    BY <2>6, Executing
  <2>8. /\ x[l].on = IF c.led = l /\ c.cmd = "CMD_ON" THEN TRUE
                    ELSE IF c.led = l /\ c.cmd = "CMD_OFF" THEN FALSE ELSE g[l].on
        /\ x[l].color = IF c.led = l /\ c.cmd = "CMD_SET_COLOR" THEN c.color ELSE g[l].color
    BY <2>6, Executing
  <2>9. /\ y[l].on = IF c.led = l /\ c.cmd = "CMD_ON" THEN TRUE
                    ELSE IF c.led = l /\ c.cmd = "CMD_OFF" THEN FALSE ELSE h[l].on
        /\ y[l].color = IF c.led = l /\ c.cmd = "CMD_SET_COLOR" THEN c.color ELSE h[l].color
    BY <2>6, Executing
  <2>10. x[l].on = y[l].on /\ x[l].color = y[l].color
    BY <2>5, <2>8, <2>9
  <2>11. x[l] \in [on : BOOLEAN, color : Colors] /\ y[l] \in [on : BOOLEAN, color : Colors]
    BY <2>7 DEF Grids
  <2>12. x[l] = y[l]
    BY <2>10, <2>11
  <2>13. QED
    BY <2>4, <2>6, <2>12
<1>6. Len(cs) \in T
  <2> HIDE DEF T
  <2> QED
    BY <1>4, <1>5, FromZeroUp
<1>7. QED
  BY <1>1, <1>2, <1>6
(***************************************************************************)
(* What an access sends: CommandsTo has one command to each LED of a set   *)
(* and no other; the commands of an access say what becomes of the         *)
(* registers.                                                              *)
(***************************************************************************)
Loops(upTo, cmd, leds, n) ==
  upTo = [k \in 0 .. n |->
            IF k = 0 THEN <<>>
            ELSE IF k - 1 \in leds
                 THEN Append(upTo[k - 1], [cmd |-> cmd, led |-> k - 1, color |-> 0])
                 ELSE upTo[k - 1]]

LEMMA LoopExists ==
  ASSUME NEW cmd, NEW leds, NEW n \in Nat PROVE \E upTo : Loops(upTo, cmd, leds, n)
<1> DEFINE T == {m \in Nat : \E upTo : Loops(upTo, cmd, leds, m)}
<1>1. 0 \in T
  <2>1. Loops([k \in 0 .. 0 |-> <<>>], cmd, leds, 0)
    BY DEF Loops
  <2>2. QED
    BY <2>1
<1>2. ASSUME NEW m \in Nat, m \in T PROVE m + 1 \in T
  <2>1. PICK upTo : Loops(upTo, cmd, leds, m)
    BY <1>2
  <2>2. PICK last : last = IF m \in leds
                           THEN Append(upTo[m], [cmd |-> cmd, led |-> m, color |-> 0])
                           ELSE upTo[m]
    OBVIOUS
  <2>3. PICK further : further = [k \in 0 .. (m + 1) |-> IF k = m + 1 THEN last ELSE upTo[k]]
    OBVIOUS
  <2>4. ASSUME NEW k \in 0 .. (m + 1)
        PROVE  further[k] = IF k = 0 THEN <<>>
                            ELSE IF k - 1 \in leds
                            THEN Append(further[k - 1], [cmd |-> cmd, led |-> k - 1, color |-> 0])
                            ELSE further[k - 1]
    <3>1. CASE k = m + 1
      <4>1. further[k] = last /\ k - 1 = m /\ further[k - 1] = upTo[m] /\ k # 0
        BY <2>3, <3>1
      <4>2. QED
        BY <2>2, <4>1
    <3>2. CASE k \in 0 .. m
      <4>1. further[k] = upTo[k] /\ k - 1 # m /\ (k # 0 => further[k - 1] = upTo[k - 1])
        BY <2>3, <3>2
      <4>2. QED
        BY <2>1, <3>2, <4>1 DEF Loops
    <3>3. QED
      BY <3>1, <3>2
  <2>5. Loops(further, cmd, leds, m + 1)
    BY <2>3, <2>4 DEF Loops
  <2>6. QED
    BY <2>5
<1>3. n \in T
  <2> HIDE DEF T
  <2> QED
    BY <1>1, <1>2, FromZeroUp
<1>4. QED
  BY <1>3

\* The commands to the LEDs of a set, each of them cmd.
ExactlyTo(sent, cmd, leds) ==
  /\ sent \in Seq(Commands)
  /\ \A i \in 1 .. Len(sent) : sent[i].cmd = cmd /\ sent[i].led \in leds
  /\ \A l \in leds : Names(sent, Len(sent), cmd, l)

Below(leds, n) == {l \in leds : l < n}

LEMMA BelowIs ==
  ASSUME NEW leds \in SUBSET Leds
  PROVE  /\ Below(leds, 0) = {} /\ Below(leds, LED_NR) = leds
         /\ \A k \in Nat :
              Below(leds, k + 1) = IF k \in leds THEN Below(leds, k) \cup {k} ELSE Below(leds, k)
<1>1. LED_NR \in Nat
  BY LedAssumption
<1>2. \A l \in leds : l \in Nat /\ l < LED_NR
  BY <1>1 DEF Leds
<1>3. Below(leds, 0) = {} /\ Below(leds, LED_NR) = leds
  BY <1>1, <1>2 DEF Below
<1>4. ASSUME NEW k \in Nat
      PROVE  Below(leds, k + 1) = IF k \in leds THEN Below(leds, k) \cup {k} ELSE Below(leds, k)
  <2>1. \A l \in leds : l < k + 1 <=> l < k \/ l = k
    BY <1>2
  <2>2. QED
    BY <2>1 DEF Below
<1>5. QED
  BY <1>3, <1>4

LEMMA CommandsToAre ==
  ASSUME NEW leds \in SUBSET Leds, NEW cmd \in {"CMD_ON", "CMD_OFF"}
  PROVE  ExactlyTo(CommandsTo(cmd, leds), cmd, leds)
<1> DEFINE f == CHOOSE upTo : Loops(upTo, cmd, leds, LED_NR)
<1>1. LED_NR \in Nat /\ 0 \in Colors
  BY LedAssumption
<1>2. Loops(f, cmd, leds, LED_NR)
  BY <1>1, LoopExists
<1>3. CommandsTo(cmd, leds) = f[LED_NR]
  BY DEF CommandsTo, Loops
<1>4. PICK u : u = f
  OBVIOUS
<1> HIDE DEF f
<1> DEFINE T == {k \in Nat : k <= LED_NR => ExactlyTo(u[k], cmd, Below(leds, k))}
<1>5. 0 \in T
  <2>1. u[0] = <<>>
    BY <1>1, <1>2, <1>4 DEF Loops
  <2>2. Below(leds, 0) = {}
    BY BelowIs
  <2>3. ExactlyTo(<<>>, cmd, {})
    BY DEF ExactlyTo
  <2>4. QED
    BY <2>1, <2>2, <2>3
<1>6. ASSUME NEW k \in Nat, k \in T PROVE k + 1 \in T
  <2>1. SUFFICES ASSUME k + 1 <= LED_NR
                 PROVE  ExactlyTo(u[k + 1], cmd, Below(leds, k + 1))
    OBVIOUS
  <2>2. PICK s : s = u[k]
    OBVIOUS
  <2>3. PICK before : before = Below(leds, k)
    OBVIOUS
  <2>4. ExactlyTo(s, cmd, before)
    BY <1>1, <1>6, <2>1, <2>2, <2>3
  <2>5. PICK c : c = [cmd |-> cmd, led |-> k, color |-> 0]
    OBVIOUS
  <2>6. c.cmd = cmd /\ c.led = k
    BY <2>5
  <2>7. u[k + 1] = IF k \in leds THEN Append(s, c) ELSE s
    <3>1. k + 1 \in 0 .. LED_NR /\ k + 1 # 0 /\ (k + 1) - 1 = k
      BY <1>1, <2>1
    <3>2. QED
      BY <1>2, <1>4, <2>2, <2>5, <3>1 DEF Loops
  <2>8. CASE k \notin leds
    <3>1. Below(leds, k + 1) = Below(leds, k)
      BY <2>8, BelowIs
    <3>2. QED
      BY <2>3, <2>4, <2>7, <2>8, <3>1
  <2>9. CASE k \in leds
    <3>1. PICK after : after = Below(leds, k + 1)
      OBVIOUS
    <3>2. before \subseteq after /\ k \in after /\ \A l \in after : l = k \/ l \in before
      <4>1. Below(leds, k + 1) = Below(leds, k) \cup {k}
        BY <2>9, BelowIs
      <4>2. QED
        BY <2>3, <3>1, <4>1
    <3>3. c \in Commands
      BY <1>1, <2>5, <2>9 DEF Commands
    <3>4. PICK t : t = Append(s, c)
      OBVIOUS
    <3>5. /\ t \in Seq(Commands) /\ Len(t) = Len(s) + 1 /\ t[Len(s) + 1] = c /\ Len(s) \in Nat
          /\ \A i \in 1 .. Len(s) : t[i] = s[i]
      BY <2>4, <3>3, <3>4 DEF ExactlyTo
    <3>6. \A i \in 1 .. Len(t) : i \in 1 .. Len(s) \/ i = Len(s) + 1
      BY <3>5
    <3>7. \A i \in 1 .. Len(t) : t[i].cmd = cmd /\ t[i].led \in after
      BY <2>4, <2>6, <3>2, <3>5, <3>6 DEF ExactlyTo
    <3>8. ASSUME NEW l \in after PROVE Names(t, Len(t), cmd, l)
      <4>1. CASE l = k
        BY <2>6, <3>5, <4>1 DEF Names
      <4>2. CASE l \in before
        <5>1. PICK i \in 1 .. Len(s) : s[i].cmd = cmd /\ s[i].led = l
          BY <2>4, <4>2 DEF ExactlyTo, Names
        <5>2. i \in 1 .. Len(t) /\ t[i] = s[i]
          BY <3>5
        <5>3. QED
          BY <5>1, <5>2 DEF Names
      <4>3. QED
        BY <3>2, <4>1, <4>2
    <3>9. ExactlyTo(t, cmd, after)
      BY <3>5, <3>7, <3>8 DEF ExactlyTo
    <3>10. QED
      BY <2>7, <2>9, <3>1, <3>4, <3>9
  <2>10. QED
    BY <2>8, <2>9
<1>7. LED_NR \in T
  <2> HIDE DEF T
  <2> QED
    BY <1>1, <1>5, <1>6, FromZeroUp
<1>8. Below(leds, LED_NR) = leds
  BY BelowIs
<1>9. QED
  BY <1>1, <1>3, <1>4, <1>7, <1>8
Registers == [direction : SUBSET Leds, irq_en : BOOLEAN, cause : SUBSET Causes, on : SUBSET Leds,
              color : [Leds -> Colors], status : BOOLEAN, mask : BOOLEAN]

\* The commands sent say what the registers `new` have of the LED l, where `old` had other.
Says(sent, old, new, l) ==
  /\ ~ (Names(sent, Len(sent), "CMD_ON", l) /\ Names(sent, Len(sent), "CMD_OFF", l))
  /\ Names(sent, Len(sent), "CMD_ON", l) => l \in new.on
  /\ Names(sent, Len(sent), "CMD_OFF", l) => l \notin new.on
  /\ ~ Names(sent, Len(sent), "CMD_ON", l) /\ ~ Names(sent, Len(sent), "CMD_OFF", l)
       => (l \in new.on <=> l \in old.on)
  /\ \A i \in 1 .. Len(sent) : sent[i].cmd = "CMD_SET_COLOR" /\ sent[i].led = l
                                 => sent[i].color = new.color[l]
  /\ ~ Names(sent, Len(sent), "CMD_SET_COLOR", l) => new.color[l] = old.color[l]

Lawful(result, d) ==
  /\ result.dev \in Registers
  /\ result.sent \in Seq(Commands)
  /\ \A l \in Leds : Says(result.sent, d, result.dev, l)

LEMMA NamedTogether ==
  ASSUME NEW a \in Seq(Commands), NEW b \in Seq(Commands), NEW cmd, NEW l, NEW c, c = a \o b
  PROVE  /\ c \in Seq(Commands)
         /\ Names(c, Len(c), cmd, l) <=> Names(a, Len(a), cmd, l) \/ Names(b, Len(b), cmd, l)
         /\ \A i \in 1 .. Len(c) : \/ i \in 1 .. Len(a) /\ c[i] = a[i]
                                   \/ \E j \in 1 .. Len(b) : c[i] = b[j]
<1>1. /\ c \in Seq(Commands) /\ Len(c) = Len(a) + Len(b) /\ Len(a) \in Nat /\ Len(b) \in Nat
      /\ \A i \in 1 .. Len(a) : c[i] = a[i]
      /\ \A i \in 1 .. Len(b) : c[Len(a) + i] = b[i]
  OBVIOUS
<1>2. ASSUME NEW i \in 1 .. Len(c)
      PROVE  (i \in 1 .. Len(a) /\ c[i] = a[i]) \/ \E j \in 1 .. Len(b) : c[i] = b[j]
  <2>1. CASE i \in 1 .. Len(a)
    BY <1>1, <2>1
  <2>2. CASE i \notin 1 .. Len(a)
    <3>1. PICK j : j = i - Len(a)
      OBVIOUS
    <3>2. j \in 1 .. Len(b) /\ i = Len(a) + j
      BY <1>1, <2>2, <3>1
    <3>3. c[i] = b[j]
      BY <1>1, <3>2
    <3>4. QED
      BY <3>2, <3>3
  <2>3. QED
    BY <2>1, <2>2
<1>3. \A i \in 1 .. Len(a) : i \in 1 .. Len(c)
  BY <1>1
<1>4. \A i \in 1 .. Len(b) : Len(a) + i \in 1 .. Len(c)
  BY <1>1
<1>5. ASSUME Names(c, Len(c), cmd, l) PROVE Names(a, Len(a), cmd, l) \/ Names(b, Len(b), cmd, l)
  BY <1>2, <1>5 DEF Names
<1>6. ASSUME Names(a, Len(a), cmd, l) PROVE Names(c, Len(c), cmd, l)
  BY <1>1, <1>3, <1>6 DEF Names
<1>7. ASSUME Names(b, Len(b), cmd, l) PROVE Names(c, Len(c), cmd, l)
  BY <1>1, <1>4, <1>7 DEF Names
<1>8. QED
  BY <1>1, <1>2, <1>5, <1>6, <1>7

LEMMA DriveLawful ==
  ASSUME NEW d \in Registers, NEW up \in SUBSET Leds, NEW down \in SUBSET Leds,
         up \cap down = {}, NEW result, result = Drive(d, up, down)
  PROVE  /\ Lawful(result, d)
         /\ result.dev.color = d.color
         /\ \A i \in 1 .. Len(result.sent) : result.sent[i].cmd # "CMD_SET_COLOR"
<1>1. PICK rise \in SUBSET Leds, fall \in SUBSET Leds :
        rise = up \cap d.direction /\ fall = down \cap d.direction
  OBVIOUS
<1>2. PICK a, b : a = CommandsTo("CMD_ON", rise) /\ b = CommandsTo("CMD_OFF", fall)
  OBVIOUS
<1>3. ExactlyTo(a, "CMD_ON", rise) /\ ExactlyTo(b, "CMD_OFF", fall)
  BY <1>2, CommandsToAre
<1>4. PICK sent, new : sent = result.sent /\ new = result.dev
  OBVIOUS
<1>5. sent = a \o b /\ new = [d EXCEPT !.on = (d.on \cup rise) \ fall]
  BY <1>1, <1>2, <1>4 DEF Drive
<1>6. /\ new \in Registers /\ new.color = d.color
      /\ \A l \in Leds : l \in new.on <=> (l \in d.on \/ l \in rise) /\ l \notin fall
  BY <1>5 DEF Registers
<1>7. a \in Seq(Commands) /\ b \in Seq(Commands)
  BY <1>3 DEF ExactlyTo
<1>8. /\ sent \in Seq(Commands)
      /\ \A cmd, l : Names(sent, Len(sent), cmd, l)
                       <=> Names(a, Len(a), cmd, l) \/ Names(b, Len(b), cmd, l)
      /\ \A i \in 1 .. Len(sent) : \/ i \in 1 .. Len(a) /\ sent[i] = a[i]
                                   \/ \E j \in 1 .. Len(b) : sent[i] = b[j]
  <2>1. sent = a \o b
    BY <1>5
  <2>2. ASSUME NEW cmd, NEW l
        PROVE  Names(sent, Len(sent), cmd, l)
                 <=> Names(a, Len(a), cmd, l) \/ Names(b, Len(b), cmd, l)
    BY <1>7, <2>1, NamedTogether
  <2>3. /\ sent \in Seq(Commands)
        /\ \A i \in 1 .. Len(sent) : \/ i \in 1 .. Len(a) /\ sent[i] = a[i]
                                     \/ \E j \in 1 .. Len(b) : sent[i] = b[j]
    BY <1>7, <2>1, NamedTogether
  <2>4. QED
    BY <2>2, <2>3
<1>9. \A i \in 1 .. Len(sent) : sent[i].cmd # "CMD_SET_COLOR"
  BY <1>3, <1>8 DEF ExactlyTo
<1>10. ASSUME NEW l \in Leds
       PROVE  /\ Names(sent, Len(sent), "CMD_ON", l) <=> l \in rise
              /\ Names(sent, Len(sent), "CMD_OFF", l) <=> l \in fall
  <2>1. /\ Names(a, Len(a), "CMD_ON", l) <=> l \in rise
        /\ ~ Names(a, Len(a), "CMD_OFF", l)
    BY <1>3 DEF ExactlyTo, Names
  <2>2. /\ Names(b, Len(b), "CMD_OFF", l) <=> l \in fall
        /\ ~ Names(b, Len(b), "CMD_ON", l)
    BY <1>3 DEF ExactlyTo, Names
  <2>3. QED
    BY <1>8, <2>1, <2>2
<1>11. \A l \in Leds : Says(sent, d, new, l)
  BY <1>1, <1>6, <1>9, <1>10 DEF Says
<1>12. QED
  BY <1>4, <1>6, <1>8, <1>9, <1>11 DEF Lawful

LEMMA WritesLawful ==
  ASSUME NEW d \in Registers
  PROVE  /\ \A pins \in SUBSET Leds : /\ Lawful(WriteData(d, pins), d)
                                      /\ Lawful(WriteSet(d, pins), d)
                                      /\ Lawful(WriteClr(d, pins), d)
                                      /\ Lawful([dev |-> [d EXCEPT !.direction = pins],
                                                 sent |-> <<>>], d)
         /\ \A l \in Leds, on \in BOOLEAN : Lawful(WriteState(d, l, on), d)
<1>1. d.on \in SUBSET Leds
  BY DEF Registers
<1>2. \A up, down \in SUBSET Leds : up \cap down = {} => Lawful(Drive(d, up, down), d)
  BY DriveLawful
<1>3. ASSUME NEW pins \in SUBSET Leds
      PROVE  /\ Lawful(WriteData(d, pins), d)
             /\ Lawful(WriteSet(d, pins), d)
             /\ Lawful(WriteClr(d, pins), d)
  <2>1. Lawful(Drive(d, pins \ d.on, d.on \ pins), d)
    BY <1>1, <1>2
  <2>2. Lawful(Drive(d, pins \ d.on, {}), d)
    BY <1>1, <1>2
  <2>3. Lawful(Drive(d, {}, pins \cap d.on), d)
    BY <1>1, <1>2
  <2>4. QED
    BY <2>1, <2>2, <2>3 DEF WriteData, WriteSet, WriteClr
<1>4. ASSUME NEW pins \in SUBSET Leds, NEW new, new = [d EXCEPT !.direction = pins]
      PROVE  Lawful([dev |-> new, sent |-> <<>>], d)
  <2>1. new \in Registers /\ new.on = d.on /\ new.color = d.color
    BY <1>4 DEF Registers
  <2>2. \A cmd, l : ~ Names(<<>>, 0, cmd, l)
    BY DEF Names
  <2>3. \A l \in Leds : Says(<<>>, d, new, l)
    BY <2>1, <2>2 DEF Says
  <2>4. QED
    BY <2>1, <2>3 DEF Lawful
<1>5. ASSUME NEW l \in Leds, NEW on \in BOOLEAN PROVE Lawful(WriteState(d, l, on), d)
  <2>1. Lawful(Drive(d, {l}, {}), d) /\ Lawful(Drive(d, {}, {l}), d)
    BY <1>2
  <2>2. QED
    BY <2>1 DEF WriteState
<1>6. QED
  BY <1>3, <1>4, <1>5

LEMMA SmartLedLawful ==
  ASSUME NEW d \in Registers, NEW l \in Leds, NEW on \in BOOLEAN, NEW color \in Colors
  PROVE  Lawful(WriteSmartLed(d, l, on, color), d)
<1>1. PICK up \in SUBSET Leds, down \in SUBSET Leds :
        WriteState(d, l, on) = Drive(d, up, down) /\ up \cap down = {}
  BY DEF WriteState
<1>2. PICK state : state = Drive(d, up, down)
  OBVIOUS
<1>3. /\ Lawful(state, d)
      /\ state.dev.color = d.color
      /\ \A i \in 1 .. Len(state.sent) : state.sent[i].cmd # "CMD_SET_COLOR"
  BY <1>1, <1>2, DriveLawful
<1>4. PICK old, s, c : /\ old = state.dev /\ s = state.sent
                       /\ c = [cmd |-> "CMD_SET_COLOR", led |-> l, color |-> color]
  OBVIOUS
<1>5. old \in Registers /\ s \in Seq(Commands) /\ old.color = d.color
  BY <1>3, <1>4 DEF Lawful
<1>6. c \in Commands /\ c.cmd = "CMD_SET_COLOR" /\ c.led = l /\ c.color = color
  BY <1>4 DEF Commands
<1>7. PICK sent, new, result : /\ sent = Append(s, c) /\ new = [old EXCEPT !.color[l] = color]
                               /\ result = WriteSmartLed(d, l, on, color)
  OBVIOUS
<1>8. result.sent = sent /\ result.dev = new
  BY <1>1, <1>2, <1>4, <1>7 DEF WriteSmartLed
<1>9. /\ new \in Registers /\ new.on = old.on /\ new.color[l] = color
      /\ \A m \in Leds : m # l => new.color[m] = d.color[m]
  BY <1>5, <1>7 DEF Registers
<1>10. /\ sent \in Seq(Commands) /\ Len(sent) = Len(s) + 1 /\ sent[Len(s) + 1] = c
       /\ Len(s) \in Nat
       /\ \A i \in 1 .. Len(s) : sent[i] = s[i]
       /\ \A i \in 1 .. Len(sent) : i \in 1 .. Len(s) \/ i = Len(s) + 1
  BY <1>5, <1>6, <1>7
<1>11. ASSUME NEW m \in Leds PROVE Says(sent, d, new, m)
  <2>1. Says(s, d, old, m)
    BY <1>3, <1>4 DEF Lawful
  <2>2. \A cmd : Names(sent, Len(sent), cmd, m)
                   <=> Names(s, Len(s), cmd, m) \/ (c.cmd = cmd /\ c.led = m)
    BY <1>10 DEF Names
  <2>3. /\ Names(sent, Len(sent), "CMD_ON", m) <=> Names(s, Len(s), "CMD_ON", m)
        /\ Names(sent, Len(sent), "CMD_OFF", m) <=> Names(s, Len(s), "CMD_OFF", m)
        /\ l = m => Names(sent, Len(sent), "CMD_SET_COLOR", m)
    BY <1>6, <2>2
  <2>4. \A i \in 1 .. Len(sent) : sent[i].cmd = "CMD_SET_COLOR" /\ sent[i].led = m
                                    => sent[i].color = new.color[m]
    BY <1>3, <1>4, <1>6, <1>9, <1>10
  <2>5. QED
    BY <1>9, <2>1, <2>3, <2>4 DEF Says
<1>12. QED
  BY <1>7, <1>8, <1>9, <1>10, <1>11 DEF Lawful
(***************************************************************************)
(* The invariant: the types, in the part the grid depends on and the rest, *)
(* and GridFollows.                                                        *)
(***************************************************************************)
GridTypes ==
  /\ dev \in Registers
  /\ msi \in BOOLEAN
  /\ cmds \in Seq(Commands) /\ Len(cmds) <= Capacity
  /\ grid \in Grids /\ stray \subseteq Leds

DriverTypes ==
  /\ events \in Seq(Causes) /\ Len(events) <= Capacity
  /\ irq \in {"idle", "ack", "handler", "unmask"}
  /\ file \in {"closed", "opening", "open", "closing"}
  /\ lastCause \subseteq Causes
  /\ task \in [Writers -> {"idle", "wait", "reset"}]
  /\ \A t \in Writers : task[t] # "idle" => file = "open"
  /\ gpio \in [Callers -> [pc : {"idle", "direction", "drive"}, pin : SUBSET Leds, on : BOOLEAN,
                           seen : SUBSET Leds]]
  /\ calls \in 0 .. MaxCalls

LedInv == GridTypes /\ DriverTypes /\ GridFollows

LEMMA LedInvTypes == LedTypeOK <=> GridTypes /\ DriverTypes
BY DEF LedTypeOK, GridTypes, DriverTypes, Registers, Grids

LEMMA TickTypes == ASSUME GridTypes PROVE IrqTick \in BOOLEAN
BY DEF IrqTick, GridTypes, Registers

LEMMA NothingUnderWay == ASSUME NEW leds PROVE Executed(leds, <<>>) = leds
<1>1. PICK a : Executes(a, leds, <<>>, 0) /\ Executed(leds, <<>>) = a[0]
  BY ExecutedIs
<1>2. QED
  BY <1>1 DEF Executes

\* The part of an access's commands for which the socket has room.
Fits(sent, room) == SubSeq(sent, 1, IF Len(sent) < room THEN Len(sent) ELSE room)

LEMMA FitsIs ==
  ASSUME NEW sent \in Seq(Commands), NEW room \in Nat, NEW fit, fit = Fits(sent, room)
  PROVE  /\ fit \in Seq(Commands) /\ Len(fit) <= room /\ Len(fit) <= Len(sent)
         /\ \A i \in 1 .. Len(fit) : fit[i] = sent[i]
         /\ \A i \in 1 .. Len(sent) : i > Len(fit) => i > room
<1>1. PICK n \in Nat : n = (IF Len(sent) < room THEN Len(sent) ELSE room)
  OBVIOUS
<1>2. n <= room /\ n <= Len(sent) /\ \A i \in 1 .. Len(sent) : i > n => i > room
  BY <1>1
<1>3. fit = SubSeq(sent, 1, n)
  BY <1>1 DEF Fits
<1>4. /\ fit \in Seq(Commands) /\ Len(fit) = n
      /\ \A i \in 1 .. n : fit[i] = sent[i]
  BY <1>2, <1>3
<1>5. QED
  BY <1>2, <1>4

\* If none of the commands to the LED l was lost, what arrives says of l what was sent.
LEMMA SaysCut ==
  ASSUME NEW sent \in Seq(Commands), NEW room \in Nat, NEW fit, fit = Fits(sent, room),
         NEW old, NEW new, NEW l, Says(sent, old, new, l),
         \A i \in 1 .. Len(sent) : i > room => sent[i].led # l
  PROVE  Says(fit, old, new, l)
<1>1. /\ fit \in Seq(Commands) /\ Len(fit) <= room /\ Len(fit) <= Len(sent)
      /\ \A i \in 1 .. Len(fit) : fit[i] = sent[i]
      /\ \A i \in 1 .. Len(sent) : i > Len(fit) => i > room
  BY FitsIs
<1>2. \A i \in 1 .. Len(fit) : i \in 1 .. Len(sent)
  BY <1>1
<1>3. \A i \in 1 .. Len(sent) : i \in 1 .. Len(fit) \/ sent[i].led # l
  BY <1>1
<1>4. \A cmd : Names(fit, Len(fit), cmd, l) <=> Names(sent, Len(sent), cmd, l)
  BY <1>1, <1>2, <1>3 DEF Names
<1>5. QED
  BY <1>1, <1>2, <1>4 DEF Says

\* One LED of the grid after an access.
Follows(g, d, l) ==
  /\ g[l].on <=> l \in d.on
  /\ g[l].color = d.color[l] \/ (d.color[l] = 0 /\ g[l].color = GridColor)

LEMMA FollowsOn ==
  ASSUME NEW g \in Grids, NEW cs \in Seq(Commands), NEW old, NEW new, NEW l \in Leds,
         Follows(g, old, l), Says(cs, old, new, l)
  PROVE  Executed(g, cs) \in Grids /\ Follows(Executed(g, cs), new, l)
<1>1. PICK h : h = Executed(g, cs)
  OBVIOUS
<1>2. /\ h \in Grids /\ Shows(h, g, cs, Len(cs), l)
      /\ Colored(h, g, cs, Len(cs), l, new.color[l])
  BY <1>1, ExecutedShows DEF Says
<1>3. h[l].on \in BOOLEAN /\ g[l].on \in BOOLEAN
  BY <1>2 DEF Grids
<1>4. h[l].on <=> l \in new.on
  BY <1>2, <1>3 DEF Shows, Says, Follows
<1>5. h[l].color = new.color[l] \/ (new.color[l] = 0 /\ h[l].color = GridColor)
  BY <1>2 DEF Colored, Says, Follows
<1>6. QED
  BY <1>1, <1>2, <1>4, <1>5 DEF Follows

LEMMA ReachedTypes == ASSUME GridTypes PROVE Reached \in Grids
<1>1. PICK a : Executes(a, grid, cmds, Len(cmds)) /\ Executed(grid, cmds) = a[Len(cmds)]
  BY ExecutedIs DEF GridTypes
<1>2. QED
  BY <1>1, ExecutedTypes DEF GridTypes, Reached

LEMMA AccessFollows ==
  ASSUME LedInv, grid' = grid, NEW result, Lawful(result, dev), Access(result)
  PROVE  GridTypes' /\ GridFollows'
<1>1. PICK new, sent : new = result.dev /\ sent = result.sent
  OBVIOUS
<1>2. new \in Registers /\ sent \in Seq(Commands) /\ \A l \in Leds : Says(sent, dev, new, l)
  BY <1>1 DEF Lawful
<1>3. PICK room : room = Capacity - Len(cmds)
  OBVIOUS
<1>4. /\ cmds \in Seq(Commands) /\ Len(cmds) \in Nat /\ Len(cmds) <= Capacity
      /\ dev \in Registers /\ stray \subseteq Leds /\ grid \in Grids
  BY DEF LedInv, GridTypes
<1>5. room \in Nat
  BY <1>3, <1>4, LedAssumption
<1>6. PICK fit : fit = Fits(sent, room)
  OBVIOUS
<1>7. /\ dev' = new /\ msi' = IrqTick /\ cmds' = cmds \o fit
      /\ stray' = stray \cup {sent[i].led : i \in {j \in DOMAIN sent : j > room}}
  BY <1>1, <1>3, <1>6 DEF Access, Send, Fits
<1>8. fit \in Seq(Commands) /\ Len(fit) <= room
  BY <1>2, <1>5, <1>6, FitsIs
<1>9. cmds' \in Seq(Commands) /\ Len(cmds') <= Capacity
  <2>1. PICK joined : joined = cmds \o fit
    OBVIOUS
  <2>2. joined \in Seq(Commands) /\ Len(joined) = Len(cmds) + Len(fit)
    BY <1>4, <1>8, <2>1
  <2>3. Len(joined) <= Capacity
    BY <1>3, <1>4, <1>5, <1>8, <2>2, LedAssumption
  <2>4. QED
    BY <1>7, <2>1, <2>2, <2>3
<1>10. \A i \in DOMAIN sent : sent[i].led \in Leds
  <2>1. \A i \in DOMAIN sent : sent[i] \in Commands
    BY <1>2
  <2>2. \A c \in Commands : c.led \in Leds
    BY DEF Commands
  <2>3. QED
    BY <2>1, <2>2
<1>11. GridTypes'
  <2>1. msi' \in BOOLEAN
    BY <1>7, TickTypes DEF LedInv
  <2>2. stray' \subseteq Leds
    BY <1>4, <1>7, <1>10
  <2>3. QED
    BY <1>2, <1>4, <1>7, <1>9, <2>1, <2>2 DEF GridTypes, Registers, Grids
<1>12. Reached' = Executed(Reached, fit)
  BY <1>4, <1>7, <1>8, ExecutedAppended DEF Reached
<1>13. ASSUME NEW l \in Leds \ stray' PROVE Follows(Reached', dev', l)
  <2>1. l \notin stray /\ \A i \in 1 .. Len(sent) : i > room => sent[i].led # l
    BY <1>2, <1>7, <1>13
  <2>2. Follows(Reached, dev, l)
    BY <2>1 DEF LedInv, GridFollows, Follows
  <2>3. Says(fit, dev, new, l)
    BY <1>2, <1>5, <1>6, <2>1, SaysCut
  <2>4. PICK g \in Grids : g = Reached
    BY ReachedTypes DEF LedInv
  <2>5. Follows(Executed(g, fit), new, l)
    BY <1>8, <2>2, <2>3, <2>4, FollowsOn
  <2>6. QED
    BY <1>7, <1>12, <2>4, <2>5
<1>14. GridFollows'
  BY <1>13 DEF GridFollows, Follows, Leds
<1>15. QED
  BY <1>11, <1>14
\* An access changes nothing else but the caller's own state.
LEMMA AccessStep ==
  ASSUME LedInv, DriverTypes', grid' = grid, \E result : Lawful(result, dev) /\ Access(result)
  PROVE  LedInv'
BY AccessFollows DEF LedInv

\* A step that leaves the grid and the commands under way, the pins' states and the colours.
LEMMA GridAlone ==
  ASSUME LedInv, DriverTypes', UNCHANGED <<grid, cmds, stray>>, msi' \in BOOLEAN,
         dev' \in Registers, dev'.on = dev.on, dev'.color = dev.color
  PROVE  LedInv'
<1>1. Reached' = Reached
  BY DEF Reached
<1>2. GridFollows'
  BY <1>1 DEF LedInv, GridFollows, Leds
<1>3. GridTypes'
  BY DEF LedInv, GridTypes, Registers, Grids, Commands
<1>4. QED
  BY <1>2, <1>3 DEF LedInv

LEMMA StartsWell == ASSUME LedInit PROVE LedInv
<1>1. {0, GridColor} \subseteq Colors /\ Capacity \in Nat /\ MaxCalls \in Nat
  BY LedAssumption
<1>2. GridTypes
  <2>1. PICK direction \in {{}, Leds} :
          dev = [direction |-> direction, irq_en |-> FALSE, cause |-> {}, on |-> {},
                 color |-> [l \in Leds |-> 0], status |-> FALSE, mask |-> FALSE]
    BY DEF LedInit
  <2>2. dev \in Registers
    BY <1>1, <2>1 DEF Registers
  <2>3. grid \in Grids
    BY <1>1 DEF LedInit, Grids
  <2>4. cmds \in Seq(Commands) /\ Len(cmds) <= Capacity /\ stray \subseteq Leds
    BY <1>1 DEF LedInit
  <2>5. msi \in BOOLEAN
    BY DEF LedInit
  <2>6. QED
    BY <2>2, <2>3, <2>4, <2>5 DEF GridTypes
<1>3. DriverTypes
  BY <1>1 DEF LedInit, DriverTypes
<1>4. Reached = grid
  BY NothingUnderWay DEF LedInit, Reached
<1>5. \A l \in Leds : /\ grid[l].on = FALSE /\ l \notin dev.on
                      /\ dev.color[l] = 0 /\ grid[l].color = GridColor
  BY DEF LedInit
<1>6. GridFollows
  BY <1>4, <1>5 DEF GridFollows
<1>7. QED
  BY <1>2, <1>3, <1>6 DEF LedInv

(***************************************************************************)
(* The event loop, the server and the interrupt.                           *)
(***************************************************************************)
LEMMA ServerCommandFollows == ASSUME LedInv, ServerCommand PROVE LedInv'
<1>1. /\ cmds \in Seq(Commands) /\ cmds # <<>> /\ cmds' = Tail(cmds)
      /\ grid \in Grids /\ grid' = Execute(grid, Head(cmds))
      /\ UNCHANGED <<dev, msi, stray>>
  BY DEF LedInv, GridTypes, ServerCommand
<1>2. PICK c \in Commands : c = Head(cmds)
  BY <1>1
<1>3. PICK rest : rest = Tail(cmds)
  OBVIOUS
<1>4. rest \in Seq(Commands) /\ Len(rest) <= Len(cmds)
  BY <1>1, <1>3
<1>5. grid' \in Grids
  BY <1>1, <1>2, Executing
<1>6. Reached' = Reached
  BY <1>1, HeadExecuted DEF Reached
<1>7. GridFollows'
  BY <1>1, <1>6 DEF LedInv, GridFollows, Leds
<1>8. GridTypes'
  <2>1. Len(rest) <= Capacity
    BY <1>1, <1>4, LedAssumption DEF LedInv, GridTypes
  <2>2. QED
    BY <1>1, <1>3, <1>4, <1>5, <2>1 DEF LedInv, GridTypes, Registers, Grids, Commands
<1>9. DriverTypes'
  <2>1. EventOf(c) \in Causes
    BY DEF EventOf, Causes, Commands
  <2>2. PICK e : e = EventOf(c)
    OBVIOUS
  <2>3. events \in Seq(Causes) /\ Len(events) <= Capacity /\ Capacity \in Nat
    BY LedAssumption DEF LedInv, DriverTypes
  <2>4. events' = IF Len(events) < Capacity THEN Append(events, e) ELSE events
    BY <1>2, <2>2 DEF ServerCommand
  <2>5. events' \in Seq(Causes) /\ Len(events') <= Capacity
    <3>1. CASE Len(events) < Capacity
      <4>1. PICK more : more = Append(events, e)
        OBVIOUS
      <4>2. more \in Seq(Causes) /\ Len(more) = Len(events) + 1 /\ Len(events) \in Nat
        BY <2>1, <2>2, <2>3, <4>1
      <4>3. QED
        BY <2>3, <2>4, <3>1, <4>1, <4>2
    <3>2. CASE ~ (Len(events) < Capacity)
      BY <2>3, <2>4, <3>2
    <3>3. QED
      BY <3>1, <3>2
  <2>6. QED
    BY <2>5 DEF LedInv, DriverTypes, ServerCommand, Causes, Leds
<1>10. QED
  BY <1>7, <1>8, <1>9 DEF LedInv

LEMMA ClickFollows == ASSUME LedInv, Click PROVE LedInv'
<1>1. PICK l \in Leds :
        /\ \/ grid' = [grid EXCEPT ![l].on = ~ @]
           \/ \E c \in Colors : grid' = [grid EXCEPT ![l].color = c]
        /\ stray' = stray \cup {l}
  BY DEF Click
<1>2. PICK r : r = grid[l]
  OBVIOUS
<1>3. r \in [on : BOOLEAN, color : Colors] /\ grid \in Grids
  BY <1>2 DEF LedInv, GridTypes, Grids
<1>4. \E e \in [on : BOOLEAN, color : Colors] : grid' = [grid EXCEPT ![l] = e]
  <2>1. CASE grid' = [grid EXCEPT ![l].on = ~ @]
    <3>1. PICK e : e = [r EXCEPT !.on = ~ r.on]
      OBVIOUS
    <3>2. e \in [on : BOOLEAN, color : Colors]
      BY <1>3, <3>1
    <3>3. grid' = [grid EXCEPT ![l] = e]
      BY <1>2, <2>1, <3>1
    <3>4. QED
      BY <3>2, <3>3
  <2>2. CASE \E c \in Colors : grid' = [grid EXCEPT ![l].color = c]
    <3>1. PICK c \in Colors : grid' = [grid EXCEPT ![l].color = c]
      BY <2>2
    <3>2. PICK e : e = [r EXCEPT !.color = c]
      OBVIOUS
    <3>3. e \in [on : BOOLEAN, color : Colors]
      BY <1>3, <3>2
    <3>4. grid' = [grid EXCEPT ![l] = e]
      BY <1>2, <3>1, <3>2
    <3>5. QED
      BY <3>3, <3>4
  <2>3. QED
    BY <1>1, <2>1, <2>2
<1>5. grid' \in Grids /\ \A m \in Leds : m # l => grid'[m] = grid[m]
  BY <1>3, <1>4 DEF Grids
<1>6. \A m \in Leds : m # l => Reached'[m] = Reached[m]
  <2>1. cmds' = cmds /\ cmds \in Seq(Commands)
    BY DEF Click, LedInv, GridTypes
  <2>2. QED
    BY <1>3, <1>5, <2>1, ExecutedApart DEF Reached
<1>7. UNCHANGED <<dev, msi, cmds, events, irq, file, lastCause, task, gpio>> /\ Counted
  BY DEF Click
<1>8. GridFollows'
  BY <1>1, <1>6, <1>7 DEF LedInv, GridFollows, Leds
<1>9. GridTypes'
  BY <1>1, <1>5, <1>7 DEF LedInv, GridTypes, Registers, Grids, Commands, Leds
<1>10. DriverTypes'
  BY <1>7, LedAssumption DEF LedInv, DriverTypes, Counted, Causes, Leds
<1>11. QED
  BY <1>8, <1>9, <1>10 DEF LedInv

LEMMA LoopFollows == ASSUME LedInv, Timeout \/ LedEvent PROVE LedInv'
<1>1. IrqTick \in BOOLEAN /\ msi \in BOOLEAN /\ dev \in Registers
  BY TickTypes DEF LedInv, GridTypes
<1>2. CASE Timeout
  <2>1. DriverTypes'
    BY <1>2 DEF Timeout, LedInv, DriverTypes, Causes, Leds
  <2>2. QED
    BY <1>1, <1>2, <2>1, GridAlone DEF Timeout
<1>3. CASE LedEvent
  <2>1. PICK e : e = Head(events)
    OBVIOUS
  <2>2. PICK rest : rest = Tail(events)
    OBVIOUS
  <2>3. events \in Seq(Causes) /\ events # <<>> /\ Len(events) <= Capacity
    BY <1>3 DEF LedEvent, LedInv, DriverTypes
  <2>4. e \in Causes /\ rest \in Seq(Causes) /\ Len(rest) <= Len(events)
    BY <2>1, <2>2, <2>3
  <2>5. Len(rest) <= Capacity
    BY <2>3, <2>4, LedAssumption
  <2>6. DriverTypes'
    BY <1>3, <2>2, <2>4, <2>5 DEF LedEvent, LedInv, DriverTypes, Causes, Leds
  <2>7. dev' = [dev EXCEPT !.cause = dev.cause \cup {e}, !.status = dev.status \/ dev.irq_en]
    BY <1>3, <2>1 DEF LedEvent
  <2>8. dev' \in Registers /\ dev'.on = dev.on /\ dev'.color = dev.color
    BY <1>1, <2>4, <2>7 DEF Registers
  <2>9. QED
    BY <1>1, <1>3, <2>6, <2>8, GridAlone DEF LedEvent
<1>4. QED
  BY <1>2, <1>3
LEMMA InterruptFollows == ASSUME LedInv, Interrupt PROVE LedInv'
<1>1. IrqTick \in BOOLEAN /\ dev \in Registers
  BY TickTypes DEF LedInv, GridTypes
<1>2. CASE ChainedHandler
  <2>1. DriverTypes'
    BY <1>2 DEF ChainedHandler, LedInv, DriverTypes, Causes, Leds
  <2>2. msi' \in BOOLEAN
    BY <1>1, <1>2 DEF ChainedHandler, Registers
  <2>3. QED
    BY <1>1, <1>2, <2>1, <2>2, GridAlone DEF ChainedHandler
<1>3. CASE MaskAndAck
  <2>1. DriverTypes'
    BY <1>3 DEF MaskAndAck, LedInv, DriverTypes, Causes, Leds
  <2>2. dev' \in Registers /\ dev'.on = dev.on /\ dev'.color = dev.color
    BY <1>1, <1>3 DEF MaskAndAck, Registers
  <2>3. QED
    BY <1>1, <1>3, <2>1, <2>2, GridAlone DEF MaskAndAck
<1>4. CASE LedHandler
  <2>1. lastCause' \subseteq Causes
    BY <1>1, <1>4 DEF LedHandler, Registers
  <2>2. DriverTypes'
    BY <1>4, <2>1 DEF LedHandler, LedInv, DriverTypes, Causes, Leds
  <2>3. dev' \in Registers /\ dev'.on = dev.on /\ dev'.color = dev.color
    BY <1>1, <1>4 DEF LedHandler, Registers
  <2>4. QED
    BY <1>1, <1>4, <2>2, <2>3, GridAlone DEF LedHandler
<1>5. CASE Unmask
  <2>1. DriverTypes'
    BY <1>5 DEF Unmask, LedInv, DriverTypes, Causes, Leds
  <2>2. dev' \in Registers /\ dev'.on = dev.on /\ dev'.color = dev.color
    BY <1>1, <1>5 DEF Unmask, Registers
  <2>3. QED
    BY <1>1, <1>5, <2>1, <2>2, GridAlone DEF Unmask
<1>6. QED
  BY <1>2, <1>3, <1>4, <1>5 DEF Interrupt

(***************************************************************************)
(* /dev/lux.                                                               *)
(***************************************************************************)
LEMMA CountedTypes == ASSUME LedInv, Counted PROVE calls' \in 0 .. MaxCalls
BY LedAssumption DEF LedInv, DriverTypes, Counted

LEMMA FileFollows ==
  ASSUME LedInv, Open \/ OpenEnable \/ Release \/ ReleaseDisable PROVE LedInv'
<1>1. IrqTick \in BOOLEAN /\ dev \in Registers
  BY TickTypes DEF LedInv, GridTypes
<1>2. CASE Open
  <2>1. calls' \in 0 .. MaxCalls
    BY <1>2, CountedTypes DEF Open
  <2>2. DriverTypes'
    BY <1>2, <2>1 DEF Open, LedInv, DriverTypes, Causes, Leds
  <2>3. dev' \in Registers /\ dev'.on = dev.on /\ dev'.color = dev.color
    BY <1>1, <1>2 DEF Open, Registers
  <2>4. QED
    BY <1>1, <1>2, <2>2, <2>3, GridAlone DEF Open
<1>3. CASE OpenEnable
  <2>1. DriverTypes'
    BY <1>3 DEF OpenEnable, LedInv, DriverTypes, Causes, Leds
  <2>2. dev' \in Registers /\ dev'.on = dev.on /\ dev'.color = dev.color
    BY <1>1, <1>3 DEF OpenEnable, Registers
  <2>3. QED
    BY <1>1, <1>3, <2>1, <2>2, GridAlone DEF OpenEnable
<1>4. CASE Release
  <2>1. DriverTypes'
    BY <1>4 DEF Release, LedInv, DriverTypes, Causes, Leds
  <2>2. dev' \in Registers /\ dev'.on = dev.on /\ dev'.color = dev.color
    BY <1>1, <1>4 DEF Release, Registers
  <2>3. QED
    BY <1>1, <1>4, <2>1, <2>2, GridAlone DEF Release
<1>5. CASE ReleaseDisable
  <2>1. DriverTypes'
    BY <1>5 DEF ReleaseDisable, LedInv, DriverTypes, Causes, Leds
  <2>2. dev' \in Registers /\ dev'.on = dev.on /\ dev'.color = dev.color
    BY <1>1, <1>5 DEF ReleaseDisable, Registers
  <2>3. QED
    BY <1>1, <1>5, <2>1, <2>2, GridAlone DEF ReleaseDisable
<1>6. QED
  BY <1>2, <1>3, <1>4, <1>5

\* A write is a SmartLed access.
LEMMA SmartLedAccess ==
  ASSUME LedInv,
         \E l \in Leds, on \in BOOLEAN, color \in Colors : Access(WriteSmartLed(dev, l, on, color))
  PROVE  \E result : Lawful(result, dev) /\ Access(result)
<1>1. PICK l \in Leds, on \in BOOLEAN, color \in Colors :
        Access(WriteSmartLed(dev, l, on, color))
  OBVIOUS
<1>2. PICK result : result = WriteSmartLed(dev, l, on, color)
  OBVIOUS
<1>3. Lawful(result, dev)
  BY <1>2, SmartLedLawful DEF LedInv, GridTypes
<1>4. Access(result)
  BY <1>1, <1>2 DEF Access, Send
<1>5. QED
  BY <1>3, <1>4

\* Writes of pins and of the direction.
LEMMA PinAccess ==
  ASSUME LedInv,
         \/ \E pins \in SUBSET Leds : \/ Access(WriteData(dev, pins))
                                      \/ Access(WriteSet(dev, pins))
                                      \/ Access(WriteClr(dev, pins))
                                      \/ WriteDirection(pins)
         \/ \E l \in Leds, on \in BOOLEAN : Access(WriteState(dev, l, on))
  PROVE  \E result : Lawful(result, dev) /\ Access(result)
<1>1. dev \in Registers
  BY DEF LedInv, GridTypes
<1>2. CASE \E pins \in SUBSET Leds : \/ Access(WriteData(dev, pins))
                                     \/ Access(WriteSet(dev, pins))
                                     \/ Access(WriteClr(dev, pins))
                                     \/ WriteDirection(pins)
  <2>1. PICK pins \in SUBSET Leds : \/ Access(WriteData(dev, pins))
                                    \/ Access(WriteSet(dev, pins))
                                    \/ Access(WriteClr(dev, pins))
                                    \/ WriteDirection(pins)
    BY <1>2
  <2>2. PICK w : w = [dev |-> [dev EXCEPT !.direction = pins], sent |-> <<>>]
    OBVIOUS
  <2>3. /\ Lawful(WriteData(dev, pins), dev) /\ Lawful(WriteSet(dev, pins), dev)
        /\ Lawful(WriteClr(dev, pins), dev) /\ Lawful(w, dev)
    <3>1. Lawful([dev |-> [dev EXCEPT !.direction = pins], sent |-> <<>>], dev)
      BY <1>1, WritesLawful
    <3>2. /\ Lawful(WriteData(dev, pins), dev) /\ Lawful(WriteSet(dev, pins), dev)
          /\ Lawful(WriteClr(dev, pins), dev)
      BY <1>1, WritesLawful
    <3>3. QED
      BY <2>2, <3>1, <3>2
  <2>4. CASE Access(WriteData(dev, pins))
    <3> WITNESS WriteData(dev, pins)
    <3> QED BY <2>3, <2>4
  <2>5. CASE Access(WriteSet(dev, pins))
    <3> WITNESS WriteSet(dev, pins)
    <3> QED BY <2>3, <2>5
  <2>6. CASE Access(WriteClr(dev, pins))
    <3> WITNESS WriteClr(dev, pins)
    <3> QED BY <2>3, <2>6
  <2>7. CASE WriteDirection(pins)
    <3>1. Access(w)
      BY <2>2, <2>7 DEF WriteDirection, Access, Send
    <3>2. QED
      BY <2>3, <3>1
  <2>8. QED
    BY <2>1, <2>4, <2>5, <2>6, <2>7, Zenon
<1>3. CASE \E l \in Leds, on \in BOOLEAN : Access(WriteState(dev, l, on))
  <2>1. PICK l \in Leds, on \in BOOLEAN : Access(WriteState(dev, l, on))
    BY <1>3
  <2>2. Lawful(WriteState(dev, l, on), dev)
    BY <1>1, WritesLawful
  <2> WITNESS WriteState(dev, l, on)
  <2>3. QED
    BY <2>1, <2>2
<1>4. QED
  BY <1>2, <1>3

LEMMA WriterFollows == ASSUME LedInv, NEW t \in Writers, Writer(t) PROVE LedInv'
<1>1. dev \in Registers /\ msi \in BOOLEAN
  BY DEF LedInv, GridTypes
<1>2. CASE Write(t)
  <2>1. calls' \in 0 .. MaxCalls
    BY <1>2, CountedTypes DEF Write
  <2>2. DriverTypes'
    BY <1>2, <2>1 DEF Write, LedInv, DriverTypes, Causes, Leds
  <2>3. \E result : Lawful(result, dev) /\ Access(result)
    BY <1>2, SmartLedAccess DEF Write
  <2>4. QED
    BY <1>2, <2>2, <2>3, AccessStep DEF Write
<1>3. CASE WaitEnds(t)
  <2>1. DriverTypes'
    BY <1>3 DEF WaitEnds, LedInv, DriverTypes, Causes, Leds
  <2>2. QED
    BY <1>1, <1>3, <2>1, GridAlone DEF WaitEnds
<1>4. CASE WaitInterrupted(t)
  <2>1. DriverTypes'
    BY <1>4 DEF WaitInterrupted, LedInv, DriverTypes, Causes, Leds
  <2>2. QED
    BY <1>1, <1>4, <2>1, GridAlone DEF WaitInterrupted
<1>5. CASE WriteReturns(t)
  <2>1. DriverTypes'
    BY <1>5 DEF WriteReturns, LedInv, DriverTypes, Causes, Leds
  <2>2. QED
    BY <1>1, <1>5, <2>1, GridAlone DEF WriteReturns
<1>6. QED
  BY <1>2, <1>3, <1>4, <1>5 DEF Writer

\* CLEAR_SCREEN writes no pin, SET_DIRECTION any; a store to BAR1 is a write of REG_STATE.
LEMMA StoreFollows ==
  ASSUME LedInv, Ioctl \/ MappedStore \/ SetBrightness PROVE LedInv'
<1>1. calls' \in 0 .. MaxCalls
  BY CountedTypes DEF Ioctl, MappedStore, SetBrightness
<1>2. CASE Ioctl
  <2>1. DriverTypes'
    BY <1>1, <1>2 DEF Ioctl, LedInv, DriverTypes, Causes, Leds
  <2>2. {} \in SUBSET Leds
    OBVIOUS
  <2>3. \E result : Lawful(result, dev) /\ Access(result)
    BY <1>2, <2>2, PinAccess DEF Ioctl
  <2>4. QED
    BY <1>2, <2>1, <2>3, AccessStep DEF Ioctl
<1>3. CASE MappedStore
  <2>1. DriverTypes'
    BY <1>1, <1>3 DEF MappedStore, LedInv, DriverTypes, Causes, Leds
  <2>2. \E result : Lawful(result, dev) /\ Access(result)
    BY <1>3, PinAccess DEF MappedStore
  <2>3. QED
    BY <1>3, <2>1, <2>2, AccessStep DEF MappedStore
<1>4. CASE SetBrightness
  <2>1. DriverTypes'
    BY <1>1, <1>4 DEF SetBrightness, LedInv, DriverTypes, Causes, Leds
  <2>2. \E result : Lawful(result, dev) /\ Access(result)
    BY <1>4, SmartLedAccess DEF SetBrightness
  <2>3. QED
    BY <1>4, <2>1, <2>2, AccessStep DEF SetBrightness
<1>5. QED
  BY <1>2, <1>3, <1>4
(***************************************************************************)
(* The GPIO chip.                                                          *)
(***************************************************************************)
Locals == [pc : {"idle", "direction", "drive"}, pin : SUBSET Leds, on : BOOLEAN,
           seen : SUBSET Leds]

\* A caller's own state is all that a step of it changes of the drivers', its call apart.
LEMMA CallerTypes ==
  ASSUME LedInv, NEW g \in Callers, NEW r \in Locals, gpio' = [gpio EXCEPT ![g] = r],
         UNCHANGED <<events, irq, file, lastCause, task>>, calls' \in 0 .. MaxCalls
  PROVE  DriverTypes'
BY DEF LedInv, DriverTypes, Locals, Causes, Leds

LEMMA CallerFollows == ASSUME LedInv, NEW g \in Callers, Caller(g) PROVE LedInv'
<1>1. dev \in Registers /\ IrqTick \in BOOLEAN
  BY TickTypes DEF LedInv, GridTypes
<1>2. calls \in 0 .. MaxCalls /\ gpio \in [Callers -> Locals]
  BY DEF LedInv, DriverTypes, Locals
<1>3. PICK r : r = gpio[g]
  OBVIOUS
<1>4. /\ r \in Locals /\ r.pin \in SUBSET Leds /\ r.on \in BOOLEAN /\ r.seen \in SUBSET Leds
  BY <1>2, <1>3 DEF Locals
<1>5. CASE GpioSet(g)
  <2>1. calls' \in 0 .. MaxCalls
    BY <1>5, CountedTypes DEF GpioSet
  <2>2. DriverTypes'
    BY <1>5, <2>1 DEF GpioSet, LedInv, DriverTypes, Causes, Leds
  <2>3. PICK l \in Leds : Access(WriteSet(dev, {l})) \/ Access(WriteClr(dev, {l}))
    BY <1>5 DEF GpioSet
  <2>4. PICK pins \in SUBSET Leds : pins = {l}
    OBVIOUS
  <2>5. Access(WriteSet(dev, pins)) \/ Access(WriteClr(dev, pins))
    BY <2>3, <2>4
  <2>6. \E result : Lawful(result, dev) /\ Access(result)
    BY <2>5, PinAccess
  <2>7. QED
    BY <1>5, <2>2, <2>6, AccessStep DEF GpioSet
<1>6. CASE GpioSetMultiple(g)
  <2>1. calls' \in 0 .. MaxCalls
    BY <1>6, CountedTypes DEF GpioSetMultiple
  <2>2. PICK up \in SUBSET Leds, down \in SUBSET Leds :
          /\ Access(WriteSet(dev, up))
          /\ gpio' = [gpio EXCEPT ![g].pc = "drive", ![g].pin = down, ![g].on = FALSE]
    BY <1>6 DEF GpioSetMultiple
  <2>3. PICK q : q = [r EXCEPT !.pc = "drive", !.pin = down, !.on = FALSE]
    OBVIOUS
  <2>4. q \in Locals
    BY <1>4, <2>3 DEF Locals
  <2>5. gpio' = [gpio EXCEPT ![g] = q]
    BY <1>2, <1>3, <2>2, <2>3
  <2>6. DriverTypes'
    BY <1>6, <2>1, <2>4, <2>5, CallerTypes DEF GpioSetMultiple
  <2>7. \E result : Lawful(result, dev) /\ Access(result)
    BY <2>2, PinAccess
  <2>8. QED
    BY <1>6, <2>6, <2>7, AccessStep DEF GpioSetMultiple
<1>7. CASE GpioReadDirection(g)
  <2>1. calls' \in 0 .. MaxCalls
    BY <1>7, CountedTypes DEF GpioReadDirection
  <2>2. PICK l \in Leds, on \in BOOLEAN, out \in BOOLEAN :
          gpio' = [gpio EXCEPT ![g] =
                    [pc |-> "direction", pin |-> IF out THEN {l} ELSE {}, on |-> on,
                     seen |-> IF out THEN dev.direction \cup {l} ELSE dev.direction \ {l}]]
    BY <1>7 DEF GpioReadDirection
  <2>3. PICK q : q = [pc |-> "direction", pin |-> IF out THEN {l} ELSE {}, on |-> on,
                      seen |-> IF out THEN dev.direction \cup {l} ELSE dev.direction \ {l}]
    OBVIOUS
  <2>4. PICK pin \in SUBSET Leds, seen \in SUBSET Leds :
          q = [pc |-> "direction", pin |-> pin, on |-> on, seen |-> seen]
    <3>1. dev.direction \in SUBSET Leds
      BY <1>1 DEF Registers
    <3>2. QED
      BY <2>3, <3>1
  <2>5. q \in Locals
    BY <2>4 DEF Locals
  <2>6. DriverTypes'
    BY <1>7, <2>1, <2>2, <2>3, <2>5, CallerTypes DEF GpioReadDirection
  <2>7. QED
    BY <1>1, <1>7, <2>6, GridAlone DEF GpioReadDirection
<1>8. CASE GpioWriteDirection(g)
  <2>1. PICK q : q = [r EXCEPT !.pc = IF r.pin = {} THEN "idle" ELSE "drive"]
    OBVIOUS
  <2>2. q \in Locals
    BY <1>4, <2>1 DEF Locals
  <2>3. gpio' = [gpio EXCEPT ![g] = q]
    BY <1>2, <1>3, <1>8, <2>1 DEF GpioWriteDirection
  <2>4. calls' \in 0 .. MaxCalls
    BY <1>2, <1>8 DEF GpioWriteDirection
  <2>5. DriverTypes'
    BY <1>8, <2>2, <2>3, <2>4, CallerTypes DEF GpioWriteDirection
  <2>6. WriteDirection(r.seen)
    BY <1>3, <1>8 DEF GpioWriteDirection
  <2>7. \E result : Lawful(result, dev) /\ Access(result)
    BY <1>4, <2>6, PinAccess
  <2>8. QED
    BY <1>8, <2>5, <2>7, AccessStep DEF GpioWriteDirection
<1>9. CASE GpioDrive(g)
  <2>1. PICK q : q = [r EXCEPT !.pc = "idle"]
    OBVIOUS
  <2>2. q \in Locals
    BY <1>4, <2>1 DEF Locals
  <2>3. gpio' = [gpio EXCEPT ![g] = q]
    BY <1>2, <1>3, <1>9, <2>1 DEF GpioDrive
  <2>4. calls' \in 0 .. MaxCalls
    BY <1>2, <1>9 DEF GpioDrive
  <2>5. DriverTypes'
    BY <1>9, <2>2, <2>3, <2>4, CallerTypes DEF GpioDrive
  <2>6. Access(WriteSet(dev, r.pin)) \/ Access(WriteClr(dev, r.pin))
    BY <1>3, <1>9 DEF GpioDrive
  <2>7. \E result : Lawful(result, dev) /\ Access(result)
    BY <1>4, <2>6, PinAccess
  <2>8. QED
    BY <1>9, <2>5, <2>7, AccessStep DEF GpioDrive
<1>10. QED
  BY <1>5, <1>6, <1>7, <1>8, <1>9 DEF Caller

LEMMA LedStep == ASSUME LedInv, [LedNext]_vars PROVE LedInv'
<1>1. CASE UNCHANGED vars
  <2>1. DriverTypes'
    BY <1>1 DEF vars, LedInv, DriverTypes, Causes, Leds
  <2>2. QED
    BY <1>1, <2>1, GridAlone DEF vars, LedInv, GridTypes
<1>2. CASE LedNext
  <2>1. CASE Timeout \/ LedEvent
    BY <2>1, LoopFollows
  <2>2. CASE ServerCommand
    BY <2>2, ServerCommandFollows
  <2>3. CASE Click
    BY <2>3, ClickFollows
  <2>4. CASE Interrupt
    BY <2>4, InterruptFollows
  <2>5. CASE Open \/ OpenEnable \/ Release \/ ReleaseDisable
    BY <2>5, FileFollows
  <2>6. CASE Ioctl \/ MappedStore \/ SetBrightness
    BY <2>6, StoreFollows
  <2>7. CASE \E t \in Writers : Writer(t)
    BY <2>7, WriterFollows
  <2>8. CASE \E g \in Callers : Caller(g)
    BY <2>8, CallerFollows
  <2>9. QED
    BY <1>2, <2>1, <2>2, <2>3, <2>4, <2>5, <2>6, <2>7, <2>8 DEF LedNext
<1>3. QED
  BY <1>1, <1>2

\* The state keeps to its types: the socket's buffers in particular to what they hold, and a
\* writer is inside a call only of an open file (lux-cdev.c, device.c, led/protocol.c).
THEOREM LedTypes == LedSpec => []LedTypeOK
<1>1. LedInit => LedInv
  BY StartsWell
<1>2. LedInv /\ [LedNext]_vars => LedInv'
  BY LedStep
<1>3. LedInv => LedTypeOK
  BY LedInvTypes DEF LedInv
<1>4. QED
  BY <1>1, <1>2, <1>3, PTL DEF LedSpec

\* Once the commands under way have arrived the grid shows what the registers report, except for
\* an LED clicked in the window or whose command found the socket full: for any number of LEDs and
\* any order of direction changes, atomic and data writes, stores and events (led.c, f0_bar0.c,
\* f0_bar1.c, protocol.c).
THEOREM GridFollowsRegisters == LedSpec => []GridFollows
<1>1. LedInit => LedInv
  BY StartsWell
<1>2. LedInv /\ [LedNext]_vars => LedInv'
  BY LedStep
<1>3. LedInv => GridFollows
  BY DEF LedInv
<1>4. QED
  BY <1>1, <1>2, <1>3, PTL DEF LedSpec
================================================================================
