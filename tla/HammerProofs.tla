------------------------------ MODULE HammerProofs ------------------------------
(***************************************************************************)
(* The test client, for any number of threads and devices, any file and    *)
(* any ring size.  Its threads make their calls through the steps of       *)
(* MathRing, so what is proved of the rings holds under the client; the    *)
(* barrier keeps every thread away from its device until main has created  *)
(* the last one; and so the counters count what the file says.             *)
(***************************************************************************)
EXTENDS Hammer, MathRingProofs, WellFoundedInduction

LEMMA ClientStepsAreRingSteps == [HammerNext]_hammerVars => [RingNext]_vars
<1>1. ASSUME NEW t \in Tasks, ThreadStep(t) PROVE TaskNext(t)
  BY <1>1 DEF ThreadStep, CallIoctl, SkipResult, CountResult, Idly, TaskNext
<1>2. ASSUME Main \/ \E t \in Ids : PassBarrier(t) PROVE UNCHANGED vars
  BY <1>2 DEF Main, ReadLine, EndOfFile, CreateThread, CreateFails, JoinAll, PassBarrier, vars
<1>3. Idly(TopHalf) \/ Idly(Kthread) => RingNext
  BY DEF Idly, RingNext
<1>4. UNCHANGED hammerVars => UNCHANGED vars
  BY DEF hammerVars, vars
<1>5. QED
  BY <1>1, <1>2, <1>3, <1>4 DEF HammerNext, RingNext

LEMMA ClientOnTheRing ==
  ASSUME ~MayFault PROVE HammerSpec => [](PlacesInv /\ OwnAnswers)
<1>1. HammerInit => PlacesInv /\ OwnAnswers
  <2>1. HammerInit => RingInit
    BY DEF HammerInit
  <2>2. QED
    BY <2>1, PlacesInit, AnswersInit
<1>2. PlacesInv /\ OwnAnswers /\ [RingNext]_vars => (PlacesInv /\ OwnAnswers)'
  BY PlacesStep, AnswersStep
<1>3. QED
  BY <1>1, <1>2, ClientStepsAreRingSteps, PTL DEF HammerSpec

(***************************************************************************)
(* Under the client too no accepted call is lost or done twice.            *)
(***************************************************************************)
THEOREM HammerLosesNothing == ASSUME ~MayFault PROVE HammerSpec => []NothingLost
  BY ClientOnTheRing, PlacesSuffice, PTL

(***************************************************************************)
(* What a thread of the client gets back is C's arithmetic on what it      *)
(* sent, whatever the width of a word: a sum, difference or product is the *)
(* word congruent to the exact one (compute.c:54-66).                      *)
(***************************************************************************)
THEOREM HammerWrapsToWord == ASSUME ~MayFault PROVE HammerSpec => []WrapsToWord
  BY ClientOnTheRing, OwnAnswersWrap, PTL

(***************************************************************************)
(* And a quotient truncates towards zero; exactly a zero divisor is        *)
(* answered with an error (compute.c:67-73).                               *)
(***************************************************************************)
THEOREM HammerDivisionLaw == ASSUME ~MayFault PROVE HammerSpec => []DivisionLaw
  BY ClientOnTheRing, OwnAnswersDivide, PTL
-----------------------------------------------------------------------------
(***************************************************************************)
(* Where the threads are while main creates them.  Until the last one is   *)
(* created, as many have arrived at the barrier as there are iterations of *)
(* main's loop, and these are too few for it.                              *)
(***************************************************************************)
MainPcs == {"parse", "create", "done", "failed"}
ThreadPcs == {"unborn", "barrier", "loop", "ioctl", "returned"}
Contexts == [pc : ThreadPcs, i : Nat, success : Nat, error : Nat]

ClientTypeOK ==
  /\ args \in Invocations
  /\ main \in [pc : MainPcs, i : Nat]
  /\ operations \in Seq(Entries)
  /\ thr \in [Ids -> Contexts]
  /\ refused \in [Ids -> SUBSET Nat]

CreatedInOrder ==
  /\ main.pc = "parse" => \A t \in Ids : thr[t].pc = "unborn"
  /\ main.pc = "create" =>
       main.i <= args.n /\ \A t \in Ids : thr[t].pc = "unborn" <=> main.i <= t

StillCreating == Gone \/ main.pc = "parse" \/ (main.pc = "create" /\ main.i < args.n)

HeldAtTheBarrier == StillCreating => \A t \in Ids : thr[t].pc \in {"unborn", "barrier"}

CallsFromTheLoop == \A t \in Tasks : task[t].pc # "idle" => thr[t].pc = "ioctl"

\* The array has room for the line that is read next.
RoomToRead == main.pc = "parse" => main.i < Len(operations) /\ main.i <= OpCountRead

BarrierInv ==
  ClientTypeOK /\ CreatedInOrder /\ HeldAtTheBarrier /\ CallsFromTheLoop /\ RoomToRead

\* No thread leaves the barrier while main is still creating.
LEMMA BarrierHolds ==
  ASSUME BarrierInv, NEW t \in Ids, PassBarrier(t) PROVE ~StillCreating
<1> SUFFICES ASSUME StillCreating PROVE FALSE
  OBVIOUS
<1>1. main.pc = "create" /\ main.i < args.n /\ main.i \in Nat /\ args.n \in 0 .. MaxThreads
  BY HammerAssumption DEF PassBarrier, StillCreating, BarrierInv, CreatedInOrder, ClientTypeOK
<1>2. MaxThreads \in Nat
  BY HammerAssumption
<1>3. Arrived = 0 .. (main.i - 1)
  BY <1>1, <1>2 DEF Arrived, BarrierInv, CreatedInOrder, Ids
<1>4. Cardinality(Arrived) = main.i
  BY <1>1, <1>3, FS_Interval
<1>5. QED
  BY <1>1, <1>4 DEF PassBarrier, BarrierCount

(***************************************************************************)
(* Induction over the natural numbers, by way of the least counterexample. *)
(***************************************************************************)
LEMMA FromZeroUp ==
  ASSUME NEW T, 0 \in T, \A n \in Nat : n \in T => n + 1 \in T
  PROVE  \A n \in Nat : n \in T
<1> DEFINE C == {n \in Nat : n \notin T}
           R == {ss \in Nat \X Nat : ss[1] < ss[2]}
<1> SUFFICES ASSUME C # {} PROVE FALSE
  OBVIOUS
<1>1. IsWellFoundedOn(R, Nat)
  BY NatLessThanWellFounded, Zenon DEF OpToRel
<1>2. \E n \in C : \A m \in C : <<m, n>> \notin R
  <2> C \subseteq Nat
    OBVIOUS
  <2> HIDE DEF C, R
  <2> QED
    BY <1>1, WFMin
<1>3. PICK n \in C : \A m \in C : <<m, n>> \notin R
  BY <1>2
<1>4. n - 1 \in Nat /\ n - 1 < n
  BY <1>3
<1>5. n - 1 \in T
  BY <1>3, <1>4
<1>6. QED
  BY <1>3, <1>4, <1>5

(***************************************************************************)
(* The parser: it reads any line, and leaves an entry in an entry's place. *)
(***************************************************************************)
Stages == {"arg1", "op", "arg2", "expected", "bad"}
ParserStates == [at : Stages, entry : Entries]

LEMMA TokenParsed ==
  ASSUME NEW st \in ParserStates, NEW token \in Tokens
  PROVE  ParseToken(st, token) \in ParserStates
<1>1. Invalid \notin Ops /\ "SUB" \in Ops
  BY DEF Invalid, Ops
<1>2. /\ token.kind = "number" => token.val \in Int
      /\ token.kind = "operator" => token.val \in Ops
  BY DEF Tokens, Junk
<1>3. OperatorOf(token) \in Ops \cup {Invalid}
  BY <1>1, <1>2 DEF OperatorOf
<1>4. QED
  BY <1>2, <1>3 DEF ParseToken, ParserStates, Stages, Entries

Parses(after, line, old, n) ==
  after = [k \in 0 .. n |-> IF k = 0 THEN [at |-> "arg1", entry |-> old]
                                     ELSE ParseToken(after[k - 1], line[k])]

LEMMA ParserRuns ==
  ASSUME NEW line, NEW old, NEW n \in Nat PROVE \E after : Parses(after, line, old, n)
<1> DEFINE T == {m \in Nat : \E after : Parses(after, line, old, m)}
<1>1. 0 \in T
  <2>1. Parses([k \in 0 .. 0 |-> [at |-> "arg1", entry |-> old]], line, old, 0)
    BY DEF Parses
  <2>2. QED
    BY <2>1
<1>2. ASSUME NEW m \in Nat, m \in T PROVE m + 1 \in T
  <2>1. PICK after : Parses(after, line, old, m)
    BY <1>2
  <2>2. PICK further : further = [k \in 0 .. (m + 1) |->
                         IF k = m + 1 THEN ParseToken(after[m], line[m + 1]) ELSE after[k]]
    OBVIOUS
  <2>3. ASSUME NEW k \in 0 .. (m + 1)
        PROVE  further[k] = IF k = 0 THEN [at |-> "arg1", entry |-> old]
                            ELSE ParseToken(further[k - 1], line[k])
    <3>1. CASE k = m + 1
      BY <2>2, <3>1
    <3>2. CASE k \in 0 .. m
      <4>1. further[k] = after[k] /\ k - 1 # m /\ (k # 0 => further[k - 1] = after[k - 1])
        BY <2>2, <3>2
      <4>2. QED
        BY <2>1, <3>2, <4>1 DEF Parses
    <3>3. QED
      BY <3>1, <3>2
  <2>4. Parses(further, line, old, m + 1)
    BY <2>2, <2>3 DEF Parses
  <2>5. QED
    BY <2>4
<1>3. n \in T
  <2> HIDE DEF T
  <2> QED
    BY <1>1, <1>2, FromZeroUp
<1>4. QED
  BY <1>3

LEMMA LineParsed ==
  ASSUME NEW line, NEW old, Len(line) \in Nat
  PROVE  \E after : Parses(after, line, old, Len(line)) /\ ParseLine(line, old) = after[Len(line)]
<1> DEFINE f == CHOOSE after : Parses(after, line, old, Len(line))
<1>1. Parses(f, line, old, Len(line))
  BY ParserRuns
<1>2. ParseLine(line, old) = f[Len(line)]
  BY DEF ParseLine, Parses
<1>3. QED
  BY <1>1, <1>2

LEMMA LineParsedWell ==
  ASSUME NEW line \in Seq(Tokens), NEW old \in Entries
  PROVE  ParseLine(line, old) \in ParserStates
<1>1. PICK after : /\ Parses(after, line, old, Len(line))
                   /\ ParseLine(line, old) = after[Len(line)]
  BY LineParsed
<1> DEFINE T == {k \in Nat : k \in 0 .. Len(line) => after[k] \in ParserStates}
<1>2. 0 \in T
  BY <1>1 DEF Parses, ParserStates, Stages
<1>3. ASSUME NEW k \in Nat, k \in T PROVE k + 1 \in T
  <2> SUFFICES ASSUME k + 1 \in 0 .. Len(line) PROVE after[k + 1] \in ParserStates
    OBVIOUS
  <2>1. after[k] \in ParserStates /\ line[k + 1] \in Tokens
    BY <1>3
  <2>2. after[k + 1] = ParseToken(after[k], line[k + 1])
    BY <1>1 DEF Parses
  <2>3. QED
    BY <2>1, <2>2, TokenParsed
<1>4. Len(line) \in T
  <2> HIDE DEF T
  <2> QED
    BY <1>2, <1>3, FromZeroUp
<1>5. QED
  BY <1>1, <1>4

(***************************************************************************)
(* A complete line is read as it is written, whatever was there before.    *)
(***************************************************************************)
EntryOf(line) == [cmd |-> [op |-> line[2].val, a |-> line[1].val, b |-> line[3].val],
                  expected |-> line[4].val]

Reader(at, o, x, y, e) == [at |-> at, entry |-> [cmd |-> [op |-> o, a |-> x, b |-> y],
                                                expected |-> e]]

LEMMA StageRead ==
  ASSUME NEW token, NEW o, NEW x, NEW y, NEW e
  PROVE  /\ token.kind = "number" =>
              /\ ParseToken(Reader("arg1", o, x, y, e), token) = Reader("op", o, token.val, y, e)
              /\ ParseToken(Reader("arg2", o, x, y, e), token)
                   = Reader("expected", o, x, token.val, e)
              /\ ParseToken(Reader("expected", o, x, y, e), token)
                   = Reader("arg1", o, x, y, token.val)
         /\ token.kind = "operator" /\ token.val # Invalid =>
              ParseToken(Reader("op", o, x, y, e), token) = Reader("arg2", token.val, x, y, e)
<1>1. ASSUME NEW st, st = Reader("arg1", o, x, y, e), token.kind = "number"
      PROVE  ParseToken(st, token) = Reader("op", o, token.val, y, e)
  <2>1. st.at = "arg1"
    BY <1>1 DEF Reader
  <2>2. ParseToken(st, token) = [st EXCEPT !.entry.cmd.a = token.val, !.at = "op"]
    BY <1>1, <2>1 DEF ParseToken
  <2>3. QED
    BY <1>1, <2>2 DEF Reader
<1>2. ASSUME NEW st, st = Reader("arg2", o, x, y, e), token.kind = "number"
      PROVE  ParseToken(st, token) = Reader("expected", o, x, token.val, e)
  <2>1. st.at = "arg2"
    BY <1>2 DEF Reader
  <2>2. ParseToken(st, token) = [st EXCEPT !.entry.cmd.b = token.val, !.at = "expected"]
    BY <1>2, <2>1 DEF ParseToken
  <2>3. QED
    BY <1>2, <2>2 DEF Reader
<1>3. ASSUME NEW st, st = Reader("expected", o, x, y, e), token.kind = "number"
      PROVE  ParseToken(st, token) = Reader("arg1", o, x, y, token.val)
  <2>1. st.at = "expected"
    BY <1>3 DEF Reader
  <2>2. ParseToken(st, token) = [st EXCEPT !.entry.expected = token.val, !.at = "arg1"]
    BY <1>3, <2>1 DEF ParseToken
  <2>3. QED
    BY <1>3, <2>2 DEF Reader
<1>4. ASSUME NEW st, st = Reader("op", o, x, y, e), token.kind = "operator", token.val # Invalid
      PROVE  ParseToken(st, token) = Reader("arg2", token.val, x, y, e)
  <2>1. st.at = "op" /\ OperatorOf(token) = token.val
    BY <1>4 DEF Reader, OperatorOf
  <2>2. ParseToken(st, token) = [st EXCEPT !.entry.cmd.op = token.val, !.at = "arg2"]
    BY <1>4, <2>1 DEF ParseToken
  <2>3. QED
    BY <1>4, <2>2 DEF Reader
<1>5. QED
  BY <1>1, <1>2, <1>3, <1>4

LEMMA CompleteLineRead ==
  ASSUME NEW line \in Seq(Tokens), NEW old \in Entries, Complete(line)
  PROVE  ParseLine(line, old) = [at |-> "arg1", entry |-> EntryOf(line)]
<1>1. Len(line) = 4
  BY DEF Complete
<1>2. PICK after : Parses(after, line, old, 4) /\ ParseLine(line, old) = after[4]
  <2>1. Len(line) \in Nat
    OBVIOUS
  <2>2. PICK after : /\ Parses(after, line, old, Len(line))
                     /\ ParseLine(line, old) = after[Len(line)]
    BY <2>1, LineParsed
  <2>3. QED
    BY <1>1, <2>2
<1>3. /\ line[1].kind = "number" /\ line[3].kind = "number" /\ line[4].kind = "number"
      /\ line[2].kind = "operator" /\ line[2].val # Invalid
  <2>1. line[2] \in Tokens
    BY <1>1
  <2>2. QED
    BY <2>1 DEF Complete, Tokens, Junk, Ops, Invalid
<1>4. /\ after[0] = [at |-> "arg1", entry |-> old]
      /\ after[1] = ParseToken(after[0], line[1]) /\ after[2] = ParseToken(after[1], line[2])
      /\ after[3] = ParseToken(after[2], line[3]) /\ after[4] = ParseToken(after[3], line[4])
  BY <1>2 DEF Parses
<1>5. PICK o, x, y, e : after[0] = Reader("arg1", o, x, y, e)
  <2>1. /\ old = [cmd |-> old.cmd, expected |-> old.expected]
        /\ old.cmd = [op |-> old.cmd.op, a |-> old.cmd.a, b |-> old.cmd.b]
    BY DEF Entries
  <2>2. after[0] = Reader("arg1", old.cmd.op, old.cmd.a, old.cmd.b, old.expected)
    BY <1>4, <2>1 DEF Reader
  <2>3. QED
    BY <2>2
<1>6. after[2] = Reader("arg2", line[2].val, line[1].val, y, e)
  BY <1>3, <1>4, <1>5, StageRead
<1>7. after[4] = Reader("arg1", line[2].val, line[1].val, line[3].val, line[4].val)
  BY <1>3, <1>4, <1>6, StageRead
<1>8. QED
  BY <1>2, <1>7 DEF Reader, EntryOf
-----------------------------------------------------------------------------
(***************************************************************************)
(* The steps of main and of the threads keep the barrier's invariant.      *)
(***************************************************************************)
LEMMA InvocationTypes ==
  ASSUME ClientTypeOK
  PROVE  /\ args.n \in 0 .. MaxThreads /\ args.file \in Seq(Seq(Tokens)) /\ OpCountRead \in Nat
         /\ MaxThreads \in Nat /\ Ids = 0 .. (MaxThreads - 1) /\ Tasks \subseteq Ids
         /\ \A k \in 1 .. OpCountRead : args.file[k] \in Seq(Tokens)
  BY HammerAssumption DEF ClientTypeOK, OpCountRead, Ids

LEMMA BarrierInit == HammerInit => BarrierInv
<1> SUFFICES ASSUME HammerInit PROVE BarrierInv
  OBVIOUS
<1>1. Prealloc \in Nat \ {0} /\ Zeroed \in Entries
  BY HammerAssumption DEF Zeroed, Entries, Ops
<1>2. operations \in Seq(Entries) /\ Len(operations) = Prealloc
  BY <1>1 DEF HammerInit
<1>3. ClientTypeOK
  BY <1>2 DEF HammerInit, ClientTypeOK, MainPcs, Contexts, ThreadPcs, Start
<1>4. \A t \in Ids : thr[t].pc = "unborn"
  BY DEF HammerInit, Start
<1>5. CallsFromTheLoop
  BY DEF HammerInit, RingInit, CallsFromTheLoop
<1>6. QED
  BY <1>1, <1>2, <1>3, <1>4, <1>5, InvocationTypes
     DEF HammerInit, BarrierInv, CreatedInOrder, HeldAtTheBarrier, RoomToRead

\* ReadLine stores what the parser leaves, and then may grow the array.
Grows(ops, n, e, grown) ==
  LET stored == [ops EXCEPT ![n] = e] IN
  IF n < Len(ops)
    THEN grown = stored
    ELSE \E new \in [1 .. (2 * n - Len(ops)) -> Uninitialised] : grown = stored \o new

LEMMA ArrayGrown ==
  ASSUME NEW ops \in Seq(Entries), NEW n \in 1 .. Len(ops), NEW e \in Entries, NEW grown,
         Grows(ops, n, e, grown)
  PROVE  /\ grown \in Seq(Entries) /\ n < Len(grown) /\ grown[n] = e
         /\ \A k \in 1 .. (n - 1) : grown[k] = ops[k]
<1>1. PICK stored : stored = [ops EXCEPT ![n] = e]
  OBVIOUS
<1>2. /\ stored \in Seq(Entries) /\ Len(stored) = Len(ops) /\ stored[n] = e
      /\ \A k \in 1 .. (n - 1) : stored[k] = ops[k]
  BY <1>1
<1>3. CASE n < Len(ops)
  BY <1>1, <1>2, <1>3 DEF Grows
<1>4. CASE n = Len(ops)
  <2>1. 2 * n - Len(ops) = n /\ n \in Nat /\ ~(n < Len(ops))
    BY <1>4
  <2>2. \E new \in [1 .. n -> Uninitialised] : grown = stored \o new
    BY <1>1, <2>1 DEF Grows
  <2>a. PICK new \in [1 .. n -> Uninitialised] : grown = stored \o new
    BY <2>2
  <2>3. Uninitialised \subseteq Entries
    <3>1. Zeroed \in Entries
      BY DEF Zeroed, Entries, Ops
    <3>2. ASSUME NEW e0 \in Entries, NEW x \in Int PROVE [e0 EXCEPT !.expected = x] \in Entries
      BY <3>2 DEF Entries
    <3>3. \A x \in {0, 1} : [Zeroed EXCEPT !.expected = x] \in Entries
      BY <3>1, <3>2
    <3>4. QED
      BY <3>3 DEF Uninitialised
  <2>4. new \in Seq(Entries) /\ Len(new) = n
    <3>1. new \in [1 .. n -> Entries]
      BY <2>a, <2>3
    <3>2. QED
      BY <2>1, <3>1, SeqDef, LenProperties
  <2>5. /\ grown \in Seq(Entries) /\ Len(grown) = n + n
        /\ \A k \in 1 .. (n + n) : grown[k] = IF k <= n THEN stored[k] ELSE new[k - n]
    <3>1. /\ stored \o new \in Seq(Entries) /\ Len(stored \o new) = Len(stored) + Len(new)
          /\ \A k \in 1 .. Len(stored) + Len(new) :
               (stored \o new)[k] = IF k <= Len(stored) THEN stored[k] ELSE new[k - Len(stored)]
      BY <1>2, <2>4, ConcatProperties
    <3>2. Len(stored) = n /\ Len(new) = n
      BY <1>2, <1>4, <2>4
    <3>3. QED
      BY <2>a, <3>1, <3>2
  <2>6. \A k \in 1 .. n : grown[k] = stored[k]
    BY <2>1, <2>5
  <2>7. n < n + n /\ grown[n] = stored[n]
    BY <2>6
  <2>8. \A k \in 1 .. (n - 1) : grown[k] = stored[k]
    BY <2>1, <2>6
  <2>9. QED
    BY <1>2, <2>5, <2>7, <2>8
<1>5. QED
  BY <1>3, <1>4

LEMMA ArrayRead ==
  ASSUME BarrierInv, ReadLine, main'.pc # "failed", NEW n, n = main.i + 1
  PROVE  /\ n \in 1 .. OpCountRead /\ n <= Len(operations) /\ n < Len(operations')
         /\ main' = [pc |-> "parse", i |-> n] /\ operations' \in Seq(Entries)
         /\ operations'[n] = ParseLine(args.file[n], operations[n]).entry
         /\ \A k \in 1 .. (n - 1) : operations'[k] = operations[k]
<1>1. /\ main \in [pc : MainPcs, i : Nat] /\ main.pc = "parse" /\ operations \in Seq(Entries)
      /\ OpCountRead \in Nat
  BY InvocationTypes DEF BarrierInv, ClientTypeOK, ReadLine
<1>2. n \in 1 .. OpCountRead /\ n \in 1 .. Len(operations) /\ n <= Len(operations)
  BY <1>1 DEF BarrierInv, RoomToRead, ReadLine
<1>3. PICK parsed : parsed = ParseLine(args.file[n], operations[n])
  OBVIOUS
<1>4. parsed \in ParserStates
  BY <1>1, <1>2, <1>3, InvocationTypes, LineParsedWell DEF BarrierInv
<1>5. parsed.entry \in Entries
  BY <1>4 DEF ParserStates
<1>6. /\ main' = [main EXCEPT !.i = n]
      /\ Grows(operations, n, parsed.entry, operations')
  <2>1. ~Exit
    BY <1>1 DEF Exit
  <2>2. QED
    BY <1>3, <2>1 DEF ReadLine, Grows
<1>7. main' = [pc |-> "parse", i |-> n]
  BY <1>1, <1>6
<1>8. PICK ops, grown : ops = operations /\ grown = operations'
  OBVIOUS
<1>9. /\ grown \in Seq(Entries) /\ n < Len(grown) /\ grown[n] = parsed.entry
      /\ \A k \in 1 .. (n - 1) : grown[k] = ops[k]
  BY <1>1, <1>2, <1>5, <1>6, <1>8, ArrayGrown
<1>10. \A k \in 1 .. (n - 1) : operations'[k] = operations[k]
  BY <1>8, <1>9
<1>11. QED
  BY <1>2, <1>3, <1>7, <1>8, <1>9, <1>10

LEMMA ReadLineKeepsBarrier == ASSUME BarrierInv, ReadLine PROVE BarrierInv'
<1>1. /\ main \in [pc : MainPcs, i : Nat] /\ main.pc = "parse"
      /\ args' = args /\ thr' = thr /\ refused' = refused /\ task' = task
      /\ \A t \in Ids : thr[t].pc = "unborn"
  BY DEF BarrierInv, ClientTypeOK, CreatedInOrder, ReadLine
<1>2. CASE main'.pc = "failed"
  <2>1. main' = [main EXCEPT !.pc = "failed"] /\ operations' = operations
    <3>1. main'.pc # "parse"
      BY <1>2
    <3>2. ~(main' = [main EXCEPT !.i = main.i + 1])
      BY <1>1, <3>1
    <3>3. QED
      BY <3>2 DEF ReadLine, Exit
  <2>2. QED
    BY <1>1, <2>1 DEF BarrierInv, ClientTypeOK, CreatedInOrder, HeldAtTheBarrier,
                      CallsFromTheLoop, RoomToRead, MainPcs, Contexts
<1>3. CASE main'.pc # "failed"
  <2>1. PICK n : n = main.i + 1
    OBVIOUS
  <2>2. /\ n \in 1 .. OpCountRead /\ n < Len(operations')
        /\ main' = [pc |-> "parse", i |-> n] /\ operations' \in Seq(Entries)
    BY <1>3, <2>1, ArrayRead
  <2>3. n \in Nat /\ n <= OpCountRead /\ OpCountRead' = OpCountRead
    BY <1>1, <2>2, InvocationTypes DEF BarrierInv, OpCountRead
  <2>4. QED
    BY <1>1, <2>2, <2>3 DEF BarrierInv, ClientTypeOK, CreatedInOrder, HeldAtTheBarrier,
                      CallsFromTheLoop, RoomToRead, MainPcs, Contexts
<1>4. QED
  BY <1>2, <1>3

LEMMA MainKeepsBarrier ==
  ASSUME BarrierInv, EndOfFile \/ CreateThread \/ CreateFails \/ JoinAll PROVE BarrierInv'
<1>1. /\ ClientTypeOK /\ CreatedInOrder /\ HeldAtTheBarrier /\ CallsFromTheLoop
      /\ main \in [pc : MainPcs, i : Nat] /\ thr \in [Ids -> Contexts]
      /\ args.n \in 0 .. MaxThreads /\ MaxThreads \in Nat /\ Ids = 0 .. (MaxThreads - 1)
      /\ Tasks \subseteq Ids
  BY InvocationTypes DEF BarrierInv, ClientTypeOK
<1>2. /\ args' = args /\ operations' = operations /\ refused' = refused /\ task' = task
  BY DEF EndOfFile, CreateThread, CreateFails, JoinAll
<1>3. CASE EndOfFile
  <2>1. main' = [pc |-> "create", i |-> 0] /\ thr' = thr /\ \A t \in Ids : thr[t].pc = "unborn"
    BY <1>1, <1>3 DEF EndOfFile, CreatedInOrder
  <2>2. ClientTypeOK'
    BY <1>1, <1>2, <2>1 DEF ClientTypeOK, MainPcs
  <2>3. QED
    BY <1>1, <1>2, <2>1, <2>2
       DEF BarrierInv, CreatedInOrder, HeldAtTheBarrier, CallsFromTheLoop, RoomToRead
<1>4. CASE CreateThread
  <2>1. /\ main.pc = "create" /\ main.i < args.n /\ main.i \in Ids
        /\ main' = [pc |-> "create", i |-> main.i + 1]
        /\ thr' = [thr EXCEPT ![main.i].pc = "barrier"]
    BY <1>1, <1>4 DEF CreateThread
  <2>2. /\ thr' \in [Ids -> Contexts] /\ thr'[main.i].pc = "barrier"
        /\ \A t \in Ids \ {main.i} : thr'[t] = thr[t]
    BY <1>1, <2>1 DEF Contexts, ThreadPcs
  <2>3. \A t \in Ids : thr[t].pc \in {"unborn", "barrier"} /\ (thr[t].pc = "unborn" <=> main.i <= t)
    BY <1>1, <2>1 DEF CreatedInOrder, HeldAtTheBarrier, StillCreating
  <2>4. \A t \in Tasks : task[t].pc = "idle"
    BY <1>1, <2>3 DEF CallsFromTheLoop
  <2>5. ClientTypeOK'
    BY <1>1, <1>2, <2>1, <2>2 DEF ClientTypeOK, MainPcs
  <2>6. CreatedInOrder'
    BY <1>1, <1>2, <2>1, <2>2, <2>3 DEF CreatedInOrder
  <2>7. QED
    BY <1>2, <2>1, <2>2, <2>3, <2>4, <2>5, <2>6
       DEF BarrierInv, HeldAtTheBarrier, CallsFromTheLoop, RoomToRead
<1>5. CASE CreateFails \/ JoinAll
  <2>1. /\ main.pc = "create" /\ thr' = thr
        /\ \/ main' = [main EXCEPT !.pc = "done"]
           \/ main' = [main EXCEPT !.pc = "failed"] /\ main.i < args.n
    BY <1>5 DEF CreateFails, JoinAll, Exit
  <2>a. /\ main'.pc = "done" \/ (main'.pc = "failed" /\ main.i < args.n)
        /\ main' \in [pc : MainPcs, i : Nat]
    BY <1>1, <2>1 DEF MainPcs
  <2>2. QED
    BY <1>1, <1>2, <2>1, <2>a DEF BarrierInv, ClientTypeOK, CreatedInOrder, HeldAtTheBarrier,
                                  StillCreating, Gone, CallsFromTheLoop, RoomToRead
<1>6. QED
  BY <1>3, <1>4, <1>5

\* What a step of the threads may do to the barrier's invariant.
LEMMA ThreadsKeepBarrier ==
  ASSUME BarrierInv, UNCHANGED <<args, main, operations>>, thr' \in [Ids -> Contexts],
         refused' \in [Ids -> SUBSET Nat], NEW t \in Ids,
         thr[t].pc # "unborn" /\ thr'[t].pc # "unborn",
         ~StillCreating, \A u \in Ids \ {t} : thr'[u] = thr[u], CallsFromTheLoop'
  PROVE  BarrierInv'
<1>1. ~StillCreating' /\ OpCountRead' = OpCountRead
  BY DEF StillCreating, Gone, OpCountRead
<1>2. \A u \in Ids : thr'[u].pc = "unborn" <=> thr[u].pc = "unborn"
  OBVIOUS
<1>3. QED
  BY <1>1, <1>2 DEF BarrierInv, ClientTypeOK, CreatedInOrder, HeldAtTheBarrier, RoomToRead,
                    OpCountRead

LEMMA PassKeepsBarrier == ASSUME BarrierInv, NEW t \in Ids, PassBarrier(t) PROVE BarrierInv'
<1>1. thr \in [Ids -> Contexts] /\ refused \in [Ids -> SUBSET Nat] /\ CallsFromTheLoop
  BY DEF BarrierInv, ClientTypeOK
<1>2. /\ thr[t].pc = "barrier" /\ UNCHANGED <<args, main, operations, refused, task>>
      /\ \E pc \in {"loop", "returned"} : thr' = [thr EXCEPT ![t].pc = pc]
  BY DEF PassBarrier, LoopPc
<1>3. thr' \in [Ids -> Contexts] /\ thr'[t].pc # "unborn" /\ \A u \in Ids \ {t} : thr'[u] = thr[u]
  BY <1>1, <1>2 DEF Contexts, ThreadPcs
<1>4. CallsFromTheLoop'
  BY <1>1, <1>2, <1>3 DEF CallsFromTheLoop
<1>5. ~StillCreating
  BY BarrierHolds
<1>6. QED
  BY <1>1, <1>2, <1>3, <1>4, <1>5, ThreadsKeepBarrier

LEMMA IterationKeepsBarrier ==
  ASSUME BarrierInv, RingTypeOK, NEW t \in Tasks,
         CallIoctl(t) \/ CountResult(t) \/ SkipResult(t)
  PROVE  BarrierInv'
<1>1. /\ thr \in [Ids -> Contexts] /\ refused \in [Ids -> SUBSET Nat] /\ CallsFromTheLoop
      /\ task \in [Tasks -> Calls] /\ t \in Ids /\ Tasks \subseteq Ids
  BY InvocationTypes, RingTypes DEF BarrierInv, ClientTypeOK
<1>2. UNCHANGED <<args, main, operations>>
  BY DEF CallIoctl, CountResult, SkipResult
<1>3. CASE CallIoctl(t)
  <2>1. /\ thr[t].pc = "loop" /\ refused' = refused /\ thr' = [thr EXCEPT ![t].pc = "ioctl"]
        /\ \A u \in Tasks \ {t} : task'[u] = task[u]
    BY <1>1, <1>3 DEF CallIoctl, Begin
  <2>2. /\ thr' \in [Ids -> Contexts] /\ thr'[t].pc = "ioctl"
        /\ \A u \in Ids \ {t} : thr'[u] = thr[u]
    BY <1>1, <2>1 DEF Contexts, ThreadPcs
  <2>3. CallsFromTheLoop'
    BY <1>1, <2>1, <2>2 DEF CallsFromTheLoop
  <2>4. ~StillCreating
    BY <1>1, <2>1 DEF BarrierInv, HeldAtTheBarrier
  <2>5. QED
    BY <1>1, <1>2, <2>1, <2>2, <2>3, <2>4, ThreadsKeepBarrier
<1>4. CASE CountResult(t) \/ SkipResult(t)
  <2>1. /\ task[t].pc # "idle" /\ task'[t].pc = "idle" /\ \A u \in Tasks \ {t} : task'[u] = task[u]
    BY <1>1, <1>4 DEF CountResult, SkipResult, ReturnDone, SubmitBusy, Calls
  <2>2. /\ refused' \in [Ids -> SUBSET Nat]
        /\ \E s, e \in {0, 1} : thr' = [thr EXCEPT ![t] = Iterated(t, s, e)]
    BY <1>1, <1>4 DEF CountResult, SkipResult, Contexts
  <2>3. PICK s, e \in {0, 1} : thr' = [thr EXCEPT ![t] = Iterated(t, s, e)]
    BY <2>2
  <2>4. Iterated(t, s, e) \in Contexts /\ Iterated(t, s, e).pc # "unborn"
    BY <1>1, <2>3 DEF Iterated, Contexts, ThreadPcs, LoopPc
  <2>5. /\ thr' \in [Ids -> Contexts] /\ thr'[t].pc # "unborn"
        /\ \A u \in Ids \ {t} : thr'[u] = thr[u]
    BY <1>1, <2>3, <2>4
  <2>6. thr[t].pc = "ioctl"
    BY <1>1, <2>1 DEF CallsFromTheLoop
  <2>7. CallsFromTheLoop'
    BY <1>1, <2>1, <2>5 DEF CallsFromTheLoop
  <2>8. ~StillCreating
    BY <1>1, <2>6 DEF BarrierInv, HeldAtTheBarrier
  <2>9. QED
    BY <1>1, <1>2, <2>2, <2>5, <2>6, <2>7, <2>8, ThreadsKeepBarrier
<1>5. QED
  BY <1>3, <1>4

LEMMA RingKeepsBarrier ==
  ASSUME BarrierInv, RingTypeOK, UNCHANGED hammerOwn,
         (\E t \in Tasks : Submit(t) \/ StartDmaJob(t)) \/ TopHalf \/ Kthread \/ UNCHANGED vars
  PROVE  BarrierInv'
<1>1. task \in [Tasks -> Calls] /\ CallsFromTheLoop
  BY RingTypes DEF BarrierInv
<1>2. \A t \in Tasks : task'[t].pc # "idle" => task[t].pc # "idle"
  <2>1. ASSUME NEW t \in Tasks, Submit(t) \/ StartDmaJob(t)
        PROVE  task[t].pc # "idle" /\ \A u \in Tasks \ {t} : task'[u] = task[u]
    BY <1>1, <2>1 DEF Submit, StartDmaJob, Goto
  <2>2. ASSUME TopHalf \/ Kthread \/ UNCHANGED vars PROVE task' = task
    BY <2>2 DEF TopHalf, IrqEnter, IrqReadCause, IrqReadStatus, Kthread, KSleep, KTakeJobDone,
                KSpurious, KLock, KScan, KUnlock, vars
  <2>3. QED
    BY <2>1, <2>2
<1>3. UNCHANGED <<args, main, operations, thr, refused>>
  BY DEF hammerOwn
<1>4. QED
  BY <1>1, <1>2, <1>3 DEF BarrierInv, ClientTypeOK, CreatedInOrder, HeldAtTheBarrier,
       StillCreating, Gone, CallsFromTheLoop, RoomToRead, OpCountRead

LEMMA BarrierStep == RingInv /\ BarrierInv /\ [HammerNext]_hammerVars => BarrierInv'
<1> SUFFICES ASSUME RingInv, BarrierInv, [HammerNext]_hammerVars PROVE BarrierInv'
  OBVIOUS
<1>0. RingTypeOK
  BY DEF RingInv
<1>1. CASE Main
  BY <1>1, ReadLineKeepsBarrier, MainKeepsBarrier DEF Main
<1>2. CASE \E t \in Ids : PassBarrier(t)
  BY <1>2, PassKeepsBarrier
<1>3. CASE \E t \in Tasks : ThreadStep(t)
  BY <1>0, <1>3, IterationKeepsBarrier, RingKeepsBarrier DEF ThreadStep, Idly
<1>4. CASE Idly(TopHalf) \/ Idly(Kthread) \/ UNCHANGED hammerVars
  BY <1>0, <1>4, RingKeepsBarrier DEF Idly, hammerVars, hammerOwn, vars
<1>5. QED
  BY <1>1, <1>2, <1>3, <1>4 DEF HammerNext

LEMMA BarrierInvariant == HammerSpec => [](RingInv /\ BarrierInv)
<1>1. HammerInit => RingInv /\ BarrierInv
  BY RingInvInit, BarrierInit DEF HammerInit
<1>2. RingInv /\ BarrierInv /\ [HammerNext]_hammerVars => (RingInv /\ BarrierInv)'
  BY RingInvStep, ClientStepsAreRingSteps, BarrierStep
<1>3. QED
  BY <1>1, <1>2, PTL DEF HammerSpec

(***************************************************************************)
(* When main gives up because a thread cannot be created (errx, after      *)
(* pthread_create), no call is cut off: the threads that exist are at the  *)
(* barrier.  With or without DMA faults.                                   *)
(***************************************************************************)
THEOREM HammerCutsOffNoCall == HammerSpec => []NoCallCutOff
<1>1. BarrierInv => NoCallCutOff
  BY InvocationTypes
     DEF BarrierInv, HeldAtTheBarrier, StillCreating, CallsFromTheLoop, NoCallCutOff
<1>2. QED
  BY <1>1, BarrierInvariant, PTL
-----------------------------------------------------------------------------
(***************************************************************************)
(* The verdicts.  The array holds the file as it is written, line by line; *)
(* a call under way is the one of its thread's next line; so an iteration  *)
(* compares the outcome of a line's command with that line's expectation.  *)
(***************************************************************************)
FileComplete == \A k \in 1 .. OpCountRead : Complete(args.file[k])

LinesRead == IF main.pc = "parse" THEN main.i ELSE OpCountRead

AsWritten == ~Gone => \A k \in 1 .. LinesRead : operations[k] = EntryOf(args.file[k])

InTheLoop ==
  \A t \in Ids :
    /\ thr[t].pc \in {"unborn", "barrier"} => thr[t].i = 0
    /\ thr[t].pc \in {"loop", "ioctl"} => t \in Tasks /\ thr[t].i < OpCountRead
    /\ refused[t] \subseteq 1 .. thr[t].i

OwnLine == \A t \in Tasks : task[t].pc # "idle" => task[t].req = operations[thr[t].i + 1].cmd

\* VerdictsTrue, over the lines that are right or wrong as a set.
RightLines == {k \in Nat : LineIsRight(args.file[k])}
Counted(n, skipped, lines) == {k \in (1 .. n) \ skipped : k \in lines}
Answered(t, lines) == Counted(thr[t].i, refused[t], lines)

TrueCounts(t) ==
  /\ thr[t].success = Cardinality(Answered(t, RightLines))
  /\ thr[t].error = Cardinality(Answered(t, Nat \ RightLines))

VerdictsInv ==
  InTheLoop /\ (FileComplete => AsWritten /\ OwnLine /\ \A t \in Ids : TrueCounts(t))

LEMMA VerdictsFromCounts == ASSUME ClientTypeOK, VerdictsInv PROVE VerdictsTrue
<1> SUFFICES ASSUME FileComplete, NEW t \in Ids
             PROVE  LET answered == (1 .. thr[t].i) \ refused[t] IN
                    /\ thr[t].success = Cardinality({k \in answered : LineIsRight(args.file[k])})
                    /\ thr[t].error = Cardinality({k \in answered : ~LineIsRight(args.file[k])})
  BY DEF VerdictsTrue, FileComplete
<1>1. thr[t].i \in Nat
  BY DEF ClientTypeOK, Contexts
<1>2. \A k \in 1 .. thr[t].i : k \in Nat
  BY <1>1
<1>3. Answered(t, RightLines) = {k \in (1 .. thr[t].i) \ refused[t] : LineIsRight(args.file[k])}
  BY <1>2 DEF Answered, Counted, RightLines
<1>4. Answered(t, Nat \ RightLines)
        = {k \in (1 .. thr[t].i) \ refused[t] : ~LineIsRight(args.file[k])}
  BY <1>2 DEF Answered, Counted, RightLines
<1>5. QED
  BY <1>3, <1>4 DEF VerdictsInv, TrueCounts

\* One more iteration, answered or refused.
LEMMA OneMoreIteration ==
  ASSUME NEW n \in Nat, NEW R, R \subseteq 1 .. n, NEW W
  PROVE  /\ Cardinality(Counted(n + 1, R, W))
              = Cardinality(Counted(n, R, W)) + (IF n + 1 \in W THEN 1 ELSE 0)
         /\ Counted(n + 1, R \cup {n + 1}, W) = Counted(n, R, W)
         /\ Cardinality(Counted(n, R, W)) \in Nat
<1> DEFINE Before == Counted(n, R, W)
           After == Counted(n + 1, R, W)
<1>1. IsFiniteSet(Before) /\ Cardinality(Before) \in Nat
  <2>1. IsFiniteSet(1 .. n)
    BY FS_Interval
  <2>2. Before \in SUBSET (1 .. n)
    BY DEF Counted
  <2>3. QED
    BY <2>1, <2>2, FS_Subset, FS_CardinalityType
<1>2. n + 1 \notin Before /\ n + 1 \notin R
  BY DEF Counted
<1>3. After = IF n + 1 \in W THEN Before \cup {n + 1} ELSE Before
  BY DEF Counted
<1>4. Cardinality(After) = Cardinality(Before) + (IF n + 1 \in W THEN 1 ELSE 0)
  <2> HIDE DEF Before, After
  <2>1. CASE n + 1 \in W
    <3>1. After = Before \cup {n + 1}
      BY <1>3, <2>1
    <3>2. QED
      BY <1>1, <1>2, <2>1, <3>1, FS_AddElement
  <2>2. CASE n + 1 \notin W
    BY <1>1, <1>3, <2>2
  <2>3. QED
    BY <2>1, <2>2
<1>5. Counted(n + 1, R \cup {n + 1}, W) = Before
  BY DEF Counted
<1>6. QED
  BY <1>1, <1>4, <1>5

LEMMA VerdictsInit == HammerInit => VerdictsInv
<1> SUFFICES ASSUME HammerInit PROVE VerdictsInv
  OBVIOUS
<1>1. /\ \A t \in Ids : thr[t] = Start /\ refused[t] = {}
      /\ \A t \in Tasks : task[t].pc = "idle"
      /\ main.pc = "parse" /\ main.i = 0
  BY DEF HammerInit, RingInit
<1>2. InTheLoop /\ OwnLine /\ AsWritten
  BY <1>1 DEF InTheLoop, OwnLine, AsWritten, LinesRead, Start
<1>3. ASSUME NEW t \in Ids PROVE TrueCounts(t)
  <2>1. thr[t].i = 0 /\ thr[t].success = 0 /\ thr[t].error = 0 /\ 1 .. 0 = {}
    BY <1>1 DEF Start
  <2>2. \A W : Answered(t, W) = {}
    BY <2>1 DEF Answered, Counted
  <2>3. QED
    BY <2>1, <2>2, FS_EmptySet DEF TrueCounts
<1>4. QED
  BY <1>2, <1>3 DEF VerdictsInv

\* Steps that count nothing.
LEMMA NothingCounted ==
  ASSUME ClientTypeOK, VerdictsInv, UNCHANGED <<args, refused>>, InTheLoop',
         \A t \in Ids : /\ thr'[t].i = thr[t].i /\ thr'[t].success = thr[t].success
                        /\ thr'[t].error = thr[t].error,
         FileComplete => AsWritten' /\ OwnLine'
  PROVE  VerdictsInv'
<1>1. (FileComplete' <=> FileComplete) /\ RightLines' = RightLines
  BY DEF FileComplete, OpCountRead, RightLines
<1>2. ASSUME NEW t \in Ids, NEW W PROVE Answered(t, W)' = Answered(t, W)
  BY DEF Answered
<1>3. ASSUME NEW t \in Ids, TrueCounts(t) PROVE TrueCounts(t)'
  BY <1>1, <1>2, <1>3 DEF TrueCounts
<1>4. QED
  BY <1>1, <1>3 DEF VerdictsInv

LEMMA ReadLineVerdicts == ASSUME BarrierInv, VerdictsInv, ReadLine PROVE VerdictsInv'
<1>1. /\ UNCHANGED <<args, thr, refused, task>> /\ ClientTypeOK /\ main \in [pc : MainPcs, i : Nat]
      /\ main.pc = "parse" /\ \A t \in Ids : thr[t].pc = "unborn"
      /\ \A t \in Tasks : task[t].pc = "idle"
  BY InvocationTypes
     DEF ReadLine, BarrierInv, ClientTypeOK, CreatedInOrder, CallsFromTheLoop
<1>2. InTheLoop' /\ OwnLine'
  BY <1>1 DEF VerdictsInv, InTheLoop, OwnLine, OpCountRead
<1>3. ASSUME FileComplete PROVE AsWritten'
  <2> SUFFICES ASSUME ~Gone', NEW k \in 1 .. LinesRead'
               PROVE  operations'[k] = EntryOf(args.file[k])
    BY <1>1 DEF AsWritten
  <2>1. PICK n : n = main.i + 1
    OBVIOUS
  <2>2. /\ n \in 1 .. OpCountRead /\ n <= Len(operations) /\ main' = [pc |-> "parse", i |-> n]
        /\ operations'[n] = ParseLine(args.file[n], operations[n]).entry
        /\ \A j \in 1 .. (n - 1) : operations'[j] = operations[j]
    BY <2>1, ArrayRead DEF Gone
  <2>3. n \in Nat /\ k \in 1 .. n /\ OpCountRead \in Nat /\ n - 1 = LinesRead
    <3>1. main.i \in Nat /\ LinesRead = main.i /\ LinesRead' = n
      BY <1>1, <2>2 DEF LinesRead
    <3>2. OpCountRead \in Nat
      BY <1>1, InvocationTypes DEF ClientTypeOK
    <3>3. QED
      BY <2>1, <3>1, <3>2
  <2>4. CASE k = n
    <3>1. args.file[n] \in Seq(Tokens) /\ operations[n] \in Entries /\ Complete(args.file[n])
      BY <1>1, <1>3, <2>2, <2>3, InvocationTypes DEF ClientTypeOK, FileComplete
    <3>2. ParseLine(args.file[n], operations[n]).entry = EntryOf(args.file[n])
      BY <3>1, CompleteLineRead
    <3>3. QED
      BY <2>2, <2>4, <3>2
  <2>5. CASE k # n
    <3>1. k \in 1 .. (n - 1)
      BY <2>3, <2>5
    <3>2. operations[k] = EntryOf(args.file[k])
      BY <1>1, <1>3, <2>3, <3>1 DEF VerdictsInv, AsWritten, Gone
    <3>3. QED
      BY <2>2, <3>1, <3>2
  <2>6. QED
    BY <2>4, <2>5
<1>4. QED
  BY <1>1, <1>2, <1>3, NothingCounted

LEMMA MainVerdicts ==
  ASSUME BarrierInv, VerdictsInv, EndOfFile \/ CreateThread \/ CreateFails \/ JoinAll
  PROVE  VerdictsInv'
<1>1. UNCHANGED <<args, operations, refused, task>> /\ ClientTypeOK /\ OpCountRead' = OpCountRead
  BY DEF EndOfFile, CreateThread, CreateFails, JoinAll, BarrierInv, OpCountRead
<1>2. /\ ~Gone' => ~Gone /\ LinesRead' = LinesRead
      /\ thr' = thr \/ (main.i \in Ids /\ thr[main.i].pc = "unborn"
                          /\ thr' = [thr EXCEPT ![main.i].pc = "barrier"])
  <2>1. main \in [pc : MainPcs, i : Nat] /\ args.n \in 0 .. MaxThreads /\ MaxThreads \in Nat
        /\ Ids = 0 .. (MaxThreads - 1)
    BY <1>1, InvocationTypes DEF ClientTypeOK
  <2>2. CASE EndOfFile
    BY <1>1, <2>1, <2>2 DEF EndOfFile, Gone, LinesRead
  <2>3. CASE CreateThread
    BY <1>1, <2>1, <2>3 DEF CreateThread, Gone, LinesRead, BarrierInv, CreatedInOrder
  <2>4. CASE CreateFails \/ JoinAll
    BY <1>1, <2>1, <2>4 DEF CreateFails, JoinAll, Exit, Gone, LinesRead
  <2>5. QED
    BY <2>2, <2>3, <2>4
<1>3. ASSUME NEW t \in Ids
      PROVE  /\ thr'[t].i = thr[t].i /\ thr'[t].success = thr[t].success
             /\ thr'[t].error = thr[t].error
             /\ thr'[t].pc = thr[t].pc \/ (thr[t].pc = "unborn" /\ thr'[t].pc = "barrier")
  <2>1. thr \in [Ids -> Contexts]
    BY <1>1 DEF ClientTypeOK
  <2>2. CASE thr' = thr
    BY <2>2
  <2>3. CASE /\ main.i \in Ids /\ thr[main.i].pc = "unborn"
             /\ thr' = [thr EXCEPT ![main.i].pc = "barrier"]
    BY <2>1, <2>3 DEF Contexts
  <2>4. QED
    BY <1>2, <2>2, <2>3
<1>4. InTheLoop'
  BY <1>1, <1>3 DEF VerdictsInv, InTheLoop
<1>5. FileComplete => AsWritten' /\ OwnLine'
  <2>1. FileComplete => AsWritten'
    BY <1>1, <1>2 DEF VerdictsInv, AsWritten
  <2>2. FileComplete => OwnLine'
    BY <1>1, <1>3, InvocationTypes DEF VerdictsInv, OwnLine
  <2>3. QED
    BY <2>1, <2>2
<1>6. QED
  BY <1>1, <1>3, <1>4, <1>5, NothingCounted

LEMMA PassVerdicts ==
  ASSUME BarrierInv, VerdictsInv, NEW t \in Ids, PassBarrier(t) PROVE VerdictsInv'
<1>1. /\ UNCHANGED <<args, main, operations, refused, task>> /\ ClientTypeOK
      /\ OpCountRead' = OpCountRead /\ thr[t].pc = "barrier" /\ thr[t].i = 0
  BY DEF PassBarrier, BarrierInv, OpCountRead, VerdictsInv, InTheLoop
<1>2. \/ t \in Tasks /\ 0 < OpCountRead /\ thr' = [thr EXCEPT ![t].pc = "loop"]
      \/ thr' = [thr EXCEPT ![t].pc = "returned"]
  BY DEF PassBarrier, LoopPc
<1>3. ASSUME NEW u \in Ids
      PROVE  /\ thr'[u].i = thr[u].i /\ thr'[u].success = thr[u].success
             /\ thr'[u].error = thr[u].error
             /\ \/ thr'[u].pc = thr[u].pc \/ thr'[u].pc = "returned"
                \/ u = t /\ t \in Tasks /\ 0 < OpCountRead /\ thr'[u].pc = "loop"
  BY <1>1, <1>2 DEF ClientTypeOK, Contexts
<1>4. InTheLoop'
  BY <1>1, <1>3 DEF VerdictsInv, InTheLoop
<1>5. FileComplete => AsWritten' /\ OwnLine'
  <2>1. FileComplete => AsWritten'
    BY <1>1 DEF VerdictsInv, AsWritten, LinesRead, Gone
  <2>2. FileComplete => OwnLine'
    BY <1>1, <1>3, InvocationTypes DEF VerdictsInv, OwnLine
  <2>3. QED
    BY <2>1, <2>2
<1>6. QED
  BY <1>1, <1>3, <1>4, <1>5, NothingCounted

LEMMA CallVerdicts ==
  ASSUME BarrierInv, RingTypeOK, VerdictsInv, NEW t \in Tasks, CallIoctl(t) PROVE VerdictsInv'
<1>1. /\ UNCHANGED <<args, main, operations, refused>> /\ ClientTypeOK
      /\ OpCountRead' = OpCountRead /\ task \in [Tasks -> Calls] /\ t \in Ids
      /\ Tasks \subseteq Ids /\ thr[t].pc = "loop" /\ thr[t].i < OpCountRead
  BY InvocationTypes, RingTypes DEF CallIoctl, BarrierInv, OpCountRead, VerdictsInv, InTheLoop
<1>2. /\ thr' = [thr EXCEPT ![t].pc = "ioctl"] /\ \A u \in Tasks \ {t} : task'[u] = task[u]
      /\ task'[t].req = operations[thr[t].i + 1].cmd
  BY <1>1 DEF CallIoctl, Begin
<1>3. ASSUME NEW u \in Ids
      PROVE  /\ thr'[u].i = thr[u].i /\ thr'[u].success = thr[u].success
             /\ thr'[u].error = thr[u].error
             /\ thr'[u].pc = thr[u].pc \/ (u = t /\ thr'[u].pc = "ioctl")
  BY <1>1, <1>2 DEF ClientTypeOK, Contexts
<1>4. InTheLoop'
  BY <1>1, <1>3 DEF VerdictsInv, InTheLoop
<1>5. FileComplete => AsWritten' /\ OwnLine'
  <2>1. FileComplete => AsWritten'
    BY <1>1 DEF VerdictsInv, AsWritten, LinesRead, Gone
  <2>2. FileComplete => OwnLine'
    BY <1>1, <1>2, <1>3 DEF VerdictsInv, OwnLine
  <2>3. QED
    BY <2>1, <2>2
<1>6. QED
  BY <1>1, <1>3, <1>4, <1>5, NothingCounted

LEMMA RingVerdicts ==
  ASSUME BarrierInv, RingTypeOK, VerdictsInv, UNCHANGED hammerOwn,
         (\E t \in Tasks : Submit(t) \/ StartDmaJob(t)) \/ TopHalf \/ Kthread \/ UNCHANGED vars
  PROVE  VerdictsInv'
<1>1. /\ UNCHANGED <<args, main, operations, thr, refused>> /\ ClientTypeOK
      /\ OpCountRead' = OpCountRead /\ task \in [Tasks -> Calls]
  BY RingTypes DEF hammerOwn, BarrierInv, OpCountRead
<1>2. \A t \in Tasks : task'[t].req = task[t].req /\ (task'[t].pc # "idle" => task[t].pc # "idle")
  <2>1. ASSUME NEW t \in Tasks, Submit(t) \/ StartDmaJob(t)
        PROVE  /\ task[t].pc # "idle" /\ task'[t].req = task[t].req
               /\ \A u \in Tasks \ {t} : task'[u] = task[u]
    BY <1>1, <2>1 DEF Submit, StartDmaJob, Goto, Calls
  <2>2. ASSUME TopHalf \/ Kthread \/ UNCHANGED vars PROVE task' = task
    BY <2>2 DEF TopHalf, IrqEnter, IrqReadCause, IrqReadStatus, Kthread, KSleep, KTakeJobDone,
                KSpurious, KLock, KScan, KUnlock, vars
  <2>3. QED
    BY <2>1, <2>2
<1>3. InTheLoop'
  BY <1>1 DEF VerdictsInv, InTheLoop
<1>4. FileComplete => AsWritten' /\ OwnLine'
  <2>1. FileComplete => AsWritten'
    BY <1>1 DEF VerdictsInv, AsWritten, LinesRead, Gone
  <2>2. FileComplete => OwnLine'
    BY <1>1, <1>2 DEF VerdictsInv, OwnLine
  <2>3. QED
    BY <2>1, <2>2
<1>5. QED
  BY <1>1, <1>3, <1>4, NothingCounted

\* The iteration a call belongs to, and its line.
LEMMA LineUnderWay ==
  ASSUME BarrierInv, VerdictsInv, NEW t \in Tasks, task[t].pc # "idle"
  PROVE  /\ t \in Ids /\ thr[t].i \in Nat /\ thr[t].i < OpCountRead
         /\ FileComplete => /\ operations[thr[t].i + 1] = EntryOf(args.file[thr[t].i + 1])
                            /\ task[t].req = operations[thr[t].i + 1].cmd
<1>1. /\ t \in Ids /\ thr \in [Ids -> Contexts] /\ thr[t].pc = "ioctl" /\ OpCountRead \in Nat
  BY InvocationTypes DEF BarrierInv, ClientTypeOK, CallsFromTheLoop
<1>2. ~Gone /\ LinesRead = OpCountRead
  BY <1>1 DEF BarrierInv, HeldAtTheBarrier, StillCreating, LinesRead
<1>3. thr[t].i \in Nat /\ thr[t].i < OpCountRead
  BY <1>1 DEF Contexts, VerdictsInv, InTheLoop
<1>4. thr[t].i + 1 \in 1 .. LinesRead
  BY <1>1, <1>2, <1>3
<1>5. QED
  BY <1>1, <1>2, <1>3, <1>4 DEF VerdictsInv, AsWritten, OwnLine

LEMMA IterationVerdicts ==
  ASSUME ClientTypeOK, VerdictsInv, args' = args, NEW t \in Ids, thr[t].i < OpCountRead,
         t \in Tasks, NEW s \in {0, 1}, NEW e \in {0, 1}, NEW R,
         thr' = [thr EXCEPT ![t] = Iterated(t, s, e)], refused' = [refused EXCEPT ![t] = R],
         FileComplete => AsWritten' /\ OwnLine',
         \/ /\ R = refused[t]
            /\ FileComplete => /\ s = IF thr[t].i + 1 \in RightLines THEN 1 ELSE 0
                               /\ e = IF thr[t].i + 1 \in RightLines THEN 0 ELSE 1
         \/ R = refused[t] \cup {thr[t].i + 1} /\ s = 0 /\ e = 0
  PROVE  VerdictsInv'
<1>1. /\ thr \in [Ids -> Contexts] /\ refused \in [Ids -> SUBSET Nat] /\ OpCountRead \in Nat
      /\ OpCountRead' = OpCountRead /\ (FileComplete' <=> FileComplete)
      /\ RightLines' = RightLines
  BY InvocationTypes DEF ClientTypeOK, OpCountRead, FileComplete, RightLines
<1>2. PICK i, Old : i = thr[t].i /\ Old = refused[t]
  OBVIOUS
<1>3. i \in Nat /\ i < OpCountRead /\ Old \subseteq 1 .. i /\ thr[t] \in Contexts
  BY <1>1, <1>2 DEF Contexts, VerdictsInv, InTheLoop
<1>4. /\ thr'[t].pc \in {"loop", "returned"} /\ thr'[t].i = i + 1
      /\ thr'[t].pc = "loop" => i + 1 < OpCountRead
      /\ thr'[t].success = thr[t].success + s /\ thr'[t].error = thr[t].error + e
      /\ refused'[t] = R
  BY <1>1, <1>2, <1>3 DEF Iterated, LoopPc
<1>5. \A u \in Ids \ {t} : thr'[u] = thr[u] /\ refused'[u] = refused[u]
  BY <1>1
<1>6. R \subseteq 1 .. (i + 1)
  BY <1>2, <1>3
<1>7. InTheLoop'
  BY <1>1, <1>4, <1>5, <1>6 DEF VerdictsInv, InTheLoop
<1>8. ASSUME FileComplete, NEW u \in Ids \ {t} PROVE TrueCounts(u)'
  <2>1. \A W : Answered(u, W)' = Answered(u, W)
    BY <1>5 DEF Answered
  <2>2. TrueCounts(u)
    BY <1>8 DEF VerdictsInv
  <2>3. QED
    BY <1>1, <1>5, <2>1, <2>2 DEF TrueCounts
<1>9. ASSUME FileComplete PROVE TrueCounts(t)'
  <2>1. /\ thr[t].success = Cardinality(Answered(t, RightLines))
        /\ thr[t].error = Cardinality(Answered(t, Nat \ RightLines))
    BY <1>9 DEF VerdictsInv, TrueCounts
  <2>2. \A W : Answered(t, W) = Counted(i, Old, W) /\ Answered(t, W)' = Counted(i + 1, R, W)
    BY <1>2, <1>4 DEF Answered
  <2>3. PICK Wrong : Wrong = Nat \ RightLines
    OBVIOUS
  <2>4. /\ thr[t].success = Cardinality(Counted(i, Old, RightLines))
        /\ thr[t].error = Cardinality(Counted(i, Old, Wrong))
    BY <2>1, <2>2, <2>3
  <2>5. ASSUME NEW W
        PROVE  /\ Cardinality(Counted(i + 1, Old, W))
                    = Cardinality(Counted(i, Old, W)) + (IF i + 1 \in W THEN 1 ELSE 0)
               /\ Counted(i + 1, Old \cup {i + 1}, W) = Counted(i, Old, W)
               /\ Cardinality(Counted(i, Old, W)) \in Nat
    <3>1. i \in Nat /\ Old \subseteq 1 .. i
      BY <1>3
    <3>2. QED
      BY <3>1, OneMoreIteration
  <2>6. /\ thr'[t].success = Cardinality(Counted(i + 1, R, RightLines))
        /\ thr'[t].error = Cardinality(Counted(i + 1, R, Wrong))
    <3>1. CASE R = Old \cup {i + 1} /\ s = 0 /\ e = 0
      <4>1. \A W : Counted(i + 1, R, W) = Counted(i, Old, W)
        BY <2>5, <3>1
      <4>2. thr[t].success \in Nat /\ thr[t].error \in Nat
        BY <2>4, <2>5
      <4>3. thr'[t].success = thr[t].success /\ thr'[t].error = thr[t].error
        BY <1>4, <3>1, <4>2
      <4>4. QED
        BY <2>4, <4>1, <4>3
    <3>2. CASE /\ R = Old /\ s = IF i + 1 \in RightLines THEN 1 ELSE 0
               /\ e = IF i + 1 \in RightLines THEN 0 ELSE 1
      <4>1. s = (IF i + 1 \in RightLines THEN 1 ELSE 0) /\ e = (IF i + 1 \in Wrong THEN 1 ELSE 0)
        BY <1>3, <2>3, <3>2
      <4>2. QED
        BY <1>4, <2>4, <2>5, <3>2, <4>1
    <3>3. QED
      BY <1>2, <1>9, <3>1, <3>2
  <2>7. /\ thr'[t].success = Cardinality(Answered(t, RightLines)')
        /\ thr'[t].error = Cardinality(Answered(t, Nat \ RightLines)')
    BY <1>1, <2>2, <2>3, <2>6
  <2>8. QED
    BY <2>7 DEF TrueCounts
<1>10. QED
  BY <1>1, <1>7, <1>8, <1>9 DEF VerdictsInv

LEMMA AnsweredVerdicts ==
  ASSUME BarrierInv, RingTypeOK, OwnAnswers, VerdictsInv, NEW t \in Tasks,
         CountResult(t) \/ SkipResult(t)
  PROVE  VerdictsInv'
<1>1. /\ UNCHANGED <<args, main, operations>> /\ ClientTypeOK /\ task \in [Tasks -> Calls]
      /\ OpCountRead' = OpCountRead /\ task[t].pc # "idle" /\ thr \in [Ids -> Contexts]
      /\ refused \in [Ids -> SUBSET Nat]
  BY RingTypes
     DEF CountResult, SkipResult, ReturnDone, SubmitBusy, BarrierInv, ClientTypeOK, OpCountRead
<1>2. /\ task'[t].pc = "idle" /\ \A u \in Tasks \ {t} : task'[u] = task[u]
      /\ \A u \in Ids \ {t} : thr'[u] = thr[u]
  BY <1>1 DEF CountResult, SkipResult, ReturnDone, SubmitBusy, Calls
<1>3. /\ t \in Ids /\ thr[t].i \in Nat /\ thr[t].i < OpCountRead
      /\ FileComplete => /\ operations[thr[t].i + 1] = EntryOf(args.file[thr[t].i + 1])
                         /\ task[t].req = operations[thr[t].i + 1].cmd
  BY <1>1, LineUnderWay
<1>4. Tasks \subseteq Ids
  BY <1>1, InvocationTypes
<1>5. FileComplete => AsWritten' /\ OwnLine'
  <2>1. FileComplete => AsWritten'
    BY <1>1 DEF VerdictsInv, AsWritten, LinesRead, Gone
  <2>2. FileComplete => OwnLine'
    BY <1>1, <1>2, <1>4 DEF VerdictsInv, OwnLine
  <2>3. QED
    BY <2>1, <2>2
<1>6. CASE SkipResult(t)
  <2>1. /\ thr' = [thr EXCEPT ![t] = Iterated(t, 0, 0)]
        /\ refused' = [refused EXCEPT ![t] = refused[t] \cup {thr[t].i + 1}]
    BY <1>6 DEF SkipResult
  <2>2. QED
    BY <1>1, <1>3, <1>5, <2>1, IterationVerdicts
<1>7. CASE CountResult(t)
  <2>1. task'[t].ret = pend[t].out /\ refused' = refused /\ task[t].pc = "wait" /\ pend[t].done
    BY <1>1, <1>7 DEF CountResult, ReturnDone, Calls
  <2>2. FileComplete =>
          (task'[t].ret.result = operations[thr[t].i + 1].expected
             <=> thr[t].i + 1 \in RightLines)
    <3>1. pend[t].out = Execute(task[t].req)
      BY <2>1 DEF OwnAnswers
    <3>2. FileComplete => /\ task[t].req = EntryOf(args.file[thr[t].i + 1]).cmd
                          /\ operations[thr[t].i + 1] = EntryOf(args.file[thr[t].i + 1])
      BY <1>3
    <3>3. PICK line : line = args.file[thr[t].i + 1]
      OBVIOUS
    <3>4. FileComplete =>
            /\ task'[t].ret.result
                 = Execute([op |-> line[2].val, a |-> line[1].val, b |-> line[3].val]).result
            /\ operations[thr[t].i + 1].expected = line[4].val
      BY <2>1, <3>1, <3>2, <3>3 DEF EntryOf
    <3>5. thr[t].i + 1 \in RightLines <=> LineIsRight(line)
      BY <1>3, <3>3 DEF RightLines
    <3>6. QED
      BY <3>4, <3>5 DEF LineIsRight
  <2>3. refused' = [refused EXCEPT ![t] = refused[t]]
    BY <1>1, <1>3, <2>1
  <2>4. CASE task'[t].ret.result = operations[thr[t].i + 1].expected
    <3>1. thr' = [thr EXCEPT ![t] = Iterated(t, 1, 0)]
      BY <1>7, <2>4 DEF CountResult
    <3>2. QED
      BY <1>1, <1>3, <1>5, <2>2, <2>3, <2>4, <3>1, IterationVerdicts
  <2>5. CASE task'[t].ret.result # operations[thr[t].i + 1].expected
    <3>1. thr' = [thr EXCEPT ![t] = Iterated(t, 0, 1)]
      BY <1>7, <2>5 DEF CountResult
    <3>2. QED
      BY <1>1, <1>3, <1>5, <2>2, <2>3, <2>5, <3>1, IterationVerdicts
  <2>6. QED
    BY <2>4, <2>5
<1>8. QED
  BY <1>6, <1>7

LEMMA VerdictsStep ==
  PlacesInv /\ OwnAnswers /\ BarrierInv /\ VerdictsInv /\ [HammerNext]_hammerVars => VerdictsInv'
<1> SUFFICES ASSUME PlacesInv, OwnAnswers, BarrierInv, VerdictsInv, [HammerNext]_hammerVars
             PROVE  VerdictsInv'
  OBVIOUS
<1>1. RingTypeOK
  BY DEF PlacesInv, RingInv
<1>2. CASE Main
  BY <1>2, ReadLineVerdicts, MainVerdicts DEF Main
<1>3. CASE \E t \in Ids : PassBarrier(t)
  BY <1>3, PassVerdicts
<1>4. CASE \E t \in Tasks : ThreadStep(t)
  BY <1>1, <1>4, CallVerdicts, AnsweredVerdicts, RingVerdicts DEF ThreadStep, Idly
<1>5. CASE Idly(TopHalf) \/ Idly(Kthread) \/ UNCHANGED hammerVars
  BY <1>1, <1>5, RingVerdicts DEF Idly, hammerVars, hammerOwn, vars
<1>6. QED
  BY <1>2, <1>3, <1>4, <1>5 DEF HammerNext

(***************************************************************************)
(* When no DMA transfer faults, the client's report is true: the counters  *)
(* of thread_fn are the numbers of answered lines that C's arithmetic says *)
(* are right and wrong, however the threads interleave.                    *)
(***************************************************************************)
THEOREM HammerVerdictsTrue == ASSUME ~MayFault PROVE HammerSpec => []VerdictsTrue
<1>1. HammerInit => VerdictsInv
  BY VerdictsInit
<1>2. HammerSpec => [](PlacesInv /\ OwnAnswers /\ BarrierInv)
  BY ClientOnTheRing, BarrierInvariant, PTL
<1>3. BarrierInv /\ VerdictsInv => VerdictsTrue
  BY VerdictsFromCounts DEF BarrierInv
<1>4. QED
  BY <1>1, <1>2, <1>3, VerdictsStep, PTL DEF HammerSpec
================================================================================
