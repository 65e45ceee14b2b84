--------------------------------- MODULE Hammer ---------------------------------
(***************************************************************************)
(* The test client user-clients/concurrency-hammer.c on top of MathRing:   *)
(* it reads a file of operations with expected results, starts threads     *)
(* that wait for each other at a barrier, and has each of them issue every *)
(* operation through MATHACCEL_IOC_COMPUTE and count what was answered     *)
(* right and wrong.                                                        *)
(*                                                                         *)
(* A file is a sequence of lines, a line a sequence of tokens; lines fit   *)
(* the client's buffer.  Thread i opens the device i % DevNodes, and only  *)
(* device 0 is there.  Latencies are left out.                             *)
(***************************************************************************)
EXTENDS MathRing, Sequences

CONSTANTS
  MaxThreads,   \* bound on -n
  DevNodes,     \* device nodes the threads spread over (4 in the code)
  Prealloc,     \* PREALLOCATE_NR
  Invocations   \* arguments of the program: the number of threads, the file

Ids == 0 .. (MaxThreads - 1)

\* Tokens: a number, an operator, anything else.
Number(x) == [kind |-> "number", val |-> x]
Operator(op) == [kind |-> "operator", val |-> op]
Junk == [kind |-> "junk", val |-> 0]

Tokens == [kind : {"number"}, val : Int] \cup [kind : {"operator"}, val : Ops] \cup {Junk}

ASSUME HammerAssumption ==
  /\ MaxThreads \in Nat /\ DevNodes \in Nat \ {0} /\ Prealloc \in Nat \ {0}
  /\ Tasks = {i \in Ids : i % DevNodes = 0}
  /\ \A inv \in Invocations : inv.n \in 0 .. MaxThreads /\ inv.file \in Seq(Seq(Tokens))

VARIABLES
  args,       \* struct program_args
  main,       \* the main thread: where it is, and its loop index
  operations, \* the array: its length is the capacity
  thr,        \* struct thread_context of each thread, and where the thread is
  refused     \* iterations whose ioctl failed: history, the client forgets them

hammerOwn == <<args, main, operations, thr, refused>>
hammerVars == <<dev, sq, cq, drv, xa, pend, task, irq, kth,
                args, main, operations, thr, refused>>

Entries == [cmd : [op : Ops, a : Int, b : Int], expected : Int]
Zeroed == [cmd |-> [op |-> "ADD", a |-> 0, b |-> 0], expected |-> 0]

\* What reallocarray leaves in the new part, as far as a line that lacks its
\* expected result can tell.
Uninitialised == {[Zeroed EXCEPT !.expected = x] : x \in {0, 1}}

Start == [pc |-> "unborn", i |-> 0, success |-> 0, error |-> 0]

HammerInit ==
  /\ RingInit
  /\ \A t \in Tasks : task[t].req = CHOOSE r \in Requests : TRUE
  /\ args \in Invocations
  /\ main = [pc |-> "parse", i |-> 0]
  /\ operations = [k \in 1 .. Prealloc |-> Zeroed]
  /\ thr = [t \in Ids |-> Start]
  /\ refused = [t \in Ids |-> {}]

OpCountRead == Len(args.file)
-----------------------------------------------------------------------------
(***************************************************************************)
(* parse_line: one token after the other, by position in the line; a fifth *)
(* token is the first argument again.  A field whose token is missing      *)
(* keeps what the array held.                                              *)
(***************************************************************************)
\* The operator is told by the first character, so "-5" is a minus.
OperatorOf(token) ==
  CASE token.kind = "operator" -> token.val
    [] token.kind = "number" /\ token.val < 0 -> "SUB"
    [] OTHER -> Invalid

ParseToken(st, token) ==
  CASE st.at = "bad" -> st
    [] st.at = "op" ->
         IF OperatorOf(token) = Invalid THEN [st EXCEPT !.at = "bad"]
         ELSE [st EXCEPT !.entry.cmd.op = OperatorOf(token), !.at = "arg2"]
    [] st.at # "op" /\ token.kind # "number" -> [st EXCEPT !.at = "bad"]
    [] st.at = "arg1" /\ token.kind = "number" ->
         [st EXCEPT !.entry.cmd.a = token.val, !.at = "op"]
    [] st.at = "arg2" /\ token.kind = "number" ->
         [st EXCEPT !.entry.cmd.b = token.val, !.at = "expected"]
    [] st.at = "expected" /\ token.kind = "number" ->
         [st EXCEPT !.entry.expected = token.val, !.at = "arg1"]

ParseLine(line, old) ==
  LET after[k \in 0 .. Len(line)] ==
        IF k = 0 THEN [at |-> "arg1", entry |-> old] ELSE ParseToken(after[k - 1], line[k])
  IN  after[Len(line)]

\* errx: the process exits, and its threads with it.
Exit == main' = [main EXCEPT !.pc = "failed"]
Gone == main.pc = "failed"

ReadLine ==
  /\ main.pc = "parse"
  /\ main.i < OpCountRead
  /\ LET n == main.i + 1
         parsed == ParseLine(args.file[n], operations[n])
         stored == [operations EXCEPT ![n] = parsed.entry]
     IN  IF parsed.at = "bad"
           THEN Exit /\ UNCHANGED operations
           ELSE /\ main' = [main EXCEPT !.i = n]
                /\ IF n < Len(operations)
                     THEN operations' = stored
                     ELSE \E new \in [1 .. (2 * n - Len(operations)) -> Uninitialised] :
                            operations' = stored \o new
  /\ UNCHANGED <<dev, sq, cq, drv, xa, pend, task, irq, kth, args, thr, refused>>

EndOfFile ==
  /\ main.pc = "parse"
  /\ main.i = OpCountRead
  /\ main' = [pc |-> "create", i |-> 0]
  /\ UNCHANGED <<dev, sq, cq, drv, xa, pend, task, irq, kth, args, operations, thr, refused>>

(***************************************************************************)
(* main: create all threads, join them.  A thread's first statement is the *)
(* barrier, so it is there once it exists.                                 *)
(***************************************************************************)
CreateThread ==
  /\ main.pc = "create"
  /\ main.i < args.n
  /\ thr' = [thr EXCEPT ![main.i].pc = "barrier"]
  /\ main' = [main EXCEPT !.i = @ + 1]
  /\ UNCHANGED <<dev, sq, cq, drv, xa, pend, task, irq, kth, args, operations, refused>>

CreateFails ==
  /\ main.pc = "create"
  /\ main.i < args.n
  /\ Exit
  /\ UNCHANGED <<dev, sq, cq, drv, xa, pend, task, irq, kth, args, operations, thr, refused>>

JoinAll ==
  /\ main.pc = "create"
  /\ main.i = args.n
  /\ \A t \in 0 .. (args.n - 1) : thr[t].pc = "returned"
  /\ main' = [main EXCEPT !.pc = "done"]
  /\ UNCHANGED <<dev, sq, cq, drv, xa, pend, task, irq, kth, args, operations, thr, refused>>

Main == ReadLine \/ EndOfFile \/ CreateThread \/ CreateFails \/ JoinAll
-----------------------------------------------------------------------------
(***************************************************************************)
(* thread_fn.                                                              *)
(***************************************************************************)
\* Mutant of BarrierCount: the thread that is created last is not counted.
BarrierCountLess == args.n - 1

BarrierCount == args.n

Arrived == {t \in Ids : thr[t].pc # "unborn"}

\* Where a thread goes on with i iterations behind it.
LoopPc(i) == IF i < OpCountRead THEN "loop" ELSE "returned"

\* pthread_barrier_wait returns, and the thread opens its device or gives up.
PassBarrier(t) ==
  /\ ~Gone
  /\ thr[t].pc = "barrier"
  /\ Cardinality(Arrived) >= BarrierCount
  /\ \/ /\ t \in Tasks
        /\ thr' = [thr EXCEPT ![t].pc = LoopPc(0)]
     \/ thr' = [thr EXCEPT ![t].pc = "returned"]
  /\ UNCHANGED <<dev, sq, cq, drv, xa, pend, task, irq, kth, args, main, operations, refused>>

CallIoctl(t) ==
  /\ ~Gone
  /\ thr[t].pc = "loop"
  /\ Begin(t)
  /\ task'[t].req = operations[thr[t].i + 1].cmd
  /\ thr' = [thr EXCEPT ![t].pc = "ioctl"]
  /\ UNCHANGED <<args, main, operations, refused>>

Iterated(t, success, error) ==
  [pc |-> LoopPc(thr[t].i + 1), i |-> thr[t].i + 1,
   success |-> thr[t].success + success, error |-> thr[t].error + error]

\* The call returns 0, and the thread compares what it got.
CountResult(t) ==
  /\ ~Gone
  /\ ReturnDone(t)
  /\ thr' = [thr EXCEPT ![t] =
               IF task'[t].ret.result = operations[thr[t].i + 1].expected
                 THEN Iterated(t, 1, 0) ELSE Iterated(t, 0, 1)]
  /\ UNCHANGED <<args, main, operations, refused>>

\* It fails, and the thread counts nothing.
SkipResult(t) ==
  /\ ~Gone
  /\ SubmitBusy(t)
  /\ thr' = [thr EXCEPT ![t] = Iterated(t, 0, 0)]
  /\ refused' = [refused EXCEPT ![t] = @ \cup {thr[t].i + 1}]
  /\ UNCHANGED <<args, main, operations>>
-----------------------------------------------------------------------------
Idly(A) == A /\ UNCHANGED hammerOwn

ThreadStep(t) ==
  CallIoctl(t) \/ Idly(Submit(t)) \/ SkipResult(t) \/ Idly(StartDmaJob(t)) \/ CountResult(t)

HammerNext ==
  \/ Main
  \/ \E t \in Ids : PassBarrier(t)
  \/ \E t \in Tasks : ThreadStep(t)
  \/ Idly(TopHalf)
  \/ Idly(Kthread)

\* As in MathRing (a thread that waits for dma_lock gets it in the end); and
\* the threads of the client run.
HammerFairness ==
  /\ WF_hammerVars(Main)
  /\ WF_hammerVars(\E t \in Ids : PassBarrier(t))
  /\ WF_hammerVars(Idly(TopHalf)) /\ WF_hammerVars(Idly(Kthread))
  /\ \A t \in Tasks : SF_hammerVars(ThreadStep(t))

HammerSpec == HammerInit /\ [][HammerNext]_hammerVars /\ HammerFairness
-----------------------------------------------------------------------------
(***************************************************************************)
(* The error exits of the client cut off no call: when main gives up       *)
(* because a thread cannot be created, the threads that were are still at  *)
(* the barrier, which counts all of them (thread_fn's first statement).    *)
(***************************************************************************)
NoCallCutOff == Gone => \A t \in Tasks : task[t].pc = "idle"

(***************************************************************************)
(* The verdicts are true, from the text of the file to the counters: an    *)
(* answered iteration of a complete line counts as an error exactly when   *)
(* the line's expected result is not the one C's arithmetic gives, however *)
(* the threads interleave; and nothing else is counted.                    *)
(***************************************************************************)
Complete(line) ==
  /\ Len(line) = 4
  /\ \A k \in {1, 3, 4} : line[k].kind = "number"
  /\ line[2].kind = "operator"

LineIsRight(line) ==
  Execute([op |-> line[2].val, a |-> line[1].val, b |-> line[3].val]).result = line[4].val

VerdictsTrue ==
  (\A k \in 1 .. OpCountRead : Complete(args.file[k])) =>
    \A t \in Ids :
      LET answered == (1 .. thr[t].i) \ refused[t] IN
      /\ thr[t].success = Cardinality({k \in answered : LineIsRight(args.file[k])})
      /\ thr[t].error = Cardinality({k \in answered : ~LineIsRight(args.file[k])})

(***************************************************************************)
(* The client ends, with its report or an error, when no two of its        *)
(* threads share a device.  Two that do can lose a wake-up: EveryWaitEnds  *)
(* of MathRing, and then main waits in pthread_join for ever.              *)
(***************************************************************************)
HammerEnds == args.n <= DevNodes ~> main.pc \in {"done", "failed"}
=============================================================================
