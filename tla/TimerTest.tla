-------------------------------- MODULE TimerTest -------------------------------
(***************************************************************************)
(* The test client user-clients/timer-test.c on top of LuxTimer: a parent  *)
(* that forks and waits, and a child that sets an alarm, then a periodic   *)
(* one, and waits for each with poll and read (sync) or with signals       *)
(* (async).  The rest of the timer's file operations are here too: reading *)
(* the clock and the alarm, poll, and the asynchronous mode.               *)
(*                                                                         *)
(* There is one child, or instead of it one program that makes any calls   *)
(* of LuxTimer in any order.  The clock of the tests has no end: MaxTime   *)
(* is a window that moves with it.                                         *)
(***************************************************************************)
EXTENDS LuxTimer

CONSTANTS
  Child,      \* the subscriber
  Rounds      \* periodic alarms a test waits for (4 or 5 in the code)

ASSUME TestAssumption == Subs = {Child} /\ Rounds \in Nat

VARIABLES
  parent,     \* the test's main: before the fork, waiting, done; "none" if there is no test
  child,      \* the child: which test, where in it, its period, when it set the time
  async,      \* lux_clock_subscriber.async
  signal      \* a signal the child has yet to handle

testOwn == <<parent, child, async, signal>>
testVars == <<timer, msi, isr, tree, sub, users, lock, queued, run, calls,
              parent, child, async, signal>>

\* The system calls of the two tests, in order.  Those on the clock's value
\* are only printed, but for the time that is set.
SyncRound == <<"time_rd", "poll", "read", "time_rd">>
AsyncRound == <<"time_rd", "pause", "read", "time_rd">>

Repeat(round) == [k \in 1 .. (Rounds * Len(round)) |-> round[((k - 1) % Len(round)) + 1]]

TestTime == <<"open", "time_rd", "time_set">>
TestEnd == <<"pie_off", "aie_off", "close">>

Script ==
  [sync |-> TestTime \o <<"alm_set", "aie_on", "alm_rd", "poll", "read", "time_rd">>
              \o <<"irqp_set", "pie_on">> \o Repeat(SyncRound) \o TestEnd,
   async |-> TestTime \o <<"async_on", "alm_set", "aie_on", "alm_rd">>
              \o <<"async_on", "irqp_set", "pie_on">> \o Repeat(AsyncRound) \o TestEnd]

Tests == {"sync", "async"}
Testing == parent # "none"
Ended == parent = "waiting" /\ child.step > Len(Script[child.test])

TestInit ==
  /\ LuxInit
  /\ parent \in {"fork", "none"}
  /\ child = [test |-> "sync", step |-> 1, delta |-> 0, at |-> 0, paused |-> FALSE]
  /\ async = FALSE
  /\ signal = FALSE
-----------------------------------------------------------------------------
(***************************************************************************)
(* main, and the child's next system call.  A call that LuxTimer takes in  *)
(* several steps goes on by itself; the child is in it until it is idle.   *)
(***************************************************************************)
\* The child's pid, odd or even, tells which test it is.
Fork ==
  /\ parent = "fork"
  /\ parent' = "waiting"
  /\ \E test \in Tests, delta \in Deltas :
       child' = [child EXCEPT !.test = test, !.delta = delta]
  /\ UNCHANGED <<timer, msi, isr, tree, sub, users, lock, queued, run, calls, async, signal>>

WaitPid ==
  /\ Ended
  /\ run[Child].pc = "closed"
  /\ parent' = "done"
  /\ UNCHANGED <<timer, msi, isr, tree, sub, users, lock, queued, run, calls, child, async, signal>>

\* The child is about to make the call, and then goes on to the next.
Makes(call) ==
  /\ parent = "waiting"
  /\ ~Ended
  /\ Script[child.test][child.step] = call
  /\ run[Child].pc \in {"closed", "idle"}

NextStep == [child EXCEPT !.step = @ + 1]

\* A call of LuxTimer that does nothing to the rest.
Calls(call, A) ==
  /\ Makes(call)
  /\ A
  /\ child' = NextStep
  /\ UNCHANGED <<calls, parent, async, signal>>

TestTimeSet ==
  /\ Makes("time_set")
  /\ TimeSet(Child)
  /\ child' = [NextStep EXCEPT !.at = timer.time]
  /\ UNCHANGED <<calls, parent, async, signal>>

\* A read that finds nothing returns it in asynchronous mode.
ReadAsync ==
  /\ Makes("read")
  /\ async
  /\ sub' = [sub EXCEPT ![Child].data = FALSE]
  /\ child' = NextStep
  /\ UNCHANGED <<timer, msi, isr, tree, users, lock, queued, run, calls, parent, async, signal>>

(***************************************************************************)
(* Calls that leave the timer alone: reading the clock or the comparator;  *)
(* poll, which reports data exactly when there is none, and waits for its  *)
(* timeout when there is.                                                  *)
(***************************************************************************)
Query(call) ==
  /\ Makes(call)
  /\ child' = NextStep
  /\ UNCHANGED <<timer, msi, isr, tree, sub, users, lock, queued, run, calls,
                 parent, async, signal>>

ReadTime == Query("time_rd") \/ Query("alm_rd")

PollReady == ~sub[Child].data /\ Query("poll")
PollTimeout == sub[Child].data /\ Query("poll")

AsyncOn ==
  /\ Makes("async_on")
  /\ async' = TRUE
  /\ child' = NextStep
  /\ UNCHANGED <<timer, msi, isr, tree, sub, users, lock, queued, run, calls, parent, signal>>

\* Closing the file ends the asynchronous mode.
TestClose ==
  /\ Makes("close")
  /\ BeginDisable(Child, "closing")
  /\ async' = FALSE
  /\ child' = NextStep
  /\ UNCHANGED <<calls, parent, signal>>

(***************************************************************************)
(* Signals.  A handler that runs before pause() is entered wakes nobody.   *)
(***************************************************************************)
Pause ==
  /\ Makes("pause")
  /\ ~child.paused
  /\ child' = [child EXCEPT !.paused = TRUE]
  /\ UNCHANGED <<timer, msi, isr, tree, sub, users, lock, queued, run, calls,
                 parent, async, signal>>

HandleSignal ==
  /\ signal
  /\ run[Child].pc \in {"closed", "idle"}
  /\ signal' = FALSE
  /\ child' = IF child.paused THEN [NextStep EXCEPT !.paused = FALSE] ELSE child
  /\ UNCHANGED <<timer, msi, isr, tree, sub, users, lock, queued, run, calls, parent, async>>

ChildCall ==
  \/ Calls("open", Open(Child)) \/ Calls("aie_on", AieOn(Child)) \/ Calls("pie_on", PieOn(Child))
  \/ Calls("alm_set", AlmSet(Child, child.at + child.delta))
  \/ Calls("irqp_set", IrqpSet(Child, child.delta))
  \/ ~async /\ Calls("read", Read(Child))
  \/ Calls("pie_off", BeginDisable(Child, "pie_off"))
  \/ Calls("aie_off", BeginDisable(Child, "aie_off"))
  \/ TestTimeSet \/ ReadAsync \/ ReadTime \/ PollReady \/ PollTimeout
  \/ AsyncOn \/ TestClose \/ Pause
-----------------------------------------------------------------------------
(***************************************************************************)
(* The work sends the signal where it would wake the reader.               *)
(***************************************************************************)
\* Mutant of PopAndSignal: does not look at the asynchronous mode.
PopSilently == Pop /\ UNCHANGED testOwn

PopAndSignal ==
  /\ Pop
  /\ signal' = (signal \/ async)
  /\ UNCHANGED <<parent, child, async>>

(***************************************************************************)
(* A tick at the end of the window moves the window on: what lies behind   *)
(* it stays at its beginning.  The window is wide enough for the work to   *)
(* go through its loop.                                                    *)
(***************************************************************************)
Earlier(t) == IF t = 0 THEN 0 ELSE t - 1

TickOn ==
  /\ Testing
  /\ timer.time = MaxTime
  /\ "TIMER" \in timer.ctrl
  /\ run[Worker].pc \notin WorkPcs
  /\ LET cmp == Earlier(timer.cmp)
         fires == "IRQ" \in timer.ctrl /\ Reached(MaxTime, cmp)
         status == timer.status \/ fires
     IN  /\ timer' = [timer EXCEPT !.cmp = cmp, !.status = status,
                                   !.ctrl = IF fires THEN @ \ {"IRQ"} ELSE @]
         /\ msi' = (msi \/ status)
  /\ sub' = [sub EXCEPT ![Child].phys = Earlier(@)]
  /\ run' = [p \in Threads |-> [run[p] EXCEPT !.at = Earlier(@)]]
  /\ child' = [child EXCEPT !.at = Earlier(@)]
  /\ UNCHANGED <<isr, tree, users, lock, queued, calls, parent, async, signal>>

TickTest == (Testing => timer.time < MaxTime) /\ Tick /\ UNCHANGED testOwn
-----------------------------------------------------------------------------
Alone(A) == A /\ UNCHANGED testOwn

TestWork == PopAndSignal \/ Alone(AddAgain \/ WorkDone \/ Reprogram(Worker))

TestNext ==
  \/ Fork \/ WaitPid \/ ChildCall \/ HandleSignal
  \/ parent = "none" /\ Alone(Call(Child))
  \/ Alone(Continue(Child))
  \/ TickTest \/ TickOn
  \/ Alone(IrqTick) \/ Alone(ChainedHandler) \/ Alone(Ack) \/ Alone(Isr)
  \/ Alone(WorkStart) \/ TestWork

\* As in LuxTimer; and the test's processes run.
TestFairness ==
  /\ WF_testVars(TickTest \/ TickOn)
  /\ WF_testVars(Alone(ChainedHandler)) /\ WF_testVars(Alone(Ack \/ Isr))
  /\ SF_testVars(Alone(WorkStart)) /\ WF_testVars(TestWork)
  /\ WF_testVars(Alone(Continue(Child)))
  /\ WF_testVars(Fork \/ WaitPid \/ HandleSignal) /\ SF_testVars(ChildCall)

TestSpec == TestInit /\ [][TestNext]_testVars /\ TestFairness
-----------------------------------------------------------------------------
(***************************************************************************)
(* The work takes the alarm of an IRQP_SET before the call has marked it   *)
(* periodic (lux-timer-fops.c:431-433), which takes a whole period.        *)
(***************************************************************************)
Overtaken == run[Child].pc = "pie_on" /\ ~InTree(Child)

(***************************************************************************)
(* Both tests come to their end, whatever the clock and the device do in   *)
(* the meantime: no alarm is lost between a call and the wait for it, and  *)
(* no signal that the child's pause() still needs.  Only a call that is    *)
(* overtaken by its own alarm can leave the child waiting.                 *)
(***************************************************************************)
TestEnds == parent = "fork" ~> parent = "done" \/ Overtaken

(***************************************************************************)
(* A program that has closed the timer leaves a quiet device: the tree is  *)
(* empty and, in the end, neither comparator, line nor work is busy any    *)
(* more, although the last close races with the work and the interrupt.    *)
(***************************************************************************)
Quiet ==
  /\ tree = <<>>
  /\ "IRQ" \notin timer.ctrl /\ ~timer.status
  /\ ~msi /\ isr = "idle" /\ ~queued

QuietInTheEnd == <>[](parent = "done" => Quiet)
=============================================================================
