-------------------------------- MODULE LuxTimer --------------------------------
(***************************************************************************)
(* The lux timer: the device's clock, comparator and interrupt line        *)
(* (qemu-devices/lux), the interrupt chip (lux-irq.c) and the driver that  *)
(* shares the one comparator among the subscribers of /dev/lux-timer       *)
(* (lux-timer-core.c, lux-timer-fops.c).                                   *)
(*                                                                         *)
(* A subscriber is an open file used by one thread.  Deadlines are on the  *)
(* device's clock: time_offset cancels out wherever one is compared.  The  *)
(* kernel is taken to use neither the clocksource nor the clockevent, so   *)
(* RELOAD_BIT is never set.  Two sections that hold subscribers_lock are   *)
(* one step each up to lux_reprogram_timer, which is several: the same     *)
(* code also runs without the lock.                                        *)
(***************************************************************************)
EXTENDS SequencesExt

CONSTANTS
  Subs,       \* subscribers
  Worker,     \* the workqueue's thread
  Nobody,     \* holds a lock that is free
  MaxTime,    \* the clock stops here
  Deltas,     \* periods asked for; a period of zero would never end the worker's loop
  MaxCalls    \* system calls of a behaviour, beside open and read

ASSUME SubsAssumption ==
  IsFiniteSet(Subs) /\ Worker \notin Subs /\ Nobody \notin Subs \cup {Worker}
ASSUME TimeAssumption ==
  /\ MaxTime \in Nat \ {0} /\ Deltas \subseteq Nat \ {0} /\ IsFiniteSet(Deltas)
  /\ MaxCalls \in Nat

VARIABLES
  timer,      \* TIME, CMP, CTRL and the timer's bit of IRQ_STATUS
  msi,        \* an MSI the CPU has yet to take
  isr,        \* how far the interrupt handler is
  tree,       \* subscribers with an alarm, leftmost first
  sub,        \* struct lux_clock_subscriber
  users,      \* enabled_users
  lock,       \* holder of subscribers_lock
  queued,     \* timer_work is pending
  run,        \* each thread and the worker: where it is, and its locals
  calls       \* system calls so far

vars == <<timer, msi, isr, tree, sub, users, lock, queued, run, calls>>

Bits == {"TIMER", "IRQ"}
Threads == Subs \cup {Worker}
Times == 0 .. MaxTime

\* A periodic deadline moves past the end of time by at most one period.
Deadlines == Times \cup {t + d : t \in Times, d \in Deltas}

\* seen is a copy of CTRL, at a deadline or a reading of the clock, then where
\* to go on after lux_reprogram_timer, serves whose alarm the worker is ringing.
TaskPcs == {"closed", "idle", "aie_off", "pie_off", "closing", "erase", "pie_on"}
ReprogramPcs == {"look", "clear", "program"}
WorkPcs == {"pop", "again"}

LuxTypeOK ==
  /\ timer \in [time : Times, cmp : Deadlines, ctrl : SUBSET Bits, status : BOOLEAN]
  /\ msi \in BOOLEAN /\ isr \in {"idle", "ack", "run"} /\ queued \in BOOLEAN
  /\ tree \in Seq(Subs) /\ Len(tree) <= Cardinality(Subs)
  /\ sub \in [Subs -> [phys : Deadlines, delta : Deltas \cup {0}, data : BOOLEAN,
                       periodic : BOOLEAN, enabled : BOOLEAN]]
  /\ users = Cardinality({s \in Subs : sub[s].enabled})
  /\ lock \in Threads \cup {Nobody}
  /\ calls \in 0 .. MaxCalls
  /\ run \in [Threads -> [pc : TaskPcs \cup ReprogramPcs \cup WorkPcs, then : {"idle", "pie_on"},
                          seen : SUBSET Bits, at : Deadlines, serves : Subs \cup {Nobody}]]

Fresh == [phys |-> 0, delta |-> 0, data |-> FALSE, periodic |-> FALSE, enabled |-> FALSE]
At(pc) == [pc |-> pc, then |-> "idle", seen |-> {}, at |-> 0, serves |-> Nobody]

LuxInit ==
  /\ timer = [time |-> 0, cmp |-> 0, ctrl |-> {}, status |-> FALSE]
  /\ msi = FALSE /\ isr = "idle" /\ queued = FALSE
  /\ tree = <<>>
  /\ sub = [s \in Subs |-> Fresh]
  /\ users = 0
  /\ lock = Nobody
  /\ run = [p \in Threads |-> At(IF p = Worker THEN "idle" ELSE "closed")]
  /\ calls = 0

Goto(p, pc) == run' = [run EXCEPT ![p] = At(pc)]
-----------------------------------------------------------------------------
(***************************************************************************)
(* The device: one turn of its event loop ticks the clock and sends an MSI *)
(* for a pending line.  While the clock is on the loop turns every         *)
(* millisecond; with the clock off it turns when a message arrives.        *)
(***************************************************************************)
\* Mutant of Reached: fires only after CMP has passed.
ReachedLate(now, cmp) == now > cmp

Reached(now, cmp) == now >= cmp

Tick ==
  /\ "TIMER" \in timer.ctrl
  /\ \E now \in (IF timer.time = MaxTime THEN {MaxTime} ELSE timer.time + 1 .. MaxTime) :
       LET fires == "IRQ" \in timer.ctrl /\ Reached(now, timer.cmp)
           status == timer.status \/ fires
       IN  /\ timer' = [timer EXCEPT !.time = now, !.status = status,
                                     !.ctrl = IF fires THEN @ \ {"IRQ"} ELSE @]
           /\ msi' = (msi \/ status)
  /\ UNCHANGED <<isr, tree, sub, users, lock, queued, run, calls>>

IrqTick ==
  /\ timer.status
  /\ msi' = TRUE
  /\ UNCHANGED <<timer, isr, tree, sub, users, lock, queued, run, calls>>

(***************************************************************************)
(* lux_irq_chained_handler reads the pending lines; the level flow it      *)
(* calls for one masks and acknowledges it, then runs lux_ce_timer_isr.    *)
(***************************************************************************)
ChainedHandler ==
  /\ msi
  /\ isr = "idle"
  /\ msi' = FALSE
  /\ isr' = IF timer.status THEN "ack" ELSE "idle"
  /\ UNCHANGED <<timer, tree, sub, users, lock, queued, run, calls>>

\* Mutant of Ack: the line stays pending.
AckNothing ==
  /\ isr = "ack"
  /\ isr' = "run"
  /\ UNCHANGED <<timer, msi, tree, sub, users, lock, queued, run, calls>>

Ack ==
  /\ isr = "ack"
  /\ isr' = "run"
  /\ timer' = [timer EXCEPT !.status = FALSE]
  /\ UNCHANGED <<msi, tree, sub, users, lock, queued, run, calls>>

Isr ==
  /\ isr = "run"
  /\ isr' = "idle"
  /\ queued' = TRUE
  /\ UNCHANGED <<timer, msi, tree, sub, users, lock, run, calls>>
-----------------------------------------------------------------------------
(***************************************************************************)
(* The tree.  Enqueue goes left of smaller deadlines, so that the leftmost *)
(* node is the one with the LATEST deadline.                               *)
(***************************************************************************)
InTree(s) == \E i \in 1 .. Len(tree) : tree[i] = s

Erase(s) == IF InTree(s) THEN RemoveAt(tree, CHOOSE i \in 1 .. Len(tree) : tree[i] = s) ELSE tree

NotBefore(queue, phys) == {i \in 1 .. Len(queue) : sub[queue[i]].phys >= phys}

Enqueue(queue, s, phys) == InsertAt(queue, Cardinality(NotBefore(queue, phys)) + 1, s)

(***************************************************************************)
(* lux_reprogram_timer by p: look at the leftmost node, then write the     *)
(* registers, release the lock if p holds it, and go on.                   *)
(***************************************************************************)
Resume(p) ==
  /\ lock' = IF lock = p THEN Nobody ELSE lock
  /\ Goto(p, run[p].then)

LookEmpty(p) ==
  /\ run[p].pc = "look"
  /\ tree = <<>>
  /\ run' = [run EXCEPT ![p].pc = "clear", ![p].seen = timer.ctrl]
  /\ UNCHANGED <<timer, msi, isr, tree, sub, users, lock, queued, calls>>

\* Mutant of LookPast: leaves it to the interrupt.
LookPastIdle(p) ==
  /\ run[p].pc = "look"
  /\ tree # <<>>
  /\ sub[Head(tree)].phys <= timer.time
  /\ Resume(p)
  /\ UNCHANGED <<timer, msi, isr, tree, sub, users, queued, calls>>

LookPast(p) ==
  /\ run[p].pc = "look"
  /\ tree # <<>>
  /\ sub[Head(tree)].phys <= timer.time
  /\ queued' = TRUE
  /\ Resume(p)
  /\ UNCHANGED <<timer, msi, isr, tree, sub, users, calls>>

LookFuture(p) ==
  /\ run[p].pc = "look"
  /\ tree # <<>>
  /\ sub[Head(tree)].phys > timer.time
  /\ run' = [run EXCEPT ![p].pc = "program", ![p].at = sub[Head(tree)].phys]
  /\ UNCHANGED <<timer, msi, isr, tree, sub, users, lock, queued, calls>>

Clear(p) ==
  /\ run[p].pc = "clear"
  /\ timer' = [timer EXCEPT !.ctrl = run[p].seen \ {"IRQ"}]
  /\ Resume(p)
  /\ UNCHANGED <<msi, isr, tree, sub, users, queued, calls>>

Program(p) ==
  /\ run[p].pc = "program"
  /\ timer' = [timer EXCEPT !.cmp = run[p].at, !.ctrl = Bits]
  /\ Resume(p)
  /\ UNCHANGED <<msi, isr, tree, sub, users, queued, calls>>

Reprogram(p) ==
  LookEmpty(p) \/ LookPast(p) \/ LookFuture(p) \/ Clear(p) \/ Program(p)
-----------------------------------------------------------------------------
(***************************************************************************)
(* lux_timer_work_func: serve expired nodes from the left, then reprogram. *)
(***************************************************************************)
WorkStart ==
  /\ queued
  /\ run[Worker].pc = "idle"
  /\ lock = Nobody
  /\ queued' = FALSE
  /\ lock' = Worker
  /\ run' = [run EXCEPT ![Worker].pc = "pop", ![Worker].at = timer.time]
  /\ UNCHANGED <<timer, msi, isr, tree, sub, users, calls>>

Expired == tree # <<>> /\ sub[Head(tree)].phys <= run[Worker].at

Rings(s, next) ==
  /\ run[Worker].pc = "pop"
  /\ Expired
  /\ tree' = Tail(tree)
  /\ sub' = [sub EXCEPT ![s].data = TRUE, ![s].phys = next]
  /\ run' = [run EXCEPT ![Worker].pc = "again", ![Worker].serves = s]
  /\ UNCHANGED <<timer, msi, isr, users, lock, queued, calls>>

\* Mutant of Pop: the next period begins when the worker gets to the alarm.
PopDrifting ==
  LET s == Head(tree)
  IN  Rings(s, IF sub[s].periodic THEN run[Worker].at + sub[s].delta ELSE 0)

Pop ==
  LET s == Head(tree)
  IN  Rings(s, IF sub[s].periodic THEN sub[s].phys + sub[s].delta ELSE 0)

\* The flag is read again: PIE_ON, PIE_OFF and IRQP_SET change it without a lock.
AddAgain ==
  /\ run[Worker].pc = "again"
  /\ LET s == run[Worker].serves
     IN  tree' = IF sub[s].periodic THEN Enqueue(tree, s, sub[s].phys) ELSE tree
  /\ run' = [run EXCEPT ![Worker].pc = "pop", ![Worker].serves = Nobody]
  /\ UNCHANGED <<timer, msi, isr, sub, users, lock, queued, calls>>

\* Mutant of WorkDone: leaves the comparator to whoever sets an alarm next.
WorkDoneIdle ==
  /\ run[Worker].pc = "pop"
  /\ ~Expired
  /\ lock' = Nobody
  /\ Goto(Worker, "idle")
  /\ UNCHANGED <<timer, msi, isr, tree, sub, users, queued, calls>>

WorkDone ==
  /\ run[Worker].pc = "pop"
  /\ ~Expired
  /\ Goto(Worker, "look")
  /\ UNCHANGED <<timer, msi, isr, tree, sub, users, lock, queued, calls>>
-----------------------------------------------------------------------------
(***************************************************************************)
(* The file operations.                                                    *)
(***************************************************************************)
Idle(s) == run[s].pc = "idle"

\* One more system call.
Begin(s) == Idle(s) /\ calls < MaxCalls /\ calls' = calls + 1

Open(s) ==
  /\ run[s].pc = "closed"
  /\ sub' = [sub EXCEPT ![s] = Fresh]
  /\ Goto(s, "idle")
  /\ UNCHANGED <<timer, msi, isr, tree, users, lock, queued, calls>>

\* A read that blocks until there is something to read.
Read(s) ==
  /\ Idle(s)
  /\ sub[s].data
  /\ sub' = [sub EXCEPT ![s].data = FALSE]
  /\ UNCHANGED <<timer, msi, isr, tree, users, lock, queued, run, calls>>

\* lux_timer_enable_bits sets all of Bits, so that what it read from CTRL is moot.
EnableBits(s, reload) ==
  /\ timer' = [timer EXCEPT !.ctrl = Bits]
  /\ users' = IF sub[s].enabled THEN users ELSE users + 1
  /\ sub' = [sub EXCEPT ![s].enabled = TRUE, ![s].periodic = @ \/ reload]
  /\ UNCHANGED <<msi, isr, tree, lock, queued>>

AieOn(s) == EnableBits(s, FALSE) /\ UNCHANGED run

\* PIE_ON before any IRQP_SET would leave a period of zero.
PieOn(s) ==
  /\ sub[s].delta # 0
  /\ EnableBits(s, TRUE)
  /\ UNCHANGED run

\* AIE_OFF, PIE_OFF and close read CTRL, then give up what the subscriber holds.
BeginDisable(s, pc) ==
  /\ run' = [run EXCEPT ![s].pc = pc, ![s].seen = timer.ctrl]
  /\ UNCHANGED <<timer, msi, isr, tree, sub, users, lock, queued>>

\* Mutant of DisableBits: gives up a use the subscriber does not have.
DisableTwice(s) ==
  /\ run[s].pc \in {"aie_off", "pie_off", "closing"}
  /\ LET last == sub[s].enabled /\ users = 1
     IN  timer' = IF last /\ run[s].seen # {} THEN [timer EXCEPT !.ctrl = {}] ELSE timer
  /\ users' = IF users > 0 THEN users - 1 ELSE users
  /\ sub' = [sub EXCEPT ![s].enabled = FALSE,
                        ![s].periodic = @ /\ run[s].pc = "aie_off"]
  /\ Goto(s, IF run[s].pc = "closing" THEN "erase" ELSE "idle")
  /\ UNCHANGED <<msi, isr, tree, lock, queued, calls>>

DisableBits(s) ==
  /\ run[s].pc \in {"aie_off", "pie_off", "closing"}
  /\ LET last == sub[s].enabled /\ users = 1
     IN  timer' = IF last /\ run[s].seen # {} THEN [timer EXCEPT !.ctrl = {}] ELSE timer
  /\ users' = IF sub[s].enabled THEN users - 1 ELSE users
  /\ sub' = [sub EXCEPT ![s].enabled = FALSE,
                        ![s].periodic = @ /\ run[s].pc = "aie_off"]
  /\ Goto(s, IF run[s].pc = "closing" THEN "erase" ELSE "idle")
  /\ UNCHANGED <<msi, isr, tree, lock, queued, calls>>

\* Mutant of Release: frees the subscriber with its node in the tree.
ReleaseKeepingNode(s) ==
  /\ run[s].pc = "erase"
  /\ lock = Nobody
  /\ sub' = [sub EXCEPT ![s] = Fresh]
  /\ Goto(s, "closed")
  /\ UNCHANGED <<timer, msi, isr, tree, users, lock, queued, calls>>

Release(s) ==
  /\ run[s].pc = "erase"
  /\ lock = Nobody
  /\ tree' = Erase(s)
  /\ sub' = [sub EXCEPT ![s] = Fresh]
  /\ Goto(s, "closed")
  /\ UNCHANGED <<timer, msi, isr, users, lock, queued, calls>>

\* The lock is released before the timer is reprogrammed.
AlmSet(s, phys) ==
  /\ lock = Nobody
  /\ sub' = [sub EXCEPT ![s].phys = phys]
  /\ tree' = Enqueue(Erase(s), s, phys)
  /\ Goto(s, "look")
  /\ UNCHANGED <<timer, msi, isr, users, lock, queued>>

\* The time is read before the lock is taken; the device may tick in between.
IrqpSet(s, delta) ==
  /\ lock = Nobody
  /\ \E now \in {timer.time, timer.time - 1} \cap Times :
       /\ sub' = [sub EXCEPT ![s].phys = now + delta, ![s].delta = delta]
       /\ tree' = Enqueue(Erase(s), s, now + delta)
  /\ lock' = s
  /\ run' = [run EXCEPT ![s].pc = "look", ![s].then = "pie_on"]
  /\ UNCHANGED <<timer, msi, isr, users, queued>>

\* Only now does the worker take the alarm of IRQP_SET for a periodic one.
IrqpEnable(s) ==
  /\ run[s].pc = "pie_on"
  /\ EnableBits(s, TRUE)
  /\ Goto(s, "idle")
  /\ UNCHANGED calls

\* With an alarm set, TIME_SET clears the node before it erases it: not modelled.
TimeSet(s) ==
  /\ lock = Nobody
  /\ ~InTree(s)
  /\ timer' = [timer EXCEPT !.ctrl = @ \cup {"TIMER"}]
  /\ lock' = s
  /\ Goto(s, "look")
  /\ UNCHANGED <<msi, isr, tree, sub, users, queued>>
-----------------------------------------------------------------------------
Work == WorkStart \/ Pop \/ AddAgain \/ WorkDone \/ Reprogram(Worker)

\* What a system call does once it has begun, and what begins one.
Continue(s) == Reprogram(s) \/ IrqpEnable(s) \/ DisableBits(s) \/ Release(s)

Call(s) ==
  \/ Open(s) \/ Read(s)
  \/ /\ Begin(s)
     /\ \/ AieOn(s) \/ PieOn(s) \/ TimeSet(s)
        \/ \E pc \in {"aie_off", "pie_off", "closing"} : BeginDisable(s, pc)
        \/ \E phys \in Times : AlmSet(s, phys)
        \/ \E delta \in Deltas : IrqpSet(s, delta)

LuxNext ==
  \/ Tick \/ IrqTick \/ ChainedHandler \/ Ack \/ Isr
  \/ Work
  \/ \E s \in Subs : Call(s) \/ Continue(s)

\* The loop turns while the clock is on, interrupts are taken, a queued work
\* runs, a system call goes on; nobody has to make one.
LuxFairness ==
  /\ WF_vars(Tick) /\ WF_vars(ChainedHandler) /\ WF_vars(Ack \/ Isr)
  /\ SF_vars(WorkStart) /\ WF_vars(Pop \/ AddAgain \/ WorkDone \/ Reprogram(Worker))
  /\ \A s \in Subs : WF_vars(Continue(s))

LuxSpec == LuxInit /\ [][LuxNext]_vars /\ LuxFairness
-----------------------------------------------------------------------------
(***************************************************************************)
(* The tree of alarms stays a search tree of live subscribers: in order of *)
(* deadline (whichever way round), no subscriber twice, none that has been *)
(* freed.  Deadlines of nodes change in three places, under the lock, and  *)
(* a close races with the worker that takes nodes out and puts them back.  *)
(***************************************************************************)
TreeSound ==
  /\ \A i, j \in 1 .. Len(tree) :
       i < j => tree[i] # tree[j] /\ sub[tree[i]].phys >= sub[tree[j]].phys
  /\ \A i \in 1 .. Len(tree) : run[tree[i]].pc # "closed"

Alarmed(s) == InTree(s) /\ sub[s].enabled

\* The comparator is armed, or an interrupt or the work is on its way, or
\* someone is about to reprogram the timer.
Covered ==
  \/ timer.ctrl = Bits
  \/ timer.status \/ isr # "idle" \/ queued
  \/ run[Worker].pc # "idle"
  \/ \E p \in Threads : run[p].pc \in {"look", "program"}

(***************************************************************************)
(* An alarm that is set, enabled and rings once is always somebody's       *)
(* business, between the comparator, the interrupt, the work and calls     *)
(* that look at the tree and program the comparator without the lock.      *)
(***************************************************************************)
AlarmCovered == \A s \in Subs : Alarmed(s) /\ ~sub[s].periodic => Covered

\* ALM_SET looks at the tree without the lock, and found it empty when the
\* worker had taken the node out to add it again.
Misled(s) == run[s].pc = "clear" /\ lock # s /\ sub[s].periodic /\ tree # <<>>

(***************************************************************************)
(* A periodic one is too, but for one race: it is forgotten when ALM_SET   *)
(* reprograms the timer while its alarm is ringing (lux-timer-fops.c:386)  *)
(* and then switches the interrupt off, and in no other way.               *)
(***************************************************************************)
AlarmKept ==
  [][\A s \in Subs : (Alarmed(s) => Covered) => (Alarmed(s) => Covered)' \/ Misled(s)]_vars

Awaited(s) == Alarmed(s) /\ sub[s].phys <= MaxTime

(***************************************************************************)
(* One that is somebody's business rings in the end, unless it is          *)
(* cancelled first, forgotten in that race or set again for a time that    *)
(* never comes: nothing between the comparator and the reader (tick, MSI,  *)
(* ISR, work) loses it.                                                    *)
(***************************************************************************)
AlarmRings ==
  \A s \in Subs :
    Awaited(s) /\ Covered ~> sub[s].data \/ ~Awaited(s) \/ Misled(s)

(***************************************************************************)
(* "Nothing left to do: earliest deadline is in the future" (lux-timer-    *)
(* core.c:146): when the worker leaves its loop no alarm has expired.      *)
(***************************************************************************)
NothingLeftToDo ==
  [][run[Worker].pc = "pop" /\ run'[Worker].pc = "look" =>
       \A s \in Subs : InTree(s) => sub[s].phys > run[Worker].at]_vars

(***************************************************************************)
(* What the subscribers see of it: alarms of their own on one clock.       *)
(***************************************************************************)
Alarms == INSTANCE AlarmService WITH
  Moments <- Times,
  Periods <- Deltas,
  now <- timer.time,
  pending <- {s \in Subs : InTree(s)},
  due <- [s \in Subs |-> sub[s].phys],
  length <- [s \in Subs |-> sub[s].delta],
  repeats <- [s \in Subs |-> sub[s].periodic],
  rung <- [s \in Subs |-> sub[s].data],
  ringing <- {run[Worker].serves} \ {Nobody}

(***************************************************************************)
(* The comparator, the interrupt, the worker and the shared tree implement *)
(* AlarmService: whatever the others set, cancel or close meanwhile, an    *)
(* alarm rings no earlier than it is due, by the time the worker read      *)
(* before it took the first node out; a periodic one keeps its beat        *)
(* however late the worker is (lux_timer_work_func adds the period to the  *)
(* deadline); a node is put back only for a subscriber that still wants    *)
(* it; and the period in use is never zero, which would keep the worker in *)
(* its loop with the lock held.                                            *)
(***************************************************************************)
ImplementsAlarms == Alarms!Spec
=============================================================================
