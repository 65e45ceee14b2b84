------------------------------- MODULE MathAccel -------------------------------
(***************************************************************************)
(* The mathaccel driver when things go wrong: guest memory the device      *)
(* cannot reach, signals to waiting tasks, and the error handler of the    *)
(* kernel thread, which resets the function and the driver's rings under   *)
(* the feet of the tasks that use them.                                    *)
(*                                                                         *)
(* The handler does not take dma_lock, so the two sections of an ioctl     *)
(* that do are split here at the point where it can come between: what     *)
(* they read first is in snap.                                             *)
(***************************************************************************)
EXTENDS MathRing

CONSTANTS
  MaySignal,  \* may a waiting task receive a signal?
  MaxCalls    \* ioctls of a behaviour: a reset recycles ids, so CmdIds is no bound

\* The error handler walks through the ids from the first to the last.
ASSUME AccelAssumption ==
  /\ MaySignal \in BOOLEAN /\ MaxCalls \in Nat
  /\ IsFiniteSet(CmdIds) /\ CmdIds = 1 .. Cardinality(CmdIds)

VARIABLES
  snap,       \* each task's copy of sq_tail inside its locked section
  next,       \* the id from which the error handler's wake-up loop goes on
  calls       \* ioctls so far

accelVars == <<dev, sq, cq, drv, xa, pend, task, irq, kth, snap, next, calls>>

EIO == Errno("EIO")
ERESTARTSYS == Errno("ERESTARTSYS")

LastId == CHOOSE i \in CmdIds : \A j \in CmdIds : j <= i

\* What a record may hold: nothing, an outcome, or -1 over either.
RecordOutcomes == [status : Statuses \cup {"NONE"}, result : Int]

AccelTypeOK ==
  /\ DevTypeOK
  /\ drv \in [sq_head : Slots, sq_tail : Slots, cq_head : Slots, cmdid : CmdIds,
              irq_cause : SUBSET IrqCauses, locked : BOOLEAN]
  /\ xa \in [CmdIds -> Tasks \cup {NoTask}]
  /\ pend \in [Tasks -> [live : BOOLEAN, done : BOOLEAN,
                         cause : {"NONE", "JOB_DONE", "ERROR"}, out : RecordOutcomes]]
  /\ task \in [Tasks -> [pc : TaskPcs \cup {"fill", "writel"}, req : Requests, id : CmdIds,
                         ret : RecordOutcomes \cup {EBUSY, EIO, ERESTARTSYS}]]
  /\ irq \in {"idle", "cause", "status"}
  /\ kth \in [pc : KthreadPcs \cup {"error", "flr", "dma", "enable", "wake"},
              head : Slots, tail : Slots]
  /\ snap \in [Tasks -> Slots]
  /\ next \in CmdIds
  /\ calls \in 0 .. MaxCalls

AccelInit ==
  /\ RingInit
  /\ snap = [t \in Tasks |-> 0]
  /\ next = 1
  /\ calls = 0
-----------------------------------------------------------------------------
(***************************************************************************)
(* mathaccel_submit_one_cmd and mathaccel_start_dma_job, in two halves.    *)
(***************************************************************************)
SubmitLock(t) ==
  /\ task[t].pc = "submit"
  /\ ~drv.locked
  /\ ~SubmissionFull
  /\ drv' = [drv EXCEPT !.locked = TRUE]
  /\ snap' = [snap EXCEPT ![t] = drv.sq_tail]
  /\ Goto(t, "fill")
  /\ UNCHANGED <<dev, sq, cq, xa, pend, irq, kth, next, calls>>

SubmitFill(t) ==
  /\ task[t].pc = "fill"
  /\ sq' = [sq EXCEPT ![snap[t]] = [cmd_id |-> task[t].id, cmd |-> task[t].req]]
  /\ drv' = [drv EXCEPT !.sq_tail = Plus(snap[t], 1), !.locked = FALSE]
  /\ snap' = [snap EXCEPT ![t] = 0]
  /\ Goto(t, "doorbell")
  /\ UNCHANGED <<dev, cq, xa, pend, irq, kth, next, calls>>

DoorbellLock(t) ==
  /\ task[t].pc = "doorbell"
  /\ ~drv.locked
  /\ drv' = [drv EXCEPT !.locked = TRUE]
  /\ snap' = [snap EXCEPT ![t] = drv.sq_tail]
  /\ Goto(t, "writel")
  /\ UNCHANGED <<dev, sq, cq, xa, pend, irq, kth, next, calls>>

DoorbellWrite(t) ==
  /\ task[t].pc = "writel"
  /\ RingDoorbell(snap[t])
  /\ drv' = [drv EXCEPT !.locked = FALSE]
  /\ snap' = [snap EXCEPT ![t] = 0]
  /\ Goto(t, "wait")
  /\ UNCHANGED <<sq, xa, pend, irq, kth, next, calls>>

(***************************************************************************)
(* The ways out of the wait that fail: both free the pending record and    *)
(* leave its xarray entry behind.  A record that is freed is reused by the *)
(* task's next ioctl.                                                      *)
(***************************************************************************)
Abandon(t, error) ==
  /\ pend' = [pend EXCEPT ![t] = Freed]
  /\ task' = [task EXCEPT ![t].pc = "idle", ![t].ret = error]
  /\ UNCHANGED <<dev, sq, cq, drv, xa, irq, kth, snap, next, calls>>

Interrupted(t) ==
  /\ MaySignal
  /\ task[t].pc = "wait"
  /\ ~pend[t].done
  /\ Abandon(t, ERESTARTSYS)

ReturnError(t) ==
  /\ task[t].pc = "wait"
  /\ pend[t].done
  /\ pend[t].cause = "ERROR"
  /\ Abandon(t, EIO)
-----------------------------------------------------------------------------
(***************************************************************************)
(* kthread_main again: one cause at a time, or none.                       *)
(***************************************************************************)
KTakeError ==
  /\ kth.pc = "check"
  /\ drv.irq_cause = {"ERROR"}
  /\ drv' = [drv EXCEPT !.irq_cause = {}]
  /\ KGoto("error")
  /\ UNCHANGED <<dev, sq, cq, xa, pend, task, irq, snap, next, calls>>

\* A combination of causes matches no case of the switch.
KDropCombined ==
  /\ kth.pc = "check"
  /\ Cardinality(drv.irq_cause) > 1
  /\ drv' = [drv EXCEPT !.irq_cause = {}]
  /\ UNCHANGED <<dev, sq, cq, xa, pend, task, irq, kth, snap, next, calls>>

(***************************************************************************)
(* mathaccel_irq_handle_error: read the cause, reset the function,         *)
(* reinitialise the rings, switch the device on again, wake everyone.      *)
(***************************************************************************)
KReadError ==
  /\ kth.pc = "error"
  /\ dev' = ReadErrorCause(dev)
  /\ KGoto("flr")
  /\ UNCHANGED <<sq, cq, drv, xa, pend, task, irq, snap, next, calls>>

KResetFunction ==
  /\ kth.pc = "flr"
  /\ dev' = OnDeviceReset(dev)
  /\ KGoto("dma")
  /\ UNCHANGED <<sq, cq, drv, xa, pend, task, irq, snap, next, calls>>

\* The rings were allocated by the probe and keep their contents.
KInitDma ==
  /\ kth.pc = "dma"
  /\ drv' = [drv EXCEPT !.cmdid = 1, !.sq_head = 0, !.sq_tail = 0, !.cq_head = 0]
  /\ dev' = WriteBases(dev)
  /\ KGoto("enable")
  /\ UNCHANGED <<sq, cq, xa, pend, task, irq, snap, next, calls>>

KEnable ==
  /\ kth.pc = "enable"
  /\ dev' = WriteFlags(dev, dev.flags \cup Flags)
  /\ next' = 1
  /\ KGoto("wake")
  /\ UNCHANGED <<sq, cq, drv, xa, pend, task, irq, snap, calls>>

\* One round of xa_for_each, and the end of the loop.
KWake ==
  /\ kth.pc = "wake"
  /\ LET t == xa[next] IN
     pend' = IF t = NoTask THEN pend
             ELSE [pend EXCEPT ![t].done = TRUE, ![t].cause = "ERROR", ![t].out.result = -1]
  /\ IF next = LastId THEN KGoto("check") /\ next' = 1
                      ELSE next' = next + 1 /\ UNCHANGED kth
  /\ UNCHANGED <<dev, sq, cq, drv, xa, task, irq, snap, calls>>
-----------------------------------------------------------------------------
FromRing ==
  /\ \/ \E t \in Tasks : SubmitBusy(t) \/ ReturnDone(t)
     \/ TopHalf
     \/ Kthread
  /\ UNCHANGED <<snap, next, calls>>

BeginCall(t) ==
  /\ calls < MaxCalls
  /\ calls' = calls + 1
  /\ Begin(t)
  /\ UNCHANGED <<snap, next>>

AccelTask(t) ==
  \/ BeginCall(t)
  \/ SubmitLock(t) \/ SubmitFill(t) \/ DoorbellLock(t) \/ DoorbellWrite(t)
  \/ Interrupted(t) \/ ReturnError(t)

ErrorHandler ==
  KTakeError \/ KDropCombined \/ KReadError \/ KResetFunction \/ KInitDma \/ KEnable \/ KWake

AccelNext == FromRing \/ (\E t \in Tasks : AccelTask(t)) \/ ErrorHandler

AccelSpec == AccelInit /\ [][AccelNext]_accelVars
-----------------------------------------------------------------------------
(***************************************************************************)
(* The error handler runs only on a device that is in ERROR, with a cause  *)
(* to read: BUG_ON(err_cause == ERR_CAUSE_NOERR) of irq.c:22 never fires,  *)
(* and the reset that follows is one the device accepts.  It holds         *)
(* although doorbells go on hitting the device while the handler runs and  *)
(* although the reset clears neither cause register.                       *)
(***************************************************************************)
BugOnNeverFires ==
  /\ kth.pc = "error" => dev.error_cause # {}
  /\ kth.pc \in {"error", "flr"} => dev.state = "ERROR"

(***************************************************************************)
(* The device still owes t an answer and will give it.                     *)
(***************************************************************************)
WillBeAnswered(t) == dev.state = "READY" /\ (QueuedFor(t) # {} \/ ServedFor(t) # {})

(***************************************************************************)
(* "Wakeup every single sleeping task to make sure they never sleep for    *)
(* something that won't come (device state has reset by now)" (irq.c:49):  *)
(* when the loop ends, a task that still sleeps is one that will be        *)
(* answered.                                                               *)
(***************************************************************************)
SleepersWillBeAnswered ==
  [][kth.pc = "wake" /\ kth'.pc = "check" =>
       \A t \in Tasks :
         task[t].pc = "wait" /\ ~pend'[t].done => WillBeAnswered(t)]_accelVars
=============================================================================
