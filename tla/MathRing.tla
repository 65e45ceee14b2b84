-------------------------------- MODULE MathRing --------------------------------
(***************************************************************************)
(* The DMA path of the mathaccel driver (qemu-drivers/mathaccel) on top of *)
(* the device: tasks in MATHACCEL_IOC_COMPUTE, the MSI's top half and the  *)
(* kernel thread that consumes the completion ring, as they interleave     *)
(* once the device is probed and while DMA does not fail.  MathAccel adds  *)
(* failures and signals.                                                   *)
(*                                                                         *)
(* Code that holds dma_lock from beginning to end is one step.  The kernel *)
(* thread wakes tasks while it holds the lock, so its section is several.  *)
(***************************************************************************)
EXTENDS MathDevice

CONSTANTS
  Tasks,      \* threads that issue the ioctl
  NoTask      \* an empty slot of the xarray

\* Ids come from a counter; CmdIds bounds the ioctls of a behaviour.
ASSUME TasksAssumption == NoTask \notin Tasks /\ CmdIds \subseteq Nat /\ 1 \in CmdIds

VARIABLES
  drv,        \* struct mathaccel_device: ring indices, cmdid_counter, irq_cause, dma_lock
  xa,         \* pending_submissions: which task's record an id leads to
  pend,       \* struct mathaccel_pending of each task's current ioctl
  task,       \* each task's ioctl: where it is, its request, its id, its last result
  irq,        \* where the top half is
  kth         \* the kernel thread: where it is, and its local head and tail

ringVars == <<drv, xa, pend, task, irq, kth>>
vars == <<dev, sq, cq, drv, xa, pend, task, irq, kth>>

NoOutcome == [status |-> "NONE", result |-> 0]

\* An error the ioctl returns, beside the outcomes it copies to the caller.
Errno(name) == [status |-> name, result |-> 0]
EBUSY == Errno("EBUSY")

\* pend.cause is zero until someone completes the record.
FreshPending == [live |-> TRUE, done |-> FALSE, cause |-> "NONE", out |-> NoOutcome]
Freed == [FreshPending EXCEPT !.live = FALSE]

TaskPcs == {"idle", "submit", "doorbell", "wait"}
KthreadPcs == {"asleep", "check", "lock", "scan"}

RingTypeOK ==
  /\ DevTypeOK
  /\ drv \in [sq_head : Slots, sq_tail : Slots, cq_head : Slots, cmdid : CmdIds,
              irq_cause : SUBSET IrqCauses, locked : BOOLEAN]
  /\ xa \in [CmdIds -> Tasks \cup {NoTask}]
  /\ pend \in [Tasks -> [live : BOOLEAN, done : BOOLEAN, cause : {"NONE", "JOB_DONE"},
                         out : Outcomes \cup {NoOutcome}]]
  /\ task \in [Tasks -> [pc : TaskPcs, req : Requests, id : CmdIds,
                         ret : Outcomes \cup {EBUSY, NoOutcome}]]
  /\ irq \in {"idle", "cause", "status"}
  /\ kth \in [pc : KthreadPcs, head : Slots, tail : Slots]
-----------------------------------------------------------------------------
(***************************************************************************)
(* Probed: rings allocated and programmed, interrupts and DMA enabled, the *)
(* thread checking for work for the first time.                            *)
(***************************************************************************)
ProbedDevice == WriteFlags(WriteBases(PowerOn), Flags)

RingInit ==
  /\ dev = ProbedDevice
  /\ sq = [j \in Slots |-> ZeroSqEntry(1)]
  /\ cq = [j \in Slots |-> ZeroCqEntry(1)]
  /\ drv = [sq_head |-> 0, sq_tail |-> 0, cq_head |-> 0, cmdid |-> 1,
            irq_cause |-> {}, locked |-> FALSE]
  /\ xa = [i \in CmdIds |-> NoTask]
  /\ pend = [t \in Tasks |-> Freed]
  /\ \E r \in Requests :
       task = [t \in Tasks |-> [pc |-> "idle", req |-> r, id |-> 1, ret |-> NoOutcome]]
  /\ irq = "idle"
  /\ kth = [pc |-> "check", head |-> 0, tail |-> 0]

Goto(t, pc) == task' = [task EXCEPT ![t].pc = pc]
KGoto(pc) == kth' = [kth EXCEPT !.pc = pc]
-----------------------------------------------------------------------------
(***************************************************************************)
(* mathaccel_ioc_compute, from the id to the wait and beyond.              *)
(***************************************************************************)
Begin(t) ==
  /\ task[t].pc = "idle"
  /\ drv.cmdid + 1 \in CmdIds
  /\ \E r \in Requests :
       task' = [task EXCEPT ![t] = [pc |-> "submit", req |-> r, id |-> drv.cmdid + 1,
                                    ret |-> NoOutcome]]
  /\ drv' = [drv EXCEPT !.cmdid = @ + 1]
  /\ pend' = [pend EXCEPT ![t] = FreshPending]
  /\ xa' = [xa EXCEPT ![drv.cmdid + 1] = t]
  /\ UNCHANGED <<dev, sq, cq, irq, kth>>

\* Mutants of SubmissionFull: the ring is never full; it is full when the
\* device, not the driver's view of it, says so.
NeverFull == FALSE
FullOnDevice == Plus(drv.sq_tail, 1) = dev.sq_head

SubmissionFull == Plus(drv.sq_tail, 1) = drv.sq_head

Submit(t) ==
  /\ task[t].pc = "submit"
  /\ ~drv.locked
  /\ ~SubmissionFull
  /\ sq' = [sq EXCEPT ![drv.sq_tail] = [cmd_id |-> task[t].id, cmd |-> task[t].req]]
  /\ drv' = [drv EXCEPT !.sq_tail = Plus(@, 1)]
  /\ Goto(t, "doorbell")
  /\ UNCHANGED <<dev, cq, xa, pend, irq, kth>>

\* The error path frees the pending record; its xarray entry stays.
SubmitBusy(t) ==
  /\ task[t].pc = "submit"
  /\ ~drv.locked
  /\ SubmissionFull
  /\ pend' = [pend EXCEPT ![t] = Freed]
  /\ task' = [task EXCEPT ![t].pc = "idle", ![t].ret = EBUSY]
  /\ UNCHANGED <<dev, sq, cq, drv, xa, irq, kth>>

StartDmaJob(t) ==
  /\ task[t].pc = "doorbell"
  /\ ~drv.locked
  /\ RingDoorbell(drv.sq_tail)
  /\ Goto(t, "wait")
  /\ UNCHANGED <<sq, drv, xa, pend, irq, kth>>

ReturnDone(t) ==
  /\ task[t].pc = "wait"
  /\ pend[t].done
  /\ pend[t].cause = "JOB_DONE"
  /\ xa' = [xa EXCEPT ![task[t].id] = NoTask]
  /\ task' = [task EXCEPT ![t].pc = "idle", ![t].ret = pend[t].out]
  /\ pend' = [pend EXCEPT ![t] = Freed]
  /\ UNCHANGED <<dev, sq, cq, drv, irq, kth>>
-----------------------------------------------------------------------------
(***************************************************************************)
(* mathaccel_irq_handler.  Between taking the MSI and reading the cause    *)
(* the device may serve another doorbell and raise the MSI again.          *)
(***************************************************************************)
IrqEnter ==
  /\ dev.msi
  /\ irq = "idle"
  /\ dev' = [dev EXCEPT !.msi = FALSE]
  /\ irq' = "cause"
  /\ UNCHANGED <<sq, cq, drv, xa, pend, task, kth>>

\* The cached cause is overwritten, not accumulated.
IrqReadCause ==
  /\ irq = "cause"
  /\ drv' = [drv EXCEPT !.irq_cause = dev.irq_cause]
  /\ dev' = ReadIrqCause(dev)
  /\ irq' = "status"
  /\ UNCHANGED <<sq, cq, xa, pend, task, kth>>

IrqReadStatus ==
  /\ irq = "status"
  /\ kth' = IF dev.state \in {"READY", "ERROR"} /\ kth.pc = "asleep"
              THEN [kth EXCEPT !.pc = "check"] ELSE kth
  /\ irq' = "idle"
  /\ UNCHANGED <<dev, sq, cq, drv, xa, pend, task>>
-----------------------------------------------------------------------------
(***************************************************************************)
(* kthread_main, and mathaccel_irq_consume_completion_queue.               *)
(***************************************************************************)
\* Mutant of KSleep: sleeps without a second look at the cause.
KSleepUnchecked ==
  /\ kth.pc = "check"
  /\ KGoto("asleep")
  /\ UNCHANGED <<dev, sq, cq, drv, xa, pend, task, irq>>

KSleep ==
  /\ kth.pc = "check"
  /\ drv.irq_cause = {}
  /\ KGoto("asleep")
  /\ UNCHANGED <<dev, sq, cq, drv, xa, pend, task, irq>>

KTakeJobDone ==
  /\ kth.pc = "check"
  /\ drv.irq_cause = {"JOB_DONE"}
  /\ drv' = [drv EXCEPT !.irq_cause = {}]
  /\ KGoto("lock")
  /\ UNCHANGED <<dev, sq, cq, xa, pend, task, irq>>

KSpurious ==
  /\ kth.pc = "lock"
  /\ ~drv.locked
  /\ drv.cq_head = dev.cq_tail
  /\ drv' = [drv EXCEPT !.sq_head = dev.sq_head]
  /\ KGoto("check")
  /\ UNCHANGED <<dev, sq, cq, xa, pend, task, irq>>

KLock ==
  /\ kth.pc = "lock"
  /\ ~drv.locked
  /\ drv.cq_head # dev.cq_tail
  /\ drv' = [drv EXCEPT !.sq_head = dev.sq_head, !.locked = TRUE]
  /\ kth' = [pc |-> "scan", head |-> drv.cq_head, tail |-> dev.cq_tail]
  /\ UNCHANGED <<dev, sq, cq, xa, pend, task, irq>>

MoreToScan == cq[kth.head].valid /\ kth.head # kth.tail

\* Mutant of CompletedTask: wakes the first task that waits.
AnyWaiter(entry) ==
  IF \E t \in Tasks : task[t].pc = "wait" /\ ~pend[t].done
    THEN CHOOSE t \in Tasks : task[t].pc = "wait" /\ ~pend[t].done ELSE NoTask

CompletedTask(entry) == xa[entry.cmd_id]

KScan ==
  /\ kth.pc = "scan"
  /\ MoreToScan
  /\ LET entry == cq[kth.head]
         t == CompletedTask(entry)
     IN  pend' = IF t = NoTask THEN pend
                 ELSE [pend EXCEPT ![t].done = TRUE, ![t].cause = "JOB_DONE",
                                   ![t].out = entry.out]
  /\ cq' = [cq EXCEPT ![kth.head].valid = FALSE]
  /\ kth' = [kth EXCEPT !.head = Plus(@, 1)]
  /\ UNCHANGED <<dev, sq, drv, xa, task, irq>>

\* The head is published after the unlock; only this thread reads it.
KUnlock ==
  /\ kth.pc = "scan"
  /\ ~MoreToScan
  /\ drv' = [drv EXCEPT !.locked = FALSE, !.cq_head = kth.head]
  /\ kth' = [pc |-> "check", head |-> 0, tail |-> 0]
  /\ UNCHANGED <<dev, sq, cq, xa, pend, task, irq>>
-----------------------------------------------------------------------------
TaskNext(t) ==
  Begin(t) \/ Submit(t) \/ SubmitBusy(t) \/ StartDmaJob(t) \/ ReturnDone(t)

TopHalf == IrqEnter \/ IrqReadCause \/ IrqReadStatus
Kthread == KSleep \/ KTakeJobDone \/ KSpurious \/ KLock \/ KScan \/ KUnlock

RingNext == (\E t \in Tasks : TaskNext(t)) \/ TopHalf \/ Kthread

\* Interrupts are taken, the scheduler runs a runnable thread, and a task that
\* has entered the ioctl goes on; nobody has to issue another one.
RingFairness ==
  /\ WF_vars(TopHalf)
  /\ WF_vars(Kthread)
  /\ \A t \in Tasks : SF_vars(Submit(t) \/ SubmitBusy(t)) /\ SF_vars(StartDmaJob(t))
  /\ \A t \in Tasks : WF_vars(ReturnDone(t))

RingSpec == RingInit /\ [][RingNext]_vars /\ RingFairness
-----------------------------------------------------------------------------
\* Where the consumer is in the completion ring, wherever it keeps its head.
ConsumerHead == IF kth.pc = "scan" THEN kth.head ELSE drv.cq_head

\* Positions of the submissions the device has not read, and of the
\* completions the thread has not consumed.
Unread == {Plus(dev.sq_head, k) : k \in 0 .. (Dist(dev.sq_head, drv.sq_tail) - 1)}
Unconsumed == {Plus(ConsumerHead, k) : k \in 0 .. (Dist(ConsumerHead, dev.cq_tail) - 1)}

Unanswered == {t \in Tasks : task[t].pc \in {"doorbell", "wait"} /\ ~pend[t].done}

QueuedFor(t) == {j \in Unread : sq[j].cmd_id = task[t].id}
ServedFor(t) == {j \in Unconsumed : cq[j].valid /\ cq[j].cmd_id = task[t].id}

(***************************************************************************)
(* Nothing is lost or done twice between the two rings: an accepted ioctl  *)
(* that has not been answered is in exactly one place, as a submission the *)
(* device will still read or as a completion the thread will still find,   *)
(* under its id and with its command or the outcome of its command; and    *)
(* the rings hold nothing else.                                            *)
(***************************************************************************)
NothingLost ==
  /\ \A t \in Unanswered :
       /\ Cardinality(QueuedFor(t)) + Cardinality(ServedFor(t)) = 1
       /\ \A j \in QueuedFor(t) : sq[j].cmd = task[t].req
       /\ \A j \in ServedFor(t) : cq[j].out = Execute(task[t].req)
  /\ Cardinality(Unread) + Cardinality(Unconsumed) = Cardinality(Unanswered)

(***************************************************************************)
(* The device writes completions without looking whether the ring is full  *)
(* (dma.c:62-99), yet it never overwrites one the driver has not consumed: *)
(* the driver refreshes its view of sq_head only while it holds the lock   *)
(* under which it empties the completion ring (irq.c:73-82).               *)
(***************************************************************************)
CompletionsSurvive ==
  [][\A j \in Slots : cq[j].valid => cq'[j] = cq[j] \/ ~cq'[j].valid]_vars

(***************************************************************************)
(* Together the rings, the interrupt and the thread are the service the    *)
(* ioctl promises: every accepted call is executed once, answered in the   *)
(* order of acceptance and with its own outcome, and a call is refused     *)
(* with EBUSY only while RingSize - 1 calls are under way.                 *)
(***************************************************************************)
Phase(t) ==
  CASE task[t].pc = "idle" -> "idle"
    [] task[t].pc = "submit" -> "called"
    [] t \in Unanswered -> "accepted"
    [] OTHER -> "answered"

Queue == [k \in 1 .. Dist(dev.sq_head, drv.sq_tail) |->
            xa[sq[Plus(dev.sq_head, k - 1)].cmd_id]]
Served == [k \in 1 .. Dist(ConsumerHead, dev.cq_tail) |->
             xa[cq[Plus(ConsumerHead, k - 1)].cmd_id]]

Service == INSTANCE ComputeService WITH
  Capacity <- RingSize - 1,
  Answer   <- Execute,
  Busy     <- EBUSY,
  Nothing  <- NoOutcome,
  phase    <- [t \in Tasks |-> Phase(t)],
  request  <- [t \in Tasks |-> task[t].req],
  queue    <- Queue,
  served   <- Served,
  returned <- [t \in Tasks |-> task[t].ret]

ImplementsService == Service!Spec

(***************************************************************************)
(* "Block until device siganls completion of a job or shutting down"       *)
(* (char.c:182): a task that waits is woken in the end.  It is when one    *)
(* task uses the device.                                                   *)
(***************************************************************************)
EveryWaitEnds == \A t \in Tasks : task[t].pc = "wait" ~> task[t].pc = "idle"

(***************************************************************************)
(* What a call returns is C's 32-bit arithmetic on its own arguments, as   *)
(* mathaccel_ioc_compute promises its caller: the sum, difference or       *)
(* product wrapped to a word and widened with its sign (compute.c:54-66    *)
(* into the s64 of the completion).                                        *)
(***************************************************************************)
Returned(t) == task[t].pc = "idle" /\ task[t].ret \in Outcomes

WrapsToWord == \A t \in Tasks : Returned(t) => WrapLaw(task[t].req, task[t].ret)

(***************************************************************************)
(* Likewise for a division (compute.c:67-73): it truncates towards zero,   *)
(* and exactly a zero divisor is answered with an error status.            *)
(***************************************************************************)
DivisionLaw == \A t \in Tasks : Returned(t) => QuotientLaw(task[t].req, task[t].ret)
=============================================================================
