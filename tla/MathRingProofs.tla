----------------------------- MODULE MathRingProofs -----------------------------
(***************************************************************************)
(* What the driver's DMA path and the device do together, for any number    *)
(* of tasks, ring size and requests.  Three parts, each on the one before:  *)
(* no completion is overwritten, with or without DMA faults; while DMA does *)
(* not fail, no accepted ioctl is lost and each is answered with its own    *)
(* outcome; and the whole implements ComputeService.                        *)
(***************************************************************************)
EXTENDS MathRing, MathDeviceProofs, FiniteSetTheorems, FunctionTheorems, SequenceTheorems

(***************************************************************************)
(* Driver and device share the rings without a fill level: for any number  *)
(* of tasks, ring size and requests, the device overwrites no completion   *)
(* that the driver has not consumed.                                       *)
(***************************************************************************)
(***************************************************************************)
(* Going round the ring from h.                                            *)
(***************************************************************************)
LEMMA NextSlot ==
  ASSUME NEW h \in Slots, NEW i \in Slots
  PROVE  /\ Dist(h, i) = 0 <=> h = i
         /\ Plus(i, 1) # h => Dist(h, Plus(i, 1)) = Dist(h, i) + 1
         /\ h # i => Dist(Plus(h, 1), i) = Dist(h, i) - 1
         /\ Dist(Plus(h, 1), h) = RingSize - 1
         /\ Plus(i, 1) \in Slots
  BY RingAssumption DEF Slots, Dist, Plus

\* A segment from h to s, cut at c: j is in it iff it is in one of its parts.
LEMMA Segment ==
  ASSUME NEW h \in Slots, NEW c \in Slots, NEW s \in Slots, NEW j \in Slots,
         Dist(h, c) <= Dist(h, s)
  PROVE  /\ Dist(h, j) < Dist(h, s) <=> Dist(c, j) < Dist(c, s) \/ Dist(h, j) < Dist(h, c)
         /\ Dist(h, j) < Dist(h, c) => ~(Dist(c, j) < Dist(c, s))
  BY RingAssumption DEF Slots, Dist

(***************************************************************************)
(* The invariant.  The lock is held exactly while the thread scans.  While *)
(* the device is READY, what the driver takes for the device's head is     *)
(* where the thread will stop, or has; the heads and tails are in order    *)
(* from there; and the completions that are valid are those not consumed.  *)
(***************************************************************************)
Locking == drv.locked <=> kth.pc = "scan"

HeadsMeet ==
  /\ kth.pc = "scan" => kth.tail = dev.cq_tail /\ drv.sq_head = dev.cq_tail
  /\ kth.pc # "scan" => drv.cq_head = drv.sq_head

InOrder == Dist(ConsumerHead, dev.cq_tail) <= Dist(ConsumerHead, drv.sq_tail)

ValidUnconsumed ==
  \A j \in Slots : cq[j].valid <=> Dist(ConsumerHead, j) < Dist(ConsumerHead, dev.cq_tail)

RingInv ==
  /\ RingTypeOK /\ AtRest(dev) /\ Locking
  /\ dev.state = "READY" => HeadsMeet /\ InOrder /\ ValidUnconsumed

Drivers ==
  [sq_head : Slots, sq_tail : Slots, cq_head : Slots, cmdid : CmdIds,
   irq_cause : SUBSET IrqCauses, locked : BOOLEAN]
Records == [live : BOOLEAN, done : BOOLEAN, cause : {"NONE", "JOB_DONE"},
            out : Outcomes \cup {NoOutcome}]
Calls == [pc : TaskPcs, req : Requests, id : CmdIds, ret : Outcomes \cup {EBUSY, NoOutcome}]
Threads == [pc : KthreadPcs, head : Slots, tail : Slots]

LEMMA RingTypes ==
  /\ RingTypeOK <=> /\ dev \in Devices /\ sq \in [Slots -> SqEntries] /\ cq \in [Slots -> CqEntries]
                    /\ drv \in Drivers /\ xa \in [CmdIds -> Tasks \cup {NoTask}]
                    /\ pend \in [Tasks -> Records] /\ task \in [Tasks -> Calls]
                    /\ irq \in {"idle", "cause", "status"} /\ kth \in Threads
  /\ RingTypeOK' <=> /\ dev' \in Devices /\ sq' \in [Slots -> SqEntries]
                     /\ cq' \in [Slots -> CqEntries]
                     /\ drv' \in Drivers /\ xa' \in [CmdIds -> Tasks \cup {NoTask}]
                     /\ pend' \in [Tasks -> Records] /\ task' \in [Tasks -> Calls]
                     /\ irq' \in {"idle", "cause", "status"} /\ kth' \in Threads
  BY DEF RingTypeOK, DevTypeOK, Drivers, Records, Calls, Threads

LEMMA ConsumerInRing == RingTypeOK => ConsumerHead \in Slots
  BY RingTypes DEF ConsumerHead, Drivers, Threads
-----------------------------------------------------------------------------
(***************************************************************************)
(* A doorbell of a device that is READY leaves it READY only if the whole  *)
(* job is done.                                                            *)
(***************************************************************************)
LEMMA DoorbellReady ==
  ASSUME NEW d \in Devices, d.state = "READY", NEW tail \in Slots,
         NEW fault \in (IF RunsDma([d EXCEPT !.sq_tail = tail])
                          THEN Faults([d EXCEPT !.sq_tail = tail]) ELSE {NoFault}),
         Doorbell(d, tail, fault).state = "READY"
  PROVE  RunsDma([d EXCEPT !.sq_tail = tail]) /\ fault = NoFault
         /\ Doorbell(d, tail, fault).sq_tail = tail
<1> DEFINE e == [d EXCEPT !.sq_tail = tail]
           b == Enter(e, "SUBMIT_JOB")
<1>1. e \in Devices /\ e.state = "READY" /\ e.sq_tail = tail
  BY DEF Devices
<1> HIDE DEF e
<1>2. Legal(e, "SUBMIT_JOB") /\ b = [e EXCEPT !.state = "BUSY"]
  BY <1>1 DEF Legal, NextState, Invalid, Enter
<1>3. b \in Devices /\ b.state = "BUSY" /\ b.sq_tail = tail /\ b.flags = e.flags
      /\ b.bases = e.bases /\ b.sq_head = e.sq_head
  BY <1>1, <1>2 DEF Devices, States
<1>4. Doorbell(d, tail, fault) = StartDma(b, fault)
  BY <1>2 DEF Doorbell, e
<1>5. (DmaReady(b) <=> DmaReady(e)) /\ Faults(b) = Faults(e)
  BY <1>1, <1>3 DEF DmaReady, Faults, Pending
<1>6. {"DMA_DISABLED", "DMA_BAD_QUEUE", "DMA_READ", "DMA_WRITE"} \subseteq ErrorCauses
  BY DEF ErrorCauses
<1> HIDE DEF b
<1>7. CASE ~DmaReady(b)
  <2>1. \/ StartDma(b, fault) = Fail(b, "DMA_DISABLED")
        \/ StartDma(b, fault) = Fail(b, "DMA_BAD_QUEUE")
    BY <1>7 DEF StartDma, DmaReady
  <2>2. StartDma(b, fault).state = "ERROR"
    BY <1>3, <1>6, <2>1, FailFromBusy
  <2>3. QED
    BY <1>4, <2>2
<1>8. CASE DmaReady(b)
  <2>1. RunsDma(e) /\ fault \in Faults(b)
    BY <1>2, <1>5, <1>8 DEF RunsDma, e
  <2>2. StartDma(b, fault) = ConsumeSubmissionQueue(b, fault)
    BY <1>8 DEF StartDma, DmaReady
  <2> DEFINE c == [b EXCEPT !.sq_head = Plus(@, Reads(b, fault)),
                            !.cq_tail = Plus(@, Writes(b, fault))]
  <2>3. c \in Devices /\ c.state = "BUSY" /\ c.sq_tail = tail
    <3>1. Plus(b.sq_head, Reads(b, fault)) \in Slots /\ Plus(b.cq_tail, Writes(b, fault)) \in Slots
      BY <1>3, <2>1, FaultsBounded, RingArithmetic DEF Devices
    <3>2. QED
      BY <1>3, <3>1 DEF Devices
  <2>4. ConsumeSubmissionQueue(b, fault)
          = IF fault = NoFault THEN Done(c, "JOB_DONE") ELSE Fail(c, fault.kind)
    BY DEF ConsumeSubmissionQueue
  <2> HIDE DEF c
  <2>5. fault # NoFault => Fail(c, fault.kind).state = "ERROR"
    BY <1>3, <1>6, <2>1, <2>3, FaultsBounded, FailFromBusy
  <2>6. fault = NoFault
    BY <1>4, <2>2, <2>4, <2>5
  <2>7. Done(c, "JOB_DONE").sq_tail = tail
    BY <2>3, DoneFromBusy
  <2>8. QED
    BY <1>4, <2>1, <2>2, <2>4, <2>6, <2>7 DEF e
<1>9. QED
  BY <1>7, <1>8
-----------------------------------------------------------------------------
LEMMA RingInvInit == RingInit => RingInv
<1> SUFFICES ASSUME RingInit PROVE RingInv
  OBVIOUS
<1> USE DEF RingInit
<1>1. 0 \in Slots /\ 1 \in CmdIds
  BY RingAssumption, TasksAssumption DEF Slots
<1>2. AtRest(dev) /\ dev.state = "READY" /\ dev.cq_tail = PowerOn.cq_tail
  BY PowerOnAtRest DEF ProbedDevice, WriteFlags, WriteBases, AtRest, Devices
<1>3. PowerOn.cq_tail = 0
  BY DEF PowerOn, ActionInit
<1>4. RingTypeOK
  <2>1. dev \in Devices
    BY <1>2 DEF AtRest
  <2>2. sq \in [Slots -> SqEntries] /\ cq \in [Slots -> CqEntries]
    BY <1>1, ZeroEntries
  <2>3. drv \in Drivers /\ xa \in [CmdIds -> Tasks \cup {NoTask}] /\ kth \in Threads
    BY <1>1 DEF Drivers, Threads, KthreadPcs
  <2>4. pend \in [Tasks -> Records]
    BY DEF Records, Freed, FreshPending
  <2>5. task \in [Tasks -> Calls]
    BY <1>1 DEF Calls, TaskPcs
  <2>6. QED
    BY <2>1, <2>2, <2>3, <2>4, <2>5, RingTypes
<1>5. Locking /\ HeadsMeet
  BY DEF Locking, HeadsMeet
<1>6. ConsumerHead = 0 /\ Dist(0, 0) = 0 /\ \A j \in Slots : Dist(0, j) >= 0 /\ ~cq[j].valid
  BY RingAssumption DEF ConsumerHead, Dist, Slots, ZeroCqEntry
<1>7. InOrder /\ ValidUnconsumed
  <2>1. \A j \in Slots : Dist(0, j) \in Int
    BY DEF Dist, Slots
  <2>2. QED
    BY <1>2, <1>3, <1>6, <2>1 DEF InOrder, ValidUnconsumed
<1>8. QED
  BY <1>2, <1>4, <1>5, <1>7 DEF RingInv

\* Steps that leave the positions in the rings, the lock and the completions alone.
LEMMA PositionsKept ==
  ASSUME RingInv, RingTypeOK', AtRest(dev'), cq' = cq,
         dev'.state = dev.state, dev'.cq_tail = dev.cq_tail,
         drv'.sq_head = drv.sq_head, drv'.sq_tail = drv.sq_tail, drv'.cq_head = drv.cq_head,
         drv'.locked = drv.locked, kth'.head = kth.head, kth'.tail = kth.tail,
         kth'.pc = "scan" <=> kth.pc = "scan"
  PROVE  RingInv'
<1>1. Locking'
  BY DEF RingInv, Locking
<1>2. ConsumerHead' = ConsumerHead
  BY DEF ConsumerHead
<1>3. dev.state = "READY" => HeadsMeet' /\ InOrder' /\ ValidUnconsumed'
  BY <1>2 DEF RingInv, HeadsMeet, InOrder, ValidUnconsumed
<1>4. QED
  BY <1>1, <1>3 DEF RingInv

LEMMA BeginKeeps == ASSUME RingInv, NEW t \in Tasks, Begin(t) PROVE RingInv'
<1> USE RingTypes DEF RingInv
<1>1. PICK r \in Requests :
        task' = [task EXCEPT ![t] = [pc |-> "submit", req |-> r, id |-> drv.cmdid + 1,
                                     ret |-> NoOutcome]]
  BY DEF Begin
<1>2. drv.cmdid + 1 \in CmdIds
  BY DEF Begin
<1>3. task' \in [Tasks -> Calls]
  BY <1>1, <1>2 DEF Calls, TaskPcs
<1>4. drv' \in Drivers /\ drv' = [drv EXCEPT !.cmdid = @ + 1]
  BY <1>2 DEF Begin, Drivers
<1>5. pend' \in [Tasks -> Records] /\ xa' \in [CmdIds -> Tasks \cup {NoTask}]
  BY DEF Begin, Records, FreshPending
<1>6. RingTypeOK'
  BY <1>3, <1>4, <1>5 DEF Begin
<1>7. QED
  BY <1>4, <1>6, PositionsKept DEF Begin, Drivers

LEMMA BusyOrDoneKeeps ==
  ASSUME RingInv, NEW t \in Tasks, SubmitBusy(t) \/ ReturnDone(t) PROVE RingInv'
<1> USE RingTypes DEF RingInv
<1>1. pend' \in [Tasks -> Records]
  <2>1. pend' = [pend EXCEPT ![t] = Freed]
    BY DEF SubmitBusy, ReturnDone
  <2>2. Freed \in Records
    BY DEF Records, Freed, FreshPending
  <2>3. QED
    BY <2>1, <2>2
<1>2. task' \in [Tasks -> Calls]
  <2>1. task \in [Tasks -> Calls] /\ pend[t].out \in Outcomes \cup {NoOutcome}
    BY DEF Records
  <2>2. PICK c \in Calls : c = task[t]
    BY <2>1
  <2>3. PICK x \in Outcomes \cup {EBUSY, NoOutcome} :
          task' = [task EXCEPT ![t].pc = "idle", ![t].ret = x]
    BY <2>1 DEF SubmitBusy, ReturnDone
  <2>4. [c EXCEPT !.pc = "idle", !.ret = x] \in Calls
    BY DEF Calls, TaskPcs
  <2>5. QED
    BY <2>1, <2>2, <2>3, <2>4
<1>3. xa' \in [CmdIds -> Tasks \cup {NoTask}]
  BY DEF SubmitBusy, ReturnDone
<1>4. RingTypeOK'
  BY <1>1, <1>2, <1>3 DEF SubmitBusy, ReturnDone
<1>5. QED
  BY <1>4, PositionsKept DEF SubmitBusy, ReturnDone

LEMMA TopHalfKeeps == ASSUME RingInv, TopHalf PROVE RingInv'
<1> USE RingTypes DEF RingInv
<1>1. /\ dev' \in Devices /\ dev'.state = dev.state /\ dev'.cq_tail = dev.cq_tail
      /\ AtRest(dev')
  <2>1. dev \in Devices /\ AtRest(dev)
    OBVIOUS
  <2>2. \/ dev' = [dev EXCEPT !.msi = FALSE] \/ dev' = [dev EXCEPT !.irq_cause = {}] \/ dev' = dev
    BY DEF TopHalf, IrqEnter, IrqReadCause, IrqReadStatus, ReadIrqCause
  <2>3. /\ dev' \in Devices /\ dev'.state = dev.state /\ dev'.cq_tail = dev.cq_tail
        /\ dev'.sq_head = dev.sq_head /\ dev'.sq_tail = dev.sq_tail
    BY <2>1, <2>2 DEF Devices
  <2>4. QED
    BY <2>1, <2>3 DEF AtRest
<1>2. /\ drv' \in Drivers /\ drv'.sq_head = drv.sq_head /\ drv'.sq_tail = drv.sq_tail
      /\ drv'.cq_head = drv.cq_head /\ drv'.locked = drv.locked
  BY DEF TopHalf, IrqEnter, IrqReadCause, IrqReadStatus, Drivers, Devices
<1>3. /\ kth' \in Threads /\ kth'.head = kth.head /\ kth'.tail = kth.tail
      /\ kth'.pc = "scan" <=> kth.pc = "scan"
  BY DEF TopHalf, IrqEnter, IrqReadCause, IrqReadStatus, Threads, KthreadPcs
<1>4. irq' \in {"idle", "cause", "status"} /\ UNCHANGED <<sq, cq, xa, pend, task>>
  BY DEF TopHalf, IrqEnter, IrqReadCause, IrqReadStatus
<1>5. QED
  BY <1>1, <1>2, <1>3, <1>4, PositionsKept

LEMMA SleepOrTakeKeeps == ASSUME RingInv, KSleep \/ KTakeJobDone PROVE RingInv'
<1> USE RingTypes DEF RingInv
<1>1. /\ drv' \in Drivers /\ drv'.sq_head = drv.sq_head /\ drv'.sq_tail = drv.sq_tail
      /\ drv'.cq_head = drv.cq_head /\ drv'.locked = drv.locked
  BY DEF KSleep, KTakeJobDone, Drivers
<1>2. /\ kth' \in Threads /\ kth'.head = kth.head /\ kth'.tail = kth.tail
      /\ kth'.pc # "scan" /\ kth.pc # "scan"
  BY DEF KSleep, KTakeJobDone, KGoto, Threads, KthreadPcs
<1>3. UNCHANGED <<dev, sq, cq, xa, pend, task, irq>>
  BY DEF KSleep, KTakeJobDone
<1>4. QED
  BY <1>1, <1>2, <1>3, PositionsKept
-----------------------------------------------------------------------------
(***************************************************************************)
(* The steps that move the heads and tails.                                *)
(***************************************************************************)
\* Outside the scan, the consumer is where the driver takes the device's head to be.
LEMMA ConsumerIsHead ==
  ASSUME RingInv, ~drv.locked PROVE kth.pc # "scan" /\ ConsumerHead = drv.cq_head
  BY DEF RingInv, Locking, ConsumerHead

LEMMA SubmitKeeps == ASSUME RingInv, NEW t \in Tasks, Submit(t) PROVE RingInv'
<1> DEFINE s == Plus(drv.sq_tail, 1)
<1>1. RingTypeOK /\ AtRest(dev) /\ ~drv.locked /\ s # drv.sq_head
  BY DEF RingInv, Submit, SubmissionFull
<1>2. s \in Slots
  BY <1>1, RingTypes, NextSlot DEF Drivers
<1>3. drv' = [drv EXCEPT !.sq_tail = s]
  BY DEF Submit
<1>4. /\ drv' \in Drivers /\ drv'.sq_tail = s /\ drv'.sq_head = drv.sq_head
      /\ drv'.cq_head = drv.cq_head /\ drv'.locked = drv.locked
  <2> HIDE DEF s
  <2>1. QED
    BY <1>1, <1>2, <1>3, RingTypes DEF Drivers
<1>5. UNCHANGED <<dev, cq, xa, pend, irq, kth>>
  BY DEF Submit
<1>6. task' \in [Tasks -> Calls]
  <2>1. task[t] \in Calls
    BY <1>1, RingTypes
  <2>2. QED
    BY <1>1, <2>1, RingTypes DEF Submit, Goto, Calls, TaskPcs
<1>7. sq' \in [Slots -> SqEntries]
  <2>1. task[t].id \in CmdIds /\ task[t].req \in Commands
    BY <1>1, RingTypes, RequestsAssumption DEF Calls
  <2>2. QED
    BY <1>1, <2>1, RingTypes DEF Submit, SqEntries
<1>8. RingTypeOK'
  BY <1>1, <1>4, <1>5, <1>6, <1>7, RingTypes
<1>9. ConsumerHead = drv.cq_head /\ ConsumerHead' = drv.cq_head /\ kth.pc # "scan"
  BY <1>1, <1>4, <1>5, ConsumerIsHead DEF ConsumerHead
<1>10. dev.state = "READY" => HeadsMeet' /\ InOrder' /\ ValidUnconsumed'
  <2> SUFFICES ASSUME dev.state = "READY" PROVE HeadsMeet' /\ InOrder' /\ ValidUnconsumed'
    OBVIOUS
  <2>1. HeadsMeet /\ InOrder /\ ValidUnconsumed
    BY DEF RingInv
  <2>2. HeadsMeet' /\ ValidUnconsumed'
    BY <1>4, <1>5, <1>9, <2>1 DEF HeadsMeet, ValidUnconsumed
  <2>3. drv.cq_head = drv.sq_head
    BY <1>9, <2>1 DEF HeadsMeet
  <2>4. drv.cq_head \in Slots /\ drv.sq_tail \in Slots /\ dev.cq_tail \in Slots
    BY <1>1, RingTypes DEF Drivers, Devices
  <2>5. Dist(drv.cq_head, s) = Dist(drv.cq_head, drv.sq_tail) + 1
    BY <1>1, <2>3, <2>4, NextSlot
  <2>6. /\ Dist(drv.cq_head, drv.sq_tail) \in Int /\ Dist(drv.cq_head, dev.cq_tail) \in Int
        /\ Dist(drv.cq_head, dev.cq_tail) <= Dist(drv.cq_head, drv.sq_tail)
    BY <1>9, <2>1, <2>4, RingAssumption DEF InOrder, Dist, Slots
  <2>7. InOrder'
    BY <1>4, <1>5, <1>9, <2>5, <2>6 DEF InOrder
  <2>8. QED
    BY <2>2, <2>7
<1>11. Locking'
  BY <1>4, <1>5 DEF RingInv, Locking
<1>12. QED
  BY <1>1, <1>5, <1>8, <1>10, <1>11 DEF RingInv

\* What a doorbell does to the device and the completions, and that it spares those unconsumed.
LEMMA DoorbellSpares ==
  ASSUME RingInv, NEW t \in Tasks, StartDmaJob(t)
  PROVE  /\ RingInv'
         /\ \A j \in Slots : cq[j].valid => cq'[j] = cq[j]
<1> DEFINE d == [dev EXCEPT !.sq_tail = drv.sq_tail]
<1>1. RingTypeOK /\ AtRest(dev) /\ ~drv.locked /\ RingDoorbell(drv.sq_tail)
  BY DEF RingInv, StartDmaJob
<1>2. drv.sq_tail \in Slots /\ dev \in Devices /\ dev.cq_tail \in Slots /\ dev.sq_head \in Slots
  BY <1>1, RingTypes DEF Drivers, Devices
<1>3. PICK fault \in (IF RunsDma(d) THEN Faults(d) ELSE {NoFault}) :
        /\ dev' = Doorbell(dev, drv.sq_tail, fault)
        /\ cq' = IF RunsDma(d) THEN Completions(d, fault) ELSE cq
  BY <1>1 DEF RingDoorbell
<1>4. Handled(dev, dev')
  BY <1>1, <1>2, <1>3, DoorbellAtRest
<1>5. /\ d \in Devices /\ d.state = dev.state /\ d.sq_head = dev.sq_head
      /\ d.cq_tail = dev.cq_tail /\ d.sq_tail = drv.sq_tail
  BY <1>2 DEF Devices
<1>6. UNCHANGED <<sq, drv, xa, pend, irq, kth>> /\ task' = [task EXCEPT ![t].pc = "wait"]
  BY DEF StartDmaJob, Goto
<1>7. RingTypeOK'
  <2>1. task' \in [Tasks -> Calls]
    <3>1. task[t] \in Calls
      BY <1>1, RingTypes
    <3>2. QED
      BY <1>1, <1>6, <3>1, RingTypes DEF Calls, TaskPcs
  <2>2. cq' \in [Slots -> CqEntries]
    <3> HIDE DEF d
    <3>1. QED
      BY <1>1, <1>3, <1>5, CompletionsType, RingTypes
  <2>3. dev' \in Devices
    BY <1>4 DEF Handled, AtRest
  <2>4. QED
    BY <1>1, <1>6, <2>1, <2>2, <2>3, RingTypes
<1> HIDE DEF d
<1>8. ConsumerHead \in Slots /\ ConsumerHead' = ConsumerHead /\ kth.pc # "scan"
  BY <1>1, <1>6, ConsumerInRing, ConsumerIsHead DEF ConsumerHead
<1>9. CASE dev.state # "READY"
  <2>1. ~RunsDma(d) /\ dev'.state # "READY"
    <3>1. ~Legal(d, "SUBMIT_JOB")
      BY <1>5, <1>9 DEF Legal, NextState, Invalid
    <3>2. dev' = d
      BY <1>3, <3>1 DEF Doorbell, d
    <3>3. QED
      BY <1>5, <1>9, <3>1, <3>2 DEF RunsDma
  <2>2. cq' = cq
    BY <1>3, <2>1
  <2>3. QED
    BY <1>4, <1>6, <1>7, <2>1, <2>2 DEF RingInv, Locking, Handled
<1>10. CASE dev.state = "READY"
  <2> DEFINE h == ConsumerHead
             c == dev.cq_tail
             e == drv.sq_tail
  <2>1. HeadsMeet /\ InOrder /\ ValidUnconsumed /\ dev.sq_head = c
    BY <1>1, <1>10 DEF RingInv, AtRest
  <2>2. Dist(h, c) <= Dist(h, e)
    BY <2>1 DEF InOrder
  <2>3. Pending(d) = Dist(c, e)
    BY <1>5, <2>1 DEF Pending
  <2>4. RunsDma(d) => Writes(d, fault) <= Dist(c, e) /\ Writes(d, NoFault) = Dist(c, e)
    <3>1. Dist(c, e) \in 0 .. (RingSize - 1)
      BY <1>2, RingArithmetic
    <3>2. Writes(d, NoFault) = Dist(c, e)
      BY <2>3 DEF Writes
    <3>3. ASSUME RunsDma(d), fault # NoFault PROVE Writes(d, fault) <= Dist(c, e)
      <4>1. fault \in [kind : {"DMA_READ", "DMA_WRITE"}, at : 0 .. (Pending(d) - 1)]
        BY <1>3, <3>3 DEF Faults
      <4>2. fault.at \in 0 .. (Dist(c, e) - 1)
        BY <2>3, <4>1
      <4>3. Writes(d, fault) = fault.at
        BY <3>3 DEF Writes
      <4>4. QED
        BY <3>1, <4>2, <4>3
    <3>4. QED
      BY <3>1, <3>2, <3>3
  <2>5. ASSUME NEW j \in Slots
        PROVE  /\ Dist(h, j) < Dist(h, e) <=> Dist(c, j) < Dist(c, e) \/ Dist(h, j) < Dist(h, c)
               /\ Dist(h, j) < Dist(h, c) => ~(Dist(c, j) < Dist(c, e))
    BY <1>2, <1>8, <2>2, Segment
  <2>6. ASSUME NEW j \in Slots, cq[j].valid PROVE cq'[j] = cq[j]
    <3>1. ~(Dist(c, j) < Dist(c, e))
      BY <2>1, <2>5, <2>6 DEF ValidUnconsumed
    <3>2. CASE RunsDma(d)
      <4>1. ~(Dist(c, j) < Writes(d, fault)) => cq'[j] = cq[j]
        <5>1. cq' = Completions(d, fault)
          BY <1>3, <3>2
        <5>2. ~(Dist(d.cq_tail, j) < Writes(d, fault)) => Completions(d, fault)[j] = cq[j]
          BY DEF Completions
        <5>3. QED
          BY <1>5, <5>1, <5>2
      <4>2. Dist(c, j) \in Int /\ Dist(c, e) \in Int /\ Writes(d, fault) \in Int
        <5>1. Dist(c, j) \in Int /\ Dist(c, e) \in Int
          BY <1>2, RingAssumption DEF Dist, Slots
        <5>2. Writes(d, fault) \in 0 .. RingSize
          BY <1>3, <1>5, <3>2, FaultsBounded
        <5>3. QED
          BY <5>1, <5>2, RingAssumption
      <4>3. QED
        BY <2>4, <3>1, <3>2, <4>1, <4>2
    <3>3. CASE ~RunsDma(d)
      BY <1>3, <3>3
    <3>4. QED
      BY <3>2, <3>3
  <2>7. dev'.state = "READY" => HeadsMeet' /\ InOrder' /\ ValidUnconsumed'
    <3> SUFFICES ASSUME dev'.state = "READY" PROVE HeadsMeet' /\ InOrder' /\ ValidUnconsumed'
      OBVIOUS
    <3>1. RunsDma(d) /\ fault = NoFault /\ dev'.sq_tail = e
      BY <1>2, <1>3, <1>10, DoorbellReady DEF d
    <3>2. dev'.cq_tail = e
      BY <1>4, <3>1 DEF Handled, AtRest
    <3>3. HeadsMeet'
      BY <1>6, <1>8, <2>1 DEF HeadsMeet
    <3>4. InOrder'
      <4>1. Dist(h, e) \in Int
        BY <1>2, <1>8, RingAssumption DEF Dist, Slots
      <4>2. QED
        BY <1>6, <1>8, <3>2, <4>1 DEF InOrder
    <3>5. ASSUME NEW j \in Slots PROVE cq'[j].valid <=> Dist(h, j) < Dist(h, e)
      <4>1. cq'[j].valid <=> Dist(c, j) < Dist(c, e) \/ cq[j].valid
        <5>1. cq'[j] = IF Dist(c, j) < Dist(c, e)
                         THEN [cmd_id |-> sq[Plus(c, Dist(c, j))].cmd_id,
                               out |-> Execute(sq[Plus(c, Dist(c, j))].cmd), valid |-> TRUE]
                         ELSE cq[j]
          BY <1>3, <1>5, <2>1, <2>4, <3>1 DEF Completions
        <5>2. QED
          BY <5>1
      <4>2. QED
        BY <2>1, <2>5, <4>1 DEF ValidUnconsumed
    <3>6. ValidUnconsumed'
      BY <1>8, <3>2, <3>5 DEF ValidUnconsumed
    <3>7. QED
      BY <3>3, <3>4, <3>6
  <2>8. RingInv'
    BY <1>4, <1>6, <1>7, <2>7 DEF RingInv, Locking, Handled
  <2>9. QED
    BY <2>6, <2>8
<1>11. QED
  BY <1>9, <1>10

LEMMA LockKeeps == ASSUME RingInv, KSpurious \/ KLock PROVE RingInv'
<1>1. RingTypeOK /\ AtRest(dev) /\ Locking /\ ~drv.locked /\ kth.pc = "lock"
  BY DEF RingInv, KSpurious, KLock
<1>2. dev \in Devices /\ dev.sq_head \in Slots /\ dev.cq_tail \in Slots
  BY <1>1, RingTypes DEF Devices
<1>3. UNCHANGED <<dev, sq, cq, xa, pend, task, irq>>
  BY DEF KSpurious, KLock
<1>4. CASE KSpurious
  <2>1. drv' = [drv EXCEPT !.sq_head = dev.sq_head] /\ kth' = [kth EXCEPT !.pc = "check"]
        /\ drv.cq_head = dev.cq_tail
    BY <1>4 DEF KSpurious, KGoto
  <2>2. /\ drv' \in Drivers /\ drv'.sq_head = dev.sq_head /\ drv'.sq_tail = drv.sq_tail
        /\ drv'.cq_head = drv.cq_head /\ drv'.locked = drv.locked
    BY <1>1, <1>2, <2>1, RingTypes DEF Drivers
  <2>3. kth' \in Threads /\ kth'.pc = "check"
    BY <1>1, <2>1, RingTypes DEF Threads, KthreadPcs
  <2>4. RingTypeOK'
    BY <1>1, <1>3, <2>2, <2>3, RingTypes
  <2>5. ConsumerHead' = ConsumerHead
    BY <1>1, <2>2, <2>3 DEF ConsumerHead
  <2>6. dev.state = "READY" => HeadsMeet' /\ InOrder' /\ ValidUnconsumed'
    BY <1>1, <1>3, <2>1, <2>2, <2>3, <2>5
       DEF RingInv, AtRest, HeadsMeet, InOrder, ValidUnconsumed
  <2>7. Locking'
    BY <1>1, <2>2, <2>3 DEF Locking
  <2>8. QED
    BY <1>1, <1>3, <2>4, <2>6, <2>7 DEF RingInv
<1>5. CASE KLock
  <2>1. drv' = [drv EXCEPT !.sq_head = dev.sq_head, !.locked = TRUE]
        /\ kth' = [pc |-> "scan", head |-> drv.cq_head, tail |-> dev.cq_tail]
    BY <1>5 DEF KLock
  <2>2. /\ drv' \in Drivers /\ drv'.sq_head = dev.sq_head /\ drv'.sq_tail = drv.sq_tail
        /\ drv'.locked = TRUE
    BY <1>1, <1>2, <2>1, RingTypes DEF Drivers
  <2>3. kth' \in Threads /\ kth'.pc = "scan" /\ kth'.head = drv.cq_head /\ kth'.tail = dev.cq_tail
    BY <1>1, <1>2, <2>1, RingTypes DEF Threads, KthreadPcs, Drivers
  <2>4. RingTypeOK'
    BY <1>1, <1>3, <2>2, <2>3, RingTypes
  <2>5. ConsumerHead' = ConsumerHead
    BY <1>1, <2>3 DEF ConsumerHead
  <2>6. dev.state = "READY" => HeadsMeet' /\ InOrder' /\ ValidUnconsumed'
    BY <1>1, <1>3, <2>2, <2>3, <2>5 DEF RingInv, AtRest, HeadsMeet, InOrder, ValidUnconsumed
  <2>7. Locking'
    BY <2>2, <2>3 DEF Locking
  <2>8. QED
    BY <1>1, <1>3, <2>4, <2>6, <2>7 DEF RingInv
<1>6. QED
  BY <1>4, <1>5

\* The record that the thread completes holds what the device has written.
LEMMA ScanTypes == ASSUME RingTypeOK, KScan PROVE RingTypeOK'
<1> DEFINE entry == cq[kth.head]
           t == CompletedTask(entry)
<1>1. kth.head \in Slots /\ entry \in CqEntries /\ Plus(kth.head, 1) \in Slots
  BY RingTypes, NextSlot DEF Threads
<1>2. t \in Tasks \cup {NoTask} /\ entry.out \in Outcomes
  BY <1>1, RingTypes DEF CompletedTask, CqEntries
<1>3. pend' = (IF t = NoTask THEN pend
               ELSE [pend EXCEPT ![t].done = TRUE, ![t].cause = "JOB_DONE", ![t].out = entry.out])
  BY DEF KScan
<1>4. UNCHANGED <<dev, sq, drv, xa, task, irq>> /\ kth' = [kth EXCEPT !.head = Plus(@, 1)]
      /\ cq' = [cq EXCEPT ![kth.head].valid = FALSE]
  BY DEF KScan
<1> HIDE DEF t
<1>5. pend' \in [Tasks -> Records]
  <2>1. pend \in [Tasks -> Records]
    BY RingTypes
  <2>2. ASSUME NEW w \in Tasks
        PROVE  [pend[w] EXCEPT !.done = TRUE, !.cause = "JOB_DONE", !.out = entry.out] \in Records
    <3>1. PICK r \in Records : r = pend[w]
      BY <2>1
    <3>2. PICK x \in Outcomes : x = entry.out
      BY <1>2
    <3>3. [r EXCEPT !.done = TRUE, !.cause = "JOB_DONE", !.out = x] \in Records
      BY DEF Records
    <3>4. QED
      BY <3>1, <3>2, <3>3
  <2> HIDE DEF entry
  <2>3. QED
    BY <1>2, <1>3, <2>1, <2>2
<1>6. cq' \in [Slots -> CqEntries]
  BY <1>1, <1>4, RingTypes DEF CqEntries
<1>7. kth' \in Threads
  BY <1>1, <1>4, RingTypes DEF Threads
<1>8. QED
  BY <1>4, <1>5, <1>6, <1>7, RingTypes

LEMMA ScanKeeps == ASSUME RingInv, KScan PROVE RingInv'
<1> DEFINE h == kth.head
           c == dev.cq_tail
           s == drv.sq_tail
           n == Plus(h, 1)
<1>1. RingTypeOK /\ AtRest(dev) /\ Locking /\ kth.pc = "scan" /\ cq[h].valid /\ h # kth.tail
  BY DEF RingInv, KScan, MoreToScan
<1>2. h \in Slots /\ c \in Slots /\ s \in Slots
  BY <1>1, RingTypes DEF Threads, Devices, Drivers
<1>3. UNCHANGED <<dev, sq, drv, xa, task, irq>>
  BY DEF KScan
<1>4. kth'.pc = "scan" /\ kth'.head = n /\ kth'.tail = kth.tail
  BY <1>1, RingTypes DEF KScan, Threads
<1>5. ConsumerHead = h /\ ConsumerHead' = n
  BY <1>1, <1>4 DEF ConsumerHead
<1>6. ASSUME NEW j \in Slots PROVE cq'[j].valid <=> j # h /\ cq[j].valid
  <2>1. cq' = [cq EXCEPT ![h].valid = FALSE] /\ cq[h] \in CqEntries
    BY <1>1, <1>2, RingTypes DEF KScan
  <2> HIDE DEF h
  <2>2. cq \in [Slots -> CqEntries]
    BY <1>1, RingTypes
  <2>3. CASE j = h
    BY <1>2, <2>1, <2>2, <2>3 DEF CqEntries
  <2>4. CASE j # h
    BY <1>2, <2>1, <2>2, <2>4
  <2>5. QED
    BY <2>3, <2>4
<1>7. dev.state = "READY" => HeadsMeet' /\ InOrder' /\ ValidUnconsumed'
  <2> SUFFICES ASSUME dev.state = "READY" PROVE HeadsMeet' /\ InOrder' /\ ValidUnconsumed'
    OBVIOUS
  <2>1. HeadsMeet /\ InOrder /\ ValidUnconsumed
    BY DEF RingInv
  <2>2. kth.tail = c /\ drv.sq_head = c /\ h # c /\ Dist(h, c) <= Dist(h, s)
    BY <1>1, <1>5, <2>1 DEF HeadsMeet, InOrder
  <2>3. HeadsMeet'
    BY <1>3, <1>4, <2>2 DEF HeadsMeet
  <2>4. ASSUME NEW x \in Slots, NEW y \in Slots
        PROVE  Dist(x, y) \in 0 .. (RingSize - 1)
    BY RingArithmetic
  <2>5. ASSUME NEW j \in Slots
        PROVE  Dist(n, j) = IF j = h THEN RingSize - 1 ELSE Dist(h, j) - 1
    BY <1>2, NextSlot
  <2>6. h # s
    BY <1>2, <2>2, <2>4, NextSlot
  <2>7. Dist(n, c) <= Dist(n, s)
    BY <1>2, <2>2, <2>4, <2>5, <2>6
  <2>8. InOrder'
    BY <1>3, <1>5, <2>7 DEF InOrder
  <2>9. ASSUME NEW j \in Slots PROVE cq'[j].valid <=> Dist(n, j) < Dist(n, c)
    <3>1. cq[j].valid <=> Dist(h, j) < Dist(h, c)
      BY <1>5, <2>1 DEF ValidUnconsumed
    <3>2. Dist(h, c) \in 0 .. (RingSize - 1) /\ Dist(h, j) \in 0 .. (RingSize - 1)
      BY <1>2, <2>4
    <3>3. Dist(n, c) = Dist(h, c) - 1
      BY <1>2, <2>2, <2>5
    <3>4. QED
      BY <1>6, <2>5, <3>1, <3>2, <3>3, RingAssumption
  <2>10. ValidUnconsumed'
    BY <1>3, <1>5, <2>9 DEF ValidUnconsumed
  <2>11. QED
    BY <2>3, <2>8, <2>10
<1>8. Locking'
  BY <1>1, <1>3, <1>4 DEF Locking
<1>9. QED
  BY <1>1, <1>3, <1>7, <1>8, ScanTypes DEF RingInv

LEMMA UnlockKeeps == ASSUME RingInv, KUnlock PROVE RingInv'
<1>1. RingTypeOK /\ AtRest(dev) /\ Locking /\ kth.pc = "scan" /\ ~MoreToScan
      /\ drv' = [drv EXCEPT !.locked = FALSE, !.cq_head = kth.head]
      /\ kth' = [pc |-> "check", head |-> 0, tail |-> 0]
  BY DEF RingInv, KUnlock
<1>2. UNCHANGED <<dev, sq, cq, xa, pend, task, irq>>
  BY DEF KUnlock
<1>3. kth.head \in Slots /\ kth.tail \in Slots /\ 0 \in Slots
  BY <1>1, RingTypes, RingAssumption DEF Threads, Slots
<1>4. /\ drv' \in Drivers /\ drv'.sq_head = drv.sq_head /\ drv'.sq_tail = drv.sq_tail
      /\ drv'.cq_head = kth.head /\ drv'.locked = FALSE
  BY <1>1, <1>3, RingTypes DEF Drivers
<1>5. kth' \in Threads /\ kth'.pc = "check"
  BY <1>1, <1>3 DEF Threads, KthreadPcs
<1>6. RingTypeOK'
  BY <1>1, <1>2, <1>4, <1>5, RingTypes
<1>7. ConsumerHead = kth.head /\ ConsumerHead' = kth.head
  BY <1>1, <1>4, <1>5 DEF ConsumerHead
<1>8. dev.state = "READY" => HeadsMeet' /\ InOrder' /\ ValidUnconsumed'
  <2> SUFFICES ASSUME dev.state = "READY" PROVE HeadsMeet' /\ InOrder' /\ ValidUnconsumed'
    OBVIOUS
  <2>1. HeadsMeet /\ InOrder /\ ValidUnconsumed
    BY DEF RingInv
  <2>2. kth.tail = dev.cq_tail /\ drv.sq_head = dev.cq_tail
    BY <1>1, <2>1 DEF HeadsMeet
  <2>3. kth.head = kth.tail
    <3>1. cq[kth.head].valid <=> Dist(kth.head, kth.head) < Dist(kth.head, kth.tail)
      BY <1>3, <1>7, <2>1, <2>2 DEF ValidUnconsumed
    <3>2. Dist(kth.head, kth.tail) \in 0 .. (RingSize - 1) /\ Dist(kth.head, kth.head) = 0
          /\ (Dist(kth.head, kth.tail) = 0 => kth.head = kth.tail)
      BY <1>3, RingArithmetic, NextSlot
    <3>3. QED
      BY <1>1, <3>1, <3>2 DEF MoreToScan
  <2>4. QED
    BY <1>2, <1>4, <1>5, <1>7, <2>1, <2>2, <2>3 DEF HeadsMeet, InOrder, ValidUnconsumed
<1>9. Locking'
  BY <1>4, <1>5 DEF Locking
<1>10. QED
  BY <1>1, <1>2, <1>6, <1>8, <1>9 DEF RingInv
-----------------------------------------------------------------------------
LEMMA RingInvStep == RingInv /\ [RingNext]_vars => RingInv'
<1> SUFFICES ASSUME RingInv, [RingNext]_vars PROVE RingInv'
  OBVIOUS
<1>1. CASE \E t \in Tasks : TaskNext(t)
  BY <1>1, BeginKeeps, SubmitKeeps, BusyOrDoneKeeps, DoorbellSpares DEF TaskNext
<1>2. CASE TopHalf
  BY <1>2, TopHalfKeeps
<1>3. CASE Kthread
  BY <1>3, SleepOrTakeKeeps, LockKeeps, ScanKeeps, UnlockKeeps DEF Kthread
<1>4. CASE UNCHANGED vars
  <2>1. RingTypeOK'
    BY <1>4, RingTypes DEF RingInv, vars
  <2>2. QED
    BY <1>4, <2>1, PositionsKept DEF vars, RingInv
<1>5. QED
  BY <1>1, <1>2, <1>3, <1>4 DEF RingNext

\* What no step does to a completion.
Spared == \A j \in Slots : cq[j].valid => cq'[j] = cq[j] \/ ~cq'[j].valid

LEMMA StepSpares == RingInv /\ RingNext => Spared
<1> SUFFICES ASSUME RingInv, RingNext, NEW j \in Slots, cq[j].valid
             PROVE  cq'[j] = cq[j] \/ ~cq'[j].valid
  BY DEF Spared
<1>1. CASE \E t \in Tasks : StartDmaJob(t)
  BY <1>1, DoorbellSpares
<1>2. CASE KScan
  <2>1. cq' = [cq EXCEPT ![kth.head].valid = FALSE] /\ cq \in [Slots -> CqEntries]
    BY <1>2, RingTypes DEF KScan, RingInv
  <2>2. CASE j = kth.head
    BY <2>1, <2>2 DEF CqEntries
  <2>3. CASE j # kth.head
    BY <2>1, <2>3
  <2>4. QED
    BY <2>2, <2>3
<1>3. CASE \/ \E t \in Tasks : Begin(t) \/ Submit(t) \/ SubmitBusy(t) \/ ReturnDone(t)
           \/ TopHalf
           \/ KSleep \/ KTakeJobDone \/ KSpurious \/ KLock \/ KUnlock
  BY <1>3 DEF Begin, Submit, SubmitBusy, ReturnDone, TopHalf, IrqEnter, IrqReadCause,
              IrqReadStatus, KSleep, KTakeJobDone, KSpurious, KLock, KUnlock
<1>4. QED
  BY <1>1, <1>2, <1>3 DEF RingNext, TaskNext, Kthread

(***************************************************************************)
(* The lock, the order of the heads and tails round the rings and the      *)
(* valid bits of the completions, at every point of the driver's and the   *)
(* device's interleaving (char.c:126-146, dma.c:50-99, irq.c:61-96).       *)
(***************************************************************************)
THEOREM RingInvariant == RingSpec => []RingInv
  BY RingInvInit, RingInvStep, PTL DEF RingSpec

(***************************************************************************)
(* The driver's and the device's state keep their types while they run     *)
(* together: what is read from a ring is what the other side wrote there.  *)
(***************************************************************************)
THEOREM RingTypeCorrect == RingSpec => []RingTypeOK
<1>1. RingInv => RingTypeOK
  BY DEF RingInv
<1>2. QED
  BY <1>1, RingInvariant, PTL

(***************************************************************************)
(* With any number of tasks, rings of any size, and doorbells, interrupts  *)
(* and the thread in any order, the device never writes over a completion  *)
(* the driver has yet to consume, although it does not look (dma.c:62-99). *)
(***************************************************************************)
THEOREM RingCompletionsSurvive == RingSpec => CompletionsSurvive
<1>1. RingInv /\ [RingNext]_vars => [Spared]_vars
  BY StepSpares
<1>2. QED
  BY <1>1, RingInvariant, PTL DEF RingSpec, CompletionsSurvive, Spared
------------------------------------------------------------------------------
(***************************************************************************)
(* No accepted ioctl is lost or answered twice while DMA does not fail,    *)
(* for any number of tasks, any ring size and any number of ioctls.        *)
(*                                                                         *)
(* The slots from the consumer's head to the driver's tail hold what is    *)
(* under way: completions up to the device's index, submissions from       *)
(* there.  The xarray maps their ids one to one onto the tasks whose       *)
(* ioctl has been accepted and not answered.  So each is answered with the *)
(* outcome of its own command, which is what C's arithmetic makes it.      *)
(***************************************************************************)
IsServed(j) == Dist(ConsumerHead, j) < Dist(ConsumerHead, dev.cq_tail)
LiveSlots == {j \in Slots : Dist(ConsumerHead, j) < Dist(ConsumerHead, drv.sq_tail)}

IdAt(j) == IF IsServed(j) THEN cq[j].cmd_id ELSE sq[j].cmd_id
TaskAt(j) == xa[IdAt(j)]

\* A call under way is known by its id, which no earlier call has had.
Known ==
  \A t \in Tasks : task[t].pc # "idle" =>
    /\ xa[task[t].id] = t /\ task[t].id <= drv.cmdid
    /\ task[t].pc = "submit" => ~pend[t].done

Placed ==
  /\ \A j \in LiveSlots : TaskAt(j) \in Unanswered /\ task[TaskAt(j)].id = IdAt(j)
  /\ \A i, j \in LiveSlots : IdAt(i) = IdAt(j) => i = j
  /\ \A t \in Unanswered : \E j \in LiveSlots : IdAt(j) = task[t].id

Carried ==
  \A j \in LiveSlots :
    IF IsServed(j) THEN cq[j].out = Execute(task[TaskAt(j)].req)
    ELSE sq[j].cmd = task[TaskAt(j)].req

Running == dev.state = "READY" /\ DmaReady(dev)

PlacesInv == RingInv /\ Running /\ Known /\ Placed /\ Carried

LEMMA PlacesTypes ==
  ASSUME PlacesInv
  PROVE  /\ RingTypeOK /\ dev \in Devices /\ drv \in Drivers /\ kth \in Threads
         /\ dev.cq_tail \in Slots /\ drv.sq_tail \in Slots /\ ConsumerHead \in Slots
         /\ dev.sq_head = dev.cq_tail /\ drv.cmdid \in Nat
         /\ \A x, y \in Slots : Dist(x, y) \in 0 .. (RingSize - 1)
         /\ Dist(ConsumerHead, dev.cq_tail) <= Dist(ConsumerHead, drv.sq_tail)
<1>1. RingTypeOK /\ AtRest(dev) /\ InOrder /\ dev.state = "READY"
  BY DEF PlacesInv, RingInv, Running
<1>2. dev \in Devices /\ drv \in Drivers /\ kth \in Threads /\ ConsumerHead \in Slots
  BY <1>1, RingTypes, ConsumerInRing
<1>3. drv.cmdid \in Nat
  BY <1>2, TasksAssumption DEF Drivers
<1>4. \A x, y \in Slots : Dist(x, y) \in 0 .. (RingSize - 1)
  BY RingArithmetic
<1>5. QED
  BY <1>1, <1>2, <1>3, <1>4 DEF AtRest, InOrder, Devices, Drivers
-----------------------------------------------------------------------------
(***************************************************************************)
(* Steps that leave every call where it is.                                *)
(***************************************************************************)
LEMMA PlacesKept ==
  ASSUME PlacesInv, RingInv', Running', ConsumerHead' = ConsumerHead,
         dev'.cq_tail = dev.cq_tail, drv'.sq_tail = drv.sq_tail, drv'.cmdid = drv.cmdid,
         UNCHANGED <<sq, cq, xa, pend, task>>
  PROVE  PlacesInv'
<1>1. /\ \A j : IsServed(j)' <=> IsServed(j)
      /\ LiveSlots' = LiveSlots /\ Unanswered' = Unanswered
  BY DEF IsServed, LiveSlots, Unanswered
<1>2. \A j : IdAt(j)' = IdAt(j)
  BY <1>1 DEF IdAt
<1>3. \A j : TaskAt(j)' = TaskAt(j)
  BY <1>2 DEF TaskAt
<1>4. Known'
  BY DEF PlacesInv, Known
<1>5. Placed' /\ Carried'
  BY <1>1, <1>2, <1>3 DEF PlacesInv, Placed, Carried
<1>6. QED
  BY <1>4, <1>5 DEF PlacesInv

LEMMA InterruptsKeepPlaces == ASSUME PlacesInv, TopHalf, RingInv' PROVE PlacesInv'
<1>1. dev \in Devices /\ drv \in Drivers /\ kth \in Threads
  BY PlacesTypes
<1>2. /\ dev'.state = dev.state /\ dev'.flags = dev.flags /\ dev'.bases = dev.bases
      /\ dev'.cq_tail = dev.cq_tail
  BY <1>1 DEF TopHalf, IrqEnter, IrqReadCause, IrqReadStatus, ReadIrqCause, Devices
<1>3. drv'.sq_tail = drv.sq_tail /\ drv'.cmdid = drv.cmdid /\ drv'.cq_head = drv.cq_head
  BY <1>1 DEF TopHalf, IrqEnter, IrqReadCause, IrqReadStatus, Drivers
<1>4. kth'.head = kth.head /\ (kth'.pc = "scan" <=> kth.pc = "scan")
  BY <1>1 DEF TopHalf, IrqEnter, IrqReadCause, IrqReadStatus, Threads
<1>5. Running' /\ ConsumerHead' = ConsumerHead
  BY <1>2, <1>3, <1>4 DEF PlacesInv, Running, DmaReady, ConsumerHead
<1>6. UNCHANGED <<sq, cq, xa, pend, task>>
  BY DEF TopHalf, IrqEnter, IrqReadCause, IrqReadStatus
<1>7. QED
  BY <1>2, <1>3, <1>5, <1>6, PlacesKept

LEMMA ThreadKeepsPlaces ==
  ASSUME PlacesInv, KSleep \/ KTakeJobDone \/ KSpurious \/ KLock \/ KUnlock, RingInv'
  PROVE  PlacesInv'
<1>1. drv \in Drivers /\ kth \in Threads
  BY PlacesTypes
<1>2. UNCHANGED <<dev, sq, cq, xa, pend, task>>
  BY DEF KSleep, KTakeJobDone, KSpurious, KLock, KUnlock
<1>3. drv'.sq_tail = drv.sq_tail /\ drv'.cmdid = drv.cmdid
  BY <1>1 DEF KSleep, KTakeJobDone, KSpurious, KLock, KUnlock, Drivers
<1>4. ConsumerHead' = ConsumerHead
  <2>1. CASE KSleep \/ KTakeJobDone \/ KSpurious
    BY <1>1, <2>1 DEF KSleep, KTakeJobDone, KSpurious, KGoto, Drivers, Threads, ConsumerHead
  <2>2. CASE KLock
    BY <1>1, <2>2 DEF KLock, Threads, ConsumerHead
  <2>3. CASE KUnlock
    BY <1>1, <2>3 DEF KUnlock, Drivers, ConsumerHead
  <2>4. QED
    BY <2>1, <2>2, <2>3
<1>5. QED
  BY <1>2, <1>3, <1>4, PlacesKept DEF PlacesInv, Running
-----------------------------------------------------------------------------
(***************************************************************************)
(* Steps of one call outside the rings.                                    *)
(***************************************************************************)
LEMMA OutsideRings ==
  ASSUME PlacesInv, RingInv', NEW t \in Tasks, t \notin Unanswered, t \notin Unanswered',
         UNCHANGED <<dev, sq, cq, kth>>, drv'.sq_tail = drv.sq_tail, drv'.cq_head = drv.cq_head,
         \A u \in Tasks \ {t} : task'[u] = task[u] /\ pend'[u] = pend[u],
         \A j \in LiveSlots : xa'[IdAt(j)] = xa[IdAt(j)], Known'
  PROVE  PlacesInv'
<1>1. ConsumerHead' = ConsumerHead
  BY DEF ConsumerHead
<1>2. /\ \A j : IsServed(j)' <=> IsServed(j)
      /\ LiveSlots' = LiveSlots /\ Unanswered' = Unanswered
  BY <1>1 DEF IsServed, LiveSlots, Unanswered
<1>3. \A j : IdAt(j)' = IdAt(j)
  BY <1>2 DEF IdAt
<1>5. \A j \in LiveSlots : TaskAt(j)' = TaskAt(j) /\ TaskAt(j) \in Unanswered
  BY <1>3 DEF PlacesInv, Placed, TaskAt
<1>6. \A u \in Unanswered : task'[u] = task[u]
  BY DEF Unanswered
<1>7. Placed' /\ Carried'
  BY <1>2, <1>3, <1>5, <1>6 DEF PlacesInv, Placed, Carried
<1>8. QED
  BY <1>7 DEF PlacesInv, Running

LEMMA BeginPlaces == ASSUME PlacesInv, NEW t \in Tasks, Begin(t), RingInv' PROVE PlacesInv'
<1> DEFINE new == drv.cmdid + 1
<1>1. PICK r \in Requests :
        task' = [task EXCEPT ![t] = [pc |-> "submit", req |-> r, id |-> new, ret |-> NoOutcome]]
  BY DEF Begin
<1>2. /\ task[t].pc = "idle" /\ new \in CmdIds /\ drv' = [drv EXCEPT !.cmdid = new]
      /\ pend' = [pend EXCEPT ![t] = FreshPending] /\ xa' = [xa EXCEPT ![new] = t]
      /\ UNCHANGED <<dev, sq, cq, irq, kth>>
  BY DEF Begin
<1>3. /\ drv \in Drivers /\ drv.cmdid \in Nat /\ task \in [Tasks -> Calls]
      /\ pend \in [Tasks -> Records] /\ xa \in [CmdIds -> Tasks \cup {NoTask}]
  BY PlacesTypes, RingTypes
<1>4. drv'.sq_tail = drv.sq_tail /\ drv'.cq_head = drv.cq_head /\ drv'.cmdid = new
  BY <1>2, <1>3 DEF Drivers
<1>5. task'[t].pc = "submit" /\ task'[t].id = new /\ pend'[t].done = FALSE
  BY <1>1, <1>2, <1>3 DEF FreshPending
<1>6. \A u \in Tasks \ {t} : task'[u] = task[u] /\ pend'[u] = pend[u]
  BY <1>1, <1>2, <1>3
<1>7. \A u \in Tasks : task[u].pc # "idle" => /\ xa[task[u].id] = u /\ task[u].id \in CmdIds
                                              /\ task[u].id \in Nat /\ task[u].id <= drv.cmdid
  BY <1>3, TasksAssumption DEF PlacesInv, Known, Calls
<1>8. t \notin Unanswered /\ t \notin Unanswered'
  BY <1>2, <1>5 DEF Unanswered
<1>9. \A j \in LiveSlots : xa'[IdAt(j)] = xa[IdAt(j)]
  <2> SUFFICES ASSUME NEW j \in LiveSlots PROVE IdAt(j) # new
    BY <1>2
  <2>1. TaskAt(j) \in Unanswered /\ task[TaskAt(j)].id = IdAt(j)
    BY DEF PlacesInv, Placed
  <2>2. IdAt(j) \in Nat /\ IdAt(j) <= drv.cmdid
    BY <1>7, <2>1 DEF Unanswered
  <2>3. QED
    BY <1>3, <2>2
<1>10. Known'
  <2> SUFFICES ASSUME NEW u \in Tasks, task'[u].pc # "idle"
               PROVE  /\ xa'[task'[u].id] = u /\ task'[u].id <= drv'.cmdid
                      /\ task'[u].pc = "submit" => ~pend'[u].done
    BY DEF Known
  <2>1. CASE u = t
    BY <1>2, <1>3, <1>4, <1>5, <2>1
  <2>2. CASE u # t
    <3>1. task'[u] = task[u] /\ pend'[u] = pend[u] /\ task[u].id # new
          /\ task[u].id <= drv'.cmdid
      BY <1>3, <1>4, <1>6, <1>7, <2>2
    <3>2. xa'[task[u].id] = xa[task[u].id]
      BY <1>2, <1>3, <1>7, <3>1
    <3>3. QED
      BY <3>1, <3>2 DEF PlacesInv, Known
  <2>3. QED
    BY <2>1, <2>2
<1>11. QED
  BY <1>2, <1>4, <1>6, <1>8, <1>9, <1>10, OutsideRings

LEMMA ReturnPlaces ==
  ASSUME PlacesInv, NEW t \in Tasks, SubmitBusy(t) \/ ReturnDone(t), RingInv' PROVE PlacesInv'
<1>1. UNCHANGED <<dev, sq, cq, drv, irq, kth>>
      /\ (xa' = xa \/ xa' = [xa EXCEPT ![task[t].id] = NoTask])
      /\ pend' = [pend EXCEPT ![t] = Freed]
  BY DEF SubmitBusy, ReturnDone
<1>2. task \in [Tasks -> Calls] /\ xa \in [CmdIds -> Tasks \cup {NoTask}]
      /\ pend \in [Tasks -> Records]
  BY PlacesTypes, RingTypes
<1>3. /\ task'[t].pc = "idle"
      /\ \A u \in Tasks \ {t} : task'[u] = task[u] /\ pend'[u] = pend[u]
  BY <1>1, <1>2 DEF SubmitBusy, ReturnDone, Calls
<1>4. t \notin Unanswered /\ t \notin Unanswered'
  BY <1>3 DEF Unanswered, SubmitBusy, ReturnDone
<1>5. task[t].pc # "idle" /\ xa[task[t].id] = t
  BY DEF PlacesInv, Known, SubmitBusy, ReturnDone
<1>6. \A j \in LiveSlots : xa'[IdAt(j)] = xa[IdAt(j)]
  <2> SUFFICES ASSUME NEW j \in LiveSlots PROVE IdAt(j) # task[t].id /\ IdAt(j) \in CmdIds
    BY <1>1, <1>2
  <2>1. xa[IdAt(j)] \in Unanswered
    BY DEF PlacesInv, Placed, TaskAt
  <2>2. IdAt(j) \in CmdIds
    BY <1>2, <2>1 DEF PlacesInv, Placed, TaskAt, Unanswered, Calls
  <2>3. QED
    BY <1>4, <1>5, <2>1, <2>2
<1>7. Known'
  <2> SUFFICES ASSUME NEW u \in Tasks, task'[u].pc # "idle"
               PROVE  /\ xa'[task'[u].id] = u /\ task'[u].id <= drv'.cmdid
                      /\ task'[u].pc = "submit" => ~pend'[u].done
    BY DEF Known
  <2>1. u # t /\ task'[u] = task[u] /\ pend'[u] = pend[u]
    BY <1>3
  <2>2. xa[task[u].id] = u /\ task[u].id <= drv.cmdid
        /\ (task[u].pc = "submit" => ~pend[u].done)
    BY <2>1 DEF PlacesInv, Known
  <2>3. task[u].id # task[t].id /\ task[u].id \in CmdIds
    BY <1>2, <1>5, <2>1, <2>2 DEF Calls
  <2>4. xa'[task[u].id] = xa[task[u].id]
    BY <1>1, <1>2, <2>3
  <2>5. QED
    BY <1>1, <2>1, <2>2, <2>4
<1>8. QED
  BY <1>1, <1>3, <1>4, <1>6, <1>7, OutsideRings
-----------------------------------------------------------------------------
(***************************************************************************)
(* A submission takes the slot at the driver's tail.                       *)
(***************************************************************************)
LEMMA SameDistance ==
  ASSUME NEW h \in Slots, NEW i \in Slots, NEW j \in Slots, Dist(h, i) = Dist(h, j)
  PROVE  i = j
  BY RingAssumption DEF Slots, Dist

LEMMA SubmitPlaces == ASSUME PlacesInv, NEW t \in Tasks, Submit(t), RingInv' PROVE PlacesInv'
<1>0. PICK h, s, c : h = ConsumerHead /\ s = drv.sq_tail /\ c = dev.cq_tail
  OBVIOUS
<1>1. /\ task[t].pc = "submit" /\ ~drv.locked /\ Plus(s, 1) # drv.sq_head
      /\ sq' = [sq EXCEPT ![s] = [cmd_id |-> task[t].id, cmd |-> task[t].req]]
      /\ drv' = [drv EXCEPT !.sq_tail = Plus(@, 1)] /\ task' = [task EXCEPT ![t].pc = "doorbell"]
      /\ UNCHANGED <<dev, cq, xa, pend, irq, kth>>
  BY <1>0 DEF Submit, SubmissionFull, Goto
<1>2. /\ h \in Slots /\ s \in Slots /\ c \in Slots /\ Dist(h, c) <= Dist(h, s)
      /\ \A x, y \in Slots : Dist(x, y) \in 0 .. (RingSize - 1)
  BY <1>0, PlacesTypes
<1>3. /\ drv \in Drivers /\ task \in [Tasks -> Calls] /\ sq \in [Slots -> SqEntries]
      /\ pend \in [Tasks -> Records]
  BY PlacesTypes, RingTypes
<1>4. drv'.sq_tail = Plus(s, 1) /\ drv'.cq_head = drv.cq_head /\ drv'.cmdid = drv.cmdid
  BY <1>0, <1>1, <1>3 DEF Drivers
<1>5. ConsumerHead' = h
  BY <1>0, <1>1, <1>4 DEF ConsumerHead
<1>6. drv.sq_head = h
  BY <1>0, <1>1, ConsumerIsHead DEF PlacesInv, RingInv, Running, HeadsMeet
<1>7. Dist(h, Plus(s, 1)) = Dist(h, s) + 1
  BY <1>1, <1>2, <1>6, NextSlot
<1>8. \A j \in Slots : j \in LiveSlots' <=> j \in LiveSlots \/ j = s
  <2> SUFFICES ASSUME NEW j \in Slots
               PROVE  Dist(h, j) < Dist(h, s) + 1 <=> Dist(h, j) < Dist(h, s) \/ j = s
    BY <1>0, <1>4, <1>5, <1>7 DEF LiveSlots
  <2>1. Dist(h, j) = Dist(h, s) => j = s
    BY <1>2, SameDistance
  <2>2. Dist(h, j) \in Int /\ Dist(h, s) \in Int
    BY <1>2
  <2>3. QED
    BY <2>1, <2>2
<1>9. s \notin LiveSlots /\ ~IsServed(s)
  <2>1. Dist(h, s) \in Int /\ Dist(h, c) \in Int
    BY <1>2
  <2>2. QED
    BY <1>0, <1>2, <2>1 DEF LiveSlots, IsServed
<1>10. \A j : IsServed(j)' <=> IsServed(j)
  BY <1>0, <1>1, <1>5 DEF IsServed
<1>11. \A j \in LiveSlots : sq'[j] = sq[j] /\ IdAt(j)' = IdAt(j) /\ TaskAt(j)' = TaskAt(j)
  <2> SUFFICES ASSUME NEW j \in LiveSlots PROVE sq'[j] = sq[j]
    BY <1>1, <1>10 DEF IdAt, TaskAt
  <2>1. j \in Slots /\ j # s
    BY <1>9 DEF LiveSlots
  <2>2. QED
    BY <1>1, <1>3, <2>1
<1>12. sq'[s].cmd_id = task[t].id /\ sq'[s].cmd = task[t].req
  BY <1>1, <1>2, <1>3
<1>13. xa[task[t].id] = t /\ ~pend[t].done /\ t \notin Unanswered
  BY <1>1 DEF PlacesInv, Known, Unanswered
<1>14. IdAt(s)' = task[t].id /\ TaskAt(s)' = t
  BY <1>1, <1>9, <1>10, <1>12, <1>13 DEF IdAt, TaskAt
<1>15. \A u \in Tasks : /\ task'[u].id = task[u].id /\ task'[u].req = task[u].req
                        /\ u # t => task'[u] = task[u]
  BY <1>1, <1>3 DEF Calls
<1>16. task'[t].pc = "doorbell"
  BY <1>1, <1>3 DEF Calls
<1>17. Unanswered' = Unanswered \cup {t}
  BY <1>1, <1>13, <1>15, <1>16 DEF Unanswered
<1>18. Known'
  BY <1>1, <1>4, <1>13, <1>15, <1>16 DEF PlacesInv, Known
<1>19. \A j \in LiveSlots : /\ TaskAt(j) \in Unanswered /\ task[TaskAt(j)].id = IdAt(j)
                            /\ IdAt(j) # task[t].id
  BY <1>13 DEF PlacesInv, Placed, TaskAt
<1>20. LiveSlots' = LiveSlots \cup {s}
  BY <1>2, <1>8 DEF LiveSlots
<1>21. Placed'
  <2>1. \A j \in LiveSlots' : TaskAt(j)' \in Unanswered' /\ task'[TaskAt(j)'].id = IdAt(j)'
    BY <1>11, <1>14, <1>15, <1>17, <1>19, <1>20 DEF Unanswered
  <2>2. \A i, j \in LiveSlots' : IdAt(i)' = IdAt(j)' => i = j
    BY <1>11, <1>14, <1>19, <1>20 DEF PlacesInv, Placed
  <2>3. ASSUME NEW u \in Unanswered' PROVE \E j \in LiveSlots' : IdAt(j)' = task'[u].id
    <3>1. CASE u = t
      BY <1>14, <1>15, <1>20, <3>1
    <3>2. CASE u # t
      <4>1. u \in Unanswered /\ task'[u].id = task[u].id
        BY <1>15, <1>17, <3>2 DEF Unanswered
      <4>2. PICK j \in LiveSlots : IdAt(j) = task[u].id
        BY <4>1 DEF PlacesInv, Placed
      <4>3. QED
        BY <1>11, <1>20, <4>1, <4>2
    <3>3. QED
      BY <3>1, <3>2
  <2>4. QED
    BY <2>1, <2>2, <2>3 DEF Placed
<1>22. Carried'
  <2> SUFFICES ASSUME NEW j \in LiveSlots'
               PROVE  IF IsServed(j)' THEN cq'[j].out = Execute(task'[TaskAt(j)'].req)
                      ELSE sq'[j].cmd = task'[TaskAt(j)'].req
    BY DEF Carried
  <2>1. CASE j = s
    BY <1>9, <1>10, <1>12, <1>14, <1>15, <2>1
  <2>2. CASE j \in LiveSlots
    <3>1. TaskAt(j)' = TaskAt(j) /\ task'[TaskAt(j)].req = task[TaskAt(j)].req
      BY <1>11, <1>15, <1>19, <2>2 DEF Unanswered
    <3>2. QED
      BY <1>1, <1>10, <1>11, <2>2, <3>1 DEF PlacesInv, Carried
  <2>3. QED
    BY <1>20, <2>1, <2>2
<1>23. QED
  BY <1>1, <1>18, <1>21, <1>22 DEF PlacesInv, Running
-----------------------------------------------------------------------------
(***************************************************************************)
(* A doorbell turns the submissions under way into completions.            *)
(***************************************************************************)
LEMMA DoorbellDone ==
  ASSUME NEW d \in Devices, d.state = "READY", DmaReady(d), NEW tail \in Slots
  PROVE  /\ RunsDma([d EXCEPT !.sq_tail = tail])
         /\ Doorbell(d, tail, NoFault).state = "READY"
         /\ Doorbell(d, tail, NoFault).flags = d.flags
         /\ Doorbell(d, tail, NoFault).bases = d.bases
<1> DEFINE e == [d EXCEPT !.sq_tail = tail]
           b == Enter(e, "SUBMIT_JOB")
           c == [b EXCEPT !.sq_head = Plus(@, Reads(b, NoFault)),
                          !.cq_tail = Plus(@, Writes(b, NoFault))]
<1>1. e \in Devices /\ e.state = "READY" /\ e.flags = d.flags /\ e.bases = d.bases
  BY DEF Devices
<1> HIDE DEF e
<1>2. Legal(e, "SUBMIT_JOB") /\ b = [e EXCEPT !.state = "BUSY"]
  BY <1>1 DEF Legal, NextState, Invalid, Enter
<1>3. b \in Devices /\ b.state = "BUSY" /\ b.flags = d.flags /\ b.bases = d.bases
  BY <1>1, <1>2 DEF Devices, States
<1> HIDE DEF b
<1>4. DmaReady(b) /\ DmaReady(e)
  BY <1>1, <1>3 DEF DmaReady
<1>5. Plus(b.sq_head, Reads(b, NoFault)) \in Slots /\ Plus(b.cq_tail, Writes(b, NoFault)) \in Slots
  <2>1. NoFault \in Faults(b)
    BY DEF Faults
  <2>2. QED
    BY <1>3, <2>1, FaultsBounded, RingArithmetic DEF Devices
<1>6. c \in Devices /\ c.state = "BUSY" /\ c.flags = d.flags /\ c.bases = d.bases
  BY <1>3, <1>5 DEF Devices
<1>7. ConsumeSubmissionQueue(b, NoFault) = Done(c, "JOB_DONE")
  BY DEF ConsumeSubmissionQueue
<1>8. Doorbell(d, tail, NoFault) = ConsumeSubmissionQueue(b, NoFault)
  BY <1>2, <1>4 DEF Doorbell, StartDma, DmaReady, e, b
<1> HIDE DEF c
<1>9. /\ Done(c, "JOB_DONE").state = "READY" /\ Done(c, "JOB_DONE").flags = d.flags
      /\ Done(c, "JOB_DONE").bases = d.bases
  BY <1>6, DoneFromBusy
<1>10. RunsDma(e)
  BY <1>2, <1>4 DEF RunsDma
<1>11. QED
  BY <1>7, <1>8, <1>9, <1>10 DEF e

LEMMA DoorbellCompletes ==
  ASSUME ~MayFault, PlacesInv, NEW t \in Tasks, StartDmaJob(t), RingInv'
  PROVE  /\ dev'.state = "READY" /\ DmaReady(dev') /\ dev'.cq_tail = drv.sq_tail
         /\ \A j \in Slots :
              cq'[j] = IF Dist(dev.cq_tail, j) < Dist(dev.cq_tail, drv.sq_tail)
                         THEN [cmd_id |-> sq[j].cmd_id, out |-> Execute(sq[j].cmd),
                               valid |-> TRUE]
                         ELSE cq[j]
<1>0. PICK s, c : s = drv.sq_tail /\ c = dev.cq_tail
  OBVIOUS
<1> DEFINE e == [dev EXCEPT !.sq_tail = s]
<1>1. RingDoorbell(s)
  BY <1>0 DEF StartDmaJob
<1>2. s \in Slots /\ c \in Slots /\ dev \in Devices /\ dev.sq_head = c
  BY <1>0, PlacesTypes
<1>3. RunsDma(e) /\ Faults(e) = {NoFault}
  BY <1>2, DoorbellDone DEF PlacesInv, Running, Faults
<1>4. dev' = Doorbell(dev, s, NoFault) /\ cq' = Completions(e, NoFault)
  BY <1>1, <1>3 DEF RingDoorbell
<1>5. dev'.state = "READY" /\ DmaReady(dev')
  BY <1>2, <1>4, DoorbellDone DEF PlacesInv, Running, DmaReady
<1>6. dev'.cq_tail = s
  <2>1. dev'.sq_tail = s
    BY <1>2, <1>3, <1>4, <1>5, DoorbellReady DEF PlacesInv, Running
  <2>2. QED
    BY <1>5, <2>1 DEF RingInv, AtRest
<1>7. e.cq_tail = c /\ e.sq_head = c /\ Writes(e, NoFault) = Dist(c, s)
  BY <1>0, <1>2 DEF Devices, Writes, Pending
<1> HIDE DEF e
<1>8. ASSUME NEW j \in Slots
      PROVE  cq'[j] = IF Dist(c, j) < Dist(c, s)
                        THEN [cmd_id |-> sq[j].cmd_id, out |-> Execute(sq[j].cmd), valid |-> TRUE]
                        ELSE cq[j]
  <2>1. Plus(c, Dist(c, j)) = j
    BY <1>2, RingArithmetic
  <2>2. Completions(e, NoFault)[j]
          = IF Dist(c, j) < Dist(c, s)
              THEN [cmd_id |-> sq[Plus(c, Dist(c, j))].cmd_id,
                    out |-> Execute(sq[Plus(c, Dist(c, j))].cmd), valid |-> TRUE]
              ELSE cq[j]
    BY <1>7 DEF Completions
  <2>3. QED
    BY <1>4, <2>1, <2>2
<1>9. QED
  BY <1>0, <1>5, <1>6, <1>8

LEMMA DoorbellPlaces ==
  ASSUME ~MayFault, PlacesInv, NEW t \in Tasks, StartDmaJob(t), RingInv' PROVE PlacesInv'
<1>0. PICK h, s, c : h = ConsumerHead /\ s = drv.sq_tail /\ c = dev.cq_tail
  OBVIOUS
<1>1. /\ task[t].pc = "doorbell" /\ task' = [task EXCEPT ![t].pc = "wait"]
      /\ UNCHANGED <<sq, drv, xa, pend, irq, kth>>
  BY DEF StartDmaJob, Goto
<1>2. h \in Slots /\ s \in Slots /\ c \in Slots /\ Dist(h, c) <= Dist(h, s)
  BY <1>0, PlacesTypes
<1>3. task \in [Tasks -> Calls]
  BY PlacesTypes, RingTypes
<1>4. dev'.state = "READY" /\ DmaReady(dev')
  BY DoorbellCompletes
<1>5. dev'.cq_tail = s
  BY <1>0, DoorbellCompletes
<1>6. ConsumerHead' = h
  BY <1>0, <1>1 DEF ConsumerHead
<1>7. LiveSlots' = LiveSlots /\ \A j \in LiveSlots : IsServed(j)'
  BY <1>0, <1>1, <1>5, <1>6 DEF LiveSlots, IsServed
<1>8. ASSUME NEW j \in LiveSlots
       PROVE  cq'[j] = IF IsServed(j) THEN cq[j]
                       ELSE [cmd_id |-> sq[j].cmd_id, out |-> Execute(sq[j].cmd), valid |-> TRUE]
  <2>1. j \in Slots /\ Dist(h, j) < Dist(h, s)
    BY <1>0 DEF LiveSlots
  <2>2. Dist(c, j) < Dist(c, s) <=> ~IsServed(j)
    BY <1>0, <1>2, <2>1, Segment DEF IsServed
  <2>3. QED
    BY <1>0, <2>1, <2>2, DoorbellCompletes
<1>9. \A j \in LiveSlots : IdAt(j)' = IdAt(j) /\ TaskAt(j)' = TaskAt(j)
  <2> SUFFICES ASSUME NEW j \in LiveSlots PROVE IdAt(j)' = IdAt(j)
    BY <1>1 DEF TaskAt
  <2>1. IdAt(j)' = cq'[j].cmd_id
    BY <1>7 DEF IdAt
  <2>2. CASE IsServed(j)
    <3>1. cq'[j] = cq[j]
      BY <1>8, <2>2
    <3>2. QED
      BY <2>1, <2>2, <3>1 DEF IdAt
  <2>3. CASE ~IsServed(j)
    <3>1. cq'[j] = [cmd_id |-> sq[j].cmd_id, out |-> Execute(sq[j].cmd), valid |-> TRUE]
      BY <1>8, <2>3
    <3>2. QED
      BY <2>1, <2>3, <3>1 DEF IdAt
  <2>4. QED
    BY <2>2, <2>3
<1>10. \A u \in Tasks : /\ task'[u].id = task[u].id /\ task'[u].req = task[u].req
                        /\ u # t => task'[u] = task[u]
  BY <1>1, <1>3 DEF Calls
<1>11. task'[t].pc = "wait"
  BY <1>1, <1>3 DEF Calls
<1>12. Unanswered' = Unanswered
  BY <1>1, <1>10, <1>11 DEF Unanswered
<1>13. Known'
  BY <1>1, <1>10, <1>11 DEF PlacesInv, Known
<1>14. \A u \in Unanswered : u \in Tasks
  BY DEF Unanswered
<1>15. Placed'
  BY <1>7, <1>9, <1>10, <1>12, <1>14 DEF PlacesInv, Placed
<1>16. Carried'
  <2> SUFFICES ASSUME NEW j \in LiveSlots PROVE cq'[j].out = Execute(task'[TaskAt(j)].req)
    BY <1>7, <1>9 DEF Carried
  <2>1. task'[TaskAt(j)].req = task[TaskAt(j)].req
    BY <1>10, <1>14 DEF PlacesInv, Placed
  <2>2. CASE IsServed(j)
    <3>1. cq'[j] = cq[j]
      BY <1>8, <2>2
    <3>2. QED
      BY <2>1, <2>2, <3>1 DEF PlacesInv, Carried
  <2>3. CASE ~IsServed(j)
    <3>1. cq'[j] = [cmd_id |-> sq[j].cmd_id, out |-> Execute(sq[j].cmd), valid |-> TRUE]
      BY <1>8, <2>3
    <3>2. QED
      BY <2>1, <2>3, <3>1 DEF PlacesInv, Carried
  <2>4. QED
    BY <2>2, <2>3
<1>17. QED
  BY <1>4, <1>13, <1>15, <1>16 DEF PlacesInv, Running
-----------------------------------------------------------------------------
(***************************************************************************)
(* The thread answers the call whose completion is at the head.            *)
(***************************************************************************)
LEMMA ScanPlaces == ASSUME PlacesInv, KScan, RingInv' PROVE PlacesInv'
<1>0. PICK h, s, c, n, t :
        h = kth.head /\ s = drv.sq_tail /\ c = dev.cq_tail /\ n = Plus(h, 1) /\ t = TaskAt(h)
  OBVIOUS
<1>1. /\ kth.pc = "scan" /\ cq[h].valid /\ h # kth.tail
      /\ cq' = [cq EXCEPT ![h].valid = FALSE] /\ kth' = [kth EXCEPT !.head = n]
      /\ UNCHANGED <<dev, sq, drv, xa, task, irq>>
  BY <1>0 DEF KScan, MoreToScan
<1>2. h = ConsumerHead
  BY <1>0, <1>1 DEF ConsumerHead
<1>3. /\ h \in Slots /\ s \in Slots /\ c \in Slots /\ Dist(h, c) <= Dist(h, s)
      /\ \A x, y \in Slots : Dist(x, y) \in 0 .. (RingSize - 1)
  BY <1>0, <1>2, PlacesTypes
<1>4. /\ kth \in Threads /\ task \in [Tasks -> Calls] /\ cq \in [Slots -> CqEntries]
      /\ pend \in [Tasks -> Records]
  BY PlacesTypes, RingTypes
<1>5. ConsumerHead' = n
  BY <1>1, <1>4 DEF ConsumerHead, Threads
<1>6. /\ kth.tail = c /\ Dist(h, h) = 0
      /\ h # c /\ Dist(h, c) # 0 /\ h # s
  <2>1. kth.tail = c
    BY <1>0, <1>1 DEF PlacesInv, RingInv, Running, HeadsMeet
  <2>2. h # c /\ Dist(h, h) = 0 /\ Dist(h, c) # 0
    BY <1>1, <1>3, <2>1, NextSlot
  <2>3. Dist(h, s) # 0
    BY <1>3, <2>2
  <2>4. QED
    BY <1>3, <2>1, <2>2, <2>3, NextSlot
<1>7. \A j \in Slots : Dist(n, j) = IF j = h THEN RingSize - 1 ELSE Dist(h, j) - 1
  BY <1>0, <1>3, NextSlot
<1>8. ASSUME NEW j \in Slots, NEW x \in Slots, x # h, Dist(h, x) # 0
      PROVE  Dist(n, j) < Dist(n, x) <=> Dist(h, j) < Dist(h, x) /\ j # h
  <2>1. Dist(n, x) = Dist(h, x) - 1 /\ Dist(h, x) \in 1 .. (RingSize - 1)
    BY <1>3, <1>7, <1>8
  <2>2. Dist(h, j) \in 0 .. (RingSize - 1)
    BY <1>3
  <2>3. QED
    BY <1>7, <2>1, <2>2, RingAssumption
<1>9. Dist(h, s) # 0
  BY <1>3, <1>6
<1>10. LiveSlots' = LiveSlots \ {h}
  <2>1. \A j \in Slots : Dist(n, j) < Dist(n, s) <=> Dist(h, j) < Dist(h, s) /\ j # h
    BY <1>3, <1>6, <1>8, <1>9
  <2>2. QED
    BY <1>0, <1>1, <1>2, <1>5, <2>1 DEF LiveSlots
<1>11. \A j \in LiveSlots \ {h} : IsServed(j)' <=> IsServed(j)
  <2>1. \A j \in Slots : Dist(n, j) < Dist(n, c) <=> Dist(h, j) < Dist(h, c) /\ j # h
    BY <1>3, <1>6, <1>8
  <2>2. QED
    BY <1>0, <1>1, <1>2, <1>5, <2>1 DEF LiveSlots, IsServed
<1>12. h \in LiveSlots /\ IsServed(h)
  <2>1. Dist(h, c) > 0 /\ Dist(h, s) > 0
    BY <1>3, <1>6, <1>9
  <2>2. QED
    BY <1>0, <1>2, <1>3, <1>6, <2>1 DEF LiveSlots, IsServed
<1>13. /\ t \in Unanswered /\ t \in Tasks /\ task[t].id = IdAt(h)
       /\ CompletedTask(cq[h]) = t /\ t # NoTask
  BY <1>0, <1>12, TasksAssumption
     DEF PlacesInv, Placed, Unanswered, TaskAt, IdAt, CompletedTask
<1>14. pend' = [pend EXCEPT ![t].done = TRUE, ![t].cause = "JOB_DONE", ![t].out = cq[h].out]
  BY <1>0, <1>13 DEF KScan
<1>15. \A u \in Tasks \ {t} : pend'[u] = pend[u]
  BY <1>4, <1>14
<1>16. pend'[t].done = TRUE
  BY <1>4, <1>13, <1>14 DEF Records
<1>17. Unanswered' = Unanswered \ {t}
  BY <1>1, <1>13, <1>15, <1>16 DEF Unanswered
<1>18. \A j \in LiveSlots \ {h} : cq'[j] = cq[j]
  BY <1>1, <1>3, <1>4 DEF LiveSlots
<1>19. \A j \in LiveSlots \ {h} : IdAt(j)' = IdAt(j) /\ TaskAt(j)' = TaskAt(j)
  BY <1>1, <1>11, <1>18 DEF IdAt, TaskAt
<1>20. Known'
  <2>1. task[t].pc # "submit"
    BY <1>13 DEF Unanswered
  <2>2. QED
    BY <1>1, <1>15, <2>1 DEF PlacesInv, Known
<1>21. Placed'
  <2>1. ASSUME NEW j \in LiveSlots \ {h} PROVE TaskAt(j) # t
    BY <1>12, <1>13, <2>1 DEF PlacesInv, Placed
  <2>2. ASSUME NEW u \in Unanswered \ {t}
        PROVE  \E j \in LiveSlots \ {h} : IdAt(j) = task[u].id
    <3>1. PICK j \in LiveSlots : IdAt(j) = task[u].id
      BY DEF PlacesInv, Placed
    <3>2. xa[task[u].id] = u
      BY DEF PlacesInv, Known, Unanswered
    <3>3. j # h
      BY <1>0, <2>2, <3>1, <3>2 DEF TaskAt
    <3>4. QED
      BY <3>1, <3>3
  <2>3. \A j \in LiveSlots' : TaskAt(j)' \in Unanswered' /\ task'[TaskAt(j)'].id = IdAt(j)'
    BY <1>1, <1>10, <1>17, <1>19, <2>1 DEF PlacesInv, Placed
  <2>4. \A i, j \in LiveSlots' : IdAt(i)' = IdAt(j)' => i = j
    BY <1>10, <1>19 DEF PlacesInv, Placed
  <2>5. \A u \in Unanswered' : \E j \in LiveSlots' : IdAt(j)' = task'[u].id
    BY <1>1, <1>10, <1>17, <1>19, <2>2
  <2>6. QED
    BY <2>3, <2>4, <2>5 DEF Placed
<1>22. Carried'
  BY <1>1, <1>10, <1>11, <1>18, <1>19 DEF PlacesInv, Carried
<1>23. QED
  BY <1>1, <1>20, <1>21, <1>22 DEF PlacesInv, Running
-----------------------------------------------------------------------------
LEMMA PlacesInit == RingInit => PlacesInv
<1> SUFFICES ASSUME RingInit PROVE PlacesInv
  OBVIOUS
<1>1. RingInv
  BY RingInvInit
<1>2. dev = ProbedDevice /\ \A t \in Tasks : task[t].pc = "idle"
  BY DEF RingInit
<1>3. Running
  BY <1>2, PowerOnAtRest
     DEF Running, DmaReady, ProbedDevice, WriteFlags, WriteBases, AtRest, Devices, Flags
<1>4. Known /\ Unanswered = {}
  BY <1>2 DEF Known, Unanswered
<1>5. LiveSlots = {}
  <2>1. ConsumerHead = 0 /\ drv.sq_tail = 0
    BY DEF RingInit, ConsumerHead
  <2>2. \A j \in Slots : ~(Dist(0, j) < Dist(0, 0))
    BY RingAssumption DEF Slots, Dist
  <2>3. QED
    BY <2>1, <2>2 DEF LiveSlots
<1>6. Placed /\ Carried
  BY <1>4, <1>5 DEF Placed, Carried
<1>7. QED
  BY <1>1, <1>3, <1>4, <1>6 DEF PlacesInv

LEMMA PlacesStep == ASSUME ~MayFault PROVE PlacesInv /\ [RingNext]_vars => PlacesInv'
<1> SUFFICES ASSUME PlacesInv, [RingNext]_vars PROVE PlacesInv'
  OBVIOUS
<1>1. RingInv'
  BY RingInvStep DEF PlacesInv
<1>2. CASE \E t \in Tasks : TaskNext(t)
  BY <1>1, <1>2, BeginPlaces, SubmitPlaces, ReturnPlaces, DoorbellPlaces DEF TaskNext
<1>3. CASE TopHalf
  BY <1>1, <1>3, InterruptsKeepPlaces
<1>4. CASE Kthread
  BY <1>1, <1>4, ThreadKeepsPlaces, ScanPlaces DEF Kthread
<1>5. CASE UNCHANGED vars
  BY <1>1, <1>5, PlacesKept DEF vars, ConsumerHead, PlacesInv, Running
<1>6. QED
  BY <1>2, <1>3, <1>4, <1>5 DEF RingNext
-----------------------------------------------------------------------------
(***************************************************************************)
(* Counting what the rings hold.                                           *)
(***************************************************************************)
\* The m slots from i on.
LEMMA Stretch ==
  ASSUME NEW i \in Slots, NEW m \in 0 .. (RingSize - 1)
  PROVE  {Plus(i, k) : k \in 0 .. (m - 1)} = {j \in Slots : Dist(i, j) < m}
<1>1. ASSUME NEW k \in 0 .. (m - 1) PROVE Plus(i, k) \in Slots /\ Dist(i, Plus(i, k)) = k
  BY RingAssumption DEF Slots, Plus, Dist
<1>2. ASSUME NEW j \in Slots, Dist(i, j) < m PROVE \E k \in 0 .. (m - 1) : Plus(i, k) = j
  <2>1. Dist(i, j) \in 0 .. (RingSize - 1) /\ Plus(i, Dist(i, j)) = j
    BY RingArithmetic
  <2>2. Dist(i, j) \in 0 .. (m - 1)
    BY <1>2, <2>1, RingAssumption
  <2>3. QED
    BY <2>1, <2>2
<1>3. ASSUME NEW k \in 0 .. (m - 1) PROVE Plus(i, k) \in Slots /\ Dist(i, Plus(i, k)) < m
  BY <1>1, RingAssumption
<1>4. QED
  BY <1>2, <1>3

LEMMA PlacesAreTheRings ==
  ASSUME PlacesInv
  PROVE  /\ Unread = {j \in LiveSlots : ~IsServed(j)}
         /\ Unconsumed = {j \in LiveSlots : IsServed(j)}
<1>0. PICK h, s, c : h = ConsumerHead /\ s = drv.sq_tail /\ c = dev.cq_tail
  OBVIOUS
<1>1. /\ h \in Slots /\ s \in Slots /\ c \in Slots /\ dev.sq_head = c
      /\ Dist(h, c) <= Dist(h, s) /\ \A x, y \in Slots : Dist(x, y) \in 0 .. (RingSize - 1)
  BY <1>0, PlacesTypes
<1>2. \A j \in Slots :
        /\ Dist(h, j) < Dist(h, s) <=> Dist(c, j) < Dist(c, s) \/ Dist(h, j) < Dist(h, c)
        /\ Dist(h, j) < Dist(h, c) => ~(Dist(c, j) < Dist(c, s))
  BY <1>1, Segment
<1>3. Unread = {j \in Slots : Dist(c, j) < Dist(c, s)}
  BY <1>0, <1>1, Stretch DEF Unread
<1>4. Unconsumed = {j \in Slots : Dist(h, j) < Dist(h, c)}
  BY <1>0, <1>1, Stretch DEF Unconsumed
<1>5. QED
  BY <1>0, <1>2, <1>3, <1>4 DEF LiveSlots, IsServed

LEMMA OneSlotEach ==
  ASSUME PlacesInv
  PROVE  /\ IsFiniteSet(LiveSlots) /\ IsFiniteSet(Unanswered)
         /\ Cardinality(LiveSlots) = Cardinality(Unanswered)
<1> DEFINE f == [j \in LiveSlots |-> TaskAt(j)]
<1>1. IsFiniteSet(Slots)
  BY FS_Interval, RingAssumption DEF Slots
<1>2. IsFiniteSet(LiveSlots)
  BY <1>1, FS_Subset DEF LiveSlots
<1>3. f \in [LiveSlots -> Unanswered]
  BY DEF PlacesInv, Placed
<1>4. \A i, j \in LiveSlots : f[i] = f[j] => i = j
  BY DEF PlacesInv, Placed
<1>5. ASSUME NEW u \in Unanswered PROVE \E j \in LiveSlots : f[j] = u
  <2>1. PICK j \in LiveSlots : IdAt(j) = task[u].id
    BY DEF PlacesInv, Placed
  <2>2. xa[task[u].id] = u
    BY DEF PlacesInv, Known, Unanswered
  <2>3. QED
    BY <2>1, <2>2 DEF TaskAt
<1> HIDE DEF f
<1>6. f \in Bijection(LiveSlots, Unanswered)
  BY <1>3, <1>4, <1>5, Fun_IsBij
<1>7. ExistsBijection(LiveSlots, Unanswered)
  BY <1>6 DEF ExistsBijection
<1>8. QED
  BY <1>2, <1>7, FS_Bijection

LEMMA EachInOnePlace ==
  ASSUME PlacesInv, NEW t \in Unanswered
  PROVE  /\ Cardinality(QueuedFor(t)) + Cardinality(ServedFor(t)) = 1
         /\ \A j \in QueuedFor(t) : sq[j].cmd = task[t].req
         /\ \A j \in ServedFor(t) : cq[j].out = Execute(task[t].req)
<1>1. xa[task[t].id] = t
  BY DEF PlacesInv, Known, Unanswered
<1>2. \A j \in LiveSlots : j \in Slots /\ (IsServed(j) => cq[j].valid)
  BY DEF PlacesInv, RingInv, Running, ValidUnconsumed, LiveSlots, IsServed
<1>3. QueuedFor(t) = {j \in LiveSlots : ~IsServed(j) /\ IdAt(j) = task[t].id}
  BY PlacesAreTheRings DEF QueuedFor, IdAt
<1>4. ServedFor(t) = {j \in LiveSlots : IsServed(j) /\ IdAt(j) = task[t].id}
  BY <1>2, PlacesAreTheRings DEF ServedFor, IdAt
<1>5. \A j \in LiveSlots : IdAt(j) = task[t].id => TaskAt(j) = t
  BY <1>1 DEF TaskAt
<1>6. PICK p \in LiveSlots : IdAt(p) = task[t].id
  BY DEF PlacesInv, Placed
<1>7. \A j \in LiveSlots : IdAt(j) = task[t].id => j = p
  BY <1>6 DEF PlacesInv, Placed
<1>8. Cardinality(QueuedFor(t)) + Cardinality(ServedFor(t)) = 1
  <2>1. CASE IsServed(p)
    <3>1. QueuedFor(t) = {} /\ ServedFor(t) = {p}
      BY <1>3, <1>4, <1>6, <1>7, <2>1
    <3>2. QED
      BY <3>1, FS_EmptySet, FS_Singleton
  <2>2. CASE ~IsServed(p)
    <3>1. QueuedFor(t) = {p} /\ ServedFor(t) = {}
      BY <1>3, <1>4, <1>6, <1>7, <2>2
    <3>2. QED
      BY <3>1, FS_EmptySet, FS_Singleton
  <2>3. QED
    BY <2>1, <2>2
<1>9. QED
  BY <1>3, <1>4, <1>5, <1>8 DEF PlacesInv, Carried

LEMMA PlacesSuffice == PlacesInv => NothingLost
<1> SUFFICES ASSUME PlacesInv PROVE NothingLost
  OBVIOUS
<1>1. Unread = {j \in LiveSlots : ~IsServed(j)} /\ Unconsumed = {j \in LiveSlots : IsServed(j)}
  BY PlacesAreTheRings
<1>2. Unread \cup Unconsumed = LiveSlots /\ Unread \cap Unconsumed = {}
  BY <1>1
<1>3. IsFiniteSet(Unread) /\ IsFiniteSet(Unconsumed)
  BY <1>2, OneSlotEach, FS_Subset
<1>4. Cardinality(LiveSlots)
        = Cardinality(Unread) + Cardinality(Unconsumed) - Cardinality({})
  BY <1>2, <1>3, FS_Union
<1>5. Cardinality(Unread) \in Nat /\ Cardinality(Unconsumed) \in Nat /\ Cardinality({}) = 0
  BY <1>3, FS_CardinalityType, FS_EmptySet
<1>6. Cardinality(Unread) + Cardinality(Unconsumed) = Cardinality(Unanswered)
  BY <1>4, <1>5, OneSlotEach
<1>7. QED
  BY <1>6, EachInOnePlace DEF NothingLost

(***************************************************************************)
(* With any number of tasks, rings of any size and any number of ioctls,   *)
(* an accepted ioctl is in exactly one place between submission and answer *)
(* (char.c:126-184, dma.c:102-142, irq.c:61-96), as long as the device can *)
(* translate the driver's addresses.                                       *)
(***************************************************************************)
THEOREM RingLosesNothing == ASSUME ~MayFault PROVE RingSpec => []NothingLost
<1>1. RingInit => PlacesInv
  BY PlacesInit
<1>2. PlacesInv /\ [RingNext]_vars => PlacesInv'
  BY PlacesStep
<1>3. PlacesInv => NothingLost
  BY PlacesSuffice
<1>4. QED
  BY <1>1, <1>2, <1>3, PTL DEF RingSpec
-----------------------------------------------------------------------------
(***************************************************************************)
(* What a call returns is the outcome of its own command.                  *)
(***************************************************************************)
OwnAnswers ==
  \A t \in Tasks :
    /\ task[t].pc \in {"doorbell", "wait"} /\ pend[t].done => pend[t].out = Execute(task[t].req)
    /\ Returned(t) => task[t].ret = Execute(task[t].req)

LEMMA ErrnosAreNoOutcomes == EBUSY \notin Outcomes /\ NoOutcome \notin Outcomes
  BY DEF EBUSY, Errno, NoOutcome, Outcomes, Statuses

LEMMA ScanAnswers ==
  ASSUME PlacesInv, KScan
  PROVE  \E t \in Tasks :
           /\ pend' = [pend EXCEPT ![t].done = TRUE, ![t].cause = "JOB_DONE",
                                   ![t].out = cq[kth.head].out]
           /\ cq[kth.head].out = Execute(task[t].req)
<1>0. PICK h, t : h = kth.head /\ t = TaskAt(h)
  OBVIOUS
<1>1. kth.pc = "scan" /\ cq[h].valid /\ h = ConsumerHead
  BY <1>0 DEF KScan, MoreToScan, ConsumerHead
<1>2. /\ h \in Slots /\ dev.cq_tail \in Slots /\ drv.sq_tail \in Slots
      /\ Dist(h, dev.cq_tail) <= Dist(h, drv.sq_tail)
      /\ \A x, y \in Slots : Dist(x, y) \in 0 .. (RingSize - 1)
  BY <1>1, PlacesTypes
<1>3. IsServed(h)
  BY <1>1, <1>2 DEF PlacesInv, RingInv, Running, ValidUnconsumed, IsServed
<1>4. h \in LiveSlots
  <2>1. Dist(h, h) < Dist(h, dev.cq_tail)
    BY <1>1, <1>3 DEF IsServed
  <2>2. QED
    BY <1>1, <1>2, <2>1 DEF LiveSlots
<1>5. t \in Tasks /\ t # NoTask /\ CompletedTask(cq[h]) = t
  BY <1>0, <1>3, <1>4, TasksAssumption
     DEF PlacesInv, Placed, Unanswered, TaskAt, IdAt, CompletedTask
<1>6. cq[h].out = Execute(task[t].req)
  BY <1>0, <1>3, <1>4 DEF PlacesInv, Carried
<1>7. QED
  BY <1>0, <1>5, <1>6 DEF KScan

LEMMA CallAnswers ==
  ASSUME PlacesInv, OwnAnswers, NEW t \in Tasks, TaskNext(t) PROVE OwnAnswers'
<1>1. task \in [Tasks -> Calls] /\ pend \in [Tasks -> Records]
  BY PlacesTypes, RingTypes
<1>2. \A u \in Tasks \ {t} : task'[u] = task[u] /\ pend'[u] = pend[u]
  BY <1>1 DEF TaskNext, Begin, Submit, SubmitBusy, StartDmaJob, ReturnDone, Goto
<1>3. /\ task'[t].pc \in {"doorbell", "wait"} /\ pend'[t].done
           => pend'[t].out = Execute(task'[t].req)
      /\ Returned(t)' => task'[t].ret = Execute(task'[t].req)
  <2>1. CASE Begin(t)
    BY <1>1, <2>1 DEF Begin, Returned
  <2>2. CASE Submit(t)
    <3>1. pend' = pend /\ ~pend[t].done
      BY <2>2 DEF Submit, PlacesInv, Known
    <3>2. task'[t].pc = "doorbell"
      BY <1>1, <2>2 DEF Submit, Goto, Calls
    <3>3. QED
      BY <3>1, <3>2 DEF Returned
  <2>3. CASE SubmitBusy(t)
    <3>1. task'[t].pc = "idle" /\ task'[t].ret = EBUSY
      BY <1>1, <2>3 DEF SubmitBusy, Calls
    <3>2. QED
      BY <3>1, ErrnosAreNoOutcomes DEF Returned
  <2>4. CASE StartDmaJob(t)
    <3>1. /\ task[t].pc = "doorbell" /\ task'[t].pc = "wait" /\ task'[t].req = task[t].req
          /\ pend' = pend
      BY <1>1, <2>4 DEF StartDmaJob, Goto, Calls
    <3>2. QED
      BY <3>1 DEF Returned, OwnAnswers
  <2>5. CASE ReturnDone(t)
    <3>1. /\ task[t].pc = "wait" /\ pend[t].done /\ task'[t].pc = "idle"
          /\ task'[t].req = task[t].req /\ task'[t].ret = pend[t].out
      BY <1>1, <2>5 DEF ReturnDone, Calls
    <3>2. QED
      BY <3>1 DEF OwnAnswers
  <2>6. QED
    BY <2>1, <2>2, <2>3, <2>4, <2>5 DEF TaskNext
<1>4. QED
  BY <1>2, <1>3 DEF OwnAnswers, Returned

LEMMA AnswersStep == PlacesInv /\ OwnAnswers /\ [RingNext]_vars => OwnAnswers'
<1> SUFFICES ASSUME PlacesInv, OwnAnswers, [RingNext]_vars PROVE OwnAnswers'
  OBVIOUS
<1>1. CASE \E t \in Tasks : TaskNext(t)
  BY <1>1, CallAnswers
<1>2. CASE KScan
  <2>1. PICK t \in Tasks :
          /\ pend' = [pend EXCEPT ![t].done = TRUE, ![t].cause = "JOB_DONE",
                                  ![t].out = cq[kth.head].out]
          /\ cq[kth.head].out = Execute(task[t].req)
    BY <1>2, ScanAnswers
  <2>2. task' = task /\ pend \in [Tasks -> Records]
    BY <1>2, PlacesTypes, RingTypes DEF KScan
  <2>3. PICK r : r = [pend[t] EXCEPT !.done = TRUE, !.cause = "JOB_DONE", !.out = cq[kth.head].out]
    OBVIOUS
  <2>4. pend' = [pend EXCEPT ![t] = r]
    BY <2>1, <2>3
  <2>5. r.out = cq[kth.head].out
    BY <2>2, <2>3 DEF Records
  <2>6. pend'[t].out = Execute(task[t].req) /\ \A u \in Tasks \ {t} : pend'[u] = pend[u]
    BY <2>1, <2>2, <2>4, <2>5
  <2>7. \A u \in Tasks : Returned(u)' <=> Returned(u)
    BY <2>2 DEF Returned
  <2>8. ASSUME NEW u \in Tasks
        PROVE  /\ task'[u].pc \in {"doorbell", "wait"} /\ pend'[u].done
                    => pend'[u].out = Execute(task'[u].req)
               /\ Returned(u)' => task'[u].ret = Execute(task'[u].req)
    <3>1. /\ task[u].pc \in {"doorbell", "wait"} /\ pend[u].done
               => pend[u].out = Execute(task[u].req)
          /\ Returned(u) => task[u].ret = Execute(task[u].req)
      BY DEF OwnAnswers
    <3>2. CASE u = t
      BY <2>2, <2>6, <2>7, <3>1, <3>2
    <3>3. CASE u # t
      BY <2>2, <2>6, <2>7, <3>1, <3>3
    <3>4. QED
      BY <3>2, <3>3
  <2>9. QED
    BY <2>8, Zenon DEF OwnAnswers
<1>3. CASE TopHalf \/ KSleep \/ KTakeJobDone \/ KSpurious \/ KLock \/ KUnlock \/ UNCHANGED vars
  <2>1. task' = task /\ pend' = pend
    BY <1>3 DEF TopHalf, IrqEnter, IrqReadCause, IrqReadStatus, KSleep, KTakeJobDone, KSpurious,
                KLock, KUnlock, vars
  <2>2. QED
    BY <2>1 DEF OwnAnswers, Returned
<1>4. QED
  BY <1>1, <1>2, <1>3 DEF RingNext, Kthread

LEMMA AnswersInit == RingInit => OwnAnswers
  BY ErrnosAreNoOutcomes DEF RingInit, OwnAnswers, Returned

LEMMA AnswersAreTheCallers == ASSUME ~MayFault PROVE RingSpec => [](PlacesInv /\ OwnAnswers)
<1>1. RingInit => PlacesInv /\ OwnAnswers
  BY PlacesInit, AnswersInit
<1>2. PlacesInv /\ OwnAnswers /\ [RingNext]_vars => PlacesInv' /\ OwnAnswers'
  BY PlacesStep, AnswersStep
<1>3. QED
  BY <1>1, <1>2, PTL DEF RingSpec
-----------------------------------------------------------------------------
(***************************************************************************)
(* C's arithmetic, in words of any width.                                  *)
(***************************************************************************)
LEMMA Modulus ==
  ASSUME NEW x \in Int, NEW n \in Nat \ {0}
  PROVE  x % n \in 0 .. (n - 1) /\ x \div n \in Int /\ x = n * (x \div n) + (x % n)
  OBVIOUS

LEMMA MultipleOf ==
  ASSUME NEW q \in Int, NEW n \in Nat \ {0}
  PROVE  (n * q) % n = 0
  OBVIOUS

LEMMA WrapIsCongruent ==
  ASSUME NEW x \in Int
  PROVE  Wrap(x) \in Word /\ (Wrap(x) - x) % (2 * Half) = 0
<1> DEFINE n == 2 * Half
           q == (x + Half) \div n
           r == (x + Half) % n
<1>1. n \in Nat \ {0} /\ Half \in Nat \ {0} /\ x + Half \in Int
  BY HalfAssumption
<1>2. r \in 0 .. (n - 1) /\ q \in Int /\ x + Half = n * q + r
  <2> HIDE DEF n
  <2>1. QED
    BY <1>1, Modulus
<1>3. Wrap(x) = r - Half
  BY DEF Wrap
<1> HIDE DEF q, r
<1>4. Wrap(x) \in Word
  BY <1>1, <1>2, <1>3 DEF Word
<1>5. Wrap(x) - x = n * (-q)
  <2>1. n * (-q) = -(n * q)
    BY <1>1, <1>2
  <2>2. n * q \in Int
    BY <1>1, <1>2
  <2> HIDE DEF n
  <2>3. QED
    BY <1>1, <1>2, <1>3, <2>1, <2>2
<1>6. (n * (-q)) % n = 0
  <2> HIDE DEF n
  <2>1. QED
    BY <1>1, <1>2, MultipleOf
<1>7. QED
  BY <1>4, <1>5, <1>6

LEMMA TruncDivLaw ==
  ASSUME NEW a \in Word, NEW b \in Word, b # 0, ~(a = -Half /\ b = -1)
  PROVE  /\ TruncDiv(a, b) \in Word
         /\ Abs(a - TruncDiv(a, b) * b) < Abs(b)
         /\ a - TruncDiv(a, b) * b # 0 => (a - TruncDiv(a, b) * b < 0) = (a < 0)
<1> DEFINE m == Abs(a)
           n == Abs(b)
           q == m \div n
           r == m % n
<1>1. m \in Nat /\ n \in Nat \ {0} /\ a \in Int /\ b \in Int
  BY HalfAssumption DEF Abs, Word
<1> HIDE DEF m, n
<1>2. r \in 0 .. (n - 1) /\ q \in Int /\ m = n * q + r
  BY <1>1, Modulus
<1> HIDE DEF q, r
<1>3. q >= 0 /\ q <= m /\ (n # 1 /\ m # 0 => q < m)
  BY <1>1, <1>2
<1>4. TruncDiv(a, b) = IF (a < 0) = (b < 0) THEN q ELSE -q
  BY DEF TruncDiv, q, m, n
<1>5. TruncDiv(a, b) * b = IF a < 0 THEN -(n * q) ELSE n * q
  BY <1>1, <1>2, <1>4 DEF n, Abs
<1>6. a - TruncDiv(a, b) * b = IF a < 0 THEN -r ELSE r
  BY <1>1, <1>2, <1>5 DEF m, Abs
<1>7. TruncDiv(a, b) \in Word
  BY <1>1, <1>2, <1>3, <1>4, HalfAssumption DEF Word, m, n, Abs
<1>8. QED
  BY <1>1, <1>2, <1>6, <1>7 DEF n, Abs

LEMMA ReturnedByTheUnit ==
  ASSUME PlacesInv, OwnAnswers, NEW t \in Tasks, Returned(t)
  PROVE  /\ task[t].ret = Execute(task[t].req) /\ ~Traps(task[t].req)
         /\ task[t].req.a \in Word /\ task[t].req.b \in Word
<1>1. task[t].req \in Requests
  BY PlacesTypes, RingTypes DEF Calls
<1>2. QED
  BY <1>1, RequestsAssumption DEF OwnAnswers, Commands

LEMMA OwnAnswersWrap == ASSUME PlacesInv, OwnAnswers PROVE WrapsToWord
<1> SUFFICES ASSUME NEW t \in Tasks, Returned(t), task[t].req.op \in {"ADD", "SUB", "MUL"}
             PROVE  /\ task[t].ret.status = "SUCCESS" /\ task[t].ret.result \in Word
                    /\ (task[t].ret.result - Exact(task[t].req)) % (2 * Half) = 0
  BY DEF WrapsToWord, WrapLaw
<1>1. /\ task[t].ret = Execute(task[t].req)
      /\ task[t].req.a \in Int /\ task[t].req.b \in Int
  BY ReturnedByTheUnit, HalfAssumption DEF Word
<1>2. Exact(task[t].req) \in Int
  BY <1>1 DEF Exact
<1>3. task[t].ret = [status |-> "SUCCESS", result |-> Wrap(Exact(task[t].req))]
  BY <1>1 DEF Execute, Exact
<1>4. QED
  BY <1>2, <1>3, WrapIsCongruent

LEMMA OwnAnswersDivide == ASSUME PlacesInv, OwnAnswers PROVE DivisionLaw
<1> SUFFICES ASSUME NEW t \in Tasks, Returned(t), task[t].req.op = "DIV"
             PROVE  QuotientLaw(task[t].req, task[t].ret)
  BY DEF DivisionLaw, QuotientLaw
<1>1. PICK a, b : a = task[t].req.a /\ b = task[t].req.b
  OBVIOUS
<1>2. /\ task[t].ret = Execute(task[t].req) /\ ~(a = -Half /\ b = -1)
      /\ a \in Word /\ b \in Word
  BY <1>1, ReturnedByTheUnit DEF Traps
<1>3. CASE b = 0
  BY <1>1, <1>2, <1>3 DEF Execute, QuotientLaw
<1>4. CASE b # 0
  <2>1. task[t].ret = [status |-> "SUCCESS", result |-> TruncDiv(a, b)]
    BY <1>1, <1>2, <1>4 DEF Execute
  <2>2. QED
    BY <1>1, <1>2, <1>4, <2>1, TruncDivLaw DEF QuotientLaw
<1>5. QED
  BY <1>3, <1>4

(***************************************************************************)
(* Whatever the width of a word, the number of callers and the size of the *)
(* rings: the sum, difference or product a call returns is the word        *)
(* congruent to the exact one on its own arguments (compute.c:54-66).      *)
(***************************************************************************)
THEOREM RingWrapsToWord == ASSUME ~MayFault PROVE RingSpec => []WrapsToWord
  BY OwnAnswersWrap, AnswersAreTheCallers, PTL

(***************************************************************************)
(* Likewise for a quotient, which truncates towards zero, and for the      *)
(* error a zero divisor is answered with (compute.c:67-73).                *)
(***************************************************************************)
THEOREM RingDivisionLaw == ASSUME ~MayFault PROVE RingSpec => []DivisionLaw
  BY OwnAnswersDivide, AnswersAreTheCallers, PTL
------------------------------------------------------------------------------
(***************************************************************************)
(* The rings, the interrupt and the kernel thread implement the service    *)
(* the ioctl promises, while DMA does not fail: for any number of tasks    *)
(* and ioctls and any ring size.                                           *)
(*                                                                         *)
(* Both queues of the service are stretches of the rings, read through the *)
(* xarray; the lemmas about them are about a stretch of any function.      *)
(***************************************************************************)
\* What an entry of the xarray is.
MaybeTasks == Tasks \cup {NoTask}

\* The m slots from i on, read through f.
Line(i, m, f) == [k \in 1 .. m |-> f[Plus(i, k - 1)]]

LEMMA LineType ==
  ASSUME NEW i \in Slots, NEW m \in 0 .. (RingSize - 1), NEW f \in [Slots -> MaybeTasks]
  PROVE  /\ Line(i, m, f) \in Seq(MaybeTasks) /\ Len(Line(i, m, f)) = m
<1>1. m \in Nat
  BY RingAssumption
<1>2. ASSUME NEW k \in 1 .. m PROVE Plus(i, k - 1) \in Slots
  BY RingAssumption DEF Slots, Plus
<1>3. Line(i, m, f) \in [1 .. m -> MaybeTasks]
  BY <1>2 DEF Line
<1>4. QED
  BY <1>1, <1>3, SeqDef

LEMMA LineAt ==
  ASSUME NEW i, NEW m, NEW f, NEW k \in 1 .. m PROVE Line(i, m, f)[k] = f[Plus(i, k - 1)]
  BY DEF Line

LEMMA LineSame ==
  ASSUME NEW i \in Slots, NEW m \in 0 .. (RingSize - 1),
         NEW f, NEW g, \A j \in Slots : Dist(i, j) < m => f[j] = g[j]
  PROVE  Line(i, m, f) = Line(i, m, g)
<1> SUFFICES ASSUME NEW k \in 1 .. m PROVE f[Plus(i, k - 1)] = g[Plus(i, k - 1)]
  BY DEF Line
<1>1. Plus(i, k - 1) \in Slots /\ Dist(i, Plus(i, k - 1)) = k - 1
  BY RingAssumption DEF Slots, Plus, Dist
<1>2. k - 1 < m
  BY RingAssumption
<1>3. QED
  BY <1>1, <1>2

LEMMA LineAppend ==
  ASSUME NEW i \in Slots, NEW m \in 0 .. (RingSize - 2), NEW f \in [Slots -> MaybeTasks]
  PROVE  Line(i, m + 1, f) = Append(Line(i, m, f), f[Plus(i, m)])
<1>1. /\ m \in 0 .. (RingSize - 1) /\ m + 1 \in 0 .. (RingSize - 1) /\ m \in Nat
      /\ Plus(i, m) \in Slots
  BY RingAssumption DEF Slots, Plus
<1>2. /\ Line(i, m, f) \in Seq(MaybeTasks) /\ Len(Line(i, m, f)) = m
      /\ Line(i, m + 1, f) \in Seq(MaybeTasks) /\ Len(Line(i, m + 1, f)) = m + 1
  BY <1>1, LineType
<1>3. f[Plus(i, m)] \in MaybeTasks
  BY <1>1
<1>4. /\ Append(Line(i, m, f), f[Plus(i, m)]) \in Seq(MaybeTasks)
      /\ Len(Append(Line(i, m, f), f[Plus(i, m)])) = m + 1
  BY <1>2, <1>3
<1>5. ASSUME NEW k \in 1 .. (m + 1)
      PROVE  Line(i, m + 1, f)[k] = Append(Line(i, m, f), f[Plus(i, m)])[k]
  <2>1. Line(i, m + 1, f)[k] = f[Plus(i, k - 1)]
    BY LineAt
  <2>2. CASE k = m + 1
    BY <1>1, <1>2, <1>3, <2>1, <2>2
  <2>3. CASE k # m + 1
    <3>1. k \in 1 .. m
      BY <1>1, <2>3
    <3>2. Line(i, m, f)[k] = f[Plus(i, k - 1)]
      BY <3>1, LineAt
    <3>3. Append(Line(i, m, f), f[Plus(i, m)])[k] = Line(i, m, f)[k]
      BY <1>2, <1>3, <3>1
    <3>4. QED
      BY <2>1, <3>2, <3>3
  <2>4. QED
    BY <2>2, <2>3
<1>6. QED
  BY <1>2, <1>4, <1>5, SeqEqual

LEMMA LineTail ==
  ASSUME NEW i \in Slots, NEW m \in 1 .. (RingSize - 1), NEW f \in [Slots -> MaybeTasks]
  PROVE  /\ Line(i, m, f) # <<>> /\ Head(Line(i, m, f)) = f[i]
         /\ Tail(Line(i, m, f)) = Line(Plus(i, 1), m - 1, f)
<1>1. /\ m \in 0 .. (RingSize - 1) /\ m - 1 \in 0 .. (RingSize - 1) /\ m \in Nat
      /\ Plus(i, 1) \in Slots /\ Plus(i, 0) = i
  BY RingAssumption DEF Slots, Plus
<1>2. /\ Line(i, m, f) \in Seq(MaybeTasks) /\ Len(Line(i, m, f)) = m
      /\ Line(Plus(i, 1), m - 1, f) \in Seq(MaybeTasks) /\ Len(Line(Plus(i, 1), m - 1, f)) = m - 1
  BY <1>1, LineType
<1>3. Line(i, m, f) # <<>>
  BY <1>1, <1>2
<1>4. Head(Line(i, m, f)) = f[i]
  <2>1. 1 \in 1 .. m
    BY <1>1
  <2>2. Line(i, m, f)[1] = f[Plus(i, 1 - 1)]
    BY <2>1, LineAt
  <2>3. Head(Line(i, m, f)) = Line(i, m, f)[1]
    BY <1>2, <1>3
  <2>4. QED
    BY <1>1, <2>2, <2>3
<1>5. /\ Tail(Line(i, m, f)) \in Seq(MaybeTasks) /\ Len(Tail(Line(i, m, f))) = m - 1
      /\ \A k \in 1 .. (m - 1) : Tail(Line(i, m, f))[k] = Line(i, m, f)[k + 1]
  BY <1>2, <1>3, HeadTailProperties
<1>6. ASSUME NEW k \in 1 .. (m - 1)
      PROVE  Tail(Line(i, m, f))[k] = Line(Plus(i, 1), m - 1, f)[k]
  <2>1. k + 1 \in 1 .. m /\ (k + 1) - 1 = k
    BY <1>1
  <2>2. Line(i, m, f)[k + 1] = f[Plus(i, k)]
    <3>1. Line(i, m, f)[k + 1] = f[Plus(i, (k + 1) - 1)]
      BY <2>1, LineAt
    <3>2. QED
      BY <2>1, <3>1
  <2>3. Line(Plus(i, 1), m - 1, f)[k] = f[Plus(Plus(i, 1), k - 1)]
    BY LineAt
  <2>4. Plus(Plus(i, 1), k - 1) = Plus(i, k)
    BY RingAssumption DEF Slots, Plus
  <2>5. QED
    BY <1>5, <2>2, <2>3, <2>4
<1>7. QED
  BY <1>2, <1>3, <1>4, <1>5, <1>6, SeqEqual

LEMMA LineConcat ==
  ASSUME NEW h \in Slots, NEW c \in Slots, NEW s \in Slots,
         Dist(h, c) <= Dist(h, s), NEW f \in [Slots -> MaybeTasks]
  PROVE  /\ Dist(h, s) = Dist(h, c) + Dist(c, s)
         /\ Line(h, Dist(h, s), f) = Line(h, Dist(h, c), f) \o Line(c, Dist(c, s), f)
<1>1. PICK m, n : m = Dist(h, c) /\ n = Dist(c, s)
  OBVIOUS
<1>2. /\ m \in 0 .. (RingSize - 1) /\ n \in 0 .. (RingSize - 1) /\ m + n \in 0 .. (RingSize - 1)
      /\ Dist(h, s) = m + n
      /\ \A k \in 1 .. (m + n) : k > m => Plus(c, (k - m) - 1) = Plus(h, k - 1)
  BY <1>1, RingAssumption DEF Slots, Dist, Plus
<1>3. m \in Nat /\ n \in Nat
  BY <1>2, RingAssumption
<1>4. /\ Line(h, m, f) \in Seq(MaybeTasks) /\ Len(Line(h, m, f)) = m
      /\ Line(c, n, f) \in Seq(MaybeTasks) /\ Len(Line(c, n, f)) = n
      /\ Line(h, m + n, f) \in Seq(MaybeTasks) /\ Len(Line(h, m + n, f)) = m + n
  BY <1>2, LineType
<1>5. /\ Line(h, m, f) \o Line(c, n, f) \in Seq(MaybeTasks)
      /\ Len(Line(h, m, f) \o Line(c, n, f)) = m + n
      /\ \A k \in 1 .. (m + n) : (Line(h, m, f) \o Line(c, n, f))[k]
           = IF k <= m THEN Line(h, m, f)[k] ELSE Line(c, n, f)[k - m]
  <2>1. PICK p \in Seq(MaybeTasks), q \in Seq(MaybeTasks) :
          p = Line(h, m, f) /\ q = Line(c, n, f) /\ Len(p) = m /\ Len(q) = n
    BY <1>4
  <2>2. /\ p \o q \in Seq(MaybeTasks) /\ Len(p \o q) = Len(p) + Len(q)
        /\ \A k \in 1 .. Len(p) + Len(q) :
             (p \o q)[k] = IF k <= Len(p) THEN p[k] ELSE q[k - Len(p)]
    BY ConcatProperties
  <2>3. QED
    BY <2>1, <2>2
<1>6. ASSUME NEW k \in 1 .. (m + n)
      PROVE  Line(h, m + n, f)[k] = (Line(h, m, f) \o Line(c, n, f))[k]
  <2>1. Line(h, m + n, f)[k] = f[Plus(h, k - 1)]
    BY LineAt
  <2>2. CASE k <= m
    <3>1. k \in 1 .. m
      BY <1>3, <2>2
    <3>2. Line(h, m, f)[k] = f[Plus(h, k - 1)]
      BY <3>1, LineAt
    <3>3. QED
      BY <1>5, <2>1, <2>2, <3>2
  <2>3. CASE ~(k <= m)
    <3>1. k - m \in 1 .. n /\ k > m
      BY <1>3, <2>3
    <3>2. Line(c, n, f)[k - m] = f[Plus(c, (k - m) - 1)]
      BY <3>1, LineAt
    <3>3. QED
      BY <1>2, <1>5, <2>1, <2>3, <3>1, <3>2
  <2>4. QED
    BY <2>2, <2>3
<1>7. QED
  BY <1>1, <1>2, <1>4, <1>5, <1>6, SeqEqual
-----------------------------------------------------------------------------
(***************************************************************************)
(* The queues of the service are such stretches.                           *)
(***************************************************************************)
Leads(X, E) == [j \in Slots |-> X[E[j].cmd_id]]
LeadsFrom(X, E, i, m) == [k \in 1 .. m |-> X[E[Plus(i, k - 1)].cmd_id]]

Queued == Leads(xa, sq)
Completed == Leads(xa, cq)

LEMMA ThroughTheXarray ==
  ASSUME NEW X \in [CmdIds -> MaybeTasks], NEW E, \A j \in Slots : E[j].cmd_id \in CmdIds,
         NEW i \in Slots, NEW m \in 0 .. (RingSize - 1)
  PROVE  Leads(X, E) \in [Slots -> MaybeTasks] /\ LeadsFrom(X, E, i, m) = Line(i, m, Leads(X, E))
<1>1. ASSUME NEW k \in 1 .. m PROVE Plus(i, k - 1) \in Slots
  BY RingAssumption DEF Slots, Plus
<1>2. QED
  BY <1>1 DEF Line, Leads, LeadsFrom

LEMMA QueuesAreLines ==
  ASSUME RingTypeOK
  PROVE  /\ Queued \in [Slots -> MaybeTasks] /\ Completed \in [Slots -> MaybeTasks]
         /\ Queue = Line(dev.sq_head, Dist(dev.sq_head, drv.sq_tail), Queued)
         /\ Served = Line(ConsumerHead, Dist(ConsumerHead, dev.cq_tail), Completed)
<1>1. /\ xa \in [CmdIds -> MaybeTasks]
      /\ \A j \in Slots : sq[j].cmd_id \in CmdIds /\ cq[j].cmd_id \in CmdIds
  BY RingTypes DEF MaybeTasks, SqEntries, CqEntries
<1>2. /\ dev.sq_head \in Slots /\ dev.cq_tail \in Slots /\ drv.sq_tail \in Slots
      /\ ConsumerHead \in Slots
  BY RingTypes, ConsumerInRing DEF Devices, Drivers
<1>3. /\ Dist(dev.sq_head, drv.sq_tail) \in 0 .. (RingSize - 1)
      /\ Dist(ConsumerHead, dev.cq_tail) \in 0 .. (RingSize - 1)
  BY <1>2, RingArithmetic
<1>4. /\ Queue = LeadsFrom(xa, sq, dev.sq_head, Dist(dev.sq_head, drv.sq_tail))
      /\ Served = LeadsFrom(xa, cq, ConsumerHead, Dist(ConsumerHead, dev.cq_tail))
  BY DEF Queue, Served, LeadsFrom
<1>5. QED
  BY <1>1, <1>2, <1>3, <1>4, ThroughTheXarray DEF Queued, Completed

LEMMA QueuesAreLinesNext ==
  ASSUME RingTypeOK'
  PROVE  /\ Queued' \in [Slots -> MaybeTasks] /\ Completed' \in [Slots -> MaybeTasks]
         /\ Queue' = Line(dev'.sq_head, Dist(dev'.sq_head, drv'.sq_tail), Queued')
         /\ Served' = Line(ConsumerHead', Dist(ConsumerHead', dev'.cq_tail), Completed')
<1>1. /\ xa' \in [CmdIds -> MaybeTasks]
      /\ \A j \in Slots : sq'[j].cmd_id \in CmdIds /\ cq'[j].cmd_id \in CmdIds
  BY RingTypes DEF MaybeTasks, SqEntries, CqEntries
<1>2. /\ dev'.sq_head \in Slots /\ dev'.cq_tail \in Slots /\ drv'.sq_tail \in Slots
      /\ ConsumerHead' \in Slots
  BY RingTypes DEF Devices, Drivers, Threads, ConsumerHead
<1>3. /\ Dist(dev'.sq_head, drv'.sq_tail) \in 0 .. (RingSize - 1)
      /\ Dist(ConsumerHead', dev'.cq_tail) \in 0 .. (RingSize - 1)
  BY <1>2, RingArithmetic
<1>4. /\ Queue' = LeadsFrom(xa', sq', dev'.sq_head, Dist(dev'.sq_head, drv'.sq_tail))
      /\ Served' = LeadsFrom(xa', cq', ConsumerHead', Dist(ConsumerHead', dev'.cq_tail))
  BY DEF Queue, Served, LeadsFrom
<1>5. QED
  BY <1>1, <1>2, <1>3, <1>4, ThroughTheXarray DEF Queued, Completed

\* What a stretch of each ring holds.
LEMMA QueuesHoldCalls ==
  ASSUME PlacesInv, NEW j \in Slots
  PROVE  /\ Dist(dev.sq_head, j) < Dist(dev.sq_head, drv.sq_tail) =>
              j \in LiveSlots /\ ~IsServed(j) /\ Queued[j] = TaskAt(j)
         /\ Dist(ConsumerHead, j) < Dist(ConsumerHead, dev.cq_tail) =>
              j \in LiveSlots /\ IsServed(j) /\ Completed[j] = TaskAt(j)
<1>0. PICK h, s, c : h = ConsumerHead /\ s = drv.sq_tail /\ c = dev.cq_tail
  OBVIOUS
<1>1. /\ h \in Slots /\ s \in Slots /\ c \in Slots /\ dev.sq_head = c
      /\ Dist(h, c) <= Dist(h, s)
  BY <1>0, PlacesTypes
<1>2. /\ Dist(h, j) < Dist(h, s) <=> Dist(c, j) < Dist(c, s) \/ Dist(h, j) < Dist(h, c)
      /\ Dist(h, j) < Dist(h, c) => ~(Dist(c, j) < Dist(c, s))
  BY <1>1, Segment
<1>3. QED
  BY <1>0, <1>1, <1>2 DEF LiveSlots, IsServed, Queued, Completed, Leads, TaskAt, IdAt

LEMMA UnderWayCount ==
  ASSUME PlacesInv
  PROVE  /\ Len(Queue) + Len(Served) = Dist(ConsumerHead, drv.sq_tail)
         /\ Queue \in Seq(MaybeTasks) /\ Served \in Seq(MaybeTasks)
<1>0. PICK h, s, c : h = ConsumerHead /\ s = drv.sq_tail /\ c = dev.cq_tail
  OBVIOUS
<1>1. /\ h \in Slots /\ s \in Slots /\ c \in Slots /\ dev.sq_head = c
      /\ Dist(h, c) <= Dist(h, s) /\ \A x, y \in Slots : Dist(x, y) \in 0 .. (RingSize - 1)
  BY <1>0, PlacesTypes
<1>2. RingTypeOK
  BY PlacesTypes
<1>3. Queued \in [Slots -> MaybeTasks] /\ Completed \in [Slots -> MaybeTasks]
      /\ Queue = Line(c, Dist(c, s), Queued) /\ Served = Line(h, Dist(h, c), Completed)
  BY <1>0, <1>1, <1>2, QueuesAreLines
<1>4. /\ Queue \in Seq(MaybeTasks) /\ Len(Queue) = Dist(c, s)
      /\ Served \in Seq(MaybeTasks) /\ Len(Served) = Dist(h, c)
  <2>1. Dist(c, s) \in 0 .. (RingSize - 1) /\ Dist(h, c) \in 0 .. (RingSize - 1)
    BY <1>1
  <2>2. PICK m \in 0 .. (RingSize - 1), n \in 0 .. (RingSize - 1),
             f \in [Slots -> MaybeTasks], g \in [Slots -> MaybeTasks] :
          m = Dist(c, s) /\ n = Dist(h, c) /\ f = Queued /\ g = Completed
    BY <1>3, <2>1
  <2>3. Line(c, m, f) \in Seq(MaybeTasks) /\ Len(Line(c, m, f)) = m
    BY <1>1, LineType
  <2>4. Line(h, n, g) \in Seq(MaybeTasks) /\ Len(Line(h, n, g)) = n
    BY <1>1, LineType
  <2>5. QED
    BY <1>3, <2>2, <2>3, <2>4
<1>5. Dist(h, s) = Dist(h, c) + Dist(c, s)
  BY <1>1, RingAssumption DEF Slots, Dist
<1>6. Dist(h, c) \in Int /\ Dist(c, s) \in Int
  BY <1>1
<1>7. QED
  BY <1>0, <1>4, <1>5, <1>6

\* Steps that leave the rings alone, and the calls in them.
LEMMA QueuesKept ==
  ASSUME PlacesInv, PlacesInv', UNCHANGED <<sq, cq>>, dev'.cq_tail = dev.cq_tail,
         drv'.sq_tail = drv.sq_tail, ConsumerHead' = ConsumerHead,
         \A u \in Unanswered : task'[u].id = task[u].id /\ task'[u].pc # "idle"
  PROVE  Queue' = Queue /\ Served' = Served
<1>1. /\ RingTypeOK /\ RingTypeOK' /\ dev'.sq_head = dev.sq_head /\ ConsumerHead \in Slots
      /\ dev.sq_head \in Slots /\ dev.cq_tail \in Slots /\ drv.sq_tail \in Slots
      /\ \A x, y \in Slots : Dist(x, y) \in 0 .. (RingSize - 1)
  <2>1. dev'.sq_head = dev'.cq_tail
    BY DEF PlacesInv, RingInv, Running, AtRest
  <2>2. RingTypeOK'
    BY DEF PlacesInv, RingInv
  <2>3. QED
    BY <2>1, <2>2, PlacesTypes
<1>2. ASSUME NEW j \in LiveSlots PROVE xa'[IdAt(j)] = xa[IdAt(j)]
  <2>1. xa[IdAt(j)] \in Unanswered /\ task[xa[IdAt(j)]].id = IdAt(j)
    BY DEF PlacesInv, Placed, TaskAt
  <2>2. PICK u \in Unanswered : u = xa[IdAt(j)] /\ task[u].id = IdAt(j)
    BY <2>1
  <2>3. u \in Tasks /\ task'[u].id = IdAt(j) /\ task'[u].pc # "idle"
    BY <2>2 DEF Unanswered
  <2>4. xa'[task'[u].id] = u
    BY <2>3 DEF PlacesInv, Known
  <2>5. QED
    BY <2>2, <2>3, <2>4
<1>3. ASSUME NEW j \in Slots, Dist(dev.sq_head, j) < Dist(dev.sq_head, drv.sq_tail)
      PROVE  Queued'[j] = Queued[j]
  BY <1>2, <1>3, QueuesHoldCalls DEF Queued, Leads, IdAt
<1>4. ASSUME NEW j \in Slots, Dist(ConsumerHead, j) < Dist(ConsumerHead, dev.cq_tail)
      PROVE  Completed'[j] = Completed[j]
  BY <1>2, <1>4, QueuesHoldCalls DEF Completed, Leads, IdAt
<1>5. Queue = Line(dev.sq_head, Dist(dev.sq_head, drv.sq_tail), Queued)
      /\ Queue' = Line(dev.sq_head, Dist(dev.sq_head, drv.sq_tail), Queued')
  BY <1>1, QueuesAreLines, QueuesAreLinesNext
<1>6. Served = Line(ConsumerHead, Dist(ConsumerHead, dev.cq_tail), Completed)
      /\ Served' = Line(ConsumerHead, Dist(ConsumerHead, dev.cq_tail), Completed')
  BY <1>1, QueuesAreLines, QueuesAreLinesNext
<1>7. Queue' = Queue
  <2>1. PICK f, g : f = Queued /\ g = Queued'
    OBVIOUS
  <2>2. PICK i \in Slots, m \in 0 .. (RingSize - 1) :
          i = dev.sq_head /\ m = Dist(dev.sq_head, drv.sq_tail)
    BY <1>1
  <2>3. \A j \in Slots : Dist(i, j) < m => f[j] = g[j]
    BY <1>3, <2>1, <2>2
  <2>4. Line(i, m, f) = Line(i, m, g)
    BY <2>3, LineSame
  <2>5. QED
    BY <1>5, <2>1, <2>2, <2>4
<1>8. Served' = Served
  <2>1. PICK f, g : f = Completed /\ g = Completed'
    OBVIOUS
  <2>2. PICK i \in Slots, m \in 0 .. (RingSize - 1) :
          i = ConsumerHead /\ m = Dist(ConsumerHead, dev.cq_tail)
    BY <1>1
  <2>3. \A j \in Slots : Dist(i, j) < m => f[j] = g[j]
    BY <1>4, <2>1, <2>2
  <2>4. Line(i, m, f) = Line(i, m, g)
    BY <2>3, LineSame
  <2>5. QED
    BY <1>6, <2>1, <2>2, <2>4
<1>9. QED
  BY <1>7, <1>8
-----------------------------------------------------------------------------
(***************************************************************************)
(* Each step is one of the service's, or none.                             *)
(***************************************************************************)
Phases == [t \in Tasks |-> Phase(t)]
Asked == [t \in Tasks |-> task[t].req]
Results == [t \in Tasks |-> task[t].ret]

LEMMA PhaseKept ==
  ASSUME NEW u \in Tasks, task'[u].pc = task[u].pc, pend'[u].done = pend[u].done
  PROVE  Phase(u)' = Phase(u)
<1>1. (u \in Unanswered)' <=> u \in Unanswered
  BY DEF Unanswered
<1>2. QED
  BY <1>1 DEF Phase

LEMMA OneCallMoves ==
  ASSUME NEW t \in Tasks,
         \A u \in Tasks \ {t} : task'[u] = task[u] /\ pend'[u] = pend[u]
  PROVE  /\ Phases' = [Phases EXCEPT ![t] = Phase(t)']
         /\ Asked' = [Asked EXCEPT ![t] = task'[t].req]
         /\ Results' = [Results EXCEPT ![t] = task'[t].ret]
<1>1. \A u \in Tasks \ {t} : Phase(u)' = Phase(u)
  BY PhaseKept
<1>2. QED
  BY <1>1 DEF Phases, Asked, Results

LEMMA PhaseOf ==
  ASSUME NEW t \in Tasks
  PROVE  /\ task[t].pc = "idle" => Phase(t) = "idle"
         /\ task[t].pc = "submit" => Phase(t) = "called"
         /\ t \in Unanswered => Phase(t) = "accepted"
         /\ task[t].pc \in {"doorbell", "wait"} /\ pend[t].done => Phase(t) = "answered"
         /\ task'[t].pc = "idle" => Phase(t)' = "idle"
         /\ task'[t].pc = "submit" => Phase(t)' = "called"
         /\ t \in Unanswered' => Phase(t)' = "accepted"
         /\ task'[t].pc \in {"doorbell", "wait"} /\ pend'[t].done => Phase(t)' = "answered"
  BY DEF Phase, Unanswered

LEMMA BeginCalls ==
  ASSUME PlacesInv, PlacesInv', NEW t \in Tasks, Begin(t)
  PROVE  \E r \in Requests : Service!Call(t, r)
<1>1. task \in [Tasks -> Calls] /\ pend \in [Tasks -> Records] /\ drv \in Drivers
  BY PlacesTypes, RingTypes
<1>2. PICK r \in Requests :
        task' = [task EXCEPT ![t] = [pc |-> "submit", req |-> r, id |-> drv.cmdid + 1,
                                     ret |-> NoOutcome]]
  BY DEF Begin
<1>3. /\ task[t].pc = "idle" /\ task'[t].pc = "submit" /\ task'[t].req = r
      /\ task'[t].ret = NoOutcome
  BY <1>1, <1>2 DEF Begin
<1>4. \A u \in Tasks \ {t} : task'[u] = task[u] /\ pend'[u] = pend[u]
  BY <1>1, <1>2 DEF Begin
<1>5. Phase(t) = "idle" /\ Phase(t)' = "called"
  BY <1>3, PhaseOf
<1>6. /\ Phases' = [Phases EXCEPT ![t] = "called"] /\ Asked' = [Asked EXCEPT ![t] = r]
      /\ Results' = [Results EXCEPT ![t] = NoOutcome]
  BY <1>3, <1>4, <1>5, OneCallMoves
<1>7. \A u \in Unanswered : task'[u].id = task[u].id /\ task'[u].pc # "idle"
  BY <1>3, <1>4 DEF Unanswered
<1>8. /\ UNCHANGED <<sq, cq, dev>> /\ drv'.sq_tail = drv.sq_tail /\ ConsumerHead' = ConsumerHead
  BY <1>1 DEF Begin, Drivers, ConsumerHead
<1>9. Queue' = Queue /\ Served' = Served
  BY <1>7, <1>8, QueuesKept
<1>10. Phases[t] = "idle"
  BY <1>5 DEF Phases
<1>11. QED
  BY <1>6, <1>9, <1>10 DEF Service!Call, Phases, Asked, Results

LEMMA SubmitAccepts ==
  ASSUME PlacesInv, PlacesInv', NEW t \in Tasks, Submit(t) PROVE Service!Accept(t)
<1>0. PICK h, s, c : h = ConsumerHead /\ s = drv.sq_tail /\ c = dev.cq_tail
  OBVIOUS
<1>1. /\ task \in [Tasks -> Calls] /\ pend \in [Tasks -> Records] /\ drv \in Drivers
      /\ RingTypeOK /\ sq \in [Slots -> SqEntries]
  BY PlacesTypes, RingTypes
<1>2. /\ task[t].pc = "submit" /\ ~drv.locked /\ Plus(s, 1) # drv.sq_head
      /\ sq' = [sq EXCEPT ![s] = [cmd_id |-> task[t].id, cmd |-> task[t].req]]
      /\ drv' = [drv EXCEPT !.sq_tail = Plus(@, 1)] /\ task' = [task EXCEPT ![t].pc = "doorbell"]
      /\ UNCHANGED <<dev, cq, xa, pend, irq, kth>>
  BY <1>0 DEF Submit, SubmissionFull, Goto
<1>3. /\ h \in Slots /\ s \in Slots /\ c \in Slots /\ dev.sq_head = c
      /\ Dist(h, c) <= Dist(h, s)
      /\ \A x, y \in Slots : Dist(x, y) \in 0 .. (RingSize - 1)
  BY <1>0, PlacesTypes
<1>4. drv'.sq_tail = Plus(s, 1) /\ ConsumerHead' = h
  BY <1>0, <1>1, <1>2 DEF Drivers, ConsumerHead
<1>5. Plus(s, 1) # h
  BY <1>0, <1>2, ConsumerIsHead DEF PlacesInv, RingInv, Running, HeadsMeet
<1>6. /\ Dist(h, s) < RingSize - 1 /\ Dist(c, s) \in 0 .. (RingSize - 2)
      /\ Dist(c, Plus(s, 1)) = Dist(c, s) + 1 /\ Plus(c, Dist(c, s)) = s
  BY <1>3, <1>5, RingAssumption DEF Slots, Dist, Plus
<1>7. /\ \A u \in Tasks \ {t} : task'[u] = task[u] /\ pend'[u] = pend[u]
      /\ task'[t].pc = "doorbell" /\ task'[t].req = task[t].req /\ task'[t].ret = task[t].ret
  BY <1>1, <1>2 DEF Calls
<1>8. ~pend[t].done /\ xa[task[t].id] = t
  BY <1>2 DEF PlacesInv, Known
<1>9. Phase(t) = "called" /\ Phase(t)' = "accepted"
  <2>1. t \in Unanswered'
    BY <1>2, <1>7, <1>8 DEF Unanswered
  <2>2. QED
    BY <1>2, <2>1, PhaseOf
<1>10. Phases' = [Phases EXCEPT ![t] = "accepted"] /\ Asked' = Asked /\ Results' = Results
  BY <1>7, <1>9, OneCallMoves DEF Asked, Results
<1>11. Queue' = Append(Queue, t)
  <2>1. RingTypeOK'
    BY DEF PlacesInv, RingInv
  <2>2. /\ Queue = Line(c, Dist(c, s), Queued) /\ Queued' \in [Slots -> MaybeTasks]
        /\ Queue' = Line(c, Dist(c, s) + 1, Queued')
    BY <1>0, <1>1, <1>2, <1>3, <1>4, <1>6, <2>1, QueuesAreLines, QueuesAreLinesNext
  <2>3. Queued'[s] = t
    BY <1>1, <1>2, <1>3, <1>8 DEF Queued, Leads
  <2>4. PICK g : g = Queued
    OBVIOUS
  <2>5. PICK m \in 0 .. (RingSize - 2), f \in [Slots -> MaybeTasks] :
          m = Dist(c, s) /\ f = Queued'
    BY <1>6, <2>2
  <2>6. Line(c, m + 1, f) = Append(Line(c, m, f), f[Plus(c, m)])
    BY <1>3, LineAppend
  <2>7. Line(c, m, f) = Line(c, m, g)
    <3>1. \A j \in Slots : Dist(c, j) < m => f[j] = g[j]
      <4> SUFFICES ASSUME NEW j \in Slots, Dist(c, j) < m PROVE Queued'[j] = Queued[j]
        BY <2>4, <2>5
      <4>1. j # s
        BY <1>3, <2>5
      <4>2. sq'[j] = sq[j]
        BY <1>1, <1>2, <4>1
      <4>3. QED
        BY <1>2, <4>2 DEF Queued, Leads
    <3>2. m \in 0 .. (RingSize - 1) /\ c \in Slots
      BY <1>3, RingAssumption
    <3>3. QED
      BY <3>1, <3>2, LineSame
  <2>8. QED
    BY <1>6, <2>2, <2>3, <2>4, <2>5, <2>6, <2>7
<1>12. Served' = Served
  BY <1>0, <1>2, <1>4 DEF Served
<1>13. Len(Queue) + Len(Served) < RingSize - 1
  BY <1>0, <1>6, UnderWayCount
<1>14. Phases[t] = "called"
  BY <1>9 DEF Phases
<1>15. QED
  BY <1>10, <1>11, <1>12, <1>13, <1>14
     DEF Service!Accept, Service!UnderWay, Phases, Asked, Results

LEMMA BusyRefuses ==
  ASSUME PlacesInv, PlacesInv', NEW t \in Tasks, SubmitBusy(t) PROVE Service!Refuse(t)
<1>0. PICK h, s : h = ConsumerHead /\ s = drv.sq_tail
  OBVIOUS
<1>1. /\ task \in [Tasks -> Calls] /\ pend \in [Tasks -> Records]
      /\ h \in Slots /\ s \in Slots
  BY <1>0, PlacesTypes, RingTypes
<1>2. /\ task[t].pc = "submit" /\ ~drv.locked /\ Plus(s, 1) = drv.sq_head
      /\ pend' = [pend EXCEPT ![t] = Freed]
      /\ task' = [task EXCEPT ![t].pc = "idle", ![t].ret = EBUSY]
      /\ UNCHANGED <<dev, sq, cq, drv, xa, irq, kth>>
  BY <1>0 DEF SubmitBusy, SubmissionFull
<1>3. Plus(s, 1) = h
  BY <1>0, <1>2, ConsumerIsHead DEF PlacesInv, RingInv, Running, HeadsMeet
<1>4. Dist(h, s) = RingSize - 1
  BY <1>1, <1>3, RingAssumption DEF Slots, Dist, Plus
<1>5. Len(Queue) + Len(Served) = RingSize - 1
  BY <1>0, <1>4, UnderWayCount
<1>6. /\ \A u \in Tasks \ {t} : task'[u] = task[u] /\ pend'[u] = pend[u]
      /\ task'[t].pc = "idle" /\ task'[t].req = task[t].req /\ task'[t].ret = EBUSY
  BY <1>1, <1>2 DEF Calls
<1>7. Phase(t) = "called" /\ Phase(t)' = "idle"
  BY <1>2, <1>6, PhaseOf
<1>8. /\ Phases' = [Phases EXCEPT ![t] = "idle"] /\ Asked' = Asked
      /\ Results' = [Results EXCEPT ![t] = EBUSY]
  BY <1>6, <1>7, OneCallMoves DEF Asked
<1>9. \A u \in Unanswered : task'[u].id = task[u].id /\ task'[u].pc # "idle"
  BY <1>2, <1>6 DEF Unanswered
<1>10. ConsumerHead' = ConsumerHead
  BY <1>2 DEF ConsumerHead
<1>11. Queue' = Queue /\ Served' = Served
  BY <1>2, <1>9, <1>10, QueuesKept
<1>12. Phases[t] = "called"
  BY <1>7 DEF Phases
<1>13. QED
  BY <1>5, <1>8, <1>11, <1>12
     DEF Service!Refuse, Service!UnderWay, Phases, Asked, Results

LEMMA DoneReturns ==
  ASSUME PlacesInv, PlacesInv', OwnAnswers, NEW t \in Tasks, ReturnDone(t)
  PROVE  Service!Return(t)
<1>1. task \in [Tasks -> Calls] /\ pend \in [Tasks -> Records]
  BY PlacesTypes, RingTypes
<1>2. /\ task[t].pc = "wait" /\ pend[t].done /\ pend' = [pend EXCEPT ![t] = Freed]
      /\ task' = [task EXCEPT ![t].pc = "idle", ![t].ret = pend[t].out]
      /\ UNCHANGED <<dev, sq, cq, drv, irq, kth>>
  BY DEF ReturnDone
<1>3. pend[t].out = Execute(task[t].req)
  BY <1>2 DEF OwnAnswers
<1>4. /\ \A u \in Tasks \ {t} : task'[u] = task[u] /\ pend'[u] = pend[u]
      /\ task'[t].pc = "idle" /\ task'[t].req = task[t].req
      /\ task'[t].ret = Execute(task[t].req)
  BY <1>1, <1>2, <1>3 DEF Calls
<1>5. Phase(t) = "answered" /\ Phase(t)' = "idle"
  BY <1>2, <1>4, PhaseOf
<1>6. /\ Phases' = [Phases EXCEPT ![t] = "idle"] /\ Asked' = Asked
      /\ Results' = [Results EXCEPT ![t] = Execute(task[t].req)]
  BY <1>4, <1>5, OneCallMoves DEF Asked
<1>7. \A u \in Unanswered : task'[u].id = task[u].id /\ task'[u].pc # "idle"
  BY <1>2, <1>4 DEF Unanswered
<1>8. ConsumerHead' = ConsumerHead
  BY <1>2 DEF ConsumerHead
<1>9. Queue' = Queue /\ Served' = Served
  BY <1>2, <1>7, <1>8, QueuesKept
<1>10. Phases[t] = "answered" /\ Asked[t] = task[t].req
  BY <1>5 DEF Phases, Asked
<1>11. QED
  BY <1>6, <1>9, <1>10 DEF Service!Return, Phases, Asked, Results

LEMMA NoPlace == ASSUME NEW i, NEW f PROVE Line(i, 0, f) = <<>>
  BY DEF Line

LEMMA DoorbellServes ==
  ASSUME ~MayFault, PlacesInv, PlacesInv', NEW t \in Tasks, StartDmaJob(t)
  PROVE  Service!ServeAll \/ UNCHANGED Service!vars
<1>0. PICK h, s, c : h = ConsumerHead /\ s = drv.sq_tail /\ c = dev.cq_tail
  OBVIOUS
<1>1. /\ task \in [Tasks -> Calls] /\ pend \in [Tasks -> Records] /\ RingTypeOK
      /\ h \in Slots /\ s \in Slots /\ c \in Slots /\ dev.sq_head = c
      /\ Dist(h, c) <= Dist(h, s)
      /\ \A x, y \in Slots : Dist(x, y) \in 0 .. (RingSize - 1)
  BY <1>0, PlacesTypes, RingTypes
<1>2. /\ task[t].pc = "doorbell" /\ task' = [task EXCEPT ![t].pc = "wait"]
      /\ UNCHANGED <<sq, drv, xa, pend, irq, kth>>
  BY DEF StartDmaJob, Goto
<1>3. RingTypeOK' /\ dev'.sq_head = dev'.cq_tail
  BY DEF PlacesInv, RingInv, Running, AtRest
<1>4. /\ dev'.cq_tail = s /\ dev'.sq_head = s
      /\ \A j \in Slots :
           cq'[j] = IF Dist(c, j) < Dist(c, s)
                      THEN [cmd_id |-> sq[j].cmd_id, out |-> Execute(sq[j].cmd), valid |-> TRUE]
                      ELSE cq[j]
  <2>1. RingInv'
    BY DEF PlacesInv
  <2>2. QED
    BY <1>0, <1>3, <2>1, DoorbellCompletes
<1>5. ConsumerHead' = h /\ drv'.sq_tail = s
  BY <1>0, <1>2 DEF ConsumerHead
<1>6. Phases' = Phases /\ Asked' = Asked /\ Results' = Results
  <2>1. \A u \in Tasks : /\ task'[u].req = task[u].req /\ task'[u].ret = task[u].ret
                         /\ u # t => task'[u].pc = task[u].pc
    BY <1>1, <1>2 DEF Calls
  <2>2. task'[t].pc = "wait"
    BY <1>1, <1>2 DEF Calls
  <2>3. \A u \in Tasks : Phase(u)' = Phase(u)
    BY <1>2, <2>1, <2>2 DEF Phase, Unanswered
  <2>4. QED
    BY <2>1, <2>3 DEF Phases, Asked, Results
<1>7. PICK f, p, g : f = Queued /\ p = Completed /\ g = Completed'
  OBVIOUS
<1>8. /\ Queue = Line(c, Dist(c, s), f) /\ Served = Line(h, Dist(h, c), p)
      /\ Served' = Line(h, Dist(h, s), g) /\ Queue' = Line(s, Dist(s, s), Queued')
      /\ g \in [Slots -> MaybeTasks]
  BY <1>0, <1>1, <1>3, <1>4, <1>5, <1>7, QueuesAreLines, QueuesAreLinesNext
<1>9. Queue' = <<>>
  BY <1>1, <1>8, NextSlot, NoPlace
<1>10. Line(h, Dist(h, s), g) = Line(h, Dist(h, c), g) \o Line(c, Dist(c, s), g)
  <2>1. h \in Slots /\ c \in Slots /\ s \in Slots /\ Dist(h, c) <= Dist(h, s)
    BY <1>1
  <2>2. g \in [Slots -> MaybeTasks]
    BY <1>8
  <2>3. QED
    BY <2>1, <2>2, LineConcat
<1>11. Line(h, Dist(h, c), g) = Served
  <2>1. ASSUME NEW j \in Slots, Dist(h, j) < Dist(h, c) PROVE g[j] = p[j]
    <3>1. ~(Dist(c, j) < Dist(c, s))
      BY <1>1, <2>1, Segment
    <3>2. QED
      BY <1>2, <1>4, <1>7, <3>1 DEF Completed, Leads
  <2>2. PICK m \in 0 .. (RingSize - 1) : m = Dist(h, c)
    BY <1>1
  <2>3. \A j \in Slots : Dist(h, j) < m => g[j] = p[j]
    BY <2>1, <2>2
  <2>4. h \in Slots
    BY <1>1
  <2>5. Line(h, m, g) = Line(h, m, p)
    BY <2>3, <2>4, LineSame
  <2>6. QED
    BY <1>8, <2>2, <2>5
<1>12. Line(c, Dist(c, s), g) = Queue
  <2>1. ASSUME NEW j \in Slots, Dist(c, j) < Dist(c, s) PROVE g[j] = f[j]
    <3>1. cq'[j]
            = [cmd_id |-> sq[j].cmd_id, out |-> Execute(sq[j].cmd), valid |-> TRUE]
      BY <1>4, <2>1
    <3>2. cq'[j].cmd_id = sq[j].cmd_id
      BY <3>1
    <3>3. QED
      BY <1>2, <1>7, <3>2 DEF Completed, Queued, Leads
  <2>2. PICK m \in 0 .. (RingSize - 1) : m = Dist(c, s)
    BY <1>1
  <2>3. \A j \in Slots : Dist(c, j) < m => g[j] = f[j]
    BY <2>1, <2>2
  <2>4. c \in Slots
    BY <1>1
  <2>5. Line(c, m, g) = Line(c, m, f)
    BY <2>3, <2>4, LineSame
  <2>6. QED
    BY <1>8, <2>2, <2>5
<1>13. Served' = Served \o Queue
  BY <1>8, <1>10, <1>11, <1>12
<1>14. CASE Queue = <<>>
  <2>1. Served \in Seq(MaybeTasks)
    BY UnderWayCount
  <2>2. Served \o <<>> = Served
    BY <2>1, ConcatEmptySeq
  <2>3. Served' = Served
    BY <1>13, <1>14, <2>2
  <2>4. QED
    BY <1>6, <1>9, <1>14, <2>3 DEF Service!vars, Phases, Asked, Results
<1>15. CASE Queue # <<>>
  BY <1>6, <1>9, <1>13, <1>15 DEF Service!ServeAll, Phases, Asked, Results
<1>16. QED
  BY <1>14, <1>15

LEMMA ScanAnswersOldest ==
  ASSUME PlacesInv, PlacesInv', KScan PROVE Service!AnswerOldest
<1>0. PICK h, c, n, t :
        h = kth.head /\ c = dev.cq_tail /\ n = Plus(h, 1) /\ t = TaskAt(h)
  OBVIOUS
<1>1. /\ kth.pc = "scan" /\ h # kth.tail
      /\ cq' = [cq EXCEPT ![h].valid = FALSE] /\ kth' = [kth EXCEPT !.head = n]
      /\ UNCHANGED <<dev, sq, drv, xa, task, irq>>
  BY <1>0 DEF KScan, MoreToScan
<1>2. h = ConsumerHead
  BY <1>0, <1>1 DEF ConsumerHead
<1>3. /\ h \in Slots /\ c \in Slots /\ n \in Slots
      /\ Dist(h, c) \in 0 .. (RingSize - 1) /\ Dist(n, c) \in 0 .. (RingSize - 1)
  <2>1. h \in Slots /\ c \in Slots /\ \A x, y \in Slots : Dist(x, y) \in 0 .. (RingSize - 1)
    BY <1>0, <1>2, PlacesTypes
  <2>2. QED
    BY <1>0, <2>1, NextSlot
<1>4. /\ kth \in Threads /\ cq \in [Slots -> CqEntries] /\ pend \in [Tasks -> Records]
      /\ RingTypeOK /\ RingTypeOK'
  <2>1. RingTypeOK'
    BY DEF PlacesInv, RingInv
  <2>2. QED
    BY <2>1, PlacesTypes, RingTypes
<1>5. ConsumerHead' = n /\ dev'.cq_tail = c
  BY <1>0, <1>1, <1>4 DEF ConsumerHead, Threads
<1>6. h # c /\ Dist(h, h) = 0 /\ Dist(h, c) # 0 /\ Dist(n, c) = Dist(h, c) - 1
  <2>1. kth.tail = c
    BY <1>0, <1>1 DEF PlacesInv, RingInv, Running, HeadsMeet
  <2>2. QED
    BY <1>0, <1>1, <1>3, <2>1, NextSlot
<1>7. PICK m \in 1 .. (RingSize - 1), f \in [Slots -> MaybeTasks] :
        /\ m = Dist(h, c) /\ f = Completed /\ Served = Line(h, m, f)
  <2>1. Completed \in [Slots -> MaybeTasks] /\ Served = Line(h, Dist(h, c), Completed)
    BY <1>0, <1>2, <1>4, QueuesAreLines
  <2>2. Dist(h, c) \in 1 .. (RingSize - 1)
    BY <1>3, <1>6
  <2>3. QED
    BY <2>1, <2>2
<1>8. Served # <<>> /\ Head(Served) = f[h] /\ Tail(Served) = Line(n, m - 1, f)
  <2>1. /\ Line(h, m, f) # <<>> /\ Head(Line(h, m, f)) = f[h]
        /\ Tail(Line(h, m, f)) = Line(Plus(h, 1), m - 1, f)
    BY <1>3, LineTail
  <2>2. Served = Line(h, m, f) /\ n = Plus(h, 1)
    BY <1>0, <1>7
  <2>3. QED
    BY <2>1, <2>2
<1>9. h \in LiveSlots /\ IsServed(h) /\ f[h] = t
  <2>1. Dist(ConsumerHead, h) < Dist(ConsumerHead, dev.cq_tail)
    BY <1>0, <1>2, <1>3, <1>6
  <2>2. QED
    BY <1>0, <1>3, <1>7, <2>1, QueuesHoldCalls
<1>10. t \in Unanswered /\ t \in Tasks /\ CompletedTask(cq[h]) = t /\ t # NoTask
  BY <1>0, <1>9, TasksAssumption
     DEF PlacesInv, Placed, Unanswered, TaskAt, IdAt, CompletedTask
<1>11. pend' = [pend EXCEPT ![t].done = TRUE, ![t].cause = "JOB_DONE", ![t].out = cq[h].out]
  BY <1>0, <1>10 DEF KScan
<1>12. pend'[t].done /\ \A u \in Tasks \ {t} : task'[u] = task[u] /\ pend'[u] = pend[u]
  BY <1>1, <1>4, <1>10, <1>11 DEF Records
<1>13. Phase(t)' = "answered"
  <2>1. task'[t].pc \in {"doorbell", "wait"}
    BY <1>1, <1>10 DEF Unanswered
  <2>2. QED
    BY <1>10, <1>12, <2>1, PhaseOf
<1>14. Phases' = [Phases EXCEPT ![t] = "answered"]
  BY <1>10, <1>12, <1>13, OneCallMoves
<1>15. Asked' = Asked /\ Results' = Results
  BY <1>1 DEF Asked, Results
<1>16. Queue' = Queue
  BY <1>1 DEF Queue
<1>17. Served' = Tail(Served)
  <2>1. Completed' = Completed
    <3>1. \A j \in Slots : cq'[j].cmd_id = cq[j].cmd_id
      BY <1>1, <1>4 DEF CqEntries
    <3>2. QED
      BY <1>1, <3>1 DEF Completed, Leads
  <2>2. Served' = Line(n, Dist(n, c), Completed')
    BY <1>4, <1>5, QueuesAreLinesNext
  <2>3. QED
    BY <1>6, <1>7, <1>8, <2>1, <2>2
<1>18. QED
  BY <1>8, <1>9, <1>14, <1>15, <1>16, <1>17
     DEF Service!AnswerOldest, Phases, Asked, Results
-----------------------------------------------------------------------------
(***************************************************************************)
(* The interrupt and the rest of the thread do nothing the service shows.  *)
(***************************************************************************)
LEMMA NothingShows ==
  ASSUME UNCHANGED <<sq, cq, xa, pend, task>>, ConsumerHead' = ConsumerHead,
         dev'.sq_head = dev.sq_head, dev'.cq_tail = dev.cq_tail, drv'.sq_tail = drv.sq_tail
  PROVE  UNCHANGED Service!vars
<1>1. Queue' = Queue /\ Served' = Served
  BY DEF Queue, Served
<1>2. \A t \in Tasks : Phase(t)' = Phase(t)
  BY DEF Phase, Unanswered
<1>3. QED
  BY <1>1, <1>2 DEF Service!vars

LEMMA InterruptsShowNothing == ASSUME PlacesInv, TopHalf PROVE UNCHANGED Service!vars
<1>1. dev \in Devices /\ drv \in Drivers /\ kth \in Threads
  BY PlacesTypes
<1>2. dev'.sq_head = dev.sq_head /\ dev'.cq_tail = dev.cq_tail
  BY <1>1 DEF TopHalf, IrqEnter, IrqReadCause, IrqReadStatus, ReadIrqCause, Devices
<1>3. drv'.sq_tail = drv.sq_tail /\ drv'.cq_head = drv.cq_head
  BY <1>1 DEF TopHalf, IrqEnter, IrqReadCause, IrqReadStatus, Drivers
<1>4. kth'.head = kth.head /\ (kth'.pc = "scan" <=> kth.pc = "scan")
  BY <1>1 DEF TopHalf, IrqEnter, IrqReadCause, IrqReadStatus, Threads
<1>5. ConsumerHead' = ConsumerHead
  BY <1>3, <1>4 DEF ConsumerHead
<1>6. UNCHANGED <<sq, cq, xa, pend, task>>
  BY DEF TopHalf, IrqEnter, IrqReadCause, IrqReadStatus
<1>7. QED
  BY <1>2, <1>3, <1>5, <1>6, NothingShows

LEMMA ThreadShowsNothing ==
  ASSUME PlacesInv, KSleep \/ KTakeJobDone \/ KSpurious \/ KLock \/ KUnlock
  PROVE  UNCHANGED Service!vars
<1>1. drv \in Drivers /\ kth \in Threads
  BY PlacesTypes
<1>2. UNCHANGED <<dev, sq, cq, xa, pend, task>> /\ drv'.sq_tail = drv.sq_tail
  BY <1>1 DEF KSleep, KTakeJobDone, KSpurious, KLock, KUnlock, Drivers
<1>3. ConsumerHead' = ConsumerHead
  <2>1. CASE KSleep \/ KTakeJobDone \/ KSpurious
    BY <1>1, <2>1 DEF KSleep, KTakeJobDone, KSpurious, KGoto, Drivers, Threads, ConsumerHead
  <2>2. CASE KLock
    BY <1>1, <2>2 DEF KLock, Threads, ConsumerHead
  <2>3. CASE KUnlock
    BY <1>1, <2>3 DEF KUnlock, Drivers, ConsumerHead
  <2>4. QED
    BY <2>1, <2>2, <2>3
<1>4. QED
  BY <1>2, <1>3, NothingShows
-----------------------------------------------------------------------------
LEMMA ServiceInit == RingInit => Service!Init
<1> SUFFICES ASSUME RingInit PROVE Service!Init
  OBVIOUS
<1>1. PlacesInv /\ RingTypeOK
  BY PlacesInit, PlacesTypes
<1>2. /\ \A t \in Tasks : task[t].pc = "idle" /\ task[t].ret = NoOutcome
      /\ drv.sq_tail = 0 /\ ConsumerHead = 0
  BY DEF RingInit, ConsumerHead
<1>3. Dist(0, 0) = 0
  BY RingAssumption DEF Dist
<1>4. dev.sq_head = 0 /\ dev.cq_tail = 0
  BY <1>1, PlacesTypes DEF RingInit, ProbedDevice, WriteFlags, WriteBases, PowerOn, ActionInit
<1>5. Queue = <<>> /\ Served = <<>>
  BY <1>1, <1>2, <1>3, <1>4, QueuesAreLines, NoPlace
<1>6. \A t \in Tasks : Phase(t) = "idle"
  BY <1>2, PhaseOf
<1>7. [t \in Tasks |-> task[t].req] \in [Tasks -> Requests]
  BY <1>1, RingTypes DEF Calls
<1>8. QED
  BY <1>2, <1>5, <1>6, <1>7 DEF Service!Init

LEMMA ServiceStep ==
  ASSUME ~MayFault, PlacesInv, PlacesInv', OwnAnswers, [RingNext]_vars
  PROVE  [Service!Next]_(Service!vars)
<1>1. ASSUME NEW t \in Tasks, TaskNext(t) PROVE Service!Next \/ UNCHANGED Service!vars
  <2>1. CASE Begin(t)
    BY <2>1, BeginCalls DEF Service!Next
  <2>2. CASE Submit(t)
    BY <2>2, SubmitAccepts DEF Service!Next
  <2>3. CASE SubmitBusy(t)
    BY <2>3, BusyRefuses DEF Service!Next
  <2>4. CASE StartDmaJob(t)
    BY <2>4, DoorbellServes DEF Service!Next
  <2>5. CASE ReturnDone(t)
    BY <2>5, DoneReturns DEF Service!Next
  <2>6. QED
    BY <1>1, <2>1, <2>2, <2>3, <2>4, <2>5 DEF TaskNext
<1>2. CASE TopHalf
  BY <1>2, InterruptsShowNothing
<1>3. CASE Kthread
  <2>1. CASE KScan
    BY <2>1, ScanAnswersOldest DEF Service!Next
  <2>2. QED
    BY <1>3, <2>1, ThreadShowsNothing DEF Kthread
<1>4. CASE UNCHANGED vars
  BY <1>4, NothingShows DEF vars, ConsumerHead
<1>5. QED
  BY <1>1, <1>2, <1>3, <1>4 DEF RingNext

(***************************************************************************)
(* While DMA does not fail, the driver and the device keep the promise of  *)
(* MATHACCEL_IOC_COMPUTE (ComputeService), for any number of threads,      *)
(* ioctls and commands and rings of any size: accepted calls are executed  *)
(* once and answered in order, each with the outcome of its own command,   *)
(* and a call is refused only while RingSize - 1 are under way.            *)
(***************************************************************************)
THEOREM RingImplementsService == ASSUME ~MayFault PROVE RingSpec => ImplementsService
<1>1. RingSpec => [](PlacesInv /\ OwnAnswers)
  BY AnswersAreTheCallers
<1>2. PlacesInv /\ OwnAnswers /\ PlacesInv' /\ [RingNext]_vars => [Service!Next]_(Service!vars)
  BY ServiceStep
<1>3. QED
  BY <1>1, <1>2, ServiceInit, PTL DEF RingSpec, ImplementsService, Service!Spec
================================================================================
