---------------------------- MODULE MathAccelProofs ----------------------------
(***************************************************************************)
(* The error handler of the driver and the device it resets, for any       *)
(* number of tasks and ids, any ring size, and faults and signals anywhere *)
(* or nowhere.                                                             *)
(***************************************************************************)
EXTENDS MathAccel, MathDeviceProofs, FiniteSetTheorems

Drivers ==
  [sq_head : Slots, sq_tail : Slots, cq_head : Slots, cmdid : CmdIds,
   irq_cause : SUBSET IrqCauses, locked : BOOLEAN]
Threads ==
  [pc : KthreadPcs \cup {"error", "flr", "dma", "enable", "wake"}, head : Slots, tail : Slots]

(***************************************************************************)
(* The invariant.  An error is announced once: its cause is in the         *)
(* device's register, or in the driver's copy of it, or being handled,     *)
(* and never in two of the three.  Meanwhile the device stays in ERROR,    *)
(* since all that leads out of it is the reset that ends the handling; and *)
(* the error's cause stays until the handler reads it.                     *)
(***************************************************************************)
Raised == "ERROR" \in dev.irq_cause
Cached == "ERROR" \in drv.irq_cause
Handling == kth.pc \in {"error", "flr"}

AnnouncedOnce == ~(Raised /\ Cached) /\ ~(Raised /\ Handling) /\ ~(Cached /\ Handling)

AlarmInv ==
  /\ AtRest(dev) /\ drv \in Drivers /\ kth \in Threads /\ snap \in [Tasks -> Slots]
  /\ AnnouncedOnce
  /\ Raised \/ Cached \/ Handling => dev.state = "ERROR"
  /\ Raised \/ Cached \/ kth.pc = "error" => dev.error_cause # {}

\* Every step of MathRing or MathAccel that is not a doorbell, the top half's or the handler's.
LEMMA AlarmKept ==
  ASSUME AlarmInv, dev' = dev, drv' \in Drivers, kth' \in Threads, snap' \in [Tasks -> Slots],
         Cached' => Cached, Handling' => Handling, kth'.pc = "error" => kth.pc = "error"
  PROVE  AlarmInv'
  BY DEF AlarmInv, AnnouncedOnce, Raised, Cached, Handling, AtRest

LEMMA DoorbellInError ==
  ASSUME NEW d \in Devices, d.state = "ERROR", NEW tail, NEW fault
  PROVE  Doorbell(d, tail, fault) = [d EXCEPT !.sq_tail = tail]
  BY DEF Doorbell, Legal, NextState, Invalid, Devices

LEMMA DoorbellAlarm == ASSUME AlarmInv, NEW t \in Tasks, DoorbellWrite(t) PROVE AlarmInv'
<1> DEFINE d == [dev EXCEPT !.sq_tail = snap[t]]
<1>1. snap[t] \in Slots /\ dev \in Devices
  BY DEF AlarmInv, AtRest
<1>2. PICK fault \in (IF RunsDma(d) THEN Faults(d) ELSE {NoFault}) :
        dev' = Doorbell(dev, snap[t], fault)
  BY DEF DoorbellWrite, RingDoorbell
<1>3. Handled(dev, dev')
  BY <1>1, <1>2, DoorbellAtRest DEF AlarmInv
<1>4. drv' = [drv EXCEPT !.locked = FALSE] /\ kth' = kth /\ snap' = [snap EXCEPT ![t] = 0]
  BY DEF DoorbellWrite
<1>5. /\ drv' \in Drivers /\ drv'.irq_cause = drv.irq_cause
      /\ snap' \in [Tasks -> Slots] /\ kth' \in Threads
  <2>1. 0 \in Slots
    BY RingAssumption DEF Slots
  <2>2. QED
    BY <1>4, <2>1 DEF AlarmInv, Drivers
<1>6. CASE dev.state = "ERROR"
  <2>1. dev'.state = "ERROR" /\ dev'.irq_cause = dev.irq_cause
        /\ dev'.error_cause = dev.error_cause
    BY <1>1, <1>2, <1>6, DoorbellInError DEF Devices
  <2>2. QED
    BY <1>3, <1>4, <1>5, <2>1
       DEF AlarmInv, AnnouncedOnce, Raised, Cached, Handling, Handled
<1>7. CASE dev.state = "READY"
  <2>1. ~Raised /\ ~Cached' /\ ~Handling' /\ kth'.pc # "error"
    BY <1>4, <1>5, <1>7 DEF AlarmInv, Cached, Handling
  <2>2. Raised' => dev'.state = "ERROR" /\ dev'.error_cause # {}
    BY <1>3, <1>7, <2>1 DEF Handled, Raised, AtRest, Announced
  <2>3. QED
    BY <1>3, <1>5, <2>1, <2>2 DEF AlarmInv, AnnouncedOnce, Handled
<1>8. QED
  BY <1>6, <1>7 DEF AlarmInv, AtRest

\* Reading the cause moves the announcement to the driver's copy.
LEMMA TopHalfAlarm == ASSUME AlarmInv, TopHalf, snap' = snap PROVE AlarmInv'
<1>1. CASE IrqEnter
  BY <1>1 DEF IrqEnter, AlarmInv, AnnouncedOnce, Raised, Cached, Handling, AtRest, Devices
<1>2. CASE IrqReadCause
  <2>1. dev' = [dev EXCEPT !.irq_cause = {}] /\ drv' = [drv EXCEPT !.irq_cause = dev.irq_cause]
        /\ kth' = kth
    BY <1>2 DEF IrqReadCause, ReadIrqCause
  <2>2. /\ AtRest(dev') /\ dev'.irq_cause = {} /\ dev'.state = dev.state
        /\ dev'.error_cause = dev.error_cause
    BY <2>1 DEF AlarmInv, AtRest, Devices
  <2>3. drv' \in Drivers /\ drv'.irq_cause = dev.irq_cause
    BY <2>1 DEF AlarmInv, AtRest, Devices, Drivers
  <2>4. QED
    BY <2>1, <2>2, <2>3 DEF AlarmInv, AnnouncedOnce, Raised, Cached, Handling
<1>3. CASE IrqReadStatus
  <2>1. kth' \in Threads /\ (Handling' => Handling) /\ (kth'.pc = "error" => kth.pc = "error")
    BY <1>3 DEF IrqReadStatus, AlarmInv, Threads, KthreadPcs, Handling
  <2>2. dev' = dev /\ drv' = drv /\ (Cached' => Cached)
    BY <1>3 DEF IrqReadStatus, Cached
  <2>3. QED
    BY <2>1, <2>2, AlarmKept DEF AlarmInv
<1>4. QED
  BY <1>1, <1>2, <1>3 DEF TopHalf

LEMMA KthreadAlarm == ASSUME AlarmInv, Kthread, snap' = snap PROVE AlarmInv'
<1>1. dev' = dev /\ snap' \in [Tasks -> Slots]
  BY DEF Kthread, KSleep, KTakeJobDone, KSpurious, KLock, KScan, KUnlock, AlarmInv
<1>2. kth.head \in Slots /\ Plus(kth.head, 1) \in Slots /\ 0 \in Slots
      /\ dev.sq_head \in Slots /\ dev.cq_tail \in Slots
  BY RingArithmetic, RingAssumption DEF AlarmInv, Threads, AtRest, Devices, Slots
<1>3. drv' \in Drivers /\ (Cached' => Cached)
  BY <1>2 DEF Kthread, KSleep, KTakeJobDone, KSpurious, KLock, KScan, KUnlock, AlarmInv,
              Drivers, Cached
<1>4. kth' \in Threads /\ ~Handling' /\ kth'.pc # "error"
  BY <1>2 DEF Kthread, KSleep, KTakeJobDone, KSpurious, KLock, KScan, KUnlock, AlarmInv,
              Drivers, Threads, KthreadPcs, Handling, KGoto
<1>5. QED
  BY <1>1, <1>3, <1>4, AlarmKept

\* The driver's copy is taken by the handler, which reads the error's cause and resets.
LEMMA HandlerAlarm == ASSUME AlarmInv, ErrorHandler PROVE AlarmInv'
<1> USE DEF AlarmInv
<1>1. snap' = snap
  BY DEF ErrorHandler, KTakeError, KDropCombined, KReadError, KResetFunction, KInitDma, KEnable,
         KWake
<1>2. CASE KTakeError
  <2>1. dev' = dev /\ drv' = [drv EXCEPT !.irq_cause = {}] /\ kth' = [kth EXCEPT !.pc = "error"]
        /\ Cached
    BY <1>2 DEF KTakeError, KGoto, Cached
  <2>2. drv' \in Drivers /\ ~Cached' /\ kth' \in Threads /\ kth'.pc = "error"
    BY <2>1 DEF Drivers, Threads, Cached
  <2>3. QED
    BY <1>1, <2>1, <2>2 DEF AnnouncedOnce, Raised, Handling, AtRest
<1>3. CASE KDropCombined
  <2>1. drv' = [drv EXCEPT !.irq_cause = {}] /\ dev' = dev /\ kth' = kth
    BY <1>3 DEF KDropCombined
  <2>2. drv' \in Drivers /\ ~Cached'
    BY <2>1 DEF Drivers, Cached
  <2>3. QED
    BY <1>1, <2>1, <2>2, AlarmKept DEF Handling
<1>4. CASE KReadError
  <2>1. dev' = [dev EXCEPT !.error_cause = {}] /\ drv' = drv /\ kth' = [kth EXCEPT !.pc = "flr"]
        /\ kth.pc = "error"
    BY <1>4 DEF KReadError, ReadErrorCause, KGoto
  <2>2. /\ AtRest(dev') /\ dev'.state = dev.state /\ dev'.irq_cause = dev.irq_cause
        /\ kth' \in Threads /\ kth'.pc = "flr"
    BY <2>1 DEF AtRest, Devices, Threads
  <2>3. QED
    BY <1>1, <2>1, <2>2 DEF AnnouncedOnce, Raised, Cached, Handling
<1>5. CASE KResetFunction
  <2>1. dev' = OnDeviceReset(dev) /\ drv' = drv /\ kth' = [kth EXCEPT !.pc = "dma"]
        /\ kth.pc = "flr"
    BY <1>5 DEF KResetFunction, KGoto
  <2>2. AtRest(dev') /\ dev'.irq_cause = dev.irq_cause
    BY <2>1, ResetAtRest DEF AtRest
  <2>3. kth' \in Threads /\ kth'.pc = "dma"
    BY <2>1 DEF Threads
  <2>4. QED
    BY <1>1, <2>1, <2>2, <2>3 DEF AnnouncedOnce, Raised, Cached, Handling
<1>6. CASE KInitDma \/ KEnable
  <2>1. /\ AtRest(dev') /\ dev'.state = dev.state /\ dev'.irq_cause = dev.irq_cause
        /\ dev'.error_cause = dev.error_cause
    BY <1>6 DEF KInitDma, KEnable, WriteBases, WriteFlags, AtRest, Devices
  <2>2. 0 \in Slots /\ 1 \in CmdIds
    BY RingAssumption, TasksAssumption DEF Slots
  <2>3. drv' \in Drivers /\ drv'.irq_cause = drv.irq_cause
    BY <1>6, <2>2 DEF KInitDma, KEnable, Drivers
  <2>4. kth' \in Threads /\ ~Handling' /\ kth'.pc # "error"
    BY <1>6 DEF KInitDma, KEnable, KGoto, Threads, Handling
  <2>5. QED
    BY <1>1, <2>1, <2>3, <2>4 DEF AnnouncedOnce, Raised, Cached, Handling
<1>7. CASE KWake
  <2>1. kth' \in Threads /\ (Handling' => Handling) /\ (kth'.pc = "error" => kth.pc = "error")
    BY <1>7 DEF KWake, KGoto, Threads, KthreadPcs, Handling
  <2>2. dev' = dev /\ drv' = drv
    BY <1>7 DEF KWake
  <2>3. QED
    BY <1>1, <2>1, <2>2, AlarmKept DEF Cached
<1>8. QED
  BY <1>2, <1>3, <1>4, <1>5, <1>6, <1>7 DEF ErrorHandler

\* The ioctl, doorbells aside.
LEMMA TaskAlarm ==
  ASSUME AlarmInv, NEW t \in Tasks,
         \/ BeginCall(t) \/ SubmitLock(t) \/ SubmitFill(t) \/ DoorbellLock(t)
         \/ Interrupted(t) \/ ReturnError(t)
         \/ (SubmitBusy(t) \/ ReturnDone(t)) /\ snap' = snap
  PROVE  AlarmInv'
<1>1. dev' = dev /\ kth' = kth
  BY DEF BeginCall, Begin, SubmitLock, SubmitFill, DoorbellLock, Interrupted, ReturnError,
         Abandon, SubmitBusy, ReturnDone
<1>2. 0 \in Slots /\ snap[t] \in Slots /\ Plus(snap[t], 1) \in Slots /\ drv.sq_tail \in Slots
  <2>1. 0 \in Slots /\ 1 \in 0 .. RingSize
    BY RingAssumption DEF Slots
  <2>2. snap[t] \in Slots /\ drv.sq_tail \in Slots
    BY DEF AlarmInv, Drivers
  <2>3. QED
    BY <2>1, <2>2, RingArithmetic
<1>3. drv' \in Drivers /\ drv'.irq_cause = drv.irq_cause
  BY <1>2 DEF BeginCall, Begin, SubmitLock, SubmitFill, DoorbellLock, Interrupted, ReturnError,
              Abandon, SubmitBusy, ReturnDone, AlarmInv, Drivers
<1>4. snap' \in [Tasks -> Slots]
  BY <1>2 DEF BeginCall, Begin, SubmitLock, SubmitFill, DoorbellLock, Interrupted, ReturnError,
              Abandon, SubmitBusy, ReturnDone, AlarmInv
<1>5. QED
  BY <1>1, <1>3, <1>4, AlarmKept DEF AlarmInv, Cached, Handling
-----------------------------------------------------------------------------
LEMMA AlarmInit == AccelInit => AlarmInv
<1> SUFFICES ASSUME AccelInit PROVE AlarmInv
  OBVIOUS
<1>1. 0 \in Slots /\ 1 \in CmdIds
  BY RingAssumption, TasksAssumption DEF Slots
<1>2. AtRest(dev) /\ dev.irq_cause = {}
  BY PowerOnAtRest
     DEF AccelInit, RingInit, ProbedDevice, WriteFlags, WriteBases, AtRest, Devices
<1>3. drv \in Drivers /\ ~Cached
  BY <1>1 DEF AccelInit, RingInit, Drivers, Cached
<1>4. kth \in Threads /\ ~Handling /\ kth.pc # "error"
  BY <1>1 DEF AccelInit, RingInit, Threads, KthreadPcs, Handling
<1>5. QED
  BY <1>1, <1>2, <1>3, <1>4 DEF AccelInit, AlarmInv, AnnouncedOnce, Raised

LEMMA AlarmStep == AlarmInv /\ [AccelNext]_accelVars => AlarmInv'
<1> SUFFICES ASSUME AlarmInv, [AccelNext]_accelVars PROVE AlarmInv'
  OBVIOUS
<1>1. CASE FromRing
  BY <1>1, TopHalfAlarm, KthreadAlarm, TaskAlarm DEF FromRing
<1>2. CASE \E t \in Tasks : AccelTask(t)
  BY <1>2, DoorbellAlarm, TaskAlarm DEF AccelTask
<1>3. CASE ErrorHandler
  BY <1>3, HandlerAlarm
<1>4. CASE UNCHANGED accelVars
  BY <1>4, AlarmKept DEF accelVars, AlarmInv, Cached, Handling
<1>5. QED
  BY <1>1, <1>2, <1>3, <1>4 DEF AccelNext

(***************************************************************************)
(* Whatever fails and whoever is interrupted, the error handler finds a    *)
(* cause and a device in ERROR: BUG_ON(err_cause == ERR_CAUSE_NOERR)       *)
(* (irq.c:22) never fires and the device accepts the reset.                *)
(***************************************************************************)
THEOREM AccelBugOnNeverFires == AccelSpec => []BugOnNeverFires
<1>1. AlarmInv => BugOnNeverFires
  BY DEF AlarmInv, BugOnNeverFires, Handling
<1>2. QED
  BY <1>1, AlarmInit, AlarmStep, PTL DEF AccelSpec

(***************************************************************************)
(* The types of the rest: the rings, the records and their xarray, and the *)
(* tasks.  A completion carries an id of the ring's and an outcome of the  *)
(* device's arithmetic, so that a record holds what a task may return.     *)
(***************************************************************************)
Records == [live : BOOLEAN, done : BOOLEAN, cause : {"NONE", "JOB_DONE", "ERROR"},
            out : RecordOutcomes]
Calls == [pc : TaskPcs \cup {"fill", "writel"}, req : Requests, id : CmdIds,
          ret : RecordOutcomes \cup {EBUSY, EIO, ERESTARTSYS}]

EntryTypes == sq \in [Slots -> SqEntries] /\ cq \in [Slots -> CqEntries]

DataTypes ==
  /\ EntryTypes
  /\ xa \in [CmdIds -> Tasks \cup {NoTask}]
  /\ pend \in [Tasks -> Records]
  /\ task \in [Tasks -> Calls]
  /\ irq \in {"idle", "cause", "status"}
  /\ next \in CmdIds
  /\ calls \in 0 .. MaxCalls

LEMMA IdsAreCounted ==
  /\ 1 \in CmdIds
  /\ LastId \in CmdIds /\ \A i \in CmdIds : i # LastId => i + 1 \in CmdIds
<1>1. Cardinality(CmdIds) \in Nat
  BY AccelAssumption, FS_CardinalityType
<1>2. PICK n \in Nat : n = Cardinality(CmdIds)
  BY <1>1
<1>3. CmdIds = 1 .. n /\ 1 \in CmdIds
  BY <1>2, AccelAssumption, TasksAssumption
<1>4. n \in CmdIds /\ \A j \in CmdIds : j <= n
  BY <1>3
<1>5. LastId \in CmdIds /\ \A j \in CmdIds : j <= LastId
  BY <1>4 DEF LastId
<1>6. LastId = n
  BY <1>3, <1>4, <1>5
<1>7. QED
  BY <1>3, <1>5, <1>6

LEMMA OutcomeTypes ==
  /\ Outcomes \subseteq RecordOutcomes
  /\ NoOutcome \in RecordOutcomes
  /\ FreshPending \in Records /\ Freed \in Records
<1>1. NoOutcome \in RecordOutcomes
  BY DEF NoOutcome, RecordOutcomes
<1>2. Outcomes \subseteq RecordOutcomes
  BY DEF Outcomes, RecordOutcomes
<1>3. FreshPending \in Records
  BY <1>1 DEF FreshPending, Records
<1>4. Freed \in Records
  BY <1>3 DEF Freed, Records
<1>5. QED
  BY <1>1, <1>2, <1>3, <1>4

\* A step of one task's ioctl that leaves the rings alone, or its doorbell.
LEMMA CallTypes ==
  ASSUME DataTypes, NEW t \in Tasks, NEW r \in Records, NEW c \in Calls,
         pend' = [pend EXCEPT ![t] = r], task' = [task EXCEPT ![t] = c],
         EntryTypes', xa' \in [CmdIds -> Tasks \cup {NoTask}],
         UNCHANGED <<irq, next>>, calls' \in 0 .. MaxCalls
  PROVE  DataTypes'
BY DEF DataTypes, Records, Calls, TaskPcs, RecordOutcomes

LEMMA TaskTypes ==
  ASSUME AlarmInv, DataTypes, NEW t \in Tasks,
         \/ AccelTask(t)
         \/ (SubmitBusy(t) \/ ReturnDone(t)) /\ UNCHANGED <<snap, next, calls>>
  PROVE  DataTypes'
<1>1. PICK c \in Calls : c = task[t]
  BY DEF DataTypes
<1>2. PICK r \in Records : r = pend[t]
  BY DEF DataTypes
<1>3. /\ c.req \in Requests /\ c.id \in CmdIds /\ r.out \in RecordOutcomes
      /\ drv.cmdid \in CmdIds /\ snap[t] \in Slots
  BY <1>1, <1>2 DEF Calls, Records, AlarmInv, Drivers
<1>4. /\ pend = [pend EXCEPT ![t] = r]
      /\ sq \in [Slots -> SqEntries] /\ cq \in [Slots -> CqEntries]
      /\ xa \in [CmdIds -> Tasks \cup {NoTask}]
      /\ pend \in [Tasks -> Records] /\ task \in [Tasks -> Calls]
      /\ calls \in 0 .. MaxCalls /\ MaxCalls \in Nat
  BY <1>1, <1>2, AccelAssumption DEF DataTypes, EntryTypes
<1>5. CASE BeginCall(t)
  <2>1. PICK q \in Requests :
          task' = [task EXCEPT ![t] = [pc |-> "submit", req |-> q, id |-> drv.cmdid + 1,
                                       ret |-> NoOutcome]]
    BY <1>5 DEF BeginCall, Begin
  <2>2. drv.cmdid + 1 \in CmdIds
    BY <1>5 DEF BeginCall, Begin
  <2>3. PICK d : d = [pc |-> "submit", req |-> q, id |-> drv.cmdid + 1, ret |-> NoOutcome]
    OBVIOUS
  <2>4. d \in Calls
    BY <2>2, <2>3, OutcomeTypes DEF Calls, TaskPcs
  <2>5. calls' \in 0 .. MaxCalls
    BY <1>4, <1>5 DEF BeginCall
  <2>6. xa' \in [CmdIds -> Tasks \cup {NoTask}]
    BY <1>4, <1>5 DEF BeginCall, Begin
  <2>7. pend' = [pend EXCEPT ![t] = FreshPending] /\ UNCHANGED <<sq, cq, irq, next>>
    BY <1>5 DEF BeginCall, Begin
  <2>8. EntryTypes'
    BY <1>4, <2>7 DEF EntryTypes, SqEntries, CqEntries, Slots
  <2>9. QED
    BY <2>1, <2>3, <2>4, <2>5, <2>6, <2>7, <2>8, OutcomeTypes, CallTypes
<1>6. ASSUME NEW pc \in TaskPcs \cup {"fill", "writel"}, Goto(t, pc),
             UNCHANGED <<xa, pend, irq, next, calls>>, EntryTypes'
      PROVE  DataTypes'
  <2>1. PICK d : d = [c EXCEPT !.pc = pc]
    OBVIOUS
  <2>2. d \in Calls
    BY <1>6, <2>1 DEF Calls
  <2>3. task' = [task EXCEPT ![t] = d]
    BY <1>1, <1>4, <1>6, <2>1 DEF Goto
  <2>4. QED
    BY <1>4, <1>6, <2>2, <2>3, CallTypes
<1>7. CASE SubmitLock(t) \/ DoorbellLock(t)
  <2>1. EntryTypes'
    BY <1>4, <1>7 DEF SubmitLock, DoorbellLock, EntryTypes, SqEntries, CqEntries, Slots
  <2>2. QED
    BY <1>6, <1>7, <2>1 DEF SubmitLock, DoorbellLock, TaskPcs
<1>8. CASE SubmitFill(t)
  <2>1. PICK e : e = [cmd_id |-> c.id, cmd |-> c.req]
    OBVIOUS
  <2>2. e \in SqEntries
    BY <1>3, <2>1, RequestsAssumption DEF SqEntries
  <2>3. sq' = [sq EXCEPT ![snap[t]] = e] /\ cq' = cq
    BY <1>1, <1>8, <2>1 DEF SubmitFill
  <2>4. sq' \in [Slots -> SqEntries] /\ cq' \in [Slots -> CqEntries]
    BY <1>3, <1>4, <2>2, <2>3
  <2>5. EntryTypes'
    BY <2>4 DEF EntryTypes, SqEntries, CqEntries, Slots
  <2>6. QED
    BY <1>6, <1>8, <2>5 DEF SubmitFill, TaskPcs
<1>9. CASE DoorbellWrite(t)
  <2>1. PICK d : d = [dev EXCEPT !.sq_tail = snap[t]]
    OBVIOUS
  <2>2. d \in Devices
    BY <1>3, <2>1 DEF AlarmInv, AtRest, Devices
  <2>3. PICK fault \in (IF RunsDma(d) THEN Faults(d) ELSE {NoFault}) :
          cq' = IF RunsDma(d) THEN Completions(d, fault) ELSE cq
    BY <1>9, <2>1 DEF DoorbellWrite, RingDoorbell
  <2>4. cq' \in [Slots -> CqEntries]
    <3>1. CASE RunsDma(d)
      BY <1>4, <2>2, <2>3, <3>1, CompletionsType
    <3>2. CASE ~ RunsDma(d)
      BY <1>4, <2>3, <3>2
    <3>3. QED
      BY <3>1, <3>2
  <2>5. EntryTypes'
    BY <1>4, <1>9, <2>4 DEF DoorbellWrite, EntryTypes, SqEntries, CqEntries, Slots
  <2>6. QED
    BY <1>6, <1>9, <2>5 DEF DoorbellWrite, TaskPcs
<1>10. ASSUME NEW out \in RecordOutcomes \cup {EBUSY, EIO, ERESTARTSYS},
              pend' = [pend EXCEPT ![t] = Freed],
              task' = [task EXCEPT ![t].pc = "idle", ![t].ret = out],
              UNCHANGED <<sq, cq, irq, next, calls>>, xa' \in [CmdIds -> Tasks \cup {NoTask}]
       PROVE  DataTypes'
  <2>1. PICK d : d = [c EXCEPT !.pc = "idle", !.ret = out]
    OBVIOUS
  <2>2. d \in Calls
    BY <1>10, <2>1 DEF Calls, TaskPcs
  <2>3. task' = [task EXCEPT ![t] = d]
    BY <1>1, <1>4, <1>10, <2>1
  <2>4. EntryTypes'
    BY <1>4, <1>10 DEF EntryTypes, SqEntries, CqEntries, Slots
  <2>5. QED
    BY <1>4, <1>10, <2>2, <2>3, <2>4, OutcomeTypes, CallTypes
<1>11. CASE Interrupted(t) \/ ReturnError(t)
  <2>1. Abandon(t, ERESTARTSYS) \/ Abandon(t, EIO)
    BY <1>11 DEF Interrupted, ReturnError
  <2>2. ASSUME NEW out \in {EIO, ERESTARTSYS}, Abandon(t, out) PROVE DataTypes'
    BY <1>4, <1>10, <2>2 DEF Abandon
  <2>3. QED
    BY <2>1, <2>2
<1>12. CASE SubmitBusy(t) /\ UNCHANGED <<snap, next, calls>>
  BY <1>4, <1>10, <1>12 DEF SubmitBusy
<1>13. CASE ReturnDone(t) /\ UNCHANGED <<snap, next, calls>>
  <2>1. xa' \in [CmdIds -> Tasks \cup {NoTask}]
    BY <1>3, <1>1, <1>4, <1>13 DEF ReturnDone
  <2>2. PICK out \in RecordOutcomes : out = pend[t].out
    BY <1>2, <1>3
  <2>3. task' = [task EXCEPT ![t].pc = "idle", ![t].ret = out]
    BY <1>13, <2>2 DEF ReturnDone
  <2>4. QED
    BY <1>10, <1>13, <2>1, <2>3 DEF ReturnDone
<1>14. QED
  BY <1>5, <1>7, <1>8, <1>9, <1>11, <1>12, <1>13 DEF AccelTask

\* The top half, the thread and its error handler.
LEMMA ThreadTypes ==
  ASSUME AlarmInv, DataTypes,
         \/ (TopHalf \/ Kthread) /\ UNCHANGED <<snap, next, calls>>
         \/ ErrorHandler
  PROVE  DataTypes'
<1>1. CASE /\ UNCHANGED <<sq, cq, xa, pend, task, calls>>
           /\ irq' \in {"idle", "cause", "status"} /\ next' \in CmdIds
  BY <1>1 DEF DataTypes, EntryTypes, SqEntries, CqEntries, Slots, Records, Calls, TaskPcs,
              RecordOutcomes
<1>2. CASE TopHalf /\ UNCHANGED <<snap, next, calls>>
  <2>1. UNCHANGED <<sq, cq, xa, pend, task>> /\ irq' \in {"idle", "cause", "status"}
    BY <1>2 DEF TopHalf, IrqEnter, IrqReadCause, IrqReadStatus
  <2>2. QED
    BY <1>1, <1>2, <2>1 DEF DataTypes
<1>3. CASE (KSleep \/ KTakeJobDone \/ KSpurious \/ KLock \/ KUnlock)
             /\ UNCHANGED <<snap, next, calls>>
  <2>1. UNCHANGED <<sq, cq, xa, pend, task, irq>>
    BY <1>3 DEF KSleep, KTakeJobDone, KSpurious, KLock, KUnlock
  <2>2. QED
    BY <1>1, <1>3, <2>1 DEF DataTypes
<1>4. CASE KTakeError \/ KDropCombined \/ KReadError \/ KResetFunction \/ KInitDma \/ KEnable
  <2>1. UNCHANGED <<sq, cq, xa, pend, task, irq, calls>> /\ next' \in {next, 1}
    BY <1>4 DEF KTakeError, KDropCombined, KReadError, KResetFunction, KInitDma, KEnable
  <2>2. QED
    BY <1>1, <2>1, IdsAreCounted DEF DataTypes
<1>5. ASSUME NEW w \in Tasks, NEW r \in Records, pend' = [pend EXCEPT ![w] = r]
      PROVE  pend' \in [Tasks -> Records]
  BY <1>5 DEF DataTypes
<1>6. CASE KScan /\ UNCHANGED <<snap, next, calls>>
  <2>1. kth.head \in Slots
    BY DEF AlarmInv, Threads
  <2>2. PICK e \in CqEntries : e = cq[kth.head]
    BY <2>1 DEF DataTypes, EntryTypes
  <2>3. e.cmd_id \in CmdIds /\ e.out \in RecordOutcomes
    BY OutcomeTypes DEF CqEntries
  <2>4. PICK w \in Tasks \cup {NoTask} : w = xa[e.cmd_id]
    <3>1. xa \in [CmdIds -> Tasks \cup {NoTask}]
      BY DEF DataTypes
    <3>2. PICK id \in CmdIds : id = e.cmd_id
      BY <2>3
    <3>3. xa[id] \in Tasks \cup {NoTask}
      BY <3>1
    <3>4. QED
      BY <3>2, <3>3
  <2>5. pend' = IF w = NoTask THEN pend
                ELSE [pend EXCEPT ![w].done = TRUE, ![w].cause = "JOB_DONE", ![w].out = e.out]
    BY <1>6, <2>2, <2>4, Zenon DEF KScan, CompletedTask
  <2>6. pend' \in [Tasks -> Records]
    <3>1. CASE w = NoTask
      BY <2>5, <3>1 DEF DataTypes
    <3>2. CASE w # NoTask
      <4>1. PICK r \in Records : r = pend[w]
        BY <3>2 DEF DataTypes
      <4>2. PICK q : q = [r EXCEPT !.done = TRUE, !.cause = "JOB_DONE", !.out = e.out]
        OBVIOUS
      <4>3. q \in Records
        BY <2>3, <4>2 DEF Records
      <4>4. pend' = [pend EXCEPT ![w] = q]
        BY <2>5, <3>2, <4>1, <4>2 DEF DataTypes
      <4>5. QED
        BY <1>5, <3>2, <4>3, <4>4
    <3>3. QED
      BY <3>1, <3>2
  <2>7. cq' \in [Slots -> CqEntries]
    <3>1. PICK q : q = [e EXCEPT !.valid = FALSE]
      OBVIOUS
    <3>2. q \in CqEntries
      BY <3>1 DEF CqEntries
    <3>3. cq' = [cq EXCEPT ![kth.head] = q]
      BY <1>6, <2>2, <3>1 DEF KScan
    <3>4. QED
      BY <2>1, <3>2, <3>3 DEF DataTypes, EntryTypes
  <2>8. UNCHANGED <<sq, xa, task, irq, next, calls>>
    BY <1>6 DEF KScan
  <2>9. QED
    BY <2>6, <2>7, <2>8 DEF DataTypes, EntryTypes, SqEntries, CqEntries, Slots, Records, Calls,
                            TaskPcs, RecordOutcomes
<1>7. CASE KWake
  <2>1. PICK w \in Tasks \cup {NoTask} : w = xa[next]
    BY DEF DataTypes
  <2>2. pend' = IF w = NoTask THEN pend
                ELSE [pend EXCEPT ![w].done = TRUE, ![w].cause = "ERROR", ![w].out.result = -1]
    BY <1>7, <2>1 DEF KWake
  <2>3. pend' \in [Tasks -> Records]
    <3>1. CASE w = NoTask
      BY <2>2, <3>1 DEF DataTypes
    <3>2. CASE w # NoTask
      <4>1. PICK r \in Records : r = pend[w]
        BY <3>2 DEF DataTypes
      <4>2. PICK o : o = [r.out EXCEPT !.result = -1]
        OBVIOUS
      <4>3. o \in RecordOutcomes
        BY <4>2 DEF Records, RecordOutcomes
      <4>4. PICK q : q = [r EXCEPT !.done = TRUE, !.cause = "ERROR", !.out = o]
        OBVIOUS
      <4>5. q \in Records
        BY <4>3, <4>4 DEF Records
      <4>6. pend' = [pend EXCEPT ![w] = q]
        BY <2>2, <3>2, <4>1, <4>2, <4>4 DEF DataTypes, Records
      <4>7. QED
        BY <1>5, <3>2, <4>5, <4>6
    <3>3. QED
      BY <3>1, <3>2
  <2>4. next' \in CmdIds
    BY <1>7, IdsAreCounted DEF KWake, DataTypes
  <2>5. UNCHANGED <<sq, cq, xa, task, irq, calls>>
    BY <1>7 DEF KWake
  <2>6. QED
    BY <2>3, <2>4, <2>5 DEF DataTypes, EntryTypes, SqEntries, CqEntries, Slots, Records, Calls,
                            TaskPcs, RecordOutcomes
<1>8. QED
  BY <1>2, <1>3, <1>4, <1>6, <1>7 DEF Kthread, ErrorHandler

LEMMA DataTypesInit == AccelInit => DataTypes
<1>1. SUFFICES ASSUME AccelInit PROVE DataTypes
  OBVIOUS
<1>2. 1 \in CmdIds /\ MaxCalls \in Nat
  BY IdsAreCounted, AccelAssumption
<1>3. EntryTypes
  BY <1>1, <1>2, ZeroEntries DEF AccelInit, RingInit, EntryTypes
<1>4. PICK r \in Requests :
        task = [t \in Tasks |-> [pc |-> "idle", req |-> r, id |-> 1, ret |-> NoOutcome]]
  BY <1>1 DEF AccelInit, RingInit
<1>5. [pc |-> "idle", req |-> r, id |-> 1, ret |-> NoOutcome] \in Calls
  BY <1>2, OutcomeTypes DEF Calls, TaskPcs
<1>6. task \in [Tasks -> Calls]
  BY <1>4, <1>5
<1>7. QED
  BY <1>1, <1>2, <1>3, <1>6, OutcomeTypes DEF AccelInit, RingInit, DataTypes

LEMMA DataTypesStep == AlarmInv /\ DataTypes /\ [AccelNext]_accelVars => DataTypes'
<1>1. SUFFICES ASSUME AlarmInv, DataTypes, [AccelNext]_accelVars PROVE DataTypes'
  OBVIOUS
<1>2. CASE FromRing
  BY <1>1, <1>2, TaskTypes, ThreadTypes DEF FromRing
<1>3. CASE \E t \in Tasks : AccelTask(t)
  BY <1>1, <1>3, TaskTypes
<1>4. CASE ErrorHandler
  BY <1>1, <1>4, ThreadTypes
<1>5. CASE UNCHANGED accelVars
  BY <1>1, <1>5 DEF accelVars, DataTypes, EntryTypes, SqEntries, CqEntries, Slots, Records, Calls,
                    TaskPcs, RecordOutcomes
<1>6. QED
  BY <1>1, <1>2, <1>3, <1>4, <1>5 DEF AccelNext

(***************************************************************************)
(* The driver and the device keep to their types through every failure and *)
(* every reset: no index leaves its ring, no id its range, and a record    *)
(* holds an outcome or none, with or without -1 over it.                   *)
(***************************************************************************)
THEOREM AccelTypes == AccelSpec => []AccelTypeOK
<1>1. AlarmInv /\ DataTypes => AccelTypeOK
  BY DEF AlarmInv, AtRest, DataTypes, EntryTypes, AccelTypeOK, DevTypeOK, Drivers, Threads,
         Records, Calls
<1>2. QED
  BY <1>1, AlarmInit, AlarmStep, DataTypesInit, DataTypesStep, PTL DEF AccelSpec
================================================================================
