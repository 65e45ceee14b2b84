------------------------------- MODULE MathDevice -------------------------------
(***************************************************************************)
(* The mathaccel device (qemu-devices/mathaccel): a single-threaded        *)
(* vfio-user server.  A register access or a reset runs its handler to     *)
(* completion before the next request is looked at, so one handler, with   *)
(* every nested fsm_dispatch() it makes, is one step.                      *)
(*                                                                         *)
(* The handlers are operators from device record to device record: this    *)
(* module runs them under any driver that keeps its tail inside the ring,  *)
(* MathRing under the real one.                                            *)
(***************************************************************************)
EXTENDS MathCompute, FiniteSets

CONSTANTS
  RingSize,     \* entries of each ring (MATHACCEL_RINGBUFFER_SIZE is 256)
  CmdIds,       \* command ids the driver hands out
  Requests,     \* commands submitted, through either interface
  MayFault      \* may the translation of a guest address fail?

ASSUME RingAssumption == RingSize \in Nat /\ RingSize > 1
ASSUME RequestsAssumption ==
  /\ Requests \subseteq Commands
  /\ \A r \in Requests : ~Traps(r)
ASSUME FaultAssumption == MayFault \in BOOLEAN

VARIABLES
  dev,     \* struct math_device, plus msi: an MSI the CPU has yet to take
  sq,      \* the submission ring in guest memory
  cq       \* the completion ring in guest memory

devVars == <<dev, sq, cq>>

Slots == 0 .. (RingSize - 1)

States == {"RESET", "READY", "BUSY", "ERROR"}
Flags == {"INT", "DMA"}
IrqCauses == {"JOB_DONE", "CMD_DONE", "ERROR"}
ErrorCauses ==
  {"DMA_READ", "DMA_WRITE", "DMA_BAD_QUEUE", "DMA_DISABLED", "CMD_UNKNOWN", "CMD_EXEC"}

\* The device's copy of the completion head and of the ring size are left out:
\* the first is written and never used, the second is always RingSize by the
\* time DMA is enabled.  bases is TRUE when neither base address is NULL.
Devices ==
  [state : States, flags : SUBSET Flags, irq_cause : SUBSET IrqCauses,
   error_cause : SUBSET ErrorCauses, cmd : Ops \cup {OpCount}, a : Int, b : Int,
   bases : BOOLEAN,
   sq_head : Slots, sq_tail : Slots, cq_tail : Slots, msi : BOOLEAN]

SqEntries == [cmd_id : CmdIds, cmd : Commands]
CqEntries == [cmd_id : CmdIds, out : Outcomes, valid : BOOLEAN]

DevTypeOK ==
  /\ dev \in Devices
  /\ sq \in [Slots -> SqEntries]
  /\ cq \in [Slots -> CqEntries]
-----------------------------------------------------------------------------
(***************************************************************************)
(* Ring indices.  Plus is (i + k) % RingSize, and Dist the number of       *)
(* entries from i to j: % is spelled out for indices already in the ring.  *)
(***************************************************************************)
\* Mutant of Plus: the index runs off the ring.
PlusUnwrapped(i, k) == i + k

Plus(i, k) == IF i + k < RingSize THEN i + k ELSE i + k - RingSize
Dist(i, j) == IF i <= j THEN j - i ELSE j - i + RingSize

Pending(d) == Dist(d.sq_head, d.sq_tail)
-----------------------------------------------------------------------------
(***************************************************************************)
(* The state machine of fsm.c: the table, and its actions.                 *)
(***************************************************************************)
Invalid == "INVALID"

\* Mutant of NextState: a busy device has no way into ERROR.
NextStateNoBusyError(s, evt) ==
  CASE s = "RESET" /\ evt = "INIT" -> "READY"
    [] s = "READY" /\ evt \in {"SUBMIT_JOB", "SUBMIT_CMD"} -> "BUSY"
    [] s = "BUSY" /\ evt \in {"JOB_DONE", "CMD_DONE"} -> "READY"
    [] s \in {"READY", "ERROR"} /\ evt = "RESET" -> "RESET"
    [] OTHER -> Invalid

NextState(s, evt) ==
  CASE s = "RESET" /\ evt = "INIT" -> "READY"
    [] s = "READY" /\ evt \in {"SUBMIT_JOB", "SUBMIT_CMD"} -> "BUSY"
    [] s = "BUSY" /\ evt \in {"JOB_DONE", "CMD_DONE"} -> "READY"
    [] s \in {"READY", "BUSY"} /\ evt = "ERROR" -> "ERROR"
    [] s \in {"READY", "ERROR"} /\ evt = "RESET" -> "RESET"
    [] OTHER -> Invalid

Legal(d, evt) == NextState(d.state, evt) # Invalid
Enter(d, evt) == [d EXCEPT !.state = NextState(d.state, evt)]

\* action_complete: an MSI, if the driver enabled interrupts.
TriggerIrq(d) == IF "INT" \in d.flags THEN [d EXCEPT !.msi = TRUE] ELSE d

\* Work done: the cause is recorded, then JOB_DONE or CMD_DONE dispatched.
Done(d, cause) ==
  LET e == [d EXCEPT !.irq_cause = @ \cup {cause}] IN
  IF Legal(e, cause) THEN TriggerIrq(Enter(e, cause)) ELSE e

\* Mutant of Fail: the error is not announced.
FailSilently(d, cause) ==
  LET e == [d EXCEPT !.error_cause = @ \cup {cause}] IN
  IF Legal(e, "ERROR")
    THEN [Enter(e, "ERROR") EXCEPT !.irq_cause = @ \cup {"ERROR"}]
    ELSE e

\* Mutant of Fail: ERROR is dispatched with no cause recorded.
FailWithoutCause(d, cause) ==
  IF Legal(d, "ERROR")
    THEN TriggerIrq([Enter(d, "ERROR") EXCEPT !.irq_cause = @ \cup {"ERROR"}])
    ELSE d

\* An error: the cause is recorded, then ERROR dispatched (action_error).
Fail(d, cause) ==
  LET e == [d EXCEPT !.error_cause = @ \cup {cause}] IN
  IF Legal(e, "ERROR")
    THEN TriggerIrq([Enter(e, "ERROR") EXCEPT !.irq_cause = @ \cup {"ERROR"}])
    ELSE e
-----------------------------------------------------------------------------
(***************************************************************************)
(* DMA (compute.c, dma.c).  A doorbell executes every entry between the    *)
(* heads: entry k is read from the submission ring and its outcome written *)
(* to the completion ring, whose fill level is NOT looked at.  A run says  *)
(* where it stops: after all entries, or at the read or the write of one.  *)
(***************************************************************************)
NoFault == [kind |-> "NONE", at |-> 0]

Faults(d) ==
  {NoFault} \cup
  (IF MayFault THEN [kind : {"DMA_READ", "DMA_WRITE"}, at : 0 .. (Pending(d) - 1)] ELSE {})

\* Mutant of Reads: the last entry of a job is left in the ring.
ReadsAllButOne(d, fault) ==
  IF fault = NoFault THEN (IF Pending(d) = 0 THEN 0 ELSE Pending(d) - 1)
  ELSE IF fault.kind = "DMA_READ" THEN fault.at ELSE fault.at + 1

Reads(d, fault) ==
  IF fault = NoFault THEN Pending(d)
  ELSE IF fault.kind = "DMA_READ" THEN fault.at ELSE fault.at + 1

\* Mutant of Writes: the last completion of a job is not written.
WritesAllButOne(d, fault) ==
  IF fault = NoFault THEN (IF Pending(d) = 0 THEN 0 ELSE Pending(d) - 1) ELSE fault.at

Writes(d, fault) == IF fault = NoFault THEN Pending(d) ELSE fault.at

ConsumeSubmissionQueue(d, fault) ==
  LET e == [d EXCEPT !.sq_head = Plus(@, Reads(d, fault)),
                     !.cq_tail = Plus(@, Writes(d, fault))]
  IN  IF fault = NoFault THEN Done(e, "JOB_DONE") ELSE Fail(e, fault.kind)

\* The completion ring afterwards: slot j holds the outcome of the k-th entry.
Completions(d, fault) ==
  [j \in Slots |->
     LET k == Dist(d.cq_tail, j)
         entry == sq[Plus(d.sq_head, k)]
     IN  IF k < Writes(d, fault)
           THEN [cmd_id |-> entry.cmd_id, out |-> Execute(entry.cmd), valid |-> TRUE]
           ELSE cq[j]]

DmaReady(d) == "DMA" \in d.flags /\ d.bases

\* action_start_dma, entered with the device BUSY.
StartDma(d, fault) ==
  CASE "DMA" \notin d.flags -> Fail(d, "DMA_DISABLED")
    [] "DMA" \in d.flags /\ ~DmaReady(d) -> Fail(d, "DMA_BAD_QUEUE")
    [] OTHER -> ConsumeSubmissionQueue(d, fault)

\* A write to REG_DMA_SQ_TAIL.  The tail is stored even when the device is in
\* a state that rejects the job.
Doorbell(d, tail, fault) ==
  LET e == [d EXCEPT !.sq_tail = tail] IN
  IF Legal(e, "SUBMIT_JOB") THEN StartDma(Enter(e, "SUBMIT_JOB"), fault) ELSE e

\* Does the doorbell run the DMA engine (and so write the completion ring)?
RunsDma(d) == Legal(d, "SUBMIT_JOB") /\ DmaReady(d)

RingDoorbell(tail) ==
  LET d == [dev EXCEPT !.sq_tail = tail] IN
  \E fault \in (IF RunsDma(d) THEN Faults(d) ELSE {NoFault}) :
    /\ dev' = Doorbell(dev, tail, fault)
    /\ cq' = IF RunsDma(d) THEN Completions(d, fault) ELSE cq
-----------------------------------------------------------------------------
(***************************************************************************)
(* The legacy interface: action_do_legacy_job, entered BUSY.               *)
(***************************************************************************)
LegacyJob(d) ==
  LET out == Execute([op |-> d.cmd, a |-> d.a, b |-> d.b]) IN
  CASE d.cmd = OpCount -> Fail(d, "CMD_UNKNOWN")
    [] d.cmd # OpCount /\ out.status # "SUCCESS" -> Fail(d, "CMD_EXEC")
    [] OTHER -> Done([d EXCEPT !.a = out.result, !.cmd = OpCount], "CMD_DONE")

WriteCmd(d, op) ==
  LET e == [d EXCEPT !.cmd = op] IN
  IF Legal(e, "SUBMIT_CMD") THEN LegacyJob(Enter(e, "SUBMIT_CMD")) ELSE e

(***************************************************************************)
(* The other registers of bar.c.  Both cause registers clear on read.      *)
(***************************************************************************)
WriteArgs(d, a, b) == [d EXCEPT !.a = a, !.b = b]
WriteFlags(d, fl) == [d EXCEPT !.flags = fl]
WriteBases(d) == [d EXCEPT !.bases = TRUE]
ReadIrqCause(d) == [d EXCEPT !.irq_cause = {}]
ReadErrorCause(d) == [d EXCEPT !.error_cause = {}]

(***************************************************************************)
(* A function-level reset or a lost connection: RESET, then INIT.  Neither *)
(* cause register is touched.                                              *)
(***************************************************************************)
ActionReset(d) ==
  [d EXCEPT !.flags = {}, !.a = 0, !.b = 0, !.cmd = OpCount,
            !.bases = FALSE, !.sq_head = 0, !.sq_tail = 0, !.cq_tail = 0]

ActionInit(d) == [d EXCEPT !.sq_head = 0, !.sq_tail = 0, !.cq_tail = 0]

OnDeviceReset(d) ==
  IF Legal(d, "RESET")
    THEN ActionInit(Enter(ActionReset(Enter(d, "RESET")), "INIT"))
    ELSE d
-----------------------------------------------------------------------------
(***************************************************************************)
(* The device under any driver.                                            *)
(***************************************************************************)
\* MATH_DEVICE_DEFAULT_INIT, then the INIT that realize_and_connect dispatches.
PowerOn ==
  ActionInit(
    [state |-> NextState("RESET", "INIT"), flags |-> {}, irq_cause |-> {},
     error_cause |-> {}, cmd |-> "ADD", a |-> 0, b |-> 0,
     bases |-> FALSE, sq_head |-> 0, sq_tail |-> 0, cq_tail |-> 0, msi |-> FALSE])

\* dma_alloc_coherent hands out zeroed rings.
ZeroSqEntry(id) == [cmd_id |-> id, cmd |-> [op |-> "ADD", a |-> 0, b |-> 0]]
ZeroCqEntry(id) ==
  [cmd_id |-> id, out |-> [status |-> "SUCCESS", result |-> 0], valid |-> FALSE]

DevInit ==
  /\ dev = PowerOn
  /\ \E id \in CmdIds :
       /\ sq = [j \in Slots |-> ZeroSqEntry(id)]
       /\ cq = [j \in Slots |-> ZeroCqEntry(id)]

\* Guest memory and the interrupt line.
GuestFillsEntry ==
  /\ \E j \in Slots, id \in CmdIds, r \in Requests :
       sq' = [sq EXCEPT ![j] = [cmd_id |-> id, cmd |-> r]]
  /\ UNCHANGED <<dev, cq>>

GuestTakesMsi ==
  /\ dev.msi
  /\ dev' = [dev EXCEPT !.msi = FALSE]
  /\ UNCHANGED <<sq, cq>>

\* Register accesses.
MmioDoorbell == (\E tail \in Slots : RingDoorbell(tail)) /\ UNCHANGED sq

MmioWriteArgs ==
  /\ \E r \in Requests : dev' = WriteArgs(dev, r.a, r.b)
  /\ UNCHANGED <<sq, cq>>

MmioWriteCmd ==
  /\ \E op \in {r.op : r \in Requests} \cup {OpCount} :
       /\ ~Traps([op |-> op, a |-> dev.a, b |-> dev.b])
       /\ dev' = WriteCmd(dev, op)
  /\ UNCHANGED <<sq, cq>>

MmioWriteFlags ==
  /\ \E fl \in SUBSET Flags : dev' = WriteFlags(dev, fl)
  /\ UNCHANGED <<sq, cq>>

MmioWriteBases ==
  /\ dev' = WriteBases(dev)
  /\ UNCHANGED <<sq, cq>>

MmioReadCauses ==
  /\ \/ dev' = ReadIrqCause(dev)
     \/ dev' = ReadErrorCause(dev)
  /\ UNCHANGED <<sq, cq>>

DeviceReset ==
  /\ dev' = OnDeviceReset(dev)
  /\ UNCHANGED <<sq, cq>>

DevNext ==
  \/ GuestFillsEntry \/ GuestTakesMsi
  \/ MmioDoorbell \/ MmioWriteArgs \/ MmioWriteCmd \/ MmioWriteFlags
  \/ MmioWriteBases \/ MmioReadCauses \/ DeviceReset

DevSpec == DevInit /\ [][DevNext]_devVars
-----------------------------------------------------------------------------
(***************************************************************************)
(* Whatever the driver does, no handler leaves the device BUSY or in       *)
(* RESET: every nested dispatch is legal.  The driver relies on it: its    *)
(* interrupt handler drops the cause it has just read when the status      *)
(* register says BUSY or RESET (irq.c:133-137).                            *)
(***************************************************************************)
RestsReadyOrError == dev.state \in {"READY", "ERROR"}

(***************************************************************************)
(* A device that is READY has executed everything it was told of: no entry *)
(* is left between its head and its tail, so no later doorbell can run an  *)
(* entry of an earlier one.  A doorbell rejected in ERROR does leave       *)
(* entries behind; the reset that leads out of ERROR forgets them.         *)
(***************************************************************************)
ReadyMeansDrained == dev.state = "READY" => dev.sq_head = dev.sq_tail

(***************************************************************************)
(* The completion of a command has the index of its submission (device.c:  *)
(* 103: "This will be the same in completion queue"): between jobs the two *)
(* indices of the device are equal.  A failed write sets them apart, and   *)
(* no job runs before the reset that makes them equal again.               *)
(***************************************************************************)
SameIndex == dev.state = "READY" => dev.sq_head = dev.cq_tail

(***************************************************************************)
(* The device enters ERROR only with a cause in both cause registers and,  *)
(* if the driver enabled interrupts, with an MSI on its way (fsm.c:119:    *)
(* "Error cause must be set before calling this function").  The driver's  *)
(* BUG_ON(err_cause == ERR_CAUSE_NOERR) depends on it (irq.c:22).          *)
(***************************************************************************)
ErrorsAreAnnounced ==
  [][dev.state # "ERROR" /\ dev'.state = "ERROR" =>
       /\ dev'.error_cause # {}
       /\ "ERROR" \in dev'.irq_cause
       /\ "INT" \in dev.flags => dev'.msi]_devVars
=============================================================================
