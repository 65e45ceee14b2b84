---------------------------- MODULE MathDeviceProofs ----------------------------
(***************************************************************************)
(* What holds of the mathaccel device for every ring size, word width and  *)
(* set of commands, under any driver that keeps its tail inside the ring.  *)
(***************************************************************************)
EXTENDS MathDevice, TLAPS

\* Ring arithmetic: Plus and Dist stay in range and undo one another.
LEMMA RingArithmetic ==
  ASSUME NEW i \in Slots, NEW j \in Slots
  PROVE  /\ Dist(i, j) \in 0 .. (RingSize - 1)
         /\ Plus(i, Dist(i, j)) = j
         /\ \A k \in 0 .. RingSize : Plus(i, k) \in Slots
  BY RingAssumption DEF Slots, Plus, Dist

LEMMA WrapType == ASSUME NEW x \in Int PROVE Wrap(x) \in Int
  BY HalfAssumption DEF Wrap

LEMMA TruncDivType ==
  ASSUME NEW x \in Int, NEW y \in Int, y # 0 PROVE TruncDiv(x, y) \in Int
<1>1. Abs(x) \in Nat /\ Abs(y) \in Nat \ {0}
  BY DEF Abs
<1>2. Abs(x) \div Abs(y) \in Int
  BY <1>1
<1> QED BY <1>2 DEF TruncDiv

\* Whatever a register holds, executing it yields a completion.
LEMMA ExecuteType ==
  ASSUME NEW op \in Ops \cup {OpCount}, NEW a \in Int, NEW b \in Int
  PROVE  Execute([op |-> op, a |-> a, b |-> b]) \in Outcomes
<1> DEFINE c == [op |-> op, a |-> a, b |-> b]
<1>1. c.a \in Int /\ c.b \in Int
  OBVIOUS
<1>2. c.a + c.b \in Int /\ c.a - c.b \in Int /\ c.a * c.b \in Int
  BY <1>1
<1>3. /\ Wrap(c.a + c.b) \in Int /\ Wrap(c.a - c.b) \in Int /\ Wrap(c.a * c.b) \in Int
      /\ c.b # 0 => TruncDiv(c.a, c.b) \in Int
  BY <1>1, <1>2, WrapType, TruncDivType
<1> HIDE DEF c
<1>4. Execute(c) \in Outcomes
  BY <1>3 DEF Execute, Outcomes, Statuses
<1> QED BY <1>4 DEF c

LEMMA ExecuteCommand ==
  ASSUME NEW c \in Commands PROVE Execute(c) \in Outcomes
<1>1. /\ c = [op |-> c.op, a |-> c.a, b |-> c.b]
      /\ c.op \in Ops \cup {OpCount} /\ c.a \in Int /\ c.b \in Int
  BY HalfAssumption DEF Commands, Word
<1> QED BY <1>1, ExecuteType
-----------------------------------------------------------------------------
\* The nested dispatch that ends a handler is legal from BUSY: an error leads
\* to ERROR, finished work to READY, and nothing else but causes and MSI moves.
\* What entering ERROR, from d to e, owes the driver.
Announced(d, e) ==
  /\ e.error_cause # {}
  /\ "ERROR" \in e.irq_cause
  /\ "INT" \in d.flags => e.msi

LEMMA FailFromBusy ==
  ASSUME NEW d \in Devices, d.state = "BUSY", NEW cause \in ErrorCauses
  PROVE  Fail(d, cause) \in Devices /\ Fail(d, cause).state = "ERROR" /\ Announced(d, Fail(d, cause))
<1> DEFINE e == [d EXCEPT !.error_cause = @ \cup {cause}]
           f == [Enter(e, "ERROR") EXCEPT !.irq_cause = @ \cup {"ERROR"}]
<1>1. e \in Devices /\ e.state = "BUSY" /\ e.flags = d.flags /\ e.error_cause # {}
  BY DEF Devices
<1>2. Legal(e, "ERROR") /\ Enter(e, "ERROR") = [e EXCEPT !.state = "ERROR"]
  BY <1>1 DEF Legal, NextState, Invalid, Enter
<1>3. /\ f \in Devices /\ f.state = "ERROR"
      /\ f.flags = d.flags /\ f.error_cause # {} /\ "ERROR" \in f.irq_cause
  <2>1. "ERROR" \in States /\ "ERROR" \in IrqCauses
    BY DEF States, IrqCauses
  <2> HIDE DEF e
  <2> QED BY <1>1, <1>2, <2>1 DEF Devices
<1>4. Fail(d, cause) = TriggerIrq(f)
  BY <1>2 DEF Fail
<1> HIDE DEF f
<1>5. TriggerIrq(f) \in Devices /\ TriggerIrq(f).state = "ERROR" /\ Announced(d, TriggerIrq(f))
  BY <1>3 DEF TriggerIrq, Devices, Announced
<1> QED BY <1>4, <1>5

LEMMA DoneFromBusy ==
  ASSUME NEW d \in Devices, d.state = "BUSY", NEW cause \in {"JOB_DONE", "CMD_DONE"}
  PROVE  /\ Done(d, cause) \in Devices
         /\ Done(d, cause).state = "READY"
         /\ Done(d, cause).sq_head = d.sq_head
         /\ Done(d, cause).sq_tail = d.sq_tail
         /\ Done(d, cause).cq_tail = d.cq_tail
         /\ Done(d, cause).flags = d.flags /\ Done(d, cause).bases = d.bases
         /\ Done(d, cause).irq_cause = d.irq_cause \cup {cause}
<1> DEFINE e == [d EXCEPT !.irq_cause = @ \cup {cause}]
           f == Enter(e, cause)
<1>1. /\ e \in Devices /\ e.state = "BUSY"
      /\ e.sq_head = d.sq_head /\ e.sq_tail = d.sq_tail /\ e.cq_tail = d.cq_tail
      /\ e.flags = d.flags /\ e.bases = d.bases /\ e.irq_cause = d.irq_cause \cup {cause}
  BY DEF Devices, IrqCauses
<1> HIDE DEF e
<1>2. Legal(e, cause) /\ f = [e EXCEPT !.state = "READY"]
  BY <1>1 DEF Legal, NextState, Invalid, Enter
<1>3. /\ f \in Devices /\ f.state = "READY"
      /\ f.sq_head = d.sq_head /\ f.sq_tail = d.sq_tail /\ f.cq_tail = d.cq_tail
      /\ f.flags = d.flags /\ f.bases = d.bases /\ f.irq_cause = d.irq_cause \cup {cause}
  BY <1>1, <1>2 DEF Devices, States
<1>4. Done(d, cause) = TriggerIrq(f)
  BY <1>2 DEF Done, e
<1> HIDE DEF f
<1> QED BY <1>3, <1>4 DEF TriggerIrq, Devices
-----------------------------------------------------------------------------
\* What a handler owes its caller: a device at rest.
AtRest(d) ==
  /\ d \in Devices
  /\ d.state \in {"READY", "ERROR"}
  /\ d.state = "READY" => d.sq_head = d.sq_tail /\ d.sq_head = d.cq_tail

\* What any handler does to a device d: the result is at rest, and an error is announced, which
\* no handler does that ends in READY.
Handled(d, e) ==
  /\ AtRest(e)
  /\ d.state # "ERROR" /\ e.state = "ERROR" => Announced(d, e)
  /\ e.state = "READY" /\ "ERROR" \in e.irq_cause => "ERROR" \in d.irq_cause

\* The inductive invariant.
DevInv == AtRest(dev) /\ sq \in [Slots -> SqEntries] /\ cq \in [Slots -> CqEntries]

LEMMA FaultsBounded ==
  ASSUME NEW d \in Devices, NEW fault \in Faults(d)
  PROVE  /\ fault # NoFault => fault.kind \in {"DMA_READ", "DMA_WRITE"}
         /\ Reads(d, fault) \in 0 .. RingSize
         /\ Writes(d, fault) \in 0 .. RingSize
<1>1. Pending(d) \in 0 .. (RingSize - 1)
  BY RingArithmetic DEF Devices, Pending
<1>2. CASE fault = NoFault
  BY <1>1, <1>2, RingAssumption DEF Reads, Writes
<1>3. CASE fault # NoFault
  <2>1. fault \in [kind : {"DMA_READ", "DMA_WRITE"}, at : 0 .. (Pending(d) - 1)]
    BY <1>3 DEF Faults
  <2> QED BY <1>1, <1>3, <2>1, RingAssumption DEF Reads, Writes
<1> QED BY <1>2, <1>3

LEMMA ConsumeAtRest ==
  ASSUME NEW d \in Devices, d.state = "BUSY", d.sq_head = d.cq_tail, NEW fault \in Faults(d)
  PROVE  Handled(d, ConsumeSubmissionQueue(d, fault))
<1> DEFINE e == [d EXCEPT !.sq_head = Plus(@, Reads(d, fault)),
                          !.cq_tail = Plus(@, Writes(d, fault))]
<1>1. /\ Plus(d.sq_head, Reads(d, fault)) \in Slots
      /\ Plus(d.cq_tail, Writes(d, fault)) \in Slots
  BY FaultsBounded, RingArithmetic DEF Devices
<1>2. /\ e \in Devices /\ e.state = "BUSY"
      /\ e.sq_tail = d.sq_tail /\ e.flags = d.flags /\ e.irq_cause = d.irq_cause
      /\ e.sq_head = Plus(d.sq_head, Reads(d, fault))
      /\ e.cq_tail = Plus(d.cq_tail, Writes(d, fault))
  BY <1>1 DEF Devices
<1>3. CASE fault = NoFault
  <2>1. e.sq_head = e.sq_tail /\ e.sq_head = e.cq_tail
    BY <1>2, <1>3, RingArithmetic DEF Reads, Writes, Pending, Devices
  <2>2. ConsumeSubmissionQueue(d, fault) = Done(e, "JOB_DONE")
    BY <1>3 DEF ConsumeSubmissionQueue
  <2> HIDE DEF e
  <2> QED BY <1>2, <2>1, <2>2, DoneFromBusy DEF AtRest, Handled
<1>4. CASE fault # NoFault
  <2>1. ConsumeSubmissionQueue(d, fault) = Fail(e, fault.kind)
    BY <1>4 DEF ConsumeSubmissionQueue
  <2>2. fault.kind \in ErrorCauses
    BY <1>4, FaultsBounded DEF ErrorCauses
  <2> HIDE DEF e
  <2> QED BY <1>2, <2>1, <2>2, FailFromBusy DEF AtRest, Handled, Announced
<1> QED BY <1>3, <1>4

LEMMA CompletionsType ==
  ASSUME NEW d \in Devices, NEW fault \in Faults(d),
         sq \in [Slots -> SqEntries], cq \in [Slots -> CqEntries]
  PROVE  Completions(d, fault) \in [Slots -> CqEntries]
<1> SUFFICES ASSUME NEW j \in Slots
             PROVE  Completions(d, fault)[j] \in CqEntries
  BY DEF Completions
<1> DEFINE entry == sq[Plus(d.sq_head, Dist(d.cq_tail, j))]
<1>1. Dist(d.cq_tail, j) \in 0 .. RingSize
  BY RingArithmetic, RingAssumption DEF Devices
<1>2. entry \in SqEntries
  BY <1>1, RingArithmetic DEF Devices
<1> HIDE DEF entry
<1>3. entry.cmd_id \in CmdIds /\ Execute(entry.cmd) \in Outcomes
  BY <1>2, ExecuteCommand DEF SqEntries
<1>4. [cmd_id |-> entry.cmd_id, out |-> Execute(entry.cmd), valid |-> TRUE] \in CqEntries
  BY <1>3 DEF CqEntries
<1> QED BY <1>4 DEF Completions, entry

LEMMA DoorbellAtRest ==
  ASSUME NEW d \in Devices, AtRest(d), NEW tail \in Slots,
         NEW fault \in (IF RunsDma([d EXCEPT !.sq_tail = tail])
                          THEN Faults([d EXCEPT !.sq_tail = tail]) ELSE {NoFault})
  PROVE  Handled(d, Doorbell(d, tail, fault))
<1> DEFINE e == [d EXCEPT !.sq_tail = tail]
           b == Enter(e, "SUBMIT_JOB")
<1>1. /\ e \in Devices /\ e.state = d.state /\ e.flags = d.flags /\ e.irq_cause = d.irq_cause
      /\ e.sq_head = d.sq_head /\ e.sq_tail = tail /\ e.cq_tail = d.cq_tail
  BY DEF Devices
<1> HIDE DEF e
<1>2. CASE d.state = "ERROR"
  <2>1. Doorbell(d, tail, fault) = e
    BY <1>1, <1>2 DEF Doorbell, Legal, NextState, Invalid, e
  <2> QED BY <1>1, <1>2, <2>1 DEF AtRest, Handled
<1>3. CASE d.state = "READY"
  <2>1. Legal(e, "SUBMIT_JOB") /\ b = [e EXCEPT !.state = "BUSY"]
    BY <1>1, <1>3 DEF Legal, NextState, Invalid, Enter
  <2>2. /\ b \in Devices /\ b.state = "BUSY" /\ b.flags = d.flags /\ b.irq_cause = d.irq_cause
        /\ b.sq_head = b.cq_tail
    BY <1>1, <1>3, <2>1 DEF Devices, States, AtRest
  <2>3. Doorbell(d, tail, fault) = StartDma(b, fault)
    BY <2>1 DEF Doorbell, e
  <2>4. /\ DmaReady(b) <=> DmaReady(e)
        /\ Faults(b) = Faults(e)
    <3>1. /\ b.flags = e.flags /\ b.bases = e.bases
          /\ b.sq_head = e.sq_head /\ b.sq_tail = e.sq_tail
      BY <1>1, <2>1 DEF Devices
    <3> QED BY <3>1 DEF DmaReady, Faults, Pending
  <2>5. CASE DmaReady(b)
    <3>1. fault \in Faults(b)
      BY <2>1, <2>4, <2>5 DEF RunsDma, e
    <3>2. StartDma(b, fault) = ConsumeSubmissionQueue(b, fault)
      BY <2>5 DEF StartDma, DmaReady
    <3> HIDE DEF b
    <3>3. Handled(b, Doorbell(d, tail, fault))
      BY <2>2, <2>3, <3>1, <3>2, ConsumeAtRest
    <3> QED BY <2>2, <3>3 DEF Handled, Announced
  <2>6. CASE ~DmaReady(b)
    <3>1. \/ StartDma(b, fault) = Fail(b, "DMA_DISABLED")
          \/ StartDma(b, fault) = Fail(b, "DMA_BAD_QUEUE")
      BY <2>6 DEF StartDma, DmaReady
    <3>2. {"DMA_DISABLED", "DMA_BAD_QUEUE"} \subseteq ErrorCauses
      BY DEF ErrorCauses
    <3> HIDE DEF b
    <3> QED BY <2>2, <2>3, <3>1, <3>2, FailFromBusy DEF AtRest, Handled, Announced
  <2> QED BY <2>5, <2>6
<1> QED BY <1>2, <1>3 DEF AtRest

LEMMA LegacyJobAtRest ==
  ASSUME NEW d \in Devices, d.state = "BUSY", d.sq_head = d.sq_tail, d.sq_head = d.cq_tail
  PROVE  Handled(d, LegacyJob(d))
<1> DEFINE out == Execute([op |-> d.cmd, a |-> d.a, b |-> d.b])
           e == [d EXCEPT !.a = out.result, !.cmd = OpCount]
<1>1. out \in Outcomes
  BY ExecuteType DEF Devices
<1> HIDE DEF out
<1>2. e \in Devices /\ e.state = "BUSY" /\ e.sq_head = e.sq_tail /\ e.sq_head = e.cq_tail
      /\ e.irq_cause = d.irq_cause
  BY <1>1 DEF Devices, Outcomes
<1>3. {"CMD_UNKNOWN", "CMD_EXEC"} \subseteq ErrorCauses
  BY DEF ErrorCauses
<1>4. \/ LegacyJob(d) = Fail(d, "CMD_UNKNOWN")
      \/ LegacyJob(d) = Fail(d, "CMD_EXEC")
      \/ LegacyJob(d) = Done(e, "CMD_DONE")
  BY DEF LegacyJob, out
<1> HIDE DEF e
<1>5. Handled(d, Fail(d, "CMD_UNKNOWN")) /\ Handled(d, Fail(d, "CMD_EXEC"))
  BY <1>3, FailFromBusy DEF AtRest, Handled
<1>6. Handled(d, Done(e, "CMD_DONE"))
  BY <1>2, DoneFromBusy DEF AtRest, Handled
<1> QED BY <1>4, <1>5, <1>6

LEMMA WriteCmdAtRest ==
  ASSUME NEW d, AtRest(d), NEW op \in Ops \cup {OpCount}
  PROVE  Handled(d, WriteCmd(d, op))
<1> DEFINE e == [d EXCEPT !.cmd = op]
           b == Enter(e, "SUBMIT_CMD")
<1>1. /\ e \in Devices /\ e.state = d.state /\ e.flags = d.flags /\ e.irq_cause = d.irq_cause
      /\ e.sq_head = d.sq_head /\ e.sq_tail = d.sq_tail /\ e.cq_tail = d.cq_tail
  BY DEF AtRest, Devices
<1> HIDE DEF e
<1>2. CASE d.state = "ERROR"
  <2>1. WriteCmd(d, op) = e
    BY <1>1, <1>2 DEF WriteCmd, Legal, NextState, Invalid, e
  <2> QED BY <1>1, <1>2, <2>1 DEF AtRest, Handled
<1>3. CASE d.state = "READY"
  <2>1. Legal(e, "SUBMIT_CMD") /\ b = [e EXCEPT !.state = "BUSY"]
    BY <1>1, <1>3 DEF Legal, NextState, Invalid, Enter
  <2>2. /\ b \in Devices /\ b.state = "BUSY" /\ b.flags = d.flags /\ b.irq_cause = d.irq_cause
        /\ b.sq_head = b.sq_tail /\ b.sq_head = b.cq_tail
    BY <1>1, <1>3, <2>1 DEF Devices, States, AtRest
  <2>3. WriteCmd(d, op) = LegacyJob(b)
    BY <2>1 DEF WriteCmd, e
  <2> HIDE DEF b
  <2>4. Handled(b, WriteCmd(d, op))
    BY <2>2, <2>3, LegacyJobAtRest
  <2> QED BY <2>2, <2>4 DEF Handled, Announced
<1> QED BY <1>2, <1>3 DEF AtRest

\* Whatever values a reset gives the registers, they keep the device's type.
LEMMA ActionResetType ==
  ASSUME NEW d \in Devices
  PROVE  ActionReset(d) \in Devices /\ ActionReset(d).state = d.state
         /\ ActionReset(d).irq_cause = d.irq_cause
<1> DEFINE R(fl, x, op, bases, h) ==
      [d EXCEPT !.flags = fl, !.a = x, !.b = x, !.cmd = op, !.bases = bases,
                !.sq_head = h, !.sq_tail = h, !.cq_tail = h]
<1>1. ASSUME NEW fl \in SUBSET Flags, NEW x \in Int, NEW op \in Ops \cup {OpCount},
             NEW bases \in BOOLEAN, NEW h \in Slots
      PROVE  R(fl, x, op, bases, h) \in Devices /\ R(fl, x, op, bases, h).state = d.state
             /\ R(fl, x, op, bases, h).irq_cause = d.irq_cause
  BY DEF Devices
<1>2. ActionReset(d) = R({}, 0, OpCount, FALSE, 0)
  BY DEF ActionReset
<1> HIDE DEF R
<1>3. {} \in SUBSET Flags /\ OpCount \in Ops \cup {OpCount} /\ FALSE \in BOOLEAN
  OBVIOUS
<1>4. 0 \in Int /\ 0 \in Slots
  BY RingAssumption DEF Slots
<1>5. R({}, 0, OpCount, FALSE, 0) \in Devices /\ R({}, 0, OpCount, FALSE, 0).state = d.state
      /\ R({}, 0, OpCount, FALSE, 0).irq_cause = d.irq_cause
  BY <1>1, <1>3, <1>4, Zenon
<1> QED BY <1>2, <1>5, Zenon

LEMMA ResetAtRest ==
  ASSUME NEW d \in Devices, d.state \in {"READY", "ERROR"}
  PROVE  AtRest(OnDeviceReset(d)) /\ OnDeviceReset(d).state = "READY"
         /\ OnDeviceReset(d).irq_cause = d.irq_cause
<1>1. 0 \in Slots
  BY RingAssumption DEF Slots
<1> DEFINE s == [d EXCEPT !.state = "RESET"]
           r == ActionReset(s)
           i == Enter(r, "INIT")
<1>2. Legal(d, "RESET") /\ Enter(d, "RESET") = s
  BY DEF Legal, NextState, Invalid, Enter
<1>3. r \in Devices /\ r.state = "RESET" /\ r.irq_cause = d.irq_cause
  <2>1. s \in Devices /\ s.state = "RESET" /\ s.irq_cause = d.irq_cause
    BY DEF Devices, States
  <2> HIDE DEF s
  <2> QED BY <2>1, ActionResetType
<1> HIDE DEF r
<1>4. i \in Devices /\ i.state = "READY" /\ i.irq_cause = d.irq_cause
  BY <1>3 DEF Enter, NextState, Devices, States
<1>5. OnDeviceReset(d) = ActionInit(i)
  BY <1>2 DEF OnDeviceReset, r
<1> HIDE DEF i
<1>6. AtRest(ActionInit(i)) /\ ActionInit(i).state = "READY"
      /\ ActionInit(i).irq_cause = i.irq_cause
  BY <1>1, <1>4 DEF AtRest, ActionInit, Devices
<1> QED BY <1>4, <1>5, <1>6
-----------------------------------------------------------------------------
LEMMA PowerOnAtRest ==
  AtRest(PowerOn) /\ PowerOn.state = "READY" /\ PowerOn.irq_cause = {}
<1>1. NextState("RESET", "INIT") = "READY"
  BY DEF NextState
<1>2. 0 \in Slots /\ "READY" \in States /\ "ADD" \in Ops
  BY RingAssumption DEF Slots, States, Ops
<1> DEFINE p == [state |-> NextState("RESET", "INIT"), flags |-> {}, irq_cause |-> {},
                 error_cause |-> {}, cmd |-> "ADD", a |-> 0, b |-> 0, bases |-> FALSE,
                 sq_head |-> 0, sq_tail |-> 0, cq_tail |-> 0, msi |-> FALSE]
<1>3. p \in Devices /\ p.state = "READY" /\ p.irq_cause = {}
  BY <1>1, <1>2 DEF Devices
<1>4. PowerOn = ActionInit(p)
  BY DEF PowerOn
<1> HIDE DEF p
<1> QED BY <1>2, <1>3, <1>4 DEF ActionInit, Devices, AtRest

LEMMA ZeroEntries ==
  \A id \in CmdIds : ZeroSqEntry(id) \in SqEntries /\ ZeroCqEntry(id) \in CqEntries
  BY HalfAssumption
  DEF ZeroSqEntry, ZeroCqEntry, SqEntries, CqEntries, Commands, Outcomes, Word, Ops, Statuses

LEMMA DevInitInv == DevInit => DevInv
  BY PowerOnAtRest, ZeroEntries DEF DevInit, DevInv

LEMMA DevNextInv == DevInv /\ [DevNext]_devVars => DevInv' /\ Handled(dev, dev')
<1> SUFFICES ASSUME DevInv, [DevNext]_devVars PROVE DevInv' /\ Handled(dev, dev')
  OBVIOUS
<1> USE DEF DevInv
<1>0. dev \in Devices
  BY DEF AtRest
<1>1. CASE GuestFillsEntry
  BY <1>1, RequestsAssumption DEF GuestFillsEntry, SqEntries, AtRest, Handled
<1>2. CASE GuestTakesMsi
  BY <1>2 DEF GuestTakesMsi, AtRest, Handled, Devices
<1>3. CASE MmioDoorbell
  <2>1. PICK tail \in Slots : RingDoorbell(tail)
    BY <1>3 DEF MmioDoorbell
  <2> DEFINE d == [dev EXCEPT !.sq_tail = tail]
  <2>2. PICK fault \in (IF RunsDma(d) THEN Faults(d) ELSE {NoFault}) :
          /\ dev' = Doorbell(dev, tail, fault)
          /\ cq' = IF RunsDma(d) THEN Completions(d, fault) ELSE cq
    BY <2>1 DEF RingDoorbell
  <2>3. Handled(dev, dev')
    BY <1>0, <2>2, DoorbellAtRest
  <2>4. d \in Devices
    BY <1>0 DEF Devices
  <2>5. cq' \in [Slots -> CqEntries]
    BY <2>2, <2>4, CompletionsType
  <2> QED BY <1>3, <2>3, <2>5 DEF MmioDoorbell, Handled
<1>4. CASE MmioWriteArgs
  <2>1. PICK r \in Requests : dev' = WriteArgs(dev, r.a, r.b)
    BY <1>4 DEF MmioWriteArgs
  <2>2. r.a \in Int /\ r.b \in Int
    BY RequestsAssumption, HalfAssumption DEF Commands, Word
  <2> QED BY <1>4, <2>1, <2>2 DEF MmioWriteArgs, WriteArgs, AtRest, Handled, Devices
<1>5. CASE MmioWriteCmd
  <2>1. PICK op \in Ops \cup {OpCount} : dev' = WriteCmd(dev, op)
    BY <1>5, RequestsAssumption DEF MmioWriteCmd, Commands
  <2>2. Handled(dev, dev')
    BY <2>1, WriteCmdAtRest
  <2> QED BY <1>5, <2>2 DEF MmioWriteCmd, Handled
<1>6. CASE MmioWriteFlags
  BY <1>6 DEF MmioWriteFlags, WriteFlags, AtRest, Handled, Devices
<1>7. CASE MmioWriteBases
  BY <1>7 DEF MmioWriteBases, WriteBases, AtRest, Handled, Devices
<1>8. CASE MmioReadCauses
  BY <1>8 DEF MmioReadCauses, ReadIrqCause, ReadErrorCause, AtRest, Handled, Devices
<1>9. CASE DeviceReset
  <2>1. AtRest(dev') /\ dev'.state = "READY" /\ dev'.irq_cause = dev.irq_cause
    BY <1>9, ResetAtRest DEF DeviceReset, AtRest
  <2> QED BY <1>9, <2>1 DEF DeviceReset, Handled
<1>10. CASE UNCHANGED devVars
  BY <1>10 DEF devVars, AtRest, Handled
<1> QED
  BY <1>1, <1>2, <1>3, <1>4, <1>5, <1>6, <1>7, <1>8, <1>9, <1>10 DEF DevNext

THEOREM DevInvariant == DevSpec => []DevInv
<1> QED BY DevInitInv, DevNextInv, PTL DEF DevSpec

(***************************************************************************)
(* The device's registers and rings keep their types.                      *)
(***************************************************************************)
THEOREM DevTypeCorrect == DevSpec => []DevTypeOK
<1>1. DevInv => DevTypeOK
  BY DEF DevInv, AtRest, DevTypeOK
<1> QED BY <1>1, DevInvariant, PTL

(***************************************************************************)
(* No handler of the device leaves it BUSY or in RESET (fsm.c:142-167).    *)
(***************************************************************************)
THEOREM DevRests == DevSpec => []RestsReadyOrError
<1>1. DevInv => RestsReadyOrError
  BY DEF DevInv, AtRest, RestsReadyOrError
<1> QED BY <1>1, DevInvariant, PTL

(***************************************************************************)
(* A READY device has executed all it was told of (compute.c:18-38).       *)
(***************************************************************************)
THEOREM DevDrained == DevSpec => []ReadyMeansDrained
<1>1. DevInv => ReadyMeansDrained
  BY DEF DevInv, AtRest, ReadyMeansDrained
<1> QED BY <1>1, DevInvariant, PTL

(***************************************************************************)
(* A READY device has written as many completions as it has read           *)
(* submissions, so that the next pair shares an index (device.c:103).      *)
(***************************************************************************)
THEOREM DevSameIndex == DevSpec => []SameIndex
<1>1. DevInv => SameIndex
  BY DEF DevInv, AtRest, SameIndex
<1> QED BY <1>1, DevInvariant, PTL

(***************************************************************************)
(* Every handler that puts the device into ERROR leaves both causes to     *)
(* read and an MSI under way (fsm.c:119-140).                              *)
(***************************************************************************)
THEOREM DevAnnouncesErrors == DevSpec => ErrorsAreAnnounced
<1>1. DevInv /\ [DevNext]_devVars =>
        [dev.state # "ERROR" /\ dev'.state = "ERROR" => Announced(dev, dev')]_devVars
  BY DevNextInv DEF Handled
<1> QED BY <1>1, DevInvariant, PTL DEF DevSpec, ErrorsAreAnnounced, Announced
=============================================================================
