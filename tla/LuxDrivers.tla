------------------------------- MODULE LuxDrivers -------------------------------
(***************************************************************************)
(* The lux drivers as modules that come and go: lux-core.c binds the two   *)
(* PCI functions and spawns their platform devices, on which lux-irq.c,    *)
(* lux-timer-core.c, lux-cdev.c, lux-gpio-chip.c and one of lux-led.c and  *)
(* lux-led-mc.c register what they offer; processes open and close the     *)
(* character device meanwhile, and interrupts arrive.                      *)
(*                                                                         *)
(* One administrator loads and unloads.  What an insmod or rmmod has still *)
(* to do is `todo`, a sequence of instructions; a probe or a remove is a   *)
(* sequence too, put before what follows it.  An instruction that fails    *)
(* runs the error path of its probe instead of the rest of it.             *)
(*                                                                         *)
(* The driver core, module loader and managed resources are the kernel's:  *)
(* a driver that is registered probes the matching devices, and a device   *)
(* that is added the matching driver; neither a failed probe nor one that  *)
(* came too early is tried again; managed resources go, last first, after  *)
(* a failed probe or a remove.  An instruction is <<operation, object>>.   *)
(***************************************************************************)
EXTENDS Naturals, Sequences, SequencesExt

CONSTANTS
  Users,      \* processes that open /dev/lux
  MayFail,    \* registrations and devices whose creation may fail
  MaxLoads    \* insmod calls of a behaviour

\* Failures after which lux-irq and lux-timer go on with, or leave behind, what is broken,
\* or lux-irq's domain goes while a file may be opened: see the README.  Registering the
\* clockevent returns nothing.
Unrecovered == {"domain", "mappings", "clocksource", "misc", "lux-timer"}
Infallible == {"clockevent"}

ASSUME DriversAssumption ==
  Users # {} /\ MayFail \cap (Unrecovered \cup Infallible) = {} /\ MaxLoads \in Nat

VARIABLES
  drivers,    \* drivers registered, by their names
  devices,    \* devices that exist: functions f0 and f1, and platform devices
  bound,      \* the driver each device is bound to
  reg,        \* what is registered, requested or mapped
  todo,       \* instructions of the insmod or rmmod under way
  loads,      \* insmod calls so far
  chip,       \* the lux_irq_chip structures: n made so far, that of the chained
              \* handler, those whose irq_domain is NULL; `known`: lux_function's
              \* and the global pointer to the domain are set
  hw,         \* REG_IRQ_STATUS and REG_IRQ_MASK
  cpu,        \* the chained handler: its chip and the lines it has yet to dispatch
  pc,         \* where each process is with its file
  held,       \* the LED lines that lux-cdev has requested
  irq_en      \* LED_CTRL_IRQ_EN

kernel == <<drivers, devices, bound, reg, todo, loads, chip>>
files == <<pc, held, irq_en>>
vars == <<kernel, hw, cpu, files>>

Lines == {"LED", "LED_ERR", "TIMER"}
NoDriver == "none"

Get(r) == <<"get", r>>
Put(r) == <<"put", r>>
Add(d) == <<"add", d>>
Del(d) == <<"del", d>>
Register(m) == <<"register", m>>
Mask(lines) == <<"mask", lines>>
Forget == <<"forget", "domain">>
Bound(d, m) == <<"bound", d, m>>
Unbound(d) == <<"unbound", d>>
-----------------------------------------------------------------------------
(***************************************************************************)
(* lux-core.                                                               *)
(***************************************************************************)
\* Mutant of F1Cells: the timer first.
F1CellsSwapped == <<"lux-timer", "lux-irq">>

F0Cells == <<"lux-gpio-chip", "lux-chardev">>
F1Cells == <<"lux-irq", "lux-timer">>

Cells(f) == IF f = "f0" THEN F0Cells ELSE F1Cells
Bars(f) == IF f = "f0" THEN "f0-bars" ELSE "f1-bars"
AddAll(cells) == [i \in DOMAIN cells |-> Add(cells[i])]
DelAll(cells) == [i \in DOMAIN cells |-> Del(Reverse(cells)[i])]

\* Enables the function, claims and maps its BARs, spawns its platform devices.
CoreProbe(f) == <<Get(Bars(f))>> \o AddAll(Cells(f))

\* There is no remove: managed resources only.
CoreRemove(f) == DelAll(Cells(f)) \o <<Put(Bars(f))>>
-----------------------------------------------------------------------------
(***************************************************************************)
(* The probes and removes of the platform drivers.  The class devices of   *)
(* all LEDs are one registration, and so are their pins.                   *)
(***************************************************************************)
\* Mutant of IrqProbe: leaves the lines as it finds them.
IrqProbeUnmasked == <<Get("vector"), Get("domain"), Get("mappings"), Mask({})>>

\* The chained handler is set with the vector.
IrqProbe == <<Mask(Lines), Get("vector"), Get("domain"), Get("mappings"), Mask({})>>
IrqRemove == <<Forget, Mask({}), Put("handler"), Put("mappings"), Put("domain"), Put("vector")>>

TimerProbe == <<Get("TIMER"), Get("workqueue"), Get("clocksource"), Get("clockevent"), Get("misc")>>

\* The line is managed.
TimerRemove ==
  <<Put("workqueue"), Put("misc"), Put("clocksource"), Put("clockevent"), Put("TIMER")>>

CdevProbe == <<Get("region"), Get("cdev"), Get("node")>>
CdevRemove == <<Put("node"), Put("region"), Put("cdev")>>

GpioProbe == <<Get("chip"), Get("lookup"), Add("lux-leds")>>
GpioRemove == <<Del("lux-leds"), Put("lookup"), Put("chip")>>

LedProbe == <<Get("pins"), Get("leds")>>
LedRemove == <<Put("leds"), Put("pins")>>

LedMcProbe == <<Get("remapped"), Get("mcleds")>>
LedMcRemove == <<Put("mcleds"), Put("remapped")>>

ProbeOf(d, m) ==
  CASE m = "lux-core" -> CoreProbe(d)
    [] m = "lux-irq" -> IrqProbe
    [] m = "lux-timer" -> TimerProbe
    [] m = "lux-chardev" -> CdevProbe
    [] m = "lux-gpio-chip" -> GpioProbe
    [] m = "lux-led" -> LedProbe
    [] m = "lux-led-mc" -> LedMcProbe

RemoveOf(d, m) ==
  CASE m = "lux-core" -> CoreRemove(d)
    [] m = "lux-irq" -> IrqRemove
    [] m = "lux-timer" -> TimerRemove
    [] m = "lux-chardev" -> CdevRemove
    [] m = "lux-gpio-chip" -> GpioRemove
    [] m = "lux-led" -> LedRemove
    [] m = "lux-led-mc" -> LedMcRemove

CellUndo(f, d) ==
  LET k == SelectInSeq(Cells(f), LAMBDA c : c = d)
  IN  DelAll(SubSeq(Cells(f), 1, k - 1)) \o <<Put(Bars(f))>>

\* Mutant of Undo: lux-cdev's cleanup forgets that the cdev has been added.
UndoForgetsCdev(i) ==
  CASE i \in {Add(d) : d \in ToSet(F0Cells)} -> CellUndo("f0", i[2])
    [] i \in {Add(d) : d \in ToSet(F1Cells)} -> CellUndo("f1", i[2])
    [] i \in {Get("cdev"), Get("node")} -> <<Put("region")>>
    [] i = Register("lux-chardev") -> <<Put("class")>>
    [] i = Get("lookup") -> <<Put("chip")>>
    [] i = Add("lux-leds") -> <<Put("lookup"), Put("chip")>>
    [] i = Get("workqueue") -> <<Put("TIMER")>>
    [] i = Get("leds") -> <<Put("pins")>>
    [] i = Get("mcleds") -> <<Put("remapped")>>
    [] OTHER -> <<>>

\* What the error path of instruction i undoes, the managed resources last.
Undo(i) ==
  CASE i \in {Add(d) : d \in ToSet(F0Cells)} -> CellUndo("f0", i[2])
    [] i \in {Add(d) : d \in ToSet(F1Cells)} -> CellUndo("f1", i[2])
    [] i = Get("cdev") -> <<Put("region")>>
    [] i = Get("node") -> <<Put("region"), Put("cdev")>>
    [] i = Register("lux-chardev") -> <<Put("class")>>
    [] i = Get("lookup") -> <<Put("chip")>>
    [] i = Add("lux-leds") -> <<Put("lookup"), Put("chip")>>
    [] i = Get("workqueue") -> <<Put("TIMER")>>
    [] i = Get("leds") -> <<Put("pins")>>
    [] i = Get("mcleds") -> <<Put("remapped")>>
    [] OTHER -> <<>>
-----------------------------------------------------------------------------
(***************************************************************************)
(* The kernel: driver core and module loader.                              *)
(***************************************************************************)
PlatformDevice(m) == IF m \in {"lux-led", "lux-led-mc"} THEN "lux-leds" ELSE m
DevicesOf(m) == IF m = "lux-core" THEN {"f0", "f1"} ELSE {PlatformDevice(m)}

Modules ==
  {"lux-core", "lux-irq", "lux-timer", "lux-chardev", "lux-gpio-chip", "lux-led", "lux-led-mc"}
Devices == UNION {DevicesOf(m) : m \in Modules}
ParentOf == [d \in Devices \ {"f0", "f1"} |->
               IF d \in ToSet(F0Cells) THEN "f0" ELSE IF d \in ToSet(F1Cells) THEN "f1" ELSE "lux-gpio-chip"]

Bind(d, m) == ProbeOf(d, m) \o <<Bound(d, m)>>
Unbind(d) == IF bound[d] = NoDriver THEN <<>> ELSE RemoveOf(d, bound[d]) \o <<Unbound(d)>>

\* What binds m's devices that no driver has; what unbinds the devices m has, last first.
BindFree(d, m) == IF d \in devices /\ bound[d] = NoDriver THEN Bind(d, m) ELSE <<>>
UnbindOwn(d, m) == IF bound[d] = m THEN Unbind(d) ELSE <<>>

BindAll(m) == IF m = "lux-core" THEN BindFree("f0", m) \o BindFree("f1", m)
              ELSE BindFree(PlatformDevice(m), m)
UnbindAll(m) == IF m = "lux-core" THEN UnbindOwn("f1", m) \o UnbindOwn("f0", m)
                ELSE UnbindOwn(PlatformDevice(m), m)

\* The driver that probes d when it is added: one of two may match lux-leds.
DriverFor(d) == {m \in drivers : d \in DevicesOf(m)}

\* module_init, and module_exit after the driver is unregistered.
InitOf(m) == IF m = "lux-chardev" THEN <<Get("class"), Register(m)>> ELSE <<Register(m)>>
ExitOf(m) == IF m = "lux-chardev" THEN <<Put("class")>> ELSE <<>>

\* Symbols and references that make the kernel refuse to unload m.
InUse(m) ==
  \/ m = "lux-irq" /\ "lux-chardev" \in drivers
  \/ m = "lux-chardev" /\ \E u \in Users : pc[u] # "closed"
  \/ m = "lux-gpio-chip" /\ "pins" \in reg

\* What the kernel does not refuse and no driver survives.
Careless(m) ==
  \/ m = "lux-core" /\ \E u \in Users : pc[u] # "closed"
  \/ m = "lux-irq" /\ bound["lux-timer"] # NoDriver

Insmod(m) ==
  /\ todo = <<>>
  /\ m \notin drivers
  /\ m = "lux-chardev" => "lux-irq" \in drivers
  /\ loads < MaxLoads
  /\ loads' = loads + 1
  /\ todo' = InitOf(m)
  /\ UNCHANGED <<drivers, devices, bound, reg, chip, hw, cpu, files>>

Rmmod(m) ==
  /\ todo = <<>>
  /\ m \in drivers
  /\ ~InUse(m) /\ ~Careless(m)
  /\ drivers' = drivers \ {m}
  /\ todo' = UnbindAll(m) \o ExitOf(m)
  /\ UNCHANGED <<devices, bound, reg, loads, chip, hw, cpu, files>>
-----------------------------------------------------------------------------
(***************************************************************************)
(* The instructions.                                                       *)
(***************************************************************************)
Doing(op) == todo # <<>> /\ Head(todo)[1] = op
Object == Head(todo)[2]

\* request_irq unmasks the line, free_irq masks it.
Unmasked(lines) == [hw EXCEPT !.mask = @ \ lines]
Masked(lines) == [hw EXCEPT !.mask = @ \cup lines]

\* No domain for the timer's line, no pin for the LEDs.
Unavailable(r) ==
  \/ r = "TIMER" /\ (~chip.known \/ "mappings" \notin reg)
  \/ r = "pins" /\ ~({"chip", "lookup"} \subseteq reg)

DoGet ==
  /\ Doing("get")
  /\ ~Unavailable(Object)
  /\ todo' = Tail(todo)
  /\ reg' = reg \cup {Object}
  /\ hw' = Unmasked({Object} \cap Lines)
  /\ chip' = CASE Object = "vector" ->
                     [chip EXCEPT !.n = @ + 1, !.handler = chip.n + 1, !.null = @ \cup {chip.n + 1}]
               [] Object = "domain" -> [chip EXCEPT !.null = @ \ {chip.n}, !.known = TRUE]
               [] OTHER -> chip
  /\ UNCHANGED <<drivers, devices, bound, loads, cpu, files>>

DoPut ==
  /\ Doing("put")
  /\ todo' = Tail(todo)
  /\ reg' = reg \ {Object}
  /\ hw' = Masked({Object} \cap Lines)
  /\ chip' = IF Object = "handler" THEN [chip EXCEPT !.handler = 0] ELSE chip
  /\ UNCHANGED <<drivers, devices, bound, loads, cpu, files>>

DoMask ==
  /\ Doing("mask")
  /\ todo' = Tail(todo)
  /\ hw' = [hw EXCEPT !.mask = Object]
  /\ UNCHANGED <<drivers, devices, bound, reg, loads, chip, cpu, files>>

DoForget ==
  /\ Doing("forget")
  /\ todo' = Tail(todo)
  /\ chip' = [chip EXCEPT !.known = FALSE]
  /\ UNCHANGED <<drivers, devices, bound, reg, loads, hw, cpu, files>>

DoRegister ==
  /\ Doing("register")
  /\ drivers' = drivers \cup {Object}
  /\ todo' = BindAll(Object)
  /\ UNCHANGED <<devices, bound, reg, loads, chip, hw, cpu, files>>

DoAdd ==
  /\ Doing("add")
  /\ devices' = devices \cup {Object}
  /\ IF DriverFor(Object) = {} THEN todo' = Tail(todo)
     ELSE \E m \in DriverFor(Object) : todo' = Bind(Object, m) \o Tail(todo)
  /\ UNCHANGED <<drivers, bound, reg, loads, chip, hw, cpu, files>>

DoDel ==
  /\ Doing("del")
  /\ IF bound[Object] # NoDriver
     THEN todo' = Unbind(Object) \o todo /\ UNCHANGED devices
     ELSE todo' = Tail(todo) /\ devices' = devices \ {Object}
  /\ UNCHANGED <<drivers, bound, reg, loads, chip, hw, cpu, files>>

DoBound ==
  /\ Doing("bound")
  /\ todo' = Tail(todo)
  /\ bound' = [bound EXCEPT ![Object] = Head(todo)[3]]
  /\ UNCHANGED <<drivers, devices, reg, loads, chip, hw, cpu, files>>

DoUnbound ==
  /\ Doing("unbound")
  /\ todo' = Tail(todo)
  /\ bound' = [bound EXCEPT ![Object] = NoDriver]
  /\ UNCHANGED <<drivers, devices, reg, loads, chip, hw, cpu, files>>

\* The rest of the probe, or of the module's init, is not executed.
Fail ==
  /\ \/ todo # <<>> /\ Head(todo)[1] \in {"get", "add", "register"} /\ Object \in MayFail
     \/ Doing("get") /\ Unavailable(Object)
  /\ LET end == SelectInSeq(todo, LAMBDA i : i[1] = "bound")
     IN  todo' = Undo(Head(todo)) \o
                   (IF end = 0 THEN <<>>
                    ELSE <<Unbound(todo[end][2])>> \o SubSeq(todo, end + 1, Len(todo)))
  /\ UNCHANGED <<drivers, devices, bound, reg, loads, chip, hw, cpu, files>>

Step == \/ DoGet \/ DoPut \/ DoMask \/ DoForget \/ DoRegister \/ DoAdd \/ DoDel \/ DoBound
        \/ DoUnbound \/ Fail
-----------------------------------------------------------------------------
(***************************************************************************)
(* Interrupts.  The handler's steps on one line are in LuxLed and          *)
(* LuxTimer; here a dispatch is one.  Its domain may be gone: what it then *)
(* does is undefined, and the model says that it returns.                  *)
(***************************************************************************)
\* The LED line rises while the device has LED_CTRL_IRQ_EN; the timer while it has a driver.
Raise(line) ==
  /\ \/ line = "LED" /\ irq_en
     \/ line = "TIMER" /\ bound["lux-timer"] # NoDriver
  /\ hw' = [hw EXCEPT !.status = @ \cup {line}]
  /\ UNCHANGED <<kernel, cpu, files>>

\* lux_irq_chained_handler up to its loop.
ChainedHandler ==
  /\ "vector" \in reg /\ chip.handler # 0
  /\ cpu.pending = {}
  /\ hw.status \ hw.mask # {}
  /\ cpu' = [chip |-> chip.handler, pending |-> hw.status \ hw.mask]
  /\ UNCHANGED <<kernel, hw, files>>

\* A line without a handler stays masked.  The loop's order is left open.
Dispatch(line) ==
  /\ line \in cpu.pending
  /\ cpu' = [cpu EXCEPT !.pending = @ \ {line}]
  /\ hw' = IF "mappings" \notin reg THEN hw
           ELSE [hw EXCEPT !.status = @ \ {line}, !.mask = IF line \in reg \cup held THEN @ ELSE @ \cup {line}]
  /\ UNCHANGED <<kernel, files>>

(***************************************************************************)
(* lux_smart_open and lux_smart_release.  Lines are freed by device, not   *)
(* by file.                                                                *)
(***************************************************************************)
\* With no node there is nothing to open; with no domain, EAGAIN; EBUSY without mappings.
Open(u) ==
  /\ pc[u] = "closed"
  /\ "node" \in reg
  /\ {"lux-core", "lux-chardev"} \subseteq drivers
  /\ chip.known /\ "mappings" \in reg
  /\ pc' = [pc EXCEPT ![u] = "request"]
  /\ UNCHANGED <<kernel, hw, cpu, held, irq_en>>

Request(u, line, from, to) ==
  /\ pc[u] = from
  /\ line \notin held
  /\ held' = held \cup {line}
  /\ hw' = Unmasked({line})
  /\ pc' = [pc EXCEPT ![u] = to]
  /\ UNCHANGED <<kernel, cpu, irq_en>>

\* free_irq, which masks the line if it has been requested.
Free(u, line, from, to) ==
  /\ pc[u] = from
  /\ held' = held \ {line}
  /\ hw' = Masked({line})
  /\ pc' = [pc EXCEPT ![u] = to]
  /\ UNCHANGED <<kernel, cpu, irq_en>>

RequestLed(u) == Request(u, "LED", "request", "request_err")
RequestLedErr(u) == Request(u, "LED_ERR", "request_err", "enable")

\* The line is taken, or request_irq fails otherwise.
RequestLedFails(u) ==
  /\ pc[u] = "request"
  /\ "LED" \in held \cup MayFail
  /\ pc' = [pc EXCEPT ![u] = "closed"]
  /\ UNCHANGED <<kernel, hw, cpu, held, irq_en>>

\* Mutant of RequestLedErrFails: returns without freeing the first line.
RequestLedErrFailsLeaky(u) ==
  /\ pc[u] = "request_err"
  /\ "LED_ERR" \in held \cup MayFail
  /\ pc' = [pc EXCEPT ![u] = "closed"]
  /\ UNCHANGED <<kernel, hw, cpu, held, irq_en>>

RequestLedErrFails(u) ==
  /\ "LED_ERR" \in held \cup MayFail
  /\ Free(u, "LED", "request_err", "closed")

Control(u, on, from, to) ==
  /\ pc[u] = from
  /\ irq_en' = on
  /\ pc' = [pc EXCEPT ![u] = to]
  /\ UNCHANGED <<kernel, hw, cpu, held>>

Enable(u) == Control(u, TRUE, "enable", "open")
Release(u) == Free(u, "LED", "open", "free_err")
ReleaseErr(u) == Free(u, "LED_ERR", "free_err", "disable")
Disable(u) == Control(u, FALSE, "disable", "closed")

File(u) == \/ Open(u) \/ RequestLed(u) \/ RequestLedFails(u) \/ RequestLedErr(u)
           \/ RequestLedErrFails(u) \/ Enable(u) \/ Release(u) \/ ReleaseErr(u) \/ Disable(u)

DriversInit ==
  /\ drivers = {} /\ devices = {"f0", "f1"} /\ bound = [d \in Devices |-> NoDriver]
  /\ reg = {} /\ todo = <<>> /\ loads = 0
  /\ chip = [n |-> 0, handler |-> 0, null |-> {}, known |-> FALSE]
  /\ hw = [status |-> {}, mask |-> {}]
  /\ cpu = [chip |-> 0, pending |-> {}]
  /\ pc = [u \in Users |-> "closed"] /\ held = {} /\ irq_en = FALSE

DriversNext ==
  \/ \E m \in Modules : Insmod(m) \/ Rmmod(m)
  \/ Step
  \/ \E line \in Lines : Raise(line) \/ Dispatch(line)
  \/ ChainedHandler
  \/ \E u \in Users : File(u)

DriversSpec == DriversInit /\ [][DriversNext]_vars
-----------------------------------------------------------------------------
OwnerOf(r) ==
  CASE r = "f0-bars" -> "f0"
    [] r = "f1-bars" -> "f1"
    [] r \in {"vector", "domain", "mappings"} -> "lux-irq"
    [] r \in {"TIMER", "workqueue", "clocksource", "clockevent", "misc"} -> "lux-timer"
    [] r \in {"region", "cdev", "node"} -> "lux-chardev"
    [] r \in {"chip", "lookup"} -> "lux-gpio-chip"
    [] OTHER -> "lux-leds"

\* A probe, error path or remove of d is under way, or d has a driver.
Attended(d) ==
  \/ bound[d] # NoDriver
  \/ \E i \in ToSet(todo) : i[1] \in {"bound", "unbound"} /\ i[2] = d

\* Whatever is loaded, unloaded or fails, in any order, nothing stays behind that no
\* driver will take back: every registration is that of a device a driver attends to, the
\* class that of the character driver's module, a platform device has its parent, and a
\* device at rest no driver that has been unloaded.
NothingLeftBehind ==
  /\ \A r \in reg \ {"class"} : Attended(OwnerOf(r))
  /\ "class" \in reg => "lux-chardev" \in drivers \/ todo # <<>>
  /\ \A d \in devices \ {"f0", "f1"} : Attended(ParentOf[d])
  /\ todo = <<>> => \A d \in Devices : bound[d] \in drivers \cup {NoDriver}

\* What is in use exists: a requested line has its domain and mapping (lux-irq goes after
\* those who hold lines), the pointer to the domain a domain, the LEDs' pins their chip and
\* lookup table, the device node its class (lux-cdev.c:457), and whatever a platform device
\* has registered the mapped BARs of its function.
NothingDangles ==
  /\ held # {} \/ "TIMER" \in reg => {"domain", "mappings"} \subseteq reg
  /\ chip.known => "domain" \in reg
  /\ "pins" \in reg => {"chip", "lookup"} \subseteq reg
  /\ "node" \in reg => "class" \in reg
  /\ reg \cap {"domain", "TIMER", "misc"} # {} => "f1-bars" \in reg
  /\ held # {} \/ reg \cap {"chip", "node", "remapped"} # {} => "f0-bars" \in reg

\* The chained handler is in place before its chip has a domain (lux-irq.c:163, 174), and a
\* line may have been left pending: still no interrupt is dispatched to a NULL domain, as
\* the probe masks all lines first ("you don't want an interrupt to fire now").
NeverDispatchedToNull == cpu.pending # {} => cpu.chip \notin chip.null

\* A line is requested iff one process, and no other, is at one of the places.
HeldAt(line, places) ==
  LET holders == {u \in Users : pc[u] \in places}
  IN  IF line \in held THEN \E u \in Users : holders = {u} ELSE holders = {}

\* Whichever opens and closes overlap, and whatever fails: both lines are the file's while
\* one is open, at most one is, a line that is held is held by somebody who will free it, and
\* the device's LED interrupts are enabled only while somebody will disable them.
LinesHaveAFile ==
  /\ HeldAt("LED", {"request_err", "enable", "open"})
  /\ HeldAt("LED_ERR", {"enable", "open", "free_err"})
  /\ irq_en => \E u \in Users : pc[u] \in {"open", "free_err", "disable"}
================================================================================
