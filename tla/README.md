# Verification of the emulated devices and their drivers

This directory holds TLA+ specifications of the repository: virtual PCI devices
that run as vfio-user servers beside QEMU (`qemu-devices/`), and the Linux
drivers for them (`qemu-drivers/`).  Paths below are relative to `src/`.

## 1. Inventory

### mathaccel: an accelerator for integer arithmetic

*Device* (`qemu-devices/mathaccel`).  A single-threaded server.  State: `struct
math_device` (FSM state, flags, two cause registers that clear on read, a
command register with two arguments, ring bases and indices).  Operations:
register reads and writes (`bar.c`), function-level reset and loss of connection
(`setup.c`).  A write of `REG_CMD` executes one command; a write of
`REG_DMA_SQ_TAIL` executes all submissions up to the new tail and writes a
completion for each (`compute.c`, `dma.c`).  Each handler dispatches events of
the state machine `fsm.c`, nested inside one another.  Correct when: no handler
leaves the device half-way through the machine; every submission is executed
once; the completion has the outcome C's arithmetic gives; errors are announced.

*Driver* (`qemu-drivers/mathaccel`).  State: `struct mathaccel_device` (ring
indices under `dma_lock`, an xarray of pending calls, the cached interrupt
cause), one kernel thread per device.  Operations: the ioctl
`MATHACCEL_IOC_COMPUTE` (submit, ring the doorbell, sleep), the legacy `read` /
`write`, the MSI's top half, the thread (consume completions, or reset the
function after an error), probe and remove.  Hard: the top half, the thread and
any number of callers interleave; the error handler resets everything while
callers are at work; signals interrupt sleepers.  Correct when: each accepted
call is executed once and returns its own outcome, and nobody sleeps for ever.

### lux: LEDs, GPIO and a timer behind an interrupt controller

*Device* (`qemu-devices/lux`).  One event loop serves two PCI functions and the
socket to the LED grid server, and ticks the clock (`timer.c`) and the interrupt
line (`irq.c`) on each turn.  Function 1 has the timer: a clock, one comparator,
enable bits, a pending bit that stays until acknowledged.  Function 0 has LED
registers (`f0_bar0.c`, `f0_bar1.c`, `led.c`).

*Timer driver* (`qemu-drivers/led-gpio/lux-timer-*.c`).  Multiplexes the one
comparator among subscribers (open files): a red-black tree of deadlines under
`subscribers_lock`, a count of enabled users, a work item that serves expired
alarms and reprograms the comparator.  Hard: file operations of several
subscribers, the work and the device's ticks interleave; registers are read,
modified and written without the lock in several places.  Correct when: an
alarm that is set and enabled rings, in order of deadline, and a subscriber that
closes leaves nothing behind.

*Interrupt chip* (`lux-irq.c`): a chained handler that dispatches three lines
(LED, LED error, timer), with one mask register.  *Character device*
(`lux-cdev.c`): a blocking write that waits for the LED interrupt.  *GPIO chip*
(`lux-gpio-chip.c`) and *LED classes* (`lux-led*.c`): register writes.

*Life cycle* (`lux-core.c` and every probe and remove).  Seven kernel modules;
`lux-core` binds both PCI functions and spawns the platform devices of the
others, the GPIO chip spawns one more.  Hard: modules load and unload in any
order, each registration may fail half-way through a probe, interrupts arrive
and files open meanwhile.  Correct when: nothing stays registered without an
owner, nothing in use goes away, and lines and files agree.

### LED grid server (`qemu-devices/led`)

A Wayland client that shows the LEDs; a poll loop over the display, signals and
at most ten client sockets; double-buffered rendering.  Correct when: the table
of connections never overflows, every connected client is served, buffers are
painted only while the compositor does not use them, the window comes to show
the grid, and a click is for the LED that is painted under the pointer.

### Test clients (`user-clients`)

`concurrency-hammer.c` reads a file of operations with expected results and has
a number of threads send them all to the accelerator; `timer-test.c` forks
children that set alarms and wait for them, by poll and read or by signals.
Correct when: their verdicts are true and they come to an end.

### Others

The `edu` PCI driver (a tutorial driver), clients that make single calls or draw
text, build files.

`PROJECT.json` lists the components with what is and is not modelled of each,
and the hazards of the code, each at its line.

## 2. Modules

| module | models | checked by |
| --- | --- | --- |
| `MathCompute` | `execute_operation` over words of any width | `MCMathDevice`, `MCHammer` |
| `MathDevice` | the mathaccel device under any driver | `MCMathDevice`, proofs in `MathDeviceProofs` |
| `MathRing` | the driver's DMA path on that device, no failures | `MCMathRing`, proofs in `MathRingProofs` |
| `ComputeService` | what the ioctl promises, abstractly | refined by `MathRing` (`MathRingProofs`) |
| `MathAccel` | `MathRing` with DMA failures, signals and the error handler | `MCMathAccel`, proofs in `MathAccelProofs` |
| `Hammer` | `concurrency-hammer.c` on `MathRing` | `MCHammer`, proofs in `HammerProofs` |
| `LuxTimer` | lux clock, comparator, interrupt line, timer driver | `MCLuxTimer`, proofs in `LuxTimerProofs` |
| `AlarmService` | what `/dev/lux-timer` promises, abstractly | refined by `LuxTimer` (`MCLuxTimer`, `LuxTimerProofs`) |
| `TimerTest` | `timer-test.c` on `LuxTimer`; poll and the asynchronous mode | itself |
| `LuxLed` | lux LED registers, the grid behind the socket, interrupt line, character device, GPIO chip, LED classes | itself, proofs in `LuxLedProofs` |
| `LuxDrivers` | the seven lux modules: loading, probes, error paths, removes, interrupts and opens meanwhile | itself, proofs in `LuxDriversProofs` |
| `LedGrid` | where LEDs are painted and where the pointer looks them up | `MCLedServer`, proofs in `LedServerProofs` |
| `LedServer` | the grid server's connection table, poll loop, frame loop and pointer, on `LedGrid` | `MCLedServer`, proofs in `LedServerProofs` |

`MathAccel` and `Hammer` extend `MathRing`, which extends `MathDevice`;
`TimerTest` extends `LuxTimer`: driver and device, or client, driver and device,
run together on shared state.

### MathCompute and MathDevice

`Half` is half the number of words, 2^31 in the code.  INT_MIN / -1 traps in the
C and is outside the domain (`Traps`).

A handler of the device is a function from device record to device record, so
that nested `fsm_dispatch` calls compose: `Doorbell` enters BUSY, runs
`StartDma`, which ends in `Done` or `Fail`, which dispatch the next event if
`Legal`.  A DMA failure is an index at which the translation of the read or the
write fails (`Faults`).  `MathDevice` alone drives the handlers in any order,
with any contents of the submission ring; the driver is only assumed to write
tails inside the ring.  `dev.msi` is the interrupt between the device and the
CPU: one pending bit, as MSIs coalesce.

Left out: the device's copy of `cq_head` (written, never read) and of the ring
size (constant once DMA is enabled, and a ring size of 0 would be a division by
zero in the device).

### MathRing

| state | code |
| --- | --- |
| `drv` | `sq_head`, `sq_tail`, `cq_head`, `cmdid_counter`, `irq_cause`, `dma_lock` |
| `xa`, `pend` | the xarray from id to call, and each call's `mathaccel_pending` |
| `task` | where each caller is in the ioctl, its request, id and last result |
| `irq` | the top half: idle, before reading the cause, before reading the status |
| `kth` | the thread: asleep, checking, before the lock, scanning |

A section under `dma_lock` is one step, except the thread's, which wakes callers
while it holds the lock.  The top half is three steps, since each register read
is a message to the device process, and the device serves other doorbells
between them.  When a step of the table above reads a register it reads the
state of `MathDevice`: the two modules share `dev`, `sq` and `cq`.

### MathAccel

Adds `MayFault` (the device's DMA fails), `MaySignal` (sleeping callers are
interrupted) and `mathaccel_irq_handle_error` step by step: read the cause,
reset the function, `init_dma`, enable, one round of the wake-up loop per step.
The handler takes no lock, so submission and doorbell are split at the point
where it can intervene (`snap` is their local copy of `sq_tail`).  Interrupt
causes the thread's `switch` does not know (combinations) are dropped
(`KDropCombined`).  The reset is one step.  A call that returns with an error
leaves its freed `mathaccel_pending` in the xarray (`char.c:218`); the record is
taken to be handed to the same task's next call, which is one possible outcome,
and no property relies on it.

### Hammer

The tokens and lines of the operations file are data of the model (`Invocations`);
`ReadLine` is one line through `parse_line` into the growing array, whose new
part is not initialised (`Uninitialised`).  A thread's iteration is `CallIoctl`,
the steps of `MathRing`'s caller, and `CountResult` or `SkipResult`.  `refused`
remembers the iterations whose ioctl failed, which the client forgets; it is a
history variable.  Latencies, options and printing are left out.

### LuxTimer

A subscriber is an open file with one thread.  `tree` is the sequence of the
tree's nodes from the left; `Enqueue` follows the comparisons of
`lux_timer_enqueue`, so its order is the code's.  `lux_reprogram_timer` runs
with the lock (from the work, `TIME_SET`, `IRQP_SET`) and without it
(`ALM_SET`); its reads and writes are separate steps (`LookEmpty`, `LookPast`,
`LookFuture`, then `Clear`, `Program`), and it releases the lock if its caller
held it.  `AIE_OFF`, `PIE_OFF` and `close` read CTRL in one step and write it in
another (`seen` is the stale copy).  The read of `enable_bits` needs no copy, as
it sets all bits that exist.  The overrun count and cause bits of `irq_data` are
one Boolean.  The virtual time's offset cancels out of every comparison.

The work's loop is two steps for each node.  `Pop` takes the node out, rings and
computes the next deadline, from `sub->periodic` (`lux-timer-core.c:159`);
`AddAgain` reads the flag once more and puts the node back (`:188`).  `PIE_ON`,
`PIE_OFF` and the end of `IRQP_SET` change the flag without a lock, so it need not
be the same.  In between, `serves` is the subscriber whose node is out.

`Alarms` maps the timer to `AlarmService`: `pending` is who has a node in the tree,
`ringing` is `serves`, and the deadline, period, flag and data of the subscriber
are the alarm's.  Comparator, interrupt, work item, lock, the order of the tree
and the enable bits are not visible there.  So it is no promise of
`AlarmService` that an alarm rings in time, in order or at all, and `AIE_OFF`,
which leaves the node in the tree, does not take an alarm back.

Left out: RELOAD mode of the device (no caller sets the bit), the clocksource
and clockevent, `TIME_SET` while an alarm is set (`lux-timer-fops.c:319`: the node
is cleared before it is erased, which corrupts the tree) and periods of zero
(`:401`: the work's loop never ends, under a lock).  Both break the driver beyond
what can be stated about it.

### TimerTest

The parent forks and waits; the child makes the calls of its `Script`, those of
`timer_test_sync` or `timer_test_async`, each an action of `LuxTimer` or one of
the calls that `LuxTimer` lacks (poll, reading the clock, `ALM_ASYNC_ON`).  Poll
is as the code has it: it reports data exactly when there is none
(`lux-timer-fops.c:490`).  In asynchronous mode the work sends a signal where it
would wake the reader (`PopAndSignal`), and a signal that is handled before
`pause()` is entered wakes nobody.  `parent = "none"` is a program that makes any
calls in any order, for the properties of `LuxTimer`.  The clock of the tests
runs on for ever in a window of `MaxTime`: `TickOn` moves the window, and what
lies behind it stays at its beginning.  One child at a time: two children are two
subscribers, whose alarms the `lux_alarm` violation delays.

### LuxLed

`dev` is the register file of function 0 with the LED line's bits of STATUS and
MASK, `cmds` and `events` are the two directions of the socket to the grid
server, `grid` is what the server shows.  Every register access is a turn of the
device's event loop and starts with `device_irq_tick` (`IrqTick`); the loop's
other turns handle one LED event (`LedEvent`) or time out, which happens only
while the clock is on (`Timeout`).  `Drive` is the pair of loops in `led.c` that
update the register file and send a command for each output pin; all ways to
write an LED (REG_DATA, SET, CLR, BAR1) go through it.  The handler of the line
is four steps, one for each access that an event can come between.  The GPIO
chip's direction changes read in one step and write in another; `seen` is the
copy.

A message that finds its socket's buffer full is lost, as the sockets do not
block and the results are not checked.  `stray` records the LEDs whose grid
state the device cannot know any more: those clicked in the window, and those
whose command was lost.  It is a history variable: no action reads it.

Left out: reads of registers (beside the cause, which they clear), the error
line, which never rises, and the races of two lines for REG_IRQ_MASK.  The GPIO
chip's callbacks take their data for the function's (`gpiochip_add_data` passes
the platform device, `lux-gpio-chip.c:162`); the model takes the registers they
mean.  A 32-bit access through the mapping reaches the state where
`HARDWARE_SPEC.md:43` has the colour (`f0_bar1.c:93`); `MappedStore` is the code.

### LuxDrivers

| state | code |
| --- | --- |
| `drivers`, `devices`, `bound` | the driver core's: drivers, devices, which is bound to which |
| `reg` | what is registered, requested or mapped: `pins`, `node`, `vector`, ... |
| `todo` | what the insmod or rmmod under way has still to do |
| `chip` | the `lux_irq_chip` structures: which one the chained handler has, which have no domain, and the global pointer |
| `hw`, `cpu` | REG_IRQ_STATUS and REG_IRQ_MASK; the chained handler's loop |
| `pc`, `held`, `irq_en` | each process in open or release, the lines it got, LED_CTRL |

A probe or remove is the sequence of its instructions (`IrqProbe`, `GpioRemove`,
...), each a step, with interrupts and file operations in between.  An
instruction that fails continues with its error path (`Undo`, one case per label
and managed resource).  Adding a device or registering a driver runs the probe
that matches, nested as in the kernel.

Some things no driver survives, and the model leaves them out by name.
`Careless`: unloading `lux-irq` under a bound timer (its line outlives the
domain), or `lux-core` under an open file.  `Unrecovered`: failures after which
`lux-irq` (domain, mappings: the chained handler outlives its chip;
`PTR_ERR(NULL)` is 0, so that the probe succeeds at `lux-irq.c:172`) and
`lux-timer` (clocksource, misc device: nothing is undone, `lux-timer-core.c:329`,
`:361`) leave things behind; and the timer's own cell, whose failure takes
`lux-irq` away while a file may be opened.  `Infallible`: registering the
clockevent returns nothing (`lux-timer-core.c:353`).  Also left out: failing allocations
(the GPIO chip's first one dereferences NULL in its error path,
`lux-gpio-chip.c:215`), the work queue that is destroyed before the line that
queues work is freed (`lux-timer-core.c:383`), and memory freed by a remove while
`lux-core` is unloaded under an open node (`lux-cdev.c:403`).

### LedGrid and LedServer

`PaintedLed` is the loop of `render_led_grid`, where a later circle covers an
earlier one; `UnderlyingLed` is `get_underlying_led`, which looks at the circle of
one cell.  Both are operators over the size of the window and a position in it.

| state | code |
| --- | --- |
| `fds`, `conn_nr` | `struct protocol_state`, its slots from index 2 on |
| `backlog`, `away`, `inbox`, `hung` | the listening socket's queue; clients not connected; unread commands; closed connections |
| `window`, `buffer` | `struct window` and `struct render_buffer` (flags, sizes, `buffer_busy`), with what is painted in each half |
| `pressed` | `struct pointer_event`: a button has been seen and was pressed last |
| `requests`, `wayland`, `screen` | commits on their way to the compositor, events on their way back, and the compositor |

The grid is one Boolean, since the window either shows the grid as it is or does
not; `LuxLed` has the commands LED by LED.  Each handler that a turn of the poll
loop calls is a step.  `Resized` is `render_buffer_resize` within a draw: what
the compositor still has of the old pair becomes `Gone`.  `accept` is as the
code has it: the limit is never reached, and a client that finds no slot is
accepted and never polled, although `protocol.c:83` says that a slot must exist.

The pointer's event mask and button state are never cleared (`seat.c:302`): once
a button is down, every frame is a click, on whatever LED it is over, until the
release.  `PointerFrame` does that; nothing in the repository says how often a
click toggles.

The compositor is external: it may configure the window at any time and to any
size, takes commits in order, gives a buffer back when a later commit replaces
it, and sends the frame callbacks of what it has taken after that.  One that
gives buffers back later than the frame callback can freeze the window
(`render.c:136`: a draw that finds both halves busy asks for no callback, and
nothing draws on release).

Left out: start-up, the keyboard (space is a click on LED 0 to the server),
pausing and termination by signals, failing system calls, colours.  Outside
`ClicksHitWhatIsPainted`: positions right of the last column, where the look-up
gives an LED of the next row (the default window of 650 by 700 has two such
columns of pixels), positions outside the window while a button is held, windows
whose cells are wider than high (circles of a column overlap, and the look-up
misses their edges), and windows narrower than the grid (a division by zero in
the server).

## 3. Runs

| run | module, cfg | instance | shows |
| --- | --- | --- | --- |
| `device` | `MCMathDevice`, `MathDevice` | ring of 2, 2-bit words, a command that succeeds or fails with the registers' contents | type, `RestsReadyOrError`, `ReadyMeansDrained`, `SameIndex`, `ErrorsAreAnnounced` |
| `service` | `MCMathRing`, `MathService` | 4 tasks, ring of 3, 5 calls | `NothingLost`, `CompletionsSurvive`, refinement of `ComputeService` |
| `hammer` | `MCHammer`, `Hammer` | 1 to 3 threads on one device, files with every command over 2-bit words, wrong, short and malformed lines | `WrapsToWord`, `DivisionLaw`, `NoCallCutOff`, `VerdictsTrue`, `HammerEnds` |
| `ring_live` | `MCMathRing`, `MathRingLive` | 2 tasks, 3 calls | **violated**: a lost wake-up |
| `accel` | `MCMathAccel`, `MathAccel` | 2 tasks, 4 calls, faults and signals | `BugOnNeverFires` |
| `accel_reset` | `MCMathAccel`, `MathAccelReset` | the same without signals | **violated**: a sleeper forgotten by the reset |
| `lux_timer` | `MCLuxTimer`, `LuxTimer` | 2 subscribers, 3 instants, 3 system calls | `TreeSound`, refinement of `AlarmService` |
| `timer_test` | `TimerTest`, `TimerTest` | either test with 2 rounds, or any program of 3 calls; a window of 3 instants | `AlarmCovered`, `AlarmKept`, `AlarmRings`, `TestEnds`, `QuietInTheEnd` |
| `lux_alarm` | `MCLuxTimer`, `LuxTimerAlarm` | 2 subscribers, 4 instants | **violated**: an expired alarm left waiting |
| `led` | `LuxLed`, `LuxLed` | 2 LEDs, 2 writers, 1 GPIO caller, sockets of 2 messages, 3 calls | `GridFollows`, `EventsReachTheHandler` |
| `lux_drivers` | `LuxDrivers`, `LuxDrivers` | 7 modules, 6 insmods, any number of rmmods, 17 registrations that may fail, 2 processes | `NothingLeftBehind`, `NothingDangles`, `NeverDispatchedToNull`, `LinesHaveAFile` |
| `led_server` | `MCLedServer`, `LedServer` | 2 slots for 2 clients and the window, 2 sizes, 2 LEDs in a row, 3 acts of clients, user and compositor | `BusyOwned`, `ClicksHitWhatIsPainted`, `GridShown`, `CommandServed` |

Bounds, and why they are enough:

* `RingSize` 2 or 3 instead of 256: a ring of 3 can be empty, partly full and
  full, and its indices wrap within the 5 calls of a behaviour.  The indices
  only ever move by one modulo the size.  The safety properties of the device,
  of `MathRing` and of `MathAccel` are proved for every size.
* `CmdIds` bounds the calls of a behaviour in `MathRing` (ids are not reused
  there: the counter of the code has 32 bits); `MaxCalls` does in `MathAccel`,
  where the reset starts the counter again.  More calls than ring slots are made.
* Four tasks on a ring of three: the ring is full with a caller to spare.
* `MaxTime` and `Deltas`: alarms in the past, present and future of each other.
  `MaxCalls` of 3, beside open and read, lets one subscriber set an alarm, arm it
  and change it while the work rings it, or two have alarms of which one is
  changed or closed.  The safety properties are proved for any number of calls.
* `LED_NR` 2 instead of 64: pins are independent but for the masks that cover
  several, so two show a mask that hits one and misses the other.  `Capacity` 2:
  one write to an output pin fills the buffer, the next one overflows it.
  `MaxCalls` 3 covers an open and two writers, a direction change against two
  writes, a click between two writes, and a re-open with an event under way.
* `hammer`: a word of 2 bits has the extremes, overflow in each operation, and
  every sign of dividend and divisor.  `Prealloc` 1: the second line makes the
  array grow.  Two threads with different lines tell whose answer is whose; three
  threads are more than one device serves without waiting.
* `timer_test`: two periodic rounds, so that the second wait starts with what the
  first left; a window of three instants is wider than the period.
* `lux_drivers`: six loads let all but one of the seven modules be loaded (the
  two LED modules exclude each other on the one device), or some of them loaded,
  unloaded and loaded again.  Two processes overlap in open and release.
* Windows of 5 by 2 and 4 by 4 pixels: a remainder of the division, circles that
  touch and positions that no circle has; the pointer is on an LED in the first
  and beside one in the second.  `ClicksHitWhatIsPainted` looks at every position
  of the cells, and is proved for every size.
* Two slots for three connections (the code has ten for clients and window): the
  table can be full with one to spare, and with 3 acts a slot is freed, taken
  again and used, or the window is configured three times, so that four chains
  of frame callbacks compete for two buffers.
* In all of these, deadlock checking is off: a bounded behaviour ends when its calls are
  used up, and the services wait when nobody calls.

Symmetry is used for safety only: tasks and subscribers are interchangeable.

### Fairness

`MathRing`: interrupts are taken and the runnable thread runs (weak fairness);
a caller waiting for `dma_lock` gets it when it is free again and again (strong
fairness: spin locks are queued); nobody must issue a call.  `LuxTimer`: the
device loop polls with a timeout of 1 ms while the clock is on (`device.c:342`),
so `Tick` is weakly fair; interrupts, the work and begun system calls go on; the
work gets the lock (strong fairness).  No system call must be made.  `LuxLed`:
the clock is on (`Clock`), both event loops turn, interrupts are served, begun
calls go on.  `Hammer`: as `MathRing`, and the client's threads run; a call that
needs `dma_lock` gets it (strong fairness).  `TimerTest`: as `LuxTimer`, with a
clock that never stops; the test's processes run, and a call that waits for the
lock gets it.  `LuxDrivers` has no liveness property.  `LedServer`: the poll loop serves every socket that is ready in
each turn, and the compositor takes commits and sends frame callbacks, as one
does for a window that is visible.

### What the violations are

`ring_live`.  Two jobs complete before the top half of the first interrupt reads
the cause register.  It reads and clears the cause; the second interrupt's top
half reads zero and overwrites `dev->irq_cause` (`irq.c:126`) before the thread
has exchanged it.  The thread finds no cause and sleeps; both callers sleep with
their completions in the ring.  The next call of anybody would wake them, and if
everybody is asleep there is none.  `char.c:182` promises to block until the
device signals completion.  With one thread per device it cannot happen
(`HammerEnds` in `hammer`).

`accel_reset`.  `mathaccel_init_dma` resets `cmdid_counter` before the wake-up
loop has visited the sleepers, so a new call can take the id, and the xarray
slot, of a sleeper the loop has yet to reach.  `irq.c:49` promises to wake every
single sleeping task.

`lux_alarm`.  `lux_timer_enqueue` puts smaller deadlines to the right of larger
ones (`lux-timer-fops.c:203`), but keeps the leftmost node as the earliest.  The
work looks at the latest deadline and leaves expired alarms in the tree, against
`lux-timer-core.c:146`.

Two races of the timer are no violation of anything the repository states, and are
part of the specification instead.  The first is in `AlarmService`.  The flag that
says whether an alarm is periodic is read when the work rings it and again when it
puts the node back (`lux-timer-core.c:159`, `:188`), and is set without a lock.
With one subscriber: its alarm rings as one that rings once, so its deadline
becomes 0; `PIE_ON`, or the end of `IRQP_SET`, sets the flag; the node goes back
with deadline 0, is found expired at once, and rings again for every period since
the clock began, with the lock held.  `Again` says so: what rang stays an alarm
if it repeats now, with whatever deadline it has.

The second is the one exception to two properties (`Misled`).  `ALM_SET` of a
periodic subscriber puts its node in the tree and reprograms the timer without the
lock.  If the work has taken that node out meanwhile, `ALM_SET` finds the tree
empty, and by the time it switches the interrupt off, the work may have put the
node back and programmed the comparator for it: the alarm is in the tree and
nothing will ring it.  `AlarmKept` and `AlarmRings` say that this is the only way.

## 4. Proofs

`MathDeviceProofs` proves, for every ring size greater than 1, every word width,
every set of ids and of commands that do not trap, with and without DMA faults:

* `DevTypeCorrect`: `DevSpec => []DevTypeOK`;
* `DevRests`: the device rests in READY or ERROR between handlers;
* `DevDrained`: a READY device has no submission left to read;
* `DevSameIndex`: its two indices agree when READY;
* `DevAnnouncesErrors`: entering ERROR sets both causes and raises the MSI.

None of the last four is inductive alone.  That a job drains the ring needs the
head to be inside it, and that the two indices agree after a job needs them to
agree before it, which holds because jobs start only in READY.  The inductive
invariant `DevInv` therefore is the type invariant with `AtRest`: READY or
ERROR, and when READY drained with equal indices.  The argument follows the
nesting of the code: `FailFromBusy` and `DoneFromBusy` treat the dispatch that
ends a handler; `ConsumeAtRest`, `LegacyJobAtRest`, `DoorbellAtRest`,
`WriteCmdAtRest` and `ResetAtRest` lift it to the handlers; `DevNextInv` has one
case per action.  `RingArithmetic` and `ExecuteType` are the lemmas about the
operators.  Assumptions: those of the modules (`HalfAssumption`,
`RingAssumption`, `RequestsAssumption`, `FaultAssumption`).

`MathRingProofs` proves, for any number of tasks, any ring size and any ids,
`RingTypeCorrect` and `RingCompletionsSurvive`: the device, which does not look
whether the completion ring is full, never overwrites a completion the driver has
not consumed.  The invariant `RingInv` says why.  The lock is held exactly while
the thread scans (`Locking`).  Where the driver takes the device's head to be is
where the scan will stop, or has (`HeadsMeet`), so a submission can only fill the
ring up to what the thread has consumed, and head, device and tail are in order
from there (`InOrder`).  And the completions that are valid are exactly those not
consumed (`ValidUnconsumed`), so the scan, which stops at the first that is not,
stops at the device's index and not before.  `NextSlot` and `Segment` are the
arithmetic of going round the ring.  `HeadsMeet` to `ValidUnconsumed` are claimed
while the device is READY; a faulting job ends that, and `MathRing` has no reset.

`RingLosesNothing`, in the same module, holds under `~MayFault`, the setting of
the runs that check it.  `PlacesInv` adds to `RingInv` that the slots from the
consumer's head to the driver's tail correspond one to one, through the ids and
the xarray, to the unanswered calls (`Placed`), each with its command or its
outcome (`Carried`), and that an id is never handed out twice (`Known`).  A
submission takes the slot at the tail (`SubmitPlaces`), a doorbell turns the
submissions into completions in place (`DoorbellPlaces`), the scan answers the
call at the head (`ScanPlaces`); the counts of the property follow from the
correspondence being a bijection (`OneSlotEach`).  With `OwnAnswers`, that a
completed record holds the outcome of its own task's command, follow
`RingWrapsToWord` and `RingDivisionLaw`: what a call returns satisfies the laws of
C's arithmetic on its own arguments, for every word width (`WrapIsCongruent`,
`TruncDivLaw`).

`RingImplementsService` needs `~MayFault` again: the
initial states map to the service's, and every step to one of the service's steps
or to none.  The service's queues are stretches of the two rings read through the
xarray (`Line`, `QueuesAreLines`), so a submission is an append (`LineAppend`), a
scanned completion a tail (`LineTail`), and a doorbell, which turns the
submissions into completions in place, a concatenation (`LineConcat`).
`PlacesInv` says why the stretches hold the right calls, that the refused call
sees exactly `RingSize - 1` under way (`BusyRefuses`: the driver's view of the
device's head is the consumer's head), and that the oldest completion is the one
answered; `OwnAnswers` why each returns its own outcome.  The interrupt and the
rest of the thread are invisible (`NothingShows`).  `ComputeService` states no
fairness, so this is safety only; that waits need not end is `ring_live`'s finding.

`HammerProofs` is about the client on the driver on the device, for any number of
threads and devices, any file and any ring size.  Every step of the client is a
step of `RingSpec` or none (`ClientStepsAreRingSteps`), so that
`HammerLosesNothing`, `HammerWrapsToWord` and `HammerDivisionLaw` hold of it
(under `~MayFault`).  `HammerCutsOffNoCall` holds with faults too.  Its invariant
`BarrierInv` is that while main is creating threads, as many have arrived at the
barrier as main has created, which is fewer than the barrier waits for, so that
no thread is in an ioctl when main gives up.  `HammerVerdictsTrue` goes from the
text of the file to the counters.  `CompleteLineRead` says that `parse_line` reads
a complete line as it is written, whatever the array held there before (`malloc`
does not clear it); the array holds the lines read so far (`AsWritten`) although
it moves when it grows; a call under way is that of its thread's next line
(`OwnLine`), and its outcome is its own (`OwnAnswers`); so each iteration counts
what the line says (`TrueCounts`).

`MathAccelProofs` proves `AccelTypes` and `AccelBugOnNeverFires` with faults and
signals anywhere.
The invariant `AlarmInv` is that an error is announced once: its cause is in the
device's register, in the driver's copy or being handled, never in two of them
(`AnnouncedOnce`); that the device stays in ERROR meanwhile, since only the
handler's own reset leads out; and that the error's cause stays to be read.

`LuxTimerProofs` proves `TimerTypes` and `TimerTreeSound` for any number of
subscribers, any periods and any length of time.  The invariant `TimerInv` adds
to the types that the time the worker read is one the clock has shown, so that a
popped deadline with a period added is a deadline again, and that a subscriber
that is being freed has given up its use of the timer, so that `enabled_users` is
the number of those that are enabled.  `NarrowerSorted` and `WiderSorted` say
what taking a node out and putting one in do to a queue in the order of
deadlines; the insertion point, which the model computes as a count, is where the
comparisons lead because the later deadlines are a prefix (`WithoutGaps`).  A
deadline changes only while its node is out of the tree (`TreeMade`), so the
order survives what the worker and the calls do between two holders of the lock.

That the worker puts back a node that is not in the tree, and for an open file,
needs `WorkerInv`: it holds the lock from the beginning of its loop to the end of
its reprogramming (`WorkerLocks`), and between taking a node out and putting it
back the subscriber is not in the tree and not closed (`ServesOne`), since every
call that could set or free it needs the lock (`WorkerAlone`).

`LoneAlarmCovered` and `LoneAlarmKept` are `AlarmCovered` and `AlarmKept` when there
is one subscriber.  With two they are false: `ALM_SET` looks at the tree without
the lock, and what it then switches off may be another subscriber's alarm (a hazard
of `PROJECT.json`).  The invariant `ClearsOnEmpty` says where the lock saves the
lone one: whoever is about to switch the interrupt off because the tree was empty
still finds it empty, or looked without the lock and is periodic.  It could only
have found the tree empty while the worker had its node out, and the worker puts
it back only if it is periodic.  So no step forgets an alarm but in that race
(`Keeps`); and an alarm that rings once is not in it, since whoever stops being
periodic also gives up the interrupt (`StaysPeriodic`).

`TimerImplementsAlarms` is the refinement of `AlarmService`, for any number of
subscribers, periods and length of time: no alarm rings before it is due, nobody
moves or drops another's, a periodic one is next due a period after it was due,
and the period in use is never zero.  The initial states map to the service's,
and every step to one of the service's steps or to none (`StepSeen`; `PopSeen` and
`AgainSeen` are the worker's).  Beside `TimerInv` and `WorkerInv` it needs that the
time the worker read is not later than the clock (`TimeRead`), so that what it
finds expired is due, and that a subscriber that is periodic, or that `IRQP_SET` is
about to make periodic, has a period (`PeriodsInv`).  `NarrowerMembers`,
`WiderMembers`, `ErasedMembers` and `EnqueuedMembers` are the lemmas about who is
in a queue after a change.  `AlarmService` states no fairness, so this is safety
only; that alarms ring is `AlarmRings`, by TLC.

`LuxLedProofs` proves `LedTypes` and `GridFollowsRegisters`, for any number of
LEDs, callers and sizes of the sockets.  The grid that the commands under way
lead to (`Executed`, a recursive function over the queue) is described LED by LED:
`Shows` and `Colored` say what of a queue decides about one LED, and what an
access appends says of each LED what became of its registers (`Says`), except of
those whose command found the buffer full.  A step of the server moves a command
from the queue to the grid and changes nothing of that.  The invariant `LedInv`
is the types with `GridFollows`; the accesses of character device, GPIO chip and
LED classes are all of one kind (`Lawful`), whatever stale copy of the direction
register they work with.

`LuxDriversProofs` proves `DriversLinesHaveAFile` for any number of processes
and loads and any set `MayFail`: `LinesHaveAFile` with the types of `pc` and
`held` is inductive (`FilesInv`).  `FileMoves` is the argument: one process moves
from one place to another and takes or gives a line with it; `Bystander`,
`Taker` and `Giver` say what that does to the holders of a line, and every step
outside the files leaves them alone.

It goes on to the life cycle of the modules: `DriversLeaveNothingBehind`,
`DriversDangleNothing` and `DriversNeverDispatchToNull`, for any number of
processes and loads and any set `MayFail` that `DriversAssumption` admits.  None of
the three is inductive, since they say nothing of the instructions queued in
`todo`, which is where everything that will still be made or taken back is.  The
invariant `LuxInv` therefore begins with the queue:

* it is `Tidy`: the instructions for one device are in one piece up to its
  `Bound` or `Unbound` (`Whole`); what a driver makes or unmakes in a certain order
  is queued in that order (`Following`); nothing comes after the end of its
  device, no instruction comes twice, and what is for a device comes before what
  is for the device above it (`Apart`);
* it is `Sound`: of a device that is being probed, what is registered is what its
  driver need not make any more (`Probed`); of one that loses its driver, what is
  still to be unmade (`Removed`); of one at rest, all that its driver makes or
  nothing (`Rested`); a platform device that does not exist has neither driver nor
  work.

Executing the head of a tidy and sound queue keeps it so (`MakeSound`,
`UnmakeSound`, `BoundSound`, `UnboundSound`, `OtherSound`).  A probe and a removal
are pieces (`BindIs`, `StripIs`) that are put in front when a device is added or a
driver comes or goes (`PushBind`, `PushStrip`).  The hard case is a failure in
the middle of a probe: its rest, up to the `Bound`, is replaced by what the driver's
error path undoes, and that must be exactly what has been made so far (`UndoPiece`,
`FailSound`).  What is left to say, in the other conjuncts of `LuxInv`, is about
two devices or two modules: no driver that is being unloaded probes (`DriversInv`),
the class lives from the module's init to its exit (`ClassInv`), the timer goes
before the interrupt chip, and a file is open only while what it uses is there
(`KnownInv`, `IrqGoingInv`, `TimerInv`, `OpenInv`, with `FilesInv` for the places of
the files), and all lines are masked while a chip has no domain (`NullInv`).  There
is one lemma per action (`InsmodKeeps`, `RmmodKeeps`, `FailKeeps`, ...), and
`LeavesNothing`, `DanglesNothing` and `DispatchesNothing` draw the properties from
the invariant.

`LedServerProofs` begins with `LedGrid`.  `LookupFindsPainted`: in every cell of every window whose
cells are not empty and at least as high as wide, for any grid, the look-up of
`seat.c` and the painting of `render.c` give the same LED, or none.  The
argument: a radius is at most half the spacing (`Spacings`), so a circle stays in
its cell but for the one point where it touches the next cell's circle
(`CirclesTouch`, from `Axis` for one dimension), and there the later LED, which
is painted last, is the one whose cell the point is in.  Division is reasoned
about by its inequalities (`Quotient`, `QuotientIs`).

It is lifted to the server by `ServerClicksHit`, for any clients,
any sizes at least as large as the grid and any number of steps.  The property is
not inductive: a resize takes what a configure has left in `pending_dim`.  The
invariant `WindowInv` adds that a pending size can be painted (never `NoSize`),
that allocated buffers have the window's current size, and the types of the
queues, through which sizes arrive.  Assumption: `ServerAssumption`, of which the
proof uses that the default is one of the sizes and that sizes are not smaller
than the grid.

`ServerBusyOwned`, in the same module, is that a half of the buffer is busy
exactly while the compositor has it in one place.  With `WindowInv` for the types
the property is inductive, and the proof is a count: `CountAppend` and its like
say what an append, a tail and a concatenation do to the number of places of an
element in a queue, and there is one lemma per way a half moves.  A draw puts a
free half into a commit (`DrawTakesFreeHalf`, after `ResizedOwned` for the resize
that takes both halves from everyone), the compositor moves it to the screen and the one before it
into a release (`TakeMovesHalves`), and the release frees it
(`ReleaseFreesHalf`); all other steps leave the counts alone (`OwnersKept`).

`ServerTypes` is the type invariant, of which `conn_nr` is the point: it is the
number of slots in use, through hang-ups, connections beyond the table and slots
taken again.  For the bound on the inboxes it is not inductive: a pointer event on
its way becomes a command of the window's own connection when it is served, so
`TableInv` counts it as one already.

Where an argument is by induction over a number (the parser over a line's tokens,
the device's loops over LEDs, the places of a queue), it is made by the least
counterexample, since `<` on the natural numbers is well-founded.

Only model-checked:

* `AlarmCovered` and `AlarmKept` under `TimerTest`, where poll and signals are added
  to the lone subscriber's calls and the clock's window moves; `TestEnds`,
  `QuietInTheEnd`;
* all liveness, which under fairness is out of the prover's reach: `AlarmRings`,
  `EventsReachTheHandler`, `HammerEnds`, `GridShown`, `CommandServed` and the
  violations `ring_live` and `accel_reset`;
* what the code does not do: the counterexample of `lux_alarm`.

## 5. Not modelled, and why

* The legacy `read`/`write` of the mathaccel driver and `remove()`: they wait on
  and wake `legacy_q`, which nothing initialises, so their first use oopses.
* Probe as a sequence of steps: the character device is live before the rings
  exist (`device.c:59`).
* The race of two CPUs for REG_IRQ_MASK, and of two GPIO callers for the
  direction register beyond what `LuxLed` shows: lost updates nobody promises to
  avoid.
* The LED grid server's start-up, keyboard and signals; the generated
  `xdg-shell-client-protocol.h`.
* The clients' statistics, options and printing, and clients that make single
  calls (`mathaccel.c`, `edu.c`) or draw text (`print-to-mcled-sysfs.c`).
* The `edu` driver, `kthread-time.c`, `lux-regmap.c`: examples.
* Register contents with no effect on control, logging, PCI configuration.

## 6. What is left

1. Probe and the error handler as a life cycle of the mathaccel driver.
2. The connection between the lux device and the grid server, and its loss.
3. Properties of `LuxTimer` with two subscribers: the race of an unlocked
   `lux_reprogram_timer` with another subscriber's.
4. Proofs: `AlarmCovered` and `AlarmKept` where the lone subscriber also polls and
   takes signals (`TimerTest`).
