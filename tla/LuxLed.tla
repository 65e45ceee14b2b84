--------------------------------- MODULE LuxLed ---------------------------------
(***************************************************************************)
(* The LEDs of the lux device: the register file of function 0 and the     *)
(* event loop (qemu-devices/lux), the socket to the LED grid server and    *)
(* what the server does with a command (led/protocol.c), the interrupt     *)
(* chip's LED line (lux-irq.c), the character device (lux-cdev.c), the     *)
(* GPIO chip and the LED classes (lux-gpio-chip.c, lux-led.c,              *)
(* lux-led-mc.c).                                                          *)
(*                                                                         *)
(* An access to a register is one message to the device process, handled   *)
(* in a turn of its event loop; each turn begins with device_irq_tick.     *)
(* The LED error line never rises: the server answers a command it does    *)
(* not know with nothing.  The timer's line, which shares REG_IRQ_MASK, is *)
(* left to LuxTimer.                                                       *)
(***************************************************************************)
EXTENDS Naturals, Sequences

CONSTANTS
  LED_NR,     \* number of LEDs
  Colors,     \* colours; 0 is the register file's at power-up
  GridColor,  \* the grid's colour at power-up
  Writers,    \* threads that share the one open file of /dev/lux
  Callers,    \* threads inside the GPIO chip
  Capacity,   \* messages a socket's buffer holds in one direction
  Clock,      \* the timer of function 1 is on, and turns the event loop
  MaxCalls    \* calls and clicks of a behaviour

ASSUME LedAssumption ==
  /\ LED_NR \in Nat \ {0} /\ {0, GridColor} \subseteq Colors
  /\ Capacity \in Nat \ {0} /\ Clock \in BOOLEAN /\ MaxCalls \in Nat

VARIABLES
  dev,        \* registers of function 0, and the LED line's bits of STATUS and MASK
  msi,        \* an MSI the CPU has yet to take
  cmds,       \* commands on their way to the grid
  events,     \* events on their way back
  grid,       \* struct led_grid
  stray,      \* LEDs whose grid state the device cannot know (see GridFollows)
  irq,        \* how far the chained handler is
  file,       \* life of the open file
  lastCause,  \* last_irq_cause
  task,       \* where each writer is
  gpio,       \* where each GPIO caller is, and its locals
  calls       \* calls and clicks so far

vars == <<dev, msi, cmds, events, grid, stray, irq, file, lastCause, task, gpio, calls>>

Leds == 0 .. LED_NR - 1
Causes == {"LED_ON", "LED_OFF", "LED_COLOR"}
Commands == [cmd : {"CMD_ON", "CMD_OFF", "CMD_SET_COLOR"}, led : Leds, color : Colors]

LedTypeOK ==
  /\ dev \in [direction : SUBSET Leds, irq_en : BOOLEAN, cause : SUBSET Causes, on : SUBSET Leds,
              color : [Leds -> Colors], status : BOOLEAN, mask : BOOLEAN]
  /\ msi \in BOOLEAN
  /\ cmds \in Seq(Commands) /\ Len(cmds) <= Capacity
  /\ events \in Seq(Causes) /\ Len(events) <= Capacity
  /\ grid \in [Leds -> [on : BOOLEAN, color : Colors]] /\ stray \subseteq Leds
  /\ irq \in {"idle", "ack", "handler", "unmask"}
  /\ file \in {"closed", "opening", "open", "closing"}
  /\ lastCause \subseteq Causes
  /\ task \in [Writers -> {"idle", "wait", "reset"}]
  /\ \A t \in Writers : task[t] # "idle" => file = "open"
  /\ gpio \in [Callers -> [pc : {"idle", "direction", "drive"}, pin : SUBSET Leds, on : BOOLEAN,
                           seen : SUBSET Leds]]
  /\ calls \in 0 .. MaxCalls

\* lux_led_platform_probe, if that driver is loaded, has made every pin an output.
LedInit ==
  /\ \E direction \in {{}, Leds} :
       dev = [direction |-> direction, irq_en |-> FALSE, cause |-> {}, on |-> {},
              color |-> [l \in Leds |-> 0], status |-> FALSE, mask |-> FALSE]
  /\ msi = FALSE /\ cmds = <<>> /\ events = <<>>
  /\ grid = [l \in Leds |-> [on |-> FALSE, color |-> GridColor]] /\ stray = {}
  /\ irq = "idle" /\ file = "closed" /\ lastCause = {}
  /\ task = [t \in Writers |-> "idle"]
  /\ gpio = [g \in Callers |-> [pc |-> "idle", pin |-> {}, on |-> FALSE, seen |-> {}]]
  /\ calls = 0
-----------------------------------------------------------------------------
(***************************************************************************)
(* The register file.  A write gives the registers it leaves and the       *)
(* commands it sends.                                                      *)
(***************************************************************************)
\* The loop over the LEDs: upTo[n] is sent when it has dealt with the first n.
CommandsTo(cmd, leds) ==
  LET upTo[n \in 0 .. LED_NR] ==
        IF n = 0 THEN <<>>
        ELSE IF n - 1 \in leds
             THEN Append(upTo[n - 1], [cmd |-> cmd, led |-> n - 1, color |-> 0])
             ELSE upTo[n - 1]
  IN  upTo[LED_NR]

\* Mutant of Drive: checks the direction after it has updated the register.
DriveUnchecked(d, up, down) ==
  [dev |-> [d EXCEPT !.on = (@ \cup up) \ down],
   sent |-> CommandsTo("CMD_ON", up \cap d.direction)
              \o CommandsTo("CMD_OFF", down \cap d.direction)]

\* device_set_led_states(up) and device_clr_led_states(down): output pins only.
Drive(d, up, down) ==
  [dev |-> [d EXCEPT !.on = (@ \cup (up \cap d.direction)) \ (down \cap d.direction)],
   sent |-> CommandsTo("CMD_ON", up \cap d.direction)
              \o CommandsTo("CMD_OFF", down \cap d.direction)]

WriteData(d, states) == Drive(d, states \ d.on, d.on \ states)
WriteSet(d, mask) == Drive(d, mask \ d.on, {})
WriteClr(d, mask) == Drive(d, {}, mask \cap d.on)

WriteState(d, l, on) == IF on THEN Drive(d, {l}, {}) ELSE Drive(d, {}, {l})

WriteSmartLed(d, l, on, color) ==
  LET state == WriteState(d, l, on)
  IN  [dev |-> [state.dev EXCEPT !.color[l] = color],
       sent |-> Append(state.sent, [cmd |-> "CMD_SET_COLOR", led |-> l, color |-> color])]

\* device_irq_tick, at the beginning of a turn.
IrqTick == msi \/ (dev.status /\ ~dev.mask)

\* Mutant of Send: as if the socket took everything.
SendAll(sent) == cmds' = cmds \o sent /\ UNCHANGED stray

\* The sockets do not block: a command that finds the buffer full is lost.
Send(sent) ==
  LET room == Capacity - Len(cmds)
  IN  /\ cmds' = cmds \o SubSeq(sent, 1, IF Len(sent) < room THEN Len(sent) ELSE room)
      /\ stray' = stray \cup {sent[i].led : i \in {j \in DOMAIN sent : j > room}}

Access(result) == dev' = result.dev /\ Send(result.sent) /\ msi' = IrqTick
WriteDirection(pins) == Access([dev |-> [dev EXCEPT !.direction = pins], sent |-> <<>>])
-----------------------------------------------------------------------------
(***************************************************************************)
(* The event loop's other turns, and the grid server.                      *)
(***************************************************************************)
\* poll() times out, which it does while the clock is on.
Timeout ==
  /\ Clock
  /\ msi' = IrqTick
  /\ UNCHANGED <<dev, cmds, events, grid, stray, irq, file, lastCause, task, gpio, calls>>

\* One event a turn; the turn may have handled a message first.
LedEvent ==
  /\ events # <<>>
  /\ events' = Tail(events)
  /\ dev' = [dev EXCEPT !.cause = @ \cup {Head(events)}, !.status = @ \/ dev.irq_en]
  /\ msi' \in {msi, IrqTick}
  /\ UNCHANGED <<cmds, grid, stray, irq, file, lastCause, task, gpio, calls>>

Execute(leds, c) ==
  CASE c.cmd = "CMD_ON" -> [leds EXCEPT ![c.led].on = TRUE]
    [] c.cmd = "CMD_OFF" -> [leds EXCEPT ![c.led].on = FALSE]
    [] c.cmd = "CMD_SET_COLOR" -> [leds EXCEPT ![c.led].color = c.color]

EventOf(c) ==
  CASE c.cmd = "CMD_ON" -> "LED_ON"
    [] c.cmd = "CMD_OFF" -> "LED_OFF"
    [] c.cmd = "CMD_SET_COLOR" -> "LED_COLOR"

ServerCommand ==
  /\ cmds # <<>>
  /\ cmds' = Tail(cmds)
  /\ grid' = Execute(grid, Head(cmds))
  /\ events' = IF Len(events) < Capacity THEN Append(events, EventOf(Head(cmds))) ELSE events
  /\ UNCHANGED <<dev, msi, stray, irq, file, lastCause, task, gpio, calls>>

Counted == calls < MaxCalls /\ calls' = calls + 1

\* A click in the server's window: its own connection toggles or colours an LED.
Click ==
  /\ Counted
  /\ \E l \in Leds :
       /\ \/ grid' = [grid EXCEPT ![l].on = ~@]
          \/ \E c \in Colors : grid' = [grid EXCEPT ![l].color = c]
       /\ stray' = stray \cup {l}
  /\ UNCHANGED <<dev, msi, cmds, events, irq, file, lastCause, task, gpio>>
-----------------------------------------------------------------------------
(***************************************************************************)
(* lux_irq_chained_handler, and handle_level_irq for the LED line, which   *)
(* runs lux_smart_led_irq_handler.  The flow masks and acknowledges the    *)
(* line in one step: while it is masked no turn sends an MSI, and the      *)
(* acknowledgement clears what rose meanwhile.                             *)
(***************************************************************************)
\* The reading of STATUS is a turn, and sends another MSI for the line it reports.
ChainedHandler ==
  /\ msi
  /\ irq = "idle"
  /\ LET pending == dev.status /\ ~dev.mask
     IN  irq' = (IF pending THEN "ack" ELSE "idle") /\ msi' = pending
  /\ UNCHANGED <<dev, cmds, events, grid, stray, file, lastCause, task, gpio, calls>>

\* Without a handler the line stays masked.
MaskAndAck ==
  /\ irq = "ack"
  /\ dev' = [dev EXCEPT !.mask = TRUE, !.status = FALSE]
  /\ msi' = IrqTick
  /\ irq' = IF file \in {"opening", "open"} THEN "handler" ELSE "idle"
  /\ UNCHANGED <<cmds, events, grid, stray, file, lastCause, task, gpio, calls>>

\* REG_LED_IRQ_CAUSE clears on read.
LedHandler ==
  /\ irq = "handler"
  /\ lastCause' = dev.cause
  /\ dev' = [dev EXCEPT !.cause = {}]
  /\ msi' = IrqTick
  /\ irq' = "unmask"
  /\ UNCHANGED <<cmds, events, grid, stray, file, task, gpio, calls>>

\* Mutant of Unmask: acknowledges at the end of the flow.
UnmaskAndAck ==
  /\ irq = "unmask"
  /\ dev' = [dev EXCEPT !.mask = IF file \in {"opening", "open"} THEN FALSE ELSE @, !.status = FALSE]
  /\ msi' = IrqTick
  /\ irq' = "idle"
  /\ UNCHANGED <<cmds, events, grid, stray, file, lastCause, task, gpio, calls>>

\* Not when free_irq has shut the line down.
Unmask ==
  /\ irq = "unmask"
  /\ dev' = [dev EXCEPT !.mask = IF file \in {"opening", "open"} THEN FALSE ELSE @]
  /\ msi' = IrqTick
  /\ irq' = "idle"
  /\ UNCHANGED <<cmds, events, grid, stray, file, lastCause, task, gpio, calls>>
-----------------------------------------------------------------------------
(***************************************************************************)
(* /dev/lux.  The line is not shared, so that a second open fails in       *)
(* request_irq.                                                            *)
(***************************************************************************)
\* request_irq unmasks the line.
Open ==
  /\ file = "closed"
  /\ Counted
  /\ file' = "opening"
  /\ dev' = [dev EXCEPT !.mask = FALSE]
  /\ msi' = IrqTick
  /\ UNCHANGED <<cmds, events, grid, stray, irq, lastCause, task, gpio>>

OpenEnable ==
  /\ file = "opening"
  /\ file' = "open"
  /\ dev' = [dev EXCEPT !.irq_en = TRUE]
  /\ msi' = IrqTick
  /\ UNCHANGED <<cmds, events, grid, stray, irq, lastCause, task, gpio, calls>>

\* free_irq masks the line, then waits for a handler that is running.
Release ==
  /\ file = "open"
  /\ \A t \in Writers : task[t] = "idle"
  /\ file' = "closing"
  /\ dev' = [dev EXCEPT !.mask = TRUE]
  /\ msi' = IrqTick
  /\ UNCHANGED <<cmds, events, grid, stray, irq, lastCause, task, gpio, calls>>

ReleaseDisable ==
  /\ file = "closing"
  /\ irq \notin {"handler", "unmask"}
  /\ file' = "closed"
  /\ dev' = [dev EXCEPT !.irq_en = FALSE]
  /\ msi' = IrqTick
  /\ UNCHANGED <<cmds, events, grid, stray, irq, lastCause, task, gpio, calls>>

\* An output pin's LED answers twice, an input pin's once.
Write(t) ==
  /\ file = "open"
  /\ task[t] = "idle"
  /\ Counted
  /\ \E l \in Leds, on \in BOOLEAN, color \in Colors : Access(WriteSmartLed(dev, l, on, color))
  /\ task' = [task EXCEPT ![t] = "wait"]
  /\ UNCHANGED <<events, grid, irq, file, lastCause, gpio>>

WaitEnds(t) ==
  /\ task[t] = "wait"
  /\ lastCause # {}
  /\ task' = [task EXCEPT ![t] = "reset"]
  /\ UNCHANGED <<dev, msi, cmds, events, grid, stray, irq, file, lastCause, gpio, calls>>

WaitInterrupted(t) ==
  /\ task[t] = "wait"
  /\ task' = [task EXCEPT ![t] = "idle"]
  /\ lastCause' = {}
  /\ UNCHANGED <<dev, msi, cmds, events, grid, stray, irq, file, gpio, calls>>

WriteReturns(t) ==
  /\ task[t] = "reset"
  /\ task' = [task EXCEPT ![t] = "idle"]
  /\ lastCause' = {}
  /\ UNCHANGED <<dev, msi, cmds, events, grid, stray, irq, file, gpio, calls>>

\* CLEAR_SCREEN; SET_DIRECTION_OUT writes its argument, SET_DIRECTION_IN the complement.
Ioctl ==
  /\ file = "open"
  /\ Counted
  /\ \/ Access(WriteData(dev, {}))
     \/ \E pins \in SUBSET Leds : WriteDirection(pins)
  /\ UNCHANGED <<events, grid, irq, file, lastCause, task, gpio>>

\* A 32-bit store to the mapped BAR1: `offset % 4` takes either register for REG_STATE.
MappedStore ==
  /\ file = "open"
  /\ Counted
  /\ \E l \in Leds, on \in BOOLEAN : Access(WriteState(dev, l, on))
  /\ UNCHANGED <<events, grid, irq, file, lastCause, task, gpio>>
-----------------------------------------------------------------------------
(***************************************************************************)
(* The GPIO chip and the LED classes.                                      *)
(***************************************************************************)
\* lux_gpio_set; also lux_led_set_brightness.
GpioSet(g) ==
  /\ gpio[g].pc = "idle"
  /\ Counted
  /\ \E l \in Leds : Access(WriteSet(dev, {l})) \/ Access(WriteClr(dev, {l}))
  /\ UNCHANGED <<events, grid, irq, file, lastCause, task, gpio>>

\* lux_gpio_set_multiple writes SET, and CLR in the next access.
GpioSetMultiple(g) ==
  /\ gpio[g].pc = "idle"
  /\ Counted
  /\ \E up, down \in SUBSET Leds :
       /\ up \cap down = {}
       /\ Access(WriteSet(dev, up))
       /\ gpio' = [gpio EXCEPT ![g].pc = "drive", ![g].pin = down, ![g].on = FALSE]
  /\ UNCHANGED <<events, grid, irq, file, lastCause, task>>

\* lux_gpio_direction_output and _input read DIRECTION first.
GpioReadDirection(g) ==
  /\ gpio[g].pc = "idle"
  /\ Counted
  /\ \E l \in Leds, on, out \in BOOLEAN :
       gpio' = [gpio EXCEPT ![g] = [pc |-> "direction", pin |-> IF out THEN {l} ELSE {}, on |-> on,
                 seen |-> IF out THEN dev.direction \cup {l} ELSE dev.direction \ {l}]]
  /\ msi' = IrqTick
  /\ UNCHANGED <<dev, cmds, events, grid, stray, irq, file, lastCause, task>>

GpioWriteDirection(g) ==
  /\ gpio[g].pc = "direction"
  /\ WriteDirection(gpio[g].seen)
  /\ gpio' = [gpio EXCEPT ![g].pc = IF gpio[g].pin = {} THEN "idle" ELSE "drive"]
  /\ UNCHANGED <<events, grid, irq, file, lastCause, task, calls>>

GpioDrive(g) ==
  /\ gpio[g].pc = "drive"
  /\ Access(IF gpio[g].on THEN WriteSet(dev, gpio[g].pin) ELSE WriteClr(dev, gpio[g].pin))
  /\ gpio' = [gpio EXCEPT ![g].pc = "idle"]
  /\ UNCHANGED <<events, grid, irq, file, lastCause, task, calls>>

\* lux_mc_led_set_brightness
SetBrightness ==
  /\ Counted
  /\ \E l \in Leds, on \in BOOLEAN, color \in Colors : Access(WriteSmartLed(dev, l, on, color))
  /\ UNCHANGED <<events, grid, irq, file, lastCause, task, gpio>>
-----------------------------------------------------------------------------
Interrupt == ChainedHandler \/ MaskAndAck \/ LedHandler \/ Unmask
Caller(g) == GpioSet(g) \/ GpioSetMultiple(g) \/ GpioReadDirection(g) \/ GpioWriteDirection(g)
               \/ GpioDrive(g)
Writer(t) == Write(t) \/ WaitEnds(t) \/ WaitInterrupted(t) \/ WriteReturns(t)

LedNext ==
  \/ Timeout \/ LedEvent \/ ServerCommand \/ Click
  \/ Interrupt
  \/ Open \/ OpenEnable \/ Release \/ ReleaseDisable \/ Ioctl \/ MappedStore \/ SetBrightness
  \/ \E t \in Writers : Writer(t)
  \/ \E g \in Callers : Caller(g)

\* The loops turn, interrupts are served, begun calls go on; no call need be made.
LedFairness ==
  /\ WF_vars(Timeout) /\ WF_vars(LedEvent) /\ WF_vars(ServerCommand)
  /\ WF_vars(Interrupt)
  /\ WF_vars(OpenEnable) /\ WF_vars(ReleaseDisable)
  /\ \A t \in Writers : WF_vars(WaitEnds(t)) /\ WF_vars(WriteReturns(t))
  /\ \A g \in Callers : WF_vars(GpioWriteDirection(g)) /\ WF_vars(GpioDrive(g))

LedSpec == LedInit /\ [][LedNext]_vars /\ LedFairness
-----------------------------------------------------------------------------
(***************************************************************************)
(* Properties.                                                             *)
(***************************************************************************)
\* The grid `leds` when the commands cs have arrived there: after[k] is left by the first k.
Executed(leds, cs) ==
  LET after[k \in 0 .. Len(cs)] == IF k = 0 THEN leds ELSE Execute(after[k - 1], cs[k])
  IN  after[Len(cs)]

Reached == Executed(grid, cmds)

\* The grid follows the register file: once the commands under way have arrived, it shows what
\* REG_DATA and BAR1 report, except for an LED clicked in the window or whose command found the
\* socket full, whatever the order of direction changes, atomic and data writes.  The colours
\* differ until the first command (led.c, f0_bar0.c, f0_bar1.c, protocol.c).
GridFollows ==
  \A l \in Leds \ stray :
    /\ Reached[l].on <=> l \in dev.on
    /\ Reached[l].color = dev.color[l] \/ (dev.color[l] = 0 /\ Reached[l].color = GridColor)

\* An event that raised the line reaches lux_smart_led_irq_handler while the file stays open: no
\* order of event, acknowledgement and reading of the cause loses it, given that the clock turns
\* the event loop (device.c:342, led.c:200, lux-irq.c, lux-cdev.c:48).
EventsReachTheHandler == dev.status ~> dev.cause = {} \/ file # "open"

=============================================================================
