-------------------------------- MODULE LedServer --------------------------------
(***************************************************************************)
(* The LED grid server (qemu-devices/led): one poll loop over the Wayland  *)
(* connection, a listening socket and a table of clients.  Clients change  *)
(* the grid; frame callbacks draw it into one of two buffers.              *)
(*                                                                         *)
(* A turn of the loop serves each ready socket once; the handlers share no *)
(* local state, so each is a step of its own.  The grid is one Boolean:    *)
(* what matters is whether the window shows the grid as it is.             *)
(*                                                                         *)
(* The compositor is external.  It may configure the window at any time,   *)
(* takes commits in order, gives a buffer back as soon as a later commit   *)
(* replaces it, and then sends the frame callbacks of what it has taken.   *)
(***************************************************************************)
EXTENDS LedGrid, Sequences, FiniteSets, SequencesExt, FiniteSetsExt

CONSTANTS
  MAX_CLIENT_CONNECTIONS,
  Clients,    \* connections from outside
  Latecomers, \* sets of clients that are not there yet when the window is
  Window,     \* the server's connection to itself (client_fd)
  NoClient,   \* an empty slot
  Sizes,      \* sizes the compositor asks for, unless it leaves the size to the client
  Default,    \* the size the client takes then
  Positions,  \* where the pointer goes
  MaxCalls    \* acts of clients, user and compositor in a behaviour

ASSUME ServerAssumption ==
  /\ MAX_CLIENT_CONNECTIONS \in Nat \ {0} /\ MaxCalls \in Nat
  /\ IsFiniteSet(Clients) /\ Latecomers \subseteq SUBSET Clients
  /\ Window \notin Clients /\ NoClient \notin Clients \cup {Window}
  /\ Sizes \subseteq Dimensions /\ Default \in Sizes /\ Positions \subseteq Points
  /\ \A size \in Sizes : size.width >= LED_COLS /\ size.height >= LED_ROWS

VARIABLES
  fds,        \* protocol_state.fds from index 2 on
  conn_nr,
  away,       \* clients that have not connected
  backlog,    \* connections waiting to be accepted
  inbox,      \* commands a connection has sent and the server has not read
  hung,       \* connections closed by their client
  grid,       \* struct led_grid
  window,     \* struct window
  buffer,     \* struct render_buffer, with what is painted into each half
  pressed,    \* struct pointer_event: a button has been seen, and was pressed last
  requests,   \* commits on their way to the compositor
  wayland,    \* events on their way back
  screen,     \* the compositor: the half it shows, and the frame callbacks it owes
  calls

vars == <<fds, conn_nr, away, backlog, inbox, hung, grid, window, buffer, pressed, requests,
          wayland, screen, calls>>

Connections == Clients \cup {Window}
Slots == 1 .. MAX_CLIENT_CONNECTIONS
Halves == {0, 1}
Gone == 2       \* a buffer that has been destroyed

NoSize == [width |-> 0, height |-> 0]
AllSizes == Sizes \cup {NoSize}

Buttons == {"pressed", "released", "none"}

Events == [ev : {"toplevel"}, size : AllSizes] \cup [ev : {"release"}, half : Halves \cup {Gone}]
            \cup [ev : {"pointer"}, button : Buttons, at : Positions]
            \cup [ev : {"surface", "done"}]
Event(ev) == [ev |-> ev]
ReleaseOf(half) == [ev |-> "release", half |-> half]

\* Types; conn_nr counts the slots in use, through hang-ups and connections beyond the table.
ServerTypeOK ==
  /\ fds \in [Slots -> Connections \cup {NoClient}]
  /\ conn_nr = Cardinality({i \in Slots : fds[i] # NoClient})
  /\ away \subseteq Clients /\ backlog \in Seq(Connections)
  /\ inbox \in [Connections -> 0 .. MaxCalls] /\ hung \subseteq Clients
  /\ grid \in BOOLEAN
  /\ window \in [initialized : BOOLEAN, pending_resize : BOOLEAN,
                 current : AllSizes, pending : AllSizes]
  /\ pressed \in BOOLEAN
  /\ buffer \in [dim : AllSizes, allocated : BOOLEAN,
                 busy : [Halves -> BOOLEAN], image : [Halves -> BOOLEAN]]
  /\ requests \in Seq(Halves \cup {Gone})
  /\ wayland \in Seq(Events)
  /\ screen \in [half : Halves \cup {Gone}, callbacks : Nat]
  /\ calls \in 0 .. MaxCalls

ServerInit ==
  /\ fds = [i \in Slots |-> NoClient] /\ conn_nr = 0
  /\ away \in Latecomers /\ backlog = Append(SetToSeq(Clients \ away), Window)
  /\ inbox = [c \in Connections |-> 0] /\ hung = {}
  /\ grid = FALSE
  /\ window = [initialized |-> FALSE, pending_resize |-> FALSE,
               current |-> NoSize, pending |-> NoSize]
  /\ pressed = FALSE
  /\ buffer = [dim |-> NoSize, allocated |-> FALSE, busy |-> [b \in Halves |-> FALSE],
               image |-> [b \in Halves |-> FALSE]]
  /\ requests = <<>>
  /\ \E size \in AllSizes : wayland = <<[ev |-> "toplevel", size |-> size], Event("surface")>>
  /\ screen = [half |-> Gone, callbacks |-> 0]
  /\ calls = 0

Counted == calls < MaxCalls /\ calls' = calls + 1
-----------------------------------------------------------------------------
(***************************************************************************)
(* The table of connections.                                               *)
(***************************************************************************)
EmptySlots == {i \in Slots : fds[i] = NoClient}

\* Mutant of Accept: takes the first slot.
AcceptFirst ==
  /\ backlog # <<>>
  /\ conn_nr <= MAX_CLIENT_CONNECTIONS
  /\ backlog' = Tail(backlog)
  /\ fds' = [fds EXCEPT ![1] = Head(backlog)]
  /\ conn_nr' = IF fds[1] = NoClient THEN conn_nr + 1 ELSE conn_nr
  /\ UNCHANGED <<away, inbox, hung, grid, window, buffer, pressed, requests, wayland, screen,
                 calls>>

\* conn_nr never exceeds the limit, so that every client is accepted; one that finds no slot is
\* not polled.
Accept ==
  /\ backlog # <<>>
  /\ conn_nr <= MAX_CLIENT_CONNECTIONS
  /\ backlog' = Tail(backlog)
  /\ IF EmptySlots = {} THEN UNCHANGED <<fds, conn_nr>>
     ELSE fds' = [fds EXCEPT ![Min(EmptySlots)] = Head(backlog)] /\ conn_nr' = conn_nr + 1
  /\ UNCHANGED <<away, inbox, hung, grid, window, buffer, pressed, requests, wayland, screen,
                 calls>>

\* Mutant of Disconnect: does not free the slot.
DisconnectKeepingSlot(i) ==
  /\ fds[i] \in hung
  /\ conn_nr' = conn_nr - 1
  /\ UNCHANGED <<fds, away, backlog, inbox, hung, grid, window, buffer, pressed, requests,
                 wayland, screen,
                 calls>>

\* POLLHUP: commands that have not been read are dropped.
Disconnect(i) ==
  /\ fds[i] \in hung
  /\ fds' = [fds EXCEPT ![i] = NoClient]
  /\ conn_nr' = conn_nr - 1
  /\ inbox' = [inbox EXCEPT ![fds[i]] = 0]
  /\ UNCHANGED <<away, backlog, hung, grid, window, buffer, pressed, requests, wayland, screen,
                 calls>>

\* One command a turn.  It may leave the grid as it is.
Command(i) ==
  /\ fds[i] \in Connections \ hung
  /\ inbox[fds[i]] > 0
  /\ inbox' = [inbox EXCEPT ![fds[i]] = @ - 1]
  /\ grid' \in BOOLEAN
  /\ UNCHANGED <<fds, conn_nr, away, backlog, hung, window, buffer, pressed, requests, wayland,
                 screen, calls>>
-----------------------------------------------------------------------------
(***************************************************************************)
(* Drawing.                                                                *)
(***************************************************************************)
\* wl_buffer_destroy: what the compositor still has of a buffer concerns nobody any more.
Destroyed(queue) == [i \in DOMAIN queue |-> Gone]
WithoutReleases(queue) ==
  [i \in DOMAIN queue |-> IF queue[i].ev = "release" THEN ReleaseOf(Gone) ELSE queue[i]]

\* The window as render_draw finds it: wl_buffers, commits, events and screen after a resize.
Resized ==
  LET anew == window.pending_resize /\ ~(buffer.allocated /\ window.pending = buffer.dim)
  IN  [window |-> IF window.pending_resize
                  THEN [window EXCEPT !.current = window.pending, !.pending_resize = FALSE]
                  ELSE window,
       buffer |-> IF anew THEN [dim |-> window.pending, allocated |-> TRUE,
                                busy |-> [b \in Halves |-> FALSE],
                                image |-> [b \in Halves |-> FALSE]]
                  ELSE buffer,
       requests |-> IF anew THEN Destroyed(requests) ELSE requests,
       wayland |-> IF anew THEN WithoutReleases(Tail(wayland)) ELSE Tail(wayland),
       screen |-> IF anew THEN [screen EXCEPT !.half = Gone] ELSE screen]

\* What render_draw paints into a half of each size.
Picture == [dim \in Sizes |-> [p \in Cells(dim) |-> PaintedLed(dim, p)]]

\* Mutant of FreeHalves: forgets that the second half may be busy.
FreeHalvesUnchecked(busy) == {b \in Halves : b = 1 \/ ~busy[b]}

FreeHalves(busy) == {b \in Halves : ~busy[b]}

\* wayland_client_redraw.  With both halves busy it asks for no frame callback either.
Redraw ==
  IF ~window.initialized
  THEN wayland' = Tail(wayland) /\ UNCHANGED <<window, buffer, requests, screen>>
  ELSE LET r == Resized
           free == FreeHalves(r.buffer.busy)
           half == Min(free)
       IN  /\ window' = r.window /\ wayland' = r.wayland /\ screen' = r.screen
           /\ IF free = {} THEN buffer' = r.buffer /\ requests' = r.requests
              ELSE /\ buffer' = [r.buffer EXCEPT !.busy[half] = TRUE, !.image[half] = grid]
                   /\ requests' = Append(r.requests, half)

\* xdg_surface.configure, and the done event of a frame callback.
Draw ==
  /\ wayland # <<>>
  /\ Head(wayland).ev \in {"surface", "done"}
  /\ Redraw
  /\ UNCHANGED <<fds, conn_nr, away, backlog, inbox, hung, grid, pressed, calls>>

\* A window whose first size is not left to the client is never initialized.
ToplevelConfigure ==
  /\ wayland # <<>>
  /\ Head(wayland).ev = "toplevel"
  /\ wayland' = Tail(wayland)
  /\ LET size == Head(wayland).size
     IN  window' = CASE size = NoSize -> [window EXCEPT !.pending = Default, !.initialized = TRUE,
                                                   !.pending_resize = TRUE]
                     [] size # NoSize /\ size = window.current -> window
                     [] OTHER -> [window EXCEPT !.pending = size, !.pending_resize = TRUE]
  /\ UNCHANGED <<fds, conn_nr, away, backlog, inbox, hung, grid, buffer, pressed, requests, screen,
                 calls>>

\* Mutant of BufferRelease: knows the first half only.
BufferReleaseFirst ==
  /\ wayland # <<>>
  /\ Head(wayland).ev = "release"
  /\ wayland' = Tail(wayland)
  /\ buffer' = [buffer EXCEPT !.busy[0] = @ /\ Head(wayland).half # 0]
  /\ UNCHANGED <<fds, conn_nr, away, backlog, inbox, hung, grid, window, pressed, requests, screen,
                 calls>>

BufferRelease ==
  /\ wayland # <<>>
  /\ Head(wayland).ev = "release"
  /\ wayland' = Tail(wayland)
  /\ buffer' = [buffer EXCEPT !.busy = [b \in Halves |-> @[b] /\ b # Head(wayland).half]]
  /\ UNCHANGED <<fds, conn_nr, away, backlog, inbox, hung, grid, window, pressed, requests, screen,
                 calls>>

\* A frame of pointer events.  event_mask is never cleared: once a button has been pressed, each
\* frame is a press until the release.
PointerFrame ==
  /\ wayland # <<>>
  /\ Head(wayland).ev = "pointer"
  /\ wayland' = Tail(wayland)
  /\ LET e == Head(wayland)
     IN  /\ pressed' = (e.button = "pressed" \/ (e.button = "none" /\ pressed))
         /\ inbox' = IF pressed' /\ UnderlyingLed(window.current, e.at) >= 0
                     THEN [inbox EXCEPT ![Window] = @ + 1] ELSE inbox
  /\ UNCHANGED <<fds, conn_nr, away, backlog, hung, grid, window, buffer, requests, screen, calls>>
-----------------------------------------------------------------------------
(***************************************************************************)
(* Clients, the user and the compositor.                                   *)
(***************************************************************************)
Connect(c) ==
  /\ c \in away
  /\ Counted
  /\ away' = away \ {c} /\ backlog' = Append(backlog, c)
  /\ UNCHANGED <<fds, conn_nr, inbox, hung, grid, window, buffer, pressed, requests, wayland,
                 screen>>

SendCommand(c) ==
  /\ c \notin away \cup hung
  /\ Counted
  /\ inbox' = [inbox EXCEPT ![c] = @ + 1]
  /\ UNCHANGED <<fds, conn_nr, away, backlog, hung, grid, window, buffer, pressed, requests,
                 wayland, screen>>

HangUp(c) ==
  /\ c \notin away \cup hung
  /\ Counted
  /\ hung' = hung \cup {c}
  /\ UNCHANGED <<fds, conn_nr, away, backlog, inbox, grid, window, buffer, pressed, requests,
                 wayland, screen>>

Sent(events) ==
  /\ Counted
  /\ wayland' = wayland \o events
  /\ UNCHANGED <<fds, conn_nr, away, backlog, inbox, hung, grid, window, buffer, pressed,
                 requests, screen>>

Configure == \E size \in AllSizes :
               Sent(<<[ev |-> "toplevel", size |-> size], Event("surface")>>)

\* Over a window that has been drawn.
Point ==
  /\ buffer.allocated
  /\ \E button \in Buttons, at \in Positions :
       Sent(<<[ev |-> "pointer", button |-> button, at |-> at]>>)

\* A commit replaces what is shown, whose buffer goes back to the client.
CompositorTakes ==
  /\ requests # <<>>
  /\ requests' = Tail(requests)
  /\ screen' = [half |-> Head(requests), callbacks |-> screen.callbacks + 1]
  /\ wayland' = IF screen.half = Gone THEN wayland
                ELSE Append(wayland, ReleaseOf(screen.half))
  /\ UNCHANGED <<fds, conn_nr, away, backlog, inbox, hung, grid, window, buffer, pressed, calls>>

CompositorRepaints ==
  /\ screen.callbacks > 0
  /\ wayland' = wayland \o [i \in 1 .. screen.callbacks |-> Event("done")]
  /\ screen' = [screen EXCEPT !.callbacks = 0]
  /\ UNCHANGED <<fds, conn_nr, away, backlog, inbox, hung, grid, window, buffer, pressed,
                 requests, calls>>
-----------------------------------------------------------------------------
Wayland == Draw \/ ToplevelConfigure \/ BufferRelease \/ PointerFrame
Compositor == CompositorTakes \/ CompositorRepaints
Outside == Configure \/ Point \/ \E c \in Clients : Connect(c) \/ SendCommand(c) \/ HangUp(c)

ServerNext ==
  \/ Wayland \/ Compositor \/ Outside
  \/ Accept
  \/ \E i \in Slots : Disconnect(i) \/ Command(i)

\* Each socket is served in every turn in which it is ready; the compositor repaints.
ServerFairness ==
  /\ WF_vars(Wayland)
  /\ WF_vars(CompositorTakes) /\ WF_vars(CompositorRepaints)
  /\ WF_vars(Accept)
  /\ \A i \in Slots : WF_vars(Disconnect(i)) /\ WF_vars(Command(i))

ServerSpec == ServerInit /\ [][ServerNext]_vars /\ ServerFairness
-----------------------------------------------------------------------------
(***************************************************************************)
(* Properties.                                                             *)
(***************************************************************************)
\* A half is busy exactly while the compositor has it once: in a commit, on the screen or in a
\* release on its way back.  So the server never paints into what is shown or about to be, and
\* never waits for a release that will not come, resizes included.
BusyOwned ==
  \A b \in Halves :
    Cardinality({i \in DOMAIN requests : requests[i] = b})
      + Cardinality({i \in DOMAIN wayland : wayland[i] = ReleaseOf(b)})
      + (IF screen.half = b THEN 1 ELSE 0)
    = IF buffer.busy[b] THEN 1 ELSE 0

\* A click on an LED is for that LED: in every cell of the grid the look-up of seat.c and the
\* painting of render.c agree, through resizes, on which LED is there and on whether there is one,
\* given that the window is high enough for the circles of a column not to overlap.
ClicksHitWhatIsPainted ==
  buffer.allocated /\ SpacingX(window.current) <= SpacingY(window.current) =>
    \A p \in Cells(window.current) : UnderlyingLed(window.current, p) = Picture[buffer.dim][p]

Shown(image) == screen.half \in Halves /\ buffer.image[screen.half] = image

\* Once initialized, the window comes to show the grid whenever that stays as it is: configures
\* that draw out of turn and draws that find both halves busy never end the chain of frame
\* callbacks.
GridShown ==
  \A image \in BOOLEAN :
    window.initialized /\ grid = image ~> Shown(image) \/ grid # image

\* The commands of a connection that has a slot are served, whatever others come and go.
CommandServed ==
  \A c \in Connections :
    (\E i \in Slots : fds[i] = c) /\ inbox[c] > 0 ~> inbox[c] = 0 \/ c \in hung

=============================================================================
