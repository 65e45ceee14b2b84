---------------------------- MODULE LuxDriversProofs ----------------------------
(***************************************************************************)
(* The life cycle of the lux drivers, whatever modules come and go, for    *)
(* any number of processes that open /dev/lux and whatever fails.          *)
(*                                                                         *)
(* First the opens and closes: LinesHaveAFile is inductive with the type   *)
(* of pc, as only the steps of File change its variables, and each of them *)
(* moves one process.                                                      *)
(*                                                                         *)
(* Then the queue of instructions.  All that probes, removes and error     *)
(* paths may put into it keeps it tidy and sound (Sound below): what there *)
(* is of a device's things is what the rest of its probe, or of its        *)
(* remove, leaves.  With this the invariant LuxInv is inductive, and what  *)
(* the runs check of the life cycle follows.                               *)
(***************************************************************************)
EXTENDS LuxDrivers, SequenceTheorems, TLAPS

Places == {"closed", "request", "request_err", "enable", "open", "free_err", "disable"}

FilesInv == pc \in [Users -> Places] /\ held \subseteq {"LED", "LED_ERR"} /\ LinesHaveAFile

\* Moving between two places that hold a line, or two that do not, changes no holder.
LEMMA Bystander ==
  ASSUME NEW line \in {"LED", "LED_ERR"}, NEW places, NEW u \in Users, NEW to \in Places,
         pc \in [Users -> Places], HeldAt(line, places), pc' = [pc EXCEPT ![u] = to],
         pc[u] \in places <=> to \in places, line \in held' <=> line \in held
  PROVE  HeldAt(line, places)'
<1>1. {w \in Users : pc'[w] \in places} = {w \in Users : pc[w] \in places}
  OBVIOUS
<1>2. QED
  BY <1>1 DEF HeldAt

\* A process that takes a free line becomes its one holder.
LEMMA Taker ==
  ASSUME NEW line \in {"LED", "LED_ERR"}, NEW places, NEW u \in Users, NEW to \in places,
         to \in Places, pc \in [Users -> Places], HeldAt(line, places),
         pc' = [pc EXCEPT ![u] = to], line \notin held, line \in held'
  PROVE  HeldAt(line, places)'
<1>1. {w \in Users : pc[w] \in places} = {}
  BY DEF HeldAt
<1>2. {w \in Users : pc'[w] \in places} = {u}
  BY <1>1
<1>3. QED
  BY <1>2 DEF HeldAt

\* When the holder lets go, nobody holds the line.
LEMMA Giver ==
  ASSUME NEW line \in {"LED", "LED_ERR"}, NEW places, NEW u \in Users, NEW to \in Places,
         pc \in [Users -> Places], HeldAt(line, places), pc' = [pc EXCEPT ![u] = to],
         pc[u] \in places, to \notin places, line \notin held'
  PROVE  HeldAt(line, places)'
<1>1. {w \in Users : pc[w] \in places} = {u}
  BY DEF HeldAt
<1>2. {w \in Users : pc'[w] \in places} = {}
  BY <1>1
<1>3. QED
  BY <1>2 DEF HeldAt
-----------------------------------------------------------------------------
LedPlaces == {"request_err", "enable", "open"}
ErrPlaces == {"enable", "open", "free_err"}
OffPlaces == {"open", "free_err", "disable"}

\* A step that leaves the files alone.
LEMMA FilesUntouched == FilesInv /\ UNCHANGED files => FilesInv'
  BY DEF FilesInv, files, LinesHaveAFile, HeldAt

\* The shape of every step of a file: u moves, and the three parts are kept.
LEMMA FileMoves ==
  ASSUME FilesInv, NEW u \in Users, NEW to \in Places, pc' = [pc EXCEPT ![u] = to],
         held' \subseteq {"LED", "LED_ERR"}, HeldAt("LED", LedPlaces)', HeldAt("LED_ERR", ErrPlaces)',
         irq_en' => to \in OffPlaces \/ (irq_en /\ pc[u] \notin OffPlaces)
  PROVE  FilesInv'
<1>1. pc' \in [Users -> Places]
  BY DEF FilesInv
<1>2. ASSUME irq_en' PROVE \E w \in Users : pc'[w] \in OffPlaces
  <2>1. CASE to \in OffPlaces
    BY <2>1 DEF FilesInv
  <2>2. CASE irq_en /\ pc[u] \notin OffPlaces
    BY <2>2 DEF FilesInv, LinesHaveAFile, OffPlaces
  <2>3. QED
    BY <1>2, <2>1, <2>2
<1>3. QED
  BY <1>1, <1>2 DEF FilesInv, LinesHaveAFile, LedPlaces, ErrPlaces, OffPlaces

\* Each step of lux_smart_open and lux_smart_release.
LEMMA FileKeepsInv == ASSUME FilesInv, NEW u \in Users, File(u) PROVE FilesInv'
<1> USE DEF FilesInv, LinesHaveAFile, LedPlaces, ErrPlaces, OffPlaces, Places
<1>1. CASE Open(u)
  <2>1. HeldAt("LED", LedPlaces)' /\ HeldAt("LED_ERR", ErrPlaces)'
    BY <1>1, Bystander DEF Open
  <2>2. QED
    BY <1>1, <2>1, FileMoves DEF Open
<1>2. CASE RequestLed(u)
  <2>1. HeldAt("LED", LedPlaces)'
    BY <1>2, Taker DEF RequestLed, Request
  <2>2. HeldAt("LED_ERR", ErrPlaces)'
    BY <1>2, Bystander DEF RequestLed, Request
  <2>3. QED
    BY <1>2, <2>1, <2>2, FileMoves DEF RequestLed, Request
<1>3. CASE RequestLedFails(u)
  <2>1. HeldAt("LED", LedPlaces)' /\ HeldAt("LED_ERR", ErrPlaces)'
    BY <1>3, Bystander DEF RequestLedFails
  <2>2. QED
    BY <1>3, <2>1, FileMoves DEF RequestLedFails
<1>4. CASE RequestLedErr(u)
  <2>1. HeldAt("LED", LedPlaces)'
    BY <1>4, Bystander DEF RequestLedErr, Request
  <2>2. HeldAt("LED_ERR", ErrPlaces)'
    BY <1>4, Taker DEF RequestLedErr, Request
  <2>3. QED
    BY <1>4, <2>1, <2>2, FileMoves DEF RequestLedErr, Request
<1>5. CASE RequestLedErrFails(u)
  <2>1. HeldAt("LED", LedPlaces)'
    BY <1>5, Giver DEF RequestLedErrFails, Free
  <2>2. HeldAt("LED_ERR", ErrPlaces)'
    BY <1>5, Bystander DEF RequestLedErrFails, Free
  <2>3. QED
    BY <1>5, <2>1, <2>2, FileMoves DEF RequestLedErrFails, Free
<1>6. CASE Enable(u)
  <2>1. HeldAt("LED", LedPlaces)' /\ HeldAt("LED_ERR", ErrPlaces)'
    BY <1>6, Bystander DEF Enable, Control
  <2>2. QED
    BY <1>6, <2>1, FileMoves DEF Enable, Control
<1>7. CASE Release(u)
  <2>1. HeldAt("LED", LedPlaces)'
    BY <1>7, Giver DEF Release, Free
  <2>2. HeldAt("LED_ERR", ErrPlaces)'
    BY <1>7, Bystander DEF Release, Free
  <2>3. QED
    BY <1>7, <2>1, <2>2, FileMoves DEF Release, Free
<1>8. CASE ReleaseErr(u)
  <2>1. HeldAt("LED", LedPlaces)'
    BY <1>8, Bystander DEF ReleaseErr, Free
  <2>2. HeldAt("LED_ERR", ErrPlaces)'
    BY <1>8, Giver DEF ReleaseErr, Free
  <2>3. QED
    BY <1>8, <2>1, <2>2, FileMoves DEF ReleaseErr, Free
<1>9. CASE Disable(u)
  <2>1. HeldAt("LED", LedPlaces)' /\ HeldAt("LED_ERR", ErrPlaces)'
    BY <1>9, Bystander DEF Disable, Control
  <2>2. QED
    BY <1>9, <2>1, FileMoves DEF Disable, Control
<1>10. QED
  BY <1>1, <1>2, <1>3, <1>4, <1>5, <1>6, <1>7, <1>8, <1>9 DEF File

\* Nobody has anything open at first.
LEMMA FilesInvInit == DriversInit => FilesInv
  BY DEF DriversInit, FilesInv, LinesHaveAFile, HeldAt, Places

\* No step spoils it: those that are not a file's leave the files alone.
LEMMA FilesInvStep == FilesInv /\ [DriversNext]_vars => FilesInv'
<1> SUFFICES ASSUME FilesInv, [DriversNext]_vars PROVE FilesInv'
  OBVIOUS
<1>1. CASE \E m \in Modules : Insmod(m) \/ Rmmod(m)
  BY <1>1, FilesUntouched DEF Insmod, Rmmod
<1>2. CASE Step
  BY <1>2, FilesUntouched
     DEF Step, DoGet, DoPut, DoMask, DoForget, DoRegister, DoAdd, DoDel, DoBound, DoUnbound, Fail
<1>3. CASE (\E line \in Lines : Raise(line) \/ Dispatch(line)) \/ ChainedHandler
  BY <1>3, FilesUntouched DEF Raise, Dispatch, ChainedHandler
<1>4. CASE \E u \in Users : File(u)
  BY <1>4, FileKeepsInv
<1>5. CASE UNCHANGED vars
  BY <1>5, FilesUntouched DEF vars
<1>6. QED
  BY <1>1, <1>2, <1>3, <1>4, <1>5 DEF DriversNext

\* For any number of processes that open and close /dev/lux, any modules coming and going
\* and any failures: both LED lines are requested by exactly the one file that is open, what
\* a failed open took it gave back, and interrupts are enabled only while somebody will
\* disable them.
THEOREM DriversLinesHaveAFile == DriversSpec => []LinesHaveAFile
<1>1. FilesInv => LinesHaveAFile
  BY DEF FilesInv
<1>2. QED
  BY FilesInvInit, FilesInvStep, <1>1, PTL DEF DriversSpec
-----------------------------------------------------------------------------
(***************************************************************************)
(* What there is to do.  Things are made, and unmade, for the device that  *)
(* keeps them, by one driver, in the order of their rank.                  *)
(***************************************************************************)
Platform == {"lux-gpio-chip", "lux-chardev", "lux-irq", "lux-timer", "lux-leds"}
Things ==
  {"f0-bars", "lux-gpio-chip", "lux-chardev", "f1-bars", "lux-irq", "lux-timer",
   "vector", "domain", "mappings", "TIMER", "workqueue", "clocksource", "clockevent", "misc",
   "region", "cdev", "node", "chip", "lookup", "lux-leds",
   "pins", "leds", "remapped", "mcleds"}

Keeper(t) ==
  CASE t \in {"f0-bars", "lux-gpio-chip", "lux-chardev"} -> "f0"
    [] t \in {"f1-bars", "lux-irq", "lux-timer"} -> "f1"
    [] t \in {"vector", "domain", "mappings", "handler"} -> "lux-irq"
    [] t \in {"TIMER", "workqueue", "clocksource", "clockevent", "misc"} -> "lux-timer"
    [] t \in {"region", "cdev", "node"} -> "lux-chardev"
    [] t \in {"chip", "lookup", "lux-leds"} -> "lux-gpio-chip"
    [] t \in {"pins", "leds", "remapped", "mcleds"} -> "lux-leds"
    [] OTHER -> "init"

Driver(t) ==
  CASE Keeper(t) \in {"f0", "f1"} -> "lux-core"
    [] t \in {"pins", "leds"} -> "lux-led"
    [] t \in {"remapped", "mcleds"} -> "lux-led-mc"
    [] OTHER -> Keeper(t)

Rank(t) ==
  CASE t \in {"f0-bars", "f1-bars", "vector", "TIMER", "region", "chip", "pins", "remapped"} -> 1
    [] t \in {"lux-gpio-chip", "lux-irq", "domain", "workqueue", "cdev", "lookup", "leds",
              "mcleds"} -> 2
    [] t \in {"lux-chardev", "lux-timer", "mappings", "clocksource", "node", "lux-leds"} -> 3
    [] t = "clockevent" -> 4
    [] OTHER -> 5

Make(t) == IF t \in Platform THEN Add(t) ELSE Get(t)
Unmake(t) == IF t \in Platform THEN Del(t) ELSE Put(t)

Instrs ==
  {Make(t) : t \in Things} \cup {Unmake(t) : t \in Things}
    \cup {Bound(d, m) : d \in Devices, m \in Modules} \cup {Unbound(d) : d \in Devices}
    \cup {Mask(Lines), Mask({}), Forget, Put("handler"), Get("class"), Put("class")}
    \cup {Register(m) : m \in Modules}

\* The device an instruction is for, or the module itself; the last one for it.
Dev(x) ==
  CASE x[1] \in {"get", "put", "add", "del"} -> Keeper(x[2])
    [] x[1] \in {"bound", "unbound"} -> x[2]
    [] x[1] \in {"mask", "forget"} -> "lux-irq"
    [] OTHER -> "init"
End(x) == x[1] \in {"bound", "unbound", "register"} \/ x = Put("class")

\* Device d is the parent of e, or the parent's.
Above(d, e) ==
  \/ d = "f0" /\ e \in {"lux-gpio-chip", "lux-chardev", "lux-leds"}
  \/ d = "f1" /\ e \in {"lux-irq", "lux-timer"}
  \/ d = "lux-gpio-chip" /\ e = "lux-leds"

\* The devices and the modules, one by one.
LEMMA DevicesAre ==
  /\ Devices = {"f0", "f1"} \cup Platform
  /\ Modules = {"lux-core", "lux-irq", "lux-timer", "lux-chardev", "lux-gpio-chip", "lux-led",
                "lux-led-mc"}
<1>1. \A d : d \in Devices <=> \E m \in Modules : d \in DevicesOf(m)
  BY DEF Devices
<1>2. \A d : (\E m \in Modules : d \in DevicesOf(m)) <=> d \in {"f0", "f1"} \cup Platform
  BY DEF Modules, DevicesOf, PlatformDevice, Platform
<1>3. QED
  BY <1>1, <1>2 DEF Modules

\* Every thing is for one device and made by one driver of that device.
LEMMA KeepersAre ==
  /\ \A t \in Things : Keeper(t) \in Devices /\ Driver(t) \in Modules
                       /\ Keeper(t) \in DevicesOf(Driver(t)) /\ Rank(t) \in 1 .. 5
  /\ \A t \in Platform : t \in Things /\ Above(Keeper(t), t) /\ Keeper(t) # t
  /\ \A t \in Things \ Platform : t \notin Devices
  BY DevicesAre
     DEF Things, Platform, Keeper, Driver, Rank, Modules, DevicesOf, PlatformDevice, Above

\* A device is below its parent and what its parent is below.
LEMMA AboveIs ==
  /\ \A d, e : Above(d, e) => d # e /\ e \in Platform /\ (Keeper(e) = d \/ Above(d, Keeper(e)))
  /\ \A c, d, e : Above(c, d) /\ Above(d, e) => Above(c, e)
  BY DEF Above, Platform, Keeper

\* Instructions that look different are different, and whom they are for.
LEMMA InstructionsAre ==
  /\ \A t \in Things : /\ Make(t) \in Instrs /\ Dev(Make(t)) = Keeper(t) /\ ~End(Make(t))
                       /\ Unmake(t) \in Instrs /\ Dev(Unmake(t)) = Keeper(t) /\ ~End(Unmake(t))
  /\ \A d \in Devices : /\ Unbound(d) \in Instrs /\ Dev(Unbound(d)) = d /\ End(Unbound(d))
                        /\ \A m \in Modules : /\ Bound(d, m) \in Instrs /\ Dev(Bound(d, m)) = d
                                              /\ End(Bound(d, m))
<1>1. ASSUME NEW t \in Things
      PROVE  /\ Make(t) \in Instrs /\ Dev(Make(t)) = Keeper(t) /\ ~End(Make(t))
             /\ Unmake(t) \in Instrs /\ Dev(Unmake(t)) = Keeper(t) /\ ~End(Unmake(t))
  <2>1. Make(t) \in Instrs /\ Unmake(t) \in Instrs
    BY DEF Instrs
  <2>2. t # "class"
    BY DEF Things
  <2>3. QED
    BY <2>1, <2>2 DEF Make, Unmake, Add, Del, Get, Put, Dev, End
<1>2. ASSUME NEW d \in Devices, NEW m \in Modules
      PROVE  /\ Unbound(d) \in Instrs /\ Dev(Unbound(d)) = d /\ End(Unbound(d))
             /\ Bound(d, m) \in Instrs /\ Dev(Bound(d, m)) = d /\ End(Bound(d, m))
  <2>1. Bound(d, m) \in Instrs /\ Unbound(d) \in Instrs
    BY DEF Instrs
  <2>2. QED
    BY <2>1 DEF Bound, Unbound, Dev, End
<1>3. QED
  BY <1>1, <1>2 DEF Modules

\* Instructions with different objects are different.
LEMMA MakeOnce ==
  /\ \A s, t \in Things : /\ Make(s) = Make(t) => s = t
                          /\ Unmake(s) = Unmake(t) => s = t
                          /\ Make(s) # Unmake(t)
  /\ \A d, e, l, m : /\ Bound(d, m) # Unbound(e)
                     /\ Bound(d, m) = Bound(e, l) => d = e /\ m = l
                     /\ Unbound(d) = Unbound(e) => d = e
  BY DEF Make, Unmake, Add, Del, Get, Put, Bound, Unbound
-----------------------------------------------------------------------------
(***************************************************************************)
(* Order.  What is to do is tidy: what there is to do for a device is in   *)
(* one piece, up to its end, and behind what there is for the devices      *)
(* below it; what a probe makes is made in its order, and what has to go   *)
(* first goes first.                                                       *)
(***************************************************************************)
Later(s, t) == Keeper(s) = Keeper(t) /\ Driver(s) = Driver(t) /\ Rank(t) < Rank(s)
Under(s, t) == t \in Platform /\ s \notin Platform /\ Keeper(s) = Keeper(t)

MustFollow(x, y) ==
  \/ \E t \in Things : /\ x = Make(t)
                       /\ \/ y = Bound(Keeper(t), Driver(t))
                          \/ \E s \in Things : y = Make(s) /\ Later(s, t)
  \/ \E t \in Things : /\ x = Unmake(t)
                       /\ \/ y = Unbound(Keeper(t))
                          \/ \E s \in Things : y = Unmake(s) /\ Under(s, t)
  \/ x = Forget /\ y \in {Put("domain"), Put("mappings"), Unbound("lux-irq")}
  \/ x = Mask(Lines) /\ y = Make("vector")
  \/ x \in {Make("vector"), Make("domain"), Make("mappings")} /\ y = Mask({})
  \/ x = Unmake("lux-timer") /\ y = Unmake("lux-irq")

MayFollow(x, y) ==
  x # y /\ (End(x) => Dev(y) # Dev(x)) /\ ~Above(Dev(x), Dev(y))

Whole(q) ==
  \A i \in DOMAIN q : \E j \in DOMAIN q :
    i <= j /\ End(q[j]) /\ \A k \in i .. j : Dev(q[k]) = Dev(q[i])
Following(q) ==
  \A i \in DOMAIN q : \A y : MustFollow(q[i], y) => \E j \in DOMAIN q : i < j /\ q[j] = y
Apart(q) == \A i, j \in DOMAIN q : i < j => MayFollow(q[i], q[j])

Tidy(q) == Whole(q) /\ Following(q) /\ Apart(q)

In(x, q) == \E i \in DOMAIN q : q[i] = x
AtRest(d, q) == \A i \in DOMAIN q : Dev(q[i]) # d
Clear(d, q) == \A i \in DOMAIN q : Dev(q[i]) # d /\ ~Above(d, Dev(q[i]))

\* r is what is left of q after n instructions.
Rest(r, q, n) ==
  n \in 0 .. Len(q) /\ Len(r) = Len(q) - n /\ \A i \in 1 .. Len(r) : r[i] = q[i + n]

\* What is left of a tidy queue is tidy.
LEMMA RestTidy ==
  ASSUME NEW S, NEW q \in Seq(S), NEW r \in Seq(S), NEW n, Rest(r, q, n), Tidy(q)
  PROVE  Tidy(r)
<1>1. /\ n \in Nat /\ Len(q) \in Nat /\ Len(r) \in Nat /\ Len(r) = Len(q) - n
      /\ DOMAIN q = 1 .. Len(q) /\ DOMAIN r = 1 .. Len(r)
      /\ \A i \in DOMAIN r : r[i] = q[i + n] /\ i + n \in DOMAIN q
      /\ \A i \in DOMAIN q : i > n => i - n \in DOMAIN r /\ q[i] = r[i - n]
  <2>1. /\ n \in Nat /\ Len(q) \in Nat /\ Len(r) \in Nat /\ Len(r) = Len(q) - n
        /\ DOMAIN q = 1 .. Len(q) /\ DOMAIN r = 1 .. Len(r)
        /\ \A i \in 1 .. Len(r) : r[i] = q[i + n]
    BY DEF Rest
  <2>2. \A i \in DOMAIN q : i > n => i - n \in 1 .. Len(r) /\ (i - n) + n = i
    BY <2>1
  <2>3. \A i \in DOMAIN q : i > n => q[i] = r[i - n]
    <3> SUFFICES ASSUME NEW i \in DOMAIN q, i > n PROVE q[i] = r[i - n]
      OBVIOUS
    <3>1. r[i - n] = q[(i - n) + n]
      BY <2>1, <2>2
    <3>2. QED
      BY <2>2, <3>1
  <2>4. QED
    BY <2>1, <2>2, <2>3
<1>2. Whole(r)
  <2> SUFFICES ASSUME NEW i \in DOMAIN r
               PROVE  \E j \in DOMAIN r :
                        i <= j /\ End(r[j]) /\ \A k \in i .. j : Dev(r[k]) = Dev(r[i])
    BY DEF Whole
  <2>1. PICK j \in DOMAIN q :
          i + n <= j /\ End(q[j]) /\ \A k \in (i + n) .. j : Dev(q[k]) = Dev(q[i + n])
    BY <1>1 DEF Tidy, Whole
  <2>2. j - n \in DOMAIN r /\ i <= j - n /\ r[j - n] = q[j]
    BY <1>1, <2>1
  <2>3. \A k \in i .. (j - n) : k \in DOMAIN r /\ k + n \in (i + n) .. j
    BY <1>1, <2>1, <2>2
  <2>4. \A k \in i .. (j - n) : Dev(r[k]) = Dev(r[i])
    BY <1>1, <2>1, <2>3
  <2>5. QED
    BY <2>1, <2>2, <2>4
<1>3. Following(r)
  <2> SUFFICES ASSUME NEW i \in DOMAIN r, NEW y, MustFollow(r[i], y)
               PROVE  \E j \in DOMAIN r : i < j /\ r[j] = y
    BY DEF Following
  <2>1. PICK j \in DOMAIN q : i + n < j /\ q[j] = y
    BY <1>1 DEF Tidy, Following
  <2>2. j - n \in DOMAIN r /\ i < j - n /\ r[j - n] = y
    BY <1>1, <2>1
  <2>3. QED
    BY <2>2
<1>4. Apart(r)
  <2> SUFFICES ASSUME NEW i \in DOMAIN r, NEW j \in DOMAIN r, i < j PROVE MayFollow(r[i], r[j])
    BY DEF Apart
  <2>1. i + n \in DOMAIN q /\ j + n \in DOMAIN q /\ i + n < j + n
    BY <1>1
  <2>2. MayFollow(q[i + n], q[j + n])
    BY <2>1 DEF Tidy, Apart
  <2>3. QED
    BY <1>1, <2>2
<1>5. QED
  BY <1>2, <1>3, <1>4 DEF Tidy

\* The tail is what is left of a queue without its head.
LEMMA TailIsRest ==
  ASSUME NEW S, NEW q \in Seq(S), q # <<>>
  PROVE  Tail(q) \in Seq(S) /\ Rest(Tail(q), q, 1) /\ Head(q) \in S /\ Head(q) = q[1]
         /\ 1 \in DOMAIN q
  BY DEF Rest

\* The head of a tidy queue is in it once.
LEMMA InTail ==
  ASSUME NEW S, NEW q \in Seq(S), q # <<>>, Tidy(q)
  PROVE  /\ \A x : In(x, Tail(q)) <=> In(x, q) /\ x # Head(q)
         /\ In(Head(q), q)
<1>1. /\ Len(q) \in Nat \ {0} /\ DOMAIN q = 1 .. Len(q) /\ Head(q) = q[1]
      /\ DOMAIN Tail(q) = 1 .. (Len(q) - 1)
      /\ \A i \in DOMAIN Tail(q) : Tail(q)[i] = q[i + 1] /\ i + 1 \in DOMAIN q
      /\ \A i \in DOMAIN q : i # 1 => i - 1 \in DOMAIN Tail(q) /\ Tail(q)[i - 1] = q[i]
  OBVIOUS
<1>2. \A i \in DOMAIN q : i # 1 => q[1] # q[i]
  BY <1>1 DEF Tidy, Apart, MayFollow
<1>3. \A x : In(x, Tail(q)) => In(x, q) /\ x # Head(q)
  BY <1>1, <1>2 DEF In
<1>4. \A x : In(x, q) /\ x # Head(q) => In(x, Tail(q))
  BY <1>1 DEF In
<1>5. QED
  BY <1>1, <1>3, <1>4 DEF In

\* What is at the head of a tidy queue concerns no device but its own.
LEMMA FirstOfDevice ==
  ASSUME NEW S, NEW q \in Seq(S), q # <<>>, Tidy(q)
  PROVE  /\ \A i \in DOMAIN Tail(q) : MayFollow(Head(q), Tail(q)[i])
         /\ \A d : d # Dev(Head(q)) => (AtRest(d, Tail(q)) <=> AtRest(d, q))
<1>1. /\ Len(q) \in Nat \ {0} /\ DOMAIN q = 1 .. Len(q) /\ Head(q) = q[1]
      /\ DOMAIN Tail(q) = 1 .. (Len(q) - 1)
      /\ \A i \in DOMAIN Tail(q) : Tail(q)[i] = q[i + 1] /\ i + 1 \in DOMAIN q /\ 1 < i + 1
      /\ \A i \in DOMAIN q : i # 1 => i - 1 \in DOMAIN Tail(q) /\ Tail(q)[i - 1] = q[i]
  OBVIOUS
<1>2. \A i \in DOMAIN Tail(q) : MayFollow(Head(q), Tail(q)[i])
  BY <1>1 DEF Tidy, Apart
<1>3. \A d : d # Dev(Head(q)) => (AtRest(d, Tail(q)) <=> AtRest(d, q))
  BY <1>1 DEF AtRest
<1>4. QED
  BY <1>2, <1>3

\* What must come after an instruction of a tidy queue is in it.
LEMMA Follows ==
  ASSUME NEW S, NEW q \in Seq(S), Tidy(q), NEW x, In(x, q), NEW y, MustFollow(x, y)
  PROVE  In(y, q)
  BY DEF Tidy, Following, In

\* One end for a device.
LEMMA OneEnd ==
  ASSUME NEW S, NEW q \in Seq(S), Tidy(q), NEW x, In(x, q), NEW y, In(y, q),
         End(x), End(y), Dev(x) = Dev(y)
  PROVE  x = y
<1>1. PICK i \in DOMAIN q : q[i] = x
  BY DEF In
<1>2. PICK j \in DOMAIN q : q[j] = y
  BY DEF In
<1>3. i < j \/ j < i \/ i = j
  BY DEF In
<1>4. ~(i < j) /\ ~(j < i)
  BY <1>1, <1>2 DEF Tidy, Apart, MayFollow
<1>5. QED
  BY <1>1, <1>2, <1>3, <1>4

\* What is in a concatenation is in one of its parts.
LEMMA InConcat ==
  ASSUME NEW S, NEW f \in Seq(S), NEW q \in Seq(S)
  PROVE  /\ f \o q \in Seq(S)
         /\ \A x : In(x, f \o q) <=> In(x, f) \/ In(x, q)
         /\ \A d : AtRest(d, f \o q) <=> AtRest(d, f) /\ AtRest(d, q)
<1>1. /\ Len(f) \in Nat /\ Len(q) \in Nat
      /\ DOMAIN f = 1 .. Len(f) /\ DOMAIN q = 1 .. Len(q)
      /\ DOMAIN (f \o q) = 1 .. (Len(f) + Len(q))
      /\ \A i \in 1 .. (Len(f) + Len(q)) : (f \o q)[i] = IF i <= Len(f) THEN f[i] ELSE q[i - Len(f)]
  OBVIOUS
<1> PICK g : g = f \o q
  OBVIOUS
<1>2. \A i \in DOMAIN f : i \in DOMAIN g /\ g[i] = f[i]
  BY <1>1
<1>3. \A i \in DOMAIN q : i + Len(f) \in DOMAIN g /\ g[i + Len(f)] = q[i]
  BY <1>1
<1>4. \A i \in DOMAIN g : (i \in DOMAIN f /\ g[i] = f[i])
                            \/ (i - Len(f) \in DOMAIN q /\ g[i] = q[i - Len(f)])
  BY <1>1
<1>5. \A x : In(x, g) <=> In(x, f) \/ In(x, q)
  <2> SUFFICES ASSUME NEW x PROVE In(x, g) <=> In(x, f) \/ In(x, q)
    OBVIOUS
  <2>1. In(x, f) \/ In(x, q) => In(x, g)
    BY <1>2, <1>3 DEF In
  <2>2. In(x, g) => In(x, f) \/ In(x, q)
    BY <1>4 DEF In
  <2>3. QED
    BY <2>1, <2>2
<1>6. \A d : AtRest(d, g) <=> AtRest(d, f) /\ AtRest(d, q)
  <2> SUFFICES ASSUME NEW d PROVE AtRest(d, g) <=> AtRest(d, f) /\ AtRest(d, q)
    OBVIOUS
  <2>1. AtRest(d, g) => AtRest(d, f) /\ AtRest(d, q)
    BY <1>2, <1>3 DEF AtRest
  <2>2. AtRest(d, f) /\ AtRest(d, q) => AtRest(d, g)
    BY <1>4 DEF AtRest
  <2>3. QED
    BY <2>1, <2>2
<1>7. QED
  BY <1>5, <1>6

\* A piece for one device may be put before what is for others that are not below it.
LEMMA PutBefore ==
  ASSUME NEW S, NEW f \in Seq(S), NEW q \in Seq(S), Tidy(f), Tidy(q),
         NEW d, \A i \in DOMAIN f : Dev(f[i]) = d, Clear(d, q)
  PROVE  Tidy(f \o q)
<1>1. /\ Len(f) \in Nat /\ Len(q) \in Nat
      /\ DOMAIN f = 1 .. Len(f) /\ DOMAIN q = 1 .. Len(q)
      /\ DOMAIN (f \o q) = 1 .. (Len(f) + Len(q))
      /\ \A i \in 1 .. (Len(f) + Len(q)) : (f \o q)[i] = IF i <= Len(f) THEN f[i] ELSE q[i - Len(f)]
  OBVIOUS
<1> PICK g : g = f \o q
  OBVIOUS
<1> PICK n \in Nat : n = Len(f)
  BY <1>1
<1>2. DOMAIN f = 1 .. n /\ \A i \in DOMAIN f : i \in DOMAIN g /\ g[i] = f[i]
  BY <1>1
<1>3. \A i \in DOMAIN q : i \in Nat /\ i + n \in DOMAIN g /\ g[i + n] = q[i]
  BY <1>1
<1>4. \A i \in DOMAIN g : i \in Nat /\ ((i \in DOMAIN f /\ g[i] = f[i] /\ i <= n)
                            \/ (i - n \in DOMAIN q /\ g[i] = q[i - n] /\ i > n))
  BY <1>1
<1>5. Whole(g)
  <2> SUFFICES ASSUME NEW i \in DOMAIN g
               PROVE  \E j \in DOMAIN g :
                        i <= j /\ End(g[j]) /\ \A k \in i .. j : Dev(g[k]) = Dev(g[i])
    BY DEF Whole
  <2>1. CASE i \in DOMAIN f
    <3>1. PICK j \in DOMAIN f : i <= j /\ End(f[j]) /\ \A k \in i .. j : Dev(f[k]) = Dev(f[i])
      BY <2>1 DEF Tidy, Whole
    <3>2. \A k \in i .. j : k \in DOMAIN f
      BY <1>2, <2>1, <3>1
    <3>3. QED
      BY <1>2, <2>1, <3>1, <3>2
  <2>2. CASE i \notin DOMAIN f
    <3>1. i - n \in DOMAIN q /\ g[i] = q[i - n] /\ i > n
      BY <1>4, <2>2
    <3>2. PICK j \in DOMAIN q :
            i - n <= j /\ End(q[j]) /\ \A k \in (i - n) .. j : Dev(q[k]) = Dev(q[i - n])
      BY <3>1 DEF Tidy, Whole
    <3>3. j + n \in DOMAIN g /\ i <= j + n /\ End(g[j + n])
      BY <1>3, <1>4, <3>2
    <3>4. \A k \in i .. (j + n) : Dev(g[k]) = Dev(g[i])
      <4> SUFFICES ASSUME NEW k \in i .. (j + n) PROVE Dev(g[k]) = Dev(g[i])
        OBVIOUS
      <4>1. k - n \in (i - n) .. j /\ k - n \in DOMAIN q
        BY <1>1, <1>4, <3>1, <3>2
      <4>2. g[k] = q[k - n]
        BY <1>3, <1>4, <4>1
      <4>3. QED
        BY <3>1, <3>2, <4>1, <4>2
    <3>5. QED
      BY <3>3, <3>4
  <2>3. QED
    BY <2>1, <2>2
<1>6. Following(g)
  <2> SUFFICES ASSUME NEW i \in DOMAIN g, NEW y, MustFollow(g[i], y)
               PROVE  \E j \in DOMAIN g : i < j /\ g[j] = y
    BY DEF Following
  <2>1. CASE i \in DOMAIN f /\ g[i] = f[i]
    <3>1. PICK j \in DOMAIN f : i < j /\ f[j] = y
      BY <2>1 DEF Tidy, Following
    <3>2. QED
      BY <1>2, <3>1
  <2>2. CASE i - n \in DOMAIN q /\ g[i] = q[i - n]
    <3>1. PICK j \in DOMAIN q : i - n < j /\ q[j] = y
      BY <2>2 DEF Tidy, Following
    <3>2. j + n \in DOMAIN g /\ i < j + n /\ g[j + n] = y
      BY <1>3, <1>4, <3>1
    <3>3. QED
      BY <3>2
  <2>3. QED
    BY <1>4, <2>1, <2>2
<1>7. Apart(g)
  <2> SUFFICES ASSUME NEW i \in DOMAIN g, NEW j \in DOMAIN g, i < j PROVE MayFollow(g[i], g[j])
    BY DEF Apart
  <2>1. CASE j \in DOMAIN f
    <3>1. i \in DOMAIN f /\ g[i] = f[i] /\ g[j] = f[j]
      BY <1>2, <1>4, <2>1
    <3>2. QED
      BY <2>1, <3>1 DEF Tidy, Apart
  <2>2. CASE i \in DOMAIN f /\ j \notin DOMAIN f
    <3>1. g[i] = f[i] /\ j - n \in DOMAIN q /\ g[j] = q[j - n]
      BY <1>2, <1>4, <2>2
    <3>2. Dev(g[i]) = d /\ Dev(g[j]) # d /\ ~Above(d, Dev(g[j]))
      BY <2>2, <3>1 DEF Clear
    <3>3. QED
      BY <3>2 DEF MayFollow
  <2>3. CASE i \notin DOMAIN f
    <3>1. i - n \in DOMAIN q /\ g[i] = q[i - n] /\ j - n \in DOMAIN q /\ g[j] = q[j - n]
          /\ i - n < j - n
      BY <1>2, <1>4, <2>3
    <3>2. QED
      BY <3>1 DEF Tidy, Apart
  <2>4. QED
    BY <2>1, <2>2, <2>3
<1>8. QED
  BY <1>5, <1>6, <1>7 DEF Tidy
-----------------------------------------------------------------------------
(***************************************************************************)
(* Soundness of what there is (H), of the drivers that are bound (b) and   *)
(* of what there is to do (q).  A device that is being probed has what its *)
(* driver need not make any more, one that loses its driver what is still  *)
(* to be unmade, and one at rest all that its driver makes, or nothing.  A *)
(* device that does not exist has no driver and nothing to be done for it. *)
(***************************************************************************)
Probed(d, q, H, b) ==
  \A m \in Modules : In(Bound(d, m), q) =>
    /\ b[d] = NoDriver /\ d \in DevicesOf(m)
    /\ \A t \in Things : Keeper(t) = d => (t \in H <=> Driver(t) = m /\ ~In(Make(t), q))
Removed(d, q, H) ==
  In(Unbound(d), q) => \A t \in Things : Keeper(t) = d => (t \in H <=> In(Unmake(t), q))
Rested(d, q, H, b) ==
  AtRest(d, q) => \A t \in Things : Keeper(t) = d => (t \in H <=> b[d] = Driver(t))
Local(d, q, H, b) == Probed(d, q, H, b) /\ Removed(d, q, H) /\ Rested(d, q, H, b)

Sound(q, H, b) ==
  /\ q \in Seq(Instrs) /\ Tidy(q)
  /\ b \in [Devices -> Modules \cup {NoDriver}]
  /\ \A d \in Devices : b[d] = NoDriver \/ d \in DevicesOf(b[d])
  /\ \A d \in Devices : Local(d, q, H, b)
  /\ \A c \in Platform : c \notin H => AtRest(c, q) /\ b[c] = NoDriver

\* An instruction is done that is not for d, and changes nothing of d's.
SameFor(d, G, H) == \A t \in Things : Keeper(t) = d => (t \in G <=> t \in H)

\* Executing the head leaves a device it is not for as sound as it was.
LEMMA Elsewhere ==
  ASSUME NEW q, NEW G, NEW H, NEW a, NEW b, Sound(q, H, b), q # <<>>,
         NEW d \in Devices, d # Dev(Head(q)), SameFor(d, G, H), a[d] = b[d]
  PROVE  Local(d, Tail(q), G, a)
<1>1. q \in Seq(Instrs) /\ Tidy(q) /\ Local(d, q, H, b)
  BY DEF Sound
<1>2. \A x : In(x, Tail(q)) => In(x, q)
  BY <1>1, InTail
<1>3. \A t \in Things : Keeper(t) = d =>
        /\ In(Make(t), Tail(q)) <=> In(Make(t), q)
        /\ In(Unmake(t), Tail(q)) <=> In(Unmake(t), q)
  BY <1>1, InTail, InstructionsAre
<1>4. AtRest(d, Tail(q)) <=> AtRest(d, q)
  BY <1>1, FirstOfDevice
<1>5. Probed(d, Tail(q), G, a)
  BY <1>1, <1>2, <1>3 DEF Local, Probed, SameFor
<1>6. Removed(d, Tail(q), G)
  BY <1>1, <1>2, <1>3 DEF Local, Removed, SameFor
<1>7. Rested(d, Tail(q), G, a)
  BY <1>1, <1>4 DEF Local, Rested, SameFor
<1>8. QED
  BY <1>5, <1>6, <1>7 DEF Local

\* What every execution of the head of a sound queue starts from.
LEMMA SoundTail ==
  ASSUME NEW q, NEW H, NEW b, Sound(q, H, b), q # <<>>
  PROVE  /\ q \in Seq(Instrs) /\ Tidy(q) /\ Head(q) \in Instrs /\ In(Head(q), q)
         /\ Tail(q) \in Seq(Instrs) /\ Tidy(Tail(q))
         /\ \A x : In(x, Tail(q)) <=> In(x, q) /\ x # Head(q)
         /\ \A c \in Platform : AtRest(c, q) => AtRest(c, Tail(q))
<1>1. q \in Seq(Instrs) /\ Tidy(q)
  BY DEF Sound
<1>2. Tail(q) \in Seq(Instrs) /\ Tidy(Tail(q)) /\ Head(q) \in Instrs
  BY <1>1, TailIsRest, RestTidy
<1>3. \A c : AtRest(c, q) => AtRest(c, Tail(q))
  BY <1>1 DEF AtRest
<1>4. QED
  BY <1>1, <1>2, <1>3, InTail

\* The end of what there is for d, seen from an instruction before it.
LEMMA MakeEnds ==
  ASSUME NEW q, NEW H, NEW b, Sound(q, H, b), NEW t \in Things, In(Make(t), q)
  PROVE  /\ In(Bound(Keeper(t), Driver(t)), q)
         /\ \A m \in Modules : In(Bound(Keeper(t), m), q) => m = Driver(t)
         /\ ~In(Unbound(Keeper(t)), q)
         /\ \A s \in Things : Later(s, t) => In(Make(s), q)
<1>1. q \in Seq(Instrs) /\ Tidy(q) /\ Keeper(t) \in Devices /\ Driver(t) \in Modules
  BY KeepersAre DEF Sound
<1>2. In(Bound(Keeper(t), Driver(t)), q)
  BY <1>1, Follows DEF MustFollow
<1>3. \A m \in Modules : In(Bound(Keeper(t), m), q) =>
        Bound(Keeper(t), m) = Bound(Keeper(t), Driver(t))
  BY <1>1, <1>2, OneEnd, InstructionsAre
<1>4. In(Unbound(Keeper(t)), q) => Unbound(Keeper(t)) = Bound(Keeper(t), Driver(t))
  BY <1>1, <1>2, OneEnd, InstructionsAre
<1>5. \A s \in Things : Later(s, t) => In(Make(s), q)
  BY <1>1, Follows DEF MustFollow
<1>6. QED
  BY <1>2, <1>3, <1>4, <1>5, MakeOnce

\* A thing about to be unmade is for a device about to lose its driver.
LEMMA UnmakeEnds ==
  ASSUME NEW q, NEW H, NEW b, Sound(q, H, b), NEW t \in Things, In(Unmake(t), q)
  PROVE  /\ In(Unbound(Keeper(t)), q)
         /\ \A m \in Modules : ~In(Bound(Keeper(t), m), q)
         /\ \A s \in Things : Under(s, t) => In(Unmake(s), q)
<1>1. q \in Seq(Instrs) /\ Tidy(q) /\ Keeper(t) \in Devices
  BY KeepersAre DEF Sound
<1>2. In(Unbound(Keeper(t)), q)
  BY <1>1, Follows DEF MustFollow
<1>3. \A m \in Modules : In(Bound(Keeper(t), m), q) =>
        Bound(Keeper(t), m) = Unbound(Keeper(t))
  BY <1>1, <1>2, OneEnd, InstructionsAre
<1>4. \A s \in Things : Under(s, t) => In(Unmake(s), q)
  BY <1>1, Follows DEF MustFollow
<1>5. QED
  BY <1>2, <1>3, <1>4, MakeOnce

\* A device something is queued for is not at rest.
LEMMA NotAtRest ==
  ASSUME NEW q, NEW x, In(x, q), NEW d, Dev(x) = d
  PROVE  ~AtRest(d, q)
  BY DEF In, AtRest

\* Executing a Make that is at the head leaves the queue sound.
LEMMA MakeSound ==
  ASSUME NEW q, NEW H, NEW b, Sound(q, H, b), q # <<>>, NEW t \in Things, Head(q) = Make(t)
  PROVE  Sound(Tail(q), H \cup {t}, b)
<1> DEFINE d == Keeper(t)
           m == Driver(t)
           r == Tail(q)
           G == H \cup {t}
<1>1. d \in Devices /\ m \in Modules /\ Dev(Make(t)) = d /\ ~End(Make(t))
  BY KeepersAre, InstructionsAre
<1>2. In(Make(t), q) /\ r \in Seq(Instrs) /\ Tidy(r)
      /\ \A x : In(x, r) <=> In(x, q) /\ x # Make(t)
  BY SoundTail
<1>3. In(Bound(d, m), q) /\ ~In(Unbound(d), q) /\ \A l \in Modules : In(Bound(d, l), q) => l = m
  BY <1>2, MakeEnds
<1>4. In(Bound(d, m), r)
  BY <1>1, <1>2, <1>3, InstructionsAre
<1>5. Local(d, r, G, b)
  <2>1. b[d] = NoDriver /\ \A s \in Things : Keeper(s) = d =>
                              (s \in H <=> Driver(s) = m /\ ~In(Make(s), q))
    BY <1>1, <1>3 DEF Sound, Local, Probed
  <2>2. \A s \in Things : In(Make(s), r) <=> In(Make(s), q) /\ s # t
    BY <1>2, MakeOnce
  <2>3. \A s \in Things : Keeper(s) = d => (s \in G <=> Driver(s) = m /\ ~In(Make(s), r))
    BY <2>1, <2>2
  <2>4. Probed(d, r, G, b)
    BY <1>2, <1>3, <2>1, <2>3, KeepersAre DEF Probed
  <2>5. Removed(d, r, G)
    BY <1>2, <1>3 DEF Removed
  <2>6. Rested(d, r, G, b)
    BY <1>1, <1>4, NotAtRest, InstructionsAre DEF Rested
  <2>7. QED
    BY <2>4, <2>5, <2>6 DEF Local
<1>6. \A e \in Devices : Local(e, r, G, b)
  <2> SUFFICES ASSUME NEW e \in Devices, e # d PROVE Local(e, r, G, b)
    BY <1>5
  <2>1. SameFor(e, G, H)
    BY DEF SameFor
  <2>2. QED
    BY <1>1, <2>1, Elsewhere
<1>7. \A c \in Platform : c \notin G => AtRest(c, r) /\ b[c] = NoDriver
  BY SoundTail DEF Sound
<1>8. QED
  BY <1>2, <1>6, <1>7 DEF Sound

\* The same of an Unmake, if the thing is no device that has a driver.
LEMMA UnmakeSound ==
  ASSUME NEW q, NEW H, NEW b, Sound(q, H, b), q # <<>>, NEW t \in Things, Head(q) = Unmake(t),
         t \in Platform => b[t] = NoDriver
  PROVE  Sound(Tail(q), H \ {t}, b)
<1> DEFINE d == Keeper(t)
           r == Tail(q)
           G == H \ {t}
<1>1. d \in Devices /\ Dev(Unmake(t)) = d /\ ~End(Unmake(t))
  BY KeepersAre, InstructionsAre
<1>2. In(Unmake(t), q) /\ r \in Seq(Instrs) /\ Tidy(r)
      /\ \A x : In(x, r) <=> In(x, q) /\ x # Unmake(t)
  BY SoundTail
<1>3. In(Unbound(d), q) /\ \A l \in Modules : ~In(Bound(d, l), q)
  BY <1>2, UnmakeEnds
<1>4. In(Unbound(d), r)
  BY <1>1, <1>2, <1>3, InstructionsAre
<1>5. Local(d, r, G, b)
  <2>1. \A s \in Things : Keeper(s) = d => (s \in H <=> In(Unmake(s), q))
    BY <1>1, <1>3 DEF Sound, Local, Removed
  <2>2. \A s \in Things : In(Unmake(s), r) <=> In(Unmake(s), q) /\ s # t
    BY <1>2, MakeOnce
  <2>3. \A s \in Things : Keeper(s) = d => (s \in G <=> In(Unmake(s), r))
    BY <2>1, <2>2
  <2>4. Probed(d, r, G, b)
    BY <1>2, <1>3 DEF Probed
  <2>5. Removed(d, r, G)
    BY <2>3 DEF Removed
  <2>6. Rested(d, r, G, b)
    BY <1>1, <1>4, NotAtRest, InstructionsAre DEF Rested
  <2>7. QED
    BY <2>4, <2>5, <2>6 DEF Local
<1>6. \A e \in Devices : Local(e, r, G, b)
  <2> SUFFICES ASSUME NEW e \in Devices, e # d PROVE Local(e, r, G, b)
    BY <1>5
  <2>1. SameFor(e, G, H)
    BY DEF SameFor
  <2>2. QED
    BY <1>1, <2>1, Elsewhere
<1>7. \A c \in Platform : c \notin G => AtRest(c, r) /\ b[c] = NoDriver
  <2>1. t \in Platform => AtRest(t, r)
    <3>1. q \in Seq(Instrs) /\ Tidy(q)
      BY DEF Sound
    <3>2. \A i \in DOMAIN r : MayFollow(Unmake(t), r[i])
      BY <3>1, FirstOfDevice
    <3>3. QED
      BY <1>1, <3>2, KeepersAre DEF MayFollow, AtRest
  <2>2. QED
    BY <2>1, SoundTail DEF Sound
<1>8. QED
  BY <1>2, <1>6, <1>7 DEF Sound

\* The same of the end of a probe.
LEMMA BoundSound ==
  ASSUME NEW q, NEW H, NEW b, Sound(q, H, b), q # <<>>, NEW d \in Devices, NEW m \in Modules,
         Head(q) = Bound(d, m)
  PROVE  Sound(Tail(q), H, [b EXCEPT ![d] = m])
<1> DEFINE r == Tail(q)
           a == [b EXCEPT ![d] = m]
<1>1. Dev(Bound(d, m)) = d /\ End(Bound(d, m))
  BY InstructionsAre
<1>2. /\ In(Bound(d, m), q) /\ q \in Seq(Instrs) /\ Tidy(q) /\ r \in Seq(Instrs) /\ Tidy(r)
      /\ \A x : In(x, r) <=> In(x, q) /\ x # Bound(d, m)
  BY SoundTail
<1>3. AtRest(d, r)
  BY <1>1, <1>2, FirstOfDevice DEF MayFollow, AtRest
<1>4. a[d] = m /\ (\A e \in Devices : e # d => a[e] = b[e])
      /\ a \in [Devices -> Modules \cup {NoDriver}]
  BY DEF Sound
<1>5. /\ d \in DevicesOf(m)
      /\ \A t \in Things : Keeper(t) = d => (t \in H <=> Driver(t) = m /\ ~In(Make(t), q))
  BY <1>2 DEF Sound, Local, Probed
<1> HIDE DEF a
<1>6. Local(d, r, H, a)
  <2>1. \A x : In(x, r) => Dev(x) # d
    BY <1>3, NotAtRest
  <2>2. \A t \in Things : Keeper(t) = d => ~In(Make(t), q)
    BY <1>1, <1>2, <2>1, InstructionsAre
  <2>3. Probed(d, r, H, a)
    BY <2>1, InstructionsAre DEF Probed
  <2>4. Removed(d, r, H)
    BY <2>1, InstructionsAre DEF Removed
  <2>5. Rested(d, r, H, a)
    BY <1>4, <1>5, <2>2 DEF Rested
  <2>6. QED
    BY <2>3, <2>4, <2>5 DEF Local
<1>7. \A e \in Devices : Local(e, r, H, a)
  <2> SUFFICES ASSUME NEW e \in Devices, e # d PROVE Local(e, r, H, a)
    BY <1>6
  <2>1. SameFor(e, H, H)
    BY DEF SameFor
  <2>2. QED
    BY <1>1, <1>4, <2>1, Elsewhere
<1>8. \A c \in Platform : c \notin H => AtRest(c, r) /\ a[c] = NoDriver
  <2>1. \A c \in Platform : c \notin H => AtRest(c, r) /\ b[c] = NoDriver /\ AtRest(c, q)
    BY SoundTail DEF Sound
  <2>2. ~AtRest(d, q)
    BY <1>1, <1>2, NotAtRest
  <2>3. QED
    BY <1>4, <2>1, <2>2, DevicesAre
<1>9. \A e \in Devices : a[e] = NoDriver \/ e \in DevicesOf(a[e])
  BY <1>4, <1>5 DEF Sound
<1>10. QED
  BY <1>2, <1>4, <1>7, <1>8, <1>9 DEF Sound, a

\* The same of the end of a remove.
LEMMA UnboundSound ==
  ASSUME NEW q, NEW H, NEW b, Sound(q, H, b), q # <<>>, NEW d \in Devices,
         Head(q) = Unbound(d)
  PROVE  Sound(Tail(q), H, [b EXCEPT ![d] = NoDriver])
<1> DEFINE r == Tail(q)
           a == [b EXCEPT ![d] = NoDriver]
<1>1. Dev(Unbound(d)) = d /\ End(Unbound(d))
  BY InstructionsAre
<1>2. /\ In(Unbound(d), q) /\ q \in Seq(Instrs) /\ Tidy(q) /\ r \in Seq(Instrs) /\ Tidy(r)
      /\ \A x : In(x, r) <=> In(x, q) /\ x # Unbound(d)
  BY SoundTail
<1>3. AtRest(d, r)
  BY <1>1, <1>2, FirstOfDevice DEF MayFollow, AtRest
<1>4. a[d] = NoDriver /\ (\A e \in Devices : e # d => a[e] = b[e])
      /\ a \in [Devices -> Modules \cup {NoDriver}]
  BY DEF Sound
<1>5. \A t \in Things : Keeper(t) = d => (t \in H <=> In(Unmake(t), q))
  BY <1>2 DEF Sound, Local, Removed
<1> HIDE DEF a
<1>6. Local(d, r, H, a)
  <2>1. \A x : In(x, r) => Dev(x) # d
    BY <1>3, NotAtRest
  <2>2. \A t \in Things : Keeper(t) = d => ~In(Unmake(t), q)
    BY <1>1, <1>2, <2>1, InstructionsAre
  <2>3. Probed(d, r, H, a)
    BY <2>1, InstructionsAre DEF Probed
  <2>4. Removed(d, r, H)
    BY <2>1, InstructionsAre DEF Removed
  <2>5. \A t \in Things : Driver(t) # NoDriver
    BY KeepersAre, DevicesAre DEF NoDriver
  <2>6. Rested(d, r, H, a)
    BY <1>4, <1>5, <2>2, <2>5 DEF Rested
  <2>7. QED
    BY <2>3, <2>4, <2>6 DEF Local
<1>7. \A e \in Devices : Local(e, r, H, a)
  <2> SUFFICES ASSUME NEW e \in Devices, e # d PROVE Local(e, r, H, a)
    BY <1>6
  <2>1. SameFor(e, H, H)
    BY DEF SameFor
  <2>2. QED
    BY <1>1, <1>4, <2>1, Elsewhere
<1>8. \A c \in Platform : c \notin H => AtRest(c, r) /\ a[c] = NoDriver
  <2>1. \A c \in Platform : c \notin H => AtRest(c, r) /\ b[c] = NoDriver
    BY SoundTail DEF Sound
  <2>2. \A c \in Platform : c \in Devices
    BY DevicesAre
  <2>3. \A c \in Platform : c = d \/ a[c] = b[c]
    BY <1>4, <2>2
  <2>4. QED
    BY <1>4, <2>1, <2>3
<1>9. \A e \in Devices : a[e] = NoDriver \/ e \in DevicesOf(a[e])
  BY <1>4 DEF Sound
<1>10. QED
  BY <1>2, <1>4, <1>7, <1>8, <1>9 DEF Sound, a

\* The instructions that make or unmake no thing and bind no driver.
Others == {Mask(Lines), Mask({}), Forget, Put("handler"), Get("class"), Put("class")}
            \cup {Register(m) : m \in Modules}

\* The instructions that make and unmake nothing, and end nothing.
LEMMA OthersAre ==
  ASSUME NEW x \in Others
  PROVE  /\ \A t \in Things : x # Make(t) /\ x # Unmake(t)
         /\ \A d, m : x # Bound(d, m) /\ x # Unbound(d)
         /\ Dev(x) \in Devices => ~End(x)
<1>1. Dev(x) \in Devices => ~End(x)
  BY DevicesAre
     DEF Others, Dev, End, Platform, Keeper, Mask, Forget, Put, Get, Register
<1>2. \A t \in Things : t # "handler" /\ t # "class"
  BY DEF Things
<1>3. \A t \in Things : x # Make(t) /\ x # Unmake(t)
  BY <1>2 DEF Others, Make, Unmake, Add, Del, Get, Put, Mask, Forget, Register
<1>4. \A d, m : x # Bound(d, m) /\ x # Unbound(d)
  BY DEF Others, Bound, Unbound, Get, Put, Mask, Forget, Register
<1>5. QED
  BY <1>1, <1>3, <1>4

\* The same of an instruction that makes and unmakes nothing and ends nothing.
LEMMA OtherSound ==
  ASSUME NEW q, NEW H, NEW G, NEW b, Sound(q, H, b), q # <<>>, Head(q) \in Others,
         \A t \in Things : t \in G <=> t \in H
  PROVE  Sound(Tail(q), G, b)
<1> DEFINE r == Tail(q)
           d == Dev(Head(q))
<1>1. q \in Seq(Instrs) /\ Tidy(q) /\ r \in Seq(Instrs) /\ Tidy(r)
      /\ \A x : In(x, r) <=> In(x, q) /\ x # Head(q)
  BY SoundTail
<1>2. ASSUME d \in Devices PROVE Local(d, r, G, b)
  <2>1. ~AtRest(d, r)
    <3>1. /\ Len(q) \in Nat /\ DOMAIN q = 1 .. Len(q) /\ 1 \in DOMAIN q /\ q[1] = Head(q)
          /\ DOMAIN r = 1 .. (Len(q) - 1) /\ \A i \in DOMAIN r : r[i] = q[i + 1]
      BY <1>1
    <3>2. PICK j \in DOMAIN q : 1 <= j /\ End(q[j]) /\ \A k \in 1 .. j : Dev(q[k]) = Dev(q[1])
      BY <1>1, <3>1 DEF Tidy, Whole
    <3>3. ~End(q[1])
      BY <1>2, <3>1, OthersAre
    <3>4. j - 1 \in DOMAIN r /\ (j - 1) + 1 = j
      BY <3>1, <3>2, <3>3
    <3>5. Dev(r[j - 1]) = d
      BY <3>1, <3>2, <3>4
    <3>6. QED
      BY <3>4, <3>5 DEF AtRest
  <2>2. Local(d, q, H, b)
    BY <1>2 DEF Sound
  <2>3. Probed(d, r, G, b) /\ Removed(d, r, G)
    BY <1>1, <2>2, OthersAre DEF Local, Probed, Removed
  <2>4. QED
    BY <2>1, <2>3 DEF Local, Rested
<1>3. \A e \in Devices : Local(e, r, G, b)
  <2> SUFFICES ASSUME NEW e \in Devices, e # d PROVE Local(e, r, G, b)
    BY <1>2
  <2>1. SameFor(e, G, H)
    BY DEF SameFor
  <2>2. QED
    BY <2>1, Elsewhere
<1>4. \A c \in Platform : c \notin G => AtRest(c, r) /\ b[c] = NoDriver
  BY SoundTail, KeepersAre DEF Sound
<1>5. QED
  BY <1>1, <1>3, <1>4 DEF Sound
-----------------------------------------------------------------------------
(***************************************************************************)
(* The pieces: probes, removes and error paths, as there is to do them.    *)
(***************************************************************************)
LEMMA Joined ==
  ASSUME NEW a, NEW b, NEW c
  PROVE  /\ <<>> \o <<a>> = <<a>>
         /\ <<a>> \o <<b>> = <<a, b>>
         /\ <<a>> \o <<b, c>> = <<a, b, c>>
         /\ <<a, b>> \o <<c>> = <<a, b, c>>
<1> DEFINE S == {a, b, c}
<1>1. /\ <<>> \in Seq(S) /\ <<a>> \in Seq(S) /\ <<b>> \in Seq(S) /\ <<c>> \in Seq(S)
      /\ <<a, b>> \in Seq(S) /\ <<b, c>> \in Seq(S) /\ <<a, b, c>> \in Seq(S)
  OBVIOUS
<1>2. <<>> \o <<a>> = <<a>>
  OBVIOUS
<1>3. <<a>> \o <<b>> = <<a, b>>
  <2>1. PICK h : h = <<a>> \o <<b>>
    OBVIOUS
  <2>2. PICK g : g = <<a, b>>
    OBVIOUS
  <2>3. h \in Seq(S) /\ g \in Seq(S) /\ Len(h) = 2 /\ Len(g) = 2 /\ h[1] = g[1] /\ h[2] = g[2]
    BY <1>1, <2>1, <2>2
  <2>4. h = g
    <3> HIDE DEF S
    <3> QED BY <2>3, SeqEqual
  <2>5. QED
    BY <2>1, <2>2, <2>4
<1>4. <<a>> \o <<b, c>> = <<a, b, c>>
  <2>1. PICK h : h = <<a>> \o <<b, c>>
    OBVIOUS
  <2>2. PICK g : g = <<a, b, c>>
    OBVIOUS
  <2>3. /\ h \in Seq(S) /\ g \in Seq(S) /\ Len(h) = 3 /\ Len(g) = 3
        /\ h[1] = g[1] /\ h[2] = g[2] /\ h[3] = g[3]
    BY <1>1, <2>1, <2>2
  <2>4. h = g
    <3> HIDE DEF S
    <3> QED BY <2>3, SeqEqual
  <2>5. QED
    BY <2>1, <2>2, <2>4
<1>5. <<a, b>> \o <<c>> = <<a, b, c>>
  <2>1. PICK h : h = <<a, b>> \o <<c>>
    OBVIOUS
  <2>2. PICK g : g = <<a, b, c>>
    OBVIOUS
  <2>3. /\ h \in Seq(S) /\ g \in Seq(S) /\ Len(h) = 3 /\ Len(g) = 3
        /\ h[1] = g[1] /\ h[2] = g[2] /\ h[3] = g[3]
    BY <1>1, <2>1, <2>2
  <2>4. h = g
    <3> HIDE DEF S
    <3> QED BY <2>3, SeqEqual
  <2>5. QED
    BY <2>1, <2>2, <2>4
<1>6. QED
  BY <1>2, <1>3, <1>4, <1>5

Piece(f, d) ==
  /\ d \in Devices /\ f \in Seq(Instrs) /\ Tidy(f) /\ f # <<>>
  /\ \A i \in DOMAIN f : Dev(f[i]) = d

\* What is in a queue of five instructions.
LEMMA FiveAre ==
  ASSUME NEW p, DOMAIN p = 1 .. 5
  PROVE  \A x : In(x, p) <=> x \in {p[1], p[2], p[3], p[4], p[5]}
<1>1. \A i : i \in DOMAIN p <=> i \in {1, 2, 3, 4, 5}
  OBVIOUS
<1>2. QED
  BY <1>1 DEF In

\* The same of six.
LEMMA SixAre ==
  ASSUME NEW p, DOMAIN p = 1 .. 6
  PROVE  \A x : In(x, p) <=> x \in {p[1], p[2], p[3], p[4], p[5], p[6]}
<1>1. \A i : i \in DOMAIN p <=> i \in {1, 2, 3, 4, 5, 6}
  OBVIOUS
<1>2. QED
  BY <1>1 DEF In

\* What comes before the end.
LEMMA PieceIs ==
  ASSUME NEW d \in Devices, NEW p \in Seq(Instrs), NEW e \in Instrs,
         Dev(e) = d, End(e), \A y : ~MustFollow(e, y),
         \A i \in 1 .. Len(p) :
           /\ Dev(p[i]) = d /\ ~End(p[i])
           /\ \A y : MustFollow(p[i], y) => y = e \/ \E j \in 1 .. Len(p) : i < j /\ p[j] = y
           /\ \A j \in 1 .. Len(p) : i < j => p[i] # p[j]
  PROVE  Piece(p \o <<e>>, d) /\ \A x : In(x, p \o <<e>>) <=> x = e \/ In(x, p)
<1>1. /\ p \o <<e>> \in Seq(Instrs) /\ Len(p) \in Nat /\ Len(p \o <<e>>) = Len(p) + 1
      /\ \A i \in 1 .. Len(p) : (p \o <<e>>)[i] = p[i]
      /\ (p \o <<e>>)[Len(p) + 1] = e
  OBVIOUS
<1> PICK f : f = p \o <<e>>
  OBVIOUS
<1> PICK n \in Nat : n = Len(p)
  BY <1>1
<1>2. f \in Seq(Instrs) /\ DOMAIN f = 1 .. (n + 1) /\ f[n + 1] = e /\ DOMAIN p = 1 .. n
      /\ \A i \in 1 .. n : f[i] = p[i]
  BY <1>1
<1>3. \A i \in DOMAIN f : i = n + 1 \/ (i \in 1 .. n /\ f[i] = p[i])
  BY <1>2
<1>4. \A i \in DOMAIN f : Dev(f[i]) = d /\ i <= n + 1
  BY <1>2, <1>3
<1>5. Whole(f)
  <2> SUFFICES ASSUME NEW i \in DOMAIN f
               PROVE  \E j \in DOMAIN f :
                        i <= j /\ End(f[j]) /\ \A k \in i .. j : Dev(f[k]) = Dev(f[i])
    BY DEF Whole
  <2>1. n + 1 \in DOMAIN f /\ \A k \in i .. (n + 1) : k \in DOMAIN f
    BY <1>2
  <2>2. i <= n + 1 /\ \A k \in i .. (n + 1) : Dev(f[k]) = Dev(f[i])
    BY <1>4, <2>1
  <2>3. End(f[n + 1])
    BY <1>2
  <2>4. QED
    BY <2>1, <2>2, <2>3
<1>6. Following(f)
  <2> SUFFICES ASSUME NEW i \in DOMAIN f, NEW y, MustFollow(f[i], y)
               PROVE  \E j \in DOMAIN f : i < j /\ f[j] = y
    BY DEF Following
  <2>1. i \in 1 .. n /\ f[i] = p[i]
    BY <1>2, <1>3
  <2>2. y = e \/ \E j \in 1 .. n : i < j /\ p[j] = y
    BY <2>1
  <2>3. CASE y = e
    BY <1>2, <2>1, <2>3
  <2>4. CASE \E j \in 1 .. n : i < j /\ p[j] = y
    BY <1>2, <2>4
  <2>5. QED
    BY <2>2, <2>3, <2>4
<1>7. Apart(f)
  <2> SUFFICES ASSUME NEW i \in DOMAIN f, NEW j \in DOMAIN f, i < j PROVE MayFollow(f[i], f[j])
    BY DEF Apart
  <2>1. i \in 1 .. n /\ f[i] = p[i]
    BY <1>2, <1>3
  <2>2. ~End(f[i]) /\ f[i] # f[j]
    BY <1>2, <1>3, <2>1
  <2>3. ~Above(d, d)
    BY AboveIs
  <2>4. QED
    BY <1>4, <2>2, <2>3 DEF MayFollow
<1>8. \A x : In(x, f) <=> x = e \/ In(x, p)
  BY <1>2, <1>3 DEF In
<1>9. Piece(f, d)
  BY <1>2, <1>4, <1>5, <1>6, <1>7 DEF Piece, Tidy
<1>10. QED
  BY <1>8, <1>9

\* What must come after what.
LEMMA FollowingIs ==
  /\ \A t \in Things : \A y : MustFollow(Make(t), y) =>
       \/ y = Bound(Keeper(t), Driver(t))
       \/ \E s \in Things : y = Make(s) /\ Later(s, t)
       \/ Keeper(t) = "lux-irq" /\ y = Mask({})
  /\ \A t \in Things : \A y : MustFollow(Unmake(t), y) =>
       \/ y = Unbound(Keeper(t))
       \/ \E s \in Things : y = Unmake(s) /\ Under(s, t)
       \/ t = "lux-timer" /\ y = Unmake("lux-irq")
  /\ \A d, m, y : ~MustFollow(Bound(d, m), y) /\ ~MustFollow(Unbound(d), y)
  /\ \A y : MustFollow(Mask(Lines), y) => y = Make("vector")
  /\ \A y : ~MustFollow(Mask({}), y) /\ ~MustFollow(Put("handler"), y)
  /\ \A y : MustFollow(Forget, y) => y \in {Put("domain"), Put("mappings"), Unbound("lux-irq")}
<1>1. \A t \in Things : /\ t # "handler" /\ Make(t) # Forget /\ Make(t) # Mask(Lines)
                        /\ Unmake(t) # Forget /\ Unmake(t) # Mask(Lines)
                        /\ Make(t) # Mask({}) /\ Unmake(t) # Mask({})
  BY DEF Things, Make, Unmake, Add, Del, Get, Put, Mask, Forget
<1>2. {"vector", "domain", "mappings", "lux-timer", "lux-irq"} \subseteq Things
      /\ \A t \in {"vector", "domain", "mappings"} : Keeper(t) = "lux-irq"
  BY DEF Things, Keeper
<1>3. Lines # {} /\ Mask({}) # Mask(Lines)
  BY DEF Lines, Mask
<1>4. \A t \in Things : \A y : MustFollow(Make(t), y) =>
       \/ y = Bound(Keeper(t), Driver(t))
       \/ \E s \in Things : y = Make(s) /\ Later(s, t)
       \/ Keeper(t) = "lux-irq" /\ y = Mask({})
  BY <1>1, <1>2, MakeOnce DEF MustFollow
<1>5. \A t \in Things : \A y : MustFollow(Unmake(t), y) =>
       \/ y = Unbound(Keeper(t))
       \/ \E s \in Things : y = Unmake(s) /\ Under(s, t)
       \/ t = "lux-timer" /\ y = Unmake("lux-irq")
  BY <1>1, <1>2, MakeOnce DEF MustFollow
<1>6. \A d, m : \A t \in Things : Make(t) # Bound(d, m) /\ Unmake(t) # Bound(d, m)
                                  /\ Make(t) # Unbound(d) /\ Unmake(t) # Unbound(d)
  BY DEF Make, Unmake, Add, Del, Get, Put, Bound, Unbound
<1>7. \A d, m : /\ Forget # Bound(d, m) /\ Forget # Unbound(d)
                /\ Mask(Lines) # Bound(d, m) /\ Mask(Lines) # Unbound(d)
  BY DEF Forget, Mask, Bound, Unbound
<1>8. \A d, m, y : ~MustFollow(Bound(d, m), y) /\ ~MustFollow(Unbound(d), y)
  BY <1>2, <1>6, <1>7 DEF MustFollow
<1>9. /\ Forget # Mask(Lines) /\ Forget # Mask({}) /\ Forget # Put("handler")
      /\ Mask(Lines) # Put("handler")
      /\ \A t \in Things : Put("handler") # Make(t) /\ Put("handler") # Unmake(t)
  BY <1>1 DEF Forget, Mask, Put, Make, Unmake, Add, Del, Get
<1>10. \A y : MustFollow(Mask(Lines), y) => y = Make("vector")
  BY <1>1, <1>2, <1>9 DEF MustFollow
<1>11. \A y : ~MustFollow(Mask({}), y) /\ ~MustFollow(Put("handler"), y)
  BY <1>1, <1>2, <1>3, <1>9 DEF MustFollow
<1>12. \A y : MustFollow(Forget, y) => y \in {Put("domain"), Put("mappings"), Unbound("lux-irq")}
  BY <1>1, <1>2, <1>9 DEF MustFollow
<1>13. QED
  BY <1>4, <1>5, <1>8, <1>10, <1>11, <1>12

\* A probe makes what its driver has for the device, in the order of rank.
LEMMA MakesPiece ==
  ASSUME NEW m \in Modules, NEW d \in DevicesOf(m), d # "lux-irq",
         NEW ts \in Seq(Things), NEW p \in Seq(Instrs), Len(p) = Len(ts),
         \A i \in 1 .. Len(ts) :
           Keeper(ts[i]) = d /\ Driver(ts[i]) = m /\ Rank(ts[i]) = i /\ p[i] = Make(ts[i]),
         \A t \in Things : Keeper(t) = d /\ Driver(t) = m =>
                             Rank(t) \in 1 .. Len(ts) /\ ts[Rank(t)] = t
  PROVE  /\ Piece(p \o <<Bound(d, m)>>, d)
         /\ \A x : In(x, p \o <<Bound(d, m)>>) <=>
                     x = Bound(d, m) \/ \E t \in Things : Keeper(t) = d /\ Driver(t) = m /\ x = Make(t)
<1>1. d \in Devices
  BY DEF Devices
<1>2. /\ Len(p) \in Nat /\ DOMAIN p = 1 .. Len(p)
      /\ \A i \in 1 .. Len(p) : ts[i] \in Things /\ i \in Nat
  OBVIOUS
<1>3. /\ Bound(d, m) \in Instrs /\ Dev(Bound(d, m)) = d /\ End(Bound(d, m))
      /\ \A y : ~MustFollow(Bound(d, m), y)
  BY <1>1, InstructionsAre, FollowingIs
<1>4. ASSUME NEW i \in 1 .. Len(p)
      PROVE  /\ Dev(p[i]) = d /\ ~End(p[i])
             /\ \A y : MustFollow(p[i], y) =>
                         y = Bound(d, m) \/ \E j \in 1 .. Len(p) : i < j /\ p[j] = y
             /\ \A j \in 1 .. Len(p) : i < j => p[i] # p[j]
  <2>1. p[i] = Make(ts[i]) /\ ts[i] \in Things /\ Keeper(ts[i]) = d /\ Driver(ts[i]) = m
        /\ Rank(ts[i]) = i
    BY <1>2
  <2>2. Dev(p[i]) = d /\ ~End(p[i])
    BY <2>1, InstructionsAre
  <2>3. ASSUME NEW y, MustFollow(p[i], y), y # Bound(d, m)
        PROVE  \E j \in 1 .. Len(p) : i < j /\ p[j] = y
    <3>1. PICK s \in Things : y = Make(s) /\ Later(s, ts[i])
      BY <2>1, <2>3, FollowingIs
    <3>2. Keeper(s) = d /\ Driver(s) = m /\ i < Rank(s)
      BY <2>1, <3>1 DEF Later
    <3>3. Rank(s) \in 1 .. Len(p) /\ p[Rank(s)] = Make(s)
      BY <3>2
    <3>4. QED
      BY <3>1, <3>2, <3>3
  <2>4. ASSUME NEW j \in 1 .. Len(p), i < j PROVE p[i] # p[j]
    <3>1. p[j] = Make(ts[j]) /\ ts[j] \in Things /\ Rank(ts[j]) = j /\ i # j
      BY <1>2, <2>4
    <3>2. QED
      BY <2>1, <3>1, MakeOnce
  <2>5. QED
    BY <2>2, <2>3, <2>4
<1>5. \A x : In(x, p) <=> \E t \in Things : Keeper(t) = d /\ Driver(t) = m /\ x = Make(t)
  <2>1. ASSUME NEW t \in Things, Keeper(t) = d, Driver(t) = m PROVE In(Make(t), p)
    BY <1>2, <2>1 DEF In
  <2>2. ASSUME NEW i \in DOMAIN p
        PROVE \E t \in Things : Keeper(t) = d /\ Driver(t) = m /\ p[i] = Make(t)
    BY <1>2, <2>2
  <2>3. QED
    BY <2>1, <2>2 DEF In
<1>6. QED
  BY <1>1, <1>3, <1>4, <1>5, PieceIs

\* A remove or an error path unmakes things of the device, the lower first.
LEMMA UnmakesPiece ==
  ASSUME NEW d \in Devices, NEW ts \in Seq(Things), NEW p \in Seq(Instrs), Len(p) = Len(ts),
         \A i \in 1 .. Len(ts) :
           /\ Keeper(ts[i]) = d /\ p[i] = Unmake(ts[i])
           /\ \A j \in 1 .. Len(ts) : i < j => ts[i] # ts[j]
           /\ \A s \in Things : Under(s, ts[i]) \/ (ts[i] = "lux-timer" /\ s = "lux-irq")
                                  => \E j \in 1 .. Len(ts) : i < j /\ ts[j] = s
  PROVE  /\ Piece(p \o <<Unbound(d)>>, d)
         /\ \A x : In(x, p \o <<Unbound(d)>>) <=>
                     x = Unbound(d) \/ \E i \in 1 .. Len(ts) : x = Unmake(ts[i])
<1>1. /\ Len(p) \in Nat /\ DOMAIN p = 1 .. Len(p)
      /\ \A i \in 1 .. Len(p) : ts[i] \in Things /\ i \in Nat
  OBVIOUS
<1>2. /\ Unbound(d) \in Instrs /\ Dev(Unbound(d)) = d /\ End(Unbound(d))
      /\ \A y : ~MustFollow(Unbound(d), y)
  BY InstructionsAre, FollowingIs
<1>3. ASSUME NEW i \in 1 .. Len(p)
      PROVE  /\ Dev(p[i]) = d /\ ~End(p[i])
             /\ \A y : MustFollow(p[i], y) =>
                         y = Unbound(d) \/ \E j \in 1 .. Len(p) : i < j /\ p[j] = y
             /\ \A j \in 1 .. Len(p) : i < j => p[i] # p[j]
  <2>1. p[i] = Unmake(ts[i]) /\ ts[i] \in Things /\ Keeper(ts[i]) = d
    BY <1>1
  <2>2. Dev(p[i]) = d /\ ~End(p[i])
    BY <2>1, InstructionsAre
  <2>3. ASSUME NEW y, MustFollow(p[i], y), y # Unbound(d)
        PROVE  \E j \in 1 .. Len(p) : i < j /\ p[j] = y
    <3>1. PICK s \in Things : y = Unmake(s) /\ (Under(s, ts[i]) \/ (ts[i] = "lux-timer" /\ s = "lux-irq"))
      <4>1. "lux-irq" \in Things
        BY DEF Things
      <4>2. QED
        BY <2>1, <2>3, <4>1, FollowingIs
    <3>2. PICK j \in 1 .. Len(ts) : i < j /\ ts[j] = s
      BY <3>1
    <3>3. QED
      BY <3>1, <3>2
  <2>4. ASSUME NEW j \in 1 .. Len(p), i < j PROVE p[i] # p[j]
    <3>1. p[j] = Unmake(ts[j]) /\ ts[j] \in Things /\ ts[i] # ts[j]
      BY <1>1, <2>4
    <3>2. QED
      BY <2>1, <3>1, MakeOnce
  <2>5. QED
    BY <2>2, <2>3, <2>4
<1>4. \A x : In(x, p) <=> \E i \in 1 .. Len(ts) : x = Unmake(ts[i])
  BY <1>1 DEF In
<1>5. QED
  BY <1>2, <1>3, <1>4, PieceIs

\* The nine pairs of a device and a driver it may have.
Pairs ==
  {<<"f0", "lux-core">>, <<"f1", "lux-core">>, <<"lux-timer", "lux-timer">>,
   <<"lux-chardev", "lux-chardev">>, <<"lux-gpio-chip", "lux-gpio-chip">>,
   <<"lux-leds", "lux-led">>, <<"lux-leds", "lux-led-mc">>, <<"lux-irq", "lux-irq">>}

\* A device with a driver that takes it is one of the pairs.
LEMMA PairsAre ==
  ASSUME NEW m \in Modules, NEW d \in DevicesOf(m) PROVE <<d, m>> \in Pairs
  BY DEF Modules, DevicesOf, PlatformDevice, Pairs

LEMMA ProbesAre ==
  /\ ProbeOf("f0", "lux-core") = <<Make("f0-bars"), Make("lux-gpio-chip"), Make("lux-chardev")>>
  /\ ProbeOf("f1", "lux-core") = <<Make("f1-bars"), Make("lux-irq"), Make("lux-timer")>>
  /\ ProbeOf("lux-irq", "lux-irq") = <<Mask(Lines), Make("vector"), Make("domain"),
                                      Make("mappings"), Mask({})>>
  /\ ProbeOf("lux-timer", "lux-timer") = <<Make("TIMER"), Make("workqueue"), Make("clocksource"),
                                          Make("clockevent"), Make("misc")>>
  /\ ProbeOf("lux-chardev", "lux-chardev") = <<Make("region"), Make("cdev"), Make("node")>>
  /\ ProbeOf("lux-gpio-chip", "lux-gpio-chip") = <<Make("chip"), Make("lookup"), Make("lux-leds")>>
  /\ ProbeOf("lux-leds", "lux-led") = <<Make("pins"), Make("leds")>>
  /\ ProbeOf("lux-leds", "lux-led-mc") = <<Make("remapped"), Make("mcleds")>>
<1>1. ASSUME NEW c, NEW d PROVE AddAll(<<c, d>>) = <<Add(c), Add(d)>>
  BY DEF AddAll
<1>2. Cells("f0") = <<"lux-gpio-chip", "lux-chardev">> /\ Cells("f1") = <<"lux-irq", "lux-timer">>
      /\ Bars("f0") = "f0-bars" /\ Bars("f1") = "f1-bars"
  BY DEF Cells, F0Cells, F1Cells, Bars
<1>3. CoreProbe("f0") = <<Get("f0-bars"), Add("lux-gpio-chip"), Add("lux-chardev")>>
  <2>1. AddAll(Cells("f0")) = <<Add("lux-gpio-chip"), Add("lux-chardev")>>
    BY <1>1, <1>2
  <2>2. CoreProbe("f0") = <<Get("f0-bars")>> \o <<Add("lux-gpio-chip"), Add("lux-chardev")>>
    BY <1>2, <2>1 DEF CoreProbe
  <2>3. QED
    BY <2>2, Joined
<1>4. CoreProbe("f1") = <<Get("f1-bars"), Add("lux-irq"), Add("lux-timer")>>
  <2>1. AddAll(Cells("f1")) = <<Add("lux-irq"), Add("lux-timer")>>
    BY <1>1, <1>2
  <2>2. CoreProbe("f1") = <<Get("f1-bars")>> \o <<Add("lux-irq"), Add("lux-timer")>>
    BY <1>2, <2>1 DEF CoreProbe
  <2>3. QED
    BY <2>2, Joined
<1>5. /\ \A t \in {"f0-bars", "f1-bars", "vector", "domain", "mappings", "TIMER", "workqueue",
                   "clocksource", "clockevent", "misc", "region", "cdev", "node", "chip", "lookup",
                   "pins", "leds", "remapped", "mcleds"} : Make(t) = Get(t)
      /\ \A t \in {"lux-gpio-chip", "lux-chardev", "lux-irq", "lux-timer", "lux-leds"} :
           Make(t) = Add(t)
  BY DEF Make, Platform
<1>6. \A d : ProbeOf(d, "lux-core") = CoreProbe(d)
  BY DEF ProbeOf
<1>7. \A d : ProbeOf(d, "lux-irq") = IrqProbe
  BY DEF ProbeOf
<1>8. \A d : ProbeOf(d, "lux-timer") = TimerProbe
  BY DEF ProbeOf
<1>9. \A d : ProbeOf(d, "lux-chardev") = CdevProbe
  BY DEF ProbeOf
<1>10. \A d : ProbeOf(d, "lux-gpio-chip") = GpioProbe
  BY DEF ProbeOf
<1>11. \A d : ProbeOf(d, "lux-led") = LedProbe
  BY DEF ProbeOf
<1>12. \A d : ProbeOf(d, "lux-led-mc") = LedMcProbe
  BY DEF ProbeOf
<1>13. ProbeOf("f0", "lux-core") =
       <<Make("f0-bars"), Make("lux-gpio-chip"), Make("lux-chardev")>>
  BY <1>3, <1>5, <1>6
<1>14. ProbeOf("f1", "lux-core") =
       <<Make("f1-bars"), Make("lux-irq"), Make("lux-timer")>>
  BY <1>4, <1>5, <1>6
<1>15. ProbeOf("lux-irq", "lux-irq") =
       <<Mask(Lines), Make("vector"), Make("domain"), Make("mappings"), Mask({})>>
  BY <1>5, <1>7 DEF IrqProbe
<1>16. ProbeOf("lux-timer", "lux-timer") =
       <<Make("TIMER"), Make("workqueue"), Make("clocksource"), Make("clockevent"), Make("misc")>>
  BY <1>5, <1>8 DEF TimerProbe
<1>17. ProbeOf("lux-chardev", "lux-chardev") =
       <<Make("region"), Make("cdev"), Make("node")>>
  BY <1>5, <1>9 DEF CdevProbe
<1>18. ProbeOf("lux-gpio-chip", "lux-gpio-chip") =
       <<Make("chip"), Make("lookup"), Make("lux-leds")>>
  BY <1>5, <1>10 DEF GpioProbe
<1>19. ProbeOf("lux-leds", "lux-led") =
       <<Make("pins"), Make("leds")>>
  BY <1>5, <1>11 DEF LedProbe
<1>20. ProbeOf("lux-leds", "lux-led-mc") =
       <<Make("remapped"), Make("mcleds")>>
  BY <1>5, <1>12 DEF LedMcProbe
<1>21. QED
  BY <1>13, <1>14, <1>15, <1>16, <1>17, <1>18, <1>19, <1>20, Zenon


\* The removes, written out.
LEMMA RemovesAre ==
  /\ RemoveOf("f0", "lux-core") = <<Unmake("lux-chardev"), Unmake("lux-gpio-chip"), Unmake("f0-bars")>>
  /\ RemoveOf("f1", "lux-core") = <<Unmake("lux-timer"), Unmake("lux-irq"), Unmake("f1-bars")>>
  /\ RemoveOf("lux-irq", "lux-irq") = <<Forget, Mask({}), Put("handler"), Unmake("mappings"),
                                       Unmake("domain"), Unmake("vector")>>
  /\ RemoveOf("lux-timer", "lux-timer") = <<Unmake("workqueue"), Unmake("misc"),
                                Unmake("clocksource"), Unmake("clockevent"), Unmake("TIMER")>>
  /\ RemoveOf("lux-chardev", "lux-chardev") = <<Unmake("node"), Unmake("region"), Unmake("cdev")>>
  /\ RemoveOf("lux-gpio-chip", "lux-gpio-chip") = <<Unmake("lux-leds"), Unmake("lookup"), Unmake("chip")>>
  /\ RemoveOf("lux-leds", "lux-led") = <<Unmake("leds"), Unmake("pins")>>
  /\ RemoveOf("lux-leds", "lux-led-mc") = <<Unmake("mcleds"), Unmake("remapped")>>
<1>1. ASSUME NEW c, NEW d PROVE DelAll(<<c, d>>) = <<Del(d), Del(c)>>
  BY DEF DelAll, Reverse
<1>2. Cells("f0") = <<"lux-gpio-chip", "lux-chardev">> /\ Cells("f1") = <<"lux-irq", "lux-timer">>
      /\ Bars("f0") = "f0-bars" /\ Bars("f1") = "f1-bars"
  BY DEF Cells, F0Cells, F1Cells, Bars
<1>3. CoreRemove("f0") = <<Del("lux-chardev"), Del("lux-gpio-chip"), Put("f0-bars")>>
  <2>1. DelAll(Cells("f0")) = <<Del("lux-chardev"), Del("lux-gpio-chip")>>
    BY <1>1, <1>2
  <2>2. CoreRemove("f0") = <<Del("lux-chardev"), Del("lux-gpio-chip")>> \o <<Put("f0-bars")>>
    BY <1>2, <2>1 DEF CoreRemove
  <2>3. QED
    BY <2>2, Joined
<1>4. CoreRemove("f1") = <<Del("lux-timer"), Del("lux-irq"), Put("f1-bars")>>
  <2>1. DelAll(Cells("f1")) = <<Del("lux-timer"), Del("lux-irq")>>
    BY <1>1, <1>2
  <2>2. CoreRemove("f1") = <<Del("lux-timer"), Del("lux-irq")>> \o <<Put("f1-bars")>>
    BY <1>2, <2>1 DEF CoreRemove
  <2>3. QED
    BY <2>2, Joined
<1>5. /\ \A t \in {"f0-bars", "f1-bars", "vector", "domain", "mappings", "TIMER", "workqueue",
                   "clocksource", "clockevent", "misc", "region", "cdev", "node", "chip", "lookup",
                   "pins", "leds", "remapped", "mcleds"} : Unmake(t) = Put(t)
      /\ \A t \in {"lux-gpio-chip", "lux-chardev", "lux-irq", "lux-timer", "lux-leds"} :
           Unmake(t) = Del(t)
  BY DEF Unmake, Platform
<1>6. \A d : RemoveOf(d, "lux-core") = CoreRemove(d)
  BY DEF RemoveOf
<1>7. \A d : RemoveOf(d, "lux-irq") = IrqRemove
  BY DEF RemoveOf
<1>8. \A d : RemoveOf(d, "lux-timer") = TimerRemove
  BY DEF RemoveOf
<1>9. \A d : RemoveOf(d, "lux-chardev") = CdevRemove
  BY DEF RemoveOf
<1>10. \A d : RemoveOf(d, "lux-gpio-chip") = GpioRemove
  BY DEF RemoveOf
<1>11. \A d : RemoveOf(d, "lux-led") = LedRemove
  BY DEF RemoveOf
<1>12. \A d : RemoveOf(d, "lux-led-mc") = LedMcRemove
  BY DEF RemoveOf
<1>13. RemoveOf("f0", "lux-core") =
       <<Unmake("lux-chardev"), Unmake("lux-gpio-chip"), Unmake("f0-bars")>>
  BY <1>3, <1>5, <1>6
<1>14. RemoveOf("f1", "lux-core") =
       <<Unmake("lux-timer"), Unmake("lux-irq"), Unmake("f1-bars")>>
  BY <1>4, <1>5, <1>6
<1>15. RemoveOf("lux-irq", "lux-irq") =
       <<Forget, Mask({}), Put("handler"), Unmake("mappings"), Unmake("domain"), Unmake("vector")>>
  BY <1>5, <1>7 DEF IrqRemove
<1>16. RemoveOf("lux-timer", "lux-timer") =
       <<Unmake("workqueue"), Unmake("misc"), Unmake("clocksource"), Unmake("clockevent"), Unmake("TIMER")>>
  BY <1>5, <1>8 DEF TimerRemove
<1>17. RemoveOf("lux-chardev", "lux-chardev") =
       <<Unmake("node"), Unmake("region"), Unmake("cdev")>>
  BY <1>5, <1>9 DEF CdevRemove
<1>18. RemoveOf("lux-gpio-chip", "lux-gpio-chip") =
       <<Unmake("lux-leds"), Unmake("lookup"), Unmake("chip")>>
  BY <1>5, <1>10 DEF GpioRemove
<1>19. RemoveOf("lux-leds", "lux-led") =
       <<Unmake("leds"), Unmake("pins")>>
  BY <1>5, <1>11 DEF LedRemove
<1>20. RemoveOf("lux-leds", "lux-led-mc") =
       <<Unmake("mcleds"), Unmake("remapped")>>
  BY <1>5, <1>12 DEF LedMcRemove
<1>21. QED
  BY <1>13, <1>14, <1>15, <1>16, <1>17, <1>18, <1>19, <1>20, Zenon

\* CellUndo, with the set in which it selects.
Places1(f, d) == {i \in 1 .. Len(Cells(f)) : Cells(f)[i] = d}

\* What mfd-core undoes when its n-th cell fails: the cells before it.
LEMMA CellUndoIs ==
  ASSUME NEW f, NEW d, NEW n \in Nat, Places1(f, d) = {n}
  PROVE  CellUndo(f, d) = DelAll(SubSeq(Cells(f), 1, n - 1)) \o <<Put(Bars(f))>>
<1>1. CellUndo(f, d) =
        LET I == {i \in 1 .. Len(Cells(f)) : Cells(f)[i] = d}
            k == IF I # {} THEN Min(I) ELSE 0
        IN  DelAll(SubSeq(Cells(f), 1, k - 1)) \o <<Put(Bars(f))>>
  BY DEF CellUndo, SelectInSeq
<1>2. Min({n}) = n
  BY DEF Min
<1>3. {i \in 1 .. Len(Cells(f)) : Cells(f)[i] = d} = {n}
  BY DEF Places1
<1>4. (IF {i \in 1 .. Len(Cells(f)) : Cells(f)[i] = d} # {}
       THEN Min({i \in 1 .. Len(Cells(f)) : Cells(f)[i] = d}) ELSE 0) = n
  BY <1>2, <1>3
<1>5. QED
  BY <1>1, <1>4

\* Written out for the cells there are.
LEMMA CellUndosAre ==
  /\ CellUndo("f0", "lux-gpio-chip") = <<Put("f0-bars")>>
  /\ CellUndo("f0", "lux-chardev") = <<Del("lux-gpio-chip"), Put("f0-bars")>>
  /\ CellUndo("f1", "lux-irq") = <<Put("f1-bars")>>
<1>1. Cells("f0") = <<"lux-gpio-chip", "lux-chardev">> /\ Cells("f1") = <<"lux-irq", "lux-timer">>
      /\ Bars("f0") = "f0-bars" /\ Bars("f1") = "f1-bars"
  BY DEF Cells, F0Cells, F1Cells, Bars
<1>2. Places1("f0", "lux-gpio-chip") = {1} /\ Places1("f0", "lux-chardev") = {2}
      /\ Places1("f1", "lux-irq") = {1}
  <2>1. Places1("f0", "lux-gpio-chip") = {1}
    BY <1>1 DEF Places1
  <2>2. Places1("f0", "lux-chardev") = {2}
    BY <1>1 DEF Places1
  <2>3. Places1("f1", "lux-irq") = {1}
    BY <1>1 DEF Places1
  <2>4. QED
    BY <2>1, <2>2, <2>3
<1>3. ASSUME NEW a, NEW b
      PROVE  /\ DelAll(SubSeq(<<a, b>>, 1, 0)) = <<>>
             /\ DelAll(SubSeq(<<a, b>>, 1, 1)) = <<Del(a)>>
  <2>1. PICK h : h = SubSeq(<<a, b>>, 1, 0)
    OBVIOUS
  <2>2. PICK g : g = SubSeq(<<a, b>>, 1, 1)
    OBVIOUS
  <2>3. PICK k : k = <<a>>
    OBVIOUS
  <2>4. <<a, b>> \in Seq({a, b}) /\ k \in Seq({a, b}) /\ Len(k) = 1 /\ k[1] = a
    BY <2>3
  <2>5. h \in Seq({a, b}) /\ Len(h) = 0 /\ g \in Seq({a, b}) /\ Len(g) = 1 /\ g[1] = a
    BY <2>1, <2>2
  <2>6. h = <<>>
    BY <2>5
  <2>7. g = k
    BY <2>4, <2>5, SeqEqual
  <2>8. DelAll(<<>>) = <<>>
    BY DEF DelAll
  <2>9. DelAll(<<a>>) = <<Del(a)>>
    BY DEF DelAll, Reverse
  <2>10. QED
    BY <2>1, <2>2, <2>3, <2>6, <2>7, <2>8, <2>9
<1>4. CellUndo("f0", "lux-gpio-chip") = <<Put("f0-bars")>>
  <2>1. CellUndo("f0", "lux-gpio-chip") = DelAll(SubSeq(Cells("f0"), 1, 0)) \o <<Put(Bars("f0"))>>
    BY <1>2, CellUndoIs
  <2>2. DelAll(SubSeq(Cells("f0"), 1, 0)) = <<>> /\ Put(Bars("f0")) = Put("f0-bars")
    BY <1>1, <1>3
  <2>3. CellUndo("f0", "lux-gpio-chip") = <<>> \o <<Put("f0-bars")>>
    BY <2>1, <2>2
  <2>4. QED
    BY <2>3, Joined
<1>5. CellUndo("f0", "lux-chardev") = <<Del("lux-gpio-chip"), Put("f0-bars")>>
  <2>1. CellUndo("f0", "lux-chardev") = DelAll(SubSeq(Cells("f0"), 1, 1)) \o <<Put(Bars("f0"))>>
    BY <1>2, CellUndoIs
  <2>2. DelAll(SubSeq(Cells("f0"), 1, 1)) = <<Del("lux-gpio-chip")>> /\ Put(Bars("f0")) = Put("f0-bars")
    BY <1>1, <1>3
  <2>3. CellUndo("f0", "lux-chardev") = <<Del("lux-gpio-chip")>> \o <<Put("f0-bars")>>
    BY <2>1, <2>2
  <2>4. QED
    BY <2>3, Joined
<1>6. CellUndo("f1", "lux-irq") = <<Put("f1-bars")>>
  <2>1. CellUndo("f1", "lux-irq") = DelAll(SubSeq(Cells("f1"), 1, 0)) \o <<Put(Bars("f1"))>>
    BY <1>2, CellUndoIs
  <2>2. DelAll(SubSeq(Cells("f1"), 1, 0)) = <<>> /\ Put(Bars("f1")) = Put("f1-bars")
    BY <1>1, <1>3
  <2>3. CellUndo("f1", "lux-irq") = <<>> \o <<Put("f1-bars")>>
    BY <2>1, <2>2
  <2>4. QED
    BY <2>3, Joined
<1>7. QED
  BY <1>4, <1>5, <1>6

\* The instructions whose failure has an error path.
Undoable == Things \ (Unrecovered \cup Infallible)

\* The error paths, written out.
LEMMA UndosAre ==
  /\ \A t \in {"f0-bars", "f1-bars", "vector", "TIMER", "region", "chip", "pins", "remapped"} :
       Undo(Make(t)) = <<>>
  /\ Undo(Make("lux-gpio-chip")) = <<Unmake("f0-bars")>>
  /\ Undo(Make("lux-irq")) = <<Unmake("f1-bars")>>
  /\ Undo(Make("workqueue")) = <<Unmake("TIMER")>>
  /\ Undo(Make("cdev")) = <<Unmake("region")>>
  /\ Undo(Make("lookup")) = <<Unmake("chip")>>
  /\ Undo(Make("leds")) = <<Unmake("pins")>>
  /\ Undo(Make("mcleds")) = <<Unmake("remapped")>>
  /\ Undo(Make("lux-chardev")) = <<Unmake("lux-gpio-chip"), Unmake("f0-bars")>>
  /\ Undo(Make("node")) = <<Unmake("region"), Unmake("cdev")>>
  /\ Undo(Make("lux-leds")) = <<Unmake("lookup"), Unmake("chip")>>
<1>1. ToSet(F0Cells) = {"lux-gpio-chip", "lux-chardev"} /\ ToSet(F1Cells) = {"lux-irq", "lux-timer"}
  BY DEF ToSet, F0Cells, F1Cells
<1>2. {Add(d) : d \in ToSet(F0Cells)} = {Add("lux-gpio-chip"), Add("lux-chardev")}
      /\ {Add(d) : d \in ToSet(F1Cells)} = {Add("lux-irq"), Add("lux-timer")}
  BY <1>1
<1>3. /\ \A t \in Things \ Platform : Make(t) = Get(t) /\ Unmake(t) = Put(t)
      /\ \A t \in Platform : Make(t) = Add(t) /\ Unmake(t) = Del(t)
  BY DEF Make, Unmake
<1>4. ASSUME NEW r
      PROVE  Get(r) \notin {Add(d) : d \in ToSet(F0Cells)} \cup {Add(d) : d \in ToSet(F1Cells)}
  BY <1>2 DEF Get, Add
<1>5. \A t \in {"f0-bars", "f1-bars", "vector", "TIMER", "region", "chip", "pins", "remapped"} :
        Undo(Get(t)) = <<>>
  BY <1>4 DEF Undo, Get, Add, Register
<1>6. Undo(Get("workqueue")) = <<Put("TIMER")>>
  BY <1>4 DEF Undo, Get, Add, Register
<1>7. Undo(Get("cdev")) = <<Put("region")>>
  BY <1>4 DEF Undo, Get, Add, Register
<1>8. Undo(Get("lookup")) = <<Put("chip")>>
  BY <1>4 DEF Undo, Get, Add, Register
<1>9. Undo(Get("leds")) = <<Put("pins")>>
  BY <1>4 DEF Undo, Get, Add, Register
<1>10. Undo(Get("mcleds")) = <<Put("remapped")>>
  BY <1>4 DEF Undo, Get, Add, Register
<1>11. Undo(Get("node")) = <<Put("region"), Put("cdev")>>
  BY <1>4 DEF Undo, Get, Add, Register
<1>12. Undo(Add("lux-leds")) = <<Put("lookup"), Put("chip")>>
  BY <1>2 DEF Undo, Get, Add, Register
<1>13. Undo(Add("lux-gpio-chip")) = CellUndo("f0", "lux-gpio-chip")
  BY <1>2 DEF Undo, Get, Add, Register
<1>14. Undo(Add("lux-chardev")) = CellUndo("f0", "lux-chardev")
  BY <1>2 DEF Undo, Get, Add, Register
<1>15. Undo(Add("lux-irq")) = CellUndo("f1", "lux-irq")
  BY <1>2 DEF Undo, Get, Add, Register
<1>16. /\ {"f0-bars", "f1-bars", "vector", "TIMER", "region", "chip", "pins", "remapped",
           "workqueue", "cdev", "lookup", "leds", "mcleds", "node"} \subseteq Things \ Platform
       /\ {"lux-leds", "lux-gpio-chip", "lux-chardev", "lux-irq"} \subseteq Platform
  BY DEF Things, Platform
<1>17. \A t \in {"f0-bars", "f1-bars", "vector", "TIMER", "region", "chip", "pins", "remapped"} :
         Undo(Make(t)) = <<>>
  BY <1>3, <1>5, <1>16
<1>18. Undo(Make("lux-gpio-chip")) = <<Unmake("f0-bars")>>
  BY <1>3, <1>13, <1>16, CellUndosAre
<1>19. Undo(Make("lux-irq")) = <<Unmake("f1-bars")>>
  BY <1>3, <1>15, <1>16, CellUndosAre
<1>20. Undo(Make("workqueue")) = <<Unmake("TIMER")>>
  BY <1>3, <1>6, <1>16
<1>21. Undo(Make("cdev")) = <<Unmake("region")>>
  BY <1>3, <1>7, <1>16
<1>22. Undo(Make("lookup")) = <<Unmake("chip")>>
  BY <1>3, <1>8, <1>16
<1>23. Undo(Make("leds")) = <<Unmake("pins")>>
  BY <1>3, <1>9, <1>16
<1>24. Undo(Make("mcleds")) = <<Unmake("remapped")>>
  BY <1>3, <1>10, <1>16
<1>25. Undo(Make("lux-chardev")) = <<Unmake("lux-gpio-chip"), Unmake("f0-bars")>>
  BY <1>3, <1>14, <1>16, CellUndosAre
<1>26. Undo(Make("node")) = <<Unmake("region"), Unmake("cdev")>>
  BY <1>3, <1>11, <1>16
<1>27. Undo(Make("lux-leds")) = <<Unmake("lookup"), Unmake("chip")>>
  BY <1>3, <1>12, <1>16
<1>28. QED
  BY <1>17, <1>18, <1>19, <1>20, <1>21, <1>22, <1>23, <1>24, <1>25, <1>26, <1>27, Zenon

\* An error path unmakes what the probe has made before the instruction that failed.
LEMMA UndoPiece ==
  ASSUME NEW t \in Undoable
  PROVE  /\ Piece(Undo(Make(t)) \o <<Unbound(Keeper(t))>>, Keeper(t))
         /\ \A x : In(x, Undo(Make(t)) \o <<Unbound(Keeper(t))>>) <=>
                     x = Unbound(Keeper(t)) \/ \E s \in Things : Later(t, s) /\ x = Unmake(s)
<1>1. t \in Things /\ Keeper(t) \in Devices
  BY KeepersAre DEF Undoable
<1>2. t \in {"f0-bars", "f1-bars", "vector", "TIMER", "region", "chip", "pins", "remapped",
             "lux-gpio-chip", "lux-irq", "workqueue", "cdev", "lookup", "leds", "mcleds",
             "lux-chardev", "node", "lux-leds"}
  BY DEF Undoable, Things, Unrecovered, Infallible
<1>3. CASE t \in {"f0-bars", "f1-bars", "vector", "TIMER", "region", "chip", "pins", "remapped"}
  <2>1. Undo(Make(t)) = <<>>
    BY <1>3, UndosAre
  <2>2. \A s \in Things : ~Later(t, s)
    BY <1>3 DEF Later, Things, Rank
  <2>3. PICK e : e = <<>>
    OBVIOUS
  <2>4. e \in Seq(Things) /\ e \in Seq(Instrs) /\ Len(e) = 0
    BY <2>3
  <2>5. \A i : i \notin 1 .. 0
    OBVIOUS
  <2>6. /\ Piece(e \o <<Unbound(Keeper(t))>>, Keeper(t))
        /\ \A x : In(x, e \o <<Unbound(Keeper(t))>>) <=>
                    x = Unbound(Keeper(t)) \/ \E i \in 1 .. Len(e) : x = Unmake(e[i])
    BY <1>1, <2>4, <2>5, UnmakesPiece
  <2>7. QED
    BY <2>1, <2>2, <2>3, <2>4, <2>5, <2>6
<1>4. ASSUME NEW s \in Things, Undo(Make(t)) = <<Unmake(s)>>,
             \A a \in Things : Later(t, a) <=> a = s,
             \A a \in Things : ~Under(a, s), s # "lux-timer", Keeper(s) = Keeper(t)
      PROVE  /\ Piece(Undo(Make(t)) \o <<Unbound(Keeper(t))>>, Keeper(t))
             /\ \A x : In(x, Undo(Make(t)) \o <<Unbound(Keeper(t))>>) <=>
                         x = Unbound(Keeper(t)) \/ \E a \in Things : Later(t, a) /\ x = Unmake(a)
  <2>1. Unmake(s) \in Instrs
    BY InstructionsAre
  <2>2. PICK ts : ts = <<s>>
    OBVIOUS
  <2>3. PICK p : p = <<Unmake(s)>>
    OBVIOUS
  <2>4. ts \in Seq(Things) /\ p \in Seq(Instrs) /\ Len(ts) = 1 /\ Len(p) = 1
        /\ ts[1] = s /\ p[1] = Unmake(s)
    BY <2>1, <2>2, <2>3
  <2>5. \A i, j \in 1 .. 1 : i = 1 /\ j = 1
    OBVIOUS
  <2>6. /\ Piece(p \o <<Unbound(Keeper(t))>>, Keeper(t))
        /\ \A x : In(x, p \o <<Unbound(Keeper(t))>>) <=>
                    x = Unbound(Keeper(t)) \/ \E i \in 1 .. Len(ts) : x = Unmake(ts[i])
    <3> HIDE <2>2
    <3> QED BY <1>1, <1>4, <2>4, <2>5, UnmakesPiece
  <2>7. QED
    BY <1>4, <2>3, <2>4, <2>5, <2>6
<1>5. ASSUME NEW s \in Things, NEW r \in Things, Undo(Make(t)) = <<Unmake(s), Unmake(r)>>,
             \A a \in Things : Later(t, a) <=> a \in {r, s}, r # s,
             \A a \in Things : (Under(a, s) => a = r) /\ ~Under(a, r),
             s # "lux-timer", r # "lux-timer", Keeper(s) = Keeper(t), Keeper(r) = Keeper(t)
      PROVE  /\ Piece(Undo(Make(t)) \o <<Unbound(Keeper(t))>>, Keeper(t))
             /\ \A x : In(x, Undo(Make(t)) \o <<Unbound(Keeper(t))>>) <=>
                         x = Unbound(Keeper(t)) \/ \E a \in Things : Later(t, a) /\ x = Unmake(a)
  <2>1. Unmake(s) \in Instrs /\ Unmake(r) \in Instrs
    BY InstructionsAre
  <2>2. PICK ts : ts = <<s, r>>
    OBVIOUS
  <2>3. PICK p : p = <<Unmake(s), Unmake(r)>>
    OBVIOUS
  <2>4. ts \in Seq(Things) /\ p \in Seq(Instrs) /\ Len(ts) = 2 /\ Len(p) = 2
        /\ ts[1] = s /\ p[1] = Unmake(s) /\ ts[2] = r /\ p[2] = Unmake(r)
    BY <2>1, <2>2, <2>3
  <2>5. \A i \in 1 .. 2 : i = 1 \/ i = 2
    OBVIOUS
  <2>6. ASSUME NEW i \in 1 .. Len(ts)
        PROVE  /\ Keeper(ts[i]) = Keeper(t) /\ p[i] = Unmake(ts[i])
               /\ \A j \in 1 .. Len(ts) : i < j => ts[i] # ts[j]
               /\ \A a \in Things : Under(a, ts[i]) \/ (ts[i] = "lux-timer" /\ a = "lux-irq")
                                      => \E j \in 1 .. Len(ts) : i < j /\ ts[j] = a
    BY <1>5, <2>4, <2>5
  <2>7. /\ Piece(p \o <<Unbound(Keeper(t))>>, Keeper(t))
        /\ \A x : In(x, p \o <<Unbound(Keeper(t))>>) <=>
                    x = Unbound(Keeper(t)) \/ \E i \in 1 .. Len(ts) : x = Unmake(ts[i])
    BY <1>1, <2>4, <2>6, UnmakesPiece, SMTT(40)
  <2>8. QED
    BY <1>5, <2>3, <2>4, <2>5, <2>7
<1>6. \A a \in Things \ Platform : \A b : ~Under(b, a)
  BY DEF Under
<1>7. \A a : Under(a, "lux-gpio-chip") /\ a \in Things => a = "f0-bars"
  BY DEF Under, Things, Platform, Keeper
<1>8. CASE t = "lux-gpio-chip"
  BY <1>4, <1>6, <1>8, UndosAre, SMTT(40) DEF Later, Keeper, Driver, Rank, Things, Platform
<1>9. CASE t = "lux-irq"
  BY <1>4, <1>6, <1>9, UndosAre, SMTT(40) DEF Later, Keeper, Driver, Rank, Things, Platform
<1>10. CASE t = "workqueue"
  BY <1>4, <1>6, <1>10, UndosAre, SMTT(40) DEF Later, Keeper, Driver, Rank, Things, Platform
<1>11. CASE t = "cdev"
  BY <1>4, <1>6, <1>11, UndosAre, SMTT(40) DEF Later, Keeper, Driver, Rank, Things, Platform
<1>12. CASE t = "lookup"
  BY <1>4, <1>6, <1>12, UndosAre, SMTT(40) DEF Later, Keeper, Driver, Rank, Things, Platform
<1>13. CASE t = "leds"
  BY <1>4, <1>6, <1>13, UndosAre, SMTT(40) DEF Later, Keeper, Driver, Rank, Things, Platform
<1>14. CASE t = "mcleds"
  BY <1>4, <1>6, <1>14, UndosAre, SMTT(40) DEF Later, Keeper, Driver, Rank, Things, Platform
<1>15. CASE t = "lux-chardev"
  <2>1. /\ "lux-gpio-chip" \in Things /\ "f0-bars" \in Things
        /\ Keeper("lux-gpio-chip") = Keeper(t) /\ Keeper("f0-bars") = Keeper(t)
    BY <1>15 DEF Things, Keeper
  <2>2. \A a \in Things : Later(t, a) <=> a \in {"lux-gpio-chip", "f0-bars"}
    BY <1>15 DEF Later, Keeper, Driver, Rank, Things
  <2>3. \A a \in Things : (Under(a, "lux-gpio-chip") => a = "f0-bars") /\ ~Under(a, "f0-bars")
    BY <1>6, <1>7 DEF Things, Platform
  <2>4. QED
    BY <1>5, <1>15, <2>1, <2>2, <2>3, UndosAre
<1>16. CASE t = "node"
  <2>1. /\ "region" \in Things /\ "cdev" \in Things
        /\ Keeper("region") = Keeper(t) /\ Keeper("cdev") = Keeper(t)
    BY <1>16 DEF Things, Keeper
  <2>2. \A a \in Things : Later(t, a) <=> a \in {"region", "cdev"}
    BY <1>16 DEF Later, Keeper, Driver, Rank, Things
  <2>3. \A a \in Things : (Under(a, "region") => a = "cdev") /\ ~Under(a, "cdev")
    BY <1>6, <1>7 DEF Things, Platform
  <2>4. QED
    BY <1>5, <1>16, <2>1, <2>2, <2>3, UndosAre
<1>17. CASE t = "lux-leds"
  <2>1. /\ "lookup" \in Things /\ "chip" \in Things
        /\ Keeper("lookup") = Keeper(t) /\ Keeper("chip") = Keeper(t)
    BY <1>17 DEF Things, Keeper
  <2>2. \A a \in Things : Later(t, a) <=> a \in {"lookup", "chip"}
    BY <1>17 DEF Later, Keeper, Driver, Rank, Things
  <2>3. \A a \in Things : (Under(a, "lookup") => a = "chip") /\ ~Under(a, "chip")
    BY <1>6, <1>7 DEF Things, Platform
  <2>4. QED
    BY <1>5, <1>17, <2>1, <2>2, <2>3, UndosAre
<1>18. QED
  BY <1>2, <1>3, <1>8, <1>9, <1>10, <1>11, <1>12, <1>13, <1>14, <1>15, <1>16, <1>17

\* What a probe has to do.
LEMMA ProbePiece ==
  ASSUME NEW m \in Modules, NEW d \in DevicesOf(m), d # "lux-irq"
  PROVE  /\ Piece(ProbeOf(d, m) \o <<Bound(d, m)>>, d)
         /\ \A x : In(x, ProbeOf(d, m) \o <<Bound(d, m)>>) <=>
                     x = Bound(d, m) \/ \E t \in Things : Keeper(t) = d /\ Driver(t) = m /\ x = Make(t)
<1>1. d \in Devices
  BY DEF Devices
<1>2. ASSUME NEW ts \in Seq(Things), NEW p \in Seq(Instrs), p = ProbeOf(d, m), Len(p) = Len(ts),
             \A i \in 1 .. Len(ts) :
               /\ Keeper(ts[i]) = d /\ Driver(ts[i]) = m /\ Rank(ts[i]) = i
               /\ p[i] = Make(ts[i]),
             \A t \in Things : Keeper(t) = d /\ Driver(t) = m =>
                                 Rank(t) \in 1 .. Len(ts) /\ ts[Rank(t)] = t
      PROVE  /\ Piece(ProbeOf(d, m) \o <<Bound(d, m)>>, d)
             /\ \A x : In(x, ProbeOf(d, m) \o <<Bound(d, m)>>) <=>
                         x = Bound(d, m) \/ \E t \in Things : Keeper(t) = d /\ Driver(t) = m /\ x = Make(t)
  BY <1>2, MakesPiece
<1>3. CASE d = "f0" /\ m = "lux-core"
  <2>1. ProbeOf(d, m) = <<Make("f0-bars"), Make("lux-gpio-chip"), Make("lux-chardev")>>
    BY <1>3, ProbesAre
  <2>2. PICK ts : ts = <<"f0-bars", "lux-gpio-chip", "lux-chardev">>
    OBVIOUS
  <2>3. PICK p : p = <<Make("f0-bars"), Make("lux-gpio-chip"), Make("lux-chardev")>>
    OBVIOUS
  <2>4. {"f0-bars", "lux-gpio-chip", "lux-chardev"} \subseteq Things
    BY DEF Things
  <2>5. /\ ts \in Seq(Things) /\ p \in Seq(Instrs) /\ Len(ts) = 3 /\ Len(p) = 3
        /\ ts[1] = "f0-bars" /\ p[1] = Make("f0-bars")
        /\ ts[2] = "lux-gpio-chip" /\ p[2] = Make("lux-gpio-chip")
        /\ ts[3] = "lux-chardev" /\ p[3] = Make("lux-chardev")
    BY <2>2, <2>3, <2>4, InstructionsAre
  <2>6. \A i \in 1 .. 3 : i = 1 \/ i = 2 \/ i = 3
    OBVIOUS
  <2>7. \A i \in 1 .. Len(ts) : /\ Keeper(ts[i]) = d /\ Driver(ts[i]) = m /\ Rank(ts[i]) = i
                                /\ p[i] = Make(ts[i])
    BY <1>3, <2>5, <2>6 DEF Keeper, Driver, Rank
  <2>8. \A t \in Things : Keeper(t) = d /\ Driver(t) = m => t \in {"f0-bars", "lux-gpio-chip", "lux-chardev"}
    BY <1>3 DEF Things, Keeper, Driver
  <2>9. \A t \in {"f0-bars", "lux-gpio-chip", "lux-chardev"} : Rank(t) \in 1 .. Len(ts) /\ ts[Rank(t)] = t
    BY <2>5 DEF Rank
  <2>10. QED
    BY <1>2, <2>1, <2>3, <2>5, <2>7, <2>8, <2>9
<1>4. CASE d = "f1" /\ m = "lux-core"
  <2>1. ProbeOf(d, m) = <<Make("f1-bars"), Make("lux-irq"), Make("lux-timer")>>
    BY <1>4, ProbesAre
  <2>2. PICK ts : ts = <<"f1-bars", "lux-irq", "lux-timer">>
    OBVIOUS
  <2>3. PICK p : p = <<Make("f1-bars"), Make("lux-irq"), Make("lux-timer")>>
    OBVIOUS
  <2>4. {"f1-bars", "lux-irq", "lux-timer"} \subseteq Things
    BY DEF Things
  <2>5. /\ ts \in Seq(Things) /\ p \in Seq(Instrs) /\ Len(ts) = 3 /\ Len(p) = 3
        /\ ts[1] = "f1-bars" /\ p[1] = Make("f1-bars")
        /\ ts[2] = "lux-irq" /\ p[2] = Make("lux-irq")
        /\ ts[3] = "lux-timer" /\ p[3] = Make("lux-timer")
    BY <2>2, <2>3, <2>4, InstructionsAre
  <2>6. \A i \in 1 .. 3 : i = 1 \/ i = 2 \/ i = 3
    OBVIOUS
  <2>7. \A i \in 1 .. Len(ts) : /\ Keeper(ts[i]) = d /\ Driver(ts[i]) = m /\ Rank(ts[i]) = i
                                /\ p[i] = Make(ts[i])
    BY <1>4, <2>5, <2>6 DEF Keeper, Driver, Rank
  <2>8. \A t \in Things : Keeper(t) = d /\ Driver(t) = m => t \in {"f1-bars", "lux-irq", "lux-timer"}
    BY <1>4 DEF Things, Keeper, Driver
  <2>9. \A t \in {"f1-bars", "lux-irq", "lux-timer"} : Rank(t) \in 1 .. Len(ts) /\ ts[Rank(t)] = t
    BY <2>5 DEF Rank
  <2>10. QED
    BY <1>2, <2>1, <2>3, <2>5, <2>7, <2>8, <2>9
<1>5. CASE d = "lux-timer" /\ m = "lux-timer"
  <2>1. ProbeOf(d, m) =
          <<Make("TIMER"), Make("workqueue"), Make("clocksource"), Make("clockevent"), Make("misc")>>
    BY <1>5, ProbesAre
  <2>2. PICK ts : ts = <<"TIMER", "workqueue", "clocksource", "clockevent", "misc">>
    OBVIOUS
  <2>3. PICK p :
          p = <<Make("TIMER"), Make("workqueue"), Make("clocksource"), Make("clockevent"), Make("misc")>>
    OBVIOUS
  <2>4. {"TIMER", "workqueue", "clocksource", "clockevent", "misc"} \subseteq Things
    BY DEF Things
  <2>5. /\ ts \in Seq(Things) /\ p \in Seq(Instrs) /\ Len(ts) = 5 /\ Len(p) = 5
        /\ ts[1] = "TIMER" /\ p[1] = Make("TIMER")
        /\ ts[2] = "workqueue" /\ p[2] = Make("workqueue")
        /\ ts[3] = "clocksource" /\ p[3] = Make("clocksource")
        /\ ts[4] = "clockevent" /\ p[4] = Make("clockevent")
        /\ ts[5] = "misc" /\ p[5] = Make("misc")
    BY <2>2, <2>3, <2>4, InstructionsAre
  <2>6. \A i \in 1 .. 5 : i = 1 \/ i = 2 \/ i = 3 \/ i = 4 \/ i = 5
    OBVIOUS
  <2>7. \A i \in 1 .. Len(ts) : /\ Keeper(ts[i]) = d /\ Driver(ts[i]) = m /\ Rank(ts[i]) = i
                                /\ p[i] = Make(ts[i])
    BY <1>5, <2>5, <2>6 DEF Keeper, Driver, Rank
  <2>8. \A t \in Things : Keeper(t) = d /\ Driver(t) = m =>
          t \in {"TIMER", "workqueue", "clocksource", "clockevent", "misc"}
    BY <1>5 DEF Things, Keeper, Driver
  <2>9. \A t \in {"TIMER", "workqueue", "clocksource", "clockevent", "misc"} :
          Rank(t) \in 1 .. Len(ts) /\ ts[Rank(t)] = t
    BY <2>5 DEF Rank
  <2>10. QED
    BY <1>2, <2>1, <2>3, <2>5, <2>7, <2>8, <2>9
<1>6. CASE d = "lux-chardev" /\ m = "lux-chardev"
  <2>1. ProbeOf(d, m) = <<Make("region"), Make("cdev"), Make("node")>>
    BY <1>6, ProbesAre
  <2>2. PICK ts : ts = <<"region", "cdev", "node">>
    OBVIOUS
  <2>3. PICK p : p = <<Make("region"), Make("cdev"), Make("node")>>
    OBVIOUS
  <2>4. {"region", "cdev", "node"} \subseteq Things
    BY DEF Things
  <2>5. /\ ts \in Seq(Things) /\ p \in Seq(Instrs) /\ Len(ts) = 3 /\ Len(p) = 3
        /\ ts[1] = "region" /\ p[1] = Make("region")
        /\ ts[2] = "cdev" /\ p[2] = Make("cdev")
        /\ ts[3] = "node" /\ p[3] = Make("node")
    BY <2>2, <2>3, <2>4, InstructionsAre
  <2>6. \A i \in 1 .. 3 : i = 1 \/ i = 2 \/ i = 3
    OBVIOUS
  <2>7. \A i \in 1 .. Len(ts) : /\ Keeper(ts[i]) = d /\ Driver(ts[i]) = m /\ Rank(ts[i]) = i
                                /\ p[i] = Make(ts[i])
    BY <1>6, <2>5, <2>6 DEF Keeper, Driver, Rank
  <2>8. \A t \in Things : Keeper(t) = d /\ Driver(t) = m => t \in {"region", "cdev", "node"}
    BY <1>6 DEF Things, Keeper, Driver
  <2>9. \A t \in {"region", "cdev", "node"} : Rank(t) \in 1 .. Len(ts) /\ ts[Rank(t)] = t
    BY <2>5 DEF Rank
  <2>10. QED
    BY <1>2, <2>1, <2>3, <2>5, <2>7, <2>8, <2>9
<1>7. CASE d = "lux-gpio-chip" /\ m = "lux-gpio-chip"
  <2>1. ProbeOf(d, m) = <<Make("chip"), Make("lookup"), Make("lux-leds")>>
    BY <1>7, ProbesAre
  <2>2. PICK ts : ts = <<"chip", "lookup", "lux-leds">>
    OBVIOUS
  <2>3. PICK p : p = <<Make("chip"), Make("lookup"), Make("lux-leds")>>
    OBVIOUS
  <2>4. {"chip", "lookup", "lux-leds"} \subseteq Things
    BY DEF Things
  <2>5. /\ ts \in Seq(Things) /\ p \in Seq(Instrs) /\ Len(ts) = 3 /\ Len(p) = 3
        /\ ts[1] = "chip" /\ p[1] = Make("chip")
        /\ ts[2] = "lookup" /\ p[2] = Make("lookup")
        /\ ts[3] = "lux-leds" /\ p[3] = Make("lux-leds")
    BY <2>2, <2>3, <2>4, InstructionsAre
  <2>6. \A i \in 1 .. 3 : i = 1 \/ i = 2 \/ i = 3
    OBVIOUS
  <2>7. \A i \in 1 .. Len(ts) : /\ Keeper(ts[i]) = d /\ Driver(ts[i]) = m /\ Rank(ts[i]) = i
                                /\ p[i] = Make(ts[i])
    BY <1>7, <2>5, <2>6 DEF Keeper, Driver, Rank
  <2>8. \A t \in Things : Keeper(t) = d /\ Driver(t) = m => t \in {"chip", "lookup", "lux-leds"}
    BY <1>7 DEF Things, Keeper, Driver
  <2>9. \A t \in {"chip", "lookup", "lux-leds"} : Rank(t) \in 1 .. Len(ts) /\ ts[Rank(t)] = t
    BY <2>5 DEF Rank
  <2>10. QED
    BY <1>2, <2>1, <2>3, <2>5, <2>7, <2>8, <2>9
<1>8. CASE d = "lux-leds" /\ m = "lux-led"
  <2>1. ProbeOf(d, m) = <<Make("pins"), Make("leds")>>
    BY <1>8, ProbesAre
  <2>2. PICK ts : ts = <<"pins", "leds">>
    OBVIOUS
  <2>3. PICK p : p = <<Make("pins"), Make("leds")>>
    OBVIOUS
  <2>4. {"pins", "leds"} \subseteq Things
    BY DEF Things
  <2>5. /\ ts \in Seq(Things) /\ p \in Seq(Instrs) /\ Len(ts) = 2 /\ Len(p) = 2
        /\ ts[1] = "pins" /\ p[1] = Make("pins")
        /\ ts[2] = "leds" /\ p[2] = Make("leds")
    BY <2>2, <2>3, <2>4, InstructionsAre
  <2>6. \A i \in 1 .. 2 : i = 1 \/ i = 2
    OBVIOUS
  <2>7. \A i \in 1 .. Len(ts) : /\ Keeper(ts[i]) = d /\ Driver(ts[i]) = m /\ Rank(ts[i]) = i
                                /\ p[i] = Make(ts[i])
    BY <1>8, <2>5, <2>6 DEF Keeper, Driver, Rank
  <2>8. \A t \in Things : Keeper(t) = d /\ Driver(t) = m => t \in {"pins", "leds"}
    BY <1>8 DEF Things, Keeper, Driver
  <2>9. \A t \in {"pins", "leds"} : Rank(t) \in 1 .. Len(ts) /\ ts[Rank(t)] = t
    BY <2>5 DEF Rank
  <2>10. QED
    BY <1>2, <2>1, <2>3, <2>5, <2>7, <2>8, <2>9
<1>9. CASE d = "lux-leds" /\ m = "lux-led-mc"
  <2>1. ProbeOf(d, m) = <<Make("remapped"), Make("mcleds")>>
    BY <1>9, ProbesAre
  <2>2. PICK ts : ts = <<"remapped", "mcleds">>
    OBVIOUS
  <2>3. PICK p : p = <<Make("remapped"), Make("mcleds")>>
    OBVIOUS
  <2>4. {"remapped", "mcleds"} \subseteq Things
    BY DEF Things
  <2>5. /\ ts \in Seq(Things) /\ p \in Seq(Instrs) /\ Len(ts) = 2 /\ Len(p) = 2
        /\ ts[1] = "remapped" /\ p[1] = Make("remapped")
        /\ ts[2] = "mcleds" /\ p[2] = Make("mcleds")
    BY <2>2, <2>3, <2>4, InstructionsAre
  <2>6. \A i \in 1 .. 2 : i = 1 \/ i = 2
    OBVIOUS
  <2>7. \A i \in 1 .. Len(ts) : /\ Keeper(ts[i]) = d /\ Driver(ts[i]) = m /\ Rank(ts[i]) = i
                                /\ p[i] = Make(ts[i])
    BY <1>9, <2>5, <2>6 DEF Keeper, Driver, Rank
  <2>8. \A t \in Things : Keeper(t) = d /\ Driver(t) = m => t \in {"remapped", "mcleds"}
    BY <1>9 DEF Things, Keeper, Driver
  <2>9. \A t \in {"remapped", "mcleds"} : Rank(t) \in 1 .. Len(ts) /\ ts[Rank(t)] = t
    BY <2>5 DEF Rank
  <2>10. QED
    BY <1>2, <2>1, <2>3, <2>5, <2>7, <2>8, <2>9
<1>10. QED
  BY <1>3, <1>4, <1>5, <1>6, <1>7, <1>8, <1>9, PairsAre DEF Pairs

\* What a remove has to do.
LEMMA RemovePiece ==
  ASSUME NEW m \in Modules, NEW d \in DevicesOf(m), d # "lux-irq"
  PROVE  /\ Piece(RemoveOf(d, m) \o <<Unbound(d)>>, d)
         /\ \A x : In(x, RemoveOf(d, m) \o <<Unbound(d)>>) <=>
                     x = Unbound(d) \/ \E t \in Things : Keeper(t) = d /\ Driver(t) = m /\ x = Unmake(t)
<1>1. d \in Devices
  BY DEF Devices
<1>2. ASSUME NEW ts \in Seq(Things), NEW p \in Seq(Instrs), p = RemoveOf(d, m), Len(p) = Len(ts),
             \A i \in 1 .. Len(ts) :
               /\ Keeper(ts[i]) = d /\ Driver(ts[i]) = m /\ p[i] = Unmake(ts[i])
               /\ \A j \in 1 .. Len(ts) : i < j => ts[i] # ts[j]
               /\ \A s \in Things : Under(s, ts[i]) \/ (ts[i] = "lux-timer" /\ s = "lux-irq")
                                      => \E j \in 1 .. Len(ts) : i < j /\ ts[j] = s,
             \A t \in Things : Keeper(t) = d /\ Driver(t) = m => \E i \in 1 .. Len(ts) : ts[i] = t
      PROVE  /\ Piece(RemoveOf(d, m) \o <<Unbound(d)>>, d)
             /\ \A x : In(x, RemoveOf(d, m) \o <<Unbound(d)>>) <=>
                         x = Unbound(d) \/ \E t \in Things : Keeper(t) = d /\ Driver(t) = m /\ x = Unmake(t)
  <2>1. /\ Piece(p \o <<Unbound(d)>>, d)
        /\ \A x : In(x, p \o <<Unbound(d)>>) <=>
                    x = Unbound(d) \/ \E i \in 1 .. Len(ts) : x = Unmake(ts[i])
    BY <1>1, <1>2, UnmakesPiece
  <2>2. \A i \in 1 .. Len(ts) : ts[i] \in Things
    OBVIOUS
  <2>3. QED
    BY <1>2, <2>1, <2>2
<1>3. \A a \in Things \ Platform : \A s : ~Under(s, a)
  BY DEF Under
<1>4. CASE d = "f0" /\ m = "lux-core"
  <2>1. RemoveOf(d, m) = <<Unmake("lux-chardev"), Unmake("lux-gpio-chip"), Unmake("f0-bars")>>
    BY <1>4, RemovesAre
  <2>2. PICK ts : ts = <<"lux-chardev", "lux-gpio-chip", "f0-bars">>
    OBVIOUS
  <2>3. PICK p : p = <<Unmake("lux-chardev"), Unmake("lux-gpio-chip"), Unmake("f0-bars")>>
    OBVIOUS
  <2>4. {"lux-chardev", "lux-gpio-chip", "f0-bars"} \subseteq Things
    BY DEF Things
  <2>5. /\ ts \in Seq(Things) /\ p \in Seq(Instrs) /\ Len(ts) = 3 /\ Len(p) = 3
        /\ ts[1] = "lux-chardev" /\ p[1] = Unmake("lux-chardev")
        /\ ts[2] = "lux-gpio-chip" /\ p[2] = Unmake("lux-gpio-chip")
        /\ ts[3] = "f0-bars" /\ p[3] = Unmake("f0-bars")
    BY <2>2, <2>3, <2>4, InstructionsAre
  <2>6. \A i \in 1 .. 3 : i = 1 \/ i = 2 \/ i = 3
    OBVIOUS
  <2>7. \A i \in 1 .. Len(ts) : /\ Keeper(ts[i]) = d /\ Driver(ts[i]) = m
                                /\ p[i] = Unmake(ts[i])
    BY <1>4, <2>5, <2>6 DEF Keeper, Driver
  <2>8. \A i, j \in 1 .. Len(ts) : i < j => ts[i] # ts[j]
    BY <2>5, <2>6
  <2>9. \A i \in 1 .. Len(ts) :
          \A s \in Things : Under(s, ts[i]) \/ (ts[i] = "lux-timer" /\ s = "lux-irq")
                               => \E j \in 1 .. Len(ts) : i < j /\ ts[j] = s
    <3>1. \A s \in Things : \A a \in {"lux-chardev", "lux-gpio-chip"} : Under(s, a) => s \in {"f0-bars"}
      BY DEF Under, Things, Platform, Keeper
    <3>2. \A s : \A a \in {"f0-bars"} : ~Under(s, a)
      BY DEF Under, Platform
    <3>3. QED
      BY <2>5, <2>6, <3>1, <3>2
  <2>10. \A t \in Things : Keeper(t) = d /\ Driver(t) = m => t \in {"lux-chardev", "lux-gpio-chip", "f0-bars"}
    BY <1>4 DEF Things, Keeper, Driver
  <2>11. \A t \in {"lux-chardev", "lux-gpio-chip", "f0-bars"} : \E i \in 1 .. Len(ts) : ts[i] = t
    BY <2>5
  <2>12. \A t \in Things : Keeper(t) = d /\ Driver(t) = m => \E i \in 1 .. Len(ts) : ts[i] = t
    BY <2>10, <2>11
  <2>13. ts \in Seq(Things) /\ p \in Seq(Instrs) /\ p = RemoveOf(d, m) /\ Len(p) = Len(ts)
    BY <2>1, <2>3, <2>5
  <2>14. QED
    BY <1>2, <2>7, <2>8, <2>9, <2>12, <2>13
<1>5. CASE d = "f1" /\ m = "lux-core"
  <2>1. RemoveOf(d, m) = <<Unmake("lux-timer"), Unmake("lux-irq"), Unmake("f1-bars")>>
    BY <1>5, RemovesAre
  <2>2. PICK ts : ts = <<"lux-timer", "lux-irq", "f1-bars">>
    OBVIOUS
  <2>3. PICK p : p = <<Unmake("lux-timer"), Unmake("lux-irq"), Unmake("f1-bars")>>
    OBVIOUS
  <2>4. {"lux-timer", "lux-irq", "f1-bars"} \subseteq Things
    BY DEF Things
  <2>5. /\ ts \in Seq(Things) /\ p \in Seq(Instrs) /\ Len(ts) = 3 /\ Len(p) = 3
        /\ ts[1] = "lux-timer" /\ p[1] = Unmake("lux-timer")
        /\ ts[2] = "lux-irq" /\ p[2] = Unmake("lux-irq")
        /\ ts[3] = "f1-bars" /\ p[3] = Unmake("f1-bars")
    BY <2>2, <2>3, <2>4, InstructionsAre
  <2>6. \A i \in 1 .. 3 : i = 1 \/ i = 2 \/ i = 3
    OBVIOUS
  <2>7. \A i \in 1 .. Len(ts) : /\ Keeper(ts[i]) = d /\ Driver(ts[i]) = m
                                /\ p[i] = Unmake(ts[i])
    BY <1>5, <2>5, <2>6 DEF Keeper, Driver
  <2>8. \A i, j \in 1 .. Len(ts) : i < j => ts[i] # ts[j]
    BY <2>5, <2>6
  <2>9. \A i \in 1 .. Len(ts) :
          \A s \in Things : Under(s, ts[i]) \/ (ts[i] = "lux-timer" /\ s = "lux-irq")
                               => \E j \in 1 .. Len(ts) : i < j /\ ts[j] = s
    <3>1. \A s \in Things : \A a \in {"lux-timer", "lux-irq"} : Under(s, a) => s \in {"f1-bars"}
      BY DEF Under, Things, Platform, Keeper
    <3>2. \A s : \A a \in {"f1-bars"} : ~Under(s, a)
      BY DEF Under, Platform
    <3>3. QED
      BY <2>5, <2>6, <3>1, <3>2
  <2>10. \A t \in Things : Keeper(t) = d /\ Driver(t) = m => t \in {"lux-timer", "lux-irq", "f1-bars"}
    BY <1>5 DEF Things, Keeper, Driver
  <2>11. \A t \in {"lux-timer", "lux-irq", "f1-bars"} : \E i \in 1 .. Len(ts) : ts[i] = t
    BY <2>5
  <2>12. \A t \in Things : Keeper(t) = d /\ Driver(t) = m => \E i \in 1 .. Len(ts) : ts[i] = t
    BY <2>10, <2>11
  <2>13. ts \in Seq(Things) /\ p \in Seq(Instrs) /\ p = RemoveOf(d, m) /\ Len(p) = Len(ts)
    BY <2>1, <2>3, <2>5
  <2>14. QED
    BY <1>2, <2>7, <2>8, <2>9, <2>12, <2>13
<1>6. CASE d = "lux-timer" /\ m = "lux-timer"
  <2>1. RemoveOf(d, m) =
          <<Unmake("workqueue"), Unmake("misc"), Unmake("clocksource"), Unmake("clockevent"), Unmake("TIMER")>>
    BY <1>6, RemovesAre
  <2>2. PICK ts : ts = <<"workqueue", "misc", "clocksource", "clockevent", "TIMER">>
    OBVIOUS
  <2>3. PICK p :
          p = <<Unmake("workqueue"), Unmake("misc"), Unmake("clocksource"), Unmake("clockevent"), Unmake("TIMER")>>
    OBVIOUS
  <2>4. {"workqueue", "misc", "clocksource", "clockevent", "TIMER"} \subseteq Things
    BY DEF Things
  <2>5. /\ ts \in Seq(Things) /\ p \in Seq(Instrs) /\ Len(ts) = 5 /\ Len(p) = 5
        /\ ts[1] = "workqueue" /\ p[1] = Unmake("workqueue")
        /\ ts[2] = "misc" /\ p[2] = Unmake("misc")
        /\ ts[3] = "clocksource" /\ p[3] = Unmake("clocksource")
        /\ ts[4] = "clockevent" /\ p[4] = Unmake("clockevent")
        /\ ts[5] = "TIMER" /\ p[5] = Unmake("TIMER")
    BY <2>2, <2>3, <2>4, InstructionsAre
  <2>6. \A i \in 1 .. 5 : i = 1 \/ i = 2 \/ i = 3 \/ i = 4 \/ i = 5
    OBVIOUS
  <2>7. \A i \in 1 .. Len(ts) : /\ Keeper(ts[i]) = d /\ Driver(ts[i]) = m
                                /\ p[i] = Unmake(ts[i])
    BY <1>6, <2>5, <2>6 DEF Keeper, Driver
  <2>8. \A i, j \in 1 .. Len(ts) : i < j => ts[i] # ts[j]
    BY <2>5, <2>6
  <2>9. \A i \in 1 .. Len(ts) :
          \A s \in Things : Under(s, ts[i]) \/ (ts[i] = "lux-timer" /\ s = "lux-irq")
                               => \E j \in 1 .. Len(ts) : i < j /\ ts[j] = s
    BY <1>3, <2>4, <2>5, <2>6 DEF Platform
  <2>10. \A t \in Things : Keeper(t) = d /\ Driver(t) = m =>
           t \in {"workqueue", "misc", "clocksource", "clockevent", "TIMER"}
    BY <1>6 DEF Things, Keeper, Driver
  <2>11. \A t \in {"workqueue", "misc", "clocksource", "clockevent", "TIMER"} :
           \E i \in 1 .. Len(ts) : ts[i] = t
    BY <2>5
  <2>12. \A t \in Things : Keeper(t) = d /\ Driver(t) = m => \E i \in 1 .. Len(ts) : ts[i] = t
    BY <2>10, <2>11
  <2>13. ts \in Seq(Things) /\ p \in Seq(Instrs) /\ p = RemoveOf(d, m) /\ Len(p) = Len(ts)
    BY <2>1, <2>3, <2>5
  <2>14. QED
    BY <1>2, <2>7, <2>8, <2>9, <2>12, <2>13
<1>7. CASE d = "lux-chardev" /\ m = "lux-chardev"
  <2>1. RemoveOf(d, m) = <<Unmake("node"), Unmake("region"), Unmake("cdev")>>
    BY <1>7, RemovesAre
  <2>2. PICK ts : ts = <<"node", "region", "cdev">>
    OBVIOUS
  <2>3. PICK p : p = <<Unmake("node"), Unmake("region"), Unmake("cdev")>>
    OBVIOUS
  <2>4. {"node", "region", "cdev"} \subseteq Things
    BY DEF Things
  <2>5. /\ ts \in Seq(Things) /\ p \in Seq(Instrs) /\ Len(ts) = 3 /\ Len(p) = 3
        /\ ts[1] = "node" /\ p[1] = Unmake("node")
        /\ ts[2] = "region" /\ p[2] = Unmake("region")
        /\ ts[3] = "cdev" /\ p[3] = Unmake("cdev")
    BY <2>2, <2>3, <2>4, InstructionsAre
  <2>6. \A i \in 1 .. 3 : i = 1 \/ i = 2 \/ i = 3
    OBVIOUS
  <2>7. \A i \in 1 .. Len(ts) : /\ Keeper(ts[i]) = d /\ Driver(ts[i]) = m
                                /\ p[i] = Unmake(ts[i])
    BY <1>7, <2>5, <2>6 DEF Keeper, Driver
  <2>8. \A i, j \in 1 .. Len(ts) : i < j => ts[i] # ts[j]
    BY <2>5, <2>6
  <2>9. \A i \in 1 .. Len(ts) :
          \A s \in Things : Under(s, ts[i]) \/ (ts[i] = "lux-timer" /\ s = "lux-irq")
                               => \E j \in 1 .. Len(ts) : i < j /\ ts[j] = s
    BY <1>3, <2>4, <2>5, <2>6 DEF Platform
  <2>10. \A t \in Things : Keeper(t) = d /\ Driver(t) = m => t \in {"node", "region", "cdev"}
    BY <1>7 DEF Things, Keeper, Driver
  <2>11. \A t \in {"node", "region", "cdev"} : \E i \in 1 .. Len(ts) : ts[i] = t
    BY <2>5
  <2>12. \A t \in Things : Keeper(t) = d /\ Driver(t) = m => \E i \in 1 .. Len(ts) : ts[i] = t
    BY <2>10, <2>11
  <2>13. ts \in Seq(Things) /\ p \in Seq(Instrs) /\ p = RemoveOf(d, m) /\ Len(p) = Len(ts)
    BY <2>1, <2>3, <2>5
  <2>14. QED
    BY <1>2, <2>7, <2>8, <2>9, <2>12, <2>13
<1>8. CASE d = "lux-gpio-chip" /\ m = "lux-gpio-chip"
  <2>1. RemoveOf(d, m) = <<Unmake("lux-leds"), Unmake("lookup"), Unmake("chip")>>
    BY <1>8, RemovesAre
  <2>2. PICK ts : ts = <<"lux-leds", "lookup", "chip">>
    OBVIOUS
  <2>3. PICK p : p = <<Unmake("lux-leds"), Unmake("lookup"), Unmake("chip")>>
    OBVIOUS
  <2>4. {"lux-leds", "lookup", "chip"} \subseteq Things
    BY DEF Things
  <2>5. /\ ts \in Seq(Things) /\ p \in Seq(Instrs) /\ Len(ts) = 3 /\ Len(p) = 3
        /\ ts[1] = "lux-leds" /\ p[1] = Unmake("lux-leds")
        /\ ts[2] = "lookup" /\ p[2] = Unmake("lookup")
        /\ ts[3] = "chip" /\ p[3] = Unmake("chip")
    BY <2>2, <2>3, <2>4, InstructionsAre
  <2>6. \A i \in 1 .. 3 : i = 1 \/ i = 2 \/ i = 3
    OBVIOUS
  <2>7. \A i \in 1 .. Len(ts) : /\ Keeper(ts[i]) = d /\ Driver(ts[i]) = m
                                /\ p[i] = Unmake(ts[i])
    BY <1>8, <2>5, <2>6 DEF Keeper, Driver
  <2>8. \A i, j \in 1 .. Len(ts) : i < j => ts[i] # ts[j]
    BY <2>5, <2>6
  <2>9. \A i \in 1 .. Len(ts) :
          \A s \in Things : Under(s, ts[i]) \/ (ts[i] = "lux-timer" /\ s = "lux-irq")
                               => \E j \in 1 .. Len(ts) : i < j /\ ts[j] = s
    <3>1. \A s \in Things : \A a \in {"lux-leds"} : Under(s, a) => s \in {"lookup", "chip"}
      BY DEF Under, Things, Platform, Keeper
    <3>2. \A s : \A a \in {"lookup", "chip"} : ~Under(s, a)
      BY DEF Under, Platform
    <3>3. QED
      BY <2>5, <2>6, <3>1, <3>2
  <2>10. \A t \in Things : Keeper(t) = d /\ Driver(t) = m => t \in {"lux-leds", "lookup", "chip"}
    BY <1>8 DEF Things, Keeper, Driver
  <2>11. \A t \in {"lux-leds", "lookup", "chip"} : \E i \in 1 .. Len(ts) : ts[i] = t
    BY <2>5
  <2>12. \A t \in Things : Keeper(t) = d /\ Driver(t) = m => \E i \in 1 .. Len(ts) : ts[i] = t
    BY <2>10, <2>11
  <2>13. ts \in Seq(Things) /\ p \in Seq(Instrs) /\ p = RemoveOf(d, m) /\ Len(p) = Len(ts)
    BY <2>1, <2>3, <2>5
  <2>14. QED
    BY <1>2, <2>7, <2>8, <2>9, <2>12, <2>13
<1>9. CASE d = "lux-leds" /\ m = "lux-led"
  <2>1. RemoveOf(d, m) = <<Unmake("leds"), Unmake("pins")>>
    BY <1>9, RemovesAre
  <2>2. PICK ts : ts = <<"leds", "pins">>
    OBVIOUS
  <2>3. PICK p : p = <<Unmake("leds"), Unmake("pins")>>
    OBVIOUS
  <2>4. {"leds", "pins"} \subseteq Things
    BY DEF Things
  <2>5. /\ ts \in Seq(Things) /\ p \in Seq(Instrs) /\ Len(ts) = 2 /\ Len(p) = 2
        /\ ts[1] = "leds" /\ p[1] = Unmake("leds")
        /\ ts[2] = "pins" /\ p[2] = Unmake("pins")
    BY <2>2, <2>3, <2>4, InstructionsAre
  <2>6. \A i \in 1 .. 2 : i = 1 \/ i = 2
    OBVIOUS
  <2>7. \A i \in 1 .. Len(ts) : /\ Keeper(ts[i]) = d /\ Driver(ts[i]) = m
                                /\ p[i] = Unmake(ts[i])
    BY <1>9, <2>5, <2>6 DEF Keeper, Driver
  <2>8. \A i, j \in 1 .. Len(ts) : i < j => ts[i] # ts[j]
    BY <2>5, <2>6
  <2>9. \A i \in 1 .. Len(ts) :
          \A s \in Things : Under(s, ts[i]) \/ (ts[i] = "lux-timer" /\ s = "lux-irq")
                               => \E j \in 1 .. Len(ts) : i < j /\ ts[j] = s
    BY <1>3, <2>4, <2>5, <2>6 DEF Platform
  <2>10. \A t \in Things : Keeper(t) = d /\ Driver(t) = m => t \in {"leds", "pins"}
    BY <1>9 DEF Things, Keeper, Driver
  <2>11. \A t \in {"leds", "pins"} : \E i \in 1 .. Len(ts) : ts[i] = t
    BY <2>5
  <2>12. \A t \in Things : Keeper(t) = d /\ Driver(t) = m => \E i \in 1 .. Len(ts) : ts[i] = t
    BY <2>10, <2>11
  <2>13. ts \in Seq(Things) /\ p \in Seq(Instrs) /\ p = RemoveOf(d, m) /\ Len(p) = Len(ts)
    BY <2>1, <2>3, <2>5
  <2>14. QED
    BY <1>2, <2>7, <2>8, <2>9, <2>12, <2>13
<1>10. CASE d = "lux-leds" /\ m = "lux-led-mc"
  <2>1. RemoveOf(d, m) = <<Unmake("mcleds"), Unmake("remapped")>>
    BY <1>10, RemovesAre
  <2>2. PICK ts : ts = <<"mcleds", "remapped">>
    OBVIOUS
  <2>3. PICK p : p = <<Unmake("mcleds"), Unmake("remapped")>>
    OBVIOUS
  <2>4. {"mcleds", "remapped"} \subseteq Things
    BY DEF Things
  <2>5. /\ ts \in Seq(Things) /\ p \in Seq(Instrs) /\ Len(ts) = 2 /\ Len(p) = 2
        /\ ts[1] = "mcleds" /\ p[1] = Unmake("mcleds")
        /\ ts[2] = "remapped" /\ p[2] = Unmake("remapped")
    BY <2>2, <2>3, <2>4, InstructionsAre
  <2>6. \A i \in 1 .. 2 : i = 1 \/ i = 2
    OBVIOUS
  <2>7. \A i \in 1 .. Len(ts) : /\ Keeper(ts[i]) = d /\ Driver(ts[i]) = m
                                /\ p[i] = Unmake(ts[i])
    BY <1>10, <2>5, <2>6 DEF Keeper, Driver
  <2>8. \A i, j \in 1 .. Len(ts) : i < j => ts[i] # ts[j]
    BY <2>5, <2>6
  <2>9. \A i \in 1 .. Len(ts) :
          \A s \in Things : Under(s, ts[i]) \/ (ts[i] = "lux-timer" /\ s = "lux-irq")
                               => \E j \in 1 .. Len(ts) : i < j /\ ts[j] = s
    BY <1>3, <2>4, <2>5, <2>6 DEF Platform
  <2>10. \A t \in Things : Keeper(t) = d /\ Driver(t) = m => t \in {"mcleds", "remapped"}
    BY <1>10 DEF Things, Keeper, Driver
  <2>11. \A t \in {"mcleds", "remapped"} : \E i \in 1 .. Len(ts) : ts[i] = t
    BY <2>5
  <2>12. \A t \in Things : Keeper(t) = d /\ Driver(t) = m => \E i \in 1 .. Len(ts) : ts[i] = t
    BY <2>10, <2>11
  <2>13. ts \in Seq(Things) /\ p \in Seq(Instrs) /\ p = RemoveOf(d, m) /\ Len(p) = Len(ts)
    BY <2>1, <2>3, <2>5
  <2>14. QED
    BY <1>2, <2>7, <2>8, <2>9, <2>12, <2>13
<1>11. QED
  BY <1>4, <1>5, <1>6, <1>7, <1>8, <1>9, <1>10, PairsAre DEF Pairs

\* The interrupt controller's probe and remove, which also mask, unmask and forget.
LEMMA IrqPieces ==
  /\ Piece(ProbeOf("lux-irq", "lux-irq") \o <<Bound("lux-irq", "lux-irq")>>, "lux-irq")
  /\ \A x : In(x, ProbeOf("lux-irq", "lux-irq") \o <<Bound("lux-irq", "lux-irq")>>) <=>
              \/ x \in {Bound("lux-irq", "lux-irq"), Mask(Lines), Mask({})}
              \/ \E t \in Things : Keeper(t) = "lux-irq" /\ x = Make(t)
  /\ Piece(RemoveOf("lux-irq", "lux-irq") \o <<Unbound("lux-irq")>>, "lux-irq")
  /\ \A x : In(x, RemoveOf("lux-irq", "lux-irq") \o <<Unbound("lux-irq")>>) <=>
              \/ x \in {Unbound("lux-irq"), Forget, Mask({}), Put("handler")}
              \/ \E t \in Things : Keeper(t) = "lux-irq" /\ x = Unmake(t)
<1> DEFINE d == "lux-irq"
<1>1. d \in Devices /\ d \in Modules
  BY DevicesAre DEF Platform
<1>2. /\ {"vector", "domain", "mappings"} \subseteq Things \ Platform
      /\ \A t \in Things : Keeper(t) = d <=> t \in {"vector", "domain", "mappings"}
      /\ \A t \in {"vector", "domain", "mappings"} : Driver(t) = d
      /\ Rank("vector") = 1 /\ Rank("domain") = 2 /\ Rank("mappings") = 3
  BY DEF Things, Platform, Keeper, Driver, Rank
<1>3. /\ {Mask(Lines), Mask({}), Forget, Put("handler")} \subseteq Instrs
      /\ \A x \in {Mask(Lines), Mask({}), Forget, Put("handler")} : Dev(x) = d /\ ~End(x)
  BY DEF Instrs, Mask, Forget, Put, Dev, End, Keeper
<1>4. Mask(Lines) # Mask({}) /\ \A t \in Things : \A x \in {Mask(Lines), Mask({}), Forget, Put("handler")} :
                                    x # Make(t) /\ x # Unmake(t)
  BY OthersAre DEF Others, Lines, Mask
<1>5. Forget # Mask({}) /\ Forget # Put("handler") /\ Mask({}) # Put("handler")
  BY DEF Forget, Mask, Put
<1>6. /\ Piece(ProbeOf(d, d) \o <<Bound(d, d)>>, d)
      /\ \A x : In(x, ProbeOf(d, d) \o <<Bound(d, d)>>) <=>
                  \/ x \in {Bound(d, d), Mask(Lines), Mask({})}
                  \/ \E t \in Things : Keeper(t) = d /\ x = Make(t)
  <2>1. PICK p : p = <<Mask(Lines), Make("vector"), Make("domain"), Make("mappings"), Mask({})>>
    OBVIOUS
  <2>2. ProbeOf(d, d) = p
    BY <2>1, ProbesAre
  <2>3. /\ p \in Seq(Instrs) /\ Len(p) = 5 /\ p[1] = Mask(Lines) /\ p[2] = Make("vector")
        /\ p[3] = Make("domain") /\ p[4] = Make("mappings") /\ p[5] = Mask({})
    BY <1>2, <1>3, <2>1, InstructionsAre
  <2>4. \A i \in 1 .. 5 : i = 1 \/ i = 2 \/ i = 3 \/ i = 4 \/ i = 5
    OBVIOUS
  <2>5. /\ Bound(d, d) \in Instrs /\ Dev(Bound(d, d)) = d /\ End(Bound(d, d))
        /\ \A y : ~MustFollow(Bound(d, d), y)
    BY <1>1, InstructionsAre, FollowingIs
  <2>6. \A i \in 1 .. Len(p) : Dev(p[i]) = d /\ ~End(p[i])
    BY <1>2, <1>3, <2>3, <2>4, InstructionsAre
  <2>7. \A i, j \in 1 .. Len(p) : i < j => p[i] # p[j]
    <3>1. Make("vector") # Make("domain") /\ Make("vector") # Make("mappings")
          /\ Make("domain") # Make("mappings")
      BY <1>2, MakeOnce
    <3>2. QED
      BY <1>2, <1>4, <2>3, <2>4, <3>1
  <2>8. ASSUME NEW i \in 1 .. Len(p), NEW y, MustFollow(p[i], y)
        PROVE  y = Bound(d, d) \/ \E j \in 1 .. Len(p) : i < j /\ p[j] = y
    <3>1. CASE i = 1
      BY <2>3, <2>8, <3>1, FollowingIs
    <3>2. CASE i = 5
      BY <2>3, <2>8, <3>2, FollowingIs
    <3>3. ASSUME NEW t \in {"vector", "domain", "mappings"}, i = Rank(t) + 1
          PROVE  y = Bound(d, d) \/ \E j \in 1 .. Len(p) : i < j /\ p[j] = y
      <4>1. p[i] = Make(t) /\ t \in Things
        BY <1>2, <2>3, <3>3
      <4>2. \/ y = Bound(Keeper(t), Driver(t))
            \/ \E s \in Things : y = Make(s) /\ Later(s, t)
            \/ y = Mask({})
        BY <2>8, <4>1, FollowingIs
      <4>3. \A s \in Things : Later(s, t) => s \in {"vector", "domain", "mappings"} /\ Rank(t) < Rank(s)
        BY <1>2 DEF Later
      <4>4. \A s \in {"vector", "domain", "mappings"} :
              Rank(s) + 1 \in 1 .. Len(p) /\ p[Rank(s) + 1] = Make(s) /\ Rank(s) \in Nat
        BY <1>2, <2>3
      <4>5. i < 5
        BY <1>2, <3>3
      <4>6. CASE \E s \in Things : y = Make(s) /\ Later(s, t)
        BY <3>3, <4>3, <4>4, <4>6
      <4>7. QED
        BY <1>2, <2>3, <4>2, <4>5, <4>6
    <3>4. QED
      BY <1>2, <2>3, <2>4, <3>1, <3>2, <3>3
  <2>9. /\ Piece(p \o <<Bound(d, d)>>, d)
        /\ \A x : In(x, p \o <<Bound(d, d)>>) <=> x = Bound(d, d) \/ In(x, p)
    <3>1. p \in Seq(Instrs)
      BY <2>3
    <3>2. \A i \in 1 .. Len(p) :
            /\ Dev(p[i]) = d /\ ~End(p[i])
            /\ \A y : MustFollow(p[i], y) =>
                      y = Bound(d, d) \/ \E j \in 1 .. Len(p) : i < j /\ p[j] = y
            /\ \A j \in 1 .. Len(p) : i < j => p[i] # p[j]
      BY <2>6, <2>7, <2>8
    <3>3. QED
      BY <1>1, <2>5, <3>1, <3>2, PieceIs
  <2>10. \A x : In(x, p) <=> x \in {Mask(Lines), Make("vector"), Make("domain"), Make("mappings"), Mask({})}
    <3>1. DOMAIN p = 1 .. 5
      BY <2>3
    <3>2. QED
      BY <2>3, <3>1, FiveAre
  <2>11. QED
    BY <1>2, <2>2, <2>9, <2>10
<1>7. /\ Piece(RemoveOf(d, d) \o <<Unbound(d)>>, d)
      /\ \A x : In(x, RemoveOf(d, d) \o <<Unbound(d)>>) <=>
                  \/ x \in {Unbound(d), Forget, Mask({}), Put("handler")}
                  \/ \E t \in Things : Keeper(t) = d /\ x = Unmake(t)
  <2>1. PICK p : p = <<Forget, Mask({}), Put("handler"), Unmake("mappings"), Unmake("domain"),
                       Unmake("vector")>>
    OBVIOUS
  <2>2. RemoveOf(d, d) = p
    BY <2>1, RemovesAre
  <2>3. /\ p \in Seq(Instrs) /\ Len(p) = 6 /\ p[1] = Forget /\ p[2] = Mask({})
        /\ p[3] = Put("handler") /\ p[4] = Unmake("mappings") /\ p[5] = Unmake("domain")
        /\ p[6] = Unmake("vector")
    BY <1>2, <1>3, <2>1, InstructionsAre
  <2>4. \A i \in 1 .. 6 : i = 1 \/ i = 2 \/ i = 3 \/ i = 4 \/ i = 5 \/ i = 6
    OBVIOUS
  <2>5. /\ Unbound(d) \in Instrs /\ Dev(Unbound(d)) = d /\ End(Unbound(d))
        /\ \A y : ~MustFollow(Unbound(d), y)
    BY <1>1, InstructionsAre, FollowingIs
  <2>6. \A i \in 1 .. Len(p) : Dev(p[i]) = d /\ ~End(p[i])
    BY <1>2, <1>3, <2>3, <2>4, InstructionsAre
  <2>7. \A i, j \in 1 .. Len(p) : i < j => p[i] # p[j]
    <3>1. Unmake("vector") # Unmake("domain") /\ Unmake("vector") # Unmake("mappings")
          /\ Unmake("domain") # Unmake("mappings")
      BY <1>2, MakeOnce
    <3>2. \A x \in {Forget, Mask({}), Put("handler")} :
            x # Unmake("vector") /\ x # Unmake("domain") /\ x # Unmake("mappings")
      BY <1>2, <1>4
    <3>3. QED
      BY <1>5, <2>3, <2>4, <3>1, <3>2
  <2>8. ASSUME NEW i \in 1 .. Len(p), NEW y, MustFollow(p[i], y)
        PROVE  y = Unbound(d) \/ \E j \in 1 .. Len(p) : i < j /\ p[j] = y
    <3>1. CASE i = 1
      <4>1. Put("domain") = Unmake("domain") /\ Put("mappings") = Unmake("mappings")
        BY <1>2 DEF Unmake
      <4>2. y \in {Put("domain"), Put("mappings"), Unbound(d)}
        BY <2>3, <2>8, <3>1, FollowingIs
      <4>3. QED
        BY <2>3, <3>1, <4>1, <4>2
    <3>2. ~(i = 2 \/ i = 3)
      <4>1. ~MustFollow(Mask({}), y) /\ ~MustFollow(Put("handler"), y)
        BY FollowingIs
      <4>2. p[2] = Mask({}) /\ p[3] = Put("handler")
        BY <2>3
      <4>3. QED
        BY <2>8, <4>1, <4>2
    <3>3. ASSUME NEW t \in {"vector", "domain", "mappings"}, p[i] = Unmake(t)
          PROVE  y = Unbound(d)
      <4>1. \A s : ~Under(s, t)
        BY <1>2 DEF Under
      <4>2. t # "lux-timer" /\ t \in Things /\ Keeper(t) = d
        BY <1>2
      <4>3. QED
        BY <2>8, <3>3, <4>1, <4>2, FollowingIs
    <3>4. QED
      BY <2>3, <2>4, <3>1, <3>2, <3>3
  <2>9. /\ Piece(p \o <<Unbound(d)>>, d)
        /\ \A x : In(x, p \o <<Unbound(d)>>) <=> x = Unbound(d) \/ In(x, p)
    <3>1. p \in Seq(Instrs)
      BY <2>3
    <3>2. \A i \in 1 .. Len(p) :
            /\ Dev(p[i]) = d /\ ~End(p[i])
            /\ \A y : MustFollow(p[i], y) =>
                      y = Unbound(d) \/ \E j \in 1 .. Len(p) : i < j /\ p[j] = y
            /\ \A j \in 1 .. Len(p) : i < j => p[i] # p[j]
      BY <2>6, <2>7, <2>8
    <3>3. QED
      BY <1>1, <2>5, <3>1, <3>2, PieceIs
  <2>10. \A x : In(x, p) <=> x \in {Forget, Mask({}), Put("handler"), Unmake("mappings"),
                                    Unmake("domain"), Unmake("vector")}
    <3>1. DOMAIN p = 1 .. 6
      BY <2>3
    <3>2. QED
      BY <2>3, <3>1, SixAre
  <2>11. QED
    BY <1>2, <2>2, <2>9, <2>10
<1>8. QED
  BY <1>6, <1>7
-----------------------------------------------------------------------------
(***************************************************************************)
(* Probes, removes and error paths put before what there is to do.         *)
(***************************************************************************)
Strip(d, m) == RemoveOf(d, m) \o <<Unbound(d)>>

\* A probe is one piece for its device, and makes exactly what is the driver's there.
LEMMA BindIs ==
  ASSUME NEW m \in Modules, NEW d \in DevicesOf(m)
  PROVE  /\ d \in Devices /\ Piece(Bind(d, m), d) /\ In(Bound(d, m), Bind(d, m))
         /\ \A t \in Things : ~In(Unmake(t), Bind(d, m))
         /\ \A t \in Things : In(Make(t), Bind(d, m)) <=> Keeper(t) = d /\ Driver(t) = m
         /\ \A e : ~In(Unbound(e), Bind(d, m))
         /\ \A e, l : In(Bound(e, l), Bind(d, m)) => e = d /\ l = m
         /\ \A x \in Others : In(x, Bind(d, m)) <=> d = "lux-irq" /\ x \in {Mask(Lines), Mask({})}
<1>1. d \in Devices
  BY DEF Devices
<1>2. d = "lux-irq" => m = "lux-irq"
  BY PairsAre DEF Pairs
<1>3. /\ Piece(Bind(d, m), d)
      /\ \A x : In(x, Bind(d, m)) <=>
                  \/ x = Bound(d, m) \/ \E t \in Things : Keeper(t) = d /\ Driver(t) = m /\ x = Make(t)
                  \/ d = "lux-irq" /\ x \in {Mask(Lines), Mask({})}
  <2>1. CASE d = "lux-irq"
    <3>1. \A t \in Things : Keeper(t) = "lux-irq" => Driver(t) = "lux-irq"
      BY DEF Things, Keeper, Driver
    <3>2. Bind(d, m) = ProbeOf("lux-irq", "lux-irq") \o <<Bound("lux-irq", "lux-irq")>>
      BY <1>2, <2>1 DEF Bind
    <3>3. QED
      BY <1>2, <2>1, <3>1, <3>2, IrqPieces
  <2>2. CASE d # "lux-irq"
    BY <2>2, ProbePiece DEF Bind
  <2>3. QED
    BY <2>1, <2>2
<1>4. {Mask(Lines), Mask({})} \subseteq Others
  BY DEF Others
<1>5. \A t \in Things : Make(t) # Bound(d, m) /\ Unmake(t) # Bound(d, m)
  BY DEF Make, Unmake, Add, Del, Get, Put, Bound
<1>6. \A t \in Things : \A e, l : Make(t) # Bound(e, l) /\ Make(t) # Unbound(e)
  BY DEF Make, Add, Get, Bound, Unbound
<1>7. \A t \in Things : ~In(Unmake(t), Bind(d, m))
  BY <1>3, <1>4, <1>5, MakeOnce, OthersAre
<1>8. \A t \in Things : In(Make(t), Bind(d, m)) <=> Keeper(t) = d /\ Driver(t) = m
  BY <1>3, <1>4, <1>5, MakeOnce, OthersAre
<1>9. \A e : ~In(Unbound(e), Bind(d, m))
  BY <1>3, <1>4, <1>6, MakeOnce, OthersAre
<1>10. \A e, l : In(Bound(e, l), Bind(d, m)) => e = d /\ l = m
  BY <1>3, <1>4, <1>6, MakeOnce, OthersAre
<1>11. \A x \in Others : In(x, Bind(d, m)) <=> d = "lux-irq" /\ x \in {Mask(Lines), Mask({})}
  BY <1>3, OthersAre
<1>12. QED
  BY <1>1, <1>3, <1>7, <1>8, <1>9, <1>10, <1>11

\* A removal is one piece for its device, and unmakes exactly that.
LEMMA StripIs ==
  ASSUME NEW m \in Modules, NEW d \in DevicesOf(m)
  PROVE  /\ d \in Devices /\ Piece(Strip(d, m), d) /\ In(Unbound(d), Strip(d, m))
         /\ \A t \in Things : ~In(Make(t), Strip(d, m))
         /\ \A t \in Things : In(Unmake(t), Strip(d, m)) <=> Keeper(t) = d /\ Driver(t) = m
         /\ \A e : In(Unbound(e), Strip(d, m)) => e = d
         /\ \A e, l : ~In(Bound(e, l), Strip(d, m))
         /\ \A x \in Others : In(x, Strip(d, m)) <=>
              d = "lux-irq" /\ x \in {Forget, Mask({}), Put("handler")}
<1>1. d \in Devices
  BY DEF Devices
<1>2. d = "lux-irq" => m = "lux-irq"
  BY PairsAre DEF Pairs
<1>3. /\ Piece(Strip(d, m), d)
      /\ \A x : In(x, Strip(d, m)) <=>
                  \/ x = Unbound(d) \/ \E t \in Things : Keeper(t) = d /\ Driver(t) = m /\ x = Unmake(t)
                  \/ d = "lux-irq" /\ x \in {Forget, Mask({}), Put("handler")}
  <2>1. CASE d = "lux-irq"
    <3>1. \A t \in Things : Keeper(t) = "lux-irq" => Driver(t) = "lux-irq"
      BY DEF Things, Keeper, Driver
    <3>2. Strip(d, m) = RemoveOf("lux-irq", "lux-irq") \o <<Unbound("lux-irq")>>
      BY <1>2, <2>1 DEF Strip
    <3>3. QED
      BY <1>2, <2>1, <3>1, <3>2, IrqPieces
  <2>2. CASE d # "lux-irq"
    BY <2>2, RemovePiece DEF Strip
  <2>3. QED
    BY <2>1, <2>2
<1>4. {Forget, Mask({}), Put("handler")} \subseteq Others
  BY DEF Others
<1>5. \A t \in Things : \A e, l : /\ Unmake(t) # Bound(e, l) /\ Unmake(t) # Unbound(e)
                                  /\ Make(t) # Unbound(e)
  BY DEF Make, Unmake, Add, Get, Del, Put, Bound, Unbound
<1>6. \A t \in Things : ~In(Make(t), Strip(d, m))
  BY <1>3, <1>4, <1>5, MakeOnce, OthersAre
<1>7. \A t \in Things : In(Unmake(t), Strip(d, m)) <=> Keeper(t) = d /\ Driver(t) = m
  BY <1>3, <1>4, <1>5, MakeOnce, OthersAre
<1>8. \A e : In(Unbound(e), Strip(d, m)) => e = d
  BY <1>3, <1>4, <1>5, MakeOnce, OthersAre
<1>9. \A e, l : ~In(Bound(e, l), Strip(d, m))
  BY <1>3, <1>4, <1>5, MakeOnce, OthersAre
<1>10. \A x \in Others : In(x, Strip(d, m)) <=> d = "lux-irq" /\ x \in {Forget, Mask({}), Put("handler")}
  BY <1>3, OthersAre
<1>11. QED
  BY <1>1, <1>3, <1>6, <1>7, <1>8, <1>9, <1>10

\* A piece for d put in the place of all that there was for d.
LEMMA PieceSound ==
  ASSUME NEW q, NEW H, NEW b, Sound(q, H, b), NEW r \in Seq(Instrs), Tidy(r),
         NEW d, NEW f, Piece(f, d), Clear(d, r),
         \A x : In(x, r) => In(x, q), \A x : In(x, q) /\ Dev(x) # d => In(x, r),
         d \in Platform => d \in H, Local(d, f \o r, H, b)
  PROVE  Sound(f \o r, H, b)
<1>1. f \in Seq(Instrs) /\ Tidy(f) /\ d \in Devices /\ \A i \in DOMAIN f : Dev(f[i]) = d
  BY DEF Piece
<1>2. f \o r \in Seq(Instrs) /\ (\A x : In(x, f \o r) <=> In(x, f) \/ In(x, r))
      /\ \A e : AtRest(e, f \o r) <=> AtRest(e, f) /\ AtRest(e, r)
  BY <1>1, InConcat
<1>3. Tidy(f \o r)
  BY <1>1, PutBefore
<1>4. \A x : In(x, f) => Dev(x) = d
  BY <1>1 DEF In
<1>5. \A x : Dev(x) # d => (In(x, f \o r) <=> In(x, q))
  BY <1>2, <1>4
<1>6. \A e : e # d => (AtRest(e, f \o r) <=> AtRest(e, q))
  <2>1. \A e : AtRest(e, q) <=> \A x : In(x, q) => Dev(x) # e
    BY DEF AtRest, In
  <2>2. \A e : AtRest(e, r) <=> \A x : In(x, r) => Dev(x) # e
    BY DEF AtRest, In
  <2>3. \A e : e # d => AtRest(e, f)
    BY <1>1 DEF AtRest
  <2>4. QED
    BY <1>2, <2>1, <2>2, <2>3
<1>7. ASSUME NEW e \in Devices, e # d PROVE Local(e, f \o r, H, b)
  <2>1. Local(e, q, H, b)
    BY DEF Sound
  <2>2. \A m \in Modules : In(Bound(e, m), f \o r) <=> In(Bound(e, m), q)
    BY <1>5, <1>7, InstructionsAre
  <2>3. In(Unbound(e), f \o r) <=> In(Unbound(e), q)
    BY <1>5, <1>7, InstructionsAre
  <2>4. \A t \in Things : Keeper(t) = e =>
          /\ In(Make(t), f \o r) <=> In(Make(t), q)
          /\ In(Unmake(t), f \o r) <=> In(Unmake(t), q)
    BY <1>5, <1>7, InstructionsAre
  <2>5. Probed(e, f \o r, H, b)
    BY <2>1, <2>2, <2>4 DEF Local, Probed
  <2>6. Removed(e, f \o r, H)
    BY <2>1, <2>3, <2>4 DEF Local, Removed
  <2>7. Rested(e, f \o r, H, b)
    BY <1>6, <1>7, <2>1 DEF Local, Rested
  <2>8. QED
    BY <2>5, <2>6, <2>7 DEF Local
<1>8. \A c \in Platform : c \notin H => AtRest(c, f \o r) /\ b[c] = NoDriver
  BY <1>6 DEF Sound
<1>9. QED
  BY <1>2, <1>3, <1>7, <1>8 DEF Sound

\* Before a device is probed, or loses its driver, there is nothing to do for it.
LEMMA PushBind ==
  ASSUME NEW q, NEW H, NEW b, Sound(q, H, b), NEW m \in Modules, NEW d \in DevicesOf(m),
         b[d] = NoDriver, Clear(d, q), d \in Platform => d \in H
  PROVE  Sound(Bind(d, m) \o q, H, b)
<1> DEFINE f == Bind(d, m)
<1>1. /\ d \in Devices /\ Piece(f, d) /\ In(Bound(d, m), f)
      /\ \A t \in Things : In(Make(t), f) <=> Keeper(t) = d /\ Driver(t) = m
      /\ \A e : ~In(Unbound(e), f)
      /\ \A e, l : In(Bound(e, l), f) => e = d /\ l = m
  BY BindIs
<1>2. q \in Seq(Instrs) /\ Tidy(q) /\ AtRest(d, q) /\ Rested(d, q, H, b)
  BY <1>1 DEF Sound, Local, Clear, AtRest
<1> HIDE DEF f
<1>3. /\ \A x : In(x, f \o q) <=> In(x, f) \/ In(x, q)
      /\ \A x : In(x, q) => Dev(x) # d
  BY <1>1, <1>2, InConcat, NotAtRest DEF Piece
<1>4. \A t \in Things : Driver(t) # NoDriver
  BY KeepersAre, DevicesAre DEF NoDriver
<1>5. \A t \in Things : Keeper(t) = d => t \notin H
  BY <1>2, <1>4 DEF Rested
<1>6. \A t \in Things : Keeper(t) = d => (In(Make(t), f \o q) <=> Driver(t) = m)
  BY <1>1, <1>3, InstructionsAre
<1>7. \A l \in Modules : In(Bound(d, l), f \o q) => l = m
  BY <1>1, <1>3, InstructionsAre
<1>8. Probed(d, f \o q, H, b)
  BY <1>5, <1>6, <1>7 DEF Probed
<1>9. Removed(d, f \o q, H)
  BY <1>1, <1>3, InstructionsAre DEF Removed
<1>10. Rested(d, f \o q, H, b)
  BY <1>1, <1>3, InstructionsAre, NotAtRest DEF Rested
<1>11. Local(d, f \o q, H, b)
  BY <1>8, <1>9, <1>10 DEF Local
<1>12. Sound(f \o q, H, b)
  BY <1>1, <1>2, <1>11, PieceSound
<1>13. QED
  BY <1>12 DEF f

\* Putting a bound device's removal in front of a queue that does not touch it.
LEMMA PushStrip ==
  ASSUME NEW q, NEW H, NEW b, Sound(q, H, b), NEW d \in Devices, b[d] # NoDriver, Clear(d, q)
  PROVE  b[d] \in Modules /\ d \in DevicesOf(b[d]) /\ Sound(Strip(d, b[d]) \o q, H, b)
<1>1. b[d] \in Modules /\ d \in DevicesOf(b[d]) /\ (d \in Platform => d \in H)
  BY DEF Sound
<1> DEFINE m == b[d]
           f == Strip(d, m)
<1>2. /\ Piece(f, d) /\ In(Unbound(d), f)
      /\ \A t \in Things : In(Unmake(t), f) <=> Keeper(t) = d /\ Driver(t) = m
      /\ \A e, l : ~In(Bound(e, l), f)
  BY <1>1, StripIs
<1>3. q \in Seq(Instrs) /\ Tidy(q) /\ AtRest(d, q) /\ Rested(d, q, H, b)
  BY DEF Sound, Local, Clear, AtRest
<1> HIDE DEF f
<1>4. /\ \A x : In(x, f \o q) <=> In(x, f) \/ In(x, q)
      /\ \A x : In(x, q) => Dev(x) # d
  BY <1>2, <1>3, InConcat, NotAtRest DEF Piece
<1>5. \A t \in Things : Keeper(t) = d => (t \in H <=> Driver(t) = m)
  BY <1>3 DEF Rested
<1>6. \A t \in Things : Keeper(t) = d => (In(Unmake(t), f \o q) <=> Driver(t) = m)
  BY <1>2, <1>4, InstructionsAre
<1>7. Probed(d, f \o q, H, b)
  BY <1>2, <1>4, InstructionsAre DEF Probed
<1>8. Removed(d, f \o q, H)
  BY <1>5, <1>6 DEF Removed
<1>9. Rested(d, f \o q, H, b)
  BY <1>2, <1>4, InstructionsAre, NotAtRest DEF Rested
<1>10. Local(d, f \o q, H, b)
  BY <1>7, <1>8, <1>9 DEF Local
<1>11. Sound(f \o q, H, b)
  BY <1>1, <1>2, <1>3, <1>10, PieceSound
<1>12. QED
  BY <1>1, <1>11 DEF f

\* The first n instructions are a probe of d from where it is to its end.
Probing(q, n, d, m) ==
  /\ n \in DOMAIN q /\ q[n] = Bound(d, m)
  /\ \A k \in 1 .. n : Dev(q[k]) = d
  /\ \A k \in 1 .. n : q[k][1] = "bound" => k = n

\* A Make at the head is part of the probe of its device, which is at the head too.
LEMMA MakeProbes ==
  ASSUME NEW q \in Seq(Instrs), Tidy(q), q # <<>>, NEW t \in Things, Head(q) = Make(t)
  PROVE  \E n \in Nat : Probing(q, n, Keeper(t), Driver(t))
<1> DEFINE d == Keeper(t)
           e == Bound(d, Driver(t))
<1>1. 1 \in DOMAIN q /\ q[1] = Make(t) /\ Len(q) \in Nat /\ DOMAIN q = 1 .. Len(q)
  OBVIOUS
<1>2. Dev(Make(t)) = d /\ ~End(Make(t)) /\ Dev(e) = d /\ End(e)
  BY KeepersAre, InstructionsAre
<1>3. PICK n \in DOMAIN q : q[n] = e
  BY <1>1 DEF Tidy, Following, MustFollow
<1>4. PICK j \in DOMAIN q : 1 <= j /\ End(q[j]) /\ \A k \in 1 .. j : Dev(q[k]) = d
  BY <1>1, <1>2 DEF Tidy, Whole
<1>5. j = n
  <2>1. ~(j < n)
    BY <1>1, <1>2, <1>3, <1>4 DEF Tidy, Apart, MayFollow
  <2>2. ~(n < j)
    BY <1>1, <1>2, <1>3, <1>4 DEF Tidy, Apart, MayFollow
  <2>3. QED
    BY <1>1, <2>1, <2>2
<1>6. \A k \in 1 .. n : q[k][1] = "bound" => k = n
  <2> SUFFICES ASSUME NEW k \in 1 .. n, q[k][1] = "bound", k # n PROVE FALSE
    OBVIOUS
  <2>1. End(q[k]) /\ k \in DOMAIN q /\ k < n
    BY <1>1 DEF End
  <2>2. Dev(q[n]) # Dev(q[k])
    BY <2>1 DEF Tidy, Apart, MayFollow
  <2>3. QED
    BY <1>1, <1>4, <1>5, <2>2
<1>7. QED
  BY <1>1, <1>3, <1>4, <1>5, <1>6 DEF Probing

\* No two things that one driver makes for a device have the same rank.
LEMMA RankOnce ==
  \A s, t \in Things : Keeper(s) = Keeper(t) /\ Driver(s) = Driver(t) /\ Rank(s) = Rank(t) => s = t
<1>1. ASSUME NEW t \in Things, NEW s \in Things, Keeper(s) = Keeper(t), Driver(s) = Driver(t), s # t
      PROVE  Rank(s) # Rank(t)
  <2>1. \/ /\ s \in {"f0-bars", "lux-gpio-chip", "lux-chardev"}
           /\ t \in {"f0-bars", "lux-gpio-chip", "lux-chardev"}
        \/ s \in {"f1-bars", "lux-irq", "lux-timer"} /\ t \in {"f1-bars", "lux-irq", "lux-timer"}
        \/ s \in {"vector", "domain", "mappings"} /\ t \in {"vector", "domain", "mappings"}
        \/ /\ s \in {"TIMER", "workqueue", "clocksource", "clockevent", "misc"}
           /\ t \in {"TIMER", "workqueue", "clocksource", "clockevent", "misc"}
        \/ s \in {"region", "cdev", "node"} /\ t \in {"region", "cdev", "node"}
        \/ s \in {"chip", "lookup", "lux-leds"} /\ t \in {"chip", "lookup", "lux-leds"}
        \/ s \in {"pins", "leds"} /\ t \in {"pins", "leds"}
        \/ s \in {"remapped", "mcleds"} /\ t \in {"remapped", "mcleds"}
    BY <1>1 DEF Things, Keeper, Driver
  <2>2. QED
    BY <1>1, <2>1 DEF Rank
<1>2. QED
  BY <1>1

\* An instruction of a probe fails: what has been made for the device is what the error path unmakes.
LEMMA FailSound ==
  ASSUME NEW q, NEW H, NEW b, Sound(q, H, b), q # <<>>, NEW t \in Undoable, Head(q) = Make(t),
         NEW n \in Nat, Probing(q, n, Keeper(t), Driver(t)),
         NEW r \in Seq(Instrs), Rest(r, q, n)
  PROVE  Sound((Undo(Make(t)) \o <<Unbound(Keeper(t))>>) \o r, H, b)
<1> DEFINE d == Keeper(t)
           m == Driver(t)
           f == Undo(Make(t)) \o <<Unbound(d)>>
<1>1. t \in Things /\ d \in Devices /\ m \in Modules /\ Dev(Make(t)) = d
  BY KeepersAre, InstructionsAre DEF Undoable
<1>2. /\ Piece(f, d)
      /\ \A x : In(x, f) <=> x = Unbound(d) \/ \E s \in Things : Later(t, s) /\ x = Unmake(s)
  BY UndoPiece
<1>3. q \in Seq(Instrs) /\ Tidy(q) /\ Tidy(r) /\ In(Make(t), q) /\ ~In(Make(t), Tail(q))
  BY SoundTail, RestTidy DEF Sound
<1>4. /\ DOMAIN q = 1 .. Len(q) /\ DOMAIN r = 1 .. Len(r) /\ Len(q) \in Nat /\ Len(r) \in Nat
      /\ 1 \in DOMAIN q /\ q[1] = Make(t) /\ n \in DOMAIN q /\ q[n] = Bound(d, m)
      /\ \A i \in DOMAIN r : i + n \in DOMAIN q /\ n < i + n /\ r[i] = q[i + n]
      /\ \A i \in DOMAIN q : n < i => i - n \in DOMAIN r /\ r[i - n] = q[i]
  <2>1. /\ DOMAIN q = 1 .. Len(q) /\ DOMAIN r = 1 .. Len(r) /\ Len(q) \in Nat /\ Len(r) \in Nat
        /\ q[1] = Make(t) /\ n \in DOMAIN q /\ q[n] = Bound(d, m)
    BY <1>3 DEF Probing
  <2>2. Len(r) = Len(q) - n /\ \A i \in 1 .. Len(r) : r[i] = q[i + n]
    BY DEF Rest
  <2>3. \A i \in DOMAIN r : i + n \in DOMAIN q /\ n < i + n /\ r[i] = q[i + n]
    BY <2>1, <2>2
  <2>4. \A i \in DOMAIN q : n < i => i - n \in DOMAIN r /\ (i - n) + n = i
    BY <2>1, <2>2
  <2>5. \A i \in DOMAIN q : n < i => i - n \in DOMAIN r /\ r[i - n] = q[i]
    BY <2>3, <2>4
  <2>6. 1 \in DOMAIN q
    BY <2>1
  <2>7. QED
    BY <2>1, <2>3, <2>5, <2>6
<1>5. Clear(d, r)
  <2> SUFFICES ASSUME NEW i \in DOMAIN r PROVE Dev(r[i]) # d /\ ~Above(d, Dev(r[i]))
    BY DEF Clear
  <2>1. MayFollow(Bound(d, m), r[i])
    BY <1>3, <1>4 DEF Tidy, Apart
  <2>2. QED
    BY <1>1, <2>1, InstructionsAre DEF MayFollow
<1>6. \A x : In(x, r) => In(x, q)
  BY <1>4 DEF In
<1>7. \A x : In(x, q) /\ Dev(x) # d => In(x, r)
  <2> SUFFICES ASSUME NEW i \in DOMAIN q, Dev(q[i]) # d PROVE In(q[i], r)
    BY DEF In
  <2>1. ~(i \in 1 .. n)
    BY DEF Probing
  <2>2. n < i
    BY <1>4, <2>1
  <2>3. QED
    BY <1>4, <2>2 DEF In
<1>8. d \in Platform => d \in H
  BY <1>1, <1>3, NotAtRest DEF Sound
<1> HIDE DEF f
<1>9. /\ \A x : In(x, f \o r) <=> In(x, f) \/ In(x, r)
      /\ \A x : In(x, r) => Dev(x) # d
  <2>1. \A x : In(x, r) => Dev(x) # d
    BY <1>5 DEF In, Clear
  <2>2. QED
    BY <1>2, <2>1, InConcat DEF Piece
<1>10. \A s \in Things : Keeper(s) = d => (s \in H <=> Later(t, s))
  <2>1. In(Bound(d, m), q)
    BY <1>4 DEF In
  <2>2. \A s \in Things : Keeper(s) = d => (s \in H <=> Driver(s) = m /\ ~In(Make(s), q))
    BY <1>1, <2>1 DEF Sound, Local, Probed
  <2>3. \A s \in Things : Later(s, t) => In(Make(s), q)
    BY <1>1, <1>3, MakeEnds
  <2>4. ASSUME NEW s \in Things, Later(t, s) PROVE ~In(Make(s), q)
    <3> SUFFICES ASSUME In(Make(s), q) PROVE FALSE
      OBVIOUS
    <3>1. PICK i \in DOMAIN q : q[i] = Make(s)
      BY DEF In
    <3>2. MustFollow(Make(s), Make(t))
      BY <1>1, <2>4 DEF MustFollow
    <3>3. PICK j \in DOMAIN q : i < j /\ q[j] = Make(t)
      BY <1>3, <3>1, <3>2 DEF Tidy, Following
    <3>4. 1 < j
      BY <1>4, <3>3
    <3>5. q[1] # q[j]
      BY <1>3, <1>4, <3>4 DEF Tidy, Apart, MayFollow
    <3>6. QED
      BY <1>4, <3>3, <3>5
  <2>5. \A s \in Things : Rank(s) \in Nat
    BY KeepersAre
  <2>6. \A s \in Things : Keeper(s) = d /\ Driver(s) = m => s = t \/ Later(s, t) \/ Later(t, s)
    BY <1>1, <2>5, RankOnce DEF Later
  <2>7. \A s \in Things : Later(t, s) => Driver(s) = m
    BY DEF Later
  <2>8. QED
    BY <1>3, <2>2, <2>3, <2>4, <2>6, <2>7
<1>11. Local(d, f \o r, H, b)
  <2>1. \A l \in Modules : ~In(Bound(d, l), f \o r)
    <3>1. \A l \in Modules : \A s \in Things : Unmake(s) # Bound(d, l)
      BY DEF Unmake, Del, Put, Bound
    <3>2. QED
      BY <1>1, <1>2, <1>9, <3>1, InstructionsAre, MakeOnce
  <2>2. In(Unbound(d), f \o r)
    BY <1>2, <1>9
  <2>3. \A s \in Things : Keeper(s) = d => (In(Unmake(s), f \o r) <=> Later(t, s))
    <3>1. \A s \in Things : Unmake(s) # Unbound(d)
      BY DEF Unmake, Del, Put, Unbound
    <3>2. QED
      BY <1>2, <1>9, <3>1, InstructionsAre, MakeOnce
  <2>4. Probed(d, f \o r, H, b)
    BY <2>1 DEF Probed
  <2>5. Removed(d, f \o r, H)
    BY <1>10, <2>3 DEF Removed
  <2>6. Rested(d, f \o r, H, b)
    BY <1>1, <2>2, NotAtRest, InstructionsAre DEF Rested
  <2>7. QED
    BY <2>4, <2>5, <2>6 DEF Local
<1>12. Sound(f \o r, H, b)
  BY <1>2, <1>3, <1>5, <1>6, <1>7, <1>8, <1>11, PieceSound
<1>13. QED
  BY <1>12 DEF f

\* A module's own instructions, when there is nothing else to do.
LEMMA InitSound ==
  ASSUME NEW q \in Seq(Instrs), Tidy(q), NEW H, NEW b, Sound(<<>>, H, b),
         \A i \in DOMAIN q : Dev(q[i]) = "init"
  PROVE  Sound(q, H, b)
<1>1. \A d \in Devices : d # "init"
  BY DevicesAre DEF Platform
<1>2. \A d \in Devices : AtRest(d, q) /\ \A x : In(x, q) => Dev(x) # d
  BY <1>1 DEF AtRest, In
<1>3. \A d \in Devices : AtRest(d, <<>>)
  BY DEF AtRest
<1>4. ASSUME NEW d \in Devices PROVE Local(d, q, H, b)
  <2>1. Rested(d, <<>>, H, b)
    BY DEF Sound, Local
  <2>2. Rested(d, q, H, b)
    BY <1>3, <2>1 DEF Rested
  <2>3. QED
    BY <1>2, <2>2, InstructionsAre DEF Local, Probed, Removed
<1>5. QED
  BY <1>2, <1>4, DevicesAre DEF Sound
-----------------------------------------------------------------------------
(***************************************************************************)
(* The inductive invariant.  The devices without devices of their own are  *)
(* served at once: what there is to do for one of them comes first.        *)
(***************************************************************************)
Leaves == {"lux-irq", "lux-timer", "lux-chardev", "lux-leds"}

KernelTypes ==
  /\ drivers \subseteq Modules /\ devices \subseteq Devices
  /\ reg \subseteq (Things \ Platform) \cup {"class"}
  /\ chip \in [n : Nat, handler : Nat, null : SUBSET Nat, known : BOOLEAN]
  /\ hw \in [status : SUBSET Lines, mask : SUBSET Lines]
  /\ cpu \in [chip : Nat, pending : SUBSET Lines]

LeavesFirst == \A d \in Leaves : AtRest(d, todo) \/ Dev(Head(todo)) = d

\* A module's init is all there is to do.
InitAlone ==
  /\ \A m \in Modules : In(Register(m), todo) =>
       /\ m \notin drivers
       /\ \/ todo = <<Register(m)>>
          \/ m = "lux-chardev" /\ todo = <<Get("class"), Register(m)>>
  /\ In(Get("class"), todo) => todo = <<Get("class"), Register("lux-chardev")>>

Queued == Sound(todo, reg \cup devices, bound) /\ LeavesFirst /\ InitAlone

\* A driver that is unloaded is losing its devices, and probes none.
DriversInv ==
  /\ \A d \in Devices, m \in Modules : In(Bound(d, m), todo) => m \in drivers
  /\ \A d \in Devices : bound[d] \in drivers \cup {NoDriver} \/ In(Unbound(d), todo)

ClassInv ==
  /\ In(Put("class"), todo) => "lux-chardev" \notin drivers
  /\ "class" \in reg <=>
       \/ "lux-chardev" \in drivers \/ In(Put("class"), todo)
       \/ In(Register("lux-chardev"), todo) /\ ~In(Get("class"), todo)
  /\ In(Unbound("lux-chardev"), todo) => "lux-chardev" \in drivers \/ In(Put("class"), todo)

\* f0's and f1's devices go when lux-core has gone.
GoingInv == In(Unmake("lux-chardev"), todo) \/ In(Unmake("lux-irq"), todo) => "lux-core" \notin drivers

\* The pointer to the domain is set from the domain's making to lux_irq's remove.
KnownInv == chip.known <=> "domain" \in reg /\ (In(Unbound("lux-irq"), todo) => In(Forget, todo))

\* lux-irq goes after the timer, and after lux-cdev or lux-core.
IrqGoingInv ==
  In(Unbound("lux-irq"), todo) =>
    /\ bound["lux-timer"] = NoDriver
    /\ chip.known => ~({"lux-core", "lux-chardev"} \subseteq drivers)

TimerInv == "TIMER" \in reg => chip.known /\ "mappings" \in reg

OpenInv ==
  (\E u \in Users : pc[u] # "closed") =>
    /\ {"lux-core", "lux-chardev"} \subseteq drivers
    /\ chip.known /\ "mappings" \in reg /\ "lux-chardev" \in devices

\* A chip without a domain is the last one made; while it has none all lines are masked.
NullInv ==
  /\ chip.handler <= chip.n /\ cpu.chip <= chip.n
  /\ chip.null # {} =>
       /\ chip.null = {chip.n} /\ In(Make("domain"), todo) /\ ~In(Make("vector"), todo)
       /\ cpu.pending # {} => cpu.chip # chip.n
  /\ In(Make("domain"), todo) /\ ~In(Mask(Lines), todo) => hw.mask = Lines

LuxInv ==
  /\ KernelTypes /\ Queued /\ DriversInv /\ ClassInv /\ GoingInv /\ KnownInv /\ IrqGoingInv
  /\ TimerInv /\ OpenInv /\ NullInv /\ FilesInv

\* What an instruction is, by its name.
LEMMA Named ==
  ASSUME NEW x \in Instrs
  PROVE  /\ x[1] = "get" => x = Get("class") \/ \E t \in Things \ Platform : x = Make(t) /\ x[2] = t
         /\ x[1] = "put" => \/ x = Put("class") \/ x = Put("handler")
                            \/ \E t \in Things \ Platform : x = Unmake(t) /\ x[2] = t
         /\ x[1] = "add" => \E t \in Platform : x = Make(t) /\ x[2] = t
         /\ x[1] = "del" => \E t \in Platform : x = Unmake(t) /\ x[2] = t
         /\ x[1] = "register" => \E m \in Modules : x = Register(m) /\ x[2] = m
         /\ x[1] = "mask" => x = Mask(Lines) \/ x = Mask({})
         /\ x[1] = "forget" => x = Forget
         /\ x[1] = "bound" => \E d \in Devices, m \in Modules : x = Bound(d, m) /\ x[2] = d /\ x[3] = m
         /\ x[1] = "unbound" => \E d \in Devices : x = Unbound(d) /\ x[2] = d
<1>1. \/ \E t \in Things : x = Make(t) \/ x = Unmake(t)
      \/ \E d \in Devices, m \in Modules : x = Bound(d, m)
      \/ \E d \in Devices : x = Unbound(d)
      \/ x \in Others
  BY DEF Instrs, Others
<1>2. ASSUME NEW t \in Things, x = Make(t) \/ x = Unmake(t)
      PROVE  /\ x[1] \in {"get", "put"} => t \notin Platform
             /\ x[1] \in {"add", "del"} => t \in Platform
             /\ x[1] \in {"get", "add"} => x = Make(t)
             /\ x[1] \in {"put", "del"} => x = Unmake(t)
             /\ x[2] = t /\ x[1] \in {"get", "put", "add", "del"}
  BY <1>2 DEF Make, Unmake, Get, Put, Add, Del
<1>3. CASE \E t \in Things : x = Make(t) \/ x = Unmake(t)
  BY <1>2, <1>3
<1>4. CASE \E d \in Devices, m \in Modules : x = Bound(d, m)
  BY <1>4 DEF Bound
<1>5. CASE \E d \in Devices : x = Unbound(d)
  BY <1>5 DEF Unbound
<1>6. CASE x \in Others
  BY <1>6 DEF Others, Mask, Forget, Put, Get, Register
<1>7. QED
  BY <1>1, <1>3, <1>4, <1>5, <1>6

\* What an instruction is for, as the invariant names it.
LEMMA ThingsAre ==
  /\ {"vector", "domain", "mappings", "TIMER", "node", "f0-bars", "f1-bars", "chip", "lookup",
      "pins", "remapped", "misc"} \subseteq Things \ Platform
  /\ Keeper("vector") = "lux-irq" /\ Keeper("domain") = "lux-irq" /\ Keeper("mappings") = "lux-irq"
  /\ Keeper("TIMER") = "lux-timer" /\ Keeper("node") = "lux-chardev"
  /\ Keeper("lux-irq") = "f1" /\ Keeper("lux-timer") = "f1" /\ Keeper("lux-chardev") = "f0"
  /\ Keeper("lux-leds") = "lux-gpio-chip" /\ Keeper("lux-gpio-chip") = "f0"
  /\ \A t \in Platform : Keeper(t) \in {"f0", "f1", "lux-gpio-chip"}
  /\ {"lux-irq", "lux-timer", "lux-chardev", "lux-leds", "lux-gpio-chip"} \subseteq Platform
  /\ {"lux-irq", "lux-timer", "lux-chardev", "lux-leds", "lux-gpio-chip"} \subseteq Things
  /\ {"lux-irq", "lux-timer", "lux-chardev", "lux-leds", "lux-gpio-chip"} \subseteq Devices
  /\ Leaves = {"lux-irq", "lux-timer", "lux-chardev", "lux-leds"}
  /\ Leaves \subseteq Platform /\ "lux-gpio-chip" \notin Leaves /\ "f0" \notin Leaves /\ "f1" \notin Leaves
  /\ Platform \subseteq Things /\ Platform \subseteq Devices
  /\ {"lux-core", "lux-chardev", "lux-irq", "lux-timer"} \subseteq Modules
  /\ "class" \notin Things /\ "handler" \notin Things
  BY DevicesAre DEF Things, Platform, Keeper, Leaves

\* What the other instructions are for.
LEMMA OthersDev ==
  /\ Dev(Forget) = "lux-irq" /\ Dev(Mask(Lines)) = "lux-irq" /\ Dev(Mask({})) = "lux-irq"
  /\ Dev(Put("handler")) = "lux-irq" /\ Dev(Put("class")) = "init" /\ Dev(Get("class")) = "init"
  /\ \A m : Dev(Register(m)) = "init"
  /\ "init" \notin Devices
  /\ Others \subseteq Instrs
  BY DevicesAre DEF Platform, Dev, Forget, Mask, Put, Get, Register, Keeper, Others, Instrs

NoInit(q) == ~In(Get("class"), q) /\ \A m \in Modules : ~In(Register(m), q)

\* What cannot be in what is to do, given its first instruction.
LEMMA AfterHead ==
  ASSUME NEW q, NEW H, NEW b, Sound(q, H, b), q # <<>>
  PROVE  /\ \A y : MustFollow(y, Head(q)) => ~In(y, q)
         /\ End(Head(q)) => \A x : In(x, q) /\ Dev(x) = Dev(Head(q)) => x = Head(q)
         /\ \A x : In(x, q) => ~Above(Dev(Head(q)), Dev(x)) \/ x = Head(q)
<1>1. q \in Seq(Instrs) /\ Tidy(q)
  BY DEF Sound
<1>2. DOMAIN q = 1 .. Len(q) /\ Len(q) \in Nat /\ 1 \in DOMAIN q /\ q[1] = Head(q)
  BY <1>1
<1>3. \A j \in DOMAIN q : 1 < j => MayFollow(q[1], q[j])
  BY <1>1, <1>2 DEF Tidy, Apart
<1>4. ASSUME NEW y, MustFollow(y, Head(q)), In(y, q) PROVE FALSE
  <2>1. PICK i \in DOMAIN q : q[i] = y
    BY <1>4 DEF In
  <2>2. PICK j \in DOMAIN q : i < j /\ q[j] = Head(q)
    BY <1>1, <1>4, <2>1 DEF Tidy, Following
  <2>3. 1 < j
    BY <1>2, <2>2
  <2>4. QED
    BY <1>2, <1>3, <2>2, <2>3 DEF MayFollow
<1>5. ASSUME NEW x, In(x, q), x # Head(q) PROVE MayFollow(Head(q), x)
  <2>1. PICK i \in DOMAIN q : q[i] = x
    BY <1>5 DEF In
  <2>2. 1 < i
    BY <1>2, <1>5, <2>1
  <2>3. QED
    BY <1>2, <1>3, <2>1, <2>2
<1>6. QED
  BY <1>4, <1>5 DEF MayFollow

\* Before anything of d is unmade, or made, d itself is at rest.
LEMMA PlatformClear ==
  ASSUME NEW q, NEW H, NEW b, Sound(q, H, b), q # <<>>, NEW t \in Platform,
         Head(q) = Make(t) \/ Head(q) = Unmake(t)
  PROVE  Clear(t, q) /\ Clear(t, Tail(q))
<1>1. q \in Seq(Instrs) /\ t \in Things /\ t # Keeper(t) /\ Above(Keeper(t), t)
  BY KeepersAre DEF Sound
<1>2. Dev(Head(q)) = Keeper(t)
  BY <1>1, InstructionsAre
<1>3. \A c : Above(t, c) => Above(Keeper(t), c)
  BY <1>1, AboveIs
<1>4. ~Above(Keeper(t), Keeper(t)) /\ ~Above(t, Keeper(t))
  BY <1>3, AboveIs
<1>5. \A x : In(x, q) => Dev(x) # t /\ ~Above(t, Dev(x))
  BY <1>1, <1>2, <1>3, <1>4, AfterHead
<1>6. \A x : In(x, Tail(q)) => In(x, q)
  BY SoundTail
<1>7. QED
  BY <1>5, <1>6 DEF Clear, In

\* While another device's instruction is first, a leaf is at rest.
LEMMA LeavesRest ==
  ASSUME LeavesFirst, NEW d \in Leaves, Dev(Head(todo)) # d \/ todo = <<>>
  PROVE  AtRest(d, todo) /\ \A x : In(x, todo) => Dev(x) # d
<1>1. todo = <<>> => AtRest(d, todo)
  BY DEF AtRest
<1>2. QED
  BY <1>1 DEF LeavesFirst, AtRest, In

\* A step that only takes the head off works on with the leaf that was at work.
LEMMA PopsLeaves ==
  ASSUME Queued, todo # <<>>, todo' = Tail(todo) PROVE LeavesFirst'
<1> SUFFICES ASSUME NEW d \in Leaves, ~AtRest(d, Tail(todo)) PROVE Dev(Head(Tail(todo))) = d
  BY DEF LeavesFirst
<1>1. todo \in Seq(Instrs) /\ Tidy(todo) /\ Dev(Head(todo)) = d
  BY LeavesRest, SoundTail DEF Queued, Sound, LeavesFirst, AtRest
<1>2. PICK k \in DOMAIN Tail(todo) : Dev(Tail(todo)[k]) = d
  BY DEF AtRest
<1>3. /\ DOMAIN todo = 1 .. Len(todo) /\ Len(todo) \in Nat /\ 1 \in DOMAIN todo /\ todo[1] = Head(todo)
      /\ k + 1 \in DOMAIN todo /\ todo[k + 1] = Tail(todo)[k] /\ 1 < k + 1
      /\ 2 \in DOMAIN todo /\ Head(Tail(todo)) = todo[2]
  BY <1>1, <1>2
<1>4. ~End(todo[1])
  BY <1>1, <1>2, <1>3 DEF Tidy, Apart, MayFollow
<1>5. PICK j \in DOMAIN todo : 1 <= j /\ End(todo[j]) /\ \A l \in 1 .. j : Dev(todo[l]) = Dev(todo[1])
  BY <1>1, <1>3 DEF Tidy, Whole
<1>6. 2 \in 1 .. j
  BY <1>3, <1>4, <1>5
<1>7. QED
  BY <1>1, <1>3, <1>5, <1>6

\* A piece put in front is the only work there is for a leaf.
LEMMA PushesLeaves ==
  ASSUME NEW d, NEW f, Piece(f, d), NEW r \in Seq(Instrs),
         \A e \in Leaves : e # d => AtRest(e, r), todo' = f \o r
  PROVE  LeavesFirst'
<1>1. f \in Seq(Instrs) /\ f # <<>> /\ \A i \in DOMAIN f : Dev(f[i]) = d
  BY DEF Piece
<1>2. Head(f \o r) = f[1] /\ 1 \in DOMAIN f
  BY <1>1
<1>3. \A e : e # d => AtRest(e, f)
  BY <1>1 DEF AtRest
<1>4. \A e \in Leaves : e # d => AtRest(e, f \o r)
  BY <1>1, <1>3, InConcat
<1>5. \A e \in Leaves : AtRest(e, f \o r) \/ Dev(Head(f \o r)) = e
  BY <1>1, <1>2, <1>4
<1>6. QED
  BY <1>5 DEF LeavesFirst

\* A module's init comes first or not at all.
LEMMA HeadNoInit ==
  ASSUME Queued, todo # <<>>, Head(todo) # Get("class"), \A m \in Modules : Head(todo) # Register(m)
  PROVE  NoInit(todo)
<1>1. \A x, y : Head(<<x>>) = x /\ Head(<<x, y>>) = x
  OBVIOUS
<1>2. QED
  BY <1>1, ThingsAre DEF Queued, InitAlone, NoInit

\* A queue without an initialisation has none that is not alone.
LEMMA NoInitAlone == NoInit(todo') => InitAlone'
  BY DEF NoInit, InitAlone

\* There is nothing in the empty queue.
LEMMA EmptyHas ==
  \A x : ~In(x, <<>>) /\ \A d : AtRest(d, <<>>) /\ Clear(d, <<>>)
  BY DEF In, AtRest, Clear

\* Instructions of different kinds, or with different objects, are different.
LEMMA Distinct ==
  /\ \A t \in Things : \A d, m : /\ Make(t) # Bound(d, m) /\ Make(t) # Unbound(d)
                                 /\ Unmake(t) # Bound(d, m) /\ Unmake(t) # Unbound(d)
  /\ \A s, t \in Things : /\ Make(s) # Unmake(t)
                          /\ (Make(s) = Make(t) => s = t) /\ (Unmake(s) = Unmake(t) => s = t)
  /\ \A x \in Others : \A t \in Things : x # Make(t) /\ x # Unmake(t)
  /\ \A x \in Others : \A d, m : x # Bound(d, m) /\ x # Unbound(d)
  /\ \A d, e, l, m : Bound(d, m) # Unbound(e) /\ (Unbound(d) = Unbound(e) => d = e)
                     /\ (Bound(d, m) = Bound(e, l) => d = e /\ m = l)
  /\ Forget \in Others /\ Mask(Lines) \in Others /\ Mask({}) \in Others /\ Put("handler") \in Others
  /\ Get("class") \in Others /\ Put("class") \in Others /\ \A m \in Modules : Register(m) \in Others
  /\ Mask(Lines) # Mask({})
  /\ Forget \notin {Mask(Lines), Mask({}), Put("handler"), Get("class"), Put("class")}
  /\ Put("handler") \notin {Mask(Lines), Mask({}), Get("class"), Put("class")}
  /\ Get("class") \notin {Mask(Lines), Mask({}), Put("class")}
  /\ Put("class") \notin {Mask(Lines), Mask({})}
  /\ \A m : Register(m) \notin {Forget, Mask(Lines), Mask({}), Put("handler"), Get("class"), Put("class")}
<1>1. \A t \in Things : \A d, m : /\ Make(t) # Bound(d, m) /\ Make(t) # Unbound(d)
                                  /\ Unmake(t) # Bound(d, m) /\ Unmake(t) # Unbound(d)
  BY DEF Make, Unmake, Add, Del, Get, Put, Bound, Unbound
<1>2. Mask(Lines) # Mask({})
  BY DEF Lines, Mask
<1>3. /\ Forget \notin {Mask(Lines), Mask({}), Put("handler"), Get("class"), Put("class")}
      /\ Put("handler") \notin {Mask(Lines), Mask({}), Get("class"), Put("class")}
      /\ Get("class") \notin {Mask(Lines), Mask({}), Put("class")}
      /\ Put("class") \notin {Mask(Lines), Mask({})}
      /\ \A m : Register(m) \notin {Forget, Mask(Lines), Mask({}), Put("handler"), Get("class"), Put("class")}
  BY DEF Mask, Forget, Put, Get, Register
<1>4. /\ Forget \in Others /\ Mask(Lines) \in Others /\ Mask({}) \in Others /\ Put("handler") \in Others
      /\ Get("class") \in Others /\ Put("class") \in Others /\ \A m \in Modules : Register(m) \in Others
  BY DEF Others
<1>5. QED
  BY <1>1, <1>2, <1>3, <1>4, OthersAre, MakeOnce

\* An instruction is done, and the next one is there.
LEMMA Popped ==
  ASSUME Queued, todo # <<>>, todo' = Tail(todo), Sound(Tail(todo), reg' \cup devices', bound'),
         Head(todo) # Get("class"), \A m \in Modules : Head(todo) # Register(m)
  PROVE  /\ Queued' /\ NoInit(todo)
         /\ \A x : In(x, todo') <=> In(x, todo) /\ x # Head(todo)
<1>1. NoInit(todo)
  BY HeadNoInit
<1>2. \A x : In(x, todo') <=> In(x, todo) /\ x # Head(todo)
  BY SoundTail DEF Queued
<1>3. LeavesFirst'
  BY PopsLeaves
<1>4. InitAlone'
  BY <1>1, <1>2, NoInitAlone DEF NoInit
<1>5. QED
  BY <1>1, <1>2, <1>3, <1>4 DEF Queued

\* DoGet on a thing.
LEMMA GetThing ==
  ASSUME LuxInv, DoGet, NEW t \in Things \ Platform, Head(todo) = Make(t), Object = t
  PROVE  LuxInv'
<1>1. /\ todo # <<>> /\ todo' = Tail(todo) /\ reg' = reg \cup {t}
      /\ UNCHANGED <<drivers, devices, bound, cpu, files>>
      /\ hw' = Unmasked({t} \cap Lines) /\ ~Unavailable(t)
      /\ t = "vector" =>
           chip' = [chip EXCEPT !.n = @ + 1, !.handler = chip.n + 1, !.null = @ \cup {chip.n + 1}]
      /\ t = "domain" => chip' = [chip EXCEPT !.null = @ \ {chip.n}, !.known = TRUE]
      /\ t \notin {"vector", "domain"} => chip' = chip
  BY DEF DoGet, Doing
<1>2. Sound(todo, reg \cup devices, bound)
  BY DEF LuxInv, Queued
<1>3. Queued' /\ NoInit(todo) /\ \A x : In(x, todo') <=> In(x, todo) /\ x # Make(t)
  <2>1. (reg \cup devices) \cup {t} = reg' \cup devices'
    BY <1>1
  <2>2. Sound(Tail(todo), reg' \cup devices', bound')
    BY <1>1, <1>2, <2>1, MakeSound
  <2>3. Head(todo) # Get("class") /\ \A m \in Modules : Head(todo) # Register(m)
    BY Distinct
  <2>4. QED
    BY <1>1, <2>2, <2>3, Popped DEF LuxInv
<1>4. In(Make(t), todo) /\ t # "class"
  BY <1>1, <1>2, SoundTail, ThingsAre
<1>5. KernelTypes'
  <2>1. chip' \in [n : Nat, handler : Nat, null : SUBSET Nat, known : BOOLEAN]
    <3>1. chip \in [n : Nat, handler : Nat, null : SUBSET Nat, known : BOOLEAN]
      BY DEF LuxInv, KernelTypes
    <3>2. CASE t = "vector"
      <4>1. chip.n + 1 \in Nat /\ chip.null \cup {chip.n + 1} \in SUBSET Nat
        BY <3>1
      <4>2. QED
        BY <1>1, <3>1, <3>2, <4>1
    <3>3. CASE t = "domain"
      BY <1>1, <3>1, <3>3
    <3>4. QED
      BY <1>1, <3>1, <3>2, <3>3
  <2>2. hw' \in [status : SUBSET Lines, mask : SUBSET Lines]
    BY <1>1 DEF LuxInv, KernelTypes, Unmasked
  <2>3. QED
    BY <1>1, <2>1, <2>2 DEF LuxInv, KernelTypes
<1>6. /\ \A d, m : /\ In(Bound(d, m), todo') <=> In(Bound(d, m), todo)
                   /\ In(Unbound(d), todo') <=> In(Unbound(d), todo)
      /\ \A x \in Others : In(x, todo') <=> In(x, todo)
      /\ \A s \in Things : In(Unmake(s), todo') <=> In(Unmake(s), todo)
  BY <1>3, Distinct
<1>7. DriversInv'
  BY <1>1, <1>6 DEF LuxInv, DriversInv
<1>8. ClassInv'
  <2>1. /\ In(Put("class"), todo') <=> In(Put("class"), todo)
        /\ In(Get("class"), todo') <=> In(Get("class"), todo)
        /\ In(Register("lux-chardev"), todo') <=> In(Register("lux-chardev"), todo)
    BY <1>6, Distinct, ThingsAre
  <2>2. "class" \in reg' <=> "class" \in reg
    BY <1>1, <1>4
  <2>3. QED
    BY <1>1, <1>6, <2>1, <2>2 DEF LuxInv, ClassInv
<1>9. GoingInv'
  BY <1>1, <1>6, ThingsAre DEF LuxInv, GoingInv
<1>10. t = "domain" => ~In(Unbound("lux-irq"), todo)
  BY <1>2, <1>4, MakeEnds, ThingsAre
<1>11. chip'.known = (chip.known \/ t = "domain")
  BY <1>1 DEF LuxInv, KernelTypes
<1>12. KnownInv'
  BY <1>1, <1>6, <1>10, <1>11, Distinct DEF LuxInv, KnownInv
<1>13. IrqGoingInv'
  BY <1>1, <1>6, <1>10, <1>11 DEF LuxInv, IrqGoingInv
<1>14. TimerInv'
  BY <1>1, <1>11 DEF LuxInv, TimerInv, Unavailable
<1>15. OpenInv'
  BY <1>1, <1>11 DEF LuxInv, OpenInv, files
<1>16. NullInv'
  <2>1. In(Make("domain"), todo') <=> In(Make("domain"), todo) /\ t # "domain"
    BY <1>3, Distinct, ThingsAre
  <2>2. In(Make("vector"), todo') <=> In(Make("vector"), todo) /\ t # "vector"
    BY <1>3, Distinct, ThingsAre
  <2>3. In(Mask(Lines), todo') <=> In(Mask(Lines), todo)
    BY <1>6, Distinct
  <2>4. In(Make("domain"), todo) => hw'.mask = hw.mask
    <3>1. CASE t = "TIMER"
      <4>1. Dev(Head(todo)) = "lux-timer" /\ Dev(Make("domain")) = "lux-irq" /\ "lux-irq" \in Leaves
        BY <3>1, ThingsAre, InstructionsAre DEF Leaves
      <4>2. QED
        BY <4>1, LeavesRest DEF LuxInv, Queued
    <3>2. CASE t # "TIMER"
      <4>1. {t} \cap Lines = {}
        BY <3>2 DEF Things, Lines
      <4>2. QED
        BY <1>1, <4>1 DEF Unmasked, LuxInv, KernelTypes
    <3>3. QED
      BY <3>1, <3>2
  <2>5. CASE t = "vector"
    <3>1. In(Make("domain"), todo)
      <4>1. Later("domain", "vector")
        BY DEF Later, Keeper, Driver, Rank
      <4>2. QED
        BY <1>2, <1>4, <2>5, <4>1, MakeEnds, ThingsAre
    <3>2. chip.null = {} /\ chip.n \in Nat /\ cpu.chip <= chip.n /\ cpu.chip \in Nat
      BY <1>4, <2>5 DEF LuxInv, NullInv, KernelTypes
    <3>3. chip'.n = chip.n + 1 /\ chip'.handler = chip.n + 1 /\ chip'.null = {chip.n + 1}
      BY <1>1, <2>5, <3>2 DEF LuxInv, KernelTypes
    <3>4. QED
      BY <1>1, <2>1, <2>2, <2>3, <2>4, <2>5, <3>1, <3>2, <3>3 DEF LuxInv, NullInv
  <2>6. CASE t = "domain"
    <3>1. chip'.null = {} /\ chip'.n = chip.n /\ chip'.handler = chip.handler
      BY <1>1, <2>6 DEF LuxInv, NullInv, KernelTypes
    <3>2. QED
      BY <1>1, <2>1, <2>6, <3>1 DEF LuxInv, NullInv
  <2>7. CASE t \notin {"vector", "domain"}
    BY <1>1, <2>1, <2>2, <2>3, <2>4, <2>7 DEF LuxInv, NullInv
  <2>8. QED
    BY <2>5, <2>6, <2>7
<1>17. FilesInv'
  BY <1>1, FilesUntouched DEF LuxInv
<1>18. QED
  BY <1>3, <1>5, <1>7, <1>8, <1>9, <1>12, <1>13, <1>14, <1>15, <1>16, <1>17 DEF LuxInv

\* What is in a queue of one or two instructions.
LEMMA FewHave ==
  /\ \A a, x : In(x, <<a>>) <=> x = a
  /\ \A a, b, x : In(x, <<a, b>>) <=> x \in {a, b}
  /\ \A a, b : Tail(<<a, b>>) = <<b>> /\ Head(<<a, b>>) = a
  /\ \A a : Tail(<<a>>) = <<>> /\ Head(<<a>>) = a
<1>1. \A a, x : In(x, <<a>>) <=> x = a
  BY DEF In
<1>2. \A a, b, x : In(x, <<a, b>>) <=> x \in {a, b}
  BY DEF In
<1>3. ASSUME NEW a, NEW b PROVE Tail(<<a, b>>) = <<b>>
  <2>1. PICK h : h = Tail(<<a, b>>)
    OBVIOUS
  <2>2. PICK g : g = <<b>>
    OBVIOUS
  <2>3. <<a, b>> \in Seq({a, b}) /\ g \in Seq({a, b}) /\ Len(g) = 1 /\ g[1] = b
    BY <2>2
  <2>4. h \in Seq({a, b}) /\ Len(h) = 1 /\ h[1] = b
    BY <2>1
  <2>5. h = g
    BY <2>3, <2>4, SeqEqual
  <2>6. QED
    BY <2>1, <2>2, <2>5
<1>4. ASSUME NEW a PROVE Tail(<<a>>) = <<>>
  OBVIOUS
<1>5. \A a, b : Head(<<a, b>>) = a /\ Head(<<a>>) = a
  OBVIOUS
<1>6. QED
  BY <1>1, <1>2, <1>3, <1>4, <1>5

\* When lux-irq is going, the timer has gone.
LEMMA TimerGone ==
  ASSUME LuxInv, Dev(Head(todo)) = "lux-irq", bound["lux-timer"] = NoDriver
  PROVE  "TIMER" \notin reg
<1>1. AtRest("lux-timer", todo)
  BY LeavesRest, ThingsAre DEF LuxInv, Queued
<1>2. Rested("lux-timer", todo, reg \cup devices, bound)
  BY ThingsAre DEF LuxInv, Queued, Sound, Local
<1>3. "TIMER" \in reg => bound["lux-timer"] = Driver("TIMER")
  BY <1>1, <1>2, ThingsAre DEF Rested
<1>4. Driver("TIMER") # NoDriver
  BY DEF Driver, Keeper, NoDriver
<1>5. QED
  BY <1>3, <1>4

\* An instruction on the class, or on a module, has nothing to do with the devices.
LEMMA GetClass ==
  ASSUME LuxInv, DoGet, Head(todo) = Get("class"), Object = "class"
  PROVE  LuxInv'
<1>1. /\ todo # <<>> /\ todo' = Tail(todo) /\ reg' = reg \cup {"class"}
      /\ UNCHANGED <<drivers, devices, bound, cpu, files>>
      /\ hw' = Unmasked({"class"} \cap Lines) /\ chip' = chip
  BY DEF DoGet, Doing
<1>2. Sound(todo, reg \cup devices, bound)
  BY DEF LuxInv, Queued
<1>3. todo = <<Get("class"), Register("lux-chardev")>>
  BY <1>1, <1>2, SoundTail DEF LuxInv, Queued, InitAlone
<1>4. todo' = <<Register("lux-chardev")>>
  BY <1>1, <1>3, FewHave
<1>5. /\ \A x : In(x, todo) <=> x \in {Get("class"), Register("lux-chardev")}
      /\ \A x : In(x, todo') <=> x = Register("lux-chardev")
      /\ \A d \in Devices : AtRest(d, todo')
  <2>1. /\ \A x : In(x, todo) <=> x \in {Get("class"), Register("lux-chardev")}
        /\ \A x : In(x, todo') <=> x = Register("lux-chardev")
    BY <1>3, <1>4, FewHave
  <2>2. QED
    BY <2>1, OthersDev DEF AtRest, In
<1>6. Queued'
  <2>1. \A s \in Things : s \in reg' \cup devices' <=> s \in reg \cup devices
    BY <1>1, ThingsAre
  <2>2. Sound(Tail(todo), reg' \cup devices', bound)
    BY <1>1, <1>2, <2>1, OtherSound, Distinct
  <2>3. LeavesFirst'
    BY <1>5, ThingsAre DEF LeavesFirst
  <2>4. "lux-chardev" \notin drivers
    BY <1>5, ThingsAre DEF LuxInv, Queued, InitAlone
  <2>5. InitAlone'
    <3>1. ~In(Get("class"), todo')
      BY <1>5, Distinct, ThingsAre
    <3>2. \A m : Register(m) = Register("lux-chardev") => m = "lux-chardev"
      BY DEF Register
    <3>3. QED
      BY <1>1, <1>4, <1>5, <2>4, <3>1, <3>2 DEF InitAlone
  <2>6. QED
    BY <1>1, <2>2, <2>3, <2>5 DEF Queued
<1>7. hw' = hw
  <2>1. {"class"} \cap Lines = {}
    BY DEF Lines
  <2>2. QED
    BY <1>1, <2>1 DEF Unmasked, LuxInv, KernelTypes
<1>8. KernelTypes'
  BY <1>1, <1>7 DEF LuxInv, KernelTypes
<1>9. /\ \A d, m : ~In(Bound(d, m), todo') /\ ~In(Unbound(d), todo') /\ ~In(Unbound(d), todo)
      /\ \A s \in Things : ~In(Unmake(s), todo') /\ ~In(Make(s), todo') /\ ~In(Make(s), todo)
      /\ ~In(Put("class"), todo') /\ ~In(Get("class"), todo')
  BY <1>5, Distinct, ThingsAre
<1>10. DriversInv'
  BY <1>1, <1>9 DEF LuxInv, DriversInv
<1>11. ClassInv'
  BY <1>1, <1>5, <1>9 DEF ClassInv
<1>12. GoingInv'
  BY <1>9, ThingsAre DEF GoingInv
<1>13. "domain" \in reg' <=> "domain" \in reg
  BY <1>1
<1>14. KnownInv' /\ IrqGoingInv'
  BY <1>1, <1>9, <1>13 DEF LuxInv, KnownInv, IrqGoingInv
<1>15. TimerInv' /\ OpenInv'
  BY <1>1 DEF LuxInv, TimerInv, OpenInv, files
<1>16. NullInv'
  BY <1>1, <1>7, <1>9, ThingsAre DEF LuxInv, NullInv
<1>17. FilesInv'
  BY <1>1, FilesUntouched DEF LuxInv
<1>18. QED
  BY <1>6, <1>8, <1>10, <1>11, <1>12, <1>14, <1>15, <1>16, <1>17 DEF LuxInv

\* DoPut on a thing.
LEMMA PutThing ==
  ASSUME LuxInv, DoPut, NEW t \in Things \ Platform, Head(todo) = Unmake(t), Object = t
  PROVE  LuxInv'
<1>1. /\ todo # <<>> /\ todo' = Tail(todo) /\ reg' = reg \ {t}
      /\ UNCHANGED <<drivers, devices, bound, cpu, files>>
      /\ hw' = Masked({t} \cap Lines) /\ chip' = chip
  BY ThingsAre DEF DoPut, Doing
<1>2. Sound(todo, reg \cup devices, bound)
  BY DEF LuxInv, Queued
<1>3. Queued' /\ NoInit(todo) /\ \A x : In(x, todo') <=> In(x, todo) /\ x # Unmake(t)
  <2>1. (reg \cup devices) \ {t} = reg' \cup devices'
    <3>1. t \notin devices
      BY KeepersAre DEF LuxInv, KernelTypes
    <3>2. QED
      BY <1>1, <3>1
  <2>2. Sound(Tail(todo), (reg \cup devices) \ {t}, bound)
    BY <1>1, <1>2, UnmakeSound
  <2>3. Head(todo) # Get("class") /\ \A m \in Modules : Head(todo) # Register(m)
    BY Distinct
  <2>4. QED
    BY <1>1, <2>1, <2>2, <2>3, Popped DEF LuxInv
<1>4. In(Unmake(t), todo) /\ t # "class" /\ Dev(Head(todo)) = Keeper(t)
  BY <1>1, <1>2, SoundTail, ThingsAre, InstructionsAre
<1>5. KernelTypes'
  <2>1. hw' \in [status : SUBSET Lines, mask : SUBSET Lines]
    BY <1>1 DEF LuxInv, KernelTypes, Masked
  <2>2. QED
    BY <1>1, <2>1 DEF LuxInv, KernelTypes
<1>6. /\ \A d, m : /\ In(Bound(d, m), todo') <=> In(Bound(d, m), todo)
                   /\ In(Unbound(d), todo') <=> In(Unbound(d), todo)
      /\ \A x \in Others : In(x, todo') <=> In(x, todo)
      /\ \A s \in Things : /\ In(Make(s), todo') <=> In(Make(s), todo)
                           /\ In(Unmake(s), todo') => In(Unmake(s), todo)
  BY <1>3, Distinct
<1>7. DriversInv'
  BY <1>1, <1>6 DEF LuxInv, DriversInv
<1>8. ClassInv'
  <2>1. /\ In(Put("class"), todo') <=> In(Put("class"), todo)
        /\ In(Get("class"), todo') <=> In(Get("class"), todo)
        /\ In(Register("lux-chardev"), todo') <=> In(Register("lux-chardev"), todo)
    BY <1>6, Distinct, ThingsAre
  <2>2. "class" \in reg' <=> "class" \in reg
    BY <1>1, <1>4
  <2>3. QED
    BY <1>1, <1>6, <2>1, <2>2 DEF LuxInv, ClassInv
<1>9. GoingInv'
  BY <1>1, <1>6, ThingsAre DEF LuxInv, GoingInv
<1>10. t \in {"domain", "mappings"} => In(Unbound("lux-irq"), todo)
  BY <1>2, <1>4, UnmakeEnds, ThingsAre
<1>11. t = "domain" => ~chip.known
  <2>1. ASSUME t = "domain" PROVE ~In(Forget, todo)
    <3>1. MustFollow(Forget, Unmake("domain"))
      BY ThingsAre DEF MustFollow, Unmake
    <3>2. QED
      BY <1>1, <1>2, <2>1, <3>1, AfterHead
  <2>2. QED
    BY <1>10, <2>1 DEF LuxInv, KnownInv
<1>12. KnownInv'
  BY <1>1, <1>6, <1>11, Distinct DEF LuxInv, KnownInv
<1>13. IrqGoingInv'
  BY <1>1, <1>6 DEF LuxInv, IrqGoingInv
<1>14. t = "mappings" => "TIMER" \notin reg /\ ~(chip.known /\ {"lux-core", "lux-chardev"} \subseteq drivers)
  BY <1>4, <1>10, TimerGone, ThingsAre DEF LuxInv, IrqGoingInv
<1>15. TimerInv'
  BY <1>1, <1>14 DEF LuxInv, TimerInv
<1>16. OpenInv'
  BY <1>1, <1>14 DEF LuxInv, OpenInv, files
<1>17. NullInv'
  <2>1. /\ In(Make("domain"), todo') <=> In(Make("domain"), todo)
        /\ In(Make("vector"), todo') <=> In(Make("vector"), todo)
        /\ In(Mask(Lines), todo') <=> In(Mask(Lines), todo)
    BY <1>6, Distinct, ThingsAre
  <2>2. In(Make("domain"), todo) => hw'.mask = hw.mask
    <3>1. CASE t = "TIMER"
      <4>1. Dev(Head(todo)) = "lux-timer" /\ Dev(Make("domain")) = "lux-irq" /\ "lux-irq" \in Leaves
        BY <1>4, <3>1, ThingsAre, InstructionsAre DEF Leaves
      <4>2. QED
        BY <4>1, LeavesRest DEF LuxInv, Queued
    <3>2. CASE t # "TIMER"
      <4>1. {t} \cap Lines = {}
        BY <3>2 DEF Things, Lines
      <4>2. QED
        BY <1>1, <4>1 DEF Masked, LuxInv, KernelTypes
    <3>3. QED
      BY <3>1, <3>2
  <2>3. QED
    BY <1>1, <2>1, <2>2 DEF LuxInv, NullInv
<1>18. FilesInv'
  BY <1>1, FilesUntouched DEF LuxInv
<1>19. QED
  BY <1>3, <1>5, <1>7, <1>8, <1>9, <1>12, <1>13, <1>15, <1>16, <1>17, <1>18 DEF LuxInv

\* An instruction that makes or unmakes no thing and binds no driver.
LEMMA OtherDone ==
  ASSUME LuxInv, todo # <<>>, Head(todo) \in {Put("class"), Put("handler"), Mask(Lines), Mask({}), Forget},
         todo' = Tail(todo), UNCHANGED <<drivers, devices, bound, cpu, files>>,
         \A s \in Things : s \in reg' <=> s \in reg
  PROVE  /\ Queued' /\ DriversInv' /\ GoingInv' /\ FilesInv'
         /\ Sound(todo, reg \cup devices, bound) /\ In(Head(todo), todo)
         /\ \A x : In(x, todo') <=> In(x, todo) /\ x # Head(todo)
         /\ \A d, m : /\ In(Bound(d, m), todo') <=> In(Bound(d, m), todo)
                      /\ In(Unbound(d), todo') <=> In(Unbound(d), todo)
         /\ \A s \in Things : /\ In(Make(s), todo') <=> In(Make(s), todo)
                              /\ In(Unmake(s), todo') <=> In(Unmake(s), todo)
         /\ ~In(Get("class"), todo) /\ \A m \in Modules : ~In(Register(m), todo)
<1>1. Sound(todo, reg \cup devices, bound)
  BY DEF LuxInv, Queued
<1>2. Head(todo) \in Others /\ Head(todo) # Get("class") /\ \A m \in Modules : Head(todo) # Register(m)
  BY Distinct
<1>3. Sound(Tail(todo), reg' \cup devices', bound')
  <2>1. \A s \in Things : s \in reg' \cup devices' <=> s \in reg \cup devices
    OBVIOUS
  <2>2. Sound(Tail(todo), reg' \cup devices', bound)
    BY <1>1, <1>2, <2>1, OtherSound
  <2>3. QED
    BY <2>2
<1>4. Queued' /\ NoInit(todo) /\ \A x : In(x, todo') <=> In(x, todo) /\ x # Head(todo)
  BY <1>2, <1>3, Popped DEF LuxInv
<1>5. /\ \A d, m : /\ In(Bound(d, m), todo') <=> In(Bound(d, m), todo)
                   /\ In(Unbound(d), todo') <=> In(Unbound(d), todo)
      /\ \A s \in Things : /\ In(Make(s), todo') <=> In(Make(s), todo)
                           /\ In(Unmake(s), todo') <=> In(Unmake(s), todo)
  BY <1>2, <1>4, Distinct
<1>6. DriversInv'
  BY <1>5 DEF LuxInv, DriversInv
<1>7. GoingInv'
  BY <1>5, ThingsAre DEF LuxInv, GoingInv
<1>8. FilesInv'
  BY FilesUntouched DEF LuxInv
<1>9. In(Head(todo), todo)
  BY <1>1, SoundTail
<1>10. QED
  BY <1>1, <1>4, <1>5, <1>6, <1>7, <1>8, <1>9 DEF NoInit

\* Giving the class back, when lux-chardev is leaving.
LEMMA PutClass ==
  ASSUME LuxInv, DoPut, Head(todo) = Put("class"), Object = "class" PROVE LuxInv'
<1>1. /\ todo # <<>> /\ todo' = Tail(todo) /\ reg' = reg \ {"class"} /\ chip' = chip
      /\ UNCHANGED <<drivers, devices, bound, cpu, files>>
      /\ hw' = Masked({"class"} \cap Lines)
  BY DEF DoPut, Doing
<1>2. hw' = hw
  <2>1. {"class"} \cap Lines = {}
    BY DEF Lines
  <2>2. QED
    BY <1>1, <2>1 DEF Masked, LuxInv, KernelTypes
<1>3. \A s \in Things : s \in reg' <=> s \in reg
  BY <1>1, ThingsAre
<1>4. /\ Queued' /\ DriversInv' /\ GoingInv' /\ FilesInv' /\ In(Put("class"), todo)
      /\ \A x : In(x, todo') <=> In(x, todo) /\ x # Put("class")
      /\ \A d, m : In(Unbound(d), todo') <=> In(Unbound(d), todo)
      /\ \A s \in Things : In(Make(s), todo') <=> In(Make(s), todo)
      /\ ~In(Get("class"), todo) /\ \A m \in Modules : ~In(Register(m), todo)
  BY <1>1, <1>3, OtherDone
<1>5. KernelTypes'
  BY <1>1, <1>2 DEF LuxInv, KernelTypes
<1>6. ClassInv'
  <2>1. ~In(Unbound("lux-chardev"), todo)
    <3>1. Dev(Head(todo)) # "lux-chardev" /\ Dev(Unbound("lux-chardev")) = "lux-chardev"
      BY OthersDev, ThingsAre, InstructionsAre
    <3>2. QED
      BY <3>1, LeavesRest, ThingsAre DEF LuxInv, Queued
  <2>2. "lux-chardev" \notin drivers
    BY <1>4 DEF LuxInv, ClassInv
  <2>3. ~In(Put("class"), todo') /\ ~In(Register("lux-chardev"), todo') /\ "class" \notin reg'
    BY <1>1, <1>4, ThingsAre
  <2>4. QED
    BY <1>1, <1>4, <2>1, <2>2, <2>3 DEF ClassInv
<1>7. /\ "domain" \in reg' <=> "domain" \in reg
      /\ "TIMER" \in reg' <=> "TIMER" \in reg
      /\ "mappings" \in reg' <=> "mappings" \in reg
  BY <1>3, ThingsAre
<1>8. (In(Forget, todo') <=> In(Forget, todo)) /\ (In(Mask(Lines), todo') <=> In(Mask(Lines), todo))
  BY <1>4, Distinct
<1>9. KnownInv' /\ IrqGoingInv' /\ TimerInv' /\ OpenInv'
  BY <1>1, <1>4, <1>7, <1>8 DEF LuxInv, KnownInv, IrqGoingInv, TimerInv, OpenInv, files
<1>10. NullInv'
  BY <1>1, <1>2, <1>4, <1>8, ThingsAre DEF LuxInv, NullInv
<1>11. QED
  BY <1>4, <1>5, <1>6, <1>9, <1>10 DEF LuxInv

\* lux_irq_remove resets the chained handler.
LEMMA PutHandler ==
  ASSUME LuxInv, DoPut, Head(todo) = Put("handler"), Object = "handler" PROVE LuxInv'
<1>1. /\ todo # <<>> /\ todo' = Tail(todo) /\ reg' = reg \ {"handler"}
      /\ chip' = [chip EXCEPT !.handler = 0]
      /\ UNCHANGED <<drivers, devices, bound, cpu, files>>
      /\ hw' = Masked({"handler"} \cap Lines)
  BY DEF DoPut, Doing
<1>2. hw' = hw
  <2>1. {"handler"} \cap Lines = {}
    BY DEF Lines
  <2>2. QED
    BY <1>1, <2>1 DEF Masked, LuxInv, KernelTypes
<1>3. \A s \in Things : s \in reg' <=> s \in reg
  BY <1>1, ThingsAre
<1>4. /\ Queued' /\ DriversInv' /\ GoingInv' /\ FilesInv'
      /\ \A x : In(x, todo') <=> In(x, todo) /\ x # Put("handler")
      /\ \A d, m : In(Unbound(d), todo') <=> In(Unbound(d), todo)
      /\ \A s \in Things : In(Make(s), todo') <=> In(Make(s), todo)
      /\ ~In(Get("class"), todo) /\ \A m \in Modules : ~In(Register(m), todo)
  BY <1>1, <1>3, OtherDone
<1>5. /\ chip' \in [n : Nat, handler : Nat, null : SUBSET Nat, known : BOOLEAN]
      /\ chip'.n = chip.n /\ chip'.handler = 0 /\ chip'.null = chip.null /\ chip'.known = chip.known
      /\ chip.n \in Nat
  BY <1>1 DEF LuxInv, KernelTypes
<1>6. KernelTypes'
  BY <1>1, <1>2, <1>5 DEF LuxInv, KernelTypes
<1>7. /\ \A x \in {Put("class"), Forget, Mask(Lines), Get("class"), Register("lux-chardev")} :
           In(x, todo') <=> In(x, todo)
      /\ \A x \in {"class", "domain", "TIMER", "mappings"} : x \in reg' <=> x \in reg
  BY <1>1, <1>4, Distinct
<1>8. ClassInv'
  BY <1>1, <1>4, <1>7 DEF LuxInv, ClassInv
<1>9. KnownInv' /\ IrqGoingInv' /\ TimerInv' /\ OpenInv'
  BY <1>1, <1>4, <1>5, <1>7 DEF LuxInv, KnownInv, IrqGoingInv, TimerInv, OpenInv, files
<1>10. NullInv'
  BY <1>1, <1>2, <1>4, <1>5, <1>7, ThingsAre DEF LuxInv, NullInv
<1>11. QED
  BY <1>4, <1>6, <1>8, <1>9, <1>10 DEF LuxInv

\* DoMask keeps the invariant.
LEMMA MaskKeeps == ASSUME LuxInv, DoMask PROVE LuxInv'
<1>1. /\ todo # <<>> /\ todo' = Tail(todo) /\ hw' = [hw EXCEPT !.mask = Object]
      /\ UNCHANGED <<drivers, devices, bound, reg, chip, cpu, files>> /\ Head(todo)[1] = "mask"
  BY DEF DoMask, Doing
<1>2. Head(todo) = Mask(Lines) \/ Head(todo) = Mask({})
  BY <1>1, Named, SoundTail DEF LuxInv, Queued
<1>3. (Head(todo) = Mask(Lines) => Object = Lines) /\ (Head(todo) = Mask({}) => Object = {})
  BY DEF Mask, Object
<1>4. /\ Queued' /\ DriversInv' /\ GoingInv' /\ FilesInv' /\ Sound(todo, reg \cup devices, bound)
      /\ \A x : In(x, todo') <=> In(x, todo) /\ x # Head(todo)
      /\ \A d, m : In(Unbound(d), todo') <=> In(Unbound(d), todo)
      /\ \A s \in Things : In(Make(s), todo') <=> In(Make(s), todo)
  BY <1>1, <1>2, OtherDone
<1>5. KernelTypes' /\ hw'.mask = Object
  <2>1. Object \in SUBSET Lines
    BY <1>2, <1>3
  <2>2. QED
    BY <1>1, <2>1 DEF LuxInv, KernelTypes
<1>6. \A x \in {Put("class"), Forget, Get("class"), Register("lux-chardev")} : In(x, todo') <=> In(x, todo)
  BY <1>2, <1>4, Distinct
<1>7. ClassInv' /\ KnownInv' /\ IrqGoingInv' /\ TimerInv' /\ OpenInv'
  BY <1>1, <1>4, <1>6 DEF LuxInv, ClassInv, KnownInv, IrqGoingInv, TimerInv, OpenInv, files
<1>8. NullInv'
  <2>1. CASE Head(todo) = Mask(Lines)
    BY <1>1, <1>3, <1>4, <1>5, <2>1, ThingsAre DEF LuxInv, NullInv
  <2>2. CASE Head(todo) = Mask({})
    <3>1. MustFollow(Make("domain"), Mask({}))
      BY DEF MustFollow
    <3>2. ~In(Make("domain"), todo)
      BY <1>1, <1>4, <2>2, <3>1, AfterHead
    <3>3. QED
      BY <1>1, <1>4, <3>2, ThingsAre DEF LuxInv, NullInv
  <2>3. QED
    BY <1>2, <2>1, <2>2
<1>9. QED
  BY <1>4, <1>5, <1>7, <1>8 DEF LuxInv

\* DoForget keeps it: from here the domain is as good as gone.
LEMMA ForgetKeeps == ASSUME LuxInv, DoForget PROVE LuxInv'
<1>1. /\ todo # <<>> /\ todo' = Tail(todo) /\ chip' = [chip EXCEPT !.known = FALSE]
      /\ UNCHANGED <<drivers, devices, bound, reg, hw, cpu, files>> /\ Head(todo)[1] = "forget"
  BY DEF DoForget, Doing
<1>2. Head(todo) = Forget
  BY <1>1, Named, SoundTail DEF LuxInv, Queued
<1>3. /\ Queued' /\ DriversInv' /\ GoingInv' /\ FilesInv' /\ Sound(todo, reg \cup devices, bound)
      /\ In(Forget, todo)
      /\ \A x : In(x, todo') <=> In(x, todo) /\ x # Forget
      /\ \A d, m : In(Unbound(d), todo') <=> In(Unbound(d), todo)
      /\ \A s \in Things : In(Make(s), todo') <=> In(Make(s), todo)
  BY <1>1, <1>2, OtherDone
<1>4. /\ chip' \in [n : Nat, handler : Nat, null : SUBSET Nat, known : BOOLEAN]
      /\ chip'.n = chip.n /\ chip'.handler = chip.handler /\ chip'.null = chip.null /\ chip'.known = FALSE
  BY <1>1 DEF LuxInv, KernelTypes
<1>5. KernelTypes'
  BY <1>1, <1>4 DEF LuxInv, KernelTypes
<1>6. \A x \in {Put("class"), Mask(Lines), Get("class"), Register("lux-chardev")} :
        In(x, todo') <=> In(x, todo)
  BY <1>3, Distinct
<1>7. ClassInv'
  BY <1>1, <1>3, <1>6 DEF LuxInv, ClassInv
<1>8. In(Unbound("lux-irq"), todo)
  <2>1. MustFollow(Forget, Unbound("lux-irq"))
    BY DEF MustFollow
  <2>2. QED
    BY <1>3, <2>1, Follows DEF Sound
<1>9. KnownInv' /\ IrqGoingInv'
  BY <1>1, <1>3, <1>4, <1>8 DEF LuxInv, KnownInv, IrqGoingInv
<1>10. "TIMER" \notin reg /\ ~(chip.known /\ {"lux-core", "lux-chardev"} \subseteq drivers)
  BY <1>2, <1>8, TimerGone, OthersDev DEF LuxInv, IrqGoingInv
<1>11. TimerInv' /\ OpenInv'
  BY <1>1, <1>10 DEF LuxInv, TimerInv, OpenInv, files
<1>12. NullInv'
  BY <1>1, <1>3, <1>4, <1>6, ThingsAre DEF LuxInv, NullInv
<1>13. QED
  BY <1>3, <1>5, <1>7, <1>9, <1>11, <1>12 DEF LuxInv

\* DoBound keeps it: all that the probe makes is there.
LEMMA BoundKeeps == ASSUME LuxInv, DoBound PROVE LuxInv'
<1>1. /\ todo # <<>> /\ todo' = Tail(todo) /\ bound' = [bound EXCEPT ![Object] = Head(todo)[3]]
      /\ UNCHANGED <<drivers, devices, reg, chip, hw, cpu, files>> /\ Head(todo)[1] = "bound"
  BY DEF DoBound, Doing
<1>2. Sound(todo, reg \cup devices, bound) /\ Head(todo) \in Instrs /\ In(Head(todo), todo)
  BY <1>1, SoundTail DEF LuxInv, Queued
<1>3. PICK d \in Devices, m \in Modules : Head(todo) = Bound(d, m) /\ Object = d /\ Head(todo)[3] = m
  BY <1>1, <1>2, Named DEF Object
<1>4. bound' = [bound EXCEPT ![d] = m]
  BY <1>1, <1>3
<1>5. Queued' /\ NoInit(todo) /\ \A x : In(x, todo') <=> In(x, todo) /\ x # Bound(d, m)
  <2>1. Sound(Tail(todo), reg' \cup devices', bound')
    <3>1. Sound(Tail(todo), reg \cup devices, [bound EXCEPT ![d] = m])
      BY <1>1, <1>2, <1>3, BoundSound
    <3>2. reg' \cup devices' = reg \cup devices
      BY <1>1
    <3>3. QED
      BY <1>4, <3>1, <3>2
  <2>2. Head(todo) # Get("class") /\ \A l \in Modules : Head(todo) # Register(l)
    BY <1>3, Distinct
  <2>3. QED
    BY <1>1, <1>3, <2>1, <2>2, Popped DEF LuxInv
<1>6. /\ \A e, l : In(Bound(e, l), todo') => In(Bound(e, l), todo)
      /\ \A e : In(Unbound(e), todo') <=> In(Unbound(e), todo)
      /\ \A x \in Others : In(x, todo') <=> In(x, todo)
      /\ \A s \in Things : /\ In(Make(s), todo') <=> In(Make(s), todo)
                           /\ In(Unmake(s), todo') <=> In(Unmake(s), todo)
  BY <1>5, Distinct
<1>7. \A x \in {Put("class"), Forget, Mask(Lines), Get("class"), Register("lux-chardev")} :
        In(x, todo') <=> In(x, todo)
  BY <1>6, Distinct, ThingsAre
<1>8. m \in drivers
  BY <1>2, <1>3 DEF LuxInv, DriversInv
<1>9. \A e \in Devices : bound'[e] = IF e = d THEN m ELSE bound[e]
  BY <1>2, <1>4 DEF Sound
<1>10. DriversInv'
  BY <1>1, <1>6, <1>8, <1>9 DEF LuxInv, DriversInv
<1>11. d = "lux-timer" => ~In(Unbound("lux-irq"), todo)
  <2>1. Dev(Head(todo)) = d /\ Dev(Unbound("lux-irq")) = "lux-irq"
    BY <1>3, InstructionsAre, ThingsAre
  <2>2. QED
    BY <2>1, LeavesRest, ThingsAre DEF LuxInv, Queued
<1>12. IrqGoingInv'
  BY <1>1, <1>6, <1>9, <1>11, ThingsAre DEF LuxInv, IrqGoingInv
<1>13. ClassInv' /\ KnownInv' /\ TimerInv' /\ OpenInv'
  BY <1>1, <1>6, <1>7 DEF LuxInv, ClassInv, KnownInv, TimerInv, OpenInv, files
<1>14. GoingInv' /\ NullInv'
  BY <1>1, <1>6, <1>7, ThingsAre DEF LuxInv, GoingInv, NullInv
<1>15. KernelTypes' /\ FilesInv'
  BY <1>1, FilesUntouched DEF LuxInv, KernelTypes
<1>16. QED
  BY <1>5, <1>10, <1>12, <1>13, <1>14, <1>15 DEF LuxInv

\* DoUnbound keeps it: all that the driver made is gone.
LEMMA UnboundKeeps == ASSUME LuxInv, DoUnbound PROVE LuxInv'
<1>1. /\ todo # <<>> /\ todo' = Tail(todo) /\ bound' = [bound EXCEPT ![Object] = NoDriver]
      /\ UNCHANGED <<drivers, devices, reg, chip, hw, cpu, files>> /\ Head(todo)[1] = "unbound"
  BY DEF DoUnbound, Doing
<1>2. Sound(todo, reg \cup devices, bound) /\ Head(todo) \in Instrs /\ In(Head(todo), todo)
  BY <1>1, SoundTail DEF LuxInv, Queued
<1>3. PICK d \in Devices : Head(todo) = Unbound(d) /\ Object = d
  BY <1>1, <1>2, Named DEF Object
<1>4. bound' = [bound EXCEPT ![d] = NoDriver]
  BY <1>1, <1>3
<1>5. Queued' /\ NoInit(todo) /\ \A x : In(x, todo') <=> In(x, todo) /\ x # Unbound(d)
  <2>1. Sound(Tail(todo), reg' \cup devices', bound')
    <3>1. Sound(Tail(todo), reg \cup devices, [bound EXCEPT ![d] = NoDriver])
      BY <1>1, <1>2, <1>3, UnboundSound
    <3>2. reg' \cup devices' = reg \cup devices
      BY <1>1
    <3>3. QED
      BY <1>4, <3>1, <3>2
  <2>2. Head(todo) # Get("class") /\ \A l \in Modules : Head(todo) # Register(l)
    BY <1>3, Distinct
  <2>3. QED
    BY <1>1, <1>3, <2>1, <2>2, Popped DEF LuxInv
<1>6. /\ \A e, l : In(Bound(e, l), todo') <=> In(Bound(e, l), todo)
      /\ \A e : In(Unbound(e), todo') <=> In(Unbound(e), todo) /\ e # d
      /\ \A x \in Others : In(x, todo') <=> In(x, todo)
      /\ \A s \in Things : /\ In(Make(s), todo') <=> In(Make(s), todo)
                           /\ In(Unmake(s), todo') <=> In(Unmake(s), todo)
  BY <1>5, Distinct
<1>7. \A x \in {Put("class"), Forget, Mask(Lines), Get("class"), Register("lux-chardev")} :
        In(x, todo') <=> In(x, todo)
  BY <1>6, Distinct, ThingsAre
<1>8. \A e \in Devices : bound'[e] = IF e = d THEN NoDriver ELSE bound[e]
  BY <1>2, <1>4 DEF Sound
<1>9. DriversInv'
  BY <1>1, <1>6, <1>8 DEF LuxInv, DriversInv
<1>10. IrqGoingInv'
  BY <1>1, <1>6, <1>8, ThingsAre DEF LuxInv, IrqGoingInv
<1>11. ASSUME d = "lux-irq" PROVE ~In(Forget, todo) /\ "domain" \notin reg
  <2>1. \A x : In(x, todo) /\ Dev(x) = "lux-irq" => x = Unbound("lux-irq")
    BY <1>1, <1>2, <1>3, <1>11, AfterHead, InstructionsAre
  <2>2. ~In(Forget, todo)
    BY <2>1, OthersDev, Distinct
  <2>3. ~In(Unmake("domain"), todo)
    BY <2>1, InstructionsAre, ThingsAre, Distinct
  <2>4. "domain" \in reg \cup devices <=> In(Unmake("domain"), todo)
    BY <1>2, <1>3, <1>11, ThingsAre DEF Sound, Local, Removed
  <2>5. QED
    BY <2>2, <2>3, <2>4
<1>12. KnownInv'
  BY <1>1, <1>2, <1>3, <1>6, <1>7, <1>11 DEF LuxInv, KnownInv
<1>13. ClassInv' /\ TimerInv' /\ OpenInv'
  BY <1>1, <1>6, <1>7 DEF LuxInv, ClassInv, TimerInv, OpenInv, files
<1>14. GoingInv' /\ NullInv'
  BY <1>1, <1>6, <1>7, ThingsAre DEF LuxInv, GoingInv, NullInv
<1>15. KernelTypes' /\ FilesInv'
  BY <1>1, FilesUntouched DEF LuxInv, KernelTypes
<1>16. QED
  BY <1>5, <1>9, <1>10, <1>12, <1>13, <1>14, <1>15 DEF LuxInv

\* DoAdd keeps it: the new device has no driver yet, or its probe is put in front.
LEMMA AddKeeps == ASSUME LuxInv, DoAdd PROVE LuxInv'
<1>1. /\ todo # <<>> /\ devices' = devices \cup {Object} /\ Head(todo)[1] = "add"
      /\ UNCHANGED <<drivers, bound, reg, chip, hw, cpu, files>>
  BY DEF DoAdd, Doing
<1>2. Sound(todo, reg \cup devices, bound) /\ Head(todo) \in Instrs /\ In(Head(todo), todo)
  BY <1>1, SoundTail DEF LuxInv, Queued
<1>3. PICK t \in Platform : Head(todo) = Make(t) /\ Object = t
  BY <1>1, <1>2, Named DEF Object
<1>4. t \in Things /\ t \in Devices /\ Dev(Head(todo)) = Keeper(t) /\ Keeper(t) \notin Leaves
  BY <1>3, ThingsAre, InstructionsAre
<1>5. /\ \A e, l : ~In(Unbound(e), todo) \/ e \notin Leaves
      /\ ~In(Make("domain"), todo)
  BY <1>4, LeavesRest, InstructionsAre, ThingsAre DEF LuxInv, Queued
<1>6. NoInit(todo)
  BY <1>1, <1>3, <1>4, HeadNoInit, Distinct DEF LuxInv
<1>7. Sound(Tail(todo), reg' \cup devices', bound')
      /\ \A x : In(x, Tail(todo)) <=> In(x, todo) /\ x # Make(t)
  <2>1. (reg \cup devices) \cup {t} = reg' \cup devices'
    BY <1>1, <1>3
  <2>2. Sound(Tail(todo), reg' \cup devices', bound)
    BY <1>1, <1>2, <1>3, <1>4, <2>1, MakeSound
  <2>3. QED
    BY <1>1, <1>2, <1>3, <2>2, SoundTail
<1>8. /\ Queued'
      /\ \A e, l : In(Bound(e, l), todo') => In(Bound(e, l), todo) \/ l \in drivers
      /\ \A e : In(Unbound(e), todo') <=> In(Unbound(e), todo)
      /\ \A s \in Things : In(Unmake(s), todo') <=> In(Unmake(s), todo)
      /\ \A x \in {Put("class"), Forget, Get("class"), Register("lux-chardev")} :
           In(x, todo') <=> In(x, todo)
      /\ In(Make("domain"), todo') => In(Mask(Lines), todo')
  <2>1. CASE DriverFor(t) = {}
    <3>1. todo' = Tail(todo)
      BY <1>3, <2>1 DEF DoAdd
    <3>2. Queued'
      BY <1>1, <1>3, <1>4, <1>7, <3>1, Popped, Distinct DEF LuxInv
    <3>3. /\ \A e, l : In(Bound(e, l), todo') => In(Bound(e, l), todo)
          /\ \A e : In(Unbound(e), todo') <=> In(Unbound(e), todo)
          /\ \A s \in Things : In(Unmake(s), todo') <=> In(Unmake(s), todo)
          /\ \A x \in Others : In(x, todo') <=> In(x, todo)
      BY <1>4, <1>7, <3>1, Distinct
    <3>4. \A x \in {Put("class"), Forget, Get("class"), Register("lux-chardev")} : x \in Others
      BY Distinct, ThingsAre
    <3>5. ~In(Make("domain"), todo')
      BY <1>5, <1>7, <3>1
    <3>6. QED
      BY <3>2, <3>3, <3>4, <3>5
  <2>2. CASE DriverFor(t) # {}
    <3>1. PICK m \in DriverFor(t) : todo' = Bind(t, m) \o Tail(todo)
      BY <1>3, <2>2 DEF DoAdd
    <3>2. m \in drivers /\ m \in Modules /\ t \in DevicesOf(m)
      BY <3>1 DEF DriverFor, LuxInv, KernelTypes
    <3>3. bound[t] = NoDriver
      <4>1. t \notin reg \cup devices
        <5>1. In(Bound(Keeper(t), Driver(t)), todo)
          BY <1>2, <1>3, <1>4, MakeEnds
        <5>2. QED
          BY <1>2, <1>3, <1>4, <5>1, KeepersAre DEF Sound, Local, Probed
      <4>2. QED
        BY <1>2, <4>1 DEF Sound
    <3>4. Clear(t, Tail(todo))
      BY <1>1, <1>2, <1>3, PlatformClear
    <3>5. t \in reg' \cup devices'
      BY <1>1, <1>3
    <3>6. Sound(todo', reg' \cup devices', bound')
      BY <1>1, <1>7, <3>1, <3>2, <3>3, <3>4, <3>5, PushBind
    <3>7. /\ Piece(Bind(t, m), t)
          /\ \A s \in Things : ~In(Unmake(s), Bind(t, m))
          /\ \A s \in Things : In(Make(s), Bind(t, m)) <=> Keeper(s) = t /\ Driver(s) = m
          /\ \A e : ~In(Unbound(e), Bind(t, m))
          /\ \A e, l : In(Bound(e, l), Bind(t, m)) => e = t /\ l = m
          /\ \A x \in Others : In(x, Bind(t, m)) <=> t = "lux-irq" /\ x \in {Mask(Lines), Mask({})}
      BY <3>2, BindIs
    <3>8. Tail(todo) \in Seq(Instrs) /\ \A e \in Leaves : AtRest(e, Tail(todo))
      <4>1. \A e \in Leaves : AtRest(e, todo)
        BY <1>4, LeavesRest DEF LuxInv, Queued
      <4>2. QED
        BY <1>1, <1>2, <4>1, SoundTail, ThingsAre
    <3>9. \A x : In(x, todo') <=> In(x, Bind(t, m)) \/ (In(x, todo) /\ x # Make(t))
      <4>1. \A x : In(x, todo') <=> In(x, Bind(t, m)) \/ In(x, Tail(todo))
        BY <3>1, <3>7, <3>8, InConcat DEF Piece
      <4>2. QED
        BY <1>7, <4>1
    <3>10. LeavesFirst'
      BY <3>1, <3>7, <3>8, PushesLeaves
    <3>11. NoInit(todo')
      <4>1. \A x \in {Get("class")} \cup {Register(l) : l \in Modules} :
              x \in Others /\ x \notin {Mask(Lines), Mask({})}
        BY Distinct
      <4>2. QED
        BY <1>6, <3>7, <3>9, <4>1 DEF NoInit
    <3>12. Queued'
      BY <3>6, <3>10, <3>11, NoInitAlone DEF Queued
    <3>13. \A x \in {Put("class"), Forget, Get("class"), Register("lux-chardev")} :
             x \in Others /\ x \notin {Mask(Lines), Mask({})} /\ x # Make(t)
      BY <1>4, Distinct, ThingsAre
    <3>14. \A x \in {Put("class"), Forget, Get("class"), Register("lux-chardev")} :
             In(x, todo') <=> In(x, todo)
      BY <3>7, <3>9, <3>13
    <3>15. In(Make("domain"), todo') => In(Mask(Lines), todo')
      <4>1. In(Make("domain"), todo') => t = "lux-irq"
        BY <1>5, <3>7, <3>9, ThingsAre
      <4>2. QED
        BY <3>7, <3>9, <4>1, Distinct
    <3>16. /\ \A e, l : In(Bound(e, l), todo') => In(Bound(e, l), todo) \/ l \in drivers
           /\ \A e : In(Unbound(e), todo') <=> In(Unbound(e), todo)
           /\ \A s \in Things : In(Unmake(s), todo') <=> In(Unmake(s), todo)
      BY <1>4, <3>2, <3>7, <3>9, Distinct
    <3>17. QED
      BY <3>12, <3>14, <3>15, <3>16
  <2>3. QED
    BY <2>1, <2>2
<1>9. DriversInv'
  BY <1>1, <1>8 DEF LuxInv, DriversInv
<1>10. ClassInv' /\ KnownInv' /\ IrqGoingInv' /\ TimerInv'
  BY <1>1, <1>8 DEF LuxInv, ClassInv, KnownInv, IrqGoingInv, TimerInv
<1>11. GoingInv'
  BY <1>1, <1>8, ThingsAre DEF LuxInv, GoingInv
<1>12. OpenInv'
  BY <1>1 DEF LuxInv, OpenInv, files
<1>13. NullInv'
  BY <1>1, <1>5, <1>8 DEF LuxInv, NullInv
<1>14. KernelTypes' /\ FilesInv'
  BY <1>1, <1>3, <1>4, FilesUntouched DEF LuxInv, KernelTypes
<1>15. QED
  BY <1>8, <1>9, <1>10, <1>11, <1>12, <1>13, <1>14 DEF LuxInv

\* DoDel keeps it: a device with a driver loses it first.
LEMMA DelKeeps == ASSUME LuxInv, DoDel PROVE LuxInv'
<1>1. /\ todo # <<>> /\ Head(todo)[1] = "del" /\ UNCHANGED <<drivers, bound, reg, chip, hw, cpu, files>>
  BY DEF DoDel, Doing
<1>2. Sound(todo, reg \cup devices, bound) /\ Head(todo) \in Instrs /\ In(Head(todo), todo)
  BY <1>1, SoundTail DEF LuxInv, Queued
<1>3. PICK t \in Platform : Head(todo) = Unmake(t) /\ Object = t
  BY <1>1, <1>2, Named DEF Object
<1>4. t \in Things /\ t \in Devices /\ Dev(Head(todo)) = Keeper(t) /\ Keeper(t) \notin Leaves
      /\ In(Unmake(t), todo)
  BY <1>2, <1>3, ThingsAre, InstructionsAre
<1>5. /\ \A e \in Leaves : AtRest(e, todo) /\ ~In(Unbound(e), todo)
      /\ ~In(Make("domain"), todo)
  BY <1>4, LeavesRest, InstructionsAre, ThingsAre DEF LuxInv, Queued
<1>6. Head(todo) # Get("class") /\ (\A m \in Modules : Head(todo) # Register(m)) /\ NoInit(todo)
  <2>1. Head(todo) # Get("class") /\ \A m \in Modules : Head(todo) # Register(m)
    BY <1>3, <1>4, Distinct
  <2>2. QED
    BY <1>1, <2>1, HeadNoInit DEF LuxInv
<1>7. CASE bound[t] = NoDriver
  <2>1. todo' = Tail(todo) /\ devices' = devices \ {t}
    BY <1>3, <1>7 DEF DoDel
  <2>2. Sound(Tail(todo), reg' \cup devices', bound')
    <3>1. t \notin reg
      BY ThingsAre DEF LuxInv, KernelTypes
    <3>2. (reg \cup devices) \ {t} = reg' \cup devices'
      BY <1>1, <2>1, <3>1
    <3>3. Sound(Tail(todo), (reg \cup devices) \ {t}, bound)
      BY <1>1, <1>2, <1>3, <1>4, <1>7, UnmakeSound
    <3>4. QED
      BY <1>1, <3>2, <3>3
  <2>3. Queued' /\ \A x : In(x, todo') <=> In(x, todo) /\ x # Unmake(t)
    BY <1>1, <1>3, <1>6, <2>1, <2>2, Popped DEF LuxInv
  <2>4. /\ \A e, l : In(Bound(e, l), todo') => In(Bound(e, l), todo)
        /\ \A e : In(Unbound(e), todo') <=> In(Unbound(e), todo)
        /\ \A x \in Others : In(x, todo') <=> In(x, todo)
        /\ \A s \in Things : /\ In(Make(s), todo') <=> In(Make(s), todo)
                             /\ In(Unmake(s), todo') => In(Unmake(s), todo)
    BY <1>4, <2>3, Distinct
  <2>5. \A x \in {Put("class"), Forget, Mask(Lines), Get("class"), Register("lux-chardev")} :
          In(x, todo') <=> In(x, todo)
    BY <2>4, Distinct, ThingsAre
  <2>6. DriversInv'
    BY <1>1, <2>4 DEF LuxInv, DriversInv
  <2>7. ClassInv' /\ KnownInv' /\ IrqGoingInv' /\ TimerInv'
    BY <1>1, <2>4, <2>5 DEF LuxInv, ClassInv, KnownInv, IrqGoingInv, TimerInv
  <2>8. GoingInv' /\ NullInv'
    BY <1>1, <2>4, <2>5, ThingsAre DEF LuxInv, GoingInv, NullInv
  <2>9. OpenInv'
    <3>1. t = "lux-chardev" => "lux-core" \notin drivers
      BY <1>4 DEF LuxInv, GoingInv
    <3>2. QED
      BY <1>1, <2>1, <3>1 DEF LuxInv, OpenInv, files
  <2>10. KernelTypes' /\ FilesInv'
    BY <1>1, <2>1, FilesUntouched DEF LuxInv, KernelTypes
  <2>11. QED
    BY <2>3, <2>6, <2>7, <2>8, <2>9, <2>10 DEF LuxInv
<1>8. CASE bound[t] # NoDriver
  <2>1. todo' = Strip(t, bound[t]) \o todo /\ devices' = devices
    BY <1>3, <1>8 DEF DoDel, Unbind, Strip
  <2>2. PICK m \in Modules : m = bound[t] /\ t \in DevicesOf(m)
    BY <1>2, <1>4, <1>8 DEF Sound
  <2>3. Clear(t, todo)
    BY <1>1, <1>2, <1>3, PlatformClear
  <2>4. Sound(todo', reg' \cup devices', bound')
    <3>1. Sound(Strip(t, bound[t]) \o todo, reg \cup devices, bound)
      BY <1>2, <1>4, <1>8, <2>3, PushStrip
    <3>2. QED
      BY <1>1, <2>1, <3>1
  <2>5. /\ Piece(Strip(t, m), t) /\ In(Unbound(t), Strip(t, m))
        /\ \A s \in Things : ~In(Make(s), Strip(t, m))
        /\ \A s \in Things : In(Unmake(s), Strip(t, m)) <=> Keeper(s) = t /\ Driver(s) = m
        /\ \A e : In(Unbound(e), Strip(t, m)) => e = t
        /\ \A e, l : ~In(Bound(e, l), Strip(t, m))
        /\ \A x \in Others : In(x, Strip(t, m)) <=>
             t = "lux-irq" /\ x \in {Forget, Mask({}), Put("handler")}
    BY <2>2, StripIs
  <2>6. \A x : In(x, todo') <=> In(x, Strip(t, m)) \/ In(x, todo)
    BY <1>2, <2>1, <2>2, <2>5, InConcat DEF Piece, Sound
  <2>7. Queued'
    <3>1. LeavesFirst'
      BY <1>2, <1>5, <2>1, <2>2, <2>5, PushesLeaves DEF Sound
    <3>2. \A x \in {Get("class")} \cup {Register(l) : l \in Modules} :
            x \in Others /\ x \notin {Forget, Mask({}), Put("handler")}
      BY Distinct
    <3>3. NoInit(todo')
      BY <1>6, <2>5, <2>6, <3>2 DEF NoInit
    <3>4. QED
      BY <2>4, <3>1, <3>3, NoInitAlone DEF Queued
  <2>8. /\ \A e, l : In(Bound(e, l), todo') <=> In(Bound(e, l), todo)
        /\ \A e : In(Unbound(e), todo') <=> In(Unbound(e), todo) \/ e = t
        /\ \A s \in Things : In(Make(s), todo') <=> In(Make(s), todo)
    BY <2>5, <2>6
  <2>9. \A x \in {Put("class"), Mask(Lines), Get("class"), Register("lux-chardev")} :
          In(x, todo') <=> In(x, todo)
    <3>1. \A x \in {Put("class"), Mask(Lines), Get("class"), Register("lux-chardev")} :
            x \in Others /\ x \notin {Forget, Mask({}), Put("handler")}
      BY Distinct, ThingsAre
    <3>2. QED
      BY <2>5, <2>6, <3>1
  <2>10. DriversInv'
    BY <1>1, <2>8 DEF LuxInv, DriversInv
  <2>11. ClassInv'
    <3>1. t = "lux-chardev" => "lux-chardev" \in drivers
      <4>1. t = "lux-chardev" => m = "lux-chardev"
        BY <2>2 DEF DevicesOf, PlatformDevice
      <4>2. t = "lux-chardev" => ~In(Unbound(t), todo)
        BY <1>5, ThingsAre
      <4>3. QED
        BY <1>4, <1>8, <2>2, <4>1, <4>2 DEF LuxInv, DriversInv
    <3>2. QED
      BY <1>1, <2>8, <2>9, <3>1 DEF LuxInv, ClassInv
  <2>12. GoingInv'
    <3>1. t # "f0" /\ t # "f1"
      BY DEF Platform
    <3>2. In(Unmake("lux-chardev"), todo') <=> In(Unmake("lux-chardev"), todo)
      BY <2>5, <2>6, <3>1, ThingsAre
    <3>3. In(Unmake("lux-irq"), todo') <=> In(Unmake("lux-irq"), todo)
      BY <2>5, <2>6, <3>1, ThingsAre
    <3>4. QED
      BY <1>1, <3>2, <3>3 DEF LuxInv, GoingInv
  <2>13. KnownInv'
    <3>1. ~In(Unbound("lux-irq"), todo)
      BY <1>5, ThingsAre
    <3>2. In(Unbound("lux-irq"), todo') => In(Forget, todo')
      BY <2>5, <2>6, <2>8, <3>1, Distinct
    <3>3. QED
      BY <1>1, <3>1, <3>2 DEF LuxInv, KnownInv
  <2>14. IrqGoingInv'
    <3>1. ~In(Unbound("lux-irq"), todo)
      BY <1>5, ThingsAre
    <3>2. ASSUME t = "lux-irq" PROVE bound["lux-timer"] = NoDriver /\ "lux-core" \notin drivers
      <4>1. MustFollow(Unmake("lux-timer"), Unmake("lux-irq"))
        BY DEF MustFollow
      <4>2. ~In(Unmake("lux-timer"), todo)
        BY <1>1, <1>2, <1>3, <3>2, <4>1, AfterHead
      <4>3. In(Unbound("f1"), todo)
        BY <1>2, <1>4, <3>2, UnmakeEnds, ThingsAre
      <4>4. "lux-timer" \notin reg \cup devices
        BY <1>2, <4>2, <4>3, ThingsAre, DevicesAre DEF Sound, Local, Removed
      <4>5. bound["lux-timer"] = NoDriver
        BY <1>2, <4>4, ThingsAre DEF Sound
      <4>6. QED
        BY <1>4, <3>2, <4>5 DEF LuxInv, GoingInv
    <3>3. QED
      BY <1>1, <2>8, <3>1, <3>2 DEF IrqGoingInv
  <2>15. TimerInv' /\ OpenInv'
    BY <1>1, <2>1 DEF LuxInv, TimerInv, OpenInv, files
  <2>16. NullInv'
    BY <1>1, <1>5, <2>8, ThingsAre DEF LuxInv, NullInv
  <2>17. KernelTypes' /\ FilesInv'
    BY <1>1, <2>1, FilesUntouched DEF LuxInv, KernelTypes
  <2>18. QED
    BY <2>7, <2>10, <2>11, <2>12, <2>13, <2>14, <2>15, <2>16, <2>17 DEF LuxInv
<1>9. QED
  BY <1>7, <1>8

\* Putting nothing in front, or behind, changes nothing.
LEMMA EmptyConcat ==
  ASSUME NEW q \in Seq(Instrs) PROVE <<>> \o q = q /\ q \o <<>> = q
  OBVIOUS

\* What registering m, or unregistering it, has to do for m's devices.
LEMMA BindAllIs ==
  ASSUME NEW m \in Modules, NEW H, Sound(<<>>, H, bound), devices \subseteq H, devices \subseteq Devices
  PROVE  /\ Sound(BindAll(m), H, bound)
         /\ \A x : In(x, BindAll(m)) <=>
              \E d \in DevicesOf(m) : d \in devices /\ bound[d] = NoDriver /\ In(x, Bind(d, m))
         /\ \A e \in Leaves : AtRest(e, BindAll(m)) \/ Dev(Head(BindAll(m))) = e
<1>1. \A x : ~In(x, <<>>)
  BY EmptyHas
<1>2. ASSUME NEW d \in DevicesOf(m), NEW q, Sound(q, H, bound), Clear(d, q)
      PROVE  /\ Sound(BindFree(d, m) \o q, H, bound)
             /\ \A x : In(x, BindFree(d, m) \o q) <=>
                  In(x, q) \/ (d \in devices /\ bound[d] = NoDriver /\ In(x, Bind(d, m)))
             /\ BindFree(d, m) \in Seq(Instrs) /\ \A x : In(x, BindFree(d, m)) => Dev(x) = d
             /\ BindFree(d, m) # <<>> => Dev(Head(BindFree(d, m) \o q)) = d
  <2>1. q \in Seq(Instrs)
    BY <1>2 DEF Sound
  <2>2. CASE ~(d \in devices /\ bound[d] = NoDriver)
    <3>1. BindFree(d, m) = <<>>
      BY <2>2 DEF BindFree
    <3>2. <<>> \o q = q /\ <<>> \in Seq(Instrs)
      BY <2>1, EmptyConcat
    <3>3. QED
      BY <1>1, <1>2, <2>2, <3>1, <3>2
  <2>3. CASE d \in devices /\ bound[d] = NoDriver
    <3>1. BindFree(d, m) = Bind(d, m)
      BY <2>3 DEF BindFree
    <3>2. Piece(Bind(d, m), d)
      BY <1>2, BindIs
    <3>3. Sound(Bind(d, m) \o q, H, bound)
      BY <1>2, <2>3, PushBind
    <3>4. \A x : In(x, Bind(d, m) \o q) <=> In(x, Bind(d, m)) \/ In(x, q)
      BY <2>1, <3>2, InConcat DEF Piece
    <3>5. \A x : In(x, Bind(d, m)) => Dev(x) = d
      BY <3>2 DEF Piece, In
    <3>6. Head(Bind(d, m) \o q) = Bind(d, m)[1] /\ 1 \in DOMAIN Bind(d, m)
      BY <2>1, <3>2 DEF Piece
    <3>7. Dev(Head(Bind(d, m) \o q)) = d
      BY <3>2, <3>6 DEF Piece
    <3>8. QED
      BY <2>3, <3>1, <3>2, <3>3, <3>4, <3>5, <3>7 DEF Piece
  <2>4. QED
    BY <2>2, <2>3
<1>3. ASSUME NEW d \in DevicesOf(m)
      PROVE  /\ Sound(BindFree(d, m), H, bound)
             /\ \A x : In(x, BindFree(d, m)) <=>
                  d \in devices /\ bound[d] = NoDriver /\ In(x, Bind(d, m))
             /\ BindFree(d, m) \in Seq(Instrs) /\ \A x : In(x, BindFree(d, m)) => Dev(x) = d
             /\ BindFree(d, m) # <<>> => Dev(Head(BindFree(d, m))) = d
  <2>1. PICK q : q = <<>>
    OBVIOUS
  <2>2. Sound(q, H, bound) /\ Clear(d, q) /\ \A x : ~In(x, q)
    BY <2>1, EmptyHas
  <2>3. BindFree(d, m) \in Seq(Instrs)
    BY <1>2, <1>3, <2>2
  <2>4. BindFree(d, m) \o q = BindFree(d, m)
    BY <2>1, <2>3, EmptyConcat
  <2>5. /\ Sound(BindFree(d, m) \o q, H, bound)
        /\ \A x : In(x, BindFree(d, m) \o q) <=>
             d \in devices /\ bound[d] = NoDriver /\ In(x, Bind(d, m))
        /\ \A x : In(x, BindFree(d, m)) => Dev(x) = d
        /\ BindFree(d, m) # <<>> => Dev(Head(BindFree(d, m) \o q)) = d
    BY <1>2, <1>3, <2>2
  <2>6. QED
    BY <2>3, <2>4, <2>5
<1>4. CASE m # "lux-core"
  <2>1. DevicesOf(m) = {PlatformDevice(m)} /\ BindAll(m) = BindFree(PlatformDevice(m), m)
    BY <1>4 DEF DevicesOf, BindAll
  <2>2. PICK d : d = PlatformDevice(m)
    OBVIOUS
  <2>5. /\ Sound(BindFree(d, m), H, bound)
        /\ \A x : In(x, BindFree(d, m)) <=>
             d \in devices /\ bound[d] = NoDriver /\ In(x, Bind(d, m))
        /\ \A x : In(x, BindFree(d, m)) => Dev(x) = d
        /\ BindFree(d, m) # <<>> => Dev(Head(BindFree(d, m))) = d
    BY <1>3, <2>1, <2>2
  <2>6. \A e : e # d => AtRest(e, BindFree(d, m))
    BY <2>5 DEF AtRest, In
  <2>7. BindFree(d, m) = <<>> => AtRest(d, BindFree(d, m))
    BY DEF AtRest
  <2>8. QED
    BY <2>1, <2>2, <2>5, <2>6, <2>7
<1>5. CASE m = "lux-core"
  <2>1. DevicesOf(m) = {"f0", "f1"} /\ BindAll(m) = BindFree("f0", m) \o BindFree("f1", m)
    BY <1>5 DEF DevicesOf, BindAll
  <2>2. BindFree("f1", m) \in Seq(Instrs)
    BY <1>3, <2>1
  <2>4. /\ Sound(BindFree("f1", m), H, bound)
        /\ \A x : In(x, BindFree("f1", m)) <=>
             "f1" \in devices /\ bound["f1"] = NoDriver /\ In(x, Bind("f1", m))
        /\ \A x : In(x, BindFree("f1", m)) => Dev(x) = "f1"
    BY <1>3, <2>1
  <2>5. Clear("f0", BindFree("f1", m))
    <3>1. ~Above("f0", "f1")
      BY DEF Above
    <3>2. QED
      BY <2>4, <3>1 DEF Clear, In
  <2>6. /\ Sound(BindFree("f0", m) \o BindFree("f1", m), H, bound)
        /\ \A x : In(x, BindFree("f0", m) \o BindFree("f1", m)) <=>
             \/ In(x, BindFree("f1", m))
             \/ "f0" \in devices /\ bound["f0"] = NoDriver /\ In(x, Bind("f0", m))
        /\ BindFree("f0", m) \in Seq(Instrs) /\ \A x : In(x, BindFree("f0", m)) => Dev(x) = "f0"
    BY <1>2, <2>1, <2>4, <2>5
  <2>7. \A e \in Leaves : AtRest(e, BindFree("f0", m) \o BindFree("f1", m))
    <3>1. \A x : In(x, BindFree("f0", m) \o BindFree("f1", m)) => Dev(x) \in {"f0", "f1"}
      BY <2>2, <2>4, <2>6, InConcat
    <3>2. QED
      BY <3>1, ThingsAre DEF AtRest, In
  <2>8. QED
    BY <2>1, <2>4, <2>6, <2>7
<1>6. QED
  BY <1>4, <1>5

\* DoRegister keeps it: the devices there are are probed one after another.
LEMMA RegisterKeeps == ASSUME LuxInv, DoRegister PROVE LuxInv'
<1>1. /\ todo # <<>> /\ drivers' = drivers \cup {Object} /\ todo' = BindAll(Object)
      /\ Head(todo)[1] = "register" /\ UNCHANGED <<devices, bound, reg, chip, hw, cpu, files>>
  BY DEF DoRegister, Doing
<1>2. Sound(todo, reg \cup devices, bound) /\ Head(todo) \in Instrs /\ In(Head(todo), todo)
  BY <1>1, SoundTail DEF LuxInv, Queued
<1>3. PICK m \in Modules : Head(todo) = Register(m) /\ Object = m
  BY <1>1, <1>2, Named DEF Object
<1>4. todo = <<Register(m)>> /\ m \notin drivers
  <2>1. Head(todo) # Get("class")
    BY <1>3, Distinct
  <2>2. \A x, y : Head(<<x, y>>) = x
    OBVIOUS
  <2>3. QED
    BY <1>2, <1>3, <2>1, <2>2 DEF LuxInv, Queued, InitAlone
<1>5. Tail(todo) = <<>> /\ \A x : In(x, todo) <=> x = Register(m)
  BY <1>4, FewHave
<1>6. Sound(<<>>, reg \cup devices, bound)
  <2>1. Sound(Tail(todo), reg \cup devices, bound)
    BY <1>1, <1>2, <1>3, OtherSound, Distinct
  <2>2. QED
    BY <1>5, <2>1
<1>7. /\ Sound(todo', reg \cup devices, bound)
      /\ \A x : In(x, todo') <=>
           \E d \in DevicesOf(m) : d \in devices /\ bound[d] = NoDriver /\ In(x, Bind(d, m))
      /\ \A e \in Leaves : AtRest(e, todo') \/ Dev(Head(todo')) = e
  <2>1. devices \subseteq Devices /\ devices \subseteq reg \cup devices
    BY DEF LuxInv, KernelTypes
  <2>2. BindAll(m) = todo'
    BY <1>1, <1>3
  <2>3. QED
    BY <1>6, <2>1, <2>2, BindAllIs
<1>8. /\ \A t \in Things : ~In(Unmake(t), todo')
      /\ \A e : ~In(Unbound(e), todo')
      /\ \A e, l : In(Bound(e, l), todo') => l = m
      /\ \A x \in Others : In(x, todo') => x \in {Mask(Lines), Mask({})}
      /\ In(Make("domain"), todo') => In(Mask(Lines), todo')
  <2>1. /\ \A t \in Things : ~In(Unmake(t), todo')
        /\ \A e : ~In(Unbound(e), todo')
        /\ \A e, l : In(Bound(e, l), todo') => l = m
        /\ \A x \in Others : In(x, todo') => x \in {Mask(Lines), Mask({})}
    BY <1>7, BindIs
  <2>2. ASSUME In(Make("domain"), todo') PROVE In(Mask(Lines), todo')
    <3>1. PICK d \in DevicesOf(m) : d \in devices /\ bound[d] = NoDriver /\ In(Make("domain"), Bind(d, m))
      BY <1>7, <2>2
    <3>2. d = "lux-irq"
      BY <3>1, BindIs, ThingsAre
    <3>3. In(Mask(Lines), Bind(d, m))
      BY <3>1, <3>2, BindIs, Distinct
    <3>4. QED
      BY <1>7, <3>1, <3>3
  <2>3. QED
    BY <2>1, <2>2
<1>9. /\ \A e, l : ~In(Bound(e, l), todo) /\ ~In(Unbound(e), todo)
      /\ \A s \in Things : ~In(Make(s), todo) /\ ~In(Unmake(s), todo)
      /\ \A x \in Others : In(x, todo) <=> x = Register(m)
  BY <1>5, Distinct
<1>10. NoInit(todo') /\ Queued'
  <2>1. \A x \in {Get("class")} \cup {Register(l) : l \in Modules} :
          x \in Others /\ x \notin {Mask(Lines), Mask({})}
    BY Distinct
  <2>2. NoInit(todo')
    BY <1>8, <2>1 DEF NoInit
  <2>3. Sound(todo', reg' \cup devices', bound')
    BY <1>1, <1>7
  <2>4. LeavesFirst'
    BY <1>7 DEF LeavesFirst
  <2>5. QED
    BY <2>2, <2>3, <2>4, NoInitAlone DEF Queued
<1>11. KernelTypes' /\ FilesInv'
  BY <1>1, <1>3, FilesUntouched DEF LuxInv, KernelTypes
<1>12. DriversInv'
  BY <1>1, <1>3, <1>8, <1>9 DEF LuxInv, DriversInv
<1>13. ClassInv'
  <2>1. \A l : Register(l) = Register(m) <=> l = m
    BY DEF Register
  <2>2. ~In(Put("class"), todo) /\ ~In(Get("class"), todo)
        /\ (In(Register("lux-chardev"), todo) <=> m = "lux-chardev")
    BY <1>5, <2>1, Distinct
  <2>3. ~In(Put("class"), todo') /\ ~In(Register("lux-chardev"), todo')
    BY <1>8, <1>10, Distinct, ThingsAre DEF NoInit
  <2>4. QED
    BY <1>1, <1>3, <1>8, <2>2, <2>3 DEF LuxInv, ClassInv
<1>14. GoingInv' /\ IrqGoingInv'
  BY <1>8, ThingsAre DEF GoingInv, IrqGoingInv
<1>15. KnownInv' /\ TimerInv'
  BY <1>1, <1>8, <1>9 DEF LuxInv, KnownInv, TimerInv
<1>16. OpenInv'
  BY <1>1 DEF LuxInv, OpenInv, files
<1>17. NullInv'
  BY <1>1, <1>8, <1>9, ThingsAre DEF LuxInv, NullInv
<1>18. QED
  BY <1>10, <1>11, <1>12, <1>13, <1>14, <1>15, <1>16, <1>17 DEF LuxInv

\* Insmod keeps it.
LEMMA InsmodKeeps == ASSUME LuxInv, NEW m \in Modules, Insmod(m) PROVE LuxInv'
<1>1. /\ todo = <<>> /\ m \notin drivers /\ todo' = InitOf(m)
      /\ UNCHANGED <<drivers, devices, bound, reg, chip, hw, cpu, files>>
  BY DEF Insmod
<1>2. /\ \A x : In(x, todo') <=> x = Register(m) \/ (m = "lux-chardev" /\ x = Get("class"))
      /\ m # "lux-chardev" => todo' = <<Register(m)>>
      /\ m = "lux-chardev" => todo' = <<Get("class"), Register(m)>>
      /\ \A x : ~In(x, todo)
  <2>1. m # "lux-chardev" => todo' = <<Register(m)>>
    BY <1>1 DEF InitOf
  <2>2. m = "lux-chardev" => todo' = <<Get("class"), Register(m)>>
    BY <1>1 DEF InitOf
  <2>3. \A x : ~In(x, todo)
    BY <1>1, EmptyHas
  <2>4. QED
    BY <2>1, <2>2, <2>3, FewHave
<1>3. /\ \A e, l : ~In(Bound(e, l), todo') /\ ~In(Unbound(e), todo')
      /\ \A s \in Things : ~In(Make(s), todo') /\ ~In(Unmake(s), todo')
      /\ ~In(Put("class"), todo')
  BY <1>2, Distinct
<1>4. Register(m) \in Instrs /\ Get("class") \in Instrs
  BY Distinct, OthersDev
<1>5. /\ Dev(Register(m)) = "init" /\ Dev(Get("class")) = "init" /\ Get("class") # Register(m)
      /\ End(Register(m)) /\ ~End(Get("class")) /\ \A d : ~Above("init", d)
      /\ \A y : ~MustFollow(Register(m), y) /\ ~MustFollow(Get("class"), y)
  <2>1. Get("class") # Register(m) /\ Dev(Register(m)) = "init" /\ Dev(Get("class")) = "init"
    BY Distinct, OthersDev
  <2>2. End(Register(m)) /\ ~End(Get("class")) /\ \A d : ~Above("init", d)
    BY DEF End, Register, Get, Put, Above
  <2>3. Register(m) \in Others /\ Get("class") \in Others
        /\ Register(m) \notin {Forget, Mask(Lines), Mask({})}
        /\ Get("class") \notin {Forget, Mask(Lines), Mask({})}
    BY Distinct
  <2>4. {"vector", "domain", "mappings", "lux-timer"} \subseteq Things
    BY ThingsAre
  <2>5. \A y : ~MustFollow(Register(m), y) /\ ~MustFollow(Get("class"), y)
    BY <2>3, <2>4, OthersAre DEF MustFollow
  <2>6. QED
    BY <2>1, <2>2, <2>5
<1>6. todo' \in Seq(Instrs) /\ Tidy(todo') /\ \A i \in DOMAIN todo' : Dev(todo'[i]) = "init"
  <2>1. PICK q : q = todo'
    OBVIOUS
  <2>2. CASE m # "lux-chardev"
    <3>1. q = <<Register(m)>>
      BY <1>2, <2>1, <2>2
    <3>2. q \in Seq(Instrs) /\ Len(q) = 1 /\ q[1] = Register(m) /\ DOMAIN q = {1}
      BY <1>4, <3>1
    <3>3. Whole(q) /\ Following(q) /\ Apart(q)
      BY <1>5, <3>2 DEF Whole, Following, Apart
    <3>4. QED
      BY <1>5, <2>1, <3>2, <3>3 DEF Tidy
  <2>3. CASE m = "lux-chardev"
    <3>1. q = <<Get("class"), Register(m)>>
      BY <1>2, <2>1, <2>3
    <3>2. q \in Seq(Instrs) /\ q[1] = Get("class") /\ q[2] = Register(m) /\ DOMAIN q = {1, 2}
      BY <1>4, <3>1
    <3>3. Whole(q)
      BY <1>5, <3>2 DEF Whole
    <3>4. Following(q)
      BY <1>5, <3>2 DEF Following
    <3>5. Apart(q)
      <4>1. MayFollow(Get("class"), Register(m))
        BY <1>5 DEF MayFollow
      <4>2. \A i, j \in {1, 2} : i < j => i = 1 /\ j = 2
        OBVIOUS
      <4>3. QED
        BY <3>2, <4>1, <4>2 DEF Apart
    <3>6. QED
      BY <1>5, <2>1, <3>2, <3>3, <3>4, <3>5 DEF Tidy
  <2>4. QED
    BY <2>2, <2>3
<1>7. Queued'
  <2>1. Sound(<<>>, reg \cup devices, bound)
    BY <1>1 DEF LuxInv, Queued
  <2>2. Sound(todo', reg \cup devices, bound)
    BY <1>6, <2>1, InitSound
  <2>3. Sound(todo', reg' \cup devices', bound')
    BY <1>1, <2>2
  <2>4. LeavesFirst'
    BY <1>6, OthersDev, ThingsAre DEF LeavesFirst, AtRest
  <2>5. \A l : Register(l) = Register(m) => l = m
    BY DEF Register
  <2>6. InitAlone'
    BY <1>1, <1>2, <2>5, Distinct DEF InitAlone
  <2>7. QED
    BY <2>3, <2>4, <2>6 DEF Queued
<1>8. KernelTypes' /\ FilesInv'
  BY <1>1, FilesUntouched DEF LuxInv, KernelTypes
<1>9. DriversInv'
  BY <1>1, <1>2, <1>3 DEF LuxInv, DriversInv
<1>10. ClassInv'
  <2>1. \A l : Register(l) = Register(m) => l = m
    BY DEF Register
  <2>2. In(Register("lux-chardev"), todo') => In(Get("class"), todo')
    BY <1>2, <2>1, Distinct, ThingsAre
  <2>3. QED
    BY <1>1, <1>2, <1>3, <2>2 DEF LuxInv, ClassInv
<1>11. GoingInv' /\ IrqGoingInv' /\ KnownInv' /\ TimerInv'
  BY <1>1, <1>2, <1>3, ThingsAre DEF LuxInv, GoingInv, IrqGoingInv, KnownInv, TimerInv
<1>12. OpenInv'
  BY <1>1 DEF LuxInv, OpenInv, files
<1>13. NullInv'
  BY <1>1, <1>2, <1>3, ThingsAre DEF LuxInv, NullInv
<1>14. QED
  BY <1>7, <1>8, <1>9, <1>10, <1>11, <1>12, <1>13 DEF LuxInv

\* A module's exit is sound when there is nothing else to do.
LEMMA ExitSound ==
  ASSUME NEW m \in Modules, NEW H, NEW b, Sound(<<>>, H, b)
  PROVE  /\ Sound(ExitOf(m), H, b)
         /\ \A x : In(x, ExitOf(m)) <=> m = "lux-chardev" /\ x = Put("class")
         /\ \A d \in Devices : Clear(d, ExitOf(m))
<1>1. CASE m # "lux-chardev"
  <2>1. ExitOf(m) = <<>>
    BY <1>1 DEF ExitOf
  <2>2. QED
    BY <1>1, <2>1, EmptyHas
<1>2. CASE m = "lux-chardev"
  <2>1. PICK q : q = <<Put("class")>>
    OBVIOUS
  <2>2. ExitOf(m) = q
    BY <1>2, <2>1 DEF ExitOf
  <2>3. Dev(Put("class")) = "init" /\ Put("class") \in Instrs /\ "init" \notin Devices
    BY OthersDev, Distinct
  <2>4. q \in Seq(Instrs) /\ Len(q) = 1 /\ q[1] = Put("class") /\ DOMAIN q = {1}
    BY <2>1, <2>3
  <2>5. End(Put("class")) /\ \A d : ~Above(d, "init")
    BY DEF End, Above
  <2>6. \A y : ~MustFollow(Put("class"), y)
    <3>1. Put("class") \in Others /\ Put("class") \notin {Forget, Mask(Lines)}
      BY Distinct
    <3>2. {"vector", "domain", "mappings", "lux-timer"} \subseteq Things
      BY ThingsAre
    <3>3. QED
      BY <3>1, <3>2, OthersAre DEF MustFollow
  <2>7. Whole(q) /\ Following(q) /\ Apart(q)
    BY <2>4, <2>5, <2>6 DEF Whole, Following, Apart
  <2>8. Sound(q, H, b)
    BY <2>3, <2>4, <2>7, InitSound DEF Tidy
  <2>9. \A x : In(x, q) <=> x = Put("class")
    BY <2>4 DEF In
  <2>10. \A d \in Devices : Clear(d, q)
    BY <2>3, <2>4, <2>5 DEF Clear
  <2>11. QED
    BY <1>2, <2>2, <2>8, <2>9, <2>10
<1>3. QED
  BY <1>1, <1>2

\* Unregistering a driver strips each of its devices.
LEMMA UnbindAllIs ==
  ASSUME NEW m \in Modules, NEW H, Sound(<<>>, H, bound)
  PROVE  /\ Sound(UnbindAll(m) \o ExitOf(m), H, bound)
         /\ \A x : In(x, UnbindAll(m) \o ExitOf(m)) <=>
              \/ m = "lux-chardev" /\ x = Put("class")
              \/ \E d \in DevicesOf(m) : bound[d] = m /\ In(x, Strip(d, m))
         /\ \A e \in Leaves : \/ AtRest(e, UnbindAll(m) \o ExitOf(m))
                              \/ Dev(Head(UnbindAll(m) \o ExitOf(m))) = e
<1>1. \A x : ~In(x, <<>>)
  BY EmptyHas
<1>2. ASSUME NEW d \in DevicesOf(m), NEW q, Sound(q, H, bound), Clear(d, q)
      PROVE  /\ Sound(UnbindOwn(d, m) \o q, H, bound)
             /\ \A x : In(x, UnbindOwn(d, m) \o q) <=>
                  In(x, q) \/ (bound[d] = m /\ In(x, Strip(d, m)))
             /\ UnbindOwn(d, m) \in Seq(Instrs) /\ \A x : In(x, UnbindOwn(d, m)) => Dev(x) = d
             /\ UnbindOwn(d, m) # <<>> => Dev(Head(UnbindOwn(d, m) \o q)) = d
  <2>1. q \in Seq(Instrs) /\ d \in Devices
    BY <1>2, BindIs DEF Sound
  <2>2. CASE bound[d] # m
    <3>1. UnbindOwn(d, m) = <<>>
      BY <2>2 DEF UnbindOwn
    <3>2. <<>> \o q = q /\ <<>> \in Seq(Instrs)
      BY <2>1, EmptyConcat
    <3>3. QED
      BY <1>1, <1>2, <2>2, <3>1, <3>2
  <2>3. CASE bound[d] = m
    <3>1. m # NoDriver
      BY DEF Modules, NoDriver
    <3>2. UnbindOwn(d, m) = Strip(d, m)
      BY <2>3, <3>1 DEF UnbindOwn, Unbind, Strip
    <3>3. Piece(Strip(d, m), d)
      BY <1>2, StripIs
    <3>4. Sound(Strip(d, m) \o q, H, bound)
      BY <1>2, <2>1, <2>3, <3>1, PushStrip
    <3>5. \A x : In(x, Strip(d, m) \o q) <=> In(x, Strip(d, m)) \/ In(x, q)
      BY <2>1, <3>3, InConcat DEF Piece
    <3>6. \A x : In(x, Strip(d, m)) => Dev(x) = d
      BY <3>3 DEF Piece, In
    <3>7. Head(Strip(d, m) \o q) = Strip(d, m)[1] /\ 1 \in DOMAIN Strip(d, m)
      BY <2>1, <3>3 DEF Piece
    <3>8. Dev(Head(Strip(d, m) \o q)) = d
      BY <3>3, <3>7 DEF Piece
    <3>9. QED
      BY <2>3, <3>2, <3>3, <3>4, <3>5, <3>6, <3>8 DEF Piece
  <2>4. QED
    BY <2>2, <2>3
<1>3. /\ Sound(ExitOf(m), H, bound)
      /\ \A x : In(x, ExitOf(m)) <=> m = "lux-chardev" /\ x = Put("class")
      /\ \A d \in DevicesOf(m) : Clear(d, ExitOf(m))
      /\ ExitOf(m) \in Seq(Instrs)
  <2>1. /\ Sound(ExitOf(m), H, bound)
        /\ \A x : In(x, ExitOf(m)) <=> m = "lux-chardev" /\ x = Put("class")
        /\ \A d \in Devices : Clear(d, ExitOf(m))
    BY ExitSound
  <2>2. \A d \in DevicesOf(m) : d \in Devices
    BY BindIs
  <2>3. ExitOf(m) \in Seq(Instrs)
    BY <2>1 DEF Sound
  <2>4. QED
    BY <2>1, <2>2, <2>3
<1>4. CASE m # "lux-core"
  <2>1. DevicesOf(m) = {PlatformDevice(m)} /\ UnbindAll(m) = UnbindOwn(PlatformDevice(m), m)
    BY <1>4 DEF DevicesOf, UnbindAll
  <2>2. PICK d : d = PlatformDevice(m)
    OBVIOUS
  <2>3. PICK q : q = UnbindOwn(d, m) \o ExitOf(m)
    OBVIOUS
  <2>4. /\ Sound(q, H, bound)
        /\ \A x : In(x, q) <=> In(x, ExitOf(m)) \/ (bound[d] = m /\ In(x, Strip(d, m)))
        /\ UnbindOwn(d, m) # <<>> => Dev(Head(q)) = d
        /\ UnbindOwn(d, m) \in Seq(Instrs) /\ \A x : In(x, UnbindOwn(d, m)) => Dev(x) = d
    BY <1>2, <1>3, <2>1, <2>2, <2>3
  <2>5. \A x : In(x, q) => Dev(x) \in {d, "init"}
    BY <1>3, <2>3, <2>4, InConcat, OthersDev
  <2>6. \A e \in Leaves : e # d => AtRest(e, q)
    BY <2>5, OthersDev, ThingsAre DEF AtRest, In
  <2>7. UnbindOwn(d, m) = <<>> => \A e \in Leaves : AtRest(e, q)
    <3>1. ASSUME UnbindOwn(d, m) = <<>> PROVE \A x : In(x, q) => Dev(x) = "init"
      <4>1. q = ExitOf(m)
        BY <1>3, <2>3, <3>1, EmptyConcat
      <4>2. QED
        BY <1>3, <4>1, OthersDev
    <3>2. QED
      BY <3>1, OthersDev, ThingsAre DEF AtRest, In
  <2>8. /\ Sound(q, H, bound)
        /\ \A x : In(x, q) <=>
             \/ m = "lux-chardev" /\ x = Put("class")
             \/ bound[d] = m /\ In(x, Strip(d, m))
        /\ \A e \in Leaves : AtRest(e, q) \/ Dev(Head(q)) = e
    BY <1>3, <2>4, <2>6, <2>7
  <2>9. q = UnbindAll(m) \o ExitOf(m) /\ DevicesOf(m) = {d}
    BY <2>1, <2>2, <2>3
  <2>10. QED
    BY <2>8, <2>9
<1>5. CASE m = "lux-core"
  <2>1. DevicesOf(m) = {"f0", "f1"} /\ UnbindAll(m) = UnbindOwn("f1", m) \o UnbindOwn("f0", m)
        /\ ExitOf(m) = <<>>
    BY <1>5 DEF DevicesOf, UnbindAll, ExitOf
  <2>2. PICK r : r = UnbindOwn("f0", m)
    OBVIOUS
  <2>3. r \in Seq(Instrs)
    BY <1>2, <1>3, <2>1, <2>2
  <2>4. r \o ExitOf(m) = r
    BY <2>1, <2>3, EmptyConcat
  <2>5. /\ Sound(r, H, bound)
        /\ \A x : In(x, r) <=> bound["f0"] = m /\ In(x, Strip("f0", m))
        /\ \A x : In(x, r) => Dev(x) = "f0"
    <3>1. /\ Sound(r \o ExitOf(m), H, bound)
          /\ \A x : In(x, r \o ExitOf(m)) <=>
               In(x, ExitOf(m)) \/ (bound["f0"] = m /\ In(x, Strip("f0", m)))
          /\ \A x : In(x, r) => Dev(x) = "f0"
      BY <1>2, <1>3, <2>1, <2>2
    <3>2. QED
      BY <1>3, <1>5, <2>4, <3>1
  <2>6. Clear("f1", r)
    <3>1. ~Above("f1", "f0")
      BY DEF Above
    <3>2. QED
      BY <2>5, <3>1 DEF Clear, In
  <2>7. PICK q : q = UnbindOwn("f1", m) \o r
    OBVIOUS
  <2>8. /\ Sound(q, H, bound)
        /\ \A x : In(x, q) <=> In(x, r) \/ (bound["f1"] = m /\ In(x, Strip("f1", m)))
        /\ UnbindOwn("f1", m) \in Seq(Instrs) /\ \A x : In(x, UnbindOwn("f1", m)) => Dev(x) = "f1"
    BY <1>2, <2>1, <2>5, <2>6, <2>7
  <2>9. \A e \in Leaves : AtRest(e, q)
    <3>1. \A x : In(x, q) => Dev(x) \in {"f0", "f1"}
      BY <2>3, <2>5, <2>7, <2>8, InConcat
    <3>2. QED
      BY <3>1, ThingsAre DEF AtRest, In
  <2>10. UnbindAll(m) \o ExitOf(m) = q
    <3>1. q \in Seq(Instrs)
      BY <2>8 DEF Sound
    <3>2. UnbindAll(m) = q
      BY <2>1, <2>2, <2>7
    <3>3. QED
      BY <2>1, <3>1, <3>2, EmptyConcat
  <2>11. \A x : In(x, q) <=>
              \/ m = "lux-chardev" /\ x = Put("class")
              \/ \E d \in DevicesOf(m) : bound[d] = m /\ In(x, Strip(d, m))
    BY <1>5, <2>1, <2>5, <2>8
  <2>12. QED
    BY <2>8, <2>9, <2>10, <2>11
<1>6. QED
  BY <1>4, <1>5

\* Rmmod keeps it.
LEMMA RmmodKeeps == ASSUME LuxInv, NEW m \in Modules, Rmmod(m) PROVE LuxInv'
<1>1. /\ todo = <<>> /\ m \in drivers /\ drivers' = drivers \ {m} /\ ~InUse(m) /\ ~Careless(m)
      /\ UNCHANGED <<devices, bound, reg, chip, hw, cpu, files>>
  BY DEF Rmmod
<1>2. todo' = UnbindAll(m) \o ExitOf(m)
  BY DEF Rmmod
<1>3. Sound(<<>>, reg \cup devices, bound) /\ \A x : ~In(x, todo)
  BY <1>1, EmptyHas DEF LuxInv, Queued
<1>4. /\ Sound(todo', reg \cup devices, bound)
      /\ \A x : In(x, todo') <=>
           \/ m = "lux-chardev" /\ x = Put("class")
           \/ \E d \in DevicesOf(m) : bound[d] = m /\ In(x, Strip(d, m))
      /\ \A e \in Leaves : AtRest(e, todo') \/ Dev(Head(todo')) = e
  BY <1>2, <1>3, UnbindAllIs
<1>5. /\ \A t \in Things : ~In(Make(t), todo')
      /\ \A t \in Things : In(Unmake(t), todo') => Driver(t) = m
      /\ \A e : In(Unbound(e), todo') <=> e \in DevicesOf(m) /\ bound[e] = m
      /\ \A e, l : ~In(Bound(e, l), todo')
      /\ \A x \in Others : In(x, todo') =>
           x \in {Forget, Mask({}), Put("handler")} \/ (m = "lux-chardev" /\ x = Put("class"))
      /\ In(Unbound("lux-irq"), todo') => In(Forget, todo')
  <2>1. /\ \A t \in Things : Put("class") # Make(t) /\ Put("class") # Unmake(t)
        /\ \A d, l : Put("class") # Bound(d, l) /\ Put("class") # Unbound(d)
    BY Distinct
  <2>2. \A t \in Things : ~In(Make(t), todo')
    BY <1>4, <2>1, StripIs
  <2>3. \A t \in Things : In(Unmake(t), todo') => Driver(t) = m
    BY <1>4, <2>1, StripIs
  <2>4. \A e : In(Unbound(e), todo') <=> e \in DevicesOf(m) /\ bound[e] = m
    BY <1>4, <2>1, StripIs
  <2>5. \A e, l : ~In(Bound(e, l), todo')
    BY <1>4, <2>1, StripIs
  <2>6. \A x \in Others : In(x, todo') =>
           x \in {Forget, Mask({}), Put("handler")} \/ (m = "lux-chardev" /\ x = Put("class"))
    BY <1>4, StripIs
  <2>7. In(Unbound("lux-irq"), todo') => In(Forget, todo')
    <3>1. ASSUME In(Unbound("lux-irq"), todo')
          PROVE  "lux-irq" \in DevicesOf(m) /\ bound["lux-irq"] = m
      BY <2>4, <3>1
    <3>2. "lux-irq" \in DevicesOf(m) => In(Forget, Strip("lux-irq", m))
      BY StripIs, Distinct
    <3>3. QED
      BY <1>4, <3>1, <3>2
  <2>8. QED
    BY <2>2, <2>3, <2>4, <2>5, <2>6, <2>7
<1>6. NoInit(todo') /\ Queued'
  <2>1. \A x \in {Get("class")} \cup {Register(l) : l \in Modules} :
          x \in Others /\ x \notin {Forget, Mask({}), Put("handler"), Put("class")}
    BY Distinct
  <2>2. NoInit(todo')
    BY <1>5, <2>1 DEF NoInit
  <2>3. Sound(todo', reg' \cup devices', bound')
    BY <1>1, <1>4
  <2>4. LeavesFirst'
    BY <1>4 DEF LeavesFirst
  <2>5. QED
    BY <2>2, <2>3, <2>4, NoInitAlone DEF Queued
<1>7. KernelTypes' /\ FilesInv'
  BY <1>1, FilesUntouched DEF LuxInv, KernelTypes
<1>8. \A d \in Devices : bound[d] = m => d \in DevicesOf(m)
  <2>1. m # NoDriver
    BY DEF Modules, NoDriver
  <2>2. QED
    BY <1>3, <2>1 DEF Sound
<1>9. DriversInv'
  BY <1>1, <1>3, <1>5, <1>8 DEF LuxInv, DriversInv
<1>10. \A l \in {"lux-chardev", "lux-irq"} : l \in DevicesOf(m) => m = l
  BY DEF DevicesOf, PlatformDevice
<1>11. ClassInv'
  <2>1. In(Put("class"), todo') <=> m = "lux-chardev"
    <3>1. \A d \in DevicesOf(m) : ~In(Put("class"), Strip(d, m))
      BY StripIs, Distinct
    <3>2. QED
      BY <1>4, <3>1
  <2>2. ~In(Register("lux-chardev"), todo')
    BY <1>6, ThingsAre DEF NoInit
  <2>3. QED
    BY <1>1, <1>3, <1>5, <1>10, <2>1, <2>2 DEF LuxInv, ClassInv
<1>12. GoingInv'
  <2>1. Driver("lux-chardev") = "lux-core" /\ Driver("lux-irq") = "lux-core"
    BY DEF Driver, Keeper
  <2>2. QED
    BY <1>1, <1>5, <2>1, ThingsAre DEF GoingInv
<1>13. KnownInv' /\ TimerInv'
  BY <1>1, <1>3, <1>5 DEF LuxInv, KnownInv, TimerInv
<1>14. IrqGoingInv'
  BY <1>1, <1>5, <1>10 DEF IrqGoingInv, InUse, Careless
<1>15. OpenInv'
  BY <1>1 DEF LuxInv, OpenInv, files, InUse, Careless
<1>16. NullInv'
  BY <1>1, <1>3, <1>5, ThingsAre DEF LuxInv, NullInv
<1>17. QED
  BY <1>6, <1>7, <1>9, <1>11, <1>12, <1>13, <1>14, <1>15, <1>16 DEF LuxInv
-----------------------------------------------------------------------------
(***************************************************************************)
(* Failures.                                                               *)
(***************************************************************************)
BoundPlaces(q) == {i \in 1 .. Len(q) : q[i][1] = "bound"}

\* Fail, with the set in which it selects.
LEMMA FailGoes ==
  ASSUME Fail
  PROVE  todo' = LET end == IF BoundPlaces(todo) # {} THEN Min(BoundPlaces(todo)) ELSE 0
                 IN  Undo(Head(todo)) \o
                       (IF end = 0 THEN <<>>
                        ELSE <<Unbound(todo[end][2])>> \o SubSeq(todo, end + 1, Len(todo)))
  BY DEF Fail, SelectInSeq, BoundPlaces

\* In a probe, all there is for the device gives way to the error path.
LEMMA FailProbing ==
  ASSUME Fail, todo \in Seq(Instrs), Tidy(todo), NEW t \in Undoable, Head(todo) = Make(t)
  PROVE  \E n \in Nat, r \in Seq(Instrs) :
           /\ Probing(todo, n, Keeper(t), Driver(t)) /\ Rest(r, todo, n)
           /\ todo' = (Undo(Make(t)) \o <<Unbound(Keeper(t))>>) \o r
<1>1. todo # <<>> /\ t \in Things
  BY DEF Fail, Doing, Undoable
<1>2. PICK n \in Nat : Probing(todo, n, Keeper(t), Driver(t))
  BY <1>1, MakeProbes
<1>3. /\ n \in 1 .. Len(todo) /\ todo[n] = Bound(Keeper(t), Driver(t)) /\ Len(todo) \in Nat
      /\ \A k \in 1 .. n : todo[k][1] = "bound" => k = n
  BY <1>2 DEF Probing
<1>4. Min(BoundPlaces(todo)) = n /\ BoundPlaces(todo) # {}
  <2>1. n \in BoundPlaces(todo)
    BY <1>3 DEF BoundPlaces, Bound
  <2>2. \A k \in BoundPlaces(todo) : n <= k
    BY <1>3 DEF BoundPlaces
  <2>3. \A k \in BoundPlaces(todo) : k \in Nat
    BY <1>3 DEF BoundPlaces
  <2>4. Min(BoundPlaces(todo)) \in BoundPlaces(todo) /\ Min(BoundPlaces(todo)) <= n
    BY <2>1, <2>2 DEF Min
  <2>5. PICK k : k = Min(BoundPlaces(todo))
    OBVIOUS
  <2>6. k \in Nat /\ k <= n /\ n <= k
    BY <2>2, <2>3, <2>4, <2>5
  <2>7. k = n
    BY <2>6
  <2>8. QED
    BY <2>1, <2>5, <2>7
<1>5. todo[n][2] = Keeper(t)
  BY <1>3 DEF Bound
<1>6. PICK r : r = SubSeq(todo, n + 1, Len(todo))
  OBVIOUS
<1>7. r \in Seq(Instrs) /\ Rest(r, todo, n)
  <2>1. n + 1 \in Nat /\ n + 1 <= Len(todo) + 1
    BY <1>3
  <2>2. /\ r \in Seq(Instrs) /\ Len(r) = Len(todo) - n
        /\ \A i \in 1 .. Len(r) : r[i] = todo[i + n]
    BY <1>3, <1>6, <2>1
  <2>3. QED
    BY <1>3, <2>2 DEF Rest
<1>8. todo' = Undo(Make(t)) \o (<<Unbound(Keeper(t))>> \o r)
  <2>1. n # 0
    BY <1>3
  <2>2. QED
    BY <1>4, <1>5, <1>6, <2>1, FailGoes
<1>9. Undo(Make(t)) \in Seq(Instrs) /\ <<Unbound(Keeper(t))>> \in Seq(Instrs)
  <2>1. Unbound(Keeper(t)) \in Instrs
    BY <1>1, KeepersAre, InstructionsAre
  <2>2. t \in {"f0-bars", "f1-bars", "vector", "TIMER", "region", "chip", "pins", "remapped",
               "lux-gpio-chip", "lux-irq", "workqueue", "cdev", "lookup", "leds", "mcleds",
               "lux-chardev", "node", "lux-leds"}
    BY DEF Undoable, Things, Unrecovered, Infallible
  <2>3. \A s \in {"f0-bars", "f1-bars", "TIMER", "region", "chip", "pins", "remapped",
                  "lux-gpio-chip", "cdev", "lookup"} : Unmake(s) \in Instrs
    BY InstructionsAre DEF Things
  <2>4. /\ <<>> \in Seq(Instrs)
        /\ \A x, y \in Instrs : <<x>> \in Seq(Instrs) /\ <<x, y>> \in Seq(Instrs)
    OBVIOUS
  <2>5. CASE t \in {"f0-bars", "f1-bars", "vector", "TIMER", "region", "chip", "pins", "remapped"}
    <3>1. Undo(Make(t)) = <<>>
      BY <2>5, UndosAre
    <3>2. QED
      BY <2>1, <2>4, <3>1
  <2>6. CASE t \in {"lux-gpio-chip", "lux-irq", "workqueue", "cdev", "lookup", "leds", "mcleds"}
    <3>1. PICK s \in {"f0-bars", "f1-bars", "TIMER", "region", "chip", "pins", "remapped"} :
            Undo(Make(t)) = <<Unmake(s)>>
      BY <2>6, UndosAre
    <3>2. QED
      BY <2>1, <2>3, <2>4, <3>1
  <2>7. CASE t \in {"lux-chardev", "node", "lux-leds"}
    <3>1. PICK s \in {"lux-gpio-chip", "region", "lookup"}, u \in {"f0-bars", "cdev", "chip"} :
            Undo(Make(t)) = <<Unmake(s), Unmake(u)>>
      BY <2>7, UndosAre
    <3>2. QED
      BY <2>1, <2>3, <2>4, <3>1
  <2>8. QED
    BY <2>2, <2>5, <2>6, <2>7
<1>10. (Undo(Make(t)) \o <<Unbound(Keeper(t))>>) \o r = Undo(Make(t)) \o (<<Unbound(Keeper(t))>> \o r)
  BY <1>7, <1>9, ConcatAssociative
<1>11. QED
  BY <1>2, <1>7, <1>8, <1>10

\* A failed Make whose driver undoes what it has made keeps the invariant.
LEMMA FailThing ==
  ASSUME LuxInv, Fail, NEW t \in Undoable, Head(todo) = Make(t) PROVE LuxInv'
<1> DEFINE d == Keeper(t)
<1>1. todo # <<>> /\ UNCHANGED <<drivers, devices, bound, reg, chip, hw, cpu, files>>
  BY DEF Fail, Doing
<1>2. Sound(todo, reg \cup devices, bound) /\ todo \in Seq(Instrs) /\ Tidy(todo) /\ In(Make(t), todo)
  BY <1>1, SoundTail DEF LuxInv, Queued
<1>3. t \in Things /\ d \in Devices /\ Dev(Make(t)) = d /\ d # "init" /\ Driver(t) \in Modules
  BY KeepersAre, InstructionsAre, OthersDev DEF Undoable
<1>4. PICK n \in Nat, r \in Seq(Instrs) :
        /\ Probing(todo, n, Keeper(t), Driver(t)) /\ Rest(r, todo, n)
        /\ todo' = (Undo(Make(t)) \o <<Unbound(Keeper(t))>>) \o r
  BY <1>2, FailProbing
<1>5. PICK f : f = Undo(Make(t)) \o <<Unbound(d)>>
  OBVIOUS
<1>6. /\ todo' = f \o r /\ Piece(f, d)
      /\ \A x : In(x, f) <=> x = Unbound(d) \/ \E s \in Things : Later(t, s) /\ x = Unmake(s)
  BY <1>4, <1>5, UndoPiece
<1>7. \A x : In(x, r) <=> In(x, todo) /\ Dev(x) # d
  <2>1. /\ DOMAIN todo = 1 .. Len(todo) /\ DOMAIN r = 1 .. Len(r) /\ Len(todo) \in Nat /\ Len(r) \in Nat
        /\ n \in DOMAIN todo /\ todo[n] = Bound(d, Driver(t)) /\ \A k \in 1 .. n : Dev(todo[k]) = d
    BY <1>2, <1>4 DEF Probing
  <2>2. Len(r) = Len(todo) - n /\ \A i \in 1 .. Len(r) : r[i] = todo[i + n]
    BY <1>4 DEF Rest
  <2>3. \A i \in DOMAIN r : i + n \in DOMAIN todo /\ n < i + n /\ r[i] = todo[i + n]
    BY <2>1, <2>2
  <2>4. \A i \in DOMAIN todo : n < i => i - n \in DOMAIN r /\ (i - n) + n = i
    BY <2>1, <2>2
  <2>5. \A i \in DOMAIN todo : n < i => i - n \in DOMAIN r /\ r[i - n] = todo[i]
    BY <2>3, <2>4
  <2>6. End(Bound(d, Driver(t))) /\ Dev(Bound(d, Driver(t))) = d
    BY <1>3, InstructionsAre
  <2>7. \A i \in DOMAIN todo : n < i => Dev(todo[i]) # d
    BY <1>2, <2>1, <2>6 DEF Tidy, Apart, MayFollow
  <2>8. \A x : In(x, r) => In(x, todo) /\ Dev(x) # d
    BY <2>3, <2>7 DEF In
  <2>9. \A i \in DOMAIN todo : Dev(todo[i]) # d => n < i
    BY <2>1
  <2>10. \A x : In(x, todo) /\ Dev(x) # d => In(x, r)
    BY <2>5, <2>9 DEF In
  <2>11. QED
    BY <2>8, <2>10
<1>8. \A x : In(x, todo') <=> \/ x = Unbound(d) \/ \E s \in Things : Later(t, s) /\ x = Unmake(s)
                              \/ In(x, todo) /\ Dev(x) # d
  <2>1. \A x : In(x, f \o r) <=> In(x, f) \/ In(x, r)
    BY <1>4, <1>6, InConcat DEF Piece
  <2>2. QED
    BY <1>6, <1>7, <2>1
<1>9. NoInit(todo)
  BY <1>1, <1>3, HeadNoInit, Distinct DEF LuxInv
<1>10. /\ In(Bound(d, Driver(t)), todo) /\ ~In(Unbound(d), todo)
       /\ \A s \in Things : Later(s, t) => In(Make(s), todo)
  BY <1>2, <1>3, MakeEnds
<1> HIDE DEF d
<1>11. /\ \A s \in Things : In(Make(s), todo') <=> In(Make(s), todo) /\ Keeper(s) # d
       /\ \A s \in Things : In(Unmake(s), todo') => In(Unmake(s), todo) \/ Later(t, s)
       /\ \A e, l : In(Bound(e, l), todo') => In(Bound(e, l), todo)
       /\ In(Unbound(d), todo')
       /\ \A e \in Devices : e # d => (In(Unbound(e), todo') <=> In(Unbound(e), todo))
       /\ \A x \in Others : In(x, todo') <=> In(x, todo) /\ Dev(x) # d
  <2>1. \A s \in Things : In(Make(s), todo') <=> In(Make(s), todo) /\ Keeper(s) # d
    BY <1>8, Distinct, InstructionsAre
  <2>2. \A s \in Things : In(Unmake(s), todo') => In(Unmake(s), todo) \/ Later(t, s)
    BY <1>8, Distinct
  <2>3. \A e, l : In(Bound(e, l), todo') => In(Bound(e, l), todo)
    BY <1>8, Distinct
  <2>4. \A e \in Devices : e # d => (In(Unbound(e), todo') <=> In(Unbound(e), todo))
    BY <1>8, Distinct, InstructionsAre
  <2>5. \A x \in Others : In(x, todo') <=> In(x, todo) /\ Dev(x) # d
    BY <1>8, Distinct
  <2>6. In(Unbound(d), todo')
    BY <1>8
  <2>7. QED
    BY <2>1, <2>2, <2>3, <2>4, <2>5, <2>6
<1>12. Queued'
  <2>1. Sound(todo', reg \cup devices, bound)
    BY <1>1, <1>2, <1>4, FailSound
  <2>2. Sound(todo', reg' \cup devices', bound')
    BY <1>1, <2>1
  <2>3. \A e \in Leaves : e # d => AtRest(e, r)
    <3>1. ASSUME NEW e \in Leaves, e # d PROVE \A x : In(x, todo) => Dev(x) # e
      BY <1>3, <3>1, LeavesRest DEF LuxInv, Queued, d
    <3>2. QED
      BY <1>7, <3>1 DEF AtRest, In
  <2>4. LeavesFirst'
    BY <1>4, <1>6, <2>3, PushesLeaves
  <2>5. \A x \in {Get("class")} \cup {Register(l) : l \in Modules} : x \in Others
    BY Distinct
  <2>6. NoInit(todo')
    BY <1>9, <1>11, <2>5 DEF NoInit
  <2>7. QED
    BY <2>2, <2>4, <2>6, NoInitAlone DEF Queued
<1>13. KernelTypes' /\ FilesInv'
  BY <1>1, FilesUntouched DEF LuxInv, KernelTypes
<1>14. DriversInv'
  BY <1>1, <1>11 DEF LuxInv, DriversInv
<1>15. /\ In(Put("class"), todo') <=> In(Put("class"), todo)
       /\ ~In(Register("lux-chardev"), todo') /\ ~In(Register("lux-chardev"), todo)
  <2>1. In(Put("class"), todo') <=> In(Put("class"), todo)
    BY <1>3, <1>11, Distinct, OthersDev DEF d
  <2>2. Register("lux-chardev") \in Others
    BY Distinct, ThingsAre
  <2>3. QED
    BY <1>9, <1>11, <2>1, <2>2, ThingsAre DEF NoInit
<1>16. ClassInv'
  <2>1. d = "lux-chardev" => "lux-chardev" \in drivers
    <3>1. d = "lux-chardev" => Driver(t) = "lux-chardev"
      BY <1>3 DEF Things, Keeper, Driver, d
    <3>2. QED
      BY <1>3, <1>10, <3>1, ThingsAre DEF LuxInv, DriversInv, d
  <2>2. In(Unbound("lux-chardev"), todo') => "lux-chardev" \in drivers \/ In(Put("class"), todo)
    BY <1>11, <2>1, ThingsAre DEF LuxInv, ClassInv
  <2>3. QED
    BY <1>1, <1>15, <2>2 DEF LuxInv, ClassInv
<1>17. GoingInv'
  <2>1. ~Later(t, "lux-chardev") /\ ~Later(t, "lux-irq")
    BY DEF Undoable, Unrecovered, Things, Later, Keeper, Driver, Rank
  <2>2. QED
    BY <1>1, <1>11, <2>1, ThingsAre DEF LuxInv, GoingInv
<1>18. d = "lux-irq" => t = "vector"
  BY DEF Undoable, Unrecovered, Things, Keeper, d
<1>19. d = "lux-irq" => "domain" \notin reg /\ ~chip.known /\ In(Make("vector"), todo)
  <2>1. Later("domain", "vector") /\ Driver("domain") = Driver("vector")
    BY DEF Later, Keeper, Driver, Rank
  <2>2. d = "lux-irq" => In(Make("domain"), todo)
    BY <1>10, <1>18, <2>1, ThingsAre
  <2>3. d = "lux-irq" => "domain" \notin reg \cup devices
    BY <1>2, <1>3, <1>10, <2>2, ThingsAre DEF Sound, Local, Probed, d
  <2>4. QED
    BY <1>2, <1>18, <2>3 DEF LuxInv, KnownInv
<1>20. KnownInv'
  <2>1. d # "lux-irq" => (In(Forget, todo') <=> In(Forget, todo))
                         /\ (In(Unbound("lux-irq"), todo') <=> In(Unbound("lux-irq"), todo))
    BY <1>11, Distinct, OthersDev, ThingsAre
  <2>2. QED
    BY <1>1, <1>19, <2>1 DEF LuxInv, KnownInv
<1>21. IrqGoingInv'
  <2>1. ASSUME d = "lux-irq" PROVE bound["lux-timer"] = NoDriver
    <3>1. AtRest("lux-timer", todo)
      BY <1>3, <2>1, LeavesRest, ThingsAre DEF LuxInv, Queued, d
    <3>2. "TIMER" \in reg \cup devices <=> bound["lux-timer"] = Driver("TIMER")
      BY <1>2, <3>1, ThingsAre DEF Sound, Local, Rested
    <3>3. "TIMER" \notin devices
      BY ThingsAre, KeepersAre DEF LuxInv, KernelTypes
    <3>4. "TIMER" \notin reg
      BY <1>19, <2>1 DEF LuxInv, TimerInv
    <3>5. \/ bound["lux-timer"] = NoDriver
          \/ bound["lux-timer"] \in Modules /\ "lux-timer" \in DevicesOf(bound["lux-timer"])
      BY <1>2, ThingsAre DEF Sound
    <3>6. \A m \in Modules : "lux-timer" \in DevicesOf(m) => m = Driver("TIMER")
      BY DEF DevicesOf, PlatformDevice, Driver, Keeper
    <3>7. QED
      BY <3>2, <3>3, <3>4, <3>5, <3>6
  <2>2. d # "lux-irq" => (In(Unbound("lux-irq"), todo') <=> In(Unbound("lux-irq"), todo))
    BY <1>11, ThingsAre
  <2>3. QED
    BY <1>1, <1>19, <2>1, <2>2 DEF LuxInv, IrqGoingInv
<1>22. TimerInv' /\ OpenInv'
  BY <1>1 DEF LuxInv, TimerInv, OpenInv, files
<1>23. NullInv'
  <2>1. CASE d = "lux-irq"
    <3>1. ~In(Make("domain"), todo') /\ chip.null = {}
      BY <1>11, <1>19, <2>1, ThingsAre DEF LuxInv, NullInv
    <3>2. QED
      BY <1>1, <3>1 DEF LuxInv, NullInv
  <2>2. CASE d # "lux-irq"
    <3>1. /\ In(Make("domain"), todo') <=> In(Make("domain"), todo)
          /\ In(Make("vector"), todo') <=> In(Make("vector"), todo)
          /\ In(Mask(Lines), todo') <=> In(Mask(Lines), todo)
      BY <1>11, <2>2, Distinct, OthersDev, ThingsAre
    <3>2. QED
      BY <1>1, <3>1 DEF LuxInv, NullInv
  <2>3. QED
    BY <2>1, <2>2
<1>24. QED
  BY <1>12, <1>13, <1>14, <1>16, <1>17, <1>20, <1>21, <1>22, <1>23 DEF LuxInv

\* A module's init fails: registering lux-cdev's driver takes its class back.
LEMMA FailInit ==
  ASSUME LuxInv, Fail, NEW m \in Modules, todo = <<Register(m)>> PROVE LuxInv'
<1>1. UNCHANGED <<drivers, devices, bound, reg, chip, hw, cpu, files>>
  BY DEF Fail
<1>2. /\ \A x : In(x, todo) <=> x = Register(m)
      /\ Head(todo) = Register(m) /\ Tail(todo) = <<>> /\ todo # <<>>
  <2>1. <<Register(m)>> # <<>>
    OBVIOUS
  <2>2. QED
    BY <2>1, FewHave
<1>3. BoundPlaces(todo) = {}
  <2>1. Register(m)[1] # "bound"
    BY DEF Register
  <2>2. Len(todo) = 1 /\ todo[1] = Register(m)
    OBVIOUS
  <2>3. QED
    BY <2>1, <2>2 DEF BoundPlaces
<1>4. todo' = ExitOf(m)
  <2>1. Undo(Register(m)) = ExitOf(m)
    <3>1. \A d : Register(m) # Add(d) /\ Register(m) # Get(d)
      BY DEF Register, Add, Get
    <3>2. Register(m) = Register("lux-chardev") <=> m = "lux-chardev"
      BY DEF Register
    <3>3. QED
      BY <3>1, <3>2 DEF Undo, ExitOf
  <2>2. todo' = Undo(Register(m)) \o <<>>
    BY <1>2, <1>3, FailGoes
  <2>3. ExitOf(m) \in Seq(Instrs)
    <3>1. Put("class") \in Instrs
      BY Distinct, OthersDev
    <3>2. QED
      BY <3>1 DEF ExitOf
  <2>4. QED
    BY <2>1, <2>2, <2>3, EmptyConcat
<1>5. Sound(todo, reg \cup devices, bound) /\ Sound(<<>>, reg \cup devices, bound)
  <2>1. Sound(todo, reg \cup devices, bound)
    BY DEF LuxInv, Queued
  <2>2. Sound(Tail(todo), reg \cup devices, bound)
    <3>1. Head(todo) \in Others /\ todo # <<>>
      BY <1>2, Distinct
    <3>2. QED
      BY <2>1, <3>1, OtherSound
  <2>3. QED
    BY <1>2, <2>1, <2>2
<1>6. /\ Sound(todo', reg \cup devices, bound)
      /\ \A x : In(x, todo') <=> m = "lux-chardev" /\ x = Put("class")
      /\ \A d \in Devices : AtRest(d, todo')
  BY <1>4, <1>5, ExitSound DEF Clear, AtRest
<1>7. m \notin drivers
  BY <1>2 DEF LuxInv, Queued, InitAlone
<1>8. /\ \A d, l : ~In(Bound(d, l), todo') /\ ~In(Unbound(d), todo') /\ ~In(Unbound(d), todo)
      /\ \A s \in Things : ~In(Unmake(s), todo') /\ ~In(Make(s), todo') /\ ~In(Make(s), todo)
      /\ NoInit(todo') /\ ~In(Put("class"), todo) /\ ~In(Get("class"), todo)
      /\ In(Register("lux-chardev"), todo) <=> m = "lux-chardev"
  <2>1. \A l : Register(l) = Register(m) <=> l = m
    BY DEF Register
  <2>2. NoInit(todo')
    BY <1>6, Distinct DEF NoInit
  <2>3. QED
    BY <1>2, <1>6, <2>1, <2>2, Distinct
<1>9. Queued'
  <2>1. Sound(todo', reg' \cup devices', bound')
    BY <1>1, <1>6
  <2>2. LeavesFirst'
    BY <1>6, ThingsAre DEF LeavesFirst
  <2>3. QED
    BY <1>8, <2>1, <2>2, NoInitAlone DEF Queued
<1>10. DriversInv'
  BY <1>1, <1>8 DEF LuxInv, DriversInv
<1>11. ClassInv'
  BY <1>1, <1>6, <1>7, <1>8, ThingsAre DEF LuxInv, ClassInv, NoInit
<1>12. GoingInv' /\ IrqGoingInv'
  BY <1>8, ThingsAre DEF GoingInv, IrqGoingInv
<1>13. KnownInv' /\ TimerInv' /\ OpenInv'
  BY <1>1, <1>8 DEF LuxInv, KnownInv, TimerInv, OpenInv, files
<1>14. NullInv'
  BY <1>1, <1>8, ThingsAre DEF LuxInv, NullInv
<1>15. KernelTypes' /\ FilesInv'
  BY <1>1, FilesUntouched DEF LuxInv, KernelTypes
<1>16. QED
  BY <1>9, <1>10, <1>11, <1>12, <1>13, <1>14, <1>15 DEF LuxInv

\* The class cannot be made: lux-cdev's module is not loaded.
LEMMA FailClass ==
  ASSUME LuxInv, Fail, todo = <<Get("class"), Register("lux-chardev")>> PROVE LuxInv'
<1>1. UNCHANGED <<drivers, devices, bound, reg, chip, hw, cpu, files>>
  BY DEF Fail
<1>2. /\ \A x : In(x, todo) <=> x \in {Get("class"), Register("lux-chardev")}
      /\ Head(todo) = Get("class") /\ Tail(todo) = <<Register("lux-chardev")>> /\ todo # <<>>
  <2>1. <<Get("class"), Register("lux-chardev")>> # <<>>
    OBVIOUS
  <2>2. QED
    BY <2>1, FewHave
<1>3. BoundPlaces(todo) = {}
  <2>1. Register("lux-chardev")[1] # "bound" /\ Get("class")[1] # "bound"
    BY DEF Register, Get
  <2>2. Len(todo) = 2 /\ todo[1] = Get("class") /\ todo[2] = Register("lux-chardev")
    OBVIOUS
  <2>3. \A i \in 1 .. 2 : i = 1 \/ i = 2
    OBVIOUS
  <2>4. QED
    BY <2>1, <2>2, <2>3 DEF BoundPlaces
<1>4. todo' = <<>>
  <2>1. Undo(Get("class")) = <<>>
    BY DEF Undo, Get, Add, Register
  <2>2. todo' = Undo(Get("class")) \o <<>>
    BY <1>2, <1>3, FailGoes
  <2>3. QED
    BY <2>1, <2>2
<1>5. Sound(todo', reg \cup devices, bound)
  <2>1. Sound(todo, reg \cup devices, bound)
    BY DEF LuxInv, Queued
  <2>2. Sound(Tail(todo), reg \cup devices, bound)
    <3>1. Head(todo) \in Others /\ todo # <<>>
      BY <1>2, Distinct
    <3>2. QED
      BY <2>1, <3>1, OtherSound
  <2>3. PICK q : q = <<Register("lux-chardev")>>
    OBVIOUS
  <2>4. Sound(q, reg \cup devices, bound) /\ q # <<>> /\ Head(q) = Register("lux-chardev")
        /\ Tail(q) = <<>>
    BY <1>2, <2>2, <2>3, FewHave
  <2>5. Register("lux-chardev") \in Others
    BY Distinct, ThingsAre
  <2>6. Sound(Tail(q), reg \cup devices, bound)
    BY <2>4, <2>5, OtherSound
  <2>7. QED
    BY <1>4, <2>4, <2>6
<1>6. (\A x : ~In(x, todo')) /\ \A d : AtRest(d, todo')
  BY <1>4, EmptyHas
<1>7. /\ \A d, l : ~In(Unbound(d), todo) /\ \A s \in Things : ~In(Make(s), todo)
      /\ ~In(Put("class"), todo) /\ In(Get("class"), todo)
  BY <1>2, Distinct, ThingsAre
<1>8. Queued'
  <2>1. Sound(todo', reg' \cup devices', bound')
    BY <1>1, <1>5
  <2>2. LeavesFirst'
    BY <1>6 DEF LeavesFirst
  <2>3. InitAlone'
    BY <1>6 DEF InitAlone
  <2>4. QED
    BY <2>1, <2>2, <2>3 DEF Queued
<1>9. DriversInv'
  BY <1>1, <1>6, <1>7 DEF LuxInv, DriversInv
<1>10. ClassInv'
  BY <1>1, <1>6, <1>7 DEF LuxInv, ClassInv
<1>11. GoingInv' /\ IrqGoingInv'
  BY <1>6 DEF GoingInv, IrqGoingInv
<1>12. KnownInv' /\ TimerInv' /\ OpenInv'
  BY <1>1, <1>6, <1>7 DEF LuxInv, KnownInv, TimerInv, OpenInv, files
<1>13. NullInv'
  BY <1>1, <1>6, <1>7, ThingsAre DEF LuxInv, NullInv
<1>14. KernelTypes' /\ FilesInv'
  BY <1>1, FilesUntouched DEF LuxInv, KernelTypes
<1>15. QED
  BY <1>8, <1>9, <1>10, <1>11, <1>12, <1>13, <1>14 DEF LuxInv

\* Fail keeps it, whatever it is that fails.
LEMMA FailKeeps == ASSUME LuxInv, Fail PROVE LuxInv'
<1>1. todo # <<>>
  BY DEF Fail, Doing
<1>2. \/ Head(todo)[1] \in {"get", "add", "register"} /\ Object \in MayFail
      \/ Head(todo)[1] = "get" /\ Unavailable(Object)
  BY DEF Fail, Doing
<1>3. Sound(todo, reg \cup devices, bound) /\ Head(todo) \in Instrs /\ In(Head(todo), todo)
  BY <1>1, SoundTail DEF LuxInv, Queued
<1>4. \/ Head(todo) = Get("class")
      \/ \E t \in Things : Head(todo) = Make(t) /\ Object = t
      \/ \E m \in Modules : Head(todo) = Register(m)
  BY <1>2, <1>3, Named, ThingsAre DEF Object
<1>5. CASE Head(todo) = Get("class")
  BY <1>3, <1>5, FailClass DEF LuxInv, Queued, InitAlone
<1>6. ASSUME NEW t \in Things, Head(todo) = Make(t), Object = t PROVE LuxInv'
  <2>1. t \in MayFail => t \in Undoable
    BY DriversAssumption DEF Undoable
  <2>2. Unavailable(t) => t \in Undoable
    BY DEF Unavailable, Undoable, Unrecovered, Infallible, Things
  <2>3. t \in Undoable
    BY <1>2, <1>6, <2>1, <2>2
  <2>4. QED
    BY <1>6, <2>3, FailThing
<1>7. ASSUME NEW m \in Modules, Head(todo) = Register(m) PROVE LuxInv'
  <2>1. Head(todo) # Get("class")
    BY <1>7, Distinct
  <2>2. \A x, y : Head(<<x, y>>) = x
    OBVIOUS
  <2>3. todo = <<Register(m)>>
    BY <1>3, <1>7, <2>1, <2>2 DEF LuxInv, Queued, InitAlone
  <2>4. QED
    BY <2>3, FailInit
<1>8. QED
  BY <1>4, <1>5, <1>6, <1>7
-----------------------------------------------------------------------------
(***************************************************************************)
(* Interrupts, files, and the whole step.                                  *)
(***************************************************************************)
LEMMA KernelKeeps ==
  ASSUME LuxInv, UNCHANGED kernel
  PROVE  /\ Queued' /\ DriversInv' /\ ClassInv' /\ GoingInv' /\ KnownInv' /\ IrqGoingInv' /\ TimerInv'
         /\ drivers' = drivers /\ devices' = devices /\ reg' = reg /\ todo' = todo /\ chip' = chip
<1>1. /\ drivers' = drivers /\ devices' = devices /\ bound' = bound /\ reg' = reg /\ todo' = todo
      /\ chip' = chip
  BY DEF kernel
<1>2. Queued'
  BY <1>1 DEF LuxInv, Queued, LeavesFirst, InitAlone
<1>3. DriversInv' /\ ClassInv' /\ GoingInv' /\ KnownInv' /\ IrqGoingInv' /\ TimerInv'
  BY <1>1 DEF LuxInv, DriversInv, ClassInv, GoingInv, KnownInv, IrqGoingInv, TimerInv
<1>4. QED
  BY <1>1, <1>2, <1>3

\* While the chip has no domain and its handler is in place, all lines are masked.
LEMMA NullMasked == ASSUME LuxInv, chip.null # {} PROVE hw.mask = Lines
<1>1. In(Make("domain"), todo) /\ ~In(Make("vector"), todo)
  BY DEF LuxInv, NullInv
<1>2. MustFollow(Mask(Lines), Make("vector"))
  BY DEF MustFollow
<1>3. ~In(Mask(Lines), todo)
  BY <1>1, <1>2, Follows DEF LuxInv, Queued, Sound
<1>4. QED
  BY <1>1, <1>3 DEF LuxInv, NullInv

\* Interrupts keep it: while a chip has no domain all lines are masked, so none is for it.
LEMMA InterruptKeeps ==
  ASSUME LuxInv, (\E line \in Lines : Raise(line) \/ Dispatch(line)) \/ ChainedHandler PROVE LuxInv'
<1>1. ASSUME NEW line \in Lines, Raise(line) PROVE LuxInv'
  <2>1. UNCHANGED <<kernel, cpu, files>> /\ hw' = [hw EXCEPT !.status = @ \cup {line}]
    BY <1>1 DEF Raise
  <2>2. hw' \in [status : SUBSET Lines, mask : SUBSET Lines] /\ hw'.mask = hw.mask
    BY <2>1 DEF LuxInv, KernelTypes
  <2>3. KernelTypes' /\ NullInv' /\ OpenInv'
    BY <2>1, <2>2, KernelKeeps DEF LuxInv, KernelTypes, NullInv, OpenInv, files
  <2>4. QED
    BY <2>1, <2>3, KernelKeeps, FilesUntouched DEF LuxInv
<1>2. ASSUME NEW line \in Lines, Dispatch(line) PROVE LuxInv'
  <2>1. /\ UNCHANGED <<kernel, files>> /\ cpu' = [cpu EXCEPT !.pending = @ \ {line}]
        /\ \/ hw' = hw
           \/ \E masks : /\ masks = hw.mask \/ masks = hw.mask \cup {line}
                         /\ hw' = [hw EXCEPT !.status = @ \ {line}, !.mask = masks]
    BY <1>2 DEF Dispatch
  <2>2. /\ hw' \in [status : SUBSET Lines, mask : SUBSET Lines]
        /\ hw'.mask = hw.mask \/ hw'.mask = hw.mask \cup {line}
    <3>1. hw \in [status : SUBSET Lines, mask : SUBSET Lines]
      BY DEF LuxInv, KernelTypes
    <3>2. CASE hw' = hw
      BY <3>1, <3>2
    <3>3. ASSUME NEW masks, masks = hw.mask \/ masks = hw.mask \cup {line},
                 hw' = [hw EXCEPT !.status = @ \ {line}, !.mask = masks]
          PROVE  /\ hw' \in [status : SUBSET Lines, mask : SUBSET Lines]
                 /\ hw'.mask = hw.mask \/ hw'.mask = hw.mask \cup {line}
      <4>1. masks \in SUBSET Lines
        BY <3>1, <3>3
      <4>2. hw'.mask = masks
        BY <3>1, <3>3
      <4>3. QED
        BY <3>1, <3>3, <4>1, <4>2
    <3>4. QED
      BY <2>1, <3>2, <3>3
  <2>3. cpu' \in [chip : Nat, pending : SUBSET Lines] /\ cpu'.chip = cpu.chip
        /\ cpu'.pending \subseteq cpu.pending
    BY <2>1 DEF LuxInv, KernelTypes
  <2>4. KernelTypes' /\ OpenInv'
    BY <2>1, <2>2, <2>3, KernelKeeps DEF LuxInv, KernelTypes, OpenInv, files
  <2>5. NullInv'
    BY <2>1, <2>2, <2>3, KernelKeeps DEF LuxInv, NullInv
  <2>6. QED
    BY <2>1, <2>4, <2>5, KernelKeeps, FilesUntouched DEF LuxInv
<1>3. ASSUME ChainedHandler PROVE LuxInv'
  <2>1. /\ UNCHANGED <<kernel, hw, files>> /\ hw.status \ hw.mask # {}
        /\ cpu' = [chip |-> chip.handler, pending |-> hw.status \ hw.mask]
    BY <1>3 DEF ChainedHandler
  <2>2. chip.null = {}
    BY <2>1, NullMasked DEF LuxInv, KernelTypes
  <2>3. KernelTypes' /\ OpenInv'
    BY <2>1, KernelKeeps DEF LuxInv, KernelTypes, OpenInv, files
  <2>4. NullInv'
    BY <2>1, <2>2, KernelKeeps DEF LuxInv, NullInv
  <2>5. QED
    BY <2>1, <2>3, <2>4, KernelKeeps, FilesUntouched DEF LuxInv
<1>4. QED
  BY <1>1, <1>2, <1>3

\* The character device is there while its node is.
LEMMA NodeDevice == ASSUME LuxInv, "node" \in reg PROVE "lux-chardev" \in devices
<1>1. Sound(todo, reg \cup devices, bound)
  BY DEF LuxInv, Queued
<1>2. SUFFICES ASSUME "lux-chardev" \notin reg \cup devices PROVE FALSE
  BY ThingsAre DEF LuxInv, KernelTypes
<1>3. AtRest("lux-chardev", todo) /\ bound["lux-chardev"] = NoDriver
  BY <1>1, <1>2, ThingsAre DEF Sound
<1>4. "node" \in reg \cup devices <=> bound["lux-chardev"] = Driver("node")
  BY <1>1, <1>3, ThingsAre DEF Sound, Local, Rested
<1>5. Driver("node") # NoDriver
  BY DEF Driver, Keeper, NoDriver
<1>6. QED
  BY <1>3, <1>4, <1>5

\* The files keep it: a file is opened only while what it needs is there.
LEMMA FilesKeep == ASSUME LuxInv, NEW u \in Users, File(u) PROVE LuxInv'
<1>1. FilesInv' /\ UNCHANGED <<kernel, cpu>>
  BY FileKeepsInv
     DEF LuxInv, File, Open, RequestLed, RequestLedFails, RequestLedErr, RequestLedErrFails, Enable,
         Release, ReleaseErr, Disable, Request, Free, Control
<1>2. hw' \in [status : SUBSET Lines, mask : SUBSET Lines]
  BY DEF LuxInv, KernelTypes, Lines, Unmasked, Masked, File, Open, RequestLed, RequestLedFails,
         RequestLedErr, RequestLedErrFails, Enable, Release, ReleaseErr, Disable, Request, Free, Control
<1>3. KernelTypes'
  BY <1>1, <1>2, KernelKeeps DEF LuxInv, KernelTypes
<1>4. OpenInv'
  <2>1. CASE Open(u)
    <3>1. "lux-chardev" \in devices /\ chip.known /\ "mappings" \in reg
          /\ {"lux-core", "lux-chardev"} \subseteq drivers
      BY <2>1, NodeDevice DEF Open
    <3>2. QED
      BY <1>1, <3>1, KernelKeeps DEF OpenInv
  <2>2. CASE ~Open(u)
    <3>1. pc[u] # "closed"
      BY <2>2 DEF File, RequestLed, RequestLedFails, RequestLedErr, RequestLedErrFails, Enable, Release,
                  ReleaseErr, Disable, Request, Free, Control
    <3>2. QED
      BY <1>1, <3>1, KernelKeeps DEF LuxInv, OpenInv
  <2>3. QED
    BY <2>1, <2>2
<1>5. NullInv'
  <2>1. Open(u) => hw' = hw
    BY DEF Open
  <2>2. ~Open(u) => pc[u] # "closed"
    BY DEF File, RequestLed, RequestLedFails, RequestLedErr, RequestLedErrFails, Enable, Release,
           ReleaseErr, Disable, Request, Free, Control
  <2>3. ASSUME pc[u] # "closed" PROVE ~In(Make("domain"), todo)
    <3>1. Sound(todo, reg \cup devices, bound)
      BY DEF LuxInv, Queued
    <3>2. "domain" \in reg
      BY <2>3 DEF LuxInv, OpenInv, KnownInv
    <3>3. SUFFICES ASSUME In(Make("domain"), todo) PROVE FALSE
      OBVIOUS
    <3>4. In(Bound("lux-irq", Driver("domain")), todo) /\ Driver("domain") \in Modules
      BY <3>1, <3>3, MakeEnds, ThingsAre, KeepersAre
    <3>5. QED
      BY <3>1, <3>2, <3>3, <3>4, ThingsAre DEF Sound, Local, Probed
  <2>4. CASE Open(u)
    BY <1>1, <2>1, <2>4, KernelKeeps DEF LuxInv, NullInv
  <2>5. CASE ~Open(u)
    BY <1>1, <2>2, <2>3, <2>5, KernelKeeps DEF LuxInv, NullInv
  <2>6. QED
    BY <2>4, <2>5
<1>6. QED
  BY <1>1, <1>3, <1>4, <1>5, KernelKeeps DEF LuxInv

\* DoGet keeps it, case by case of what is made.
LEMMA GetKeeps == ASSUME LuxInv, DoGet PROVE LuxInv'
<1>1. todo # <<>> /\ Head(todo)[1] = "get"
  BY DEF DoGet, Doing
<1>2. Head(todo) \in Instrs
  BY <1>1, SoundTail DEF LuxInv, Queued
<1>3. CASE Head(todo) = Get("class")
  BY <1>3, GetClass DEF Get, Object
<1>4. CASE \E t \in Things \ Platform : Head(todo) = Make(t) /\ Head(todo)[2] = t
  BY <1>4, GetThing DEF Object
<1>5. QED
  BY <1>1, <1>2, <1>3, <1>4, Named

\* DoPut keeps it, case by case of what is given back.
LEMMA PutKeeps == ASSUME LuxInv, DoPut PROVE LuxInv'
<1>1. todo # <<>> /\ Head(todo)[1] = "put"
  BY DEF DoPut, Doing
<1>2. Head(todo) \in Instrs
  BY <1>1, SoundTail DEF LuxInv, Queued
<1>3. CASE Head(todo) = Put("class")
  BY <1>3, PutClass DEF Put, Object
<1>4. CASE Head(todo) = Put("handler")
  BY <1>4, PutHandler DEF Put, Object
<1>5. CASE \E t \in Things \ Platform : Head(todo) = Unmake(t) /\ Head(todo)[2] = t
  BY <1>5, PutThing DEF Object
<1>6. QED
  BY <1>1, <1>2, <1>3, <1>4, <1>5, Named

\* Every step keeps the invariant.
LEMMA LuxInvStep == LuxInv /\ [DriversNext]_vars => LuxInv'
<1> SUFFICES ASSUME LuxInv, [DriversNext]_vars PROVE LuxInv'
  OBVIOUS
<1>1. ASSUME NEW m \in Modules, Insmod(m) \/ Rmmod(m) PROVE LuxInv'
  BY <1>1, InsmodKeeps, RmmodKeeps
<1>2. CASE Step
  BY <1>2, GetKeeps, PutKeeps, MaskKeeps, ForgetKeeps, RegisterKeeps, AddKeeps, DelKeeps, BoundKeeps,
     UnboundKeeps, FailKeeps DEF Step
<1>3. CASE (\E line \in Lines : Raise(line) \/ Dispatch(line)) \/ ChainedHandler
  BY <1>3, InterruptKeeps
<1>4. CASE \E u \in Users : File(u)
  BY <1>4, FilesKeep
<1>5. CASE UNCHANGED vars
  <2>1. UNCHANGED kernel /\ UNCHANGED files /\ hw' = hw /\ cpu' = cpu
    BY <1>5 DEF vars
  <2>2. KernelTypes' /\ NullInv' /\ OpenInv'
    BY <2>1, KernelKeeps DEF LuxInv, KernelTypes, NullInv, OpenInv, files
  <2>3. QED
    BY <2>1, <2>2, KernelKeeps, FilesUntouched DEF LuxInv
<1>6. QED
  BY <1>1, <1>2, <1>3, <1>4, <1>5 DEF DriversNext

\* It holds before the first module is loaded.
LEMMA LuxInvInit == DriversInit => LuxInv
<1> SUFFICES ASSUME DriversInit PROVE LuxInv
  OBVIOUS
<1>1. /\ drivers = {} /\ devices = {"f0", "f1"} /\ bound = [d \in Devices |-> NoDriver] /\ reg = {}
      /\ todo = <<>> /\ chip = [n |-> 0, handler |-> 0, null |-> {}, known |-> FALSE]
      /\ hw = [status |-> {}, mask |-> {}] /\ cpu = [chip |-> 0, pending |-> {}]
      /\ \A u \in Users : pc[u] = "closed"
  BY DEF DriversInit
<1>2. KernelTypes
  BY <1>1, DevicesAre DEF KernelTypes
<1>3. (\A x : ~In(x, todo)) /\ \A d : AtRest(d, todo)
  BY <1>1, EmptyHas
<1>4. Sound(todo, reg \cup devices, bound)
  <2>1. todo \in Seq(Instrs) /\ Tidy(todo)
    BY <1>1 DEF Tidy, Whole, Following, Apart
  <2>2. /\ bound \in [Devices -> Modules \cup {NoDriver}]
        /\ \A d \in Devices : bound[d] = NoDriver
    BY <1>1
  <2>3. \A t \in Things : t \notin reg \cup devices /\ Driver(t) # NoDriver
    <3>1. "f0" \notin Things /\ "f1" \notin Things
      BY DEF Things
    <3>2. NoDriver \notin Modules
      BY DEF NoDriver, Modules
    <3>3. QED
      BY <1>1, <3>1, <3>2, KeepersAre
  <2>4. \A d \in Devices : Local(d, todo, reg \cup devices, bound)
    BY <1>3, <2>2, <2>3 DEF Local, Probed, Removed, Rested
  <2>5. \A c \in Platform : AtRest(c, todo) /\ bound[c] = NoDriver
    BY <1>3, <2>2, ThingsAre
  <2>6. QED
    BY <2>1, <2>2, <2>4, <2>5 DEF Sound
<1>5. Queued
  BY <1>3, <1>4 DEF Queued, LeavesFirst, InitAlone
<1>6. DriversInv /\ ClassInv /\ GoingInv /\ KnownInv /\ IrqGoingInv /\ TimerInv /\ OpenInv /\ NullInv
  BY <1>1, <1>3 DEF DriversInv, ClassInv, GoingInv, KnownInv, IrqGoingInv, TimerInv, OpenInv, NullInv
<1>7. QED
  BY <1>2, <1>5, <1>6, FilesInvInit DEF LuxInv
-----------------------------------------------------------------------------
(***************************************************************************)
(* What follows from the invariant.                                        *)
(***************************************************************************)
LEMMA SoundNow ==
  ASSUME LuxInv
  PROVE  /\ Sound(todo, reg \cup devices, bound) /\ todo \in Seq(Instrs) /\ Tidy(todo)
         /\ \A t \in Things \ Platform : t \in reg \cup devices <=> t \in reg
         /\ \A t \in Platform : t \in reg \cup devices <=> t \in devices
<1>1. Sound(todo, reg \cup devices, bound)
  BY DEF LuxInv, Queued
<1>2. /\ \A t \in Things \ Platform : t \notin devices
      /\ \A t \in Platform : t \notin reg
  BY KeepersAre, ThingsAre DEF LuxInv, KernelTypes
<1>3. QED
  BY <1>1, <1>2 DEF Sound

\* A device is at rest, is probed, or is losing its driver.
LEMMA AtWork ==
  ASSUME LuxInv, NEW d \in Devices
  PROVE  \/ AtRest(d, todo) \/ In(Unbound(d), todo) \/ \E m \in Modules : In(Bound(d, m), todo)
<1>1. SUFFICES ASSUME ~AtRest(d, todo)
               PROVE  In(Unbound(d), todo) \/ \E m \in Modules : In(Bound(d, m), todo)
  OBVIOUS
<1>2. PICK i \in DOMAIN todo : Dev(todo[i]) = d
  BY <1>1 DEF AtRest
<1>3. PICK j \in DOMAIN todo :
        i <= j /\ End(todo[j]) /\ \A k \in i .. j : Dev(todo[k]) = Dev(todo[i])
  BY SoundNow DEF Tidy, Whole
<1>4. DOMAIN todo = 1 .. Len(todo) /\ Len(todo) \in Nat
  BY SoundNow
<1>5. PICK x \in Instrs : x = todo[j] /\ In(x, todo) /\ Dev(x) = d /\ End(x)
  BY <1>2, <1>3, <1>4, SoundNow DEF In
<1>6. x[1] # "register" /\ x # Put("class")
  BY <1>5, Named, OthersDev
<1>7. x[1] \in {"bound", "unbound"}
  BY <1>5, <1>6 DEF End
<1>8. \/ \E e \in Devices, m \in Modules : x = Bound(e, m)
      \/ \E e \in Devices : x = Unbound(e)
  BY <1>5, <1>7, Named
<1>9. \A e \in Devices : Dev(Unbound(e)) = e /\ \A m \in Modules : Dev(Bound(e, m)) = e
  BY InstructionsAre
<1>10. QED
  BY <1>5, <1>8, <1>9

\* Whose things there are is attended to.
LEMMA KeeperAttends ==
  ASSUME LuxInv, NEW t \in Things, t \in reg \cup devices PROVE Attended(Keeper(t))
<1> DEFINE d == Keeper(t)
<1>1. d \in Devices /\ Driver(t) \in Modules
  BY KeepersAre
<1>2. NoDriver \notin Modules
  BY DEF NoDriver, Modules
<1>3. CASE AtRest(d, todo)
  <2>1. bound[d] = Driver(t)
    BY <1>1, <1>3, SoundNow DEF Sound, Local, Rested
  <2>2. QED
    BY <1>1, <1>2, <2>1 DEF Attended
<1>4. \A x : In(x, todo) => x \in ToSet(todo)
  BY DEF In, ToSet
<1>5. CASE In(Unbound(d), todo)
  <2>1. Unbound(d)[1] = "unbound" /\ Unbound(d)[2] = d
    BY DEF Unbound
  <2>2. QED
    BY <1>4, <1>5, <2>1 DEF Attended
<1>6. ASSUME NEW m \in Modules, In(Bound(d, m), todo) PROVE Attended(d)
  <2>1. Bound(d, m)[1] = "bound" /\ Bound(d, m)[2] = d
    BY DEF Bound
  <2>2. QED
    BY <1>4, <1>6, <2>1 DEF Attended
<1>7. QED
  BY <1>1, <1>3, <1>5, <1>6, AtWork

\* The owners the properties speak of are the keepers of this proof.
LEMMA OwnersAre ==
  /\ \A t \in Things \ Platform : OwnerOf(t) = Keeper(t)
  /\ \A t \in Platform : ParentOf[t] = Keeper(t)
<1>1. \A t \in Things \ Platform : OwnerOf(t) = Keeper(t)
  BY DEF Things, Platform, OwnerOf, Keeper
<1>2. Devices \ {"f0", "f1"} = Platform
  BY DevicesAre DEF Platform
<1>3. ToSet(F0Cells) = {"lux-gpio-chip", "lux-chardev"} /\ ToSet(F1Cells) = {"lux-irq", "lux-timer"}
  <2>1. ASSUME NEW a, NEW b PROVE ToSet(<<a, b>>) = {a, b}
    <3>1. DOMAIN <<a, b>> = {1, 2} /\ <<a, b>>[1] = a /\ <<a, b>>[2] = b
      OBVIOUS
    <3>2. QED
      BY <3>1 DEF ToSet
  <2>2. QED
    BY <2>1 DEF F0Cells, F1Cells
<1>4. \A t \in Platform :
        ParentOf[t] = IF t \in {"lux-gpio-chip", "lux-chardev"} THEN "f0"
                      ELSE IF t \in {"lux-irq", "lux-timer"} THEN "f1" ELSE "lux-gpio-chip"
  BY <1>2, <1>3 DEF ParentOf
<1>5. \A t \in Platform : ParentOf[t] = Keeper(t)
  BY <1>4 DEF Platform, Keeper
<1>6. QED
  BY <1>1, <1>5

\* What the invariant says of a device at rest is the first property.
LEMMA LeavesNothing == LuxInv => NothingLeftBehind
<1> SUFFICES ASSUME LuxInv PROVE NothingLeftBehind
  OBVIOUS
<1>1. \A r \in reg \ {"class"} : Attended(OwnerOf(r))
  <2>1. \A r \in reg \ {"class"} : r \in Things \ Platform
    BY DEF LuxInv, KernelTypes
  <2>2. QED
    BY <2>1, KeeperAttends, OwnersAre
<1>2. "class" \in reg => "lux-chardev" \in drivers \/ todo # <<>>
  BY EmptyHas DEF LuxInv, ClassInv
<1>3. \A d \in devices \ {"f0", "f1"} : Attended(ParentOf[d])
  <2>1. \A d \in devices \ {"f0", "f1"} : d \in Platform /\ d \in Things
    BY DevicesAre, ThingsAre DEF LuxInv, KernelTypes
  <2>2. QED
    BY <2>1, KeeperAttends, OwnersAre
<1>4. todo = <<>> => \A d \in Devices : bound[d] \in drivers \cup {NoDriver}
  BY EmptyHas DEF LuxInv, DriversInv
<1>5. QED
  BY <1>1, <1>2, <1>3, <1>4 DEF NothingLeftBehind

\* A thing of a platform device goes before the device does.
LEMMA HasDevice ==
  ASSUME LuxInv, NEW t \in Things, t \in reg \cup devices, Keeper(t) \in Platform
  PROVE  Keeper(t) \in reg \cup devices
<1>1. SUFFICES ASSUME Keeper(t) \notin reg \cup devices PROVE FALSE
  OBVIOUS
<1>2. Keeper(t) \in Devices /\ AtRest(Keeper(t), todo) /\ bound[Keeper(t)] = NoDriver
  BY <1>1, SoundNow, ThingsAre DEF Sound
<1>3. bound[Keeper(t)] = Driver(t)
  BY <1>2, SoundNow DEF Sound, Local, Rested
<1>4. Driver(t) \in Modules /\ NoDriver \notin Modules
  BY KeepersAre DEF NoDriver, Modules
<1>5. QED
  BY <1>2, <1>3, <1>4

\* While a platform device is there, so is what its parent's probe made before it.
LEMMA DeviceKeeps ==
  ASSUME LuxInv, NEW c \in Platform, c \in reg \cup devices,
         NEW s \in Things \ Platform, Later(c, s)
  PROVE  s \in reg \cup devices
<1> DEFINE d == Keeper(c)
<1>1. c \in Things /\ d \in Devices /\ Keeper(s) = d /\ Driver(s) = Driver(c)
  BY ThingsAre, KeepersAre DEF Later
<1>2. Sound(todo, reg \cup devices, bound)
  BY SoundNow
<1>3. CASE AtRest(d, todo)
  BY <1>1, <1>2, <1>3 DEF Sound, Local, Rested
<1>4. CASE In(Unbound(d), todo)
  <2>1. In(Unmake(c), todo) /\ Under(s, c)
    BY <1>1, <1>2, <1>4 DEF Sound, Local, Removed, Under
  <2>2. In(Unmake(s), todo)
    BY <1>1, <1>2, <2>1, UnmakeEnds
  <2>3. QED
    BY <1>1, <1>2, <1>4, <2>2 DEF Sound, Local, Removed
<1>5. ASSUME NEW m \in Modules, In(Bound(d, m), todo) PROVE s \in reg \cup devices
  <2>1. Driver(c) = m /\ ~In(Make(c), todo)
    BY <1>1, <1>2, <1>5 DEF Sound, Local, Probed
  <2>2. ~In(Make(s), todo)
    BY <1>1, <1>2, <2>1, MakeEnds
  <2>3. QED
    BY <1>1, <1>2, <1>5, <2>1, <2>2 DEF Sound, Local, Probed
<1>6. QED
  BY <1>1, <1>3, <1>4, <1>5, AtWork

\* The device node is there only while its class is.
LEMMA NodeHasClass == ASSUME LuxInv, "node" \in reg PROVE "class" \in reg
<1>1. Driver("node") = "lux-chardev" /\ Keeper("node") = "lux-chardev"
  BY DEF Driver, Keeper
<1>2. "node" \in Things /\ "lux-chardev" \in Devices /\ Sound(todo, reg \cup devices, bound)
  BY ThingsAre, SoundNow
<1>3. CASE AtRest("lux-chardev", todo)
  <2>1. bound["lux-chardev"] = "lux-chardev"
    BY <1>1, <1>2, <1>3 DEF Sound, Local, Rested
  <2>2. ~In(Unbound("lux-chardev"), todo)
    BY <1>2, <1>3, NotAtRest, InstructionsAre
  <2>3. "lux-chardev" \in drivers
    <3>1. "lux-chardev" # NoDriver
      BY DEF NoDriver
    <3>2. QED
      BY <1>2, <2>1, <2>2, <3>1 DEF LuxInv, DriversInv
  <2>4. QED
    BY <2>3 DEF LuxInv, ClassInv
<1>4. CASE In(Unbound("lux-chardev"), todo)
  BY <1>4 DEF LuxInv, ClassInv
<1>5. ASSUME NEW m \in Modules, In(Bound("lux-chardev", m), todo) PROVE "class" \in reg
  <2>1. m = "lux-chardev"
    BY <1>1, <1>2, <1>5 DEF Sound, Local, Probed
  <2>2. QED
    BY <1>2, <1>5, <2>1 DEF LuxInv, DriversInv, ClassInv
<1>6. QED
  BY <1>2, <1>3, <1>4, <1>5, AtWork

\* Who holds a line has the file open.
LEMMA HolderOpen == ASSUME LuxInv, held # {} PROVE \E u \in Users : pc[u] # "closed"
  BY DEF LuxInv, FilesInv, LinesHaveAFile, HeldAt

\* The parts about lines, handlers and timers are the second property.
LEMMA DanglesNothing == LuxInv => NothingDangles
<1> SUFFICES ASSUME LuxInv PROVE NothingDangles
  OBVIOUS
<1>1. held # {} \/ "TIMER" \in reg => {"domain", "mappings"} \subseteq reg
  BY HolderOpen DEF LuxInv, OpenInv, TimerInv, KnownInv
<1>2. chip.known => "domain" \in reg
  BY DEF LuxInv, KnownInv
<1>3. /\ Later("lux-leds", "chip") /\ Later("lux-leds", "lookup")
      /\ Later("lux-irq", "f1-bars") /\ Later("lux-timer", "f1-bars")
      /\ Later("lux-chardev", "f0-bars") /\ Later("lux-gpio-chip", "f0-bars")
      /\ Keeper("pins") = "lux-leds" /\ Keeper("remapped") = "lux-leds"
      /\ Keeper("misc") = "lux-timer" /\ Keeper("chip") = "lux-gpio-chip"
  BY DEF Later, Keeper, Driver, Rank
<1>4. \A t \in Things \ Platform : t \in reg \cup devices <=> t \in reg
  BY SoundNow
<1>5. ASSUME NEW t \in {"pins", "remapped"}, t \in reg PROVE {"chip", "lookup"} \subseteq reg
  <2>1. "lux-leds" \in reg \cup devices
    BY <1>3, <1>5, HasDevice, ThingsAre
  <2>2. QED
    BY <1>3, <1>4, <2>1, DeviceKeeps, ThingsAre
<1>6. ASSUME NEW t \in {"domain", "TIMER", "misc"}, t \in reg PROVE "f1-bars" \in reg
  <2>1. PICK c \in {"lux-irq", "lux-timer"} : Keeper(t) = c
    BY <1>3, ThingsAre
  <2>2. c \in reg \cup devices
    BY <1>6, <2>1, HasDevice, ThingsAre
  <2>3. QED
    BY <1>3, <1>4, <2>2, DeviceKeeps, ThingsAre
<1>7. "lux-chardev" \in devices \/ "lux-gpio-chip" \in devices => "f0-bars" \in reg
  BY <1>3, <1>4, DeviceKeeps, ThingsAre
<1>8. "chip" \in reg => "f0-bars" \in reg
  BY <1>3, <1>7, HasDevice, SoundNow, ThingsAre
<1>9. held # {} \/ reg \cap {"chip", "node", "remapped"} # {} => "f0-bars" \in reg
  <2>1. held # {} => "lux-chardev" \in devices
    BY HolderOpen DEF LuxInv, OpenInv
  <2>2. "node" \in reg => "lux-chardev" \in devices
    BY NodeDevice
  <2>3. "remapped" \in reg => "chip" \in reg
    BY <1>5
  <2>4. QED
    BY <1>7, <1>8, <2>1, <2>2, <2>3
<1>10. QED
  BY <1>1, <1>2, <1>5, <1>6, <1>9, NodeHasClass DEF NothingDangles

\* The part about empty mappings is the third.
LEMMA DispatchesNothing == LuxInv => NeverDispatchedToNull
  BY DEF LuxInv, NullInv, NeverDispatchedToNull

\* Whatever modules come and go and whatever fails, for any number of processes: every
\* registration, and every platform device, has a driver that will take it back or is being
\* taken back, and at rest no device has a driver that is gone.
THEOREM DriversLeaveNothingBehind == DriversSpec => []NothingLeftBehind
  BY LuxInvInit, LuxInvStep, LeavesNothing, PTL DEF DriversSpec

\* What is in use exists: a requested line its domain and mapping, the pointer its domain,
\* the LEDs' pins their chip, the device node its class, what a platform device has
\* registered the BARs of its function.
THEOREM DriversDangleNothing == DriversSpec => []NothingDangles
  BY LuxInvInit, LuxInvStep, DanglesNothing, PTL DEF DriversSpec

\* No interrupt is dispatched to a chip without a domain, though the chained handler is in
\* place before the domain is: lux_irq's probe has masked every line, and nobody unmasks one.
THEOREM DriversNeverDispatchToNull == DriversSpec => []NeverDispatchedToNull
  BY LuxInvInit, LuxInvStep, DispatchesNothing, PTL DEF DriversSpec
================================================================================
