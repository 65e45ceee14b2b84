------------------------------ MODULE AlarmService ------------------------------
(***************************************************************************)
(* What /dev/lux-timer promises its subscribers, whatever comparator,      *)
(* interrupt, worker, lock and tree it takes: each has one alarm of its    *)
(* own, which nobody else moves; it never rings before it is due; one      *)
(* that repeats is next due a period after it was due, not after it rang;  *)
(* one that does not rings once.                                           *)
(*                                                                         *)
(* Whether it repeats is asked twice: when it rings, for when it is next   *)
(* due, and when it has rung, for whether it is set again.  Whoever makes  *)
(* it repeat in between gets an alarm that is due at 0, and rings for all  *)
(* the periods that have passed since.                                     *)
(***************************************************************************)
EXTENDS Naturals

CONSTANTS
  Subs,         \* subscribers
  Moments,      \* times a clock shows and an alarm is asked for
  Periods       \* periods asked for

VARIABLES
  now,          \* the time
  pending,      \* subscribers with an alarm
  due,          \* when it is due
  length,       \* the period asked for, 0 before any is
  repeats,      \* whether the alarm repeats
  rung,         \* whether it has rung since the last read
  ringing       \* whose alarm is ringing, nobody's or one subscriber's

vars == <<now, pending, due, length, repeats, rung, ringing>>

Init ==
  /\ now = 0
  /\ pending = {}
  /\ due = [s \in Subs |-> 0]
  /\ length = [s \in Subs |-> 0]
  /\ repeats = [s \in Subs |-> FALSE]
  /\ rung = [s \in Subs |-> FALSE]
  /\ ringing = {}

Advance ==
  /\ now' \in Moments
  /\ now' > now
  /\ UNCHANGED <<pending, due, length, repeats, rung, ringing>>

Set(s, t) ==
  /\ s \notin ringing
  /\ pending' = pending \cup {s}
  /\ due' = [due EXCEPT ![s] = t]
  /\ UNCHANGED <<now, length, repeats, rung, ringing>>

\* The first period began in the caller's past: it need not have had the CPU since.
SetPeriod(s, d) ==
  /\ s \notin ringing
  /\ \E since \in Moments : since <= now /\ due' = [due EXCEPT ![s] = since + d]
  /\ pending' = pending \cup {s}
  /\ length' = [length EXCEPT ![s] = d]
  /\ UNCHANGED <<now, repeats, rung, ringing>>

\* A period of zero would ring for ever.
Repeat(s) ==
  /\ length[s] # 0
  /\ repeats' = [repeats EXCEPT ![s] = TRUE]
  /\ UNCHANGED <<now, pending, due, length, rung, ringing>>

Once(s) ==
  /\ repeats' = [repeats EXCEPT ![s] = FALSE]
  /\ UNCHANGED <<now, pending, due, length, rung, ringing>>

NextDue(s) == IF repeats[s] THEN due[s] + length[s] ELSE 0

Ring(s) ==
  /\ s \in pending
  /\ due[s] <= now
  /\ ringing = {}
  /\ ringing' = {s}
  /\ pending' = pending \ {s}
  /\ due' = [due EXCEPT ![s] = NextDue(s)]
  /\ rung' = [rung EXCEPT ![s] = TRUE]
  /\ UNCHANGED <<now, length, repeats>>

Again(s) ==
  /\ s \in ringing
  /\ ringing' = {}
  /\ pending' = IF repeats[s] THEN pending \cup {s} ELSE pending
  /\ UNCHANGED <<now, due, length, repeats, rung>>

Take(s) ==
  /\ rung[s]
  /\ rung' = [rung EXCEPT ![s] = FALSE]
  /\ UNCHANGED <<now, pending, due, length, repeats, ringing>>

\* A file that is closed, or just opened, has no alarm and no period.
Forget(s) ==
  /\ s \notin ringing
  /\ pending' = pending \ {s}
  /\ due' = [due EXCEPT ![s] = 0]
  /\ length' = [length EXCEPT ![s] = 0]
  /\ repeats' = [repeats EXCEPT ![s] = FALSE]
  /\ rung' = [rung EXCEPT ![s] = FALSE]
  /\ UNCHANGED <<now, ringing>>

Next ==
  \/ Advance
  \/ \E s \in Subs :
       \/ \E t \in Moments : Set(s, t)
       \/ \E d \in Periods : SetPeriod(s, d)
       \/ Repeat(s) \/ Once(s) \/ Ring(s) \/ Again(s) \/ Take(s) \/ Forget(s)

Spec == Init /\ [][Next]_vars
=============================================================================
