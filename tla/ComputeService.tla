----------------------------- MODULE ComputeService -----------------------------
(***************************************************************************)
(* What MATHACCEL_IOC_COMPUTE promises its callers: each call is accepted  *)
(* into a bounded first-in-first-out service or refused because that many  *)
(* are under way; an accepted call is executed once, and returns the       *)
(* outcome of its own command.                                             *)
(***************************************************************************)
EXTENDS Naturals, Sequences

CONSTANTS
  Tasks,        \* threads that call the ioctl
  Requests,     \* commands they ask for
  Capacity,     \* calls under way at once
  Answer(_),    \* the outcome of a command
  Busy,         \* returned to a refused call
  Nothing       \* nothing returned yet

VARIABLES
  phase,        \* what each task's call is doing
  request,      \* what it asks for
  queue,        \* accepted calls, oldest first
  served,       \* calls executed but not yet answered, oldest first
  returned      \* what the task's last call returned

vars == <<phase, request, queue, served, returned>>

UnderWay == Len(queue) + Len(served)

Init ==
  /\ phase = [t \in Tasks |-> "idle"]
  /\ request \in [Tasks -> Requests]
  /\ queue = <<>>
  /\ served = <<>>
  /\ returned = [t \in Tasks |-> Nothing]

Call(t, r) ==
  /\ phase[t] = "idle"
  /\ phase' = [phase EXCEPT ![t] = "called"]
  /\ request' = [request EXCEPT ![t] = r]
  /\ returned' = [returned EXCEPT ![t] = Nothing]
  /\ UNCHANGED <<queue, served>>

Accept(t) ==
  /\ phase[t] = "called"
  /\ UnderWay < Capacity
  /\ phase' = [phase EXCEPT ![t] = "accepted"]
  /\ queue' = Append(queue, t)
  /\ UNCHANGED <<request, served, returned>>

Refuse(t) ==
  /\ phase[t] = "called"
  /\ UnderWay = Capacity
  /\ phase' = [phase EXCEPT ![t] = "idle"]
  /\ returned' = [returned EXCEPT ![t] = Busy]
  /\ UNCHANGED <<request, queue, served>>

ServeAll ==
  /\ queue # <<>>
  /\ queue' = <<>>
  /\ served' = served \o queue
  /\ UNCHANGED <<phase, request, returned>>

AnswerOldest ==
  /\ served # <<>>
  /\ phase' = [phase EXCEPT ![Head(served)] = "answered"]
  /\ served' = Tail(served)
  /\ UNCHANGED <<request, queue, returned>>

Return(t) ==
  /\ phase[t] = "answered"
  /\ phase' = [phase EXCEPT ![t] = "idle"]
  /\ returned' = [returned EXCEPT ![t] = Answer(request[t])]
  /\ UNCHANGED <<request, queue, served>>

Next ==
  \/ \E t \in Tasks :
       \/ \E r \in Requests : Call(t, r)
       \/ Accept(t) \/ Refuse(t) \/ Return(t)
  \/ ServeAll
  \/ AnswerOldest

Spec == Init /\ [][Next]_vars
=============================================================================
