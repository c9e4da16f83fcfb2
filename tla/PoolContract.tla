---------------------------- MODULE PoolContract ----------------------------
(***************************************************************************)
(* What a task pool promises the code that submits to it, with no threads, *)
(* locks or condition variables: tasks are started in the order they were  *)
(* accepted, none is accepted once the pool is closed, and the pool is     *)
(* stopped only when every accepted task has finished or, if the pool was  *)
(* closed with Discard, was thrown away without being started.             *)
(***************************************************************************)
EXTENDS Naturals, Sequences

CONSTANT Tasks

VARIABLES
  phase,      \* "open", "closed" or "stopped"
  accepted,   \* accepted tasks, in order
  nStarted,   \* how many of them were started
  finished,   \* the tasks that ran to their end
  dropped     \* the rest of accepted was thrown away

vars == <<phase, accepted, nStarted, finished, dropped>>

Init ==
  /\ phase = "open" /\ accepted = <<>> /\ nStarted = 0
  /\ finished = {} /\ dropped = FALSE

Accept(t) ==
  /\ phase = "open"
  /\ \A i \in DOMAIN accepted : accepted[i] # t
  /\ accepted' = Append(accepted, t)
  /\ UNCHANGED <<phase, nStarted, finished, dropped>>

Start ==
  /\ phase # "stopped" /\ ~dropped
  /\ nStarted < Len(accepted)
  /\ nStarted' = nStarted + 1
  /\ UNCHANGED <<phase, accepted, finished, dropped>>

Finish(i) ==
  /\ phase # "stopped"
  /\ accepted[i] \notin finished
  /\ finished' = finished \cup {accepted[i]}
  /\ UNCHANGED <<phase, accepted, nStarted, dropped>>

Close ==
  /\ phase = "open"
  /\ phase' = "closed"
  /\ dropped' \in {FALSE, nStarted < Len(accepted)}
  /\ UNCHANGED <<accepted, nStarted, finished>>

Stop ==
  /\ phase = "closed"
  /\ dropped \/ nStarted = Len(accepted)
  /\ \A i \in 1..nStarted : accepted[i] \in finished
  /\ phase' = "stopped"
  /\ UNCHANGED <<accepted, nStarted, finished, dropped>>

Next ==
  \/ \E t \in Tasks : Accept(t)
  \/ Start
  \/ \E i \in 1..nStarted : Finish(i)
  \/ Close
  \/ Stop

Spec == Init /\ [][Next]_vars
=============================================================================
