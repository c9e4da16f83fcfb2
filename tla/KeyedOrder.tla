----------------------------- MODULE KeyedOrder -----------------------------
(***************************************************************************)
(* What KeyedSerialExecutor promises, with no shards: every key has its    *)
(* own queue and its own worker.  Tasks of one key run one at a time, in   *)
(* the order they were accepted; a stop(Discard) may empty queues.         *)
(***************************************************************************)
EXTENDS Sequences

CONSTANTS Keys, Tasks, KeyOf, NoTask

VARIABLES
  waiting,   \* per key, the accepted tasks that did not start
  active,    \* per key, the task being executed
  finished   \* the tasks that were executed

vars == <<waiting, active, finished>>

Init ==
  /\ waiting = [k \in Keys |-> <<>>]
  /\ active = [k \in Keys |-> NoTask]
  /\ finished = {}

Accept(t) ==
  /\ waiting' = [waiting EXCEPT ![KeyOf[t]] = Append(@, t)]
  /\ UNCHANGED <<active, finished>>

Start(k) ==
  /\ active[k] = NoTask /\ waiting[k] # <<>>
  /\ active' = [active EXCEPT ![k] = Head(waiting[k])]
  /\ waiting' = [waiting EXCEPT ![k] = Tail(@)]
  /\ UNCHANGED finished

Finish(k) ==
  /\ active[k] # NoTask
  /\ finished' = finished \cup {active[k]}
  /\ active' = [active EXCEPT ![k] = NoTask]
  /\ UNCHANGED waiting

Drop(ks) ==
  /\ waiting' = [k \in Keys |-> IF k \in ks THEN <<>> ELSE waiting[k]]
  /\ UNCHANGED <<active, finished>>

Next ==
  \/ \E ks \in SUBSET Keys : Drop(ks)
  \/ \E t \in Tasks : Accept(t)
  \/ \E k \in Keys : Start(k) \/ Finish(k)

Spec == Init /\ [][Next]_vars
=============================================================================
