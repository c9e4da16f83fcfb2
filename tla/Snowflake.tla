------------------------------ MODULE Snowflake ------------------------------
(***************************************************************************)
(* SnowflakeIdGenerator: message and account ids from a clock that other   *)
(* programs set.  nextId() holds its mutex from the first line to the      *)
(* last, its sleeps included, so one call is under way at a time; the      *)
(* clock moves during the call.  The node part of an id is a constant and  *)
(* is left out.                                                            *)
(***************************************************************************)
EXTENDS Integers

CONSTANTS
  SeqSize,     \* 4096: ids of one millisecond
  Tolerance,   \* 5: a clock this far behind is waited for
  Epoch,       \* epochMs_
  MaxClock     \* bound: the last millisecond

VARIABLES
  clock,       \* system_clock, in milliseconds
  last,        \* lastTimestampMs_
  sequence,    \* sequence_
  call,        \* the call under way: none, or the loop it sleeps in
  id,          \* history: the id returned last, -1 before the first
  made,        \* history: the millisecond of that id
  fresh        \* history: the process has returned no id since it started

vars == <<clock, last, sequence, call, id, made, fresh>>

Init ==
  /\ clock \in (Epoch + 1)..MaxClock
  /\ last = 0 /\ sequence = 0 /\ call = "none" /\ id = -1
  /\ made = 0 /\ fresh = TRUE

(* timestampPart | nodePart | sequence_: the parts do not overlap.          *)
Id(ms, seq) == (ms - Epoch) * SeqSize + seq

(* The tail of nextId(); a time before the epoch throws, too late for last. *)
Return(ms, seq) ==
  /\ last' = ms /\ sequence' = seq
  /\ IF ms < Epoch THEN UNCHANGED <<id, made, fresh>>
     ELSE id' = Id(ms, seq) /\ made' = ms /\ fresh' = FALSE
  /\ call' = "none"

(* Mutant of NextId: every call takes the next number of the millisecond.   *)
NextIdNoWait ==
  /\ call = "none" /\ clock >= last
  /\ Return(clock, IF clock = last THEN (sequence + 1) % SeqSize ELSE 0)
  /\ UNCHANGED clock

(* nextId(): a new millisecond starts at 0, the same one counts on; when    *)
(* the numbers of a millisecond are used up the next one is waited for.     *)
NextId ==
  /\ call = "none" /\ clock >= last
  /\ IF clock = last /\ (sequence + 1) % SeqSize = 0
     THEN call' = "sequence" /\ sequence' = 0 /\ UNCHANGED <<last, id, made, fresh>>
     ELSE Return(clock, IF clock = last THEN (sequence + 1) % SeqSize ELSE 0)
  /\ UNCHANGED clock

(* nextId(): the clock is behind.  Further than the tolerance throws, and   *)
(* leaves everything as it is.                                              *)
ClockBehind ==
  /\ call = "none" /\ clock < last /\ last - clock <= Tolerance
  /\ call' = "behind"
  /\ UNCHANGED <<clock, last, sequence, id, made, fresh>>

(* Both loops end at the first reading after last; the sequence is 0 then.  *)
Wake ==
  /\ call # "none" /\ clock > last
  /\ Return(clock, 0)
  /\ UNCHANGED clock

(* Time passes, or the clock is set.                                        *)
SetClock(t) ==
  /\ clock' = t
  /\ UNCHANGED <<last, sequence, call, id, made, fresh>>

(* The server is started again, with both fields at their defaults; the     *)
(* constructor refuses a clock that is not past the epoch.                  *)
Restart ==
  /\ clock > Epoch
  /\ last' = 0 /\ sequence' = 0 /\ call' = "none" /\ fresh' = TRUE
  /\ UNCHANGED <<clock, id, made>>

Next == NextId \/ ClockBehind \/ Wake \/ Restart \/ \E t \in 0..MaxClock : SetClock(t)

Spec == Init /\ [][Next]_vars

-----------------------------------------------------------------------------
(* The values the variables take.                                           *)
TypeOK ==
  /\ clock \in 0..MaxClock /\ last \in Nat /\ sequence \in 0..(SeqSize - 1)
  /\ call \in {"none", "sequence", "behind"} /\ id \in Int
  /\ made \in Nat /\ fresh \in BOOLEAN

(* Every id is larger than the one before it, however the clock is set      *)
(* while the server runs and however many calls share a millisecond:        *)
(* nextId() is the order of messages and of account numbers.  No field      *)
(* survives a restart, so for the first id of a process the same is true    *)
(* only if the clock has passed the millisecond of the last id before it.   *)
IdsGrow == [][id' # id /\ (fresh => clock > made) => id' > id]_vars
=============================================================================
