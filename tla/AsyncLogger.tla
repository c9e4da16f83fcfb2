----------------------------- MODULE AsyncLogger -----------------------------
(***************************************************************************)
(* AsyncLogger: any thread appends, one worker writes, stop() ends the     *)
(* worker.  running_ is atomic and stop() sets it without the mutex, so    *)
(* its notification may come between the worker's look at it and its wait; *)
(* the wait has a time limit.                                              *)
(***************************************************************************)
EXTENDS Integers, Sequences

CONSTANTS
  MaxQueue,    \* maxQueueSize_
  MaxLines     \* bound: lines appended

VARIABLES
  lines,      \* lines appended so far; the n-th line is the number n
  queue,      \* queue_
  buffer,     \* buffer_, which the worker is writing
  sink,       \* what the sink has got
  dropped,    \* the lines that found the queue full
  running,    \* running_
  worker,     \* where run() is
  stop,       \* where stop() is
  mark        \* lines appended when stop() was called

vars == <<lines, queue, buffer, sink, dropped, running, worker, stop, mark>>

Init ==
  /\ lines = 0 /\ queue = <<>> /\ buffer = <<>> /\ sink = <<>> /\ dropped = {}
  /\ running = TRUE /\ worker = "look" /\ stop = "no" /\ mark = 0

(* append().                                                                *)
AppendLine ==
  /\ lines < MaxLines
  /\ lines' = lines + 1
  /\ IF Len(queue) >= MaxQueue
     THEN dropped' = dropped \cup {lines + 1} /\ UNCHANGED <<queue, worker>>
     ELSE /\ queue' = Append(queue, lines + 1)
          /\ worker' = IF worker = "wait" THEN "look" ELSE worker
          /\ UNCHANGED dropped
  /\ UNCHANGED <<buffer, sink, running, stop, mark>>

(* run(): under the mutex, the predicate of wait_for, then the test for     *)
(* the end.                                                                 *)
Look ==
  /\ worker = "look"
  /\ \/ queue # <<>> /\ buffer' = queue /\ queue' = <<>> /\ worker' = "write"
     \/ queue = <<>> /\ ~running /\ worker' = "end" /\ UNCHANGED <<queue, buffer>>
     \/ queue = <<>> /\ running /\ worker' = "wait" /\ UNCHANGED <<queue, buffer>>
  /\ UNCHANGED <<lines, sink, dropped, running, stop, mark>>

(* The wait ends after flushInterval_ at the latest.                        *)
WaitEnds ==
  /\ worker = "wait"
  /\ worker' = "look"
  /\ UNCHANGED <<lines, queue, buffer, sink, dropped, running, stop, mark>>

(* Mutant of Write: stop() is looked at after each buffer.                  *)
WriteThenQuit ==
  /\ worker = "write"
  /\ sink' = sink \o buffer /\ buffer' = <<>>
  /\ worker' = IF running THEN "look" ELSE "end"
  /\ UNCHANGED <<lines, queue, dropped, running, stop, mark>>

(* run(): outside the mutex.                                                *)
Write ==
  /\ worker = "write"
  /\ sink' = sink \o buffer /\ buffer' = <<>>
  /\ worker' = "look"
  /\ UNCHANGED <<lines, queue, dropped, running, stop, mark>>

(* stop(): running_ = false, ...                                            *)
Stop ==
  /\ stop = "no" /\ running
  /\ running' = FALSE /\ stop' = "notify" /\ mark' = lines
  /\ UNCHANGED <<lines, queue, buffer, sink, dropped, worker>>

(* ...notify_all(), ...                                                     *)
Notify ==
  /\ stop = "notify"
  /\ worker' = IF worker = "wait" THEN "look" ELSE worker
  /\ stop' = "join"
  /\ UNCHANGED <<lines, queue, buffer, sink, dropped, running, mark>>

(* ...join().                                                               *)
Join ==
  /\ stop = "join" /\ worker = "end"
  /\ stop' = "done"
  /\ UNCHANGED <<lines, queue, buffer, sink, dropped, running, worker, mark>>

Next == AppendLine \/ Look \/ WaitEnds \/ Write \/ Stop \/ Notify \/ Join

(* The worker and the thread that stops are threads of their own, and the   *)
(* wait has a time limit.                                                   *)
Fairness == WF_vars(Look \/ WaitEnds \/ Write) /\ WF_vars(Notify \/ Join)

Spec == Init /\ [][Next]_vars /\ Fairness

-----------------------------------------------------------------------------
Written == {sink[i] : i \in DOMAIN sink}

(* stop() returns, and by then the sink has every line appended before it   *)
(* but the dropped ones.                                                    *)
StopFlushes == stop = "notify" ~> stop = "done" /\ 1..mark \subseteq Written \cup dropped
=============================================================================
