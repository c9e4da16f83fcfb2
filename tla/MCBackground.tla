---------------------------- MODULE MCBackground ----------------------------
(***************************************************************************)
(* What happens on its own, one part at a time: the timers of a loop, the  *)
(* periodic cleanup one of them starts on the thread pool, and the         *)
(* logger's thread.  `which' is the part that runs; the others rest in     *)
(* their first state.                                                      *)
(***************************************************************************)
EXTENDS TimerQueue

CONSTANTS w1, w2, r1, r2

(* One-shot and repeating timers; delays that are over already and delays   *)
(* that share a round.                                                      *)
MCIntervals == {0, 2}
MCDelays    == {0, 2}

VARIABLES
  which,
  table, day, queued, sweeping, stopping, at, fails,
  lines, logQueue, buffer, sink, dropped, logRunning, worker, stop, mark

cleanupVars == <<table, day, queued, sweeping, stopping, at, fails>>
loggerVars == <<lines, logQueue, buffer, sink, dropped, logRunning, worker, stop, mark>>

(* Two pool threads, two tasks; a batch and a sweep take one row of two.    *)
M == INSTANCE Maintenance WITH
  Threads <- {w1, w2}, Tables <- 2, Rows <- {r1, r2}, Keep <- 1, BatchSize <- 1,
  MaxBatches <- 1, MaxNow <- 3, MaxFails <- 1, now <- day, running <- sweeping

L == INSTANCE AsyncLogger WITH
  MaxQueue <- 2, MaxLines <- 5, queue <- logQueue, running <- logRunning

all == <<which, vars, cleanupVars, loggerVars>>

MCInit ==
  /\ which \in {"timers", "cleanup", "logger"}
  /\ Init /\ M!Init /\ L!Init

OnlyTimers  == which = "timers"  /\ UNCHANGED <<which, cleanupVars, loggerVars>>
OnlyCleanup == which = "cleanup" /\ UNCHANGED <<which, vars, loggerVars>>
OnlyLogger  == which = "logger"  /\ UNCHANGED <<which, vars, cleanupVars>>

RunTimers  == OnlyTimers /\ Next
RunCleanup == OnlyCleanup /\ M!Next
RunLogger  == OnlyLogger /\ L!Next

MCNext == RunTimers \/ RunCleanup \/ RunLogger

(* Each part's own fairness, of the part that runs.                         *)
MCFairness ==
  /\ WF_all(OnlyTimers /\ Loop) /\ WF_all(OnlyTimers /\ Tick)
  /\ WF_all(OnlyCleanup /\ M!TimerFires) /\ WF_all(OnlyCleanup /\ M!Tick)
  /\ \A w \in {w1, w2} : WF_all(OnlyCleanup /\ M!Work(w))
  /\ WF_all(OnlyLogger /\ (L!Look \/ L!WaitEnds \/ L!Write))
  /\ WF_all(OnlyLogger /\ (L!Notify \/ L!Join))

MCSpec == MCInit /\ [][MCNext]_all /\ MCFairness

-----------------------------------------------------------------------------
(* Maintenance: no row goes before its retention is over.                   *)
RetentionIsKept == M!RetentionIsKept

(* Maintenance: while the server runs, old rows go in the end.              *)
OldRowsGo == M!OldRowsGo

(* AsyncLogger: stop() returns with every earlier line written, or counted  *)
(* as dropped.                                                              *)
StopFlushes == L!StopFlushes
=============================================================================
