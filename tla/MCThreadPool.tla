---------------------------- MODULE MCThreadPool ----------------------------
(* ThreadPool for TLC: two workers, two concurrent stop() calls, a queue    *)
(* that two submitters can overrun.                                         *)
EXTENDS ThreadPool

CONSTANTS t1, t2, w1, w2, s1, s2

MCTasks    == {t1, t2}
MCWorkers  == {w1, w2}
MCStoppers == {s1, s2}
=============================================================================
