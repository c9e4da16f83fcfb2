---------------------------- MODULE Maintenance ----------------------------
(***************************************************************************)
(* The periodic cleanup of old rows (MaintenanceService).  A timer of the  *)
(* base loop hands runOnce to the general thread pool; several pool        *)
(* threads may therefore enter it at the same time, and a server stop      *)
(* falls anywhere in a sweep.  Each of the cleanup tasks deletes the rows  *)
(* of its table older than the table's retention, a batch at a time.  The  *)
(* counters of the health snapshot are left out.                           *)
(***************************************************************************)
EXTENDS Integers, FiniteSets

CONSTANTS Threads,     \* pool threads
          Tables,      \* number of cleanup tasks, run in the order 1 .. Tables
          Rows,        \* rows a table can hold
          Keep,        \* how long a dead row is kept
          BatchSize, MaxBatches,
          MaxNow,      \* bound: the clock stops here
          MaxFails     \* bound: deletes that fail

VARIABLES table,     \* table[k]: the time a row of table k died, or 0 (alive, or absent)
          now,
          queued,    \* runs the timer has handed to the pool
          running,   \* running_
          stopping,  \* stopRequested_
          at,        \* at[t]: where thread t is
          fails

maintenanceVars == <<table, now, queued, running, stopping, at, fails>>

TaskIds == 1 .. Tables
Out == [task |-> 0, started |-> 0, left |-> 0]
InSweep(t) == at[t].task # 0

Init ==
    /\ table = [k \in TaskIds |-> [r \in Rows |-> 0]]
    /\ now = 1
    /\ queued = 0
    /\ running = FALSE /\ stopping = FALSE
    /\ at = [t \in Threads |-> Out]
    /\ fails = 0
-----------------------------------------------------------------------------
(* The timer callback returns at once when the server is stopping; the     *)
(* bound on queued stands for the pool's queue limit.                      *)
TimerFires ==
    /\ ~stopping
    /\ queued < Cardinality(Threads)
    /\ queued' = queued + 1
    /\ UNCHANGED <<table, now, running, stopping, at, fails>>

(* runOnce: the compare-and-exchange lets one thread in.                   *)
Enter(t) ==
    /\ queued > 0 /\ ~InSweep(t)
    /\ ~running
    /\ queued' = queued - 1
    /\ running' = TRUE
    /\ at' = [at EXCEPT ![t] = [task |-> 1, started |-> now, left |-> MaxBatches]]
    /\ UNCHANGED <<table, now, stopping, fails>>

Skip(t) ==
    /\ queued > 0 /\ ~InSweep(t)
    /\ running
    /\ queued' = queued - 1
    /\ UNCHANGED <<table, now, running, stopping, at, fails>>

(* The next task starts with its own count of batches.                     *)
NextTask(t) ==
    at' = [at EXCEPT ![t].task = @ + 1, ![t].left = MaxBatches]

(* The loop of a task ends when its batches are used up, or on a stop.     *)
LeaveLoop(t) ==
    /\ at[t].task \in TaskIds
    /\ at[t].left = 0 \/ stopping
    /\ NextTask(t)
    /\ UNCHANGED <<table, now, queued, running, stopping, fails>>

(* Mutant: the cutoff is the start of the sweep itself.                    *)
OldNow(k, cutoff) == {r \in Rows : table[k][r] # 0 /\ table[k][r] < cutoff + Keep}

(* The rows a delete takes: dead, and dead before the cutoff.              *)
Old(k, cutoff) == {r \in Rows : table[k][r] # 0 /\ table[k][r] < cutoff}

(* A batch: at most BatchSize of the old rows; a short one ends the task.  *)
(* A look at stopRequested_ precedes every batch.                          *)
DeleteBatch(t) ==
    LET k == at[t].task
        old == Old(k, at[t].started - Keep)
    IN  /\ k \in TaskIds
        /\ at[t].left > 0 /\ ~stopping
        /\ \E batch \in SUBSET old :
               /\ Cardinality(batch) =
                      IF Cardinality(old) < BatchSize THEN Cardinality(old) ELSE BatchSize
               /\ table' = [table EXCEPT ![k] = [r \in Rows |-> IF r \in batch THEN 0 ELSE @[r]]]
               /\ IF Cardinality(batch) < BatchSize
                  THEN NextTask(t)
                  ELSE at' = [at EXCEPT ![t].left = @ - 1]
        /\ UNCHANGED <<now, queued, running, stopping, fails>>

(* Mutant: the exception of a failed delete leaves runOnce, and running_   *)
(* is not reset on that way out.                                           *)
DeleteFailsAndEscapes(t) ==
    /\ at[t].task \in TaskIds
    /\ at[t].left > 0 /\ ~stopping
    /\ fails < MaxFails
    /\ fails' = fails + 1
    /\ at' = [at EXCEPT ![t] = Out]
    /\ UNCHANGED <<table, now, queued, running, stopping>>

(* A delete that fails throws; runTask notes it and the next task runs.    *)
DeleteFails(t) ==
    /\ at[t].task \in TaskIds
    /\ at[t].left > 0 /\ ~stopping
    /\ fails < MaxFails
    /\ fails' = fails + 1
    /\ NextTask(t)
    /\ UNCHANGED <<table, now, queued, running, stopping>>

(* The end of runOnce: the guard resets running_ on every way out.         *)
Finish(t) ==
    /\ at[t].task = Tables + 1
    /\ at' = [at EXCEPT ![t] = Out]
    /\ running' = FALSE
    /\ UNCHANGED <<table, now, queued, stopping, fails>>

(* requestStop, from stopInBaseLoop.                                       *)
RequestStop ==
    /\ ~stopping
    /\ stopping' = TRUE
    /\ UNCHANGED <<table, now, queued, running, at, fails>>

(* Elsewhere a row dies (it expires, is revoked, is handled), now.         *)
RowDies(k, r) ==
    /\ table[k][r] = 0
    /\ table' = [table EXCEPT ![k][r] = now]
    /\ UNCHANGED <<now, queued, running, stopping, at, fails>>

Tick ==
    /\ now < MaxNow
    /\ now' = now + 1
    /\ UNCHANGED <<table, queued, running, stopping, at, fails>>

Work(t) == Enter(t) \/ Skip(t) \/ LeaveLoop(t) \/ DeleteBatch(t) \/ DeleteFails(t) \/ Finish(t)

Next ==
    \/ TimerFires \/ RequestStop \/ Tick
    \/ \E t \in Threads : Work(t)
    \/ \E k \in TaskIds, r \in Rows : RowDies(k, r)

Fairness == WF_maintenanceVars(TimerFires) /\ WF_maintenanceVars(Tick)
            /\ \A t \in Threads : WF_maintenanceVars(Work(t))

Spec == Init /\ [][Next]_maintenanceVars /\ Fairness
-----------------------------------------------------------------------------
(* No row is deleted before it has been dead for the retention of its      *)
(* table, whichever thread sweeps and however long the sweep takes.        *)
RetentionIsKept ==
    [][\A k \in TaskIds, r \in Rows :
        (table[k][r] # 0 /\ table'[k][r] = 0) => table[k][r] + Keep < now]_maintenanceVars

Backlog == {<<k, r>> \in TaskIds \X Rows : table[k][r] # 0 /\ table[k][r] + Keep < MaxNow}

(* The backlog is worked off: while the server runs, the rows that have     *)
(* been dead for long enough are all deleted in the end, although deletes   *)
(* fail, batches are short and runs are skipped while another is under way. *)
OldRowsGo == Backlog # {} ~> Backlog = {} \/ stopping
=============================================================================
