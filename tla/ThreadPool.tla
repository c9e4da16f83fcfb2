----------------------------- MODULE ThreadPool -----------------------------
(***************************************************************************)
(* infra::thread::ThreadPool on top of infra::thread::ThreadSafeQueue: the *)
(* fixed-size pool behind dbReadExecutor, the background pool and every    *)
(* shard of a KeyedSerialExecutor.                                         *)
(*                                                                         *)
(* One step is one critical section or one atomic access.  The queue's     *)
(* condition variable is modelled with its wait set (worker "blocked"), so *)
(* that a lost notification is a behaviour the model can have.             *)
(***************************************************************************)
EXTENDS Integers, Sequences, FiniteSets, Functions

CONSTANTS
  Tasks,      \* tasks handed to submit(), each by one call
  Workers,    \* the threads of threads_
  Stoppers,   \* concurrent callers of stop(), the destructor among them
  Capacity,   \* queueCapacity; 0 is an unbounded queue
  NoTask      \* a worker's local task variable when it holds nothing

ASSUME PoolAssumption ==
  /\ Workers # {}
  /\ Capacity \in Nat
  /\ NoTask \notin Tasks

VARIABLES
  state,      \* state_: "Running", "Stopping" or "Stopped"
  queue,      \* taskQueue_.queue_
  closed,     \* taskQueue_.closed_
  call,       \* program counter of submit(t), its result once it returned
  worker,     \* program counter of each worker thread
  held,       \* the task each worker popped and has not let go of
  stopper,    \* program counter of each stop() call
  mode,       \* the mode argument of each stop() call
  activeTasks, submittedTasks, completedTasks, failedTasks,
  rejectedFull, rejectedStopped,
  pushed,     \* history: tasks in the order push() accepted them
  started,    \* history: tasks in the order waitPop() handed them out
  finished,   \* history: tasks whose body returned or threw
  discarded   \* history: tasks emptied out of the queue by close(Discard)

counters == <<activeTasks, submittedTasks, completedTasks, failedTasks,
              rejectedFull, rejectedStopped>>
history  == <<pushed, started, finished, discarded>>
vars     == <<state, queue, closed, call, worker, held, stopper, mode,
              counters, history>>

CallStates    == {"idle", "pushing", "full", "closed", "pushed",
                  "Accepted", "QueueFull", "Stopping"}
Results       == {"Accepted", "QueueFull", "Stopping"}
WorkerStates  == {"check", "blocked", "popped", "running", "counting", "exited"}
StopperStates == {"idle", "closing", "notifying", "joining", "waiting", "returned"}
Modes         == {"Drain", "Discard"}

Init ==
  /\ state = "Running" /\ queue = <<>> /\ closed = FALSE
  /\ call = [t \in Tasks |-> "idle"]
  /\ worker = [w \in Workers |-> "check"]
  /\ held = [w \in Workers |-> NoTask]
  /\ stopper = [s \in Stoppers |-> "idle"]
  /\ mode = [s \in Stoppers |-> "Drain"]
  /\ activeTasks = 0 /\ submittedTasks = 0 /\ completedTasks = 0
  /\ failedTasks = 0 /\ rejectedFull = 0 /\ rejectedStopped = 0
  /\ pushed = <<>> /\ started = <<>> /\ finished = {} /\ discarded = <<>>

-----------------------------------------------------------------------------
(* submit(): the unlocked test of state_, the locked push, then the         *)
(* notification and the statistics outside the lock.  The test is a relaxed *)
(* load: it may still see Running after stop() left that state.             *)

Submit(t) ==
  /\ call[t] = "idle"
  /\ \/ call' = [call EXCEPT ![t] = "pushing"]
     \/ state # "Running" /\ call' = [call EXCEPT ![t] = "Stopping"]
  /\ UNCHANGED <<state, queue, closed, worker, held, stopper, mode, counters, history>>

Full == Capacity # 0 /\ Len(queue) >= Capacity

(* Mutant of Push: the test of closed_ is gone.                             *)
PushIntoClosed(t) ==
  /\ call[t] = "pushing"
  /\ ~Full
  /\ queue' = Append(queue, t)
  /\ pushed' = Append(pushed, t)
  /\ call' = [call EXCEPT ![t] = "pushed"]
  /\ UNCHANGED <<state, closed, worker, held, stopper, mode, counters,
                 started, finished, discarded>>

Push(t) ==
  /\ call[t] = "pushing"
  /\ \/ /\ closed
        /\ call' = [call EXCEPT ![t] = "closed"]
        /\ UNCHANGED <<queue, pushed>>
     \/ /\ ~closed /\ Full
        /\ call' = [call EXCEPT ![t] = "full"]
        /\ UNCHANGED <<queue, pushed>>
     \/ /\ ~closed /\ ~Full
        /\ queue' = Append(queue, t)
        /\ pushed' = Append(pushed, t)
        /\ call' = [call EXCEPT ![t] = "pushed"]
  /\ UNCHANGED <<state, closed, worker, held, stopper, mode, counters,
                 started, finished, discarded>>

Blocked == {w \in Workers : worker[w] = "blocked"}

(* Mutant of NotifyOne and of NotifyAll: the waiters are not woken.         *)
NotifyNobody == UNCHANGED worker

NotifyOne ==
  IF Blocked = {} THEN UNCHANGED worker
  ELSE \E w \in Blocked : worker' = [worker EXCEPT ![w] = "check"]

NotifyAll ==
  worker' = [w \in Workers |-> IF worker[w] = "blocked" THEN "check" ELSE worker[w]]

(* condVar_.notify_one() of a successful push, the counter, the return.     *)
SubmitReturn(t) ==
  /\ \/ /\ call[t] = "pushed"
        /\ NotifyOne
        /\ submittedTasks' = submittedTasks + 1
        /\ call' = [call EXCEPT ![t] = "Accepted"]
        /\ UNCHANGED <<rejectedFull, rejectedStopped>>
     \/ /\ call[t] = "full"
        /\ rejectedFull' = rejectedFull + 1
        /\ call' = [call EXCEPT ![t] = "QueueFull"]
        /\ UNCHANGED <<worker, submittedTasks, rejectedStopped>>
     \/ /\ call[t] = "closed"
        /\ rejectedStopped' = rejectedStopped + 1
        /\ call' = [call EXCEPT ![t] = "Stopping"]
        /\ UNCHANGED <<worker, submittedTasks, rejectedFull>>
  /\ UNCHANGED <<state, queue, closed, held, stopper, mode, activeTasks,
                 completedTasks, failedTasks, history>>

-----------------------------------------------------------------------------
(* workerThread(): waitPop() under the queue's mutex, then the task.        *)

WaitPop(w) ==
  /\ worker[w] = "check"
  /\ \/ /\ queue # <<>>
        /\ held' = [held EXCEPT ![w] = Head(queue)]
        /\ started' = Append(started, Head(queue))
        /\ queue' = Tail(queue)
        /\ worker' = [worker EXCEPT ![w] = "popped"]
     \/ /\ queue = <<>>
        /\ worker' = [worker EXCEPT ![w] = IF closed THEN "exited" ELSE "blocked"]
        /\ UNCHANGED <<held, started, queue>>
  /\ UNCHANGED <<state, closed, call, stopper, mode, counters, pushed, finished, discarded>>

(* A condition variable may wake a waiter without a notification.           *)
SpuriousWake(w) ==
  /\ worker[w] = "blocked"
  /\ worker' = [worker EXCEPT ![w] = "check"]
  /\ UNCHANGED <<state, queue, closed, call, held, stopper, mode, counters, history>>

BeginTask(w) ==
  /\ worker[w] = "popped"
  /\ activeTasks' = activeTasks + 1
  /\ worker' = [worker EXCEPT ![w] = "running"]
  /\ UNCHANGED <<state, queue, closed, call, held, stopper, mode, submittedTasks,
                 completedTasks, failedTasks, rejectedFull, rejectedStopped, history>>

(* The body returned or threw; both paths first decrement activeTasks_.     *)
EndTask(w) ==
  /\ worker[w] = "running"
  /\ activeTasks' = activeTasks - 1
  /\ finished' = finished \cup {held[w]}
  /\ worker' = [worker EXCEPT ![w] = "counting"]
  /\ UNCHANGED <<state, queue, closed, call, held, stopper, mode, submittedTasks,
                 completedTasks, failedTasks, rejectedFull, rejectedStopped,
                 pushed, started, discarded>>

CountTask(w) ==
  /\ worker[w] = "counting"
  /\ \/ completedTasks' = completedTasks + 1 /\ UNCHANGED failedTasks
     \/ failedTasks' = failedTasks + 1 /\ UNCHANGED completedTasks
  /\ held' = [held EXCEPT ![w] = NoTask]
  /\ worker' = [worker EXCEPT ![w] = "check"]
  /\ UNCHANGED <<state, queue, closed, call, stopper, mode, activeTasks,
                 submittedTasks, rejectedFull, rejectedStopped, history>>

-----------------------------------------------------------------------------
(* stop(mode).  Only the caller that finds Running performs the shutdown.   *)

(* Mutant of StopEnter: whoever finds the pool Stopping does not wait.      *)
StopEnterNoWait(s, m) ==
  /\ stopper[s] = "idle"
  /\ mode' = [mode EXCEPT ![s] = m]
  /\ stopper' = [stopper EXCEPT ![s] = IF state = "Running" THEN "closing" ELSE "returned"]
  /\ state' = IF state = "Running" THEN "Stopping" ELSE state
  /\ UNCHANGED <<queue, closed, call, worker, held, counters, history>>

StopEnter(s, m) ==
  /\ stopper[s] = "idle"
  /\ mode' = [mode EXCEPT ![s] = m]
  /\ \/ /\ state = "Stopped"
        /\ stopper' = [stopper EXCEPT ![s] = "returned"]
        /\ UNCHANGED state
     \/ /\ state = "Stopping"
        /\ stopper' = [stopper EXCEPT ![s] = "waiting"]
        /\ UNCHANGED state
     \/ /\ state = "Running"
        /\ stopper' = [stopper EXCEPT ![s] = "closing"]
        /\ state' = "Stopping"
  /\ UNCHANGED <<queue, closed, call, worker, held, counters, history>>

(* taskQueue_.close(): the locked part; a second close() does nothing.      *)
StopClose(s) ==
  /\ stopper[s] = "closing"
  /\ stopper' = [stopper EXCEPT ![s] = "notifying"]
  /\ closed' = TRUE
  /\ IF mode[s] = "Discard" /\ ~closed
     THEN discarded' = queue /\ queue' = <<>>
     ELSE UNCHANGED <<discarded, queue>>
  /\ UNCHANGED <<state, call, worker, held, mode, counters, pushed, started, finished>>

StopNotify(s) ==
  /\ stopper[s] = "notifying"
  /\ stopper' = [stopper EXCEPT ![s] = "joining"]
  /\ NotifyAll
  /\ UNCHANGED <<state, queue, closed, call, held, mode, counters, history>>

StopJoin(s) ==
  /\ stopper[s] = "joining"
  /\ \A w \in Workers : worker[w] = "exited"
  /\ state' = "Stopped"
  /\ stopper' = [stopper EXCEPT ![s] = "returned"]
  /\ UNCHANGED <<queue, closed, call, worker, held, mode, counters, history>>

StopWait(s) ==
  /\ stopper[s] = "waiting"
  /\ state = "Stopped"
  /\ stopper' = [stopper EXCEPT ![s] = "returned"]
  /\ UNCHANGED <<state, queue, closed, call, worker, held, mode, counters, history>>

-----------------------------------------------------------------------------
SubmitStep(t) == Submit(t) \/ Push(t) \/ SubmitReturn(t)
WorkerStep(w) == WaitPop(w) \/ BeginTask(w) \/ EndTask(w) \/ CountTask(w)
StopStep(s)   == StopClose(s) \/ StopNotify(s) \/ StopJoin(s) \/ StopWait(s)

(* Every call has returned: the only state in which nothing is left to do.  *)
AllReturned ==
  /\ \A t \in Tasks : call[t] \in Results
  /\ \A s \in Stoppers : stopper[s] = "returned"
  /\ UNCHANGED vars

Next ==
  \/ \E t \in Tasks : SubmitStep(t)
  \/ \E w \in Workers : WorkerStep(w) \/ SpuriousWake(w)
  \/ \E s \in Stoppers : StopStep(s) \/ \E m \in Modes : StopEnter(s, m)
  \/ AllReturned

Spec == Init /\ [][Next]_vars

(* Threads are scheduled and task bodies return.  Nobody is obliged to call *)
(* submit() or stop().                                                      *)
Fairness ==
  /\ \A t \in Tasks : WF_vars(Push(t)) /\ WF_vars(SubmitReturn(t))
  /\ \A w \in Workers : WF_vars(WorkerStep(w))
  /\ \A s \in Stoppers : WF_vars(StopStep(s))

FairSpec == Spec /\ Fairness

-----------------------------------------------------------------------------
(* The values the variables take.                                           *)
TypeOK ==
  /\ state \in {"Running", "Stopping", "Stopped"}
  /\ queue \in Seq(Tasks) /\ closed \in BOOLEAN
  /\ call \in [Tasks -> CallStates]
  /\ worker \in [Workers -> WorkerStates]
  /\ held \in [Workers -> Tasks \cup {NoTask}]
  /\ stopper \in [Stoppers -> StopperStates]
  /\ mode \in [Stoppers -> Modes]
  /\ activeTasks \in Int /\ submittedTasks \in Nat /\ completedTasks \in Nat
  /\ failedTasks \in Nat /\ rejectedFull \in Nat /\ rejectedStopped \in Nat
  /\ pushed \in Seq(Tasks) /\ started \in Seq(Tasks)
  /\ finished \subseteq Tasks /\ discarded \in Seq(Tasks)

(* Hand-off: whatever the interleaving of submitters, workers and stop(),   *)
(* the tasks push() accepted are, in that order, the ones already handed to *)
(* a worker, then the ones queued, then the ones close(Discard) threw away: *)
(* none is lost, duplicated or overtaken.                                   *)
OrderedHandOff == pushed = started \o queue \o discarded

(* A submit() that returned QueueFull or Stopping left no task behind, so   *)
(* the error its caller reports to the client is true; one that returned    *)
(* Accepted did hand its task over.                                         *)
ResultIsTruthful ==
  \A t \in Tasks :
    /\ call[t] \in {"idle", "pushing", "full", "closed", "QueueFull", "Stopping"}
         => t \notin Range(pushed)
    /\ call[t] \in {"pushed", "Accepted"} => t \in Range(pushed)

(* When any call of stop() has returned, the second of two concurrent       *)
(* callers included, every worker thread is gone and no task is queued or   *)
(* running: what the tasks captured can be destroyed.                       *)
QuietAfterStop ==
  (\E s \in Stoppers : stopper[s] = "returned") =>
     /\ \A w \in Workers : worker[w] = "exited" /\ held[w] = NoTask
     /\ queue = <<>>

(* stop(Drain) finishes everything that was ever accepted, also what a      *)
(* submit() that passed the state_ test before stop() pushed after it.      *)
DrainFinishesAccepted ==
  /\ (\A s \in Stoppers : mode[s] = "Drain") => discarded = <<>>
  /\ state = "Stopped" => Range(pushed) = finished \cup Range(discarded)

(* Every stop() returns: workers blocked in waitPop() are woken by close(). *)
StopReturns == \A s \in Stoppers : stopper[s] # "idle" ~> stopper[s] = "returned"

(* Every accepted task is run, or thrown away by stop(Discard): no          *)
(* notification is lost between push() and waitPop().                       *)
AcceptedIsServed ==
  \A t \in Tasks : t \in Range(pushed) ~> t \in finished \cup Range(discarded)

(* The pool implements its contract.                                        *)
Contract == INSTANCE PoolContract WITH
  phase    <- IF state = "Stopped" THEN "stopped" ELSE IF closed THEN "closed" ELSE "open",
  accepted <- pushed,
  nStarted <- Len(started),
  finished <- finished,
  dropped  <- discarded # <<>>

(* Refinement: every step of the threads is a step of PoolContract or none. *)
ImplementsContract == Contract!Spec
=============================================================================
