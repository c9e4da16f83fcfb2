-------------------------- MODULE ThreadPool_proofs --------------------------
(***************************************************************************)
(* Proofs that the safety properties of ThreadPool hold for any number of  *)
(* tasks, workers and concurrent stop() calls and for any queue capacity.  *)
(***************************************************************************)
EXTENDS ThreadPool, SequenceTheorems, TLAPS

-----------------------------------------------------------------------------
(* What Append, Head, Tail and \o do to the hand-off equation.              *)

(* Pushing at the back of the queue is pushing at the back of the whole.    *)
LEMMA PushBack ==
  \A a, q \in Seq(Tasks) : \A x \in Tasks : Append(a \o q, x) = a \o Append(q, x)
<1> SUFFICES ASSUME NEW a \in Seq(Tasks), NEW q \in Seq(Tasks), NEW x \in Tasks
             PROVE  Append(a \o q, x) = a \o Append(q, x)
  BY Zenon
<1> QED OBVIOUS

(* Moving the head of the queue to the end of the started tasks changes     *)
(* nothing in their concatenation.                                          *)
LEMMA MoveHead ==
  ASSUME NEW S, NEW a \in Seq(S), NEW q \in Seq(S), q # <<>>
  PROVE  /\ Head(q) \in S /\ Tail(q) \in Seq(S)
         /\ Append(a, Head(q)) \o Tail(q) = a \o q
  OBVIOUS

(* Concatenating the empty sequence.                                        *)
LEMMA NoTail ==
  ASSUME NEW S, NEW a \in Seq(S)
  PROVE  a \o <<>> = a
  OBVIOUS

(* The elements of an extended sequence.                                    *)
LEMMA RangeAppend ==
  ASSUME NEW S, NEW a \in Seq(S), NEW x \in S
  PROVE  Range(Append(a, x)) = Range(a) \cup {x}
<1>1. Append(a, x) = a \o <<x>>
  BY AppendIsConcat
<1>2. <<x>> \in Seq(S) /\ Range(<<x>>) = {x}
  BY DEF Range
<1>3. \A b \in Seq(S) : Range(a \o b) = Range(a) \cup Range(b)
  BY RangeConcatenation, Zenon
<1>4. Range(a \o <<x>>) = Range(a) \cup Range(<<x>>)
  BY <1>2, <1>3, Zenon
<1> QED BY <1>1, <1>2, <1>4

-----------------------------------------------------------------------------
(* The inductive invariant.                                                 *)

(* The stop protocol: one caller shuts down, the others wait for it.        *)
Shutting == {"closing", "notifying", "joining"}

StopProtocol ==
  /\ state = "Running" => ~closed /\ \A s \in Stoppers : stopper[s] = "idle"
  /\ state = "Stopped" => closed /\ \A w \in Workers : worker[w] = "exited"
  /\ \A s \in Stoppers :
       /\ stopper[s] \in Shutting => state = "Stopping"
       /\ stopper[s] = "closing" => ~closed
       /\ stopper[s] \in {"notifying", "joining"} => closed
       /\ stopper[s] = "returned" => state = "Stopped"
       /\ stopper[s] = "idle" => mode[s] = "Drain"
  /\ \A r, s \in Stoppers : stopper[r] \in Shutting /\ stopper[s] \in Shutting => r = s

(* What a worker's program counter says of the queue and of its local task. *)
WorkerFacts ==
  \A w \in Workers :
    /\ worker[w] = "exited" => closed /\ queue = <<>>
    /\ worker[w] \in {"check", "blocked", "exited"} <=> held[w] = NoTask

(* A started task has finished or is in the hands of a worker; only started *)
(* tasks finish.                                                            *)
StartedFacts ==
  /\ \A t \in Range(started) :
       t \in finished \/ \E w \in Workers : held[w] = t /\ worker[w] \in {"popped", "running"}
  /\ \A w \in Workers : held[w] # NoTask => held[w] \in Range(started)
  /\ finished \subseteq Range(started)

(* Discarding happens once, when a Discard closes the queue, and leaves it  *)
(* empty for good.                                                          *)
DiscardFacts ==
  /\ discarded # <<>> => closed /\ queue = <<>>
  /\ (\A s \in Stoppers : mode[s] = "Drain") => discarded = <<>>

IInv ==
  /\ TypeOK
  /\ OrderedHandOff
  /\ ResultIsTruthful
  /\ StopProtocol
  /\ WorkerFacts
  /\ StartedFacts
  /\ DiscardFacts
-----------------------------------------------------------------------------
(* Initial states satisfy the invariant.                                    *)
LEMMA InitInv == Init => IInv
<1> SUFFICES ASSUME Init PROVE IInv
  OBVIOUS
<1> USE PoolAssumption DEF Init
<1>1. TypeOK
  <2>1. <<>> \in Seq(Tasks)
    BY EmptySeq
  <2>2. "Running" \in {"Running", "Stopping", "Stopped"} /\ FALSE \in BOOLEAN /\ {} \subseteq Tasks
    OBVIOUS
  <2>3. call \in [Tasks -> CallStates] /\ worker \in [Workers -> WorkerStates]
    BY DEF CallStates, WorkerStates
  <2>4. held \in [Workers -> Tasks \cup {NoTask}]
    OBVIOUS
  <2>5. stopper \in [Stoppers -> StopperStates] /\ mode \in [Stoppers -> Modes]
    BY DEF StopperStates, Modes
  <2>6. /\ activeTasks \in Int /\ submittedTasks \in Nat /\ completedTasks \in Nat
        /\ failedTasks \in Nat /\ rejectedFull \in Nat /\ rejectedStopped \in Nat
    OBVIOUS
  <2> QED BY <2>1, <2>2, <2>3, <2>4, <2>5, <2>6, Zenon DEF TypeOK
<1>2. Range(<<>>) = {}
  BY DEF Range
<1>3. OrderedHandOff /\ DiscardFacts
  BY DEF OrderedHandOff, DiscardFacts
<1>4. ResultIsTruthful /\ StartedFacts
  BY <1>2 DEF ResultIsTruthful, StartedFacts
<1>5. StopProtocol /\ WorkerFacts
  BY DEF StopProtocol, Shutting, WorkerFacts
<1> QED BY <1>1, <1>3, <1>4, <1>5 DEF IInv

(* A notification moves workers from the wait set to the re-check, no more. *)
LEMMA Wakes ==
  ASSUME TypeOK, NotifyOne \/ NotifyAll \/ UNCHANGED worker
  PROVE  /\ worker' \in [Workers -> WorkerStates]
         /\ \A w \in Workers : worker'[w] = worker[w] \/ (worker[w] = "blocked" /\ worker'[w] = "check")
<1>1. CASE NotifyOne
  BY <1>1 DEF NotifyOne, Blocked, TypeOK, WorkerStates
<1>2. CASE NotifyAll
  BY <1>2 DEF NotifyAll, TypeOK, WorkerStates
<1>3. CASE UNCHANGED worker
  BY <1>3 DEF TypeOK
<1> QED BY <1>1, <1>2, <1>3

(* submit()'s unlocked test of state_ moves only the caller.                *)
LEMMA SubmitInv ==
  ASSUME IInv, NEW t \in Tasks, Submit(t)
  PROVE  IInv'
<1> USE DEF IInv, Submit, counters, history
<1>1. TypeOK'
  BY DEF TypeOK, CallStates, WorkerStates, StopperStates, Modes
<1>2. OrderedHandOff'
  BY DEF OrderedHandOff, TypeOK
<1>3. ResultIsTruthful'
  BY DEF ResultIsTruthful, TypeOK
<1>4. StopProtocol'
  BY DEF StopProtocol, Shutting, TypeOK
<1>5. WorkerFacts'
  BY DEF WorkerFacts, TypeOK
<1>6. StartedFacts'
  BY DEF StartedFacts, WorkerFacts, TypeOK
<1>7. DiscardFacts'
  BY DEF DiscardFacts, TypeOK
<1> QED BY <1>1, <1>2, <1>3, <1>4, <1>5, <1>6, <1>7

(* The locked push appends to the queue and to the history alike.           *)
LEMMA PushInv ==
  ASSUME IInv, NEW t \in Tasks, Push(t)
  PROVE  IInv'
<1> USE DEF IInv, Push, counters, history
<1>1. TypeOK'
  <2>1. call' \in [Tasks -> CallStates]
    BY DEF TypeOK, CallStates
  <2>2. Append(queue, t) \in Seq(Tasks) /\ Append(pushed, t) \in Seq(Tasks)
    <3>1. queue \in Seq(Tasks) /\ pushed \in Seq(Tasks)
      BY DEF TypeOK
    <3> QED BY <3>1, AppendProperties
  <2> QED BY <2>1, <2>2 DEF TypeOK
<1>2. OrderedHandOff'
  <2>1. CASE ~closed /\ ~Full
    <3>1. discarded = <<>>
      BY <2>1 DEF DiscardFacts
    <3>2. pushed = started \o queue
      BY <3>1, NoTail, ConcatProperties DEF OrderedHandOff, TypeOK
    <3>3. pushed' = Append(pushed, t) /\ queue' = Append(queue, t)
      BY <2>1
    <3>4. pushed' = started \o queue'
      <4>1. started \in Seq(Tasks) /\ queue \in Seq(Tasks) /\ pushed \in Seq(Tasks)
        BY DEF TypeOK
      <4>2. Append(started \o queue, t) = started \o Append(queue, t)
        BY <4>1, PushBack, Zenon
      <4> HIDE DEF IInv, Push
      <4> QED BY <3>2, <3>3, <4>2, Zenon
    <3>5. started \o queue' \in Seq(Tasks)
      BY <3>3, ConcatProperties, AppendProperties DEF TypeOK
    <3> QED BY <3>1, <3>4, <3>5, NoTail DEF OrderedHandOff
  <2>2. CASE closed \/ Full
    BY <2>2 DEF OrderedHandOff
  <2> QED BY <2>1, <2>2
<1>3. ResultIsTruthful'
  <2>1. CASE ~closed /\ ~Full
    <3>1. Range(pushed') = Range(pushed) \cup {t}
      <4>1. pushed \in Seq(Tasks) /\ pushed' = Append(pushed, t)
        BY <2>1 DEF TypeOK
      <4> QED BY <4>1, RangeAppend
    <3>2. call' = [call EXCEPT ![t] = "pushed"]
      BY <2>1
    <3> QED BY <3>1, <3>2 DEF ResultIsTruthful, TypeOK
  <2>2. CASE closed \/ Full
    BY <2>2 DEF ResultIsTruthful, TypeOK
  <2> QED BY <2>1, <2>2
<1>4. StopProtocol'
  BY DEF StopProtocol, Shutting, TypeOK
<1>5. WorkerFacts'
  BY DEF WorkerFacts, TypeOK
<1>6. StartedFacts'
  BY DEF StartedFacts, WorkerFacts, TypeOK
<1>7. DiscardFacts'
  BY DEF DiscardFacts, TypeOK
<1> QED BY <1>1, <1>2, <1>3, <1>4, <1>5, <1>6, <1>7

(* The notification and the statistics after the push.                      *)
LEMMA SubmitReturnInv ==
  ASSUME IInv, NEW t \in Tasks, SubmitReturn(t)
  PROVE  IInv'
<1> USE DEF IInv, SubmitReturn, counters, history
<1>1. TypeOK'
  <2>1. call' \in [Tasks -> CallStates] /\ worker' \in [Workers -> WorkerStates]
    BY Wakes DEF TypeOK, CallStates
  <2>2. /\ submittedTasks' \in {submittedTasks, submittedTasks + 1}
        /\ rejectedFull' \in {rejectedFull, rejectedFull + 1}
        /\ rejectedStopped' \in {rejectedStopped, rejectedStopped + 1}
    BY Zenon
  <2>3. submittedTasks \in Nat /\ rejectedFull \in Nat /\ rejectedStopped \in Nat
    BY DEF TypeOK
  <2>4. submittedTasks' \in Nat /\ rejectedFull' \in Nat /\ rejectedStopped' \in Nat
    BY <2>2, <2>3
  <2> QED BY <2>1, <2>4 DEF TypeOK
<1>2. OrderedHandOff'
  BY DEF OrderedHandOff, TypeOK
<1>3. ResultIsTruthful'
  BY DEF ResultIsTruthful, TypeOK
<1>4. StopProtocol'
  BY Wakes DEF StopProtocol, Shutting, TypeOK
<1>5. WorkerFacts'
  BY Wakes DEF WorkerFacts, TypeOK
<1>6. StartedFacts'
  BY Wakes DEF StartedFacts, WorkerFacts, TypeOK
<1>7. DiscardFacts'
  BY DEF DiscardFacts, TypeOK
<1> QED BY <1>1, <1>2, <1>3, <1>4, <1>5, <1>6, <1>7

(* waitPop() moves the head of the queue to the worker, or sees it closed.  *)
LEMMA WaitPopInv ==
  ASSUME IInv, NEW w \in Workers, WaitPop(w)
  PROVE  IInv'
<1> USE DEF IInv, WaitPop, counters, history
<1>1. TypeOK'
  <2>1. worker' \in [Workers -> WorkerStates]
    BY DEF TypeOK, WorkerStates
  <2>2. ASSUME queue # <<>>
        PROVE  Head(queue) \in Tasks /\ Tail(queue) \in Seq(Tasks) /\ Append(started, Head(queue)) \in Seq(Tasks)
    <3>1. queue \in Seq(Tasks) /\ started \in Seq(Tasks)
      BY DEF TypeOK
    <3>2. Head(queue) \in Tasks /\ Tail(queue) \in Seq(Tasks)
      BY <2>2, <3>1, MoveHead
    <3> QED BY <3>1, <3>2, AppendProperties
  <2> QED BY <2>1, <2>2 DEF TypeOK
<1>2. OrderedHandOff'
  <2>1. CASE queue # <<>>
    <3>1. queue \in Seq(Tasks) /\ started \in Seq(Tasks)
      BY DEF TypeOK
    <3>2. Append(started, Head(queue)) \o Tail(queue) = started \o queue
      BY <2>1, <3>1, MoveHead
    <3> QED BY <2>1, <3>2 DEF OrderedHandOff
  <2>2. CASE queue = <<>>
    BY <2>2 DEF OrderedHandOff
  <2> QED BY <2>1, <2>2
<1>3. ResultIsTruthful'
  BY DEF ResultIsTruthful, TypeOK
<1>4. StopProtocol'
  BY DEF StopProtocol, Shutting, TypeOK
<1>5. WorkerFacts'
  <2>1. CASE queue # <<>>
    <3>1. Head(queue) \in Tasks /\ Head(queue) # NoTask
      BY <2>1, MoveHead, PoolAssumption DEF TypeOK
    <3>2. \A v \in Workers : worker[v] # "exited"
      BY <2>1 DEF WorkerFacts
    <3> QED BY <2>1, <3>1, <3>2 DEF WorkerFacts, TypeOK
  <2>2. CASE queue = <<>>
    BY <2>2 DEF WorkerFacts, TypeOK
  <2> QED BY <2>1, <2>2
<1>6. StartedFacts'
  <2>1. CASE queue # <<>>
    <3>1. Head(queue) \in Tasks /\ Head(queue) # NoTask
      BY <2>1, MoveHead, PoolAssumption DEF TypeOK
    <3>2. Range(started') = Range(started) \cup {Head(queue)}
      <4>1. started \in Seq(Tasks) /\ started' = Append(started, Head(queue))
        BY <2>1 DEF TypeOK
      <4> QED BY <3>1, <4>1, RangeAppend
    <3>3. held' = [held EXCEPT ![w] = Head(queue)] /\ worker' = [worker EXCEPT ![w] = "popped"]
      BY <2>1
    <3>4. held[w] = NoTask
      BY DEF WorkerFacts
    <3>5. ASSUME NEW x \in Range(started)
          PROVE  x \in finished' \/ \E v \in Workers : held'[v] = x /\ worker'[v] \in {"popped", "running"}
      BY <3>3 DEF StartedFacts, TypeOK
    <3>6. held'[w] = Head(queue) /\ worker'[w] = "popped"
      BY <3>3 DEF TypeOK
    <3>7. ASSUME NEW v \in Workers, held'[v] # NoTask PROVE held'[v] \in Range(started')
      BY <3>2, <3>3, <3>7 DEF StartedFacts, TypeOK
    <3> QED BY <3>2, <3>5, <3>6, <3>7 DEF StartedFacts
  <2>2. CASE queue = <<>>
    BY <2>2 DEF StartedFacts, TypeOK
  <2> QED BY <2>1, <2>2
<1>7. DiscardFacts'
  BY DEF DiscardFacts, TypeOK
<1> QED BY <1>1, <1>2, <1>3, <1>4, <1>5, <1>6, <1>7

(* A spurious wake-up returns the worker to its test.                       *)
LEMMA SpuriousWakeInv ==
  ASSUME IInv, NEW w \in Workers, SpuriousWake(w)
  PROVE  IInv'
<1> USE DEF IInv, SpuriousWake, counters, history
<1>1. TypeOK'
  BY DEF TypeOK, CallStates, WorkerStates, StopperStates, Modes
<1>2. OrderedHandOff'
  BY DEF OrderedHandOff, TypeOK
<1>3. ResultIsTruthful'
  BY DEF ResultIsTruthful, TypeOK
<1>4. StopProtocol'
  BY DEF StopProtocol, Shutting, TypeOK
<1>5. WorkerFacts'
  BY DEF WorkerFacts, TypeOK
<1>6. StartedFacts'
  BY DEF StartedFacts, WorkerFacts, TypeOK
<1>7. DiscardFacts'
  BY DEF DiscardFacts, TypeOK
<1> QED BY <1>1, <1>2, <1>3, <1>4, <1>5, <1>6, <1>7

(* The worker starts the task it holds.                                     *)
LEMMA BeginTaskInv ==
  ASSUME IInv, NEW w \in Workers, BeginTask(w)
  PROVE  IInv'
<1> USE DEF IInv, BeginTask, counters, history
<1>1. TypeOK'
  BY DEF TypeOK, CallStates, WorkerStates, StopperStates, Modes
<1>2. OrderedHandOff'
  BY DEF OrderedHandOff, TypeOK
<1>3. ResultIsTruthful'
  BY DEF ResultIsTruthful, TypeOK
<1>4. StopProtocol'
  BY DEF StopProtocol, Shutting, TypeOK
<1>5. WorkerFacts'
  BY DEF WorkerFacts, TypeOK
<1>6. StartedFacts'
  BY DEF StartedFacts, WorkerFacts, TypeOK
<1>7. DiscardFacts'
  BY DEF DiscardFacts, TypeOK
<1> QED BY <1>1, <1>2, <1>3, <1>4, <1>5, <1>6, <1>7

(* The task's body ends.                                                    *)
LEMMA EndTaskInv ==
  ASSUME IInv, NEW w \in Workers, EndTask(w)
  PROVE  IInv'
<1> USE DEF IInv, EndTask, counters, history
<1>1. TypeOK'
  <2>1. held[w] \in Tasks
    BY DEF TypeOK, WorkerFacts
  <2>2. worker' \in [Workers -> WorkerStates] /\ activeTasks' \in Int
    BY DEF TypeOK, WorkerStates
  <2> QED BY <2>1, <2>2 DEF TypeOK
<1>2. OrderedHandOff'
  BY DEF OrderedHandOff, TypeOK
<1>3. ResultIsTruthful'
  BY DEF ResultIsTruthful, TypeOK
<1>4. StopProtocol'
  BY DEF StopProtocol, Shutting, TypeOK
<1>5. WorkerFacts'
  BY DEF WorkerFacts, TypeOK
<1>6. StartedFacts'
  <2>1. \A v \in Workers : held'[v] = held[v] /\ (v # w => worker'[v] = worker[v])
    BY DEF TypeOK
  <2>2. ASSUME NEW t \in Range(started)
        PROVE  t \in finished' \/ \E v \in Workers : held'[v] = t /\ worker'[v] \in {"popped", "running"}
    <3>1. CASE t \in finished
      BY <3>1
    <3>2. ASSUME NEW v \in Workers, held[v] = t, worker[v] \in {"popped", "running"}
          PROVE  t \in finished' \/ (held'[v] = t /\ worker'[v] \in {"popped", "running"})
      BY <2>1, <3>2
    <3> QED BY <3>1, <3>2 DEF StartedFacts
  <2>3. held[w] # NoTask
    BY DEF WorkerFacts
  <2>4. finished' \subseteq Range(started)
    BY <2>3 DEF StartedFacts
  <2> QED BY <2>2, <2>4 DEF StartedFacts
<1>7. DiscardFacts'
  BY DEF DiscardFacts, TypeOK
<1> QED BY <1>1, <1>2, <1>3, <1>4, <1>5, <1>6, <1>7

(* The worker counts the task and lets go of it.                            *)
LEMMA CountTaskInv ==
  ASSUME IInv, NEW w \in Workers, CountTask(w)
  PROVE  IInv'
<1> USE DEF IInv, CountTask, counters, history
<1>1. TypeOK'
  BY DEF TypeOK, CallStates, WorkerStates, StopperStates, Modes
<1>2. OrderedHandOff'
  BY DEF OrderedHandOff, TypeOK
<1>3. ResultIsTruthful'
  BY DEF ResultIsTruthful, TypeOK
<1>4. StopProtocol'
  BY DEF StopProtocol, Shutting, TypeOK
<1>5. WorkerFacts'
  BY DEF WorkerFacts, TypeOK
<1>6. StartedFacts'
  <2>1. /\ held'[w] = NoTask /\ worker[w] = "counting"
        /\ \A v \in Workers : v # w => held'[v] = held[v] /\ worker'[v] = worker[v]
        /\ UNCHANGED <<started, finished>> /\ StartedFacts
    BY DEF TypeOK
  <2> HIDE DEF IInv, CountTask
  <2> QED BY <2>1 DEF StartedFacts
<1>7. DiscardFacts'
  BY DEF DiscardFacts, TypeOK
<1> QED BY <1>1, <1>2, <1>3, <1>4, <1>5, <1>6, <1>7

(* close() refuses further pushes; Discard empties the queue.               *)
LEMMA StopCloseInv ==
  ASSUME IInv, NEW s \in Stoppers, StopClose(s)
  PROVE  IInv'
<1> USE DEF IInv, StopClose, counters, history
<1>1. TypeOK'
  <2>1. stopper' \in [Stoppers -> StopperStates]
    BY DEF TypeOK, StopperStates
  <2>2. queue' \in Seq(Tasks) /\ discarded' \in Seq(Tasks) /\ closed' \in BOOLEAN
    BY EmptySeq DEF TypeOK
  <2> QED BY <2>1, <2>2 DEF TypeOK
<1>2. OrderedHandOff'
  <2>1. ~closed /\ discarded = <<>>
    BY DEF StopProtocol, DiscardFacts
  <2>2. pushed = started \o queue
    BY <2>1, NoTail, ConcatProperties DEF OrderedHandOff, TypeOK
  <2>3. CASE mode[s] = "Discard"
    BY <2>1, <2>2, <2>3, NoTail DEF OrderedHandOff, TypeOK
  <2>4. CASE mode[s] # "Discard"
    BY <2>4 DEF OrderedHandOff
  <2> QED BY <2>3, <2>4
<1>3. ResultIsTruthful'
  BY DEF ResultIsTruthful, TypeOK
<1>4. StopProtocol'
  BY DEF StopProtocol, Shutting, TypeOK
<1>5. WorkerFacts'
  BY DEF WorkerFacts, TypeOK
<1>6. StartedFacts'
  BY DEF StartedFacts, WorkerFacts, TypeOK
<1>7. DiscardFacts'
  BY DEF DiscardFacts, TypeOK
<1> QED BY <1>1, <1>2, <1>3, <1>4, <1>5, <1>6, <1>7

(* notify_all() wakes the workers.                                          *)
LEMMA StopNotifyInv ==
  ASSUME IInv, NEW s \in Stoppers, StopNotify(s)
  PROVE  IInv'
<1> USE DEF IInv, StopNotify, counters, history
<1>1. TypeOK'
  <2>1. worker' \in [Workers -> WorkerStates]
    BY Wakes
  <2>2. stopper' \in [Stoppers -> StopperStates]
    BY DEF TypeOK, StopperStates
  <2> QED BY <2>1, <2>2 DEF TypeOK
<1>2. OrderedHandOff'
  BY DEF OrderedHandOff, TypeOK
<1>3. ResultIsTruthful'
  BY DEF ResultIsTruthful, TypeOK
<1>4. StopProtocol'
  BY DEF StopProtocol, Shutting, TypeOK
<1>5. WorkerFacts'
  BY Wakes DEF WorkerFacts, TypeOK
<1>6. StartedFacts'
  <2>1. \A w \in Workers : worker[w] \in {"popped", "running"} => worker'[w] = worker[w]
    BY Wakes DEF TypeOK
  <2> QED BY <2>1 DEF StartedFacts, TypeOK
<1>7. DiscardFacts'
  BY DEF DiscardFacts, TypeOK
<1> QED BY <1>1, <1>2, <1>3, <1>4, <1>5, <1>6, <1>7

(* The shutting caller returns when every worker has exited.                *)
LEMMA StopJoinInv ==
  ASSUME IInv, NEW s \in Stoppers, StopJoin(s)
  PROVE  IInv'
<1> USE DEF IInv, StopJoin, counters, history
<1>1. TypeOK'
  BY DEF TypeOK, CallStates, WorkerStates, StopperStates, Modes
<1>2. OrderedHandOff'
  BY DEF OrderedHandOff, TypeOK
<1>3. ResultIsTruthful'
  BY DEF ResultIsTruthful, TypeOK
<1>4. StopProtocol'
  BY DEF StopProtocol, Shutting, TypeOK
<1>5. WorkerFacts'
  BY DEF WorkerFacts, TypeOK
<1>6. StartedFacts'
  BY DEF StartedFacts, WorkerFacts, TypeOK
<1>7. DiscardFacts'
  BY DEF DiscardFacts, TypeOK
<1> QED BY <1>1, <1>2, <1>3, <1>4, <1>5, <1>6, <1>7

(* A waiting caller returns when the state is Stopped.                      *)
LEMMA StopWaitInv ==
  ASSUME IInv, NEW s \in Stoppers, StopWait(s)
  PROVE  IInv'
<1> USE DEF IInv, StopWait, counters, history
<1>1. TypeOK'
  BY DEF TypeOK, CallStates, WorkerStates, StopperStates, Modes
<1>2. OrderedHandOff'
  BY DEF OrderedHandOff, TypeOK
<1>3. ResultIsTruthful'
  BY DEF ResultIsTruthful, TypeOK
<1>4. StopProtocol'
  BY DEF StopProtocol, Shutting, TypeOK
<1>5. WorkerFacts'
  BY DEF WorkerFacts, TypeOK
<1>6. StartedFacts'
  BY DEF StartedFacts, WorkerFacts, TypeOK
<1>7. DiscardFacts'
  BY DEF DiscardFacts, TypeOK
<1> QED BY <1>1, <1>2, <1>3, <1>4, <1>5, <1>6, <1>7

(* stop() claims the shutdown or waits for the one that did.                *)
LEMMA StopEnterInv ==
  ASSUME IInv, NEW s \in Stoppers, NEW m \in Modes, StopEnter(s, m)
  PROVE  IInv'
<1> USE DEF IInv, StopEnter, counters, history
<1>1. TypeOK'
  BY DEF TypeOK, CallStates, WorkerStates, StopperStates, Modes
<1>2. OrderedHandOff'
  BY DEF OrderedHandOff, TypeOK
<1>3. ResultIsTruthful'
  BY DEF ResultIsTruthful, TypeOK
<1>4. StopProtocol'
  <2>1. /\ stopper[s] = "idle"
        /\ mode'[s] = m /\ \A r \in Stoppers : r # s => stopper'[r] = stopper[r] /\ mode'[r] = mode[r]
        /\ UNCHANGED <<closed, worker>> /\ StopProtocol
    BY DEF TypeOK
  <2>2. \/ state = "Running" /\ stopper'[s] = "closing" /\ state' = "Stopping"
        \/ state = "Stopping" /\ stopper'[s] = "waiting" /\ state' = "Stopping"
        \/ state = "Stopped" /\ stopper'[s] = "returned" /\ state' = "Stopped"
    BY DEF TypeOK
  <2> HIDE DEF IInv, StopEnter
  <2>3. CASE state = "Running" /\ stopper'[s] = "closing" /\ state' = "Stopping"
    BY <2>1, <2>3 DEF StopProtocol, Shutting
  <2>4. CASE state = "Stopping" /\ stopper'[s] = "waiting" /\ state' = "Stopping"
    BY <2>1, <2>4 DEF StopProtocol, Shutting
  <2>5. CASE state = "Stopped" /\ stopper'[s] = "returned" /\ state' = "Stopped"
    BY <2>1, <2>5 DEF StopProtocol, Shutting
  <2> QED BY <2>2, <2>3, <2>4, <2>5
<1>5. WorkerFacts'
  BY DEF WorkerFacts, TypeOK
<1>6. StartedFacts'
  BY DEF StartedFacts, WorkerFacts, TypeOK
<1>7. DiscardFacts'
  <2>1. mode[s] = "Drain"
    BY DEF StopProtocol
  <2>2. (\A r \in Stoppers : mode'[r] = "Drain") => \A r \in Stoppers : mode[r] = "Drain"
    BY <2>1 DEF TypeOK
  <2> QED BY <2>2 DEF DiscardFacts
<1> QED BY <1>1, <1>2, <1>3, <1>4, <1>5, <1>6, <1>7

(* Every step preserves the invariant.                                      *)
LEMMA NextInv == IInv /\ [Next]_vars => IInv'
<1> SUFFICES ASSUME IInv, [Next]_vars PROVE IInv'
  OBVIOUS
<1>1. CASE \E t \in Tasks : SubmitStep(t)
  BY <1>1, SubmitInv, PushInv, SubmitReturnInv DEF SubmitStep
<1>2. CASE \E w \in Workers : WorkerStep(w) \/ SpuriousWake(w)
  BY <1>2, WaitPopInv, SpuriousWakeInv, BeginTaskInv, EndTaskInv, CountTaskInv DEF WorkerStep
<1>3. CASE \E s \in Stoppers : StopStep(s) \/ \E m \in Modes : StopEnter(s, m)
  BY <1>3, StopCloseInv, StopNotifyInv, StopJoinInv, StopWaitInv, StopEnterInv DEF StopStep
<1>4. CASE UNCHANGED vars
  BY <1>4 DEF vars, counters, history, IInv, TypeOK, OrderedHandOff, ResultIsTruthful,
     StopProtocol, WorkerFacts, StartedFacts, DiscardFacts
<1> QED BY <1>1, <1>2, <1>3, <1>4 DEF Next, AllReturned

-----------------------------------------------------------------------------
(* The invariant holds in every reachable state.                            *)
LEMMA InvHolds == Spec => []IInv
  BY InitInv, NextInv, PTL DEF Spec

(* The type invariant of the pool, for any number of threads and tasks.     *)
THEOREM TypeCorrect == Spec => []TypeOK
<1>1. IInv => TypeOK
  BY DEF IInv
<1> QED BY <1>1, InvHolds, PTL

(* FIFO hand-off without loss or duplication: push(), waitPop() and         *)
(* close() keep accepted = started, queued, discarded, in this order.       *)
THEOREM HandOffIsOrdered == Spec => []OrderedHandOff
<1>1. IInv => OrderedHandOff
  BY DEF IInv
<1> QED BY <1>1, InvHolds, PTL

(* A rejected submit() never runs its task, an accepted one handed it over. *)
THEOREM ResultsAreTruthful == Spec => []ResultIsTruthful
<1>1. IInv => ResultIsTruthful
  BY DEF IInv
<1> QED BY <1>1, InvHolds, PTL

(* When some stop() has returned no worker runs and nothing is queued.      *)
THEOREM StopIsQuiet == Spec => []QuietAfterStop
<1>1. IInv => QuietAfterStop
  <2> SUFFICES ASSUME IInv, NEW s \in Stoppers, stopper[s] = "returned"
               PROVE  (\A w \in Workers : worker[w] = "exited" /\ held[w] = NoTask) /\ queue = <<>>
    BY DEF QuietAfterStop
  <2>1. \A w \in Workers : worker[w] = "exited"
    BY DEF IInv, StopProtocol
  <2> QED BY <2>1, PoolAssumption DEF IInv, WorkerFacts
<1> QED BY <1>1, InvHolds, PTL

(* stop(Drain) finishes every task that was ever accepted.                  *)
THEOREM DrainIsComplete == Spec => []DrainFinishesAccepted
<1>1. IInv => DrainFinishesAccepted
  <2> SUFFICES ASSUME IInv, state = "Stopped"
               PROVE  Range(pushed) = finished \cup Range(discarded)
    BY DEF DrainFinishesAccepted, IInv, DiscardFacts
  <2>1. \A w \in Workers : worker[w] = "exited"
    BY DEF IInv, StopProtocol
  <2>2. queue = <<>>
    BY <2>1, PoolAssumption DEF IInv, WorkerFacts
  <2>3. Range(started) = finished
    BY <2>1 DEF IInv, StartedFacts
  <2>4. started \in Seq(Tasks) /\ queue \in Seq(Tasks) /\ discarded \in Seq(Tasks)
    BY DEF IInv, TypeOK
  <2>5. pushed = started \o discarded
    BY <2>2, <2>4, NoTail DEF IInv, OrderedHandOff
  <2>6. Range(started \o discarded) = Range(started) \cup Range(discarded)
    BY <2>4, RangeConcatenation
  <2> QED BY <2>3, <2>5, <2>6
<1> QED BY <1>1, InvHolds, PTL
-----------------------------------------------------------------------------
(* The pool implements PoolContract.                                        *)

(* What the hand-off equation says of the lengths and of the first tasks.   *)
LEMMA StartedIsPrefix ==
  ASSUME IInv
  PROVE  /\ Len(started) \in Nat /\ Len(queue) \in Nat /\ Len(discarded) \in Nat
         /\ Len(pushed) = Len(started) + Len(queue) + Len(discarded)
         /\ \A i \in 1..Len(started) : pushed[i] = started[i]
<1>1. started \in Seq(Tasks) /\ queue \in Seq(Tasks) /\ discarded \in Seq(Tasks)
  BY DEF IInv, TypeOK
<1>2. pushed = started \o queue \o discarded
  BY DEF IInv, OrderedHandOff
<1> QED BY <1>1, <1>2

(* A push the queue takes is an acceptance by the open pool.                *)
LEMMA PushAccepts ==
  ASSUME IInv, NEW t \in Tasks, Push(t)
  PROVE  [Contract!Next]_(Contract!vars)
<1>1. CASE closed \/ Full
  BY <1>1 DEF Push, Contract!vars
<1>2. CASE ~closed /\ ~Full
  <2>1. state # "Stopped"
    BY <1>2 DEF IInv, StopProtocol
  <2>2. \A i \in DOMAIN pushed : pushed[i] # t
    BY DEF Push, IInv, ResultIsTruthful, Range
  <2>3. Contract!Accept(t)
    BY <1>2, <2>1, <2>2 DEF Push, Contract!Accept
  <2> QED BY <2>3 DEF Contract!Next
<1> QED BY <1>1, <1>2

(* A task handed to a worker is the next one in the order of acceptance.    *)
LEMMA PopStarts ==
  ASSUME IInv, NEW w \in Workers, WaitPop(w)
  PROVE  [Contract!Next]_(Contract!vars)
<1>1. CASE queue = <<>>
  BY <1>1 DEF WaitPop, Contract!vars
<1>2. CASE queue # <<>>
  <2>1. state # "Stopped"
    BY DEF WaitPop, IInv, StopProtocol
  <2>2. discarded = <<>>
    BY <1>2 DEF IInv, DiscardFacts
  <2>3. Len(started) < Len(pushed)
    <3>1. Len(queue) > 0
      BY <1>2 DEF IInv, TypeOK
    <3> QED BY <3>1, StartedIsPrefix
  <2>4. Len(started') = Len(started) + 1
    BY <1>2 DEF WaitPop, IInv, TypeOK
  <2>5. Contract!Start
    BY <1>2, <2>1, <2>2, <2>3, <2>4 DEF WaitPop, Contract!Start
  <2> QED BY <2>5 DEF Contract!Next
<1> QED BY <1>1, <1>2

(* A body that ends is that of a started task.                              *)
LEMMA EndFinishes ==
  ASSUME IInv, NEW w \in Workers, EndTask(w)
  PROVE  [Contract!Next]_(Contract!vars)
<1>1. CASE held[w] \in finished
  <2>1. finished' = finished
    BY <1>1 DEF EndTask
  <2> QED BY <2>1 DEF EndTask, Contract!vars
<1>2. CASE held[w] \notin finished
  <2>1. held[w] \in Range(started)
    BY DEF EndTask, IInv, WorkerFacts, StartedFacts
  <2>2. PICK i \in 1..Len(started) : started[i] = held[w]
    <3>1. started \in Seq(Tasks)
      BY DEF IInv, TypeOK
    <3> QED BY <2>1, <3>1 DEF Range
  <2>3. pushed[i] = held[w]
    BY <2>2, StartedIsPrefix
  <2>4. state # "Stopped"
    BY DEF EndTask, IInv, StopProtocol
  <2>5. Contract!Finish(i)
    BY <1>2, <2>3, <2>4 DEF EndTask, Contract!Finish
  <2> QED BY <2>5 DEF Contract!Next
<1> QED BY <1>1, <1>2

(* close() closes the pool and, with Discard, drops what did not start.     *)
LEMMA CloseCloses ==
  ASSUME IInv, NEW s \in Stoppers, StopClose(s)
  PROVE  [Contract!Next]_(Contract!vars)
<1>1. ~closed /\ state = "Stopping" /\ discarded = <<>>
  BY DEF StopClose, IInv, StopProtocol, Shutting, DiscardFacts
<1>2. closed' = TRUE /\ state' = state /\ UNCHANGED <<pushed, started, finished>>
  BY DEF StopClose
<1>3. (discarded' # <<>>) \in {FALSE, Len(started) < Len(pushed)}
  <2>1. CASE mode[s] # "Discard"
    BY <1>1, <2>1, Zenon DEF StopClose
  <2>2. CASE mode[s] = "Discard"
    <3>1. discarded' = queue
      BY <1>1, <2>2 DEF StopClose
    <3>2. queue # <<>> => Len(queue) > 0
      BY DEF IInv, TypeOK
    <3>3. queue # <<>> => Len(started) < Len(pushed)
      BY <3>2, StartedIsPrefix
    <3> QED BY <3>1, <3>3, Zenon
  <2> QED BY <2>1, <2>2, Zenon
<1>4. Contract!Close
  BY <1>1, <1>2, <1>3, Zenon DEF Contract!Close
<1> QED BY <1>4 DEF Contract!Next

(* The pool is stopped when its workers have gone, and with them the tasks. *)
LEMMA JoinStops ==
  ASSUME IInv, NEW s \in Stoppers, StopJoin(s)
  PROVE  [Contract!Next]_(Contract!vars)
<1>1. closed /\ state = "Stopping"
  BY DEF StopJoin, IInv, StopProtocol, Shutting
<1>2. queue = <<>>
  BY PoolAssumption DEF StopJoin, IInv, WorkerFacts
<1>3. discarded # <<>> \/ Len(started) = Len(pushed)
  BY <1>2, StartedIsPrefix
<1>4. \A i \in 1..Len(started) : pushed[i] \in finished
  <2> SUFFICES ASSUME NEW i \in 1..Len(started) PROVE started[i] \in finished
    BY StartedIsPrefix
  <2>1. started[i] \in Range(started)
    <3>1. started \in Seq(Tasks)
      BY DEF IInv, TypeOK
    <3> QED BY <3>1 DEF Range
  <2> QED BY <2>1 DEF StopJoin, IInv, StartedFacts
<1>5. Contract!Stop
  BY <1>1, <1>3, <1>4, Zenon DEF StopJoin, history, Contract!Stop
<1> QED BY <1>5 DEF Contract!Next

(* Entering stop() closes nothing: the contract does not see it.            *)
LEMMA EnterIsInvisible ==
  ASSUME IInv, NEW s \in Stoppers, NEW m \in Modes, StopEnter(s, m)
  PROVE  [Contract!Next]_(Contract!vars)
<1>1. (state' = "Stopped") <=> (state = "Stopped")
  BY DEF StopEnter
<1> QED BY <1>1 DEF StopEnter, history, Contract!vars

(* Every step of the threads is a step of the contract or none.             *)
LEMMA StepImplements == IInv /\ [Next]_vars => [Contract!Next]_(Contract!vars)
<1> SUFFICES ASSUME IInv, [Next]_vars PROVE [Contract!Next]_(Contract!vars)
  OBVIOUS
<1>1. ASSUME UNCHANGED <<state, closed, history>> PROVE UNCHANGED Contract!vars
  BY <1>1 DEF history, Contract!vars
<1>2. CASE \E t \in Tasks : SubmitStep(t)
  <2> PICK t \in Tasks : SubmitStep(t)
    BY <1>2
  <2>1. CASE Submit(t)
    BY <1>1, <2>1 DEF Submit
  <2>2. CASE Push(t)
    BY <2>2, PushAccepts
  <2>3. CASE SubmitReturn(t)
    BY <1>1, <2>3 DEF SubmitReturn
  <2> QED BY <2>1, <2>2, <2>3 DEF SubmitStep
<1>3. CASE \E w \in Workers : WorkerStep(w) \/ SpuriousWake(w)
  <2> PICK w \in Workers : WorkerStep(w) \/ SpuriousWake(w)
    BY <1>3
  <2>1. CASE WaitPop(w)
    BY <2>1, PopStarts
  <2>2. CASE EndTask(w)
    BY <2>2, EndFinishes
  <2>3. CASE BeginTask(w) \/ CountTask(w) \/ SpuriousWake(w)
    BY <1>1, <2>3 DEF BeginTask, CountTask, SpuriousWake
  <2> QED BY <2>1, <2>2, <2>3 DEF WorkerStep
<1>4. CASE \E s \in Stoppers : StopStep(s) \/ \E m \in Modes : StopEnter(s, m)
  <2> PICK s \in Stoppers : StopStep(s) \/ \E m \in Modes : StopEnter(s, m)
    BY <1>4
  <2>1. CASE StopClose(s)
    BY <2>1, CloseCloses
  <2>2. CASE StopJoin(s)
    BY <2>2, JoinStops
  <2>3. CASE StopNotify(s) \/ StopWait(s)
    BY <1>1, <2>3 DEF StopNotify, StopWait
  <2>4. CASE \E m \in Modes : StopEnter(s, m)
    BY <2>4, EnterIsInvisible
  <2> QED BY <2>1, <2>2, <2>3, <2>4 DEF StopStep
<1>5. CASE UNCHANGED vars
  BY <1>1, <1>5 DEF vars
<1> QED BY <1>2, <1>3, <1>4, <1>5 DEF Next, AllReturned

(* The pool implements its contract: whatever submitters, workers and       *)
(* stop() calls do, tasks start in the order submit() accepted them, none   *)
(* is accepted once the queue is closed, and the pool is Stopped only when  *)
(* every accepted task has finished or was discarded before it started.     *)
THEOREM PoolImplementsContract == Spec => ImplementsContract
<1>1. Init => Contract!Init
  BY DEF Init, Contract!Init
<1>2. IInv /\ [Next]_vars => [Contract!Next]_(Contract!vars)
  BY StepImplements
<1> QED BY <1>1, <1>2, InvHolds, PTL DEF Spec, ImplementsContract, Contract!Spec
=============================================================================
