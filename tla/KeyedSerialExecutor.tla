------------------------ MODULE KeyedSerialExecutor ------------------------
(***************************************************************************)
(* infra::thread::KeyedSerialExecutor: messageExecutor and redisExecutor.  *)
(* A key is hashed to one of several single-threaded ThreadPools.  A shard *)
(* is taken here at the level of PoolContract, which module ThreadPool is  *)
(* shown to implement: a FIFO queue, one worker, and stop() as closing the *)
(* queue followed by waiting for the worker.                               *)
(***************************************************************************)
EXTENDS Naturals, Sequences, FiniteSets, Functions

CONSTANTS
  Tasks, Keys,
  KeyOf,        \* the key each task is submitted with
  NumShards,    \* shardCount
  ShardOf,      \* hasher_(key) % shards_.size()
  Capacity,     \* queueCapacityPerShard
  Stoppers,     \* concurrent callers of stop()
  NoTask

Shards == 1..NumShards

VARIABLES
  accepting,    \* accepting_
  call,         \* program counter of submit(key, t), then its result
  shard,        \* per shard "Running", "Stopping" (queue closed) or "Stopped"
  queue,        \* per shard, the queued tasks
  running,      \* per shard, the task its worker executes
  stopAt,       \* per stop() call: 0 idle, else the shard it is at
  mode,         \* per stop() call, its mode
  finished,     \* history: executed tasks
  dropped       \* history: tasks thrown away by stop(Discard)

vars == <<accepting, call, shard, queue, running, stopAt, mode, finished, dropped>>

Modes == {"Drain", "Discard"}
Returned == NumShards + 1

Init ==
  /\ accepting = TRUE
  /\ call = [t \in Tasks |-> "idle"]
  /\ shard = [i \in Shards |-> "Running"]
  /\ queue = [i \in Shards |-> <<>>]
  /\ running = [i \in Shards |-> NoTask]
  /\ stopAt = [s \in Stoppers |-> 0]
  /\ mode = [s \in Stoppers |-> "Drain"]
  /\ finished = {} /\ dropped = {}

IndexOf(t) == ShardOf[KeyOf[t]]

(* The test of accepting_, before the shard is chosen.                      *)
SubmitCheck(t) ==
  /\ call[t] = "idle"
  /\ call' = [call EXCEPT ![t] = IF accepting THEN "checked" ELSE "Stopping"]
  /\ UNCHANGED <<accepting, shard, queue, running, stopAt, mode, finished, dropped>>

(* Mutant of SubmitToShard: any shard takes the task.                       *)
SubmitToAnyShard(t) ==
  /\ call[t] = "checked"
  /\ \E i \in Shards :
       /\ shard[i] = "Running" /\ Len(queue[i]) < Capacity
       /\ queue' = [queue EXCEPT ![i] = Append(@, t)]
  /\ call' = [call EXCEPT ![t] = "Accepted"]
  /\ UNCHANGED <<accepting, shard, running, stopAt, mode, finished, dropped>>

(* shards_[index]->submit(): by now a stop() may have closed this shard,    *)
(* or not yet have come to it.                                              *)
SubmitToShard(t) ==
  LET i == IndexOf(t) IN
  /\ call[t] = "checked"
  /\ \/ /\ shard[i] # "Running"
        /\ call' = [call EXCEPT ![t] = "Stopping"]
        /\ UNCHANGED queue
     \/ /\ shard[i] = "Running" /\ Len(queue[i]) >= Capacity
        /\ call' = [call EXCEPT ![t] = "QueueFull"]
        /\ UNCHANGED queue
     \/ /\ shard[i] = "Running" /\ Len(queue[i]) < Capacity
        /\ call' = [call EXCEPT ![t] = "Accepted"]
        /\ queue' = [queue EXCEPT ![i] = Append(@, t)]
  /\ UNCHANGED <<accepting, shard, running, stopAt, mode, finished, dropped>>

(* Mutant of StartTask: the shard does not wait for its running task.       *)
StartTaskOverlapping(i) ==
  /\ queue[i] # <<>>
  /\ running' = [running EXCEPT ![i] = Head(queue[i])]
  /\ queue' = [queue EXCEPT ![i] = Tail(@)]
  /\ UNCHANGED <<accepting, call, shard, stopAt, mode, finished, dropped>>

(* The single worker of shard i.                                            *)
StartTask(i) ==
  /\ running[i] = NoTask /\ queue[i] # <<>>
  /\ running' = [running EXCEPT ![i] = Head(queue[i])]
  /\ queue' = [queue EXCEPT ![i] = Tail(@)]
  /\ UNCHANGED <<accepting, call, shard, stopAt, mode, finished, dropped>>

FinishTask(i) ==
  /\ running[i] # NoTask
  /\ finished' = finished \cup {running[i]}
  /\ running' = [running EXCEPT ![i] = NoTask]
  /\ UNCHANGED <<accepting, call, shard, queue, stopAt, mode, dropped>>

(* stop(): accepting_.exchange(false); whoever finds it false returns.      *)
StopEnter(s, m) ==
  /\ stopAt[s] = 0
  /\ accepting' = FALSE
  /\ stopAt' = [stopAt EXCEPT ![s] = IF accepting THEN 1 ELSE Returned]
  /\ mode' = [mode EXCEPT ![s] = m]
  /\ UNCHANGED <<call, shard, queue, running, finished, dropped>>

(* pool->stop(mode) of the shard the call has come to: it closes ...        *)
StopShardClose(s) ==
  LET i == stopAt[s] IN
  /\ i \in Shards /\ shard[i] = "Running"
  /\ shard' = [shard EXCEPT ![i] = "Stopping"]
  /\ IF mode[s] = "Discard"
     THEN /\ dropped' = dropped \cup Range(queue[i])
          /\ queue' = [queue EXCEPT ![i] = <<>>]
     ELSE UNCHANGED <<dropped, queue>>
  /\ UNCHANGED <<accepting, call, running, stopAt, mode, finished>>

(* ... and joins the worker, which leaves when the queue is empty.          *)
StopShardJoin(s) ==
  LET i == stopAt[s] IN
  /\ i \in Shards /\ shard[i] = "Stopping"
  /\ running[i] = NoTask /\ queue[i] = <<>>
  /\ shard' = [shard EXCEPT ![i] = "Stopped"]
  /\ stopAt' = [stopAt EXCEPT ![s] = i + 1]
  /\ UNCHANGED <<accepting, call, queue, running, mode, finished, dropped>>

-----------------------------------------------------------------------------
SubmitStep(t) == SubmitCheck(t) \/ SubmitToShard(t)
WorkerStep(i) == StartTask(i) \/ FinishTask(i)
StopStep(s)   == StopShardClose(s) \/ StopShardJoin(s)

AllReturned ==
  /\ \A t \in Tasks : call[t] \in {"Accepted", "QueueFull", "Stopping"}
  /\ \A s \in Stoppers : stopAt[s] = Returned
  /\ UNCHANGED vars

Next ==
  \/ \E t \in Tasks : SubmitStep(t)
  \/ \E i \in Shards : WorkerStep(i)
  \/ \E s \in Stoppers : StopStep(s) \/ \E m \in Modes : StopEnter(s, m)
  \/ AllReturned

Spec == Init /\ [][Next]_vars

-----------------------------------------------------------------------------
(* An accepted task is in exactly one place, whatever stop() does to the    *)
(* shards one after the other while submitters that passed the accepting_   *)
(* test still push: queued once in its shard, running, finished or dropped; *)
(* a task that was not accepted is nowhere.  Once every shard is stopped    *)
(* none is queued or running any more, so that what the tasks captured may  *)
(* be destroyed.  (A concurrent second stop() returns at once and promises  *)
(* nothing.)                                                                *)
AcceptedIsAccountedFor ==
  /\ \A t \in Tasks :
       Cardinality({<<i, j>> \in Shards \X (1..Capacity) : j <= Len(queue[i]) /\ queue[i][j] = t})
         + Cardinality({i \in Shards : running[i] = t})
         + Cardinality({t} \cap finished) + Cardinality({t} \cap dropped)
       = IF call[t] = "Accepted" THEN 1 ELSE 0
  /\ (\A i \in Shards : shard[i] = "Stopped") =>
       \A i \in Shards : queue[i] = <<>> /\ running[i] = NoTask

(* Sharding is invisible: the executor implements one serial queue per key. *)
PerKey == INSTANCE KeyedOrder WITH
  waiting <- [k \in Keys |-> SelectSeq(queue[ShardOf[k]], LAMBDA t : KeyOf[t] = k)],
  active  <- [k \in Keys |->
                IF \E t \in Tasks : running[ShardOf[k]] = t /\ KeyOf[t] = k
                THEN running[ShardOf[k]] ELSE NoTask]

(* Refinement: tasks of one key run one at a time, in acceptance order.     *)
ImplementsKeyedOrder == PerKey!Spec
=============================================================================
