# Specification of the chat server

TLA+ modules for the server: threads and executors, loops and connections,
framing, timers, the request pipelines, and the rows behind them with their
transactions. TLC checks the modules on small instances, TLAPS proves the
safety of twelve of them for every instance.

    cd tla
    tlc -config ThreadPool.cfg MCThreadPool        # one run; see the table
    tlapm ThreadPool_proofs.tla                    # one module of proofs

`PROJECT.json` lists the components of the server, the runs, the source lines
each definition models (`map`), a plausible bug for every property (`mutants`),
the hazards of the code and the properties that cover them, the findings and
the theorems.

## The system

One **base loop** thread owns the acceptor, the table of connections by
descriptor, the sessions, the groups in memory and `Imservice`. Each
connection lives on one of several **io loops**, which read, frame and write.
Loops talk only through functors (`EventLoop::queueInLoop`), swapped out and
run in batches. Work that blocks goes to executors: a **message executor** and
a **redis executor** (`KeyedSerialExecutor`: one thread per shard, tasks of a
key in order), a **read executor** and a background pool (`ThreadPool`).

A request to send goes io loop, base loop (validation), perhaps redis executor
(rate limit) and base loop again, message executor (SQL transaction), base
loop (push to the audience, response). Histories, lists and sync take the read
executor instead, acknowledgements and read marks the message executor under
the key of their account. Between any two of these the connection may close,
its descriptor be reused and its user log out or leave the group, so each
completion looks everything up again. Logins, friend requests and group
membership are handled in one go on the base loop. The transactions lock rows
(`FOR UPDATE`) and roll back when `SqlTransaction` is destroyed uncommitted.

### Inventory

| Part | Source | Modules |
|---|---|---|
| Task queue, thread pool | `infra/thread/ThreadSafeQueue.h`, `ThreadPool.*` | `ThreadPool`, `PoolContract`, `ThreadPool_proofs` |
| Keyed serial executor | `infra/thread/KeyedSerialExecutor.*` | `KeyedSerialExecutor`, `KeyedOrder` |
| Output of a connection | `TcpConnection.cpp`, `TcpServer::sendBatchToConnKeys` | `ConnectionOutput`, `ConnectionOutput_proofs` |
| Input of a connection | `TcpConnection.cpp`, `Buffer.*` | `Framing` |
| Acceptor | `Acceptor.cpp`, `Socket.cpp` | `AcceptLoop` |
| Connection life cycle, graceful stop, event loops | `TcpServer.cpp`, `TcpConnection.cpp`, `EventLoop*` | `ServerLifecycle`, `ServerLifecycle_proofs` |
| Timers | `timer/*` | `TimerQueue` |
| Send pipelines, sessions | `im/ImService.cpp`, `im/SessionManager.cpp` | `MessagePipeline`, `RequestPipeline_proofs` |
| Histories, lists, sync, acknowledgements, read marks | `im/ImService.cpp`, `im/MessageAckService.cpp`, the services they call | `RequestPipeline`, `RequestPipeline_proofs` |
| Pages of sync and history | `SqlMessageRepo`, the parsers' limits | `MessageSync` |
| Direct messages, read marks in the database | `SqlDirectMessageWriteStore`, `SqlConversationReadWriteStore` | `DirectMessages`, `DirectMessages_proofs` |
| Groups: membership, messages, cursors, events | `SqlGroupRepo`, `SqlGroupJoinRequestRepo`, `SqlGroupMessageWriteStore`, `GroupService`, `GroupManager` | `Groups`, `Groups_proofs` |
| Registration, login, tokens | `AuthService`, `SqlUserRepo`, `SqlUserSessionRepo` | `Accounts`, `Backend_proofs` |
| Friends | `FriendService`, `SqlFriendRepo`, `SqlFriendRequestRepo` | `Friends`, `Backend_proofs` |
| Ids | `SnowflakeIdGenerator` | `Snowflake`, `Backend_proofs` |
| SQL connections and transactions | `storage/sql/Sql{ConnectionPool,ConnectionGuard,Connection,Transaction}`, `PreparedStatementCache` | `SqlPool`, `SqlPool_proofs` |
| Rate limiter | `RateLimiter`, `RedisRateLimitStore` | `RateLimit`, `Backend_proofs` |
| Periodic cleanup | `MaintenanceService` | `Maintenance` |
| Logger thread | `AsyncLogger` | `AsyncLogger` |

What is left out is listed, with the reason, under *Not modelled*.

## Modules

### Threads, loops and sockets

**ThreadPool.** State: `state_`, `closed_`, the queue, the program counters of
submitters, workers and stop() callers, the counters. `Submit`, `Push`,
`SubmitReturn` are the unlocked test, the locked push and what follows the
unlock; `WaitPop` is the locked part of `waitPop()`, a worker without a task
blocks until a notification or `SpuriousWake`; `BeginTask`, `EndTask`,
`CountTask` run a task that may throw; `StopEnter`, `StopClose`, `StopNotify`,
`StopJoin`, `StopWait` are stop(), by several threads and in both modes.
`PoolContract` is what callers rely on: a task is refused, or accepted and
then finished once or, only if someone asked to discard, dropped. The pool
implements it (`ImplementsContract`).

**KeyedSerialExecutor** has the test of `accepting_`, the hash to a shard (an
arbitrary function), one single-worker pool per shard (locked sections as
single steps, which `ThreadPool` justifies) and stop() going through the
shards. `KeyedOrder` is its contract: tasks of a key run one at a time and in
submission order.

**ConnectionOutput** is one connection between the base loop, which reserves
space for broadcast frames one atomic access at a time and posts them, and the
io loop, which runs the functors, sends responses and heartbeats, writes and
closes. Frames are sizes.

**Framing** is the other direction: bytes arrive in pieces, an edge-triggered
event starts `handleRead()`, which reads into the storage of `Buffer` (growing
or moving it as `makeSpace` does, with the extra buffer of `readFd`) and cuts
frames off the front: empty, control, too long, or handed to the callback.

**AcceptLoop** is the accept loop on an edge-triggered listening socket, with
the spare descriptor that is given up to refuse a client when the process has
none left, while other threads open and close descriptors. accept() may also
fail with an error the loop has no branch for.

**ServerLifecycle** has the functor queues and batches of the base loop and
the io loops, connections with their descriptors, `connections_`, the
sessions, and stop() to the end of the io threads. A descriptor is reusable
the moment it is closed. stop() closes the connections in the order of an
unordered map, so each io loop gets its closes in any order (`Orders`). The
removal of a connection is two steps: `RemoveConnection` posts the closing of
the descriptor, `OnDisconnect` reads the descriptor again, which the io loop
may have set to -1 by then. The history `missed` holds the connections whose
session stayed behind for that reason.

**TimerQueue** follows the containers of the class: `timers_`,
`timersOwned_`, `activeExpiredTimers_`, `cancelingTimers_`, the pending adds
and cancels, and the timerfd. Timers are added and cancelled by the loop, by
callbacks and by other threads.

**AsyncLogger** is the bounded queue, the worker that swaps it out, and
stop(), which sets an atomic flag outside the mutex: its notification can be
missed, and the worker's timed wait makes up for it.

### Requests

**MessagePipeline** follows group and direct messages through the queues and
checks, while connections close, descriptors are reused, users log in and out
and leave the group, and the server stops accepting. Executors behave as
`KeyedOrder` says. Whom a push reaches is recorded when it is made, and
compared with who was in the group, or logged in, at that moment. A disconnect
may miss its session, as `ServerLifecycle` shows; `missed` holds the
descriptors whose session has stayed and not been replaced by a login since.

**RequestPipeline** extends it with group and direct histories, sync, offline
and conversation lists (read executor), acknowledgements, offline
acknowledgements and read marks (message executor). They share the
connections, the sessions, the membership and the base loop's queue with the
messages, so a history request meets a leave, a logout or a reused descriptor
at every point.

**MessageSync** is the content of the pages: the `SELECT`s of sync and
history with the limit clamped by the parser and again by the repository, and
a client that follows the pages, loses answers and asks again, while messages
are committed. The limit of a sync request may be above that of the repository.

### Rows

**DirectMessages** is one conversation: its two `conversations` rows, the
messages, offline rows and receipts. A send takes the rows one after the other
(`BeginSend`, `UpsertSender`, `UpsertReceiver`, `CommitSend`), a read locks
its row, counts, and commits; either can abort anywhere. Row locks are
explicit. The cleanup deletes offline rows past their retention; the history
`released` holds what was acknowledged or so deleted.

**Groups** is one group: its rows, the copy in `GroupManager`, sends holding
the head row and reads holding a cursor. Membership requests run on the base
loop from the first query to the last change of the copy, so each is one step,
enabled while the rows it changes are not locked by others (two-phase locking
makes the interleavings equivalent to that). `told` records to whom the last
step sent which event. `Restart` reloads the copy. Every query may fail, and
several fail like an empty answer: `reloadGroup` then forgets the group or all
members but the owner, a leave removes the account from the copy alone. The
history `forgotten` holds the members hidden in this way.

**Accounts** has `users`, `user_profiles`, `user_sessions` and the sessions of
the connections. A handler that reads a token and then updates its row is two
steps, for the cleanup on a pool thread and the clock come in between.

**Friends** has `friend_requests` and `friend_relations` under the handlers
and the cleanup, and the three lists the service answers with. `asked` and
`agreed` are histories: what the accounts want of each other, by what they did.

**SqlPool** separates what `SqlConnection` believes of a connection from the
session the server keeps for it, which may disappear at any moment. A unit of
work is the pattern of every repository method: one statement, or two in a
`SqlTransaction` with its destructor. Borrowing, the wait with its timeout,
the reset of a connection given back, reconnection, replacement and stop are
those of the pool and its guard. The history `prepared` holds the statements
prepared in the present session of a connection.

**Snowflake** is `nextId()` with a clock that others set: the wait for the
next millisecond when the sequence is used up, the wait for a clock slightly
behind, the exception for one far behind, and a restart, which loses both
fields; `made` is the millisecond of the last id.

**RateLimit** is the Lua script over two redis keys with their expiry, and
`reset()`, which is two commands with hits in between.

**Maintenance** is the timer, `runOnce` entered by several pool threads, the
tasks with their batches and cutoffs, failures, and `requestStop()` in the
middle of a sweep.

## Runs

A run of several parts that share no state (`reactor`, `background`, `direct`,
`backend`) lets TLC pick one part in the initial state and freezes the others,
so that the state spaces add up; the MC module restates each part's fairness
for the behaviours in which it runs.

| Run | Configuration | Size | Shows |
|---|---|---|---|
| `pool` | `ThreadPool.cfg` | 2 workers, 2 tasks, capacity 1, 2 stop() calls; 66 000 states | quiet stop, no lost wake-up, stop returns, the contract of the pool |
| `reactor` | `Reactor.cfg` | output: frames of 2 and 3 bytes, limits 2/3/4, 2 drops; input: every stream of 3 frames of 5 kinds, in any pieces; acceptor: 3 descriptors, 5 clients; keyed: 4 tasks, 3 keys, 2 shards, 2 stop() calls; 205 000 | bounded backlog, slow peers end, frames byte for byte and none left behind, clients left waiting only after an error of accept(), accounting and order of keyed tasks |
| `background` | `Background.cfg` | 2 timers, delays and intervals 0 and 2, 2 cancels, time to 4; 2 threads, 2 tables of 2 rows; logger queue of 2, 5 lines; 153 000 | books of the timer queue, a cancelled timer never fires, due timers leave; retention, backlog worked off; stop of the logger flushes |
| `lifecycle` | `ServerLifecycle.cfg` | 3 connections on 2 descriptors, 1 io loop; 142 000 | one owner per descriptor, sessions follow connections unless a disconnect misses one, closed connections are released, stop ends |
| `lifecycle_io_stop` | `ServerLifecycle_iostop.cfg` | same | **violated**: finding 1 |
| `send` | `MessagePipeline.cfg` | 2 requests, 2 connections, 2 descriptors, 2 accounts; 2 070 000 | answers and pushes reach the right connections, commits follow ids |
| `requests` | `RequestPipeline.cfg` | 1 request of any kind, 2 connections on 1 descriptor, 2 accounts; 284 000 | group content stays inside the group, acknowledgements are truthful, every request is answered |
| `direct` | `DirectMessages.cfg` | 3 sends; sync and history of 4 messages with limits below and above the caps; 2 420 000 | exact unread counts, pages miss nothing |
| `direct_receipts` | `DirectMessages_receipts.cfg` | 2 sends | **violated**: finding 2 |
| `groups` | `Groups.cfg` | 3 accounts, 2 messages; 274 000 | dense numbers, exact unread counts, one owner, the copy has the members of the rows but for those a failed query hid, only members post, members hear of changes |
| `group_cursors` | `Groups_cursors.cfg` | 3 accounts, 1 message | **violated**: finding 3 |
| `backend` | `Backend.cfg` | ids: sequence of 2, clock to 6, tolerance 1; SQL pool: 3 connections for 2 slots, 2 threads, 3 units, 2 faults; accounts: 2 ids, 2 tokens, 6 days; friends: 3 accounts, 3 requests; limiter: 2 hits in 2 ms, block of 3; 396 000 | ids grow, after a restart if the clock has advanced; units of work are atomic, borrowed connections are clean, no slot is lost; tokens live until logout; friendship follows consent; limits are kept |

**Bounds.** They are the least at which the cases of interest happen: a full
queue with a second submitter and two stoppers; two keys sharing a shard while
a third has its own; a backlog that crosses each limit, recovers, and crosses
it again; a frame cut inside its header and a buffer that moves and grows; the
last descriptor taken by another thread between a refusal and the reopening of
the spare one; a descriptor that is reused while functors of its previous owner
are queued (three connections on two descriptors in `lifecycle`, a second
connection on the sender's descriptor in `send` and `requests`); a timer
cancelled from outside, from its own callback and from another callback of its
round; a third message between a reader's count and its commit; an owner, an
administrator and a member; a session lost between two statements of a
transaction and another while the first is replaced; a request sent again
after a friendship ended; a second window of hits after a block. Queues longer
than one in the pool, more workers, other limits, more io loops, and more
requests, connections, members and messages in `lifecycle`, `send`, `requests`
and `groups` are covered by the proofs.
`Max*`, `LastDay` and `LastMs` bound behaviours, not the program. Two runs have
a state **constraint** that keeps them short: in `send` no second request is
followed while a session is left behind (`FewWhileMissed`), in `groups` no
second message while the copy lacks members (`FewWhileForgotten`). Without
them both runs also pass, with 3.9 million and 770 000 states, and the proofs
have no such bound.

**Symmetry** is used in safety runs only (`send`, `groups`, `backend`), on sets
whose elements the modules never tell apart. `groups` has a **VIEW** without
`told`: no action reads it, and the action property that does is evaluated on
every step.

**Deadlock** is checked in `pool`, `reactor` and `groups`, whose modules say
when nothing is left to do. The behaviours of the other runs may end: everything
is stopped, time is over, or the bound on requests is used up. There the
liveness properties of `lifecycle`, `background` and `requests` say that they
do not end too early.

**Fairness.** Threads that can move eventually do, and task bodies, database
and redis calls return (weak fairness on worker, stop and loop steps). Event
loops keep running their functors: `epoll_wait` returns after at most a second.
The logger's wait has a time limit, timers of the base loop fire, time passes.
Nobody has to submit, send, log in, close or stop. In `ConnectionOutput`, a
backlog shrinks or the connection closes, because a peer that does not read is
closed by its missed heartbeat; and `compare_exchange_weak` is strongly fair,
for it fails only spuriously or because the other thread changed the value,
which it can do only as often as there are frames.

## Proofs

All are of the form `Spec => []Property` (or an action property), from an
inductive invariant with one lemma per action. The fair specifications of the
runs imply `Spec`.

**ThreadPool_proofs** (any sets of tasks, workers and stoppers, any capacity):
types, `OrderedHandOff`, `ResultIsTruthful`, `QuietAfterStop`,
`DrainFinishesAccepted`. The hand-off equation is inductive with its type; the
stop properties need the protocol between the callers (one shuts down, the
others wait), that a worker exits only when the queue is closed and empty, and
what a worker holds is what was started and not finished.

**ConnectionOutput_proofs** (any frame sizes and any limits with
0 < low <= high <= hard): types, `MemoryBounded`, `ReservationsBalance`,
`ClosedBufferIsFrozen`. The sum of a sequence of frames is not available to
the prover, so history variables count the bytes reserved and released, and
every posted functor carries the position up to which it accounts for them;
the invariant (`Accounts`) says that consecutive functors cover that stream
without a gap. `Limits` relates the two unsynchronised loads to the backlog:
while the base loop holds an old estimate within the limit, the backlog is at
most twice the hard limit. The constraint on the limits is the one
`NetConfig` enforces.

**ServerLifecycle_proofs** (any connections and descriptors, one io loop or
more): `DescriptorsStayOwned`, `SessionsFollowConnections`. The second says
that a session is of the connection registered under its descriptor, of the one
being removed, or of one that `OnDisconnect` missed; it needs that a session
lies under the descriptor of its connection (`SessionInv`). The invariant
`LifeInv` follows the functors of a connection through the queues of both
loops. Every functor waits at the loop it belongs to (`Places`); what can wait
depends on the stage of the connection (`Creation`, `Phases`: a removal only
after `connected_` was given up, and `connectionDestroyed` only after the
removal); creation, registration, start and removal wait at most once, and a
forced close never overtakes the start (`Single`). Two connections of which
each is registered, connected, or waiting to be created or removed have
different descriptors (`Owners`): the kernel gives out only what is not open,
and before the stop each of those is. `Ending` says that loops end after stop()
only; after it the statement about connected connections is weaker, for
functors are dropped. The lemmas about queues (`Moves`) say what a batch
swapped out, a functor run and a functor posted do to what is waiting.

**DirectMessages_proofs** (any number of sends): types, `UnreadExact`,
`MarksAdvance`, `OfflineUntilAcked`. `UnreadExact` is not inductive: it needs
that the transaction that counted holds its row and still has a true picture
of it (`Locks`, `Snapshots`), and that a new message is newer than everything
stored or marked (`Ids`). `OfflineUntilAcked` leaves out what the cleanup has
deleted for its age.

**Groups_proofs** (any accounts, messages, failures and restarts): `OneOwner`,
`CopyHasTheMembers`, `NumbersAreDense`, `GroupUnreadExact`, and the action
properties `MembersHearOfChanges` and `OnlyMembersPost`. The first two carry
each other (`MemberInv`): a copy with another owner would refuse where the rows
do not. The copy has the members of the rows without those in `forgotten`,
exactly, so a hidden member is never replaced by a stranger, and
`MembersHearOfChanges` is about the others. The counts need that the messages
stand one to one with 1..n in the order of their ids (`Numbers`), that the
tasks of the group wait in that order (`Order`), and that a cursor names the
message it stands at (`Cursors`), also while a read is under way (`Readings`).

**Backend_proofs**, each part of its own specification:

- `IdsGrow` (any sequence size, tolerance and epoch): `IdInv` bounds the last
  id by the last time and the part of its sequence that is used up. The first
  id after a restart is larger only if the clock has passed the millisecond of
  the last one: no field survives, and the code cannot tell.
- `FriendsByConsent` (any accounts, any number of requests): an answer takes
  one entry out of the receiver's list only because no two requests between
  the same accounts, in either direction, are pending (`OnePending`); the rest
  ties the histories to the rows (`AskedIsPending`, `AgreedIsRelated`).
- `LimitsAreKept` (any rule with a limit and a window of at least 1 and a block
  not shorter than the window, as the five rules in `RateLimiter.cpp:7` are; a
  block shorter than the window would end before the counter does): `Windows`
  says that all but the hits of the current window lie before it, and all but
  `MaxRequests` of those a whole window before.
- `TokensLiveUntilLogout` (any accounts, tokens, lifetime and retention):
  a row is revoked only by a logout and a token issued once
  (`RowsFollowLogins`), and what a logout under way has read of the row may be
  old, but only in that the row is gone or revoked since (`LogoutUnderWay`).

**RequestPipeline_proofs**, first for the send pipelines alone (any sets of
connections, descriptors and accounts, any number of requests; `None` and
`Anonymous` differ from them): `AnswersReachSender`,
`PushesReachTheirAudience`, `CommitsFollowIds`. None is inductive. Answers and
pushes need `ConnInv`: a connection is the one registered under its descriptor
until the base loop removes it, and the three session maps agree, up to the
descriptors whose session was missed; and `ContextInv`: a context has the
descriptor its connection had. Then `resolvePendingSender` finds the sender or
nobody. The order needs `OrderInv`: the executor holds its tasks by growing id,
and every task is newer than all that is written under its key.

Then for the specification with all asynchronous requests interleaved: the
same three properties, `AcksAreTruthful` and
`GroupContentStaysInside`. Every step of the queries, acknowledgements and read
marks keeps the invariant of the send pipelines. `AckInv` adds that the message
executor holds an acknowledgement once (`AckQueue`) and what is durable at
which of its stages (`AckStages`, `AckHistory`). That group content stays
inside follows from the last check of the membership, made in the step that
sends.

**SqlPool_proofs** (any threads, connections, units of work, pool and cache
sizes): `UnitsAreAtomic`, `PoolIsSound`. The client and the server agree on a
connection as far as they must (`ConnsAgree`: an open transaction on the server
is known to the client, only one has statements waiting), and unless its session
is gone the server holds exactly the statements a unit has carried out so far,
in an open transaction (`UnitsOnTheirWay`). The pool's books need that a
connection is in one place (`PoolBooks`, `SlotsAddUp`), the caches that whatever
makes a new session empties them (`CachesAgree`).

`PoolContract` is refined in `ThreadPool_proofs`: each step of the pool is a
step of the contract or none, from the invariant above and the order in which
tasks are handed over.

Proved and not run on their own: the type invariants, `OrderedHandOff`,
`ResultIsTruthful`, `DrainFinishesAccepted`, `ReservationsBalance`,
`ClosedBufferIsFrozen`, `MarksAdvance` and `OfflineUntilAcked`. Only
model-checked: all liveness (out of the prover's reach), what recursive
definitions compute (the offsets in `Framing`, and its safety with them), the
refinement of the keyed executor's contract, and the safety of `TimerQueue`,
`AcceptLoop`, `MessageSync`, `KeyedSerialExecutor`, `Maintenance` and
`AsyncLogger`.

## Findings

1. **io threads stop before all connections are closed** (`TcpServer.cpp:400`).
   A connection created on an io loop just before the stop is in no table until
   its registration functor runs on the base loop; the stop does not wait for
   it, contrary to the comment at `TcpServer.cpp:446`. The functor may then
   post to a loop that is gone.
2. **Reads without receipts** (`SqlConversationReadWriteStore.cpp:95`). Sending
   moves the sender's own read mark; the read request for the messages below it
   is then taken for a repetition, succeeds, and writes no receipts
   (`README.md:25` of the repository promises all three updates).
3. **Invited members have no cursor** (`GroupService.cpp:293`). They can
   neither send nor mark the group as read.

Also met while modelling, and built into the modules as the code behaves:

- `canAccept()` leaves reserved frames out of the hard limit
  (`TcpConnection.cpp:360`, hence the factor two in `MemoryBounded`); the drops
  that close a connection need not be consecutive (`TcpConnection.cpp:254`,
  comment at line 104).
- `collectGroupTargets` leaves out whoever now uses the sender's descriptor
  (`ImService.cpp:1914`).
- `handleOfflineAckAsync` refuses every request: its guard reads
  `|| messageAckService_` where the others negate it (`ImService.cpp:2979`).
- A failed leave puts an administrator back as an ordinary member in memory
  (`ImService.cpp:364`, hence `CopyHasTheMembers` compares members, not roles);
  a review of someone who is a member already answers Ok and rolls back
  (`SqlGroupJoinRequestRepo.cpp:303`).
- A replacement that fails leaves the SQL pool one connection short for good
  (`SqlConnectionPool.h:12` speaks of a fixed number); `PoolIsSound` counts
  such slots.
- Sync reads at most 200 messages of a direct conversation and 100 of a group
  (`SqlMessageRepo.cpp:152`, `188`), while the limit may be configured up to 500
  (`Imconfig.cpp:73`). Above the cap a full page is shorter than the limit and
  `hasMore` is false although there is more: `PagesMissNothing` promises the end
  of the conversation only for limits within the cap (the cursor never skips
  anything, so asking again helps).
- The list of incoming friend requests is empty when no requester in it has a
  profile, and whole when one has.
- A client may wait in the accept queue without an event after descriptors ran
  out or accept() failed otherwise, until the next one connects
  (`NobodyIsForgotten` says so).
- `removeConnectionInBaseLoop` posts the closing of the descriptor before
  `onDisconnect` reads it once more (`TcpServer.cpp:310`, `ImService.cpp:71`);
  the io loop, on another thread, may set it to -1 in between. The session then
  stays and the next connection with the number has it, until a login, a logout
  or its own end. `SessionsFollowConnections` and `PushesReachTheirAudience`
  name this case and allow no other.
- A failed query often looks like an empty answer (`groupExists`, `isMember`,
  `findGroupsByIds`, `listMemberRecords`). A leave may then succeed in memory
  only, a reload or a restart lose members of the copy, until a later one finds
  them (`forgotten` in `Groups`).
- The id generator keeps nothing across a restart; a process started with the
  clock at or before the millisecond of its predecessor's last id may repeat it
  (`IdsGrow` says so).
- Offline rows are deleted for their age whether acknowledged or not
  (`SqlOfflineMessageRepo.cpp:154`).

## Assumptions and limits

- `MessagePipeline` takes growing message ids from `Snowflake`; a clock set back
  further than the tolerance makes `nextId()` throw. `Groups` takes them
  across a restart too, as a clock that went on gives them.
- In `DirectMessages` and `Groups` a transaction commits or aborts and the server
  knows which; the answer to a COMMIT lost on the way is modelled in `SqlPool`
  and, by its effect, in `Accounts`. After such a COMMIT of a membership change
  the rows would have it and the copy in memory not, until the next reload: that
  case is outside `CopyHasTheMembers`. Isolation is InnoDB's default with the
  row locks the statements take.
- `RateLimit` has redis answering; when it does not, a hit is let through
  uncounted or refused as configured, which is a choice in `MessagePipeline`.
- The hash of the keyed executor is any function; collisions occur in the run.
- `ServerLifecycle` has at least one io thread. With `ioThreads` 0 the base loop
  serves the connections itself (`getNextLoop()`).
- Database errors in base loop requests: in `Groups` every query and transaction
  may fail, with what the code then does to the copy (`HandleLeave`,
  `LeaveFails`, `Reload`, `Restart`); in `Friends` a failed request changes
  nothing; `Accounts` has the failures of its updates as actions.
- Allocation failures and exceptions out of callbacks other than tasks and
  timers are left out.

## Not modelled

- **User profiles**: single-row reads and upserts without a state of their own;
  where a profile exists is a state variable of `Accounts` and `Friends`.
- **Health**: `decideStatus` compares counters and the answer is formatted;
  nothing in the server acts on it.
- **Configuration**, **passwords**, the JSON of the **codec**: parsing and
  library calls. The limits a parser imposes are in `MessageSync`.
- **In-memory repositories**: containers behind the same interfaces, for a
  server without a database; every operation is one access to one container.
- **Client and load tools**: other programs. What `MessageSync` needs of a
  client is marked external.
- **Redis client**: calls of a library, each with its exception turned into a
  result. **Sinks and formats** of the logger.
- **Start-up and signals**: the order in which `main` builds and tears down the
  executors is fixed and sequential. The stop itself, from the wake-up on, is
  in `ServerLifecycle` and, for the executors, in `ThreadPool`.
- `handleJoin` and `handleRegisterAsync` are not reachable from the dispatcher;
  `SqlFriendRepo::addFriendPair` has no caller.
