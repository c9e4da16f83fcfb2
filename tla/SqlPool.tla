------------------------------- MODULE SqlPool -------------------------------
(***************************************************************************)
(* SqlConnectionPool, SqlConnectionGuard, SqlConnection, SqlTransaction    *)
(* and PreparedStatementCache: threads borrow a connection, run a unit of  *)
(* work on it and give it back, while the server drops sessions.           *)
(*                                                                         *)
(* A connection object is two things: what the client believes of it (the  *)
(* fields of SqlConnection) and the session the server keeps for it, which *)
(* may be gone without the client knowing.  A unit of work is what every   *)
(* repository method the server calls does: one statement on its own, or   *)
(* two inside a SqlTransaction, given up at the first that fails.          *)
(***************************************************************************)
EXTENDS Integers, Sequences, FiniteSets

CONSTANTS
  Conns,          \* connection objects; a freed one may be used again
  PoolSize,       \* options_.poolSize
  CacheSize,      \* options_.statementCacheSize
  Threads,        \* the threads that call repositories
  Units,          \* the units of work they carry out
  PlainUnits,     \* the ones of a single statement, outside a transaction
  MaxFaults       \* bound: sessions dropped by the server

None  == "none"
Parts == {1, 2}                   \* the statements of a unit

(* SqlConnectionPoolOptions and PreparedStatementCache refuse a size of 0.  *)
ASSUME SqlPoolAssumption ==
  /\ PoolSize \in Nat \ {0} /\ CacheSize \in Nat \ {0}
  /\ None \notin Conns /\ None \notin Units

VARIABLES
  started,    \* started_
  stopping,   \* the server has begun to stop: no unit begins any more
  conns,      \* connections_
  idle,       \* idle_
  obj,        \* [Conns -> the fields of SqlConnection]
  session,    \* [Conns -> the server's side: none, auto or transaction]
  pending,    \* [Conns -> statements of the session's open transaction]
  cache,      \* [Conns -> statementCache_: most recent first]
  prepared,   \* [Conns -> history: the statements prepared in its latest session]
  pc, held, unit,   \* [Threads -> ...]: where it is, its guard's conn_, its unit
  result,     \* [Units -> what the repository method returned]
  stored,     \* [Units -> the statements that are durable]
  counts,     \* acquireTimeouts_, reconnects_, replaceFailures_
  faults

vars == <<started, stopping, conns, idle, obj, session, pending, cache, prepared, pc,
          held, unit, result, stored, counts, faults>>

Fresh == [connected |-> TRUE, broken |-> FALSE, inTransaction |-> FALSE]

Init ==
  /\ started = FALSE /\ stopping = FALSE /\ conns = {} /\ idle = <<>>
  /\ obj = [c \in Conns |-> Fresh]
  /\ session = [c \in Conns |-> None]
  /\ pending = [c \in Conns |-> {}]
  /\ cache = [c \in Conns |-> <<>>] /\ prepared = [c \in Conns |-> {}]
  /\ pc = [t \in Threads |-> "out"] /\ held = [t \in Threads |-> None]
  /\ unit = [t \in Threads |-> None]
  /\ result = [u \in Units |-> None]
  /\ stored = [u \in Units |-> {}]
  /\ counts = [acquireTimeouts |-> 0, reconnects |-> 0, replaceFailures |-> 0]
  /\ faults = 0

Elems(s)    == {s[i] : i \in DOMAIN s}
InHands     == {held[t] : t \in Threads} \ {None}
Free        == Conns \ (conns \cup InHands)
Alive(c)    == session[c] # None

-----------------------------------------------------------------------------
(* PreparedStatementCache.                                                  *)

(* touch() takes the entry out of its place in the list.                    *)
Without(s, x) ==
  LET k == CHOOSE k \in DOMAIN s : s[k] = x IN SubSeq(s, 1, k - 1) \o SubSeq(s, k + 1, Len(s))
ButLast(s)    == SubSeq(s, 1, Len(s) - 1)

(* getOrPrepare(): a known statement moves to the front; a new one is       *)
(* prepared on the session and pushes out the least recently used.          *)
GetOrPrepare(s, x) ==
  IF x \in Elems(s) THEN <<x>> \o Without(s, x)
  ELSE <<x>> \o (IF Len(s) >= CacheSize THEN ButLast(s) ELSE s)

-----------------------------------------------------------------------------
(* SqlConnection: each operator is what a call leaves of the object, the    *)
(* session, the open transaction and the cache of connection c.             *)

(* markBroken(): the session of a failed call is not used again.            *)
MarkBroken(c) ==
  /\ obj' = [obj EXCEPT ![c].broken = TRUE, ![c].connected = FALSE]
  /\ cache' = [cache EXCEPT ![c] = <<>>]
  /\ UNCHANGED prepared

(* A call throws.  Only an SQLSTATE of class 08 marks the connection broken *)
(* (isConnectionError): a lost session is often reported otherwise.         *)
CallFails(c) ==
  /\ \/ MarkBroken(c)
     \/ UNCHANGED <<obj, cache, prepared>>
  /\ UNCHANGED <<session, pending, stored>>

(* beginTransaction() -> setAutoCommit(false).                              *)
BeginTransaction(c) ==
  /\ Alive(c) /\ ~obj[c].inTransaction
  /\ session' = [session EXCEPT ![c] = "transaction"]
  /\ obj' = [obj EXCEPT ![c].inTransaction = TRUE]
  /\ UNCHANGED <<pending, cache, prepared, stored>>

(* executePrepared() first asks the cache for the statement...              *)
Prepare(c, p) ==
  /\ Alive(c)
  /\ cache' = [cache EXCEPT ![c] = GetOrPrepare(@, p)]
  /\ prepared' = [prepared EXCEPT ![c] = @ \cup {p}]

(* ...which keeps it when its execution fails...                            *)
ExecuteFails(c, p) ==
  /\ Prepare(c, p)
  /\ UNCHANGED <<obj, session, pending, stored>>

(* ...and what it does is durable at once on an autocommit session.         *)
ExecutePrepared(c, u, p) ==
  /\ Prepare(c, p)
  /\ IF session[c] = "transaction"
     THEN pending' = [pending EXCEPT ![c] = @ \cup {<<u, p>>}] /\ UNCHANGED stored
     ELSE stored' = [stored EXCEPT ![u] = @ \cup {p}] /\ UNCHANGED pending
  /\ UNCHANGED <<obj, session>>

(* What the server does with the open transaction of c.                     *)
Applied(c) == [u \in Units |-> stored[u] \cup {p \in Parts : <<u, p>> \in pending[c]}]

(* commit(): the server commits, then autocommit comes back.                *)
Commit(c) ==
  /\ obj[c].connected /\ obj[c].inTransaction /\ Alive(c)
  /\ stored' = Applied(c)
  /\ pending' = [pending EXCEPT ![c] = {}]
  /\ session' = [session EXCEPT ![c] = "auto"]
  /\ obj' = [obj EXCEPT ![c].inTransaction = FALSE]
  /\ UNCHANGED <<cache, prepared>>

(* commit() throws: the session is lost before, while or after the server   *)
(* committed, so that the unit is stored or not.                            *)
CommitThrows(c) ==
  /\ obj[c].connected /\ obj[c].inTransaction
  /\ stored' \in IF Alive(c) THEN {stored, Applied(c)} ELSE {stored}
  /\ session' = [session EXCEPT ![c] = None]
  /\ pending' = [pending EXCEPT ![c] = {}]
  /\ MarkBroken(c)

(* rollback().                                                              *)
Rollback(c) ==
  /\ obj[c].connected /\ Alive(c)
  /\ pending' = [pending EXCEPT ![c] = {}]
  /\ session' = [session EXCEPT ![c] = "auto"]
  /\ obj' = [obj EXCEPT ![c].inTransaction = FALSE]
  /\ UNCHANGED <<cache, prepared, stored>>

(* rollback() fails: nothing happens without a connection, and the object   *)
(* is marked broken when the server does not answer.                        *)
RollbackFails(c) ==
  /\ ~obj[c].connected \/ ~Alive(c)
  /\ IF obj[c].connected THEN MarkBroken(c) ELSE UNCHANGED <<obj, cache, prepared>>
  /\ UNCHANGED <<session, pending, stored>>

(* ensureConnected(): the call may go on.                                   *)
Usable(c) == obj[c].connected /\ ~obj[c].broken

(* reconnect(): close(), then connect().  inTransaction_ stays as it is.    *)
Reconnect(c) ==
  /\ ~Usable(c)
  /\ session' = [session EXCEPT ![c] = "auto"]
  /\ pending' = [pending EXCEPT ![c] = {}]
  /\ obj' = [obj EXCEPT ![c].connected = TRUE, ![c].broken = FALSE]
  /\ cache' = [cache EXCEPT ![c] = <<>>] /\ prepared' = [prepared EXCEPT ![c] = {}]
  /\ UNCHANGED stored

(* reconnect() does not reach the server.                                   *)
ReconnectFails(c) ==
  /\ ~Usable(c)
  /\ session' = [session EXCEPT ![c] = None]
  /\ pending' = [pending EXCEPT ![c] = {}]
  /\ obj' = [obj EXCEPT ![c].connected = FALSE, ![c].broken = TRUE]
  /\ cache' = [cache EXCEPT ![c] = <<>>]
  /\ UNCHANGED <<prepared, stored>>

-----------------------------------------------------------------------------
(* The pool.                                                                *)

Goto(t, l) == pc' = [pc EXCEPT ![t] = l]
Return(t, r) == result' = [result EXCEPT ![unit[t]] = r]

(* start(): all connections or none.                                        *)
Start ==
  /\ ~started /\ ~stopping
  /\ \E s \in [1..PoolSize -> Conns] :
       /\ \A i, j \in 1..PoolSize : i # j => s[i] # s[j]
       /\ idle' = s /\ conns' = Elems(s)
       /\ session' = [c \in Conns |-> IF c \in Elems(s) THEN "auto" ELSE None]
  /\ started' = TRUE
  /\ UNCHANGED <<stopping, obj, pending, cache, prepared, pc, held, unit, result, stored, counts, faults>>

(* acquireFor(): a connection is idle.  The repository method looks at      *)
(* connected() before it goes on.                                           *)
Acquire(t, u) ==
  /\ started /\ ~stopping /\ pc[t] = "out" /\ result[u] = None /\ \A x \in Threads : unit[x] # u
  /\ idle # <<>>
  /\ held' = [held EXCEPT ![t] = Head(idle)]
  /\ idle' = Tail(idle)
  /\ unit' = [unit EXCEPT ![t] = u]
  /\ IF obj[Head(idle)].connected
     THEN Goto(t, IF u \in PlainUnits THEN "last" ELSE "begin") /\ UNCHANGED result
     ELSE Goto(t, "release") /\ result' = [result EXCEPT ![u] = "error"]
  /\ UNCHANGED <<started, stopping, conns, obj, session, pending, cache, prepared, stored,
                 counts, faults>>

(* acquireFor(): none becomes idle in time.                                 *)
AcquireTimeout(t, u) ==
  /\ started /\ ~stopping /\ pc[t] = "out" /\ result[u] = None /\ \A x \in Threads : unit[x] # u
  /\ idle = <<>>
  /\ result' = [result EXCEPT ![u] = "error"]
  /\ counts' = [counts EXCEPT !.acquireTimeouts = @ + 1]
  /\ UNCHANGED <<started, stopping, conns, idle, obj, session, pending, cache, prepared, pc, held, unit,
                 stored, faults>>

-----------------------------------------------------------------------------
(* A unit of work.                                                          *)

Still == UNCHANGED <<started, stopping, conns, idle, held, unit, counts, faults>>

(* Every call but commit and rollback begins with ensureConnected().  A     *)
(* connection is usable when it is borrowed (PoolIsSound) and a unit ends   *)
(* at its first failure, so that it seldom has anything to do.              *)
EnsureConnected(t) ==
  \E ok \in BOOLEAN :
    IF ok THEN Reconnect(held[t]) /\ UNCHANGED <<pc, result>>
    ELSE /\ ReconnectFails(held[t]) /\ Return(t, "error")
         /\ Goto(t, IF unit[t] \notin PlainUnits /\ pc[t] # "begin" THEN "rollback" ELSE "release")

(* SqlTransaction(): throws when the transaction does not begin.            *)
Begin(t) ==
  /\ pc[t] = "begin"
  /\ IF ~Usable(held[t]) THEN EnsureConnected(t)
     ELSE IF obj[held[t]].inTransaction
     THEN /\ Return(t, "error") /\ Goto(t, "release")
          /\ UNCHANGED <<obj, session, pending, cache, prepared, stored>>
     ELSE \/ BeginTransaction(held[t]) /\ Goto(t, "first") /\ UNCHANGED result
          \/ ~Alive(held[t]) /\ CallFails(held[t]) /\ Return(t, "error") /\ Goto(t, "release")
  /\ Still

(* Mutant of Statement: the first statement's result is not looked at.      *)
StatementUnchecked(t) ==
  /\ pc[t] \in {"first", "last"} /\ Usable(held[t])
  /\ \/ /\ ExecutePrepared(held[t], unit[t], IF pc[t] = "first" THEN 1 ELSE 2)
        /\ IF pc[t] = "first" THEN Goto(t, "last") /\ UNCHANGED result
           ELSE IF unit[t] \notin PlainUnits THEN Goto(t, "commit") /\ UNCHANGED result
           ELSE Goto(t, "release") /\ Return(t, "ok")
     \/ /\ CallFails(held[t])
        /\ IF pc[t] = "first" THEN Goto(t, "last") /\ UNCHANGED result
           ELSE Return(t, "error")
                /\ Goto(t, IF unit[t] \notin PlainUnits THEN "rollback" ELSE "release")
  /\ Still

(* A statement succeeds, or fails for its own reasons or because the        *)
(* session is gone; after a failure the method returns at once.             *)
Statement(t) ==
  /\ pc[t] \in {"first", "last"}
  /\ IF ~Usable(held[t]) THEN EnsureConnected(t)
     ELSE \/ /\ ExecutePrepared(held[t], unit[t], IF pc[t] = "first" THEN 1 ELSE 2)
             /\ IF pc[t] = "first" THEN Goto(t, "last") /\ UNCHANGED result
                ELSE IF unit[t] \notin PlainUnits THEN Goto(t, "commit") /\ UNCHANGED result
                ELSE Goto(t, "release") /\ Return(t, "ok")
          \/ /\ \/ CallFails(held[t])
                \/ ExecuteFails(held[t], IF pc[t] = "first" THEN 1 ELSE 2)
             /\ Return(t, "error")
             /\ Goto(t, IF unit[t] \notin PlainUnits THEN "rollback" ELSE "release")
  /\ Still

(* SqlTransaction::commit(): active_ stays set when it throws.              *)
CommitTransaction(t) ==
  /\ pc[t] = "commit"
  /\ IF obj[held[t]].connected
     THEN \/ Commit(held[t]) /\ Return(t, "ok") /\ Goto(t, "release")
          \/ CommitThrows(held[t]) /\ Return(t, "error") /\ Goto(t, "rollback")
     ELSE /\ Return(t, "error") /\ Goto(t, "rollback")
          /\ UNCHANGED <<obj, session, pending, cache, prepared, stored>>
  /\ Still

(* ~SqlTransaction(): an active transaction is rolled back, best effort.    *)
EndTransaction(t) ==
  /\ pc[t] = "rollback"
  /\ Rollback(held[t]) \/ RollbackFails(held[t])
  /\ Goto(t, "release")
  /\ UNCHANGED result
  /\ Still

-----------------------------------------------------------------------------
(* Giving a connection back.                                                *)

LetGo(t) == held' = [held EXCEPT ![t] = None] /\ unit' = [unit EXCEPT ![t] = None]

(* resetSessionStateSafe(): an open transaction is rolled back; otherwise   *)
(* setAutoCommit(true) shows whether the session is still there.            *)
ResetSessionStateSafe(c, reusable) ==
  IF obj[c].inTransaction
  THEN \/ reusable = TRUE /\ Rollback(c)
       \/ /\ reusable = FALSE
          /\ ~obj[c].connected \/ ~Alive(c)
          /\ MarkBroken(c)
          /\ UNCHANGED <<session, pending, stored>>
  ELSE \/ reusable = TRUE /\ Alive(c) /\ UNCHANGED <<obj, session, pending, cache, prepared, stored>>
       \/ reusable = FALSE /\ ~Alive(c) /\ CallFails(c)

(* Mutant of Release: whatever the reset finds, the connection goes back.   *)
ReleaseRegardless(t) ==
  /\ pc[t] = "release"
  /\ \E reusable \in BOOLEAN : ResetSessionStateSafe(held[t], reusable)
  /\ idle' = IF started THEN Append(idle, held[t]) ELSE idle
  /\ Goto(t, "out") /\ LetGo(t)
  /\ UNCHANGED <<started, stopping, conns, result, counts, faults>>

(* release(): outside the lock, then a good connection goes back to idle_   *)
(* and a bad one is to be replaced.                                         *)
Release(t) ==
  /\ pc[t] = "release"
  /\ \E reusable \in BOOLEAN :
       /\ ResetSessionStateSafe(held[t], reusable)
       /\ IF reusable /\ ~obj'[held[t]].broken
          THEN /\ idle' = IF started THEN Append(idle, held[t]) ELSE idle
               /\ Goto(t, "out") /\ LetGo(t)
          ELSE Goto(t, "replace") /\ UNCHANGED <<idle, held, unit>>
  /\ UNCHANGED <<started, stopping, conns, result, counts, faults>>

(* replaceConnection(): a new connection takes the old one's place; the old *)
(* object is destroyed, which closes its session.                           *)
ReplaceConnection(t) ==
  /\ pc[t] = "replace" /\ started
  /\ \E c \in Free :
       /\ idle' = Append(idle, c)
       /\ conns' = (conns \ {held[t]}) \cup {c}
       /\ obj' = [obj EXCEPT ![c] = Fresh]
       /\ session' = [session EXCEPT ![c] = "auto", ![held[t]] = None]
       /\ pending' = [pending EXCEPT ![held[t]] = {}]
       /\ cache' = [cache EXCEPT ![c] = <<>>] /\ prepared' = [prepared EXCEPT ![c] = {}]
       /\ counts' = [counts EXCEPT !.reconnects = @ + 1]
  /\ Goto(t, "out") /\ LetGo(t)
  /\ UNCHANGED <<started, stopping, result, stored, faults>>

(* replaceConnection() fails: the slot stays in connections_, and nothing   *)
(* puts it back to idle_ later.                                             *)
ReplaceFails(t) ==
  /\ pc[t] = "replace"
  /\ counts' = [counts EXCEPT !.replaceFailures = @ + 1]
  /\ Goto(t, "out") /\ LetGo(t)
  /\ UNCHANGED <<started, stopping, conns, idle, obj, session, pending, cache, prepared,
                 result, stored, faults>>

-----------------------------------------------------------------------------
(* The server closes a session; what was open in it is rolled back.         *)
DropSession(c) ==
  /\ Alive(c) /\ c \in conns /\ faults < MaxFaults
  /\ session' = [session EXCEPT ![c] = None]
  /\ pending' = [pending EXCEPT ![c] = {}]
  /\ faults' = faults + 1
  /\ UNCHANGED <<started, stopping, conns, idle, obj, cache, prepared, pc, held, unit,
                 result, stored, counts>>

(* TcpServer stops its executors, which drains them...                      *)
StopExecutors ==
  /\ started /\ ~stopping
  /\ stopping' = TRUE
  /\ UNCHANGED <<started, conns, idle, obj, session, pending, cache, prepared, pc, held, unit, result,
                 stored, counts, faults>>

(* ...before RepositoryBundle::shutdown() -> stop() closes every            *)
(* connection, idle or not.                                                 *)
Stop ==
  /\ started /\ stopping /\ \A t \in Threads : pc[t] = "out"
  /\ started' = FALSE /\ conns' = {} /\ idle' = <<>>
  /\ obj' = [c \in Conns |-> IF c \in conns THEN [obj[c] EXCEPT !.connected = FALSE] ELSE obj[c]]
  /\ session' = [c \in Conns |-> IF c \in conns THEN None ELSE session[c]]
  /\ pending' = [c \in Conns |-> IF c \in conns THEN {} ELSE pending[c]]
  /\ cache' = [c \in Conns |-> IF c \in conns THEN <<>> ELSE cache[c]]
  /\ UNCHANGED <<prepared, stopping, pc, held, unit, result, stored, counts, faults>>

Next ==
  \/ Start \/ StopExecutors \/ Stop
  \/ \E t \in Threads, u \in Units : Acquire(t, u) \/ AcquireTimeout(t, u)
  \/ \E t \in Threads :
       \/ Begin(t) \/ Statement(t) \/ CommitTransaction(t)
       \/ EndTransaction(t) \/ Release(t) \/ ReplaceConnection(t) \/ ReplaceFails(t)
  \/ \E c \in Conns : DropSession(c)

Spec == Init /\ [][Next]_vars

-----------------------------------------------------------------------------
(* A unit of work is stored as a whole or not at all, whichever call fails, *)
(* whenever the session is lost and whatever reconnects in between; and a   *)
(* method that returned Ok has stored its unit.                             *)
UnitsAreAtomic ==
  \A u \in Units :
    /\ u \notin PlainUnits => stored[u] \in {{}, Parts}
    /\ result[u] = "ok" => stored[u] # {}

(* Whoever borrows a connection gets a clean one: not broken, outside any   *)
(* transaction on either side, without a statement prepared in an earlier   *)
(* session, and in nobody else's hands.  Every connection of a started pool *)
(* is idle, borrowed, or lost to a replacement that failed, and the counter *)
(* says how many were lost.                                                 *)
PoolIsSound ==
  /\ \A i, j \in DOMAIN idle : i # j => idle[i] # idle[j]
  /\ \A c \in Elems(idle) :
       /\ c \in conns /\ c \notin InHands
       /\ obj[c] = Fresh
       /\ session[c] # "transaction" /\ pending[c] = {}
       /\ Len(cache[c]) <= CacheSize
       /\ Alive(c) => Elems(cache[c]) \subseteq prepared[c]
  /\ started => Cardinality(conns) = Len(idle) + Cardinality(InHands) + counts.replaceFailures
=============================================================================
