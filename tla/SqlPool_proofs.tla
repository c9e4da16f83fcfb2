--------------------------- MODULE SqlPool_proofs ---------------------------
(***************************************************************************)
(* Proofs that the connection pool is sound and that units of work are     *)
(* atomic, for any number of threads, connections and units, any pool size *)
(* and any size of the statement cache, whatever connections break.        *)
(***************************************************************************)
EXTENDS SqlPool, TLAPS

(* Where a thread is in its unit of work.                                   *)
PoolStates == {"out", "begin", "first", "last", "commit", "rollback", "release", "replace"}

(* The types of the pool's variables.                                       *)
PoolTypeOK ==
  /\ started \in BOOLEAN /\ stopping \in BOOLEAN
  /\ conns \in SUBSET Conns /\ idle \in Seq(Conns)
  /\ obj \in [Conns -> [connected : BOOLEAN, broken : BOOLEAN, inTransaction : BOOLEAN]]
  /\ session \in [Conns -> {None, "auto", "transaction"}]
  /\ pending \in [Conns -> SUBSET (Units \X Parts)]
  /\ cache \in [Conns -> Seq(Parts)]
  /\ pc \in [Threads -> PoolStates]
  /\ held \in [Threads -> Conns \cup {None}] /\ unit \in [Threads -> Units \cup {None}]
  /\ result \in [Units -> {None, "ok", "error"}]
  /\ stored \in [Units -> SUBSET Parts]
  /\ counts \in [acquireTimeouts : Nat, reconnects : Nat, replaceFailures : Nat]

(* Whoever is in a unit holds a connection of a started pool that nobody    *)
(* else holds and that is not idle; what is idle is as good as new.         *)
PoolBooks ==
  /\ \A t \in Threads :
       /\ held[t] = None <=> pc[t] = "out"
       /\ unit[t] = None <=> pc[t] = "out"
       /\ held[t] # None => started /\ held[t] \in conns
  /\ \A t, x \in Threads : t # x /\ held[t] # None => held[t] # held[x]
  /\ \A i, j \in DOMAIN idle : i # j => idle[i] # idle[j]
  /\ \A i \in DOMAIN idle : idle[i] \in conns /\ obj[idle[i]] = Fresh /\
         \A t \in Threads : held[t] # idle[i]
  /\ ~started => conns = {} /\ idle = <<>>
  /\ ~started /\ ~stopping => counts.replaceFailures = 0 /\ \A c \in Conns : obj[c] = Fresh

(* The slots of connections_: idle, in somebody's hands, or lost to a       *)
(* replacement that failed.                                                 *)
SlotsAddUp ==
  /\ IsFiniteSet(conns)
  /\ started => Cardinality(conns) = Len(idle) + Cardinality(InHands) + counts.replaceFailures

(* What the client and the server know of a connection agrees as far as it  *)
(* must: an open transaction on the server is known to the client, and only *)
(* an open transaction has statements waiting.                              *)
ConnAgrees(c) ==
  /\ c \notin conns => session[c] = None
  /\ session[c] = "transaction" => obj[c].inTransaction
  /\ pending[c] # {} => session[c] = "transaction"
  /\ Len(cache[c]) <= CacheSize
  /\ started => (obj[c].connected <=> ~obj[c].broken)
ConnsAgree == \A c \in Conns : ConnAgrees(c)

(* How far a unit is: unless its session is gone, the server holds exactly  *)
(* the statements carried out so far, in an open transaction.               *)
UnitOnItsWay(t) ==
  /\ pc[t] \in {"begin", "first", "last", "commit"} => Usable(held[t])
  /\ pc[t] \in {"begin", "first", "commit"} => unit[t] \notin PlainUnits
  /\ pc[t] = "first" /\ Alive(held[t]) => session[held[t]] = "transaction" /\ pending[held[t]] = {}
  /\ pc[t] = "last" /\ unit[t] \notin PlainUnits /\ Alive(held[t]) =>
       session[held[t]] = "transaction" /\ pending[held[t]] = {<<unit[t], 1>>}
  /\ pc[t] = "last" /\ unit[t] \in PlainUnits => ~obj[held[t]].inTransaction
  /\ pc[t] = "commit" /\ Alive(held[t]) =>
       session[held[t]] = "transaction" /\ pending[held[t]] = {<<unit[t], 1>>, <<unit[t], 2>>}
UnitsOnTheirWay == \A t \in Threads : UnitOnItsWay(t)

(* getOrPrepare() keeps the cache within its capacity.                      *)
LEMMA CacheIsBounded ==
  ASSUME NEW s \in Seq(Parts), Len(s) <= CacheSize, NEW x \in Parts
  PROVE  GetOrPrepare(s, x) \in Seq(Parts) /\ Len(GetOrPrepare(s, x)) <= CacheSize
<1>1. CASE x \in Elems(s)
  <2>1. \E i \in DOMAIN s : s[i] = x
    BY <1>1, Zenon DEF Elems
  <2>2. PICK k \in 1..Len(s) : Without(s, x) = SubSeq(s, 1, k - 1) \o SubSeq(s, k + 1, Len(s))
    <3> DEFINE k0 == CHOOSE k \in DOMAIN s : s[k] = x
    <3>1. k0 \in 1..Len(s)
      BY <2>1, SMTT(30)
    <3>2. Without(s, x) = SubSeq(s, 1, k0 - 1) \o SubSeq(s, k0 + 1, Len(s))
      BY Zenon DEF Without
    <3> HIDE DEF k0
    <3> QED BY <3>1, <3>2, Zenon
  <2>3. Without(s, x) \in Seq(Parts) /\ Len(Without(s, x)) = Len(s) - 1
    <3> DEFINE a == SubSeq(s, 1, k - 1)
               b == SubSeq(s, k + 1, Len(s))
    <3>1. a \in Seq(Parts) /\ Len(a) = k - 1
      BY SMTT(30)
    <3>2. b \in Seq(Parts) /\ Len(b) = Len(s) - k
      BY SMTT(30)
    <3>3. Without(s, x) = a \o b
      BY <2>2, Zenon
    <3> HIDE DEF a, b
    <3>4. a \o b \in Seq(Parts) /\ Len(a \o b) = Len(a) + Len(b)
      BY <3>1, <3>2, SMTT(30)
    <3> QED BY <3>1, <3>2, <3>3, <3>4, SMTT(30)
  <2>4. GetOrPrepare(s, x) = <<x>> \o Without(s, x)
    BY <1>1, Zenon DEF GetOrPrepare
  <2>5. <<x>> \in Seq(Parts) /\ Len(<<x>>) = 1
    BY SMTT(30)
  <2> QED BY <2>3, <2>4, <2>5, SMTT(30)
<1>2. CASE x \notin Elems(s)
  <2>1. PICK r \in Seq(Parts) : GetOrPrepare(s, x) = <<x>> \o r /\ Len(r) < CacheSize
    <3>1. CASE Len(s) >= CacheSize
      <4>1. ButLast(s) \in Seq(Parts) /\ Len(ButLast(s)) = Len(s) - 1
        <5>1. Len(s) \in Nat /\ Len(s) >= 1
          BY <3>1, SqlPoolAssumption, SMTT(30)
        <5>2. \A i \in 1..(Len(s) - 1) : s[i] \in Parts
          BY <5>1, SMTT(30)
        <5>3. PICK n \in Int : n = Len(s) - 1
          BY <5>1, SMTT(30)
        <5>4. SubSeq(s, 1, n) \in Seq(Parts) /\ Len(SubSeq(s, 1, n)) = IF 1 <= n THEN n - 1 + 1 ELSE 0
          BY <5>2, <5>3, SMTT(30)
        <5>5. Len(SubSeq(s, 1, n)) = n
          BY <5>1, <5>3, <5>4, SMTT(30)
        <5> QED BY <5>3, <5>4, <5>5, Zenon DEF ButLast
      <4> QED BY <1>2, <3>1, <4>1, SqlPoolAssumption, SMTT(30) DEF GetOrPrepare
    <3>2. CASE ~(Len(s) >= CacheSize)
      BY <1>2, <3>2, SqlPoolAssumption, SMTT(30) DEF GetOrPrepare
    <3> QED BY <3>1, <3>2, Zenon
  <2>2. <<x>> \in Seq(Parts) /\ Len(<<x>>) = 1
    BY SMTT(30)
  <2> QED BY <2>1, <2>2, SqlPoolAssumption, SMTT(30)
<1> QED BY <1>1, <1>2, Zenon

(* The types of what a call on a connection may change.                     *)
Typed ==
  /\ obj \in [Conns -> [connected : BOOLEAN, broken : BOOLEAN, inTransaction : BOOLEAN]]
  /\ session \in [Conns -> {None, "auto", "transaction"}]
  /\ pending \in [Conns -> SUBSET (Units \X Parts)]
  /\ cache \in [Conns -> Seq(Parts)]

(* A call on connection c, in any of its outcomes.                          *)
ConnCall(c) ==
  \/ CallFails(c) \/ BeginTransaction(c) \/ Commit(c) \/ CommitThrows(c)
  \/ Rollback(c) \/ RollbackFails(c) \/ Reconnect(c) \/ ReconnectFails(c)
  \/ \E u \in Units, p \in Parts : ExecutePrepared(c, u, p)
  \/ \E p \in Parts : ExecuteFails(c, p)
  \/ MarkBroken(c) /\ UNCHANGED <<session, pending>>
  \/ UNCHANGED <<obj, session, pending, cache, prepared>>

(* Connection c is the only one that a step touched, and it still agrees    *)
(* with its session.                                                        *)
OneConn(c) ==
  /\ Typed'
  /\ \A d \in Conns \ {c} : obj'[d] = obj[d] /\ session'[d] = session[d] /\ pending'[d] = pending[d] /\
         cache'[d] = cache[d]
  /\ ConnAgrees(c)'

(* clear() leaves an empty cache.                                           *)
LEMMA EmptyCache == <<>> \in Seq(Parts) /\ Len(<<>>) = 0
BY SMTT(30)

(* markBroken() leaves the transaction flag as it is.                       *)
LEMMA BrokenFields ==
  ASSUME NEW c \in Conns, Typed, MarkBroken(c)
  PROVE  /\ obj' \in [Conns -> [connected : BOOLEAN, broken : BOOLEAN, inTransaction : BOOLEAN]]
         /\ obj'[c].connected = FALSE /\ obj'[c].broken = TRUE
         /\ obj'[c].inTransaction = obj[c].inTransaction
         /\ cache' \in [Conns -> Seq(Parts)] /\ Len(cache'[c]) <= CacheSize
         /\ \A d \in Conns \ {c} : obj'[d] = obj[d] /\ cache'[d] = cache[d]
<1>1. obj' = [obj EXCEPT ![c] = [@ EXCEPT !.broken = TRUE, !.connected = FALSE]]
  BY Zenon DEF MarkBroken, Typed
<1>2. cache' = [cache EXCEPT ![c] = <<>>]
  BY Zenon DEF MarkBroken
<1>3. /\ obj' \in [Conns -> [connected : BOOLEAN, broken : BOOLEAN, inTransaction : BOOLEAN]]
      /\ obj'[c].connected = FALSE /\ obj'[c].broken = TRUE
      /\ obj'[c].inTransaction = obj[c].inTransaction
  BY <1>1, Zenon DEF Typed
<1>4. cache' \in [Conns -> Seq(Parts)] /\ cache'[c] = <<>>
  BY <1>2, EmptyCache, Zenon DEF Typed
<1>5. \A d \in Conns \ {c} : obj'[d] = obj[d] /\ cache'[d] = cache[d]
  BY <1>1, <1>2, Zenon DEF Typed
<1> QED BY <1>3, <1>4, <1>5, EmptyCache, SqlPoolAssumption, SMTT(30)

(* A call on a connection touches that connection only, and leaves the      *)
(* client and the server in agreement.                                      *)
LEMMA CallsStayOnTheirConnection ==
  ASSUME NEW c \in conns, conns \subseteq Conns, Typed, ConnAgrees(c), ConnCall(c),
         UNCHANGED <<conns, started>>
  PROVE  OneConn(c)
<1> USE SqlPoolAssumption
<1> c \in Conns
  BY Zenon
<1>0. ASSUME MarkBroken(c), UNCHANGED <<session, pending>> PROVE OneConn(c)
  BY <1>0, BrokenFields, EmptyCache, Zenon DEF MarkBroken, OneConn, Typed, ConnAgrees
<1>1. CASE CallFails(c)
  BY <1>1, <1>0, Zenon DEF CallFails, OneConn, Typed, ConnAgrees
<1>2. CASE BeginTransaction(c)
  BY <1>2, Zenon DEF BeginTransaction, OneConn, Typed, ConnAgrees
<1>3. CASE Commit(c)
  BY <1>3, Zenon DEF Commit, OneConn, Typed, ConnAgrees, None
<1>4. CASE CommitThrows(c)
  <2>1. /\ session' = [session EXCEPT ![c] = None]
        /\ pending' = [pending EXCEPT ![c] = {}]
        /\ MarkBroken(c)
    BY <1>4, Zenon DEF CommitThrows
  <2>2. /\ session'[c] = None /\ pending'[c] = {}
        /\ \A d \in Conns \ {c} : session'[d] = session[d] /\ pending'[d] = pending[d]
    BY <2>1, Zenon DEF Typed
  <2>3. /\ session' \in [Conns -> {None, "auto", "transaction"}]
        /\ pending' \in [Conns -> SUBSET (Units \X Parts)]
    BY <2>1, Zenon DEF Typed
  <2> QED BY <2>1, <2>2, <2>3, BrokenFields, Zenon DEF OneConn, Typed, ConnAgrees, None
<1>5. CASE Rollback(c)
  BY <1>5, Zenon DEF Rollback, OneConn, Typed, ConnAgrees
<1>6. CASE RollbackFails(c)
  BY <1>6, <1>0, Zenon DEF RollbackFails, OneConn, Typed, ConnAgrees
<1>7. CASE Reconnect(c)
  <2>1. /\ session' = [session EXCEPT ![c] = "auto"]
        /\ pending' = [pending EXCEPT ![c] = {}]
        /\ obj' = [obj EXCEPT ![c] = [@ EXCEPT !.connected = TRUE, !.broken = FALSE]]
        /\ cache' = [cache EXCEPT ![c] = <<>>]
    BY <1>7, Zenon DEF Reconnect, Typed
  <2>2. /\ session'[c] = "auto" /\ pending'[c] = {} /\ cache'[c] = <<>>
        /\ \A d \in Conns \ {c} : /\ session'[d] = session[d] /\ pending'[d] = pending[d]
                                  /\ cache'[d] = cache[d] /\ obj'[d] = obj[d]
    BY <2>1, Zenon DEF Typed
  <2>3. /\ session' \in [Conns -> {None, "auto", "transaction"}]
        /\ pending' \in [Conns -> SUBSET (Units \X Parts)]
        /\ cache' \in [Conns -> Seq(Parts)]
    BY <2>1, EmptyCache, Zenon DEF Typed
  <2>4. /\ obj' \in [Conns -> [connected : BOOLEAN, broken : BOOLEAN, inTransaction : BOOLEAN]]
        /\ obj'[c].connected = TRUE /\ obj'[c].broken = FALSE
    BY <2>1, Zenon DEF Typed
  <2> QED BY <2>2, <2>3, <2>4, EmptyCache, SMTT(30) DEF OneConn, Typed, ConnAgrees, None
<1>8. CASE ReconnectFails(c)
  <2>1. /\ session' = [session EXCEPT ![c] = None]
        /\ pending' = [pending EXCEPT ![c] = {}]
        /\ obj' = [obj EXCEPT ![c] = [@ EXCEPT !.connected = FALSE, !.broken = TRUE]]
        /\ cache' = [cache EXCEPT ![c] = <<>>]
    BY <1>8, Zenon DEF ReconnectFails, Typed
  <2>2. /\ session'[c] = None /\ pending'[c] = {} /\ cache'[c] = <<>>
        /\ \A d \in Conns \ {c} : /\ session'[d] = session[d] /\ pending'[d] = pending[d]
                                  /\ cache'[d] = cache[d] /\ obj'[d] = obj[d]
    BY <2>1, Zenon DEF Typed
  <2>3. /\ session' \in [Conns -> {None, "auto", "transaction"}]
        /\ pending' \in [Conns -> SUBSET (Units \X Parts)]
        /\ cache' \in [Conns -> Seq(Parts)]
    BY <2>1, EmptyCache, Zenon DEF Typed
  <2>4. /\ obj' \in [Conns -> [connected : BOOLEAN, broken : BOOLEAN, inTransaction : BOOLEAN]]
        /\ obj'[c].connected = FALSE /\ obj'[c].broken = TRUE
    BY <2>1, Zenon DEF Typed
  <2> QED BY <2>2, <2>3, <2>4, EmptyCache, SMTT(30) DEF OneConn, Typed, ConnAgrees, None
<1>p. ASSUME NEW p \in Parts, Prepare(c, p)
      PROVE  cache' \in [Conns -> Seq(Parts)] /\ Len(cache'[c]) <= CacheSize /\
               \A d \in Conns \ {c} : cache'[d] = cache[d]
  <2>1. cache[c] \in Seq(Parts) /\ Len(cache[c]) <= CacheSize
    BY Zenon DEF Typed, ConnAgrees
  <2>2. PICK q \in Seq(Parts) : q = GetOrPrepare(cache[c], p) /\ Len(q) <= CacheSize
    BY <2>1, CacheIsBounded, Zenon
  <2>3. cache' = [cache EXCEPT ![c] = q]
    BY <1>p, <2>2, Zenon DEF Prepare
  <2> QED BY <2>2, <2>3, Zenon DEF Typed
<1>9. ASSUME NEW u \in Units, NEW p \in Parts, ExecutePrepared(c, u, p) PROVE OneConn(c)
  <2>4. cache' \in [Conns -> Seq(Parts)] /\ Len(cache'[c]) <= CacheSize /\
          \A d \in Conns \ {c} : cache'[d] = cache[d]
    BY <1>9, <1>p, Zenon DEF ExecutePrepared
  <2>5. obj' = obj /\ session' = session
    BY <1>9, Zenon DEF ExecutePrepared
  <2>6. \/ session[c] = "transaction" /\ pending' = [pending EXCEPT ![c] = @ \cup {<<u, p>>}]
        \/ pending' = pending
    BY <1>9, Zenon DEF ExecutePrepared
  <2>7. /\ pending' \in [Conns -> SUBSET (Units \X Parts)]
        /\ \A d \in Conns \ {c} : pending'[d] = pending[d]
        /\ pending'[c] # pending[c] => session[c] = "transaction"
    <3>1. CASE session[c] = "transaction" /\ pending' = [pending EXCEPT ![c] = @ \cup {<<u, p>>}]
      BY <3>1, SMTT(30) DEF Typed
    <3>2. CASE pending' = pending
      BY <3>2, Zenon DEF Typed
    <3> QED BY <2>6, <3>1, <3>2, Zenon
  <2> QED BY <2>4, <2>5, <2>7, Zenon DEF OneConn, Typed, ConnAgrees
<1>10. CASE UNCHANGED <<obj, session, pending, cache, prepared>>
  BY <1>10, Zenon DEF OneConn, Typed, ConnAgrees
<1>11. ASSUME NEW p \in Parts, ExecuteFails(c, p) PROVE OneConn(c)
  <2>1. cache' \in [Conns -> Seq(Parts)] /\ Len(cache'[c]) <= CacheSize /\
          \A d \in Conns \ {c} : cache'[d] = cache[d]
    BY <1>11, <1>p, Zenon DEF ExecuteFails
  <2> QED BY <2>1, <1>11, Zenon DEF ExecuteFails, OneConn, Typed, ConnAgrees
<1> QED
  BY <1>0, <1>1, <1>2, <1>3, <1>4, <1>5, <1>6, <1>7, <1>8, <1>9, <1>10, <1>11, Zenon DEF ConnCall

-----------------------------------------------------------------------------
(* A step of a unit of work.                                                *)
Work(t) == Begin(t) \/ Statement(t) \/ CommitTransaction(t) \/ EndTransaction(t)

(* A step of a unit is one call on the connection its thread holds.         *)
LEMMA WorkEffect ==
  ASSUME PoolTypeOK, PoolBooks, NEW t \in Threads, Work(t)
  PROVE  /\ pc[t] # "out" /\ held[t] \in conns /\ held[t] \in Conns /\ unit[t] \in Units /\ started
         /\ ConnCall(held[t]) /\ Still
         /\ \E l \in PoolStates \ {"out"} : pc' = [pc EXCEPT ![t] = l]
         /\ \/ result' = result
            \/ \E r \in {"ok", "error"} : result' = [result EXCEPT ![unit[t]] = r]
<1>1. pc[t] \in {"begin", "first", "last", "commit", "rollback"}
  BY Zenon DEF Work, Begin, Statement, CommitTransaction, EndTransaction
<1>2. pc[t] # "out" /\ held[t] \in conns /\ held[t] \in Conns /\ unit[t] \in Units /\ started
  BY <1>1, SMTT(30) DEF PoolTypeOK, PoolBooks
<1>3. Still
  BY Zenon DEF Work, Begin, Statement, CommitTransaction, EndTransaction
<1> DEFINE NewPc == \E l \in PoolStates \ {"out"} : pc' = [pc EXCEPT ![t] = l]
           NewResult == \/ result' = result
                        \/ \E r \in {"ok", "error"} : result' = [result EXCEPT ![unit[t]] = r]
<1>p. ASSUME NEW l \in PoolStates \ {"out"}, Goto(t, l) PROVE NewPc
  BY <1>p, Zenon DEF Goto
<1>q. pc' = pc => NewPc
  <2>1. pc = [pc EXCEPT ![t] = pc[t]] /\ pc[t] \in PoolStates \ {"out"}
    BY <1>1, Zenon DEF PoolTypeOK, PoolStates
  <2> QED BY <2>1, Zenon
<1>r. ASSUME NEW r \in {"ok", "error"}, Return(t, r) PROVE NewResult
  BY <1>r, Zenon DEF Return
<1> HIDE DEF NewPc, NewResult
<1>4. ASSUME EnsureConnected(t) PROVE ConnCall(held[t]) /\ NewPc /\ NewResult
  <2>1. CASE Reconnect(held[t]) /\ UNCHANGED <<pc, result>>
    <3>1. ConnCall(held[t])
      BY <2>1, Zenon DEF ConnCall
    <3>2. NewResult
      BY <2>1, Zenon DEF NewResult
    <3> QED BY <3>1, <3>2, <2>1, <1>q, Zenon
  <2>2. CASE /\ ReconnectFails(held[t]) /\ Return(t, "error")
             /\ Goto(t, IF unit[t] \notin PlainUnits /\ pc[t] # "begin" THEN "rollback" ELSE "release")
    <3>1. ConnCall(held[t])
      BY <2>2, Zenon DEF ConnCall
    <3>2. NewResult
      BY <2>2, <1>r, Zenon
    <3>3. Goto(t, "rollback") \/ Goto(t, "release")
      BY <2>2, Zenon
    <3> QED BY <3>1, <3>2, <3>3, <1>p, Zenon DEF PoolStates
  <2> QED BY <1>4, <2>1, <2>2, Zenon DEF EnsureConnected
<1>5. CASE Begin(t)
  <2>1. CASE EnsureConnected(t)
    BY <2>1, <1>4, <1>2, <1>3, Zenon DEF NewPc, NewResult
  <2>2. CASE Return(t, "error") /\ Goto(t, "release") /\
          UNCHANGED <<obj, session, pending, cache, prepared, stored>>
    <3>1. ConnCall(held[t])
      BY <2>2, Zenon DEF ConnCall
    <3>2. NewPc
      BY <2>2, <1>p, Zenon DEF PoolStates
    <3>3. NewResult
      BY <2>2, <1>r, SMTT(30)
    <3> QED BY <3>1, <3>2, <3>3, <1>2, <1>3, Zenon DEF NewPc, NewResult
  <2>3. CASE BeginTransaction(held[t]) /\ Goto(t, "first") /\ UNCHANGED result
    <3>1. ConnCall(held[t])
      BY <2>3, Zenon DEF ConnCall
    <3>2. NewPc
      BY <2>3, <1>p, Zenon DEF PoolStates
    <3>3. NewResult
      BY <2>3, SMTT(30) DEF NewResult
    <3> QED BY <3>1, <3>2, <3>3, <1>2, <1>3, Zenon DEF NewPc, NewResult
  <2>4. CASE CallFails(held[t]) /\ Return(t, "error") /\ Goto(t, "release")
    <3>1. ConnCall(held[t])
      BY <2>4, Zenon DEF ConnCall
    <3>2. NewPc
      BY <2>4, <1>p, Zenon DEF PoolStates
    <3>3. NewResult
      BY <2>4, <1>r, Zenon
    <3> QED BY <3>1, <3>2, <3>3, <1>2, <1>3, Zenon DEF NewPc, NewResult
  <2> QED BY <1>5, <2>1, <2>2, <2>3, <2>4, Zenon DEF Begin
<1>6. CASE Statement(t)
  <2>1. CASE EnsureConnected(t)
    BY <2>1, <1>4, <1>2, <1>3, Zenon DEF NewPc, NewResult
  <2>2. CASE /\ ExecutePrepared(held[t], unit[t], IF pc[t] = "first" THEN 1 ELSE 2)
             /\ IF pc[t] = "first" THEN Goto(t, "last") /\ UNCHANGED result
                ELSE IF unit[t] \notin PlainUnits THEN Goto(t, "commit") /\ UNCHANGED result
                ELSE Goto(t, "release") /\ Return(t, "ok")
    <3>1. ConnCall(held[t])
      <4>1. PICK p \in Parts : ExecutePrepared(held[t], unit[t], p)
        BY <2>2, Zenon DEF Parts
      <4> QED BY <4>1, <1>2, Zenon DEF ConnCall
    <3>2. Goto(t, "last") \/ Goto(t, "commit") \/ Goto(t, "release")
      BY <2>2, Zenon
    <3>3. NewPc
      BY <3>2, <1>p, Zenon DEF PoolStates
    <3>4. result' = result \/ Return(t, "ok")
      BY <2>2, Zenon
    <3>5. NewResult
      BY <3>4, <1>r, Zenon DEF NewResult
    <3> QED BY <3>1, <3>3, <3>5, <1>2, <1>3, Zenon DEF NewPc, NewResult
  <2>3. CASE /\ \/ CallFails(held[t])
                \/ ExecuteFails(held[t], IF pc[t] = "first" THEN 1 ELSE 2)
             /\ Return(t, "error")
             /\ Goto(t, IF unit[t] \notin PlainUnits THEN "rollback" ELSE "release")
    <3>1. ConnCall(held[t])
      <4>1. CallFails(held[t]) \/ \E p \in Parts : ExecuteFails(held[t], p)
        BY <2>3, Zenon DEF Parts
      <4> QED BY <4>1, Zenon DEF ConnCall
    <3>2. Goto(t, "rollback") \/ Goto(t, "release")
      BY <2>3, Zenon
    <3>3. NewPc
      BY <3>2, <1>p, Zenon DEF PoolStates
    <3>4. NewResult
      BY <2>3, <1>r, Zenon
    <3> QED BY <3>1, <3>3, <3>4, <1>2, <1>3, Zenon DEF NewPc, NewResult
  <2> QED BY <1>6, <2>1, <2>2, <2>3, Zenon DEF Statement
<1>7. CASE CommitTransaction(t)
  <2>1. ConnCall(held[t])
    BY <1>7, Zenon DEF CommitTransaction, ConnCall
  <2>2. Goto(t, "rollback") \/ Goto(t, "release")
    BY <1>7, Zenon DEF CommitTransaction
  <2>3. NewPc
    BY <2>2, <1>p, Zenon DEF PoolStates
  <2>4. Return(t, "ok") \/ Return(t, "error")
    BY <1>7, Zenon DEF CommitTransaction
  <2>5. NewResult
    BY <2>4, <1>r, Zenon
  <2> QED BY <2>1, <2>3, <2>5, <1>2, <1>3, Zenon DEF NewPc, NewResult
<1>8. CASE EndTransaction(t)
  <2>1. ConnCall(held[t])
    BY <1>8, Zenon DEF EndTransaction, ConnCall
  <2>2. NewPc
    BY <1>8, <1>p, Zenon DEF PoolStates, EndTransaction
  <2>3. NewResult
    BY <1>8, Zenon DEF NewResult, EndTransaction
  <2> QED BY <2>1, <2>2, <2>3, <1>2, <1>3, Zenon DEF NewPc, NewResult
<1> QED BY <1>5, <1>6, <1>7, <1>8, Zenon DEF Work

(* A unit is as far as before when nothing touched its connection.          *)
LEMMA UndisturbedUnit ==
  ASSUME PoolTypeOK, PoolBooks, NEW x \in Threads, UnitOnItsWay(x),
         pc'[x] = pc[x], held'[x] = held[x], unit'[x] = unit[x],
         pc[x] # "out" => /\ obj'[held[x]] = obj[held[x]] /\ session'[held[x]] = session[held[x]]
                          /\ pending'[held[x]] = pending[held[x]]
  PROVE  UnitOnItsWay(x)'
<1>1. CASE pc[x] = "out"
  BY <1>1, Zenon DEF UnitOnItsWay
<1>2. CASE pc[x] # "out"
  BY <1>2, Zenon DEF UnitOnItsWay, Usable, Alive
<1> QED BY <1>1, <1>2, Zenon

(* Nothing more is asked of a unit that failed or is done.                  *)
LEMMA EndedUnit ==
  ASSUME NEW x \in Threads, pc'[x] \in {"out", "rollback", "release", "replace"}
  PROVE  UnitOnItsWay(x)'
BY Zenon DEF UnitOnItsWay

-----------------------------------------------------------------------------
(* A step of a unit leaves the pool's books in order.                       *)
LEMMA WorkKeepsBooks ==
  ASSUME PoolTypeOK, PoolBooks, ConnsAgree, UnitsAreAtomic, stored' \in [Units -> SUBSET Parts],
         NEW t \in Threads, Work(t)
  PROVE  /\ PoolTypeOK' /\ PoolBooks' /\ ConnsAgree'
         /\ \A c \in Conns : c = held[t] => OneConn(c)
<1>1. /\ pc[t] # "out" /\ held[t] \in conns /\ held[t] \in Conns /\ unit[t] \in Units /\ started
      /\ ConnCall(held[t]) /\ Still
  BY WorkEffect, Zenon
<1>2. PICK l \in PoolStates \ {"out"} : pc' = [pc EXCEPT ![t] = l]
  BY WorkEffect, Zenon
<1>3. result' \in [Units -> {None, "ok", "error"}]
  <2>1. CASE result' = result
    BY <2>1, Zenon DEF PoolTypeOK
  <2>2. ASSUME NEW r \in {"ok", "error"}, result' = [result EXCEPT ![unit[t]] = r]
          PROVE result' \in [Units -> {None, "ok", "error"}]
    BY <2>2, <1>1, Zenon DEF PoolTypeOK
  <2> QED BY <2>1, <2>2, WorkEffect, Zenon
<1>0. PICK c \in conns : c = held[t]
  BY <1>1, Zenon
<1>4. Typed /\ ConnAgrees(c) /\ conns \subseteq Conns
  BY <1>0, Zenon DEF PoolTypeOK, Typed, ConnsAgree
<1>5. started' = started /\ stopping' = stopping /\ conns' = conns /\ idle' = idle /\ held' = held /\
        unit' = unit /\ counts' = counts
  BY <1>1, Zenon DEF Still
<1>6. OneConn(c)
  <2>1. ConnCall(c)
    BY <1>0, <1>1, Zenon
  <2> QED BY <2>1, <1>4, <1>5, CallsStayOnTheirConnection, Zenon
<1>7. PoolTypeOK'
  <2>1. pc' \in [Threads -> PoolStates]
    BY <1>2, Zenon DEF PoolTypeOK
  <2> QED BY <2>1, <1>3, <1>5, <1>6, Zenon DEF PoolTypeOK, OneConn, Typed, PoolStates, Parts
<1>8. ConnsAgree'
  <2> SUFFICES ASSUME NEW d \in Conns PROVE ConnAgrees(d)'
    BY Zenon DEF ConnsAgree
  <2>1. CASE d = c
    BY <2>1, <1>6, Zenon DEF OneConn
  <2>2. CASE d # c
    BY <2>2, <1>5, <1>6, Zenon DEF OneConn, ConnsAgree, ConnAgrees
  <2> QED BY <2>1, <2>2, Zenon
<1>10. PoolBooks'
  <2>1. \A x \in Threads : pc'[x] = "out" <=> pc[x] = "out"
    BY <1>1, <1>2, Zenon DEF PoolTypeOK
  <2>2. \A i \in DOMAIN idle : obj'[idle[i]] = Fresh
    <3> TAKE i \in DOMAIN idle
    <3>1. obj[idle[i]] = Fresh /\ idle[i] # c /\ idle[i] \in Conns
      BY <1>0, Zenon DEF PoolBooks, PoolTypeOK
    <3> QED BY <3>1, <1>6, Zenon DEF OneConn
  <2> QED BY <2>1, <2>2, <1>1, <1>5, SMTT(30) DEF PoolBooks
<1> QED BY <1>0, <1>6, <1>7, <1>8, <1>10, Zenon

(* A call on one thread's connection leaves the units of the others as they *)
(* are.                                                                     *)
LEMMA OtherUnits ==
  ASSUME PoolTypeOK, PoolBooks, UnitsOnTheirWay, NEW c, OneConn(c), NEW t \in Threads, held[t] = c,
         pc[t] # "out",
         NEW x \in Threads, x # t, pc'[x] = pc[x], held'[x] = held[x], unit'[x] = unit[x]
  PROVE  UnitOnItsWay(x)'
<1>1. UnitOnItsWay(x)
  BY Zenon DEF UnitsOnTheirWay
<1>2. pc[x] # "out" => held[x] # c /\ held[x] \in Conns
  BY Zenon DEF PoolBooks, PoolTypeOK
<1>3. pc[x] # "out" => /\ obj'[held[x]] = obj[held[x]] /\ session'[held[x]] = session[held[x]]
                       /\ pending'[held[x]] = pending[held[x]]
  BY <1>2, Zenon DEF OneConn
<1> QED BY <1>1, <1>3, UndisturbedUnit, Zenon

(* A step that stores nothing and reports no success keeps units atomic.    *)
LEMMA NothingStored ==
  ASSUME UnitsAreAtomic, PoolTypeOK, stored' = stored, NEW u \in Units,
         result' = result \/ result' = [result EXCEPT ![u] = "error"]
  PROVE  UnitsAreAtomic'
<1> SUFFICES ASSUME NEW v \in Units
             PROVE  /\ v \notin PlainUnits => stored'[v] \in {{}, Parts}
                    /\ result'[v] = "ok" => stored'[v] # {}
    BY Zenon DEF UnitsAreAtomic, Parts
<1>1. result'[v] = "ok" => result[v] = "ok"
  BY Zenon DEF PoolTypeOK
<1> QED BY <1>1, Zenon DEF UnitsAreAtomic

-----------------------------------------------------------------------------
(* The inductive invariant, but for the count of the slots.                 *)
PoolParts == PoolTypeOK /\ PoolBooks /\ ConnsAgree /\ UnitsOnTheirWay /\ UnitsAreAtomic

(* SqlTransaction(): a transaction that begins holds no statement yet; one  *)
(* that does not ends its unit.                                             *)
LEMMA BeginUnit ==
  ASSUME PoolParts, NEW t \in Threads, Begin(t), NEW c \in Conns, c = held[t], NEW u \in Units,
         u = unit[t]
  PROVE  /\ stored' = stored
         /\ result' = result \/ result' = [result EXCEPT ![u] = "error"]
         /\ UnitOnItsWay(t)'
<1>0. /\ pc[t] = "begin" /\ Usable(c) /\ u \notin PlainUnits
      /\ held'[t] = c /\ unit'[t] = u
  BY Zenon DEF PoolParts, UnitsOnTheirWay, UnitOnItsWay, Begin, Still
<1>1. CASE Return(t, "error") /\ Goto(t, "release") /\
        UNCHANGED <<obj, session, pending, cache, prepared, stored>>
  <2>1. pc'[t] = "release"
    BY <1>1, Zenon DEF Goto, PoolParts, PoolTypeOK
  <2> QED BY <2>1, <1>1, EndedUnit, Zenon DEF Return
<1>2. CASE BeginTransaction(c) /\ Goto(t, "first") /\ UNCHANGED result
  <2>1. pc'[t] = "first" /\ stored' = stored /\ result' = result /\ pending' = pending
    BY <1>2, Zenon DEF Goto, PoolParts, PoolTypeOK, BeginTransaction
  <2>2. pending[c] = {}
    BY <1>2, Zenon DEF BeginTransaction, PoolParts, ConnsAgree, ConnAgrees
  <2>3. session'[c] = "transaction" /\ obj'[c].connected = obj[c].connected /\
          obj'[c].broken = obj[c].broken
    BY <1>2, SMTT(30) DEF BeginTransaction, PoolParts, PoolTypeOK
  <2>4. UnitOnItsWay(t)'
    BY <2>1, <2>2, <2>3, <1>0, Zenon DEF UnitOnItsWay, Usable, Alive, None
  <2> QED BY <2>1, <2>4, Zenon
<1>3. CASE CallFails(c) /\ Return(t, "error") /\ Goto(t, "release")
  <2>1. pc'[t] = "release"
    BY <1>3, Zenon DEF Goto, PoolParts, PoolTypeOK
  <2> QED BY <2>1, <1>3, EndedUnit, Zenon DEF Return, CallFails
<1> QED BY <1>0, <1>1, <1>2, <1>3, Zenon DEF Begin

(* A statement joins the open transaction, or is stored at once when it is  *)
(* the whole unit; a statement that fails ends the unit.                    *)
LEMMA StatementUnit ==
  ASSUME PoolParts, NEW t \in Threads, Statement(t), NEW c \in Conns, c = held[t], NEW u \in Units,
         u = unit[t]
  PROVE  UnitsAreAtomic' /\ UnitOnItsWay(t)' /\ stored' \in [Units -> SUBSET Parts]
<1>0. /\ pc[t] \in {"first", "last"} /\ Usable(c)
      /\ held'[t] = c /\ unit'[t] = u
  BY Zenon DEF PoolParts, UnitsOnTheirWay, UnitOnItsWay, Statement, Still
<1>t. /\ stored \in [Units -> SUBSET Parts] /\ pc \in [Threads -> PoolStates] /\ PoolTypeOK
      /\ pending \in [Conns -> SUBSET (Units \X Parts)] /\ result \in [Units -> {None, "ok", "error"}]
  BY Zenon DEF PoolParts, PoolTypeOK
<1>w. UnitOnItsWay(t) /\ UnitsAreAtomic /\ ConnAgrees(c)
  BY Zenon DEF PoolParts, UnitsOnTheirWay, ConnsAgree
<1>1. CASE /\ CallFails(c) \/ ExecuteFails(c, IF pc[t] = "first" THEN 1 ELSE 2)
           /\ Return(t, "error")
           /\ Goto(t, IF unit[t] \notin PlainUnits THEN "rollback" ELSE "release")
  <2>1. pc'[t] \in {"release", "rollback"}
    BY <1>1, <1>t, Zenon DEF Goto
  <2>2. stored' = stored /\ result' = [result EXCEPT ![u] = "error"]
    BY <1>1, Zenon DEF CallFails, ExecuteFails, Return
  <2>3. UnitsAreAtomic'
    BY <2>2, <1>t, <1>w, NothingStored, Zenon
  <2> QED BY <2>1, <2>2, <2>3, <1>t, EndedUnit, Zenon
<1>2. CASE pc[t] = "first" /\ ExecutePrepared(c, u, 1) /\ Goto(t, "last") /\ UNCHANGED result
  <2>1. pc'[t] = "last" /\ obj' = obj /\ session' = session
    BY <1>2, <1>t, Zenon DEF Goto, ExecutePrepared
  <2>2. session[c] = "transaction" /\ pending[c] = {} /\ u \notin PlainUnits
    BY <1>2, <1>w, Zenon DEF UnitOnItsWay, ExecutePrepared, Prepare
  <2>3. pending' = [pending EXCEPT ![c] = @ \cup {<<u, 1>>}] /\ stored' = stored
    BY <1>2, <2>2, Zenon DEF ExecutePrepared
  <2>4. pending'[c] = {<<u, 1>>}
    BY <2>2, <2>3, <1>t, Zenon
  <2>5. UnitOnItsWay(t)'
    BY <2>1, <2>2, <2>4, <1>0, Zenon DEF UnitOnItsWay, Usable
  <2>6. UnitsAreAtomic'
    BY <2>3, <1>2, <1>t, <1>w, NothingStored, Zenon
  <2> QED BY <2>3, <2>5, <2>6, <1>t, Zenon
<1>3. CASE /\ pc[t] = "last" /\ u \notin PlainUnits /\ ExecutePrepared(c, u, 2)
           /\ Goto(t, "commit") /\ UNCHANGED result
  <2>1. pc'[t] = "commit" /\ obj' = obj /\ session' = session
    BY <1>3, <1>t, Zenon DEF Goto, ExecutePrepared
  <2>2. session[c] = "transaction" /\ pending[c] = {<<u, 1>>}
    BY <1>3, <1>w, Zenon DEF UnitOnItsWay, ExecutePrepared, Prepare
  <2>3. pending' = [pending EXCEPT ![c] = @ \cup {<<u, 2>>}] /\ stored' = stored
    BY <1>3, <2>2, Zenon DEF ExecutePrepared
  <2>4. pending'[c] = {<<u, 1>>, <<u, 2>>}
    BY <2>2, <2>3, <1>t, Zenon
  <2>5. UnitOnItsWay(t)'
    BY <2>1, <2>2, <2>4, <1>0, <1>3, Zenon DEF UnitOnItsWay, Usable
  <2>6. UnitsAreAtomic'
    BY <2>3, <1>3, <1>t, <1>w, NothingStored, Zenon
  <2> QED BY <2>3, <2>5, <2>6, <1>t, Zenon
<1>4. CASE /\ pc[t] = "last" /\ u \in PlainUnits /\ ExecutePrepared(c, u, 2)
           /\ Goto(t, "release") /\ Return(t, "ok")
  <2>1. pc'[t] = "release"
    BY <1>4, <1>t, Zenon DEF Goto
  <2>2. session[c] # "transaction"
    BY <1>4, <1>w, Zenon DEF UnitOnItsWay, ConnAgrees
  <2>3. stored' = [stored EXCEPT ![u] = @ \cup {2}]
    BY <1>4, <2>2, Zenon DEF ExecutePrepared
  <2>4. result' = [result EXCEPT ![u] = "ok"]
    BY <1>4, Zenon DEF Return
  <2>5. stored' \in [Units -> SUBSET Parts] /\ stored'[u] # {} /\
          \A v \in Units \ {u} : stored'[v] = stored[v] /\ result'[v] = result[v]
    BY <2>3, <2>4, <1>t, Zenon DEF Parts
  <2>6. UnitsAreAtomic'
    BY <2>5, <1>4, <1>w, Zenon DEF UnitsAreAtomic, Parts
  <2> QED BY <2>1, <2>5, <2>6, EndedUnit, Zenon
<1> QED
  <2>1. CASE pc[t] = "first"
    BY <2>1, <1>0, <1>1, <1>2, Zenon DEF Statement
  <2>2. CASE pc[t] = "last"
    BY <2>2, <1>0, <1>1, <1>3, <1>4, Zenon DEF Statement
  <2> QED BY <2>1, <2>2, <1>0, Zenon

(* A commit stores both statements of the unit whose transaction is open,   *)
(* and nothing of any other unit.                                           *)
LEMMA AppliedIsWhole ==
  ASSUME PoolParts, NEW c \in Conns, NEW u \in Units, u \notin PlainUnits,
         pending[c] = {<<u, 1>>, <<u, 2>>}
  PROVE  /\ Applied(c) \in [Units -> SUBSET Parts] /\ Applied(c)[u] = Parts
         /\ \A v \in Units \ {u} : Applied(c)[v] = stored[v]
<1>1. stored \in [Units -> SUBSET Parts]
  BY Zenon DEF PoolParts, PoolTypeOK
<1>2. \A v \in Units : Applied(c)[v] = stored[v] \cup {p \in Parts : <<v, p>> \in pending[c]}
  BY Zenon DEF Applied
<1>3. {p \in Parts : <<u, p>> \in pending[c]} = Parts
  BY Zenon DEF Parts
<1>4. \A v \in Units \ {u} : {p \in Parts : <<v, p>> \in pending[c]} = {}
  BY Zenon
<1>5. Applied(c) \in [Units -> SUBSET Parts]
  BY <1>1, Zenon DEF Applied
<1>6. Applied(c)[u] = Parts
  BY <1>1, <1>2, <1>3, Zenon
<1>7. \A v \in Units \ {u} : Applied(c)[v] = stored[v]
  BY <1>1, <1>2, <1>4, Zenon
<1> QED BY <1>5, <1>6, <1>7, Zenon

(* commit(): the unit is stored as a whole, also when the answer is lost.   *)
LEMMA CommitUnit ==
  ASSUME PoolParts, NEW t \in Threads, CommitTransaction(t), NEW c \in Conns, c = held[t],
         NEW u \in Units, u = unit[t]
  PROVE  UnitsAreAtomic' /\ UnitOnItsWay(t)' /\ stored' \in [Units -> SUBSET Parts]
<1>0. pc[t] = "commit" /\ u \notin PlainUnits /\ (Alive(c) => pending[c] = {<<u, 1>>, <<u, 2>>})
  BY Zenon DEF PoolParts, UnitsOnTheirWay, UnitOnItsWay, CommitTransaction
<1>t. /\ stored \in [Units -> SUBSET Parts] /\ pc \in [Threads -> PoolStates] /\ PoolTypeOK
      /\ result \in [Units -> {None, "ok", "error"}] /\ UnitsAreAtomic
  BY Zenon DEF PoolParts, PoolTypeOK
<1>1. UnitOnItsWay(t)'
  <2>1. pc'[t] \in {"release", "rollback"}
    BY <1>t, Zenon DEF Goto, CommitTransaction
  <2> QED BY <2>1, EndedUnit, Zenon
<1>2. ASSUME stored' = stored, Return(t, "error")
        PROVE UnitsAreAtomic' /\ stored' \in [Units -> SUBSET Parts]
  <2>1. result' = [result EXCEPT ![u] = "error"]
    BY <1>2, Zenon DEF Return
  <2> QED BY <1>2, <2>1, <1>t, NothingStored, Zenon
<1>3. ASSUME stored' = Applied(c), Alive(c), NEW r \in {"ok", "error"}, Return(t, r)
      PROVE  UnitsAreAtomic' /\ stored' \in [Units -> SUBSET Parts]
  <2>1. /\ stored' \in [Units -> SUBSET Parts] /\ stored'[u] = Parts
        /\ \A v \in Units \ {u} : stored'[v] = stored[v]
    BY <1>3, <1>0, AppliedIsWhole, Zenon
  <2>2. \A v \in Units \ {u} : result'[v] = result[v]
    BY <1>3, <1>t, Zenon DEF Return
  <2>3. UnitsAreAtomic'
    BY <2>1, <2>2, <1>t, Zenon DEF UnitsAreAtomic, Parts
  <2> QED BY <2>1, <2>3, Zenon
<1>4. CASE Commit(c) /\ Return(t, "ok")
  BY <1>4, <1>3, <1>1, Zenon DEF Commit
<1>5. CASE CommitThrows(c) /\ Return(t, "error")
  <2>1. stored' = stored \/ (Alive(c) /\ stored' = Applied(c))
    BY <1>5, Zenon DEF CommitThrows
  <2> QED BY <2>1, <1>5, <1>2, <1>3, <1>1, Zenon
<1>6. CASE Return(t, "error") /\ UNCHANGED <<obj, session, pending, cache, prepared, stored>>
  BY <1>6, <1>2, <1>1, Zenon
<1> QED BY <1>4, <1>5, <1>6, Zenon DEF CommitTransaction

(* ~SqlTransaction(): a rollback stores nothing.                            *)
LEMMA EndUnit ==
  ASSUME PoolParts, NEW t \in Threads, EndTransaction(t)
  PROVE  UnitOnItsWay(t)' /\ stored' = stored /\ result' = result
<1>1. pc'[t] = "release"
  BY Zenon DEF Goto, EndTransaction, PoolParts, PoolTypeOK
<1> QED BY <1>1, EndedUnit, Zenon DEF EndTransaction, Rollback, RollbackFails

(* A step of a unit keeps the invariant.                                    *)
LEMMA WorkKeeps ==
  ASSUME PoolParts, NEW t \in Threads, Work(t)
  PROVE  PoolParts'
<1>1. /\ pc[t] # "out" /\ held[t] \in Conns /\ unit[t] \in Units /\ Still
  BY WorkEffect, Zenon DEF PoolParts
<1>2. PICK l : pc' = [pc EXCEPT ![t] = l]
  BY WorkEffect, Zenon DEF PoolParts
<1>3. PICK c \in Conns : c = held[t]
  BY <1>1, Zenon
<1>4. PICK u \in Units : u = unit[t]
  BY <1>1, Zenon
<1>t. PoolTypeOK /\ PoolBooks /\ ConnsAgree /\ UnitsOnTheirWay /\ UnitsAreAtomic /\
        stored \in [Units -> SUBSET Parts]
  BY Zenon DEF PoolParts, PoolTypeOK
<1>5. UnitsAreAtomic' /\ UnitOnItsWay(t)' /\ stored' \in [Units -> SUBSET Parts]
  <2>1. CASE Begin(t)
    BY <2>1, <1>3, <1>4, <1>t, BeginUnit, NothingStored, Zenon
  <2>2. CASE Statement(t)
    BY <2>2, <1>3, <1>4, StatementUnit, Zenon
  <2>3. CASE CommitTransaction(t)
    BY <2>3, <1>3, <1>4, CommitUnit, Zenon
  <2>4. CASE EndTransaction(t)
    BY <2>4, <1>4, <1>t, EndUnit, NothingStored, Zenon
  <2> QED BY <2>1, <2>2, <2>3, <2>4, Zenon DEF Work
<1>6. PoolTypeOK' /\ PoolBooks' /\ ConnsAgree' /\ OneConn(c)
  BY <1>t, <1>3, <1>5, WorkKeepsBooks, Zenon
<1>7. UnitsOnTheirWay'
  <2> SUFFICES ASSUME NEW x \in Threads, x # t PROVE UnitOnItsWay(x)'
    BY <1>5, Zenon DEF UnitsOnTheirWay
  <2>1. pc'[x] = pc[x] /\ held'[x] = held[x] /\ unit'[x] = unit[x]
    BY <1>1, <1>2, <1>t, Zenon DEF PoolTypeOK, Still
  <2> QED BY <2>1, <1>1, <1>3, <1>6, <1>t, OtherUnits, Zenon
<1> QED BY <1>5, <1>6, <1>7, Zenon DEF PoolParts

-----------------------------------------------------------------------------
(* The invariant holds at first.                                            *)
LEMMA InitKeeps == Init => PoolParts
<1> SUFFICES ASSUME Init PROVE PoolParts
  BY Zenon
<1>1. PoolTypeOK
  <2>1. /\ conns \in SUBSET Conns /\ idle \in Seq(Conns)
    BY SMTT(30) DEF Init
  <2>2. /\ obj \in [Conns -> [connected : BOOLEAN, broken : BOOLEAN, inTransaction : BOOLEAN]]
        /\ session \in [Conns -> {None, "auto", "transaction"}]
        /\ pending \in [Conns -> SUBSET (Units \X Parts)]
        /\ cache \in [Conns -> Seq(Parts)]
    BY EmptyCache, Zenon DEF Init, Fresh
  <2> QED BY <2>1, <2>2, Zenon DEF Init, PoolTypeOK, PoolStates
<1>2. PoolBooks
  BY SMTT(30) DEF Init, PoolBooks
<1>4. ConnsAgree
  BY EmptyCache, SqlPoolAssumption, SMTT(30) DEF Init, ConnsAgree, ConnAgrees, None, Fresh
<1>5. UnitsOnTheirWay
  BY Zenon DEF Init, UnitsOnTheirWay, UnitOnItsWay
<1>6. UnitsAreAtomic
  BY Zenon DEF Init, UnitsAreAtomic, None
<1> QED BY <1>1, <1>2, <1>4, <1>5, <1>6, Zenon DEF PoolParts

(* start() fills idle_ with new connections.                                *)
LEMMA StartKeeps ==
  ASSUME PoolParts, Start
  PROVE  PoolParts'
<1>0. PoolTypeOK /\ PoolBooks /\ ConnsAgree /\ UnitsOnTheirWay /\ UnitsAreAtomic
  BY Zenon DEF PoolParts
<1>1. PICK s \in [1..PoolSize -> Conns] :
        /\ \A i, j \in 1..PoolSize : i # j => s[i] # s[j]
        /\ idle' = s /\ conns' = Elems(s)
        /\ session' = [c \in Conns |-> IF c \in Elems(s) THEN "auto" ELSE None]
  BY Zenon DEF Start
<1>2. /\ ~started /\ ~stopping /\ started' = TRUE
      /\ UNCHANGED <<stopping, obj, pending, cache, pc, held, unit, result, stored, counts, faults>>
  BY Zenon DEF Start
<1>3. /\ \A c \in Conns : obj[c] = Fresh /\ session[c] = None /\ pending[c] = {}
      /\ \A t \in Threads : held[t] = None /\ pc[t] = "out"
      /\ counts.replaceFailures = 0
  BY <1>0, <1>2, SqlPoolAssumption, Zenon DEF PoolBooks, ConnsAgree, ConnAgrees, None
<1>4. s \in Seq(Conns) /\ Len(s) = PoolSize /\ DOMAIN s = 1..PoolSize
  BY <1>1, SqlPoolAssumption, SMTT(30)
<1>5. Elems(s) \subseteq Conns /\ \A i \in 1..PoolSize : s[i] \in Elems(s)
  BY <1>1, <1>4, Zenon DEF Elems
<1>7. PoolTypeOK'
  <2>1. session' \in [Conns -> {None, "auto", "transaction"}]
    BY <1>1, Zenon
  <2> QED BY <2>1, <1>0, <1>1, <1>2, <1>4, <1>5, Zenon DEF PoolTypeOK
<1>8. PoolBooks'
  <2>1. \A i, j \in DOMAIN idle' : i # j => idle'[i] # idle'[j]
    BY <1>1, <1>4, Zenon
  <2>2. \A i \in DOMAIN idle' : /\ idle'[i] \in conns' /\ obj'[idle'[i]] = Fresh
                                /\ \A t \in Threads : held'[t] # idle'[i]
    BY <1>1, <1>2, <1>3, <1>4, <1>5, SqlPoolAssumption, SMTT(30)
  <2> QED BY <2>1, <2>2, <1>0, <1>2, <1>3, Zenon DEF PoolBooks
<1>10. ConnsAgree'
  <2> SUFFICES ASSUME NEW c \in Conns PROVE ConnAgrees(c)'
    BY Zenon DEF ConnsAgree
  <2>1. session'[c] = (IF c \in conns' THEN "auto" ELSE None)
    BY <1>1, Zenon
  <2>2. ConnAgrees(c) /\ obj[c] = Fresh /\ pending[c] = {}
    BY <1>0, <1>3, Zenon DEF ConnsAgree
  <2> QED BY <2>1, <2>2, <1>2, SMTT(30) DEF ConnAgrees, Fresh, None
<1>11. UnitsOnTheirWay'
  BY <1>2, <1>3, Zenon DEF UnitsOnTheirWay, UnitOnItsWay
<1>12. UnitsAreAtomic'
  BY <1>0, <1>2, Zenon DEF UnitsAreAtomic
<1> QED BY <1>7, <1>8, <1>10, <1>11, <1>12, Zenon DEF PoolParts

(* acquireFor() hands out a connection as good as new.                      *)
LEMMA AcquireKeeps ==
  ASSUME PoolParts, NEW t \in Threads, NEW u \in Units, Acquire(t, u)
  PROVE  PoolParts'
<1>0. PoolTypeOK /\ PoolBooks /\ ConnsAgree /\ UnitsOnTheirWay /\ UnitsAreAtomic
  BY Zenon DEF PoolParts
<1>1. idle # <<>> /\ idle \in Seq(Conns)
  BY Zenon DEF Acquire, PoolParts, PoolTypeOK
<1>2. PICK c \in Conns : c = Head(idle) /\ c = idle[1]
  BY <1>1, SMTT(30)
<1>3. /\ c \in conns /\ obj[c] = Fresh /\ c # None /\ 1 \in DOMAIN idle /\ Len(idle) \in Nat
      /\ \A x \in Threads : held[x] # c
  <2>1. 1 \in DOMAIN idle /\ Len(idle) \in Nat
    BY <1>1, SMTT(30)
  <2> QED BY <2>1, <1>0, <1>2, SqlPoolAssumption, SMTT(30) DEF PoolBooks
<1>4. /\ started /\ pc[t] = "out"
      /\ held' = [held EXCEPT ![t] = c]
      /\ idle' = Tail(idle)
      /\ unit' = [unit EXCEPT ![t] = u]
      /\ UNCHANGED <<started, stopping, conns, obj, session, pending, cache, prepared, stored,
                     counts, faults>>
  BY <1>2, Zenon DEF Acquire
<1>5. pc' = [pc EXCEPT ![t] = IF u \in PlainUnits THEN "last" ELSE "begin"] /\ result' = result
  BY <1>2, <1>3, SMTT(30) DEF Acquire, Goto, Fresh
<1>6. /\ Tail(idle) \in Seq(Conns) /\ Len(Tail(idle)) = Len(idle) - 1
      /\ DOMAIN Tail(idle) = 1..(Len(idle) - 1)
      /\ \A i \in 1..(Len(idle) - 1) : Tail(idle)[i] = idle[i + 1]
  BY <1>1, SMTT(30)
<1>7. PoolTypeOK'
  <2>1. pc' \in [Threads -> PoolStates]
    BY <1>5, <1>0, Zenon DEF PoolTypeOK, PoolStates
  <2>2. held' \in [Threads -> Conns \cup {None}] /\ unit' \in [Threads -> Units \cup {None}]
    BY <1>4, <1>0, Zenon DEF PoolTypeOK
  <2> QED BY <2>1, <2>2, <1>0, <1>4, <1>5, <1>6, Zenon DEF PoolTypeOK
<1>8. PoolBooks'
  <2>1. \A x \in Threads : /\ held'[x] = IF x = t THEN c ELSE held[x]
                           /\ unit'[x] = IF x = t THEN u ELSE unit[x]
                           /\ pc'[x] = IF x # t THEN pc[x] ELSE IF u \in PlainUnits THEN "last" ELSE "begin"
    BY <1>0, <1>4, <1>5, Zenon DEF PoolTypeOK
  <2>2. \A x \in Threads :
          /\ held'[x] = None <=> pc'[x] = "out"
          /\ unit'[x] = None <=> pc'[x] = "out"
          /\ held'[x] # None => started' /\ held'[x] \in conns'
    <3>1. u # None
      BY SqlPoolAssumption, Zenon
    <3> QED BY <2>1, <3>1, <1>0, <1>3, <1>4, SMTT(30) DEF PoolBooks
  <2>3. \A y, x \in Threads : y # x /\ held'[y] # None => held'[y] # held'[x]
    BY <2>1, <1>0, <1>3, SMTT(30) DEF PoolBooks
  <2>4. \A i \in 1..(Len(idle) - 1) : i + 1 \in DOMAIN idle /\ 1 # i + 1 /\ idle'[i] = idle[i + 1]
    BY <1>1, <1>4, <1>6, SMTT(30)
  <2>5. \A i, j \in DOMAIN idle' : i # j => idle'[i] # idle'[j]
    <3> SUFFICES ASSUME NEW i \in 1..(Len(idle) - 1), NEW j \in 1..(Len(idle) - 1), i # j
          PROVE idle'[i] # idle'[j]
      BY <1>4, <1>6, Zenon
    <3>1. i + 1 # j + 1
      BY SMTT(30)
    <3> QED BY <3>1, <2>4, <1>0, SMTT(30) DEF PoolBooks
  <2>6. \A i \in DOMAIN idle' : /\ idle'[i] \in conns' /\ obj'[idle'[i]] = Fresh
                                /\ \A x \in Threads : held'[x] # idle'[i]
    <3> SUFFICES ASSUME NEW i \in 1..(Len(idle) - 1)
                 PROVE  idle'[i] \in conns' /\ obj'[idle'[i]] = Fresh /\
                        \A x \in Threads : held'[x] # idle'[i]
      BY <1>4, <1>6, Zenon
    <3>1. idle[i + 1] # c
      BY <2>4, <1>0, <1>2, <1>3, SMTT(30) DEF PoolBooks
    <3> QED BY <3>1, <2>1, <2>4, <1>0, <1>4, SMTT(30) DEF PoolBooks
  <2> QED BY <2>2, <2>3, <2>5, <2>6, <1>0, <1>4, Zenon DEF PoolBooks
<1>10. ConnsAgree'
  BY <1>0, <1>4, Zenon DEF ConnsAgree, ConnAgrees
<1>11. UnitsOnTheirWay'
  <2>1. UnitOnItsWay(t)'
    <3>1. pc'[t] = (IF u \in PlainUnits THEN "last" ELSE "begin") /\ held'[t] = c /\ unit'[t] = u
      BY <1>0, <1>4, <1>5, Zenon DEF PoolTypeOK
    <3>2. obj'[c].connected /\ ~obj'[c].broken /\ ~obj'[c].inTransaction
      BY <1>3, <1>4, SMTT(30) DEF Fresh
    <3>3. CASE u \in PlainUnits
      <4>1. pc'[t] = "last"
        BY <3>1, <3>3, Zenon
      <4>2. pc'[t] \notin {"begin", "first", "commit"}
        BY <4>1, SMTT(30)
      <4> QED BY <4>1, <4>2, <3>1, <3>2, <3>3, Zenon DEF UnitOnItsWay, Usable
    <3>4. CASE u \notin PlainUnits
      <4>1. pc'[t] = "begin"
        BY <3>1, <3>4, Zenon
      <4>2. pc'[t] \notin {"first", "last", "commit"}
        BY <4>1, SMTT(30)
      <4> QED BY <4>1, <4>2, <3>1, <3>2, <3>4, Zenon DEF UnitOnItsWay, Usable
    <3> QED BY <3>3, <3>4, Zenon
  <2>2. ASSUME NEW x \in Threads, x # t PROVE UnitOnItsWay(x)'
    <3>1. pc'[x] = pc[x] /\ held'[x] = held[x] /\ unit'[x] = unit[x]
      BY <2>2, <1>0, <1>4, <1>5, Zenon DEF PoolTypeOK
    <3> QED BY <3>1, <1>0, <1>4, UndisturbedUnit, Zenon DEF UnitsOnTheirWay
  <2> QED BY <2>1, <2>2, Zenon DEF UnitsOnTheirWay
<1>12. UnitsAreAtomic'
  BY <1>0, <1>4, <1>5, Zenon DEF UnitsAreAtomic
<1> QED BY <1>7, <1>8, <1>10, <1>11, <1>12, Zenon DEF PoolParts

(* Each counter counts its own event.                                       *)
LEMMA CountsGrow ==
  ASSUME PoolTypeOK
  PROVE  LET T == [acquireTimeouts : Nat, reconnects : Nat, replaceFailures : Nat]
             a == [counts EXCEPT !.acquireTimeouts = @ + 1]
             b == [counts EXCEPT !.reconnects = @ + 1]
             c == [counts EXCEPT !.replaceFailures = @ + 1]
         IN  /\ a \in T /\ a.replaceFailures = counts.replaceFailures
             /\ b \in T /\ b.replaceFailures = counts.replaceFailures
             /\ c \in T /\ c.replaceFailures = counts.replaceFailures + 1
<1>1. PICK x \in Nat, y \in Nat, z \in Nat : counts = [acquireTimeouts |-> x, reconnects |-> y,
        replaceFailures |-> z]
  BY Zenon DEF PoolTypeOK
<1>2. counts.acquireTimeouts = x /\ counts.reconnects = y /\ counts.replaceFailures = z
  BY <1>1, Zenon
<1>3. [counts EXCEPT !.acquireTimeouts = @ + 1] = [acquireTimeouts |-> x + 1, reconnects |-> y,
        replaceFailures |-> z]
  BY <1>1, SMTT(30)
<1>4. [counts EXCEPT !.reconnects = @ + 1] = [acquireTimeouts |-> x, reconnects |-> y + 1,
        replaceFailures |-> z]
  BY <1>1, SMTT(30)
<1>5. [counts EXCEPT !.replaceFailures = @ + 1] = [acquireTimeouts |-> x, reconnects |-> y,
        replaceFailures |-> z + 1]
  BY <1>1, SMTT(30)
<1> QED BY <1>2, <1>3, <1>4, <1>5, SMTT(30)

(* acquireFor() that times out returns an error and takes nothing.          *)
LEMMA TimeoutKeeps ==
  ASSUME PoolParts, NEW t \in Threads, NEW u \in Units, AcquireTimeout(t, u)
  PROVE  PoolParts'
<1>0. PoolTypeOK /\ PoolBooks /\ ConnsAgree /\ UnitsOnTheirWay /\ UnitsAreAtomic
  BY Zenon DEF PoolParts
<1>1. /\ result' = [result EXCEPT ![u] = "error"]
      /\ counts' = [counts EXCEPT !.acquireTimeouts = @ + 1]
      /\ started /\ UNCHANGED <<started, stopping, conns, idle, obj, session, pending, cache, pc,
             held, unit, stored>>
  BY Zenon DEF AcquireTimeout
<1>2. /\ counts' \in [acquireTimeouts : Nat, reconnects : Nat, replaceFailures : Nat]
      /\ counts'.replaceFailures = counts.replaceFailures
  BY <1>0, <1>1, CountsGrow, Zenon
<1>3. PoolTypeOK'
  <2>1. result' \in [Units -> {None, "ok", "error"}]
    BY <1>0, <1>1, Zenon DEF PoolTypeOK
  <2> QED BY <2>1, <1>0, <1>1, <1>2, Zenon DEF PoolTypeOK
<1>4. PoolBooks'
  BY <1>0, <1>1, SMTT(30) DEF PoolBooks
<1>5. ConnsAgree'
  BY <1>0, <1>1, Zenon DEF ConnsAgree, ConnAgrees
<1>6. UnitsOnTheirWay'
  BY <1>0, <1>1, UndisturbedUnit, Zenon DEF UnitsOnTheirWay
<1>7. UnitsAreAtomic'
  BY <1>0, <1>1, NothingStored, Zenon
<1> QED BY <1>3, <1>4, <1>5, <1>6, <1>7, Zenon DEF PoolParts

(* resetSessionStateSafe() is a call on the connection and stores nothing.  *)
LEMMA ResetIsACall ==
  ASSUME NEW c \in Conns, NEW reusable \in BOOLEAN, ResetSessionStateSafe(c, reusable)
  PROVE  ConnCall(c) /\ stored' = stored
<1>1. \/ Rollback(c)
      \/ MarkBroken(c) /\ UNCHANGED <<session, pending, stored>>
      \/ UNCHANGED <<obj, session, pending, cache, prepared, stored>>
      \/ CallFails(c)
  BY Zenon DEF ResetSessionStateSafe
<1>2. stored' = stored
  BY <1>1, Zenon DEF Rollback, CallFails
<1> QED BY <1>1, <1>2, Zenon DEF ConnCall

(* A connection that resetSessionStateSafe() finds reusable is as good as   *)
(* new.                                                                     *)
LEMMA ReusableIsClean ==
  ASSUME PoolTypeOK, NEW c \in Conns, started, ConnAgrees(c), ResetSessionStateSafe(c, TRUE),
         ~obj'[c].broken
  PROVE  obj'[c] = Fresh
<1>1. obj[c] \in [connected : BOOLEAN, broken : BOOLEAN, inTransaction : BOOLEAN]
  BY Zenon DEF PoolTypeOK
<1>2. CASE obj[c].inTransaction
  <2>1. obj[c].connected /\ obj' = [obj EXCEPT ![c].inTransaction = FALSE]
    BY <1>2, Zenon DEF ResetSessionStateSafe, Rollback
  <2>2. obj'[c] = [obj[c] EXCEPT !.inTransaction = FALSE]
    BY <2>1, Zenon DEF PoolTypeOK
  <2> QED BY <1>1, <2>1, <2>2, Zenon DEF Fresh
<1>3. CASE ~obj[c].inTransaction
  <2>1. obj' = obj
    BY <1>3, Zenon DEF ResetSessionStateSafe
  <2>2. obj[c].connected
    BY <2>1, Zenon DEF ConnAgrees
  <2> QED BY <1>1, <1>3, <2>1, <2>2, Zenon DEF Fresh
<1> QED BY <1>2, <1>3, Zenon

(* release(): a clean connection goes back to idle_, any other stays in the *)
(* thread's hands until it is replaced.                                     *)
LEMMA ReleaseKeeps ==
  ASSUME PoolParts, NEW t \in Threads, Release(t)
  PROVE  PoolParts'
<1>0. PoolTypeOK /\ PoolBooks /\ ConnsAgree /\ UnitsOnTheirWay /\ UnitsAreAtomic
  BY Zenon DEF PoolParts
<1>1. pc[t] = "release" /\ UNCHANGED <<started, stopping, conns, result, counts, faults>>
  BY Zenon DEF Release
<1>2. held[t] \in Conns /\ held[t] \in conns /\ started
  BY <1>0, <1>1, Zenon DEF PoolTypeOK, PoolBooks
<1>3. PICK c \in Conns : c = held[t]
  BY <1>2, Zenon
<1>4. PICK reusable \in BOOLEAN :
        /\ ResetSessionStateSafe(c, reusable)
        /\ IF reusable /\ ~obj'[c].broken
           THEN /\ idle' = IF started THEN Append(idle, c) ELSE idle
                /\ Goto(t, "out") /\ LetGo(t)
           ELSE Goto(t, "replace") /\ UNCHANGED <<idle, held, unit>>
  BY <1>3, Zenon DEF Release
<1>5. ConnCall(c) /\ stored' = stored
  BY <1>4, ResetIsACall, Zenon
<1>6. OneConn(c)
  <2>1. Typed /\ ConnAgrees(c) /\ conns \subseteq Conns /\ c \in conns
    BY <1>0, <1>2, <1>3, Zenon DEF PoolTypeOK, Typed, ConnsAgree
  <2> QED BY <2>1, <1>1, <1>5, CallsStayOnTheirConnection, Zenon
<1>7. ConnsAgree'
  <2> SUFFICES ASSUME NEW d \in Conns PROVE ConnAgrees(d)'
    BY Zenon DEF ConnsAgree
  <2>1. CASE d = c
    BY <2>1, <1>6, Zenon DEF OneConn
  <2>2. CASE d # c
    BY <2>2, <1>0, <1>1, <1>6, SMTT(30) DEF OneConn, ConnsAgree, ConnAgrees
  <2> QED BY <2>1, <2>2, Zenon
<1>8. UnitsAreAtomic'
  BY <1>0, <1>1, <1>5, Zenon DEF UnitsAreAtomic
<1>9. UnitsOnTheirWay'
  <2>1. UnitOnItsWay(t)'
    <3>1. pc'[t] \in {"out", "replace"}
      BY <1>0, <1>4, Zenon DEF Goto, PoolTypeOK
    <3> QED BY <3>1, EndedUnit, Zenon
  <2>2. ASSUME NEW x \in Threads, x # t PROVE UnitOnItsWay(x)'
    <3>1. pc'[x] = pc[x]
      BY <2>2, <1>0, <1>4, Zenon DEF PoolTypeOK, Goto
    <3>2. held'[x] = held[x] /\ unit'[x] = unit[x]
      BY <2>2, <1>0, <1>4, Zenon DEF PoolTypeOK, LetGo
    <3>3. pc[t] # "out"
      BY <1>1, SMTT(30)
    <3> QED BY <2>2, <3>1, <3>2, <3>3, <1>0, <1>3, <1>6, OtherUnits, Zenon
  <2> QED BY <2>1, <2>2, Zenon DEF UnitsOnTheirWay
<1>10. \A i \in DOMAIN idle : idle[i] # c /\ idle[i] \in conns /\ obj'[idle[i]] = Fresh
  <2> SUFFICES ASSUME NEW i \in DOMAIN idle
        PROVE idle[i] # c /\ idle[i] \in conns /\ obj'[idle[i]] = Fresh
    BY Zenon
  <2>1. idle[i] # c /\ idle[i] \in conns /\ idle[i] \in Conns /\ obj[idle[i]] = Fresh
    BY <1>0, <1>3, Zenon DEF PoolBooks, PoolTypeOK
  <2> QED BY <2>1, <1>6, Zenon DEF OneConn
<1>11. CASE reusable /\ ~obj'[c].broken
  <2>1. /\ idle' = Append(idle, c)
        /\ pc' = [pc EXCEPT ![t] = "out"] /\ held' = [held EXCEPT ![t] = None]
        /\ unit' = [unit EXCEPT ![t] = None]
    BY <1>2, <1>4, <1>11, Zenon DEF Goto, LetGo
  <2>2. obj'[c] = Fresh
    <3>1. ResetSessionStateSafe(c, TRUE)
      BY <1>4, <1>11, Zenon
    <3>2. ConnAgrees(c)
      BY <1>0, Zenon DEF ConnsAgree
    <3> QED BY <3>1, <3>2, <1>0, <1>2, <1>11, ReusableIsClean, Zenon
  <2>3. /\ idle \in Seq(Conns) /\ idle' \in Seq(Conns) /\ Len(idle') = Len(idle) + 1
        /\ Len(idle) \in Nat
        /\ DOMAIN idle = 1..Len(idle) /\ DOMAIN idle' = 1..(Len(idle) + 1)
        /\ idle'[Len(idle) + 1] = c /\ \A i \in 1..Len(idle) : idle'[i] = idle[i]
    <3>1. idle \in Seq(Conns)
      BY <1>0, Zenon DEF PoolTypeOK
    <3> QED BY <3>1, <2>1, SMTT(30)
  <2>4. \A x \in Threads : /\ held'[x] = IF x = t THEN None ELSE held[x]
                           /\ unit'[x] = IF x = t THEN None ELSE unit[x]
                           /\ pc'[x] = IF x = t THEN "out" ELSE pc[x]
    BY <1>0, <2>1, Zenon DEF PoolTypeOK
  <2>5. PoolTypeOK'
    <3>1. /\ pc' \in [Threads -> PoolStates] /\ held' \in [Threads -> Conns \cup {None}]
          /\ unit' \in [Threads -> Units \cup {None}]
      BY <1>0, <2>1, Zenon DEF PoolTypeOK, PoolStates
    <3> QED BY <3>1, <2>3, <1>0, <1>1, <1>5, <1>6, Zenon DEF PoolTypeOK, OneConn, Typed
  <2>7. PoolBooks'
    <3>1. \A x \in Threads :
            /\ held'[x] = None <=> pc'[x] = "out"
            /\ unit'[x] = None <=> pc'[x] = "out"
            /\ held'[x] # None => started' /\ held'[x] \in conns'
      <4> SUFFICES ASSUME NEW x \in Threads
                   PROVE  /\ held'[x] = None <=> pc'[x] = "out"
                          /\ unit'[x] = None <=> pc'[x] = "out"
                          /\ held'[x] # None => started' /\ held'[x] \in conns'
        BY Zenon
      <4>1. CASE x = t
        BY <4>1, <2>4, Zenon
      <4>2. CASE x # t
        <5>1. held'[x] = held[x] /\ unit'[x] = unit[x] /\ pc'[x] = pc[x]
          BY <4>2, <2>4, Zenon
        <5>2. started' = started /\ conns' = conns
          BY <1>1, Zenon
        <5> QED BY <5>1, <5>2, <1>0, Zenon DEF PoolBooks
      <4> QED BY <4>1, <4>2, Zenon
    <3>2. \A y, x \in Threads : y # x /\ held'[y] # None => held'[y] # held'[x]
      BY <2>4, <1>0, SMTT(30) DEF PoolBooks
    <3>3. \A i, j \in DOMAIN idle' : i # j => idle'[i] # idle'[j]
      <4> SUFFICES ASSUME NEW i \in 1..(Len(idle) + 1), NEW j \in 1..(Len(idle) + 1), i # j
                   PROVE  idle'[i] # idle'[j]
        BY <2>3, Zenon
      <4>1. CASE i \in 1..Len(idle) /\ j \in 1..Len(idle)
        <5>1. idle'[i] = idle[i] /\ idle'[j] = idle[j] /\ i \in DOMAIN idle /\ j \in DOMAIN idle
          BY <4>1, <2>3, Zenon
        <5> QED BY <5>1, <1>0, Zenon DEF PoolBooks
      <4>2. CASE i = Len(idle) + 1 /\ j \in 1..Len(idle)
        BY <4>2, <2>3, <1>10, Zenon
      <4>3. CASE j = Len(idle) + 1 /\ i \in 1..Len(idle)
        BY <4>3, <2>3, <1>10, Zenon
      <4> QED BY <4>1, <4>2, <4>3, <2>3, SMTT(30)
    <3>4. \A x \in Threads : held'[x] # c
      BY <2>4, <1>0, <1>1, <1>3, SqlPoolAssumption, SMTT(30) DEF PoolBooks
    <3>5. \A i \in 1..Len(idle) : \A x \in Threads : held'[x] # idle[i]
      <4> SUFFICES ASSUME NEW i \in DOMAIN idle, NEW x \in Threads PROVE held'[x] # idle[i]
        BY <2>3, Zenon
      <4>1. idle[i] # None
        BY <2>3, SqlPoolAssumption, SMTT(30)
      <4>2. held[x] # idle[i]
        BY <1>0, Zenon DEF PoolBooks
      <4> QED BY <4>1, <4>2, <2>4, Zenon
    <3>6. \A i \in DOMAIN idle' : /\ idle'[i] \in conns' /\ obj'[idle'[i]] = Fresh
                                  /\ \A x \in Threads : held'[x] # idle'[i]
      <4> SUFFICES ASSUME NEW i \in 1..(Len(idle) + 1)
                   PROVE  idle'[i] \in conns' /\ obj'[idle'[i]] = Fresh /\
                          \A x \in Threads : held'[x] # idle'[i]
        BY <2>3, Zenon
      <4>1. CASE i \in 1..Len(idle)
        BY <4>1, <2>3, <3>5, <1>1, <1>10, Zenon
      <4>2. CASE i = Len(idle) + 1
        BY <4>2, <2>2, <2>3, <3>4, <1>1, <1>2, <1>3, Zenon
      <4>3. i \in 1..Len(idle) \/ i = Len(idle) + 1
        BY <2>3, SMTT(30)
      <4> QED BY <4>1, <4>2, <4>3, Zenon
    <3> QED BY <3>1, <3>2, <3>3, <3>6, <1>1, <1>2, Zenon DEF PoolBooks
  <2> QED BY <2>5, <2>7, <1>7, <1>8, <1>9, Zenon DEF PoolParts
<1>12. CASE ~(reusable /\ ~obj'[c].broken)
  <2>1. pc' = [pc EXCEPT ![t] = "replace"] /\ UNCHANGED <<idle, held, unit>>
    BY <1>4, <1>12, Zenon DEF Goto
  <2>2. PoolTypeOK'
    <3>1. pc' \in [Threads -> PoolStates]
      BY <1>0, <2>1, Zenon DEF PoolTypeOK, PoolStates
    <3> QED BY <3>1, <2>1, <1>0, <1>1, <1>5, <1>6, Zenon DEF PoolTypeOK, OneConn, Typed
  <2>3. \A x \in Threads : pc'[x] = "out" <=> pc[x] = "out"
    BY <2>1, <1>0, <1>1, Zenon DEF PoolTypeOK
  <2>4. PoolBooks'
    BY <2>1, <2>3, <1>0, <1>1, <1>2, <1>10, Zenon DEF PoolBooks
  <2>5. InHands' = InHands
    BY <2>1, Zenon DEF InHands
  <2> QED BY <2>2, <2>4, <1>7, <1>8, <1>9, Zenon DEF PoolParts
<1> QED BY <1>11, <1>12, Zenon

(* replaceConnection(): the new connection takes the place of the old one.  *)
LEMMA ReplaceKeeps ==
  ASSUME PoolParts, NEW t \in Threads, ReplaceConnection(t)
  PROVE  PoolParts'
<1>0. PoolTypeOK /\ PoolBooks /\ ConnsAgree /\ UnitsOnTheirWay /\ UnitsAreAtomic
  BY Zenon DEF PoolParts
<1>1. /\ pc[t] = "replace" /\ started /\ UNCHANGED <<started, stopping, result, stored, faults>>
      /\ pc' = [pc EXCEPT ![t] = "out"] /\ held' = [held EXCEPT ![t] = None]
      /\ unit' = [unit EXCEPT ![t] = None]
  BY Zenon DEF ReplaceConnection, Goto, LetGo
<1>2. held[t] \in Conns /\ held[t] \in conns
  BY <1>0, <1>1, Zenon DEF PoolTypeOK, PoolBooks
<1>3. PICK h \in Conns : h = held[t]
  BY <1>2, Zenon
<1>4. PICK c \in Free :
        /\ idle' = Append(idle, c)
        /\ conns' = (conns \ {h}) \cup {c}
        /\ obj' = [obj EXCEPT ![c] = Fresh]
        /\ session' = [session EXCEPT ![c] = "auto", ![h] = None]
        /\ pending' = [pending EXCEPT ![h] = {}]
        /\ cache' = [cache EXCEPT ![c] = <<>>]
        /\ counts' = [counts EXCEPT !.reconnects = @ + 1]
  BY <1>3, Zenon DEF ReplaceConnection
<1>5. c \in Conns /\ c \notin conns /\ c # h /\ c # None /\ \A x \in Threads : held[x] # c
  BY <1>2, <1>3, <1>4, SqlPoolAssumption, SMTT(30) DEF Free, InHands
<1>6. /\ obj' \in [Conns -> [connected : BOOLEAN, broken : BOOLEAN, inTransaction : BOOLEAN]]
      /\ session' \in [Conns -> {None, "auto", "transaction"}]
      /\ pending' \in [Conns -> SUBSET (Units \X Parts)]
      /\ cache' \in [Conns -> Seq(Parts)]
      /\ obj'[c] = Fresh /\ session'[c] = "auto" /\ pending'[c] = pending[c] /\ cache'[c] = <<>>
      /\ obj'[h] = obj[h] /\ session'[h] = None /\ pending'[h] = {} /\ cache'[h] = cache[h]
      /\ \A d \in Conns \ {c, h} : /\ obj'[d] = obj[d] /\ session'[d] = session[d]
                                   /\ pending'[d] = pending[d] /\ cache'[d] = cache[d]
  <2>1. /\ obj' \in [Conns -> [connected : BOOLEAN, broken : BOOLEAN, inTransaction : BOOLEAN]]
        /\ obj'[c] = Fresh /\ \A d \in Conns \ {c} : obj'[d] = obj[d]
    BY <1>0, <1>4, <1>5, Zenon DEF PoolTypeOK, Fresh
  <2>2. /\ session' \in [Conns -> {None, "auto", "transaction"}]
        /\ session'[c] = "auto" /\ session'[h] = None
        /\ \A d \in Conns \ {c, h} : session'[d] = session[d]
    BY <1>0, <1>4, <1>5, Zenon DEF PoolTypeOK
  <2>3. /\ pending' \in [Conns -> SUBSET (Units \X Parts)]
        /\ pending'[h] = {} /\ \A d \in Conns \ {h} : pending'[d] = pending[d]
    BY <1>0, <1>4, <1>5, Zenon DEF PoolTypeOK
  <2>4. /\ cache' \in [Conns -> Seq(Parts)]
        /\ cache'[c] = <<>> /\ \A d \in Conns \ {c} : cache'[d] = cache[d]
    BY <1>0, <1>4, <1>5, EmptyCache, Zenon DEF PoolTypeOK
  <2> QED BY <2>1, <2>2, <2>3, <2>4, <1>5, Zenon
<1>7. /\ idle \in Seq(Conns) /\ idle' \in Seq(Conns) /\ Len(idle') = Len(idle) + 1 /\ Len(idle) \in Nat
      /\ DOMAIN idle = 1..Len(idle) /\ DOMAIN idle' = 1..(Len(idle) + 1)
      /\ idle'[Len(idle) + 1] = c /\ \A i \in 1..Len(idle) : idle'[i] = idle[i]
  BY <1>0, <1>4, <1>5, SMTT(30) DEF PoolTypeOK
<1>8. \A x \in Threads : /\ held'[x] = IF x = t THEN None ELSE held[x]
                         /\ unit'[x] = IF x = t THEN None ELSE unit[x]
                         /\ pc'[x] = IF x = t THEN "out" ELSE pc[x]
  BY <1>0, <1>1, Zenon DEF PoolTypeOK
<1>9. /\ counts' \in [acquireTimeouts : Nat, reconnects : Nat, replaceFailures : Nat]
      /\ counts'.replaceFailures = counts.replaceFailures
  BY <1>0, <1>4, CountsGrow, Zenon
<1>10. conns' \in SUBSET Conns
  BY <1>0, <1>4, <1>5, Zenon DEF PoolTypeOK
<1>11. PoolTypeOK'
  <2>1. /\ pc' \in [Threads -> PoolStates] /\ held' \in [Threads -> Conns \cup {None}]
        /\ unit' \in [Threads -> Units \cup {None}]
    BY <1>0, <1>1, Zenon DEF PoolTypeOK, PoolStates
  <2> QED BY <2>1, <1>0, <1>1, <1>6, <1>7, <1>9, <1>10, Zenon DEF PoolTypeOK
<1>13. PoolBooks'
  <2>0. \A i \in DOMAIN idle : /\ idle[i] # c /\ idle[i] # h
                               /\ idle[i] \in conns' /\ obj'[idle[i]] = Fresh
                               /\ idle[i] # None /\ \A x \in Threads : held[x] # idle[i]
    <3> SUFFICES ASSUME NEW i \in DOMAIN idle
                 PROVE  /\ idle[i] # c /\ idle[i] # h /\ idle[i] \in conns' /\ obj'[idle[i]] = Fresh
                        /\ idle[i] # None /\ \A x \in Threads : held[x] # idle[i]
      BY Zenon
    <3>1. /\ idle[i] \in conns /\ idle[i] \in Conns /\ obj[idle[i]] = Fresh
          /\ \A x \in Threads : held[x] # idle[i]
      BY <1>0, Zenon DEF PoolBooks, PoolTypeOK
    <3> QED BY <3>1, <1>3, <1>4, <1>5, <1>6, SqlPoolAssumption, Zenon
  <2>1. \A x \in Threads :
          /\ held'[x] = None <=> pc'[x] = "out"
          /\ unit'[x] = None <=> pc'[x] = "out"
          /\ held'[x] # None => started' /\ held'[x] \in conns'
    <3> SUFFICES ASSUME NEW x \in Threads
                 PROVE  /\ held'[x] = None <=> pc'[x] = "out"
                        /\ unit'[x] = None <=> pc'[x] = "out"
                        /\ held'[x] # None => started' /\ held'[x] \in conns'
      BY Zenon
    <3>1. CASE x = t
      BY <3>1, <1>8, Zenon
    <3>2. CASE x # t
      <4>1. held[x] # None => held[x] # h
        BY <3>2, <1>0, <1>3, Zenon DEF PoolBooks
      <4> QED BY <4>1, <3>2, <1>0, <1>1, <1>4, <1>8, SMTT(30) DEF PoolBooks
    <3> QED BY <3>1, <3>2, Zenon
  <2>2. \A y, x \in Threads : y # x /\ held'[y] # None => held'[y] # held'[x]
    BY <1>8, <1>0, SMTT(30) DEF PoolBooks
  <2>3. \A i, j \in DOMAIN idle' : i # j => idle'[i] # idle'[j]
    <3> SUFFICES ASSUME NEW i \in 1..(Len(idle) + 1), NEW j \in 1..(Len(idle) + 1), i # j
                 PROVE  idle'[i] # idle'[j]
      BY <1>7, Zenon
    <3>1. CASE i \in 1..Len(idle) /\ j \in 1..Len(idle)
      <4>1. idle'[i] = idle[i] /\ idle'[j] = idle[j] /\ i \in DOMAIN idle /\ j \in DOMAIN idle
        BY <3>1, <1>7, Zenon
      <4> QED BY <4>1, <1>0, Zenon DEF PoolBooks
    <3>2. CASE i = Len(idle) + 1 /\ j \in 1..Len(idle)
      BY <3>2, <1>7, <2>0, Zenon
    <3>3. CASE j = Len(idle) + 1 /\ i \in 1..Len(idle)
      BY <3>3, <1>7, <2>0, Zenon
    <3> QED BY <3>1, <3>2, <3>3, <1>7, SMTT(30)
  <2>4. \A i \in DOMAIN idle' : /\ idle'[i] \in conns' /\ obj'[idle'[i]] = Fresh
                                /\ \A x \in Threads : held'[x] # idle'[i]
    <3> SUFFICES ASSUME NEW i \in 1..(Len(idle) + 1)
                 PROVE  idle'[i] \in conns' /\ obj'[idle'[i]] = Fresh /\
                        \A x \in Threads : held'[x] # idle'[i]
      BY <1>7, Zenon
    <3>1. CASE i \in 1..Len(idle)
      <4>1. idle'[i] = idle[i] /\ i \in DOMAIN idle
        BY <3>1, <1>7, Zenon
      <4> QED BY <4>1, <2>0, <1>8, Zenon
    <3>2. CASE i = Len(idle) + 1
      <4>1. idle'[i] = c
        BY <3>2, <1>7, Zenon
      <4>2. \A x \in Threads : held'[x] # c
        BY <1>5, <1>8, Zenon
      <4>3. c \in conns' /\ obj'[c] = Fresh
        BY <1>4, <1>6, Zenon
      <4> QED BY <4>1, <4>2, <4>3, Zenon
    <3> QED BY <3>1, <3>2, <1>7, SMTT(30)
  <2> QED BY <2>1, <2>2, <2>3, <2>4, <1>1, Zenon DEF PoolBooks
<1>14. ConnsAgree'
  <2> SUFFICES ASSUME NEW d \in Conns PROVE ConnAgrees(d)'
    BY Zenon DEF ConnsAgree
  <2>0. ConnAgrees(d)
    BY <1>0, Zenon DEF ConnsAgree
  <2>1. CASE d = c
    <3>1. pending[c] = {}
      BY <2>0, <2>1, <1>5, Zenon DEF ConnAgrees, None
    <3> QED BY <2>1, <3>1, <1>4, <1>6, EmptyCache, SqlPoolAssumption, SMTT(30) DEF ConnAgrees, Fresh
  <2>2. CASE d = h
    BY <2>0, <2>2, <1>1, <1>6, Zenon DEF ConnAgrees, None
  <2>3. CASE d \notin {c, h}
    <3>1. d \notin conns' <=> d \notin conns
      BY <2>3, <1>4, Zenon
    <3> QED BY <2>0, <2>3, <3>1, <1>1, <1>6, Zenon DEF ConnAgrees
  <2> QED BY <2>1, <2>2, <2>3, Zenon
<1>15. UnitsOnTheirWay'
  <2> SUFFICES ASSUME NEW x \in Threads PROVE UnitOnItsWay(x)'
    BY Zenon DEF UnitsOnTheirWay
  <2>1. CASE x = t
    <3>1. pc'[x] = "out"
      BY <2>1, <1>8, Zenon
    <3> QED BY <3>1, EndedUnit, Zenon
  <2>2. CASE x # t
    <3>1. pc[x] # "out" => held[x] \in Conns \ {c, h}
      BY <2>2, <1>0, <1>3, <1>5, Zenon DEF PoolBooks, PoolTypeOK
    <3>2. pc'[x] = pc[x] /\ held'[x] = held[x] /\ unit'[x] = unit[x]
      BY <2>2, <1>8, Zenon
    <3>3. UnitOnItsWay(x)
      BY <1>0, Zenon DEF UnitsOnTheirWay
    <3>4. pc[x] # "out" => /\ obj'[held[x]] = obj[held[x]] /\ session'[held[x]] = session[held[x]]
                           /\ pending'[held[x]] = pending[held[x]]
      BY <3>1, <1>6, Zenon
    <3> QED BY <3>2, <3>3, <3>4, <1>0, UndisturbedUnit, Zenon
  <2> QED BY <2>1, <2>2, Zenon
<1>16. UnitsAreAtomic'
  BY <1>0, <1>1, Zenon DEF UnitsAreAtomic
<1> QED BY <1>11, <1>13, <1>14, <1>15, <1>16, Zenon DEF PoolParts

(* replaceConnection() that fails leaves the slot empty.                    *)
LEMMA ReplaceFailsKeeps ==
  ASSUME PoolParts, NEW t \in Threads, ReplaceFails(t)
  PROVE  PoolParts'
<1>0. PoolTypeOK /\ PoolBooks /\ ConnsAgree /\ UnitsOnTheirWay /\ UnitsAreAtomic
  BY Zenon DEF PoolParts
<1>1. /\ pc[t] = "replace"
      /\ UNCHANGED <<started, stopping, conns, idle, obj, session, pending, cache, result, stored,
             faults>>
      /\ counts' = [counts EXCEPT !.replaceFailures = @ + 1]
      /\ pc' = [pc EXCEPT ![t] = "out"] /\ held' = [held EXCEPT ![t] = None]
      /\ unit' = [unit EXCEPT ![t] = None]
  BY Zenon DEF ReplaceFails, Goto, LetGo
<1>2. held[t] \in conns /\ started
  BY <1>0, <1>1, Zenon DEF PoolBooks
<1>3. \A x \in Threads : /\ held'[x] = IF x = t THEN None ELSE held[x]
                         /\ unit'[x] = IF x = t THEN None ELSE unit[x]
                         /\ pc'[x] = IF x = t THEN "out" ELSE pc[x]
  BY <1>0, <1>1, Zenon DEF PoolTypeOK
<1>4. /\ counts' \in [acquireTimeouts : Nat, reconnects : Nat, replaceFailures : Nat]
      /\ counts'.replaceFailures = counts.replaceFailures + 1
  BY <1>0, <1>1, CountsGrow, Zenon
<1>5. PoolTypeOK'
  <2>1. /\ pc' \in [Threads -> PoolStates] /\ held' \in [Threads -> Conns \cup {None}]
        /\ unit' \in [Threads -> Units \cup {None}]
    BY <1>0, <1>1, Zenon DEF PoolTypeOK, PoolStates
  <2> QED BY <2>1, <1>0, <1>1, <1>4, Zenon DEF PoolTypeOK
<1>7. PoolBooks'
  <2>1. \A x \in Threads :
          /\ held'[x] = None <=> pc'[x] = "out"
          /\ unit'[x] = None <=> pc'[x] = "out"
          /\ held'[x] # None => started' /\ held'[x] \in conns'
    BY <1>3, <1>0, <1>1, SMTT(30) DEF PoolBooks
  <2>2. \A y, x \in Threads : y # x /\ held'[y] # None => held'[y] # held'[x]
    BY <1>3, <1>0, SMTT(30) DEF PoolBooks
  <2>3. \A i \in DOMAIN idle : \A x \in Threads : held'[x] # idle[i]
    <3> SUFFICES ASSUME NEW i \in DOMAIN idle, NEW x \in Threads PROVE held'[x] # idle[i]
      BY Zenon
    <3>1. idle[i] # None /\ held[x] # idle[i]
      BY <1>0, SqlPoolAssumption, SMTT(30) DEF PoolBooks, PoolTypeOK
    <3> QED BY <3>1, <1>3, Zenon
  <2> QED BY <2>1, <2>2, <2>3, <1>0, <1>1, <1>2, SMTT(30) DEF PoolBooks
<1>8. ConnsAgree'
  BY <1>0, <1>1, Zenon DEF ConnsAgree, ConnAgrees
<1>9. UnitsOnTheirWay'
  <2> SUFFICES ASSUME NEW x \in Threads PROVE UnitOnItsWay(x)'
    BY Zenon DEF UnitsOnTheirWay
  <2>1. CASE x = t
    <3>1. pc'[x] = "out"
      BY <2>1, <1>3, Zenon
    <3> QED BY <3>1, EndedUnit, Zenon
  <2>2. CASE x # t
    BY <2>2, <1>0, <1>1, <1>3, UndisturbedUnit, Zenon DEF UnitsOnTheirWay
  <2> QED BY <2>1, <2>2, Zenon
<1>10. UnitsAreAtomic'
  BY <1>0, <1>1, Zenon DEF UnitsAreAtomic
<1> QED BY <1>5, <1>7, <1>8, <1>9, <1>10, Zenon DEF PoolParts

(* A session that is dropped takes the statements waiting in it along: the  *)
(* unit will fail, and as a whole.                                          *)
LEMMA DropSessionKeeps ==
  ASSUME PoolParts, NEW c \in Conns, DropSession(c)
  PROVE  PoolParts'
<1>0. PoolTypeOK /\ PoolBooks /\ ConnsAgree /\ UnitsOnTheirWay /\ UnitsAreAtomic
  BY Zenon DEF PoolParts
<1>1. /\ UNCHANGED <<started, stopping, conns, idle, obj, cache, pc, held, unit, result, stored,
        counts>>
      /\ session' = [session EXCEPT ![c] = None] /\ pending' = [pending EXCEPT ![c] = {}]
  BY Zenon DEF DropSession
<1>2. /\ session' \in [Conns -> {None, "auto", "transaction"}]
      /\ pending' \in [Conns -> SUBSET (Units \X Parts)]
      /\ session'[c] = None /\ pending'[c] = {}
      /\ \A d \in Conns \ {c} : session'[d] = session[d] /\ pending'[d] = pending[d]
  BY <1>0, <1>1, Zenon DEF PoolTypeOK
<1>3. PoolTypeOK'
  BY <1>0, <1>1, <1>2, Zenon DEF PoolTypeOK
<1>4. PoolBooks'
  BY <1>0, <1>1, Zenon DEF PoolBooks
<1>6. ConnsAgree'
  <2> SUFFICES ASSUME NEW d \in Conns PROVE ConnAgrees(d)'
    BY Zenon DEF ConnsAgree
  <2>0. ConnAgrees(d)
    BY <1>0, Zenon DEF ConnsAgree
  <2>1. CASE d = c
    BY <2>0, <2>1, <1>1, <1>2, Zenon DEF ConnAgrees, None
  <2>2. CASE d # c
    BY <2>0, <2>2, <1>1, <1>2, Zenon DEF ConnAgrees
  <2> QED BY <2>1, <2>2, Zenon
<1>7. UnitsOnTheirWay'
  <2> SUFFICES ASSUME NEW x \in Threads PROVE UnitOnItsWay(x)'
    BY Zenon DEF UnitsOnTheirWay
  <2>0. UnitOnItsWay(x)
    BY <1>0, Zenon DEF UnitsOnTheirWay
  <2>1. CASE pc[x] = "out"
    BY <2>1, <1>1, EndedUnit, Zenon
  <2>2. CASE pc[x] # "out" /\ held[x] # c
    <3>1. held[x] \in Conns \ {c}
      BY <2>2, <1>0, Zenon DEF PoolBooks, PoolTypeOK
    <3> QED BY <3>1, <2>0, <1>0, <1>1, <1>2, UndisturbedUnit, Zenon
  <2>3. CASE held[x] = c
    BY <2>0, <2>3, <1>1, <1>2, Zenon DEF UnitOnItsWay, Alive, Usable
  <2> QED BY <2>1, <2>2, <2>3, Zenon
<1>8. UnitsAreAtomic'
  BY <1>0, <1>1, Zenon DEF UnitsAreAtomic
<1> QED BY <1>3, <1>4, <1>6, <1>7, <1>8, Zenon DEF PoolParts

(* That the executors stop changes nothing yet.                             *)
LEMMA StopExecutorsKeeps ==
  ASSUME PoolParts, StopExecutors
  PROVE  PoolParts'
<1>0. PoolTypeOK /\ PoolBooks /\ ConnsAgree /\ UnitsOnTheirWay /\ UnitsAreAtomic
  BY Zenon DEF PoolParts
<1>1. /\ started /\ stopping' = TRUE
      /\ UNCHANGED <<started, conns, idle, obj, session, pending, cache, pc, held, unit, result,
                     stored, counts>>
  BY Zenon DEF StopExecutors
<1>2. PoolTypeOK' /\ PoolBooks'
  BY <1>0, <1>1, Zenon DEF PoolTypeOK, PoolBooks
<1>4. ConnsAgree'
  BY <1>0, <1>1, Zenon DEF ConnsAgree, ConnAgrees
<1>5. UnitsOnTheirWay'
  BY <1>0, <1>1, UndisturbedUnit, Zenon DEF UnitsOnTheirWay
<1>6. UnitsAreAtomic'
  BY <1>0, <1>1, Zenon DEF UnitsAreAtomic
<1> QED BY <1>2, <1>4, <1>5, <1>6, Zenon DEF PoolParts

(* stop() closes every connection once no thread holds one.                 *)
LEMMA StopKeeps ==
  ASSUME PoolParts, Stop
  PROVE  PoolParts'
<1>0. PoolTypeOK /\ PoolBooks /\ ConnsAgree /\ UnitsOnTheirWay /\ UnitsAreAtomic
  BY Zenon DEF PoolParts
<1>1. /\ stopping /\ started' = FALSE /\ conns' = {} /\ idle' = <<>>
      /\ \A t \in Threads : pc[t] = "out"
      /\ UNCHANGED <<stopping, pc, held, unit, result, stored, counts>>
      /\ obj' = [c \in Conns |-> IF c \in conns THEN [obj[c] EXCEPT !.connected = FALSE] ELSE obj[c]]
      /\ session' = [c \in Conns |-> IF c \in conns THEN None ELSE session[c]]
      /\ pending' = [c \in Conns |-> IF c \in conns THEN {} ELSE pending[c]]
      /\ cache' = [c \in Conns |-> IF c \in conns THEN <<>> ELSE cache[c]]
  BY Zenon DEF Stop
<1>2. PoolTypeOK'
  <2>1. obj' \in [Conns -> [connected : BOOLEAN, broken : BOOLEAN, inTransaction : BOOLEAN]]
    <3> DEFINE T == [connected : BOOLEAN, broken : BOOLEAN, inTransaction : BOOLEAN]
    <3>1. ASSUME NEW r \in T PROVE [r EXCEPT !.connected = FALSE] \in T
      <4>1. /\ r = [f \in {"connected", "broken", "inTransaction"} |-> r[f]]
            /\ \A f \in {"connected", "broken", "inTransaction"} : r[f] \in BOOLEAN
        BY Zenon
      <4> QED BY <4>1, Zenon
    <3>2. obj \in [Conns -> T]
      BY <1>0, Zenon DEF PoolTypeOK
    <3> HIDE DEF T
    <3>3. ASSUME NEW d \in Conns
          PROVE  (IF d \in conns THEN [obj[d] EXCEPT !.connected = FALSE] ELSE obj[d]) \in T
      BY <3>1, <3>2, Zenon
    <3>4. obj' \in [Conns -> T]
      BY <3>3, <1>1, Zenon
    <3> QED BY <3>4, Zenon DEF T
  <2>2. session' \in [Conns -> {None, "auto", "transaction"}] /\
          pending' \in [Conns -> SUBSET (Units \X Parts)]
    BY <1>0, <1>1, Zenon DEF PoolTypeOK
  <2>3. cache' \in [Conns -> Seq(Parts)]
    BY <1>0, <1>1, EmptyCache, Zenon DEF PoolTypeOK
  <2>4. conns' \in SUBSET Conns /\ idle' \in Seq(Conns)
    BY <1>1, SMTT(30)
  <2> QED BY <2>1, <2>2, <2>3, <2>4, <1>0, <1>1, Zenon DEF PoolTypeOK
<1>3. PoolBooks'
  <2>1. DOMAIN idle' = {}
    BY <1>1, SMTT(30)
  <2>2. \A t \in Threads : held'[t] = None /\ unit'[t] = None /\ pc'[t] = "out"
    BY <1>0, <1>1, Zenon DEF PoolBooks
  <2> QED BY <2>1, <2>2, <1>1, Zenon DEF PoolBooks
<1>5. ConnsAgree'
  <2> SUFFICES ASSUME NEW d \in Conns PROVE ConnAgrees(d)'
    BY Zenon DEF ConnsAgree
  <2>0. ConnAgrees(d)
    BY <1>0, Zenon DEF ConnsAgree
  <2>1. CASE d \in conns
    <3>1. session'[d] = None /\ pending'[d] = {} /\ cache'[d] = <<>>
      BY <2>1, <1>1, Zenon
    <3>2. Len(cache'[d]) <= CacheSize
      BY <3>1, EmptyCache, SqlPoolAssumption, SMTT(30)
    <3> QED BY <3>1, <3>2, <1>1, Zenon DEF ConnAgrees, None
  <2>2. CASE d \notin conns
    <3>1. session'[d] = session[d] /\ pending'[d] = pending[d] /\ cache'[d] = cache[d] /\
            obj'[d] = obj[d]
      BY <2>2, <1>1, Zenon
    <3> QED BY <3>1, <2>2, <2>0, <1>1, Zenon DEF ConnAgrees
  <2> QED BY <2>1, <2>2, Zenon
<1>6. UnitsOnTheirWay'
  BY <1>1, EndedUnit, Zenon DEF UnitsOnTheirWay
<1>7. UnitsAreAtomic'
  BY <1>0, <1>1, Zenon DEF UnitsAreAtomic
<1> QED BY <1>2, <1>3, <1>5, <1>6, <1>7, Zenon DEF PoolParts

(* Every step keeps the invariant.                                          *)
LEMMA PoolNextKeeps ==
  ASSUME PoolParts, [Next]_vars
  PROVE  PoolParts'
<1>1. CASE Start
  BY <1>1, StartKeeps, Zenon
<1>2. CASE StopExecutors
  BY <1>2, StopExecutorsKeeps, Zenon
<1>3. CASE Stop
  BY <1>3, StopKeeps, Zenon
<1>4. ASSUME NEW t \in Threads, NEW u \in Units, Acquire(t, u) PROVE PoolParts'
  BY <1>4, AcquireKeeps, Zenon
<1>5. ASSUME NEW t \in Threads, NEW u \in Units, AcquireTimeout(t, u) PROVE PoolParts'
  BY <1>5, TimeoutKeeps, Zenon
<1>6. ASSUME NEW t \in Threads, Begin(t) \/ Statement(t) \/ CommitTransaction(t) \/ EndTransaction(t)
      PROVE  PoolParts'
  BY <1>6, WorkKeeps, Zenon DEF Work
<1>7. ASSUME NEW t \in Threads, Release(t) PROVE PoolParts'
  BY <1>7, ReleaseKeeps, Zenon
<1>8. ASSUME NEW t \in Threads, ReplaceConnection(t) PROVE PoolParts'
  BY <1>8, ReplaceKeeps, Zenon
<1>9. ASSUME NEW t \in Threads, ReplaceFails(t) PROVE PoolParts'
  BY <1>9, ReplaceFailsKeeps, Zenon
<1>10. ASSUME NEW c \in Conns, DropSession(c) PROVE PoolParts'
  BY <1>10, DropSessionKeeps, Zenon
<1>11. CASE UNCHANGED vars
  <2>0. PoolTypeOK /\ PoolBooks /\ ConnsAgree /\ UnitsOnTheirWay /\ UnitsAreAtomic
    BY Zenon DEF PoolParts
  <2>1. UNCHANGED <<started, stopping, conns, idle, obj, session, pending, cache, pc, held, unit,
          result,
                    stored, counts, faults>>
    BY <1>11, Zenon DEF vars
  <2>2. PoolTypeOK' /\ PoolBooks'
    <3>1. PoolTypeOK'
      BY <2>0, <2>1, Zenon DEF PoolTypeOK
    <3>2. PoolBooks'
      BY <2>0, <2>1, Zenon DEF PoolBooks
    <3> QED BY <3>1, <3>2, Zenon
  <2>3. ConnsAgree'
    BY <2>0, <2>1, Zenon DEF ConnsAgree, ConnAgrees
  <2>4. UnitsOnTheirWay'
    BY <2>0, <2>1, UndisturbedUnit, Zenon DEF UnitsOnTheirWay
  <2>5. UnitsAreAtomic'
    BY <2>0, <2>1, Zenon DEF UnitsAreAtomic
  <2> QED BY <2>2, <2>3, <2>4, <2>5, Zenon DEF PoolParts
<1> QED BY <1>1, <1>2, <1>3, <1>4, <1>5, <1>6, <1>7, <1>8, <1>9, <1>10, <1>11, Zenon DEF Next

(* What waits in idle_ is clean on both sides and in nobody's hands.        *)
LEMMA IdleIsClean ==
  ASSUME PoolParts, NEW c \in Elems(idle)
  PROVE  /\ c \in conns /\ c \notin InHands
         /\ obj[c] = Fresh
         /\ session[c] # "transaction" /\ pending[c] = {}
         /\ Len(cache[c]) <= CacheSize
<1>0. PoolTypeOK /\ PoolBooks /\ ConnsAgree
  BY Zenon DEF PoolParts
<1>1. PICK i \in DOMAIN idle : c = idle[i]
  BY Zenon DEF Elems
<1>2. c \in Conns /\ c \in conns /\ obj[c] = Fresh /\ \A t \in Threads : held[t] # c
  BY <1>1, <1>0, SMTT(30) DEF PoolBooks, PoolTypeOK
<1>3. ConnAgrees(c)
  BY <1>2, <1>0, Zenon DEF ConnsAgree
<1>4. ~obj[c].inTransaction
  BY <1>2, SMTT(30) DEF Fresh
<1> QED BY <1>2, <1>3, <1>4, Zenon DEF ConnAgrees, InHands

(* SqlTransaction and the pool keep every unit of work atomic: it is stored *)
(* as a whole or not at all, whichever call fails, whenever its session is  *)
(* lost and whatever reconnects in between, and a method that returned Ok   *)
(* has stored it.                                                           *)
THEOREM UnitsStayAtomic == Spec => []UnitsAreAtomic
<1>1. Init => PoolParts
  BY InitKeeps, Zenon
<1>2. PoolParts /\ [Next]_vars => PoolParts'
  BY PoolNextKeeps, Zenon
<1>3. PoolParts => UnitsAreAtomic
  BY Zenon DEF PoolParts
<1> QED BY <1>1, <1>2, <1>3, PTL DEF Spec

(* The numbers in the count of the slots.                                   *)
LEMMA CountsAreNat ==
  ASSUME PoolTypeOK
  PROVE  Len(idle) \in Nat /\ counts.replaceFailures \in Nat
BY SMTT(30) DEF PoolTypeOK

(* acquireFor() puts one more connection in somebody's hands.               *)
LEMMA HandsTake ==
  ASSUME PoolTypeOK, NEW t \in Threads, held[t] = None, NEW c \in Conns, held' = [held EXCEPT ![t] = c]
  PROVE  InHands' = InHands \cup {c}
<1>1. \A x \in Threads : held'[x] = IF x = t THEN c ELSE held[x]
  BY Zenon DEF PoolTypeOK
<1>2. c # None
  BY SqlPoolAssumption, Zenon
<1> QED BY <1>1, <1>2, Zenon DEF InHands

(* A guard that lets go takes one connection out of them.                   *)
LEMMA HandsDrop ==
  ASSUME PoolTypeOK, PoolBooks, NEW t \in Threads, pc[t] # "out", NEW c, c = held[t],
         held' = [held EXCEPT ![t] = None]
  PROVE  InHands' = InHands \ {c} /\ c \in InHands /\ c \in conns
<1>1. \A x \in Threads : held'[x] = IF x = t THEN None ELSE held[x]
  BY Zenon DEF PoolTypeOK
<1>2. c # None /\ c \in conns /\ \A x \in Threads : x # t => held[x] # c
  BY Zenon DEF PoolBooks
<1> QED BY <1>1, <1>2, Zenon DEF InHands

-----------------------------------------------------------------------------
INSTANCE FiniteSetTheorems

(* The size of the empty set.                                               *)
LEMMA SizeOfNone == IsFiniteSet({}) /\ Cardinality({}) = 0
BY FS_EmptySet, Zenon

(* The size of a finite set is a number.                                    *)
LEMMA SizeIsNat ==
  ASSUME NEW A, IsFiniteSet(A)
  PROVE  Cardinality(A) \in Nat
BY FS_CardinalityType, Zenon

(* A new element makes a set larger by one.                                 *)
LEMMA SizeWithOneMore ==
  ASSUME NEW A, IsFiniteSet(A), NEW x, x \notin A
  PROVE  IsFiniteSet(A \cup {x}) /\ Cardinality(A \cup {x}) = Cardinality(A) + 1
BY FS_AddElement, Zenon

(* Without one of its elements a set is smaller by one.                     *)
LEMMA SizeWithOneLess ==
  ASSUME NEW A, IsFiniteSet(A), NEW x \in A
  PROVE  IsFiniteSet(A \ {x}) /\ Cardinality(A \ {x}) = Cardinality(A) - 1
BY FS_RemoveElement, Zenon

(* A part of a finite set is finite.                                        *)
LEMMA PartsAreFinite ==
  ASSUME NEW A, IsFiniteSet(A), NEW B \in SUBSET A
  PROVE  IsFiniteSet(B)
BY FS_Subset, Zenon

(* start() makes as many connections as there are slots.                    *)
LEMMA SizeOfDistinct ==
  ASSUME NEW n \in Nat, NEW s \in [1..n -> Conns], \A i, j \in 1..n : i # j => s[i] # s[j]
  PROVE  IsFiniteSet(Elems(s)) /\ Cardinality(Elems(s)) = n
<1>1. s \in [1..n -> Elems(s)] /\ \A c \in Elems(s) : \E i \in 1..n : s[i] = c
  BY Zenon DEF Elems
<1>2. \A i, j \in 1..n : s[i] = s[j] => i = j
  BY Zenon
<1>3. s \in Bijection(1..n, Elems(s))
  BY <1>1, <1>2, Zenon DEF Bijection, Injection, Surjection, IsInjective
<1>4. ExistsBijection(1..n, Elems(s))
  BY <1>3, Zenon DEF ExistsBijection
<1>5. n = Cardinality(Elems(s))
  BY <1>4, FS_CountingElements, Zenon
<1>6. IsFiniteSet(1..n)
  BY FS_Interval, SMTT(30)
<1>7. IsFiniteSet(Elems(s))
  BY <1>4, <1>6, FS_Bijection, Zenon
<1> QED BY <1>5, <1>7, Zenon

(* The connections in hands are finitely many.                              *)
LEMMA SizesAreNat ==
  ASSUME PoolParts, SlotsAddUp
  PROVE  /\ IsFiniteSet(InHands) /\ Cardinality(InHands) \in Nat
         /\ Len(idle) \in Nat /\ counts.replaceFailures \in Nat
<1>1. InHands \subseteq conns
  BY Zenon DEF PoolParts, PoolBooks, InHands
<1>2. IsFiniteSet(InHands)
  BY <1>1, PartsAreFinite, Zenon DEF SlotsAddUp
<1> QED BY <1>2, SizeIsNat, CountsAreNat, Zenon DEF PoolParts

(* There are no slots at first.                                             *)
LEMMA SlotsInit == Init => SlotsAddUp
BY SizeOfNone, Zenon DEF Init, SlotsAddUp

(* start(): every slot is idle.                                             *)
LEMMA SlotsStart ==
  ASSUME PoolParts, SlotsAddUp, Start
  PROVE  SlotsAddUp'
<1>1. PICK s \in [1..PoolSize -> Conns] :
        /\ \A i, j \in 1..PoolSize : i # j => s[i] # s[j]
        /\ idle' = s /\ conns' = Elems(s)
  BY Zenon DEF Start
<1>2. ~started /\ ~stopping /\ UNCHANGED <<held, counts>>
  BY Zenon DEF Start
<1>3. IsFiniteSet(conns') /\ Cardinality(conns') = PoolSize
  BY <1>1, SizeOfDistinct, SqlPoolAssumption, Zenon
<1>4. Len(idle') = PoolSize
  BY <1>1, SqlPoolAssumption, SMTT(30)
<1>5. InHands' = {} /\ counts'.replaceFailures = 0
  BY <1>2, Zenon DEF InHands, PoolParts, PoolBooks
<1>6. Cardinality(InHands') = 0
  BY <1>5, SizeOfNone, Zenon
<1> QED BY <1>3, <1>4, <1>5, <1>6, SqlPoolAssumption, SMTT(30) DEF SlotsAddUp

(* acquireFor(): an idle slot is borrowed.                                  *)
LEMMA SlotsAcquire ==
  ASSUME PoolParts, SlotsAddUp, NEW t \in Threads, NEW u \in Units, Acquire(t, u)
  PROVE  SlotsAddUp'
<1>1. idle # <<>> /\ idle \in Seq(Conns) /\ pc[t] = "out"
  BY Zenon DEF Acquire, PoolParts, PoolTypeOK
<1>2. PICK c \in Conns : c = Head(idle) /\ c = idle[1] /\ 1 \in DOMAIN idle
  BY <1>1, SMTT(30)
<1>3. /\ UNCHANGED <<started, conns, counts>> /\ idle' = Tail(idle) /\ held' = [held EXCEPT ![t] = c]
  BY <1>2, Zenon DEF Acquire
<1>4. Len(idle') = Len(idle) - 1
  BY <1>1, <1>3, SMTT(30)
<1>5. c \notin InHands /\ held[t] = None
  <2>1. held[t] = None /\ \A x \in Threads : held[x] # idle[1]
    BY <1>1, <1>2, Zenon DEF PoolParts, PoolBooks
  <2> QED BY <2>1, <1>2, Zenon DEF InHands
<1>6. InHands' = InHands \cup {c}
  BY <1>3, <1>5, HandsTake, Zenon DEF PoolParts
<1>7. Cardinality(InHands') = Cardinality(InHands) + 1
  BY <1>5, <1>6, SizesAreNat, SizeWithOneMore, Zenon
<1>8. started => Cardinality(conns) = Len(idle') + Cardinality(InHands') + counts.replaceFailures
  BY <1>4, <1>7, SizesAreNat, SMTT(30) DEF SlotsAddUp
<1> QED BY <1>3, <1>8, Zenon DEF SlotsAddUp

(* release(): a borrowed slot is idle again, or still borrowed until the    *)
(* connection is replaced.                                                  *)
LEMMA SlotsRelease ==
  ASSUME PoolParts, SlotsAddUp, NEW t \in Threads, Release(t)
  PROVE  SlotsAddUp'
<1>1. PICK c : c = held[t]
  BY Zenon
<1>2. pc[t] = "release" /\ UNCHANGED <<started, conns, counts>>
  BY Zenon DEF Release
<1>3. pc[t] # "out"
  BY <1>2, SMTT(30)
<1>4. started /\ idle \in Seq(Conns) /\ c \in Conns
  BY <1>1, <1>3, Zenon DEF PoolParts, PoolBooks, PoolTypeOK
<1>5. \/ idle' = Append(idle, c) /\ held' = [held EXCEPT ![t] = None]
      \/ idle' = idle /\ held' = held
  BY <1>1, <1>4, Zenon DEF Release, LetGo
<1>6. CASE idle' = idle /\ held' = held
  BY <1>2, <1>6, Zenon DEF SlotsAddUp, InHands
<1>7. CASE idle' = Append(idle, c) /\ held' = [held EXCEPT ![t] = None]
  <2>1. InHands' = InHands \ {c} /\ c \in InHands
    BY <1>1, <1>3, <1>7, HandsDrop, Zenon DEF PoolParts
  <2>2. Cardinality(InHands') = Cardinality(InHands) - 1
    BY <2>1, SizesAreNat, SizeWithOneLess, Zenon
  <2>3. Len(idle') = Len(idle) + 1
    BY <1>4, <1>7, SMTT(30)
  <2> QED BY <2>2, <2>3, <1>2, SizesAreNat, SMTT(30) DEF SlotsAddUp
<1> QED BY <1>5, <1>6, <1>7, Zenon

(* replaceConnection(): a borrowed slot is idle again.                      *)
LEMMA SlotsReplace ==
  ASSUME PoolParts, SlotsAddUp, NEW t \in Threads, ReplaceConnection(t)
  PROVE  SlotsAddUp'
<1>1. PICK h : h = held[t]
  BY Zenon
<1>2. pc[t] = "replace" /\ started' = started /\ held' = [held EXCEPT ![t] = None]
  BY Zenon DEF ReplaceConnection, LetGo
<1>3. pc[t] # "out"
  BY <1>2, SMTT(30)
<1>4. PICK c \in Free :
        /\ idle' = Append(idle, c)
        /\ conns' = (conns \ {h}) \cup {c}
        /\ counts' = [counts EXCEPT !.reconnects = @ + 1]
  BY <1>1, Zenon DEF ReplaceConnection
<1>5. InHands' = InHands \ {h} /\ h \in InHands /\ h \in conns
  BY <1>1, <1>2, <1>3, HandsDrop, Zenon DEF PoolParts
<1>6. Cardinality(InHands') = Cardinality(InHands) - 1
  BY <1>5, SizesAreNat, SizeWithOneLess, Zenon
<1>7. IsFiniteSet(conns \ {h}) /\ Cardinality(conns \ {h}) = Cardinality(conns) - 1
  BY <1>5, SizeWithOneLess, Zenon DEF SlotsAddUp
<1>8. IsFiniteSet(conns') /\ Cardinality(conns') = Cardinality(conns \ {h}) + 1
  BY <1>4, <1>7, SizeWithOneMore, Zenon DEF Free
<1>9. Cardinality(conns) \in Nat
  BY SizeIsNat, Zenon DEF SlotsAddUp
<1>10. Len(idle') = Len(idle) + 1
  BY <1>4, SMTT(30) DEF Free, PoolParts, PoolTypeOK
<1>11. counts'.replaceFailures = counts.replaceFailures
  BY <1>4, CountsGrow, Zenon DEF PoolParts, PoolTypeOK
<1> QED BY <1>2, <1>6, <1>7, <1>8, <1>9, <1>10, <1>11, SizesAreNat, SMTT(30) DEF SlotsAddUp

(* replaceConnection() that fails: a borrowed slot is lost, and counted.    *)
LEMMA SlotsReplaceFails ==
  ASSUME PoolParts, SlotsAddUp, NEW t \in Threads, ReplaceFails(t)
  PROVE  SlotsAddUp'
<1>1. PICK h : h = held[t]
  BY Zenon
<1>2. /\ pc[t] = "replace" /\ UNCHANGED <<started, conns, idle>> /\ held' = [held EXCEPT ![t] = None]
      /\ counts' = [counts EXCEPT !.replaceFailures = @ + 1]
  BY Zenon DEF ReplaceFails, LetGo
<1>3. pc[t] # "out"
  BY <1>2, SMTT(30)
<1>4. InHands' = InHands \ {h} /\ h \in InHands
  BY <1>1, <1>2, <1>3, HandsDrop, Zenon DEF PoolParts
<1>5. Cardinality(InHands') = Cardinality(InHands) - 1
  BY <1>4, SizesAreNat, SizeWithOneLess, Zenon
<1>6. counts'.replaceFailures = counts.replaceFailures + 1
  BY <1>2, CountsGrow, Zenon DEF PoolParts, PoolTypeOK
<1> QED BY <1>2, <1>5, <1>6, SizesAreNat, SMTT(30) DEF SlotsAddUp

(* Every other step leaves the slots as they are.                           *)
LEMMA SlotsElsewhere ==
  ASSUME PoolParts, SlotsAddUp, UNCHANGED <<conns, idle, held>>, started' => started,
         counts'.replaceFailures = counts.replaceFailures
  PROVE  SlotsAddUp'
BY Zenon DEF SlotsAddUp, InHands

(* Every step keeps the count of the slots.                                 *)
LEMMA SlotsNext ==
  ASSUME PoolParts, SlotsAddUp, [Next]_vars
  PROVE  SlotsAddUp'
<1>1. CASE Start
  BY <1>1, SlotsStart, Zenon
<1>2. CASE Stop
  BY <1>2, SizeOfNone, Zenon DEF Stop, SlotsAddUp
<1>3. ASSUME NEW t \in Threads, NEW u \in Units, Acquire(t, u) PROVE SlotsAddUp'
  BY <1>3, SlotsAcquire, Zenon
<1>4. ASSUME NEW t \in Threads, NEW u \in Units, AcquireTimeout(t, u) PROVE SlotsAddUp'
  <2>1. counts'.replaceFailures = counts.replaceFailures
    BY <1>4, CountsGrow, Zenon DEF AcquireTimeout, PoolParts, PoolTypeOK
  <2> QED BY <1>4, <2>1, SlotsElsewhere, Zenon DEF AcquireTimeout
<1>5. ASSUME NEW t \in Threads, Begin(t) \/ Statement(t) \/ CommitTransaction(t) \/ EndTransaction(t)
      PROVE  SlotsAddUp'
  <2>1. Still
    BY <1>5, Zenon DEF Begin, Statement, CommitTransaction, EndTransaction
  <2> QED BY <2>1, SlotsElsewhere, Zenon DEF Still
<1>6. ASSUME NEW t \in Threads, Release(t) PROVE SlotsAddUp'
  BY <1>6, SlotsRelease, Zenon
<1>7. ASSUME NEW t \in Threads, ReplaceConnection(t) PROVE SlotsAddUp'
  BY <1>7, SlotsReplace, Zenon
<1>8. ASSUME NEW t \in Threads, ReplaceFails(t) PROVE SlotsAddUp'
  BY <1>8, SlotsReplaceFails, Zenon
<1>9. CASE StopExecutors
  BY <1>9, SlotsElsewhere, Zenon DEF StopExecutors
<1>10. ASSUME NEW c \in Conns, DropSession(c) PROVE SlotsAddUp'
  BY <1>10, SlotsElsewhere, Zenon DEF DropSession
<1>11. CASE UNCHANGED vars
  <2>1. UNCHANGED <<started, conns, idle, held, counts>>
    BY <1>11, Zenon DEF vars
  <2> QED BY <2>1, SlotsElsewhere, Zenon
<1> QED BY <1>1, <1>2, <1>3, <1>4, <1>5, <1>6, <1>7, <1>8, <1>9, <1>10, <1>11, Zenon DEF Next

-----------------------------------------------------------------------------
(* A session that is there has prepared every statement the client keeps    *)
(* for it; before the pool starts nothing is kept at all.                   *)
CacheAgrees(c) == session[c] # None => Elems(cache[c]) \subseteq prepared[c]
CachesAgree ==
  /\ prepared \in [Conns -> SUBSET Parts]
  /\ \A c \in Conns : CacheAgrees(c)
  /\ ~started /\ ~stopping => \A c \in Conns : cache[c] = <<>>

(* The statements of an empty cache, and of one that a statement joins.     *)
LEMMA NothingKept == Elems(<<>>) = {}
BY SMTT(30) DEF Elems

LEMMA KeptAfterPrepare ==
  ASSUME NEW s \in Seq(Parts), NEW x \in Parts
  PROVE  Elems(GetOrPrepare(s, x)) \subseteq Elems(s) \cup {x}
<1>1. ASSUME NEW r \in Seq(Parts), Elems(r) \subseteq Elems(s)
      PROVE  Elems(<<x>> \o r) \subseteq Elems(s) \cup {x}
  <2> SUFFICES ASSUME NEW i \in DOMAIN (<<x>> \o r), (<<x>> \o r)[i] # x
               PROVE  (<<x>> \o r)[i] \in Elems(s)
    BY Zenon DEF Elems
  <2>1. \E j \in DOMAIN r : (<<x>> \o r)[i] = r[j]
    BY SMTT(30)
  <2> QED BY <2>1, <1>1, Zenon DEF Elems
<1>2. CASE x \in Elems(s)
  <2>1. \E i \in DOMAIN s : s[i] = x
    BY <1>2, Zenon DEF Elems
  <2>2. PICK k \in 1..Len(s) : Without(s, x) = SubSeq(s, 1, k - 1) \o SubSeq(s, k + 1, Len(s))
    <3> DEFINE k0 == CHOOSE k \in DOMAIN s : s[k] = x
    <3>1. k0 \in 1..Len(s)
      BY <2>1, SMTT(30)
    <3>2. Without(s, x) = SubSeq(s, 1, k0 - 1) \o SubSeq(s, k0 + 1, Len(s))
      BY Zenon DEF Without
    <3> HIDE DEF k0
    <3> QED BY <3>1, <3>2, Zenon
  <2> DEFINE a == SubSeq(s, 1, k - 1)
             b == SubSeq(s, k + 1, Len(s))
  <2>3. a \in Seq(Parts) /\ \A i \in DOMAIN a : \E j \in DOMAIN s : a[i] = s[j]
    BY SMTT(30)
  <2>4. b \in Seq(Parts) /\ \A i \in DOMAIN b : \E j \in DOMAIN s : b[i] = s[j]
    BY SMTT(30)
  <2>5. Without(s, x) = a \o b
    BY <2>2, Zenon
  <2> HIDE DEF a, b
  <2>6. a \o b \in Seq(Parts) /\ \A i \in DOMAIN (a \o b) : \E j \in DOMAIN s : (a \o b)[i] = s[j]
    <3>1. a \in Seq(Parts) /\ b \in Seq(Parts)
      BY <2>3, <2>4, Zenon
    <3>2. a \o b \in Seq(Parts)
      BY <3>1, SMTT(30)
    <3>3. ASSUME NEW i \in DOMAIN (a \o b) PROVE \E j \in DOMAIN s : (a \o b)[i] = s[j]
      <4>1. (i \in DOMAIN a /\ (a \o b)[i] = a[i]) \/
              (i - Len(a) \in DOMAIN b /\ (a \o b)[i] = b[i - Len(a)])
        BY <3>1, SMTT(30)
      <4> QED BY <4>1, <2>3, <2>4, Zenon
    <3> QED BY <3>2, <3>3, Zenon
  <2>7. Without(s, x) \in Seq(Parts) /\ Elems(Without(s, x)) \subseteq Elems(s)
    BY <2>5, <2>6, Zenon DEF Elems
  <2>8. GetOrPrepare(s, x) = <<x>> \o Without(s, x)
    BY <1>2, Zenon DEF GetOrPrepare
  <2> QED BY <2>7, <2>8, <1>1, Zenon
<1>3. CASE x \notin Elems(s)
  <2>1. CASE Len(s) >= CacheSize
    <3>1. /\ ButLast(s) \in Seq(Parts)
          /\ \A i \in DOMAIN ButLast(s) : \E j \in DOMAIN s : ButLast(s)[i] = s[j]
      <4>0. Len(s) \in Nat /\ Len(s) >= 1
        BY <2>1, SqlPoolAssumption, SMTT(30)
      <4>1. PICK n \in Nat : n = Len(s) - 1
        BY <4>0, SMTT(30)
      <4>2. /\ SubSeq(s, 1, n) \in Seq(Parts)
            /\ \A i \in DOMAIN SubSeq(s, 1, n) : \E j \in DOMAIN s : SubSeq(s, 1, n)[i] = s[j]
        BY <4>0, <4>1, SMTT(30)
      <4> QED BY <4>1, <4>2, Zenon DEF ButLast
    <3>2. Elems(ButLast(s)) \subseteq Elems(s)
      BY <3>1, Zenon DEF Elems
    <3>3. GetOrPrepare(s, x) = <<x>> \o ButLast(s)
      BY <1>3, <2>1, Zenon DEF GetOrPrepare
    <3> QED BY <3>1, <3>2, <3>3, <1>1, Zenon
  <2>2. CASE ~(Len(s) >= CacheSize)
    <3>1. GetOrPrepare(s, x) = <<x>> \o s
      BY <1>3, <2>2, Zenon DEF GetOrPrepare
    <3> QED BY <3>1, <1>1, Zenon
  <2> QED BY <2>1, <2>2, Zenon
<1> QED BY <1>2, <1>3, Zenon

(* A call leaves the cache of its connection within its session, and those  *)
(* of the others alone.                                                     *)
LEMMA CallKeepsCaches ==
  ASSUME PoolTypeOK, CachesAgree, NEW c \in Conns, ConnCall(c), started, UNCHANGED <<started, stopping>>
  PROVE  CachesAgree'
<1>0. /\ session \in [Conns -> {None, "auto", "transaction"}] /\ cache \in [Conns -> Seq(Parts)]
      /\ prepared \in [Conns -> SUBSET Parts] /\ \A d \in Conns : CacheAgrees(d)
  BY Zenon DEF PoolTypeOK, CachesAgree, PoolStates, Parts
<1> DEFINE Good == /\ prepared' \in [Conns -> SUBSET Parts]
                   /\ CacheAgrees(c)'
                   /\ \A d \in Conns \ {c} :
                        session'[d] = session[d] /\ cache'[d] = cache[d] /\ prepared'[d] = prepared[d]
<1>1. Good
  <2>1. ASSUME cache' = [cache EXCEPT ![c] = <<>>],
               prepared' = prepared \/ prepared' = [prepared EXCEPT ![c] = {}],
               session' = session \/ \E x : session' = [session EXCEPT ![c] = x]
        PROVE  Good
    <3>1. cache'[c] = <<>> /\ \A d \in Conns \ {c} : cache'[d] = cache[d]
      BY <1>0, <2>1, Zenon
    <3>2. prepared' \in [Conns -> SUBSET Parts] /\ \A d \in Conns \ {c} : prepared'[d] = prepared[d]
      BY <1>0, <2>1, Zenon
    <3>3. \A d \in Conns \ {c} : session'[d] = session[d]
      BY <1>0, <2>1, Zenon
    <3>4. CacheAgrees(c)'
      BY <3>1, NothingKept, Zenon DEF CacheAgrees
    <3> QED BY <3>1, <3>2, <3>3, <3>4, Zenon
  <2>2. ASSUME cache' = cache, prepared' = prepared,
               session' = session \/ (session[c] # None /\ \E x : session' = [session EXCEPT ![c] = x])
        PROVE  Good
    <3>1. \A d \in Conns \ {c} : session'[d] = session[d]
      BY <1>0, <2>2, Zenon
    <3>2. CacheAgrees(c)'
      BY <1>0, <2>2, Zenon DEF CacheAgrees
    <3> QED BY <3>1, <3>2, <1>0, <2>2, Zenon
  <2>3. ASSUME NEW p \in Parts, Prepare(c, p), session' = session PROVE Good
    <3>1. cache[c] \in Seq(Parts) /\ Elems(cache[c]) \subseteq prepared[c]
      BY <1>0, <2>3, Zenon DEF CacheAgrees, Prepare, Alive
    <3>2. Elems(GetOrPrepare(cache[c], p)) \subseteq Elems(cache[c]) \cup {p}
      BY <3>1, KeptAfterPrepare, Zenon
    <3>3. cache'[c] = GetOrPrepare(cache[c], p) /\ \A d \in Conns \ {c} : cache'[d] = cache[d]
      BY <1>0, <2>3, Zenon DEF Prepare
    <3>4. /\ prepared'[c] = prepared[c] \cup {p} /\ prepared' \in [Conns -> SUBSET Parts]
          /\ \A d \in Conns \ {c} : prepared'[d] = prepared[d]
      BY <1>0, <2>3, Zenon DEF Prepare
    <3>5. CacheAgrees(c)'
      BY <3>1, <3>2, <3>3, <3>4, Zenon DEF CacheAgrees
    <3> QED BY <3>3, <3>4, <3>5, <2>3, Zenon
  <2> HIDE DEF Good
  <2>4. CASE CallFails(c)
    BY <2>4, <2>1, <2>2, Zenon DEF CallFails, MarkBroken
  <2>5. CASE BeginTransaction(c) \/ Commit(c) \/ Rollback(c)
    BY <2>5, <2>2, Zenon DEF BeginTransaction, Commit, Rollback, Alive
  <2>6. CASE CommitThrows(c) \/ Reconnect(c) \/ ReconnectFails(c)
    BY <2>6, <2>1, Zenon DEF CommitThrows, MarkBroken, Reconnect, ReconnectFails
  <2>7. CASE RollbackFails(c) \/ (MarkBroken(c) /\ UNCHANGED <<session, pending>>)
    BY <2>7, <2>1, <2>2, Zenon DEF RollbackFails, MarkBroken
  <2>8. ASSUME NEW p \in Parts, ExecuteFails(c, p) \/ \E u \in Units : ExecutePrepared(c, u, p)
        PROVE  Good
    BY <2>8, <2>3, Zenon DEF ExecuteFails, ExecutePrepared
  <2>9. CASE UNCHANGED <<obj, session, pending, cache, prepared>>
    BY <2>9, <2>2, Zenon
  <2> QED BY <2>4, <2>5, <2>6, <2>7, <2>8, <2>9, Zenon DEF ConnCall
<1>2. \A d \in Conns : CacheAgrees(d)'
  <2> TAKE d \in Conns
  <2>1. CASE d = c
    BY <2>1, <1>1, Zenon
  <2>2. CASE d # c
    BY <2>2, <1>0, <1>1, Zenon DEF CacheAgrees
  <2> QED BY <2>1, <2>2, Zenon
<1> QED BY <1>1, <1>2, Zenon DEF CachesAgree

(* A step that keeps every cache, or empties it, and opens no session that  *)
(* could be taken for the one before.                                       *)
LEMMA CachesElsewhere ==
  ASSUME PoolTypeOK, CachesAgree, UNCHANGED prepared, ~started' /\ ~stopping' => ~started /\ ~stopping,
         \A c \in Conns : cache'[c] \in {cache[c], <<>>},
         \A c \in Conns : session'[c] # None => session[c] # None \/ cache[c] = <<>>
  PROVE  CachesAgree'
<1>1. ASSUME NEW c \in Conns PROVE CacheAgrees(c)'
  <2>1. CacheAgrees(c) /\ cache'[c] \in {cache[c], <<>>}
        /\ (session'[c] # None => session[c] # None \/ cache[c] = <<>>)
    BY <1>1, Zenon DEF CachesAgree
  <2> QED BY <2>1, NothingKept, Zenon DEF CacheAgrees
<1>2. ~started' /\ ~stopping' => \A c \in Conns : cache'[c] = <<>>
  BY Zenon DEF CachesAgree
<1> QED BY <1>1, <1>2, Zenon DEF CachesAgree

(* Every step keeps the caches within their sessions.                       *)
LEMMA CachesNext ==
  ASSUME PoolParts, CachesAgree, [Next]_vars
  PROVE  CachesAgree'
<1>0. PoolTypeOK /\ PoolBooks
  BY Zenon DEF PoolParts
<1>t. /\ session \in [Conns -> {None, "auto", "transaction"}] /\ cache \in [Conns -> Seq(Parts)]
      /\ started \in BOOLEAN /\ stopping \in BOOLEAN
  BY <1>0, Zenon DEF PoolTypeOK, PoolStates
<1>1. CASE Start
  <2>1. \A c \in Conns : cache[c] = <<>>
    BY <1>1, Zenon DEF Start, CachesAgree
  <2> QED BY <2>1, <1>0, <1>1, CachesElsewhere, Zenon DEF Start
<1>2. CASE StopExecutors
  BY <1>0, <1>2, CachesElsewhere, Zenon DEF StopExecutors
<1>3. CASE Stop
  <2>1. \A c \in Conns : cache'[c] \in {cache[c], <<>>} /\ (session'[c] # None => session[c] # None)
    BY <1>3, Zenon DEF Stop
  <2> QED BY <2>1, <1>0, <1>3, CachesElsewhere, Zenon DEF Stop
<1>4. ASSUME NEW t \in Threads, NEW u \in Units, Acquire(t, u) \/ AcquireTimeout(t, u) PROVE CachesAgree'
  <2>1. UNCHANGED <<started, stopping, session, cache, prepared>>
    BY <1>4, Zenon DEF Acquire, AcquireTimeout
  <2> QED BY <2>1, <1>0, CachesElsewhere, Zenon
<1>5. ASSUME NEW t \in Threads, Begin(t) \/ Statement(t) \/ CommitTransaction(t) \/ EndTransaction(t)
      PROVE  CachesAgree'
  <2>1. held[t] \in Conns /\ started /\ ConnCall(held[t]) /\ Still
    BY <1>0, <1>5, WorkEffect, Zenon DEF Work
  <2>2. UNCHANGED <<started, stopping>>
    BY <2>1, Zenon DEF Still
  <2> QED BY <2>1, <2>2, <1>0, CallKeepsCaches, Zenon
<1>6. ASSUME NEW t \in Threads, Release(t) PROVE CachesAgree'
  <2>1. held[t] \in Conns /\ started
    BY <1>0, <1>6, Zenon DEF PoolTypeOK, PoolBooks, Release
  <2>2. ConnCall(held[t]) /\ UNCHANGED <<started, stopping>>
    BY <2>1, <1>6, ResetIsACall, Zenon DEF Release
  <2> QED BY <2>1, <2>2, <1>0, CallKeepsCaches, Zenon
<1>7. ASSUME NEW t \in Threads, ReplaceConnection(t) PROVE CachesAgree'
  <2>1. PICK c \in Free :
          /\ session' = [session EXCEPT ![c] = "auto", ![held[t]] = None]
          /\ cache' = [cache EXCEPT ![c] = <<>>]
          /\ prepared' = [prepared EXCEPT ![c] = {}]
    BY <1>7, Zenon DEF ReplaceConnection
  <2>2. c \in Conns /\ started /\ started' = started
    BY <2>1, <1>7, Zenon DEF Free, ReplaceConnection
  <2>3. prepared \in [Conns -> SUBSET Parts] /\ \A d \in Conns : CacheAgrees(d)
    BY Zenon DEF CachesAgree
  <2>4. prepared' \in [Conns -> SUBSET Parts]
    BY <2>1, <2>3, Zenon
  <2>5. ASSUME NEW d \in Conns PROVE CacheAgrees(d)'
    <3>1. CASE d = c
      <4>1. cache'[d] = <<>>
        BY <3>1, <2>1, <2>2, <1>t, Zenon
      <4> QED BY <4>1, NothingKept, Zenon DEF CacheAgrees
    <3>2. CASE d # c
      <4>1. cache'[d] = cache[d] /\ prepared'[d] = prepared[d] /\ session'[d] \in {session[d], None}
        BY <3>2, <2>1, <2>3, <1>t, Zenon
      <4> QED BY <4>1, <2>3, Zenon DEF CacheAgrees
    <3> QED BY <3>1, <3>2, Zenon
  <2> QED BY <2>2, <2>4, <2>5, Zenon DEF CachesAgree
<1>8. ASSUME NEW t \in Threads, ReplaceFails(t) PROVE CachesAgree'
  BY <1>0, <1>8, CachesElsewhere, Zenon DEF ReplaceFails
<1>9. ASSUME NEW c \in Conns, DropSession(c) PROVE CachesAgree'
  <2>1. \A d \in Conns : session'[d] \in {session[d], None}
    BY <1>9, <1>t, Zenon DEF DropSession
  <2> QED BY <2>1, <1>0, <1>9, CachesElsewhere, Zenon DEF DropSession
<1>10. CASE UNCHANGED vars
  BY <1>0, <1>10, CachesElsewhere, Zenon DEF vars
<1> QED BY <1>1, <1>2, <1>3, <1>4, <1>5, <1>6, <1>7, <1>8, <1>9, <1>10, Zenon DEF Next

(* Whoever borrows a connection gets a clean one that is in nobody else's   *)
(* hands, whose cache holds nothing prepared in an earlier session; every   *)
(* slot of a started pool is idle, borrowed or counted as lost.             *)
THEOREM PoolStaysSound == Spec => []PoolIsSound
<1> DEFINE Inv == PoolParts /\ SlotsAddUp /\ CachesAgree
<1>1. Init => Inv
  <2>1. Init => CachesAgree
    BY Zenon DEF Init, CachesAgree, CacheAgrees
  <2> QED BY <2>1, InitKeeps, SlotsInit, Zenon
<1>2. Inv /\ [Next]_vars => Inv'
  BY PoolNextKeeps, SlotsNext, CachesNext, Zenon
<1>3. Inv => PoolIsSound
  <2> SUFFICES ASSUME PoolParts, SlotsAddUp, CachesAgree PROVE PoolIsSound
    BY Zenon
  <2>1. \A i, j \in DOMAIN idle : i # j => idle[i] # idle[j]
    BY Zenon DEF PoolParts, PoolBooks
  <2>2. ASSUME NEW c \in Elems(idle), Alive(c) PROVE Elems(cache[c]) \subseteq prepared[c]
    <3>1. c \in Conns
      BY <2>2, IdleIsClean, Zenon DEF PoolParts, PoolTypeOK
    <3> QED BY <3>1, <2>2, Zenon DEF CachesAgree, CacheAgrees, Alive
  <2> QED BY <2>1, <2>2, IdleIsClean, Zenon DEF PoolIsSound, SlotsAddUp
<1> HIDE DEF Inv
<1> QED BY <1>1, <1>2, <1>3, PTL DEF Spec
=============================================================================
