----------------------- MODULE ServerLifecycle_proofs -----------------------
(***************************************************************************)
(* That the base loop may know connections by their descriptors, for any   *)
(* number of connections, descriptors and io loops.  The invariant follows *)
(* the functors of a connection through the queues of the loops: which     *)
(* ones can be pending together, that the ones a connection must run once  *)
(* are pending once, and that a forced close never overtakes the start of  *)
(* the connection.                                                         *)
(***************************************************************************)
EXTENDS ServerLifecycle, TLAPS

BaseOps == {"register", "remove", "message", "finalize"}
LoopOps == {"create", "established", "forceClose", "destroyed"}
Ops == BaseOps \cup LoopOps
Functors == [op : Ops, conn : Conns \cup {NoConn}]

(* A functor in a queue; at most once; never after another.                 *)
Holds(q, x)     == \E i \in 1..Len(q) : q[i] = x
Once(q, x)      == \A i, j \in 1..Len(q) : q[i] = x /\ q[j] = x => i = j
Before(q, x, y) == \A i, j \in 1..Len(q) : q[i] = x /\ q[j] = y => i < j

(* What happens to a queue when a functor leaves it or enters it.           *)
LEMMA HoldsEmpty ==
  ASSUME NEW x, NEW y PROVE ~Holds(<<>>, x) /\ Once(<<>>, x) /\ Before(<<>>, x, y)
BY SMTT(30) DEF Holds, Once, Before

LEMMA HoldsNone ==
  ASSUME NEW q, NEW x, NEW y, ~Holds(q, x) PROVE Once(q, x) /\ Before(q, x, y) /\ Before(q, y, x)
BY Zenon DEF Holds, Once, Before

LEMMA HoldsAppend ==
  ASSUME NEW S, NEW q \in Seq(S), NEW x \in S, NEW y
  PROVE  /\ Append(q, x) \in Seq(S)
         /\ Holds(Append(q, x), y) <=> Holds(q, y) \/ y = x
         /\ Once(q, y) /\ (y = x => ~Holds(q, y)) => Once(Append(q, x), y)
         /\ \A z : Before(q, y, z) /\ y # z /\ (y = x => ~Holds(q, z)) => Before(Append(q, x), y, z)
<1> DEFINE r == Append(q, x)
<1>1. /\ r \in Seq(S) /\ Len(q) \in Nat /\ Len(r) = Len(q) + 1 /\ r[Len(q) + 1] = x
      /\ \A i \in 1..Len(q) : r[i] = q[i]
  BY SMTT(30)
<1> HIDE DEF r
<1>2. Holds(r, y) <=> Holds(q, y) \/ y = x BY <1>1, SMTT(30) DEF Holds
<1>3. ASSUME Once(q, y), y = x => ~Holds(q, y) PROVE Once(r, y)
  BY <1>1, <1>3, SMTT(30) DEF Holds, Once
<1>4. ASSUME NEW z, Before(q, y, z), y # z, y = x => ~Holds(q, z) PROVE Before(r, y, z)
  BY <1>1, <1>4, SMTT(30) DEF Holds, Before
<1> QED BY <1>1, <1>2, <1>3, <1>4, Zenon DEF r

LEMMA HoldsTail ==
  ASSUME NEW S, NEW q \in Seq(S), q # <<>>, NEW y
  PROVE  /\ Tail(q) \in Seq(S) /\ Head(q) \in S /\ Holds(q, Head(q))
         /\ Holds(Tail(q), y) => Holds(q, y)
         /\ Holds(q, y) /\ y # Head(q) => Holds(Tail(q), y)
         /\ Once(q, Head(q)) => ~Holds(Tail(q), Head(q))
         /\ Once(q, y) => Once(Tail(q), y)
         /\ \A z : Before(q, y, z) => Before(Tail(q), y, z)
         /\ Before(q, y, Head(q)) => ~Holds(q, y)
<1> DEFINE r == Tail(q)
<1>1. /\ r \in Seq(S) /\ Len(q) \in Nat /\ Len(r) = Len(q) - 1 /\ Len(q) >= 1
      /\ \A i \in 1..Len(r) : r[i] = q[i + 1]
      /\ Head(q) = q[1] /\ q[1] \in S
  BY SMTT(30)
<1>2. \A i \in 2..Len(q) : q[i] = r[i - 1] BY <1>1, SMTT(30)
<1> HIDE DEF r
<1>3. Holds(q, Head(q)) /\ (Holds(r, y) => Holds(q, y)) BY <1>1, SMTT(30) DEF Holds
<1>4. ASSUME Holds(q, y), y # Head(q) PROVE Holds(r, y)
  <2>1. PICK i \in 1..Len(q) : q[i] = y BY <1>4, Zenon DEF Holds
  <2>2. i \in 2..Len(q) /\ i - 1 \in 1..Len(r) BY <1>1, <1>4, <2>1, SMTT(30)
  <2> QED BY <1>2, <2>1, <2>2, Zenon DEF Holds
<1>5. Once(q, Head(q)) => ~Holds(r, Head(q)) BY <1>1, SMTT(30) DEF Holds, Once
<1>6. ASSUME Once(q, y) PROVE Once(r, y)
  <2> SUFFICES ASSUME NEW i \in 1..Len(r), NEW j \in 1..Len(r), r[i] = y, r[j] = y PROVE i = j
    BY Zenon DEF Once
  <2>1. i + 1 \in 1..Len(q) /\ j + 1 \in 1..Len(q) /\ q[i + 1] = y /\ q[j + 1] = y BY <1>1, SMTT(30)
  <2>2. i + 1 = j + 1 BY <1>6, <2>1, Zenon DEF Once
  <2> QED BY <2>2, SMTT(30)
<1>7. ASSUME NEW z, Before(q, y, z) PROVE Before(r, y, z)
  <2> SUFFICES ASSUME NEW i \in 1..Len(r), NEW j \in 1..Len(r), r[i] = y, r[j] = z PROVE i < j
    BY Zenon DEF Before
  <2>1. i + 1 \in 1..Len(q) /\ j + 1 \in 1..Len(q) /\ q[i + 1] = y /\ q[j + 1] = z BY <1>1, SMTT(30)
  <2>2. i + 1 < j + 1 BY <1>7, <2>1, Zenon DEF Before
  <2> QED BY <2>2, SMTT(30)
<1>8. Before(q, y, Head(q)) => ~Holds(q, y) BY <1>1, SMTT(30) DEF Holds, Before
<1> QED BY <1>1, <1>3, <1>4, <1>5, <1>6, <1>7, <1>8, Zenon DEF r

LEMMA HoldsConcat ==
  ASSUME NEW S, NEW q \in Seq(S), NEW p \in Seq(S), NEW y
  PROVE  /\ q \o p \in Seq(S)
         /\ Holds(q \o p, y) <=> Holds(q, y) \/ Holds(p, y)
         /\ Once(q, y) /\ ~Holds(p, y) => Once(q \o p, y)
         /\ ~Holds(q, y) /\ Once(p, y) => Once(q \o p, y)
         /\ \A z : Before(q, y, z) /\ ~Holds(p, y) => Before(q \o p, y, z)
<1> DEFINE r == q \o p
<1>1. /\ r \in Seq(S) /\ Len(q) \in Nat /\ Len(p) \in Nat /\ Len(r) = Len(q) + Len(p)
      /\ \A i \in 1..Len(q) : r[i] = q[i]
      /\ \A i \in 1..Len(p) : r[i + Len(q)] = p[i]
  BY SMTT(30)
<1>2. \A i \in 1..Len(r) : i \in 1..Len(q) \/ (i - Len(q) \in 1..Len(p) /\ r[i] = p[i - Len(q)])
  BY <1>1, SMTT(30)
<1> HIDE DEF r
<1>3. Holds(r, y) <=> Holds(q, y) \/ Holds(p, y)
  <2>1. Holds(q, y) => Holds(r, y) BY <1>1, SMTT(30) DEF Holds
  <2>2. ASSUME Holds(p, y) PROVE Holds(r, y)
    <3>1. PICK i \in 1..Len(p) : p[i] = y BY <2>2, Zenon DEF Holds
    <3>2. i + Len(q) \in 1..Len(r) /\ r[i + Len(q)] = y BY <1>1, <3>1, SMTT(30)
    <3> QED BY <3>2, Zenon DEF Holds
  <2>3. Holds(r, y) => Holds(q, y) \/ Holds(p, y) BY <1>1, <1>2, Zenon DEF Holds
  <2> QED BY <2>1, <2>2, <2>3, Zenon
<1>4. ASSUME Once(q, y), ~Holds(p, y) PROVE Once(r, y)
  <2>1. \A i \in 1..Len(r) : r[i] = y => i \in 1..Len(q) BY <1>2, <1>4, Zenon DEF Holds
  <2> QED BY <1>1, <1>4, <2>1, Zenon DEF Once
<1>5. ASSUME NEW z, Before(q, y, z), ~Holds(p, y) PROVE Before(r, y, z)
  <2>1. \A i \in 1..Len(r) : r[i] = y => i \in 1..Len(q) BY <1>2, <1>5, Zenon DEF Holds
  <2> SUFFICES ASSUME NEW i \in 1..Len(r), NEW j \in 1..Len(r), r[i] = y, r[j] = z PROVE i < j
    BY Zenon DEF Before
  <2>2. i \in 1..Len(q) /\ q[i] = y BY <1>1, <2>1, Zenon
  <2>3. CASE j \in 1..Len(q) BY <1>1, <1>5, <2>2, <2>3, Zenon DEF Before
  <2>4. CASE j \notin 1..Len(q) BY <1>1, <2>2, <2>4, SMTT(30)
  <2> QED BY <2>3, <2>4, Zenon
<1>6. ASSUME ~Holds(q, y), Once(p, y) PROVE Once(r, y)
  <2> SUFFICES ASSUME NEW i \in 1..Len(r), NEW j \in 1..Len(r), r[i] = y, r[j] = y PROVE i = j
    BY Zenon DEF Once
  <2>1. i \notin 1..Len(q) /\ j \notin 1..Len(q) BY <1>1, <1>6, Zenon DEF Holds
  <2>2. /\ i - Len(q) \in 1..Len(p) /\ p[i - Len(q)] = y
        /\ j - Len(q) \in 1..Len(p) /\ p[j - Len(q)] = y
    BY <1>2, <2>1, Zenon
  <2>3. i - Len(q) = j - Len(q) BY <1>6, <2>2, Zenon DEF Once
  <2> QED BY <1>1, <2>3, SMTT(30)
<1> QED BY <1>1, <1>3, <1>4, <1>5, <1>6, Zenon DEF r

(* A batch and the functors that wait behind it, as one queue.              *)
LEMMA QueueSwap == ASSUME NEW S, NEW q \in Seq(S) PROVE <<>> \o q = q /\ q \o <<>> = q
BY SMTT(30)

LEMMA QueueAppend ==
  ASSUME NEW S, NEW b \in Seq(S), NEW q \in Seq(S), NEW x \in S
  PROVE  b \o Append(q, x) = Append(b \o q, x)
BY SMTT(30)

LEMMA QueueTail ==
  ASSUME NEW S, NEW b \in Seq(S), NEW q \in Seq(S), b # <<>>
  PROVE  Tail(b) \o q = Tail(b \o q) /\ Head(b \o q) = Head(b) /\ b \o q # <<>>
BY SMTT(30)

LEMMA QueueConcat ==
  ASSUME NEW S, NEW b \in Seq(S), NEW q \in Seq(S), NEW p \in Seq(S)
  PROVE  b \o (q \o p) = (b \o q) \o p
BY SMTT(30)

-----------------------------------------------------------------------------
(* The queues of all loops.                                                 *)

Both(b, q) == [t \in Threads |-> b[t] \o q[t]]
Queues     == Both(batch, todo)

Popped(Q, t)    == [Q EXCEPT ![t] = Tail(Q[t])]
Pushed(Q, t, x) == [Q EXCEPT ![t] = Append(Q[t], x)]

AllQueues == [Threads -> Seq(Functors)]

(* Q becomes R; the functors in gone left their queue once, those in new    *)
(* entered it at the end.                                                   *)
Moves(Q, R, gone, new) ==
  /\ R \in AllQueues
  /\ \A t \in Threads : \A y :
       /\ Holds(R[t], y) => Holds(Q[t], y) \/ <<t, y>> \in new
       /\ (Holds(Q[t], y) /\ <<t, y>> \notin gone) \/ <<t, y>> \in new => Holds(R[t], y)
       /\ <<t, y>> \in gone \ new /\ Once(Q[t], y) => ~Holds(R[t], y)
       /\ Once(Q[t], y) /\ (<<t, y>> \in new => ~Holds(Q[t], y)) => Once(R[t], y)
       /\ \A z : /\ Before(Q[t], y, z) /\ y # z
                 /\ <<t, y>> \in new => ~Holds(Q[t], z) /\ <<t, z>> \notin new
                 => Before(R[t], y, z)

LEMMA MovesNot == ASSUME NEW Q \in AllQueues PROVE Moves(Q, Q, {}, {})
BY Zenon DEF Moves

LEMMA PopMoves ==
  ASSUME NEW Q \in AllQueues, NEW t \in Threads, Q[t] # <<>>
  PROVE  /\ Moves(Q, Popped(Q, t), {<<t, Head(Q[t])>>}, {})
         /\ Head(Q[t]) \in Functors /\ Holds(Q[t], Head(Q[t]))
         /\ \A y : Before(Q[t], y, Head(Q[t])) => ~Holds(Q[t], y)
<1> DEFINE R == Popped(Q, t)
           h == Head(Q[t])
<1>1. Q[t] \in Seq(Functors) BY Zenon DEF AllQueues
<1>2. /\ Tail(Q[t]) \in Seq(Functors) /\ h \in Functors /\ Holds(Q[t], h)
      /\ \A y : Before(Q[t], y, h) => ~Holds(Q[t], y)
  BY <1>1, HoldsTail, Zenon
<1>3. R \in AllQueues /\ R[t] = Tail(Q[t]) /\ \A u \in Threads : u # t => R[u] = Q[u]
  BY <1>2, Zenon DEF Popped, AllQueues
<1>4. \A y : /\ Holds(R[t], y) => Holds(Q[t], y)
             /\ Holds(Q[t], y) /\ y # h => Holds(R[t], y)
             /\ Once(Q[t], h) => ~Holds(R[t], h)
             /\ Once(Q[t], y) => Once(R[t], y)
             /\ \A z : Before(Q[t], y, z) => Before(R[t], y, z)
  BY <1>1, <1>3, HoldsTail, SMTT(30)
<1> HIDE DEF R, h
<1>5. Moves(Q, R, {<<t, h>>}, {})
  <2> SUFFICES ASSUME NEW u \in Threads, NEW y
               PROVE  /\ Holds(R[u], y) => Holds(Q[u], y)
                      /\ Holds(Q[u], y) /\ <<u, y>> # <<t, h>> => Holds(R[u], y)
                      /\ <<u, y>> = <<t, h>> /\ Once(Q[u], y) => ~Holds(R[u], y)
                      /\ Once(Q[u], y) => Once(R[u], y)
                      /\ \A z : Before(Q[u], y, z) => Before(R[u], y, z)
    BY <1>3, Zenon DEF Moves
  <2>1. CASE u = t BY <1>4, <2>1, Zenon
  <2>2. CASE u # t BY <1>3, <2>2, Zenon
  <2> QED BY <2>1, <2>2, Zenon
<1> QED BY <1>2, <1>5, Zenon DEF R, h

LEMMA PushMoves ==
  ASSUME NEW Q \in AllQueues, NEW t \in Threads, NEW x \in Functors
  PROVE  Moves(Q, Pushed(Q, t, x), {}, {<<t, x>>})
<1> DEFINE R == Pushed(Q, t, x)
<1>1. Q[t] \in Seq(Functors) BY Zenon DEF AllQueues
<1>2. Append(Q[t], x) \in Seq(Functors) BY <1>1, HoldsAppend, Zenon
<1>3. R \in AllQueues /\ R[t] = Append(Q[t], x) /\ \A u \in Threads : u # t => R[u] = Q[u]
  BY <1>2, Zenon DEF Pushed, AllQueues
<1>4. \A y : /\ Holds(R[t], y) <=> Holds(Q[t], y) \/ y = x
             /\ Once(Q[t], y) /\ (y = x => ~Holds(Q[t], y)) => Once(R[t], y)
             /\ \A z : Before(Q[t], y, z) /\ y # z /\ (y = x => ~Holds(Q[t], z))
                       => Before(R[t], y, z)
  BY <1>1, <1>3, HoldsAppend, SMTT(30)
<1> HIDE DEF R
<1>5. ASSUME NEW u \in Threads, NEW y
      PROVE  /\ Holds(R[u], y) => Holds(Q[u], y) \/ <<u, y>> = <<t, x>>
             /\ Holds(Q[u], y) \/ <<u, y>> = <<t, x>> => Holds(R[u], y)
             /\ Once(Q[u], y) /\ (<<u, y>> = <<t, x>> => ~Holds(Q[u], y)) => Once(R[u], y)
             /\ \A z : /\ Before(Q[u], y, z) /\ y # z
                       /\ <<u, y>> = <<t, x>> => ~Holds(Q[u], z) /\ <<u, z>> # <<t, x>>
                       => Before(R[u], y, z)
  <2>1. CASE u = t BY <1>4, <2>1, Zenon
  <2>2. CASE u # t BY <1>3, <2>2, Zenon
  <2> QED BY <2>1, <2>2, Zenon
<1>6. Moves(Q, R, {}, {<<t, x>>}) BY <1>3, <1>5, Zenon DEF Moves
<1> QED BY <1>6, Zenon DEF R

(* One change after another.                                                *)
LEMMA MovesTwice ==
  ASSUME NEW Q, NEW R, NEW T, NEW gone, NEW n, NEW m,
         Moves(Q, R, gone, n), Moves(R, T, {}, m), n \cap m = {}
  PROVE  Moves(Q, T, gone, n \cup m)
<1> SUFFICES ASSUME NEW t \in Threads, NEW y
             PROVE  /\ Holds(T[t], y) => Holds(Q[t], y) \/ <<t, y>> \in n \cup m
                    /\ (Holds(Q[t], y) /\ <<t, y>> \notin gone) \/ <<t, y>> \in n \cup m => Holds(T[t], y)
                    /\ <<t, y>> \in gone \ (n \cup m) /\ Once(Q[t], y) => ~Holds(T[t], y)
                    /\ Once(Q[t], y) /\ (<<t, y>> \in n \cup m => ~Holds(Q[t], y)) => Once(T[t], y)
                    /\ \A z : /\ Before(Q[t], y, z) /\ y # z
                              /\ <<t, y>> \in n \cup m => ~Holds(Q[t], z) /\ <<t, z>> \notin n \cup m
                              => Before(T[t], y, z)
  BY Zenon DEF Moves
<1>1. /\ Holds(R[t], y) => Holds(Q[t], y) \/ <<t, y>> \in n
      /\ (Holds(Q[t], y) /\ <<t, y>> \notin gone) \/ <<t, y>> \in n => Holds(R[t], y)
      /\ <<t, y>> \in gone \ n /\ Once(Q[t], y) => ~Holds(R[t], y)
      /\ Once(Q[t], y) /\ (<<t, y>> \in n => ~Holds(Q[t], y)) => Once(R[t], y)
      /\ \A z : /\ Before(Q[t], y, z) /\ y # z
                /\ <<t, y>> \in n => ~Holds(Q[t], z) /\ <<t, z>> \notin n
                => Before(R[t], y, z)
  BY Zenon DEF Moves
<1>2. /\ Holds(T[t], y) => Holds(R[t], y) \/ <<t, y>> \in m
      /\ Holds(R[t], y) \/ <<t, y>> \in m => Holds(T[t], y)
      /\ Once(R[t], y) /\ (<<t, y>> \in m => ~Holds(R[t], y)) => Once(T[t], y)
      /\ \A z : /\ Before(R[t], y, z) /\ y # z
                /\ <<t, y>> \in m => ~Holds(R[t], z) /\ <<t, z>> \notin m
                => Before(T[t], y, z)
  BY Zenon DEF Moves
<1>3. \A z : Holds(R[t], z) => Holds(Q[t], z) \/ <<t, z>> \in n BY Zenon DEF Moves
<1>4. <<t, y>> \notin n \/ <<t, y>> \notin m BY Zenon
<1>5. ASSUME NEW z, Before(Q[t], y, z), y # z,
             <<t, y>> \in n \cup m => ~Holds(Q[t], z) /\ <<t, z>> \notin n \cup m
      PROVE  Before(T[t], y, z)
  <2>1. Before(R[t], y, z) BY <1>1, <1>5, Zenon
  <2>2. <<t, y>> \in m => ~Holds(R[t], z) /\ <<t, z>> \notin m BY <1>3, <1>5, Zenon
  <2> QED BY <1>2, <1>5, <2>1, <2>2, Zenon
<1> QED BY <1>1, <1>2, <1>4, <1>5, Zenon

(* How the steps change the queues.                                         *)
LEMMA FunctorFields ==
  ASSUME NEW a, NEW c
  PROVE  /\ Functor(a, c).op = a /\ Functor(a, c).conn = c
         /\ a \in Ops /\ c \in Conns \cup {NoConn} => Functor(a, c) \in Functors
         /\ \A b, d : Functor(a, c) = Functor(b, d) <=> a = b /\ c = d
BY Zenon DEF Functor, Functors

LEMMA BothTyped ==
  ASSUME NEW b \in AllQueues, NEW q \in AllQueues
  PROVE  Both(b, q) \in AllQueues /\ \A t \in Threads : Both(b, q)[t] = b[t] \o q[t]
BY SMTT(30) DEF Both, AllQueues

LEMMA PostPushes ==
  ASSUME NEW b \in AllQueues, NEW q \in AllQueues, NEW u \in Threads, NEW a \in Ops,
         NEW c \in Conns \cup {NoConn}
  PROVE  /\ Post(q, u, a, c) \in AllQueues
         /\ Moves(Both(b, q), Both(b, Post(q, u, a, c)), {}, {<<u, Functor(a, c)>>})
<1> DEFINE x == Functor(a, c)
           p == Post(q, u, a, c)
           Q == Both(b, q)
<1>1. x \in Functors BY FunctorFields, Zenon
<1>2. p = [q EXCEPT ![u] = Append(q[u], x)] BY Zenon DEF Post
<1>3. q[u] \in Seq(Functors) BY Zenon DEF AllQueues
<1>4. Append(q[u], x) \in Seq(Functors) BY <1>1, <1>3, SMTT(30)
<1>5. p \in AllQueues /\ p[u] = Append(q[u], x) /\ \A t \in Threads : t # u => p[t] = q[t]
  BY <1>2, <1>4, Zenon DEF AllQueues
<1> HIDE DEF x, p
<1>6. Q \in AllQueues /\ \A t \in Threads : Q[t] = b[t] \o q[t] BY BothTyped, Zenon
<1>7. Both(b, p) \in AllQueues /\ \A t \in Threads : Both(b, p)[t] = b[t] \o p[t] BY <1>5, BothTyped, Zenon
<1>8. b[u] \o Append(q[u], x) = Append(b[u] \o q[u], x) BY <1>1, <1>3, QueueAppend, SMTT(30) DEF AllQueues
<1> HIDE DEF Q
<1>9. \A t \in Threads : Both(b, p)[t] = Pushed(Q, u, x)[t] BY <1>5, <1>6, <1>7, <1>8, Zenon DEF Pushed, AllQueues
<1>10. Moves(Q, Pushed(Q, u, x), {}, {<<u, x>>}) BY <1>1, <1>6, PushMoves, Zenon
<1>11. Pushed(Q, u, x) \in AllQueues BY <1>10, Zenon DEF Moves
<1>12. Both(b, p) = Pushed(Q, u, x) BY <1>7, <1>9, <1>11, SMTT(30) DEF AllQueues
<1>13. Moves(Q, Both(b, p), {}, {<<u, x>>}) BY <1>10, <1>12, Zenon
<1> QED BY <1>5, <1>13, Zenon DEF Q, x, p

LEMMA RunPops ==
  ASSUME todo \in AllQueues, batch \in AllQueues, NEW t \in Threads, NEW a, NEW c, Runs(t, a, c)
  PROVE  /\ batch' \in AllQueues /\ Functor(a, c) \in Functors /\ Holds(Queues[t], Functor(a, c))
         /\ Moves(Queues, Both(batch', todo), {<<t, Functor(a, c)>>}, {})
         /\ \A y : Before(Queues[t], y, Functor(a, c)) => ~Holds(Queues[t], y)
<1> DEFINE x == Functor(a, c)
           b == batch'
<1>1. batch[t] # <<>> /\ Head(batch[t]) = x /\ b = [batch EXCEPT ![t] = Tail(batch[t])]
  BY Zenon DEF Runs
<1>2. batch[t] \in Seq(Functors) BY Zenon DEF AllQueues
<1>3. Tail(batch[t]) \in Seq(Functors) BY <1>1, <1>2, SMTT(30)
<1>4. b \in AllQueues /\ b[t] = Tail(batch[t]) /\ \A u \in Threads : u # t => b[u] = batch[u]
  BY <1>1, <1>3, Zenon DEF AllQueues
<1> HIDE DEF x, b
<1>5. Queues \in AllQueues /\ \A u \in Threads : Queues[u] = batch[u] \o todo[u]
  BY BothTyped, Zenon DEF Queues
<1>6. Both(b, todo) \in AllQueues /\ \A u \in Threads : Both(b, todo)[u] = b[u] \o todo[u]
  BY <1>4, BothTyped, Zenon
<1>7. /\ Tail(batch[t]) \o todo[t] = Tail(batch[t] \o todo[t]) /\ batch[t] \o todo[t] # <<>>
      /\ Head(batch[t] \o todo[t]) = x
  BY <1>1, <1>2, QueueTail, Zenon DEF AllQueues
<1>8. Queues[t] # <<>> /\ Head(Queues[t]) = x BY <1>5, <1>7, Zenon
<1>9. /\ Moves(Queues, Popped(Queues, t), {<<t, x>>}, {})
      /\ x \in Functors /\ Holds(Queues[t], x)
      /\ \A y : Before(Queues[t], y, x) => ~Holds(Queues[t], y)
  BY <1>5, <1>8, PopMoves, Zenon
<1>10. \A u \in Threads : Both(b, todo)[u] = Popped(Queues, t)[u]
  BY <1>4, <1>5, <1>6, <1>7, Zenon DEF Popped, AllQueues
<1>11. Popped(Queues, t) \in AllQueues BY <1>9, Zenon DEF Moves
<1>12. Both(b, todo) = Popped(Queues, t) BY <1>6, <1>10, <1>11, SMTT(30) DEF AllQueues
<1> QED BY <1>4, <1>9, <1>12, Zenon DEF x, b

-----------------------------------------------------------------------------
(* The invariant.                                                           *)

(* The loop a functor of c belongs to, and whether it is pending there.     *)
Place(a, c)   == IF a \in BaseOps THEN Base ELSE loopOf[c]
Pending(a, c) == Holds(Queues[Place(a, c)], Functor(a, c))
Unique(a, c)  == Once(Queues[Place(a, c)], Functor(a, c))
StartsFirst(c) == Before(Queues[loopOf[c]], Functor("established", c), Functor("forceClose", c))
Finishing == Holds(Queues[Base], Functor("finalize", NoConn))

Stored(c) == connections[fd[c]] = c

NetTypes ==
  /\ stage \in [Conns -> {"unused", "accepted", "created", "refused"}]
  /\ fd \in [Conns -> Fds] /\ loopOf \in [Conns -> Loops]
  /\ connected \subseteq Conns /\ channel \subseteq Conns /\ closed \subseteq Conns
  /\ connections \in [Fds -> Conns \cup {NoConn}] /\ session \in [Fds -> Conns \cup {NoConn}]
  /\ creating \in [Loops -> Conns \cup {NoConn}] /\ leaving \in Conns \cup {NoConn}
  /\ stopping \in BOOLEAN
QueueTypes == todo \in AllQueues /\ batch \in AllQueues
LifeTypes  == NetTypes /\ QueueTypes

(* A functor is posted only to the loop it belongs to.                      *)
Fits(t, x) ==
  /\ x.op \in BaseOps <=> t = Base
  /\ x.conn = NoConn <=> x.op = "finalize"
  /\ t # Base => loopOf[x.conn] = t
Places == \A t \in Threads : \A x \in Functors : Holds(Queues[t], x) => Fits(t, x)

(* The stages of a connection, and what can be pending in each.             *)
Creation(c) ==
  /\ Pending("create", c) => stage[c] = "accepted"
  /\ \A a \in Ops \ {"create", "finalize"} : Pending(a, c) => stage[c] = "created"
  /\ \A l \in Loops : creating[l] = c =>
       loopOf[c] = l /\ stage[c] = "accepted" /\ ~Pending("create", c)
  /\ c \in connected \cup channel \cup closed => stage[c] = "created"

Single(c) ==
  /\ \A a \in {"create", "register", "remove", "established"} : Unique(a, c)
  /\ StartsFirst(c)

(* Registration, registered, removal, destruction.                          *)
Phases(c) ==
  /\ Pending("register", c) =>
       /\ c \in connected /\ ~Stored(c) /\ ~Pending("message", c)
       /\ ~Pending("established", c) /\ ~Pending("forceClose", c)
  /\ Stored(c) => c \notin closed /\ ~Pending("destroyed", c)
  /\ Pending("remove", c) => c \notin connected \cup closed /\ ~Pending("destroyed", c)
  /\ Pending("established", c) => c \in connected \ channel /\ Stored(c)
  /\ c \in channel => c \in connected /\ Stored(c)
  /\ c \in connected =>
       /\ c \notin closed /\ ~Pending("destroyed", c)
       /\ stopping \/ Stored(c) \/ Pending("register", c)

ConnLife(c) == Creation(c) /\ Single(c) /\ Phases(c)

(* Connections that are known by their descriptor have different ones.      *)
Alive(c) == stage[c] = "accepted" \/ c \in connected \/ Stored(c) \/ Pending("remove", c)
Owners ==
  /\ \A f \in Fds : connections[f] # NoConn =>
       fd[connections[f]] = f /\ stage[connections[f]] = "created"
  /\ \A c, d \in Conns : Alive(c) /\ Alive(d) /\ fd[c] = fd[d] => c = d

(* The loops end only after stop().                                         *)
Ending == Finishing \/ joining \/ quit # {} => stopping

(* A session is kept under the descriptor of its connection.                *)
SessionInv ==
  /\ SessionsFollowConnections
  /\ \A f \in Fds : session[f] # NoConn => fd[session[f]] = f /\ stage[session[f]] = "created"

LifeInv ==
  /\ LifeTypes /\ Places /\ Owners /\ Ending /\ SessionInv
  /\ \A c \in Conns : ConnLife(c)

(* A step as a connection sees it.                                          *)
Effect(gone, new) ==
  /\ \A d \in Conns : \A a \in Ops :
       /\ Pending(a, d)' => Pending(a, d) \/ Functor(a, d) \in new
       /\ (Pending(a, d) /\ Functor(a, d) \notin gone) \/ Functor(a, d) \in new => Pending(a, d)'
       /\ Functor(a, d) \in gone \ new /\ Unique(a, d) => ~Pending(a, d)'
       /\ Unique(a, d) /\ (Functor(a, d) \in new => ~Pending(a, d)) => Unique(a, d)'
  /\ \A d \in Conns :
       /\ StartsFirst(d)
       /\ Functor("established", d) \in new => ~Pending("forceClose", d) /\ Functor("forceClose", d) \notin new
       => StartsFirst(d)'
  /\ Finishing' => Finishing \/ Functor("finalize", NoConn) \in new

-----------------------------------------------------------------------------
(* What a change of the queues means for the connections.                   *)

LEMMA PlaceIsThread ==
  ASSUME LifeTypes, NEW d \in Conns, NEW a
  PROVE  Place(a, d) \in Threads /\ loopOf[d] \in Loops /\ loopOf[d] # Base /\ Base \in Threads
BY LifecycleAssumption, SMTT(30) DEF LifeTypes, NetTypes, Place, Threads

LEMMA QueueStep ==
  ASSUME LifeTypes, Places, UNCHANGED loopOf, NEW G, NEW N, NEW gone, NEW new,
         Moves(Queues, Queues', G, N),
         \A t, x : <<t, x>> \in N => x \in new /\ Fits(t, x),
         \A t, x : <<t, x>> \in G => x \in gone,
         \A d \in Conns, a \in Ops :
           /\ Functor(a, d) \in gone => <<Place(a, d), Functor(a, d)>> \in G
           /\ Functor(a, d) \in new => <<Place(a, d), Functor(a, d)>> \in N
  PROVE  Places' /\ Effect(gone, new)
<1> DEFINE R == Queues'
<1>1. /\ R \in AllQueues
      /\ \A t \in Threads : \A y :
           /\ Holds(R[t], y) => Holds(Queues[t], y) \/ <<t, y>> \in N
           /\ (Holds(Queues[t], y) /\ <<t, y>> \notin G) \/ <<t, y>> \in N => Holds(R[t], y)
           /\ <<t, y>> \in G \ N /\ Once(Queues[t], y) => ~Holds(R[t], y)
           /\ Once(Queues[t], y) /\ (<<t, y>> \in N => ~Holds(Queues[t], y)) => Once(R[t], y)
           /\ \A z : /\ Before(Queues[t], y, z) /\ y # z
                     /\ <<t, y>> \in N => ~Holds(Queues[t], z) /\ <<t, z>> \notin N
                     => Before(R[t], y, z)
  BY Zenon DEF Moves
<1>2. Places'
  <2> SUFFICES ASSUME NEW t \in Threads, NEW x \in Functors, Holds(R[t], x) PROVE Fits(t, x)'
    BY Zenon DEF Places, Threads, Functors, Ops, BaseOps, LoopOps
  <2>1. Fits(t, x) BY <1>1, Zenon DEF Places
  <2> QED BY <2>1, Zenon DEF Fits, BaseOps
<1>3. \A a, d : Place(a, d)' = Place(a, d) BY Zenon DEF Place, BaseOps
<1> HIDE DEF R
<1>4. ASSUME NEW d \in Conns, NEW a \in Ops
      PROVE  /\ Pending(a, d)' => Pending(a, d) \/ Functor(a, d) \in new
             /\ (Pending(a, d) /\ Functor(a, d) \notin gone) \/ Functor(a, d) \in new => Pending(a, d)'
             /\ Functor(a, d) \in gone \ new /\ Unique(a, d) => ~Pending(a, d)'
             /\ Unique(a, d) /\ (Functor(a, d) \in new => ~Pending(a, d)) => Unique(a, d)'
  <2> DEFINE t == Place(a, d)
             x == Functor(a, d)
  <2>1. t \in Threads BY PlaceIsThread, Zenon
  <2>2. /\ Pending(a, d) <=> Holds(Queues[t], x)
        /\ Pending(a, d)' <=> Holds(R[t], x)
        /\ Unique(a, d) <=> Once(Queues[t], x)
        /\ Unique(a, d)' <=> Once(R[t], x)
    BY <1>3, Zenon DEF Pending, Unique, R, Functor
  <2>3. (x \in new <=> <<t, x>> \in N) /\ (x \in gone <=> <<t, x>> \in G) BY Zenon
  <2> HIDE DEF t, x
  <2>4. /\ Holds(R[t], x) => Holds(Queues[t], x) \/ <<t, x>> \in N
        /\ (Holds(Queues[t], x) /\ <<t, x>> \notin G) \/ <<t, x>> \in N => Holds(R[t], x)
        /\ <<t, x>> \in G \ N /\ Once(Queues[t], x) => ~Holds(R[t], x)
        /\ Once(Queues[t], x) /\ (<<t, x>> \in N => ~Holds(Queues[t], x)) => Once(R[t], x)
    BY <1>1, <2>1, Zenon
  <2>5. /\ Pending(a, d)' => Pending(a, d) \/ x \in new
        /\ (Pending(a, d) /\ x \notin gone) \/ x \in new => Pending(a, d)'
        /\ x \in gone \ new /\ Unique(a, d) => ~Pending(a, d)'
        /\ Unique(a, d) /\ (x \in new => ~Pending(a, d)) => Unique(a, d)'
    BY <2>2, <2>3, <2>4, Zenon
  <2> QED BY <2>5, Zenon DEF x
<1>5. ASSUME NEW d \in Conns, StartsFirst(d),
             Functor("established", d) \in new =>
               ~Pending("forceClose", d) /\ Functor("forceClose", d) \notin new
      PROVE  StartsFirst(d)'
  <2> DEFINE t == loopOf[d]
             x == Functor("established", d)
             y == Functor("forceClose", d)
  <2>1. t \in Threads BY PlaceIsThread, Zenon DEF Threads
  <2>2. /\ StartsFirst(d) <=> Before(Queues[t], x, y)
        /\ StartsFirst(d)' <=> Before(R[t], x, y)
        /\ Pending("forceClose", d) <=> Holds(Queues[t], y)
    BY Zenon DEF StartsFirst, Pending, R, Functor, Place, BaseOps
  <2>3. x # y BY FunctorFields, SMTT(30)
  <2>4. <<t, x>> \in N => x \in new BY Zenon
  <2>5. <<t, y>> \in N => y \in new BY Zenon
  <2> HIDE DEF t
  <2>6. Before(R[t], x, y)
    <3> HIDE DEF x, y
    <3>1. x \in new => ~Holds(Queues[t], y) /\ y \notin new BY <1>5, <2>2, Zenon DEF x, y
    <3> QED BY <1>1, <1>5, <2>1, <2>2, <2>3, <2>4, <2>5, <3>1, Zenon
  <2> QED BY <2>2, <2>6, Zenon
<1>6. Finishing' => Finishing \/ Functor("finalize", NoConn) \in new
  BY <1>1, Zenon DEF Finishing, R, Functor, Threads
<1> QED BY <1>2, <1>4, <1>5, <1>6, Zenon DEF Effect

(* A functor runs, and posts nothing, one functor or two.                   *)
LEMMA RunEffect ==
  ASSUME LifeTypes, Places, UNCHANGED loopOf, NEW t \in Threads, NEW a, NEW c, Runs(t, a, c),
         todo' \in AllQueues, NEW N, NEW new,
         Moves(Both(batch', todo), Both(batch', todo'), {}, N),
         \A u, x : <<u, x>> \in N => x \in new /\ Fits(u, x),
         \A d \in Conns, b \in Ops : Functor(b, d) \in new => <<Place(b, d), Functor(b, d)>> \in N
  PROVE  /\ Places' /\ Effect({Functor(a, c)}, new)
         /\ batch' \in AllQueues /\ Functor(a, c) \in Functors /\ Fits(t, Functor(a, c))
         /\ Holds(Queues[t], Functor(a, c))
         /\ \A y : Before(Queues[t], y, Functor(a, c)) => ~Holds(Queues[t], y)
<1> DEFINE x == Functor(a, c)
<1>1. /\ batch' \in AllQueues /\ x \in Functors /\ Holds(Queues[t], x)
      /\ Moves(Queues, Both(batch', todo), {<<t, x>>}, {})
      /\ \A y : Before(Queues[t], y, x) => ~Holds(Queues[t], y)
  BY RunPops, Zenon DEF LifeTypes, QueueTypes
<1>2. {} \cap N = {} /\ {} \cup N = N BY Zenon
<1>3. Moves(Queues, Queues', {<<t, x>>}, N) BY <1>1, <1>2, MovesTwice, SMTT(30) DEF Queues
<1>4. Fits(t, x) BY <1>1, Zenon DEF Places
<1>5. \A d \in Conns, b \in Ops : Functor(b, d) \in {x} => <<Place(b, d), Functor(b, d)>> \in {<<t, x>>}
  <2> SUFFICES ASSUME NEW d \in Conns, NEW b \in Ops, Functor(b, d) = x PROVE Place(b, d) = t
    BY Zenon
  <2>1. x.op = b /\ x.conn = d BY FunctorFields, SMTT(30)
  <2> QED BY <1>4, <2>1, Zenon DEF Fits, Place
<1>6. \A u, y : <<u, y>> \in {<<t, x>>} => y \in {x} BY Zenon
<1>7. Places' /\ Effect({x}, new) BY <1>3, <1>5, <1>6, QueueStep, Zenon
<1> QED BY <1>1, <1>4, <1>7, Zenon

-----------------------------------------------------------------------------
(* The connections a step is not about.                                     *)

SameConn(d) ==
  /\ stage'[d] = stage[d] /\ fd'[d] = fd[d] /\ loopOf'[d] = loopOf[d]
  /\ d \in connected' <=> d \in connected
  /\ d \in channel' <=> d \in channel
  /\ d \in closed' <=> d \in closed
  /\ Stored(d)' <=> Stored(d)
  /\ \A l \in Loops : creating'[l] = d => creating[l] = d

(* What a connection sees of the queues: the functors X of it ran, the      *)
(* functors Y of it were posted.                                            *)
Seen(d, X, Y) ==
  /\ \A a \in Ops :
       /\ Pending(a, d)' => Pending(a, d) \/ a \in Y
       /\ (Pending(a, d) /\ a \notin X) \/ a \in Y => Pending(a, d)'
       /\ a \in X \ Y /\ Unique(a, d) => ~Pending(a, d)'
       /\ Unique(a, d) /\ (a \in Y => ~Pending(a, d)) => Unique(a, d)'
  /\ StartsFirst(d) /\ ("established" \in Y => ~Pending("forceClose", d) /\ "forceClose" \notin Y)
       => StartsFirst(d)'

LEMMA EffectSeen ==
  ASSUME NEW gone, NEW new, Effect(gone, new), NEW d \in Conns, NEW X, NEW Y,
         \A a \in Ops : /\ Functor(a, d) \in gone <=> a \in X
                        /\ Functor(a, d) \in new <=> a \in Y
  PROVE  Seen(d, X, Y)
<1>1. ASSUME NEW a \in Ops
      PROVE  /\ Pending(a, d)' => Pending(a, d) \/ a \in Y
             /\ (Pending(a, d) /\ a \notin X) \/ a \in Y => Pending(a, d)'
             /\ a \in X \ Y /\ Unique(a, d) => ~Pending(a, d)'
             /\ Unique(a, d) /\ (a \in Y => ~Pending(a, d)) => Unique(a, d)'
  <2>1. /\ Functor(a, d) \in gone <=> a \in X
        /\ Functor(a, d) \in new <=> a \in Y
    BY Zenon
  <2> DEFINE x == Functor(a, d)
  <2>2. /\ Pending(a, d)' => Pending(a, d) \/ x \in new
        /\ (Pending(a, d) /\ x \notin gone) \/ x \in new => Pending(a, d)'
        /\ x \in gone \ new /\ Unique(a, d) => ~Pending(a, d)'
        /\ Unique(a, d) /\ (x \in new => ~Pending(a, d)) => Unique(a, d)'
    BY Zenon DEF Effect
  <2> HIDE DEF x
  <2> QED BY <2>1, <2>2, Zenon DEF x
<1>2. "established" \in Ops /\ "forceClose" \in Ops BY Zenon DEF Ops, LoopOps
<1>3. StartsFirst(d) /\ ("established" \in Y => ~Pending("forceClose", d) /\ "forceClose" \notin Y)
       => StartsFirst(d)'
  BY <1>2, Zenon DEF Effect
<1> QED BY <1>1, <1>3, Zenon DEF Seen

LEMMA QuietConn ==
  ASSUME NEW d \in Conns, ConnLife(d), Seen(d, {}, {}), SameConn(d), stopping => stopping'
  PROVE  ConnLife(d)' /\ (Alive(d)' => Alive(d))
<1>1. \A a \in Ops : (Pending(a, d)' <=> Pending(a, d)) /\ (Unique(a, d) => Unique(a, d)')
  BY Zenon DEF Seen
<1>2. StartsFirst(d) => StartsFirst(d)' BY Zenon DEF Seen
<1>3. /\ stage'[d] = stage[d] /\ fd'[d] = fd[d] /\ loopOf'[d] = loopOf[d]
      /\ d \in connected' <=> d \in connected
      /\ d \in channel' <=> d \in channel
      /\ d \in closed' <=> d \in closed
      /\ Stored(d)' <=> Stored(d)
      /\ \A l \in Loops : creating'[l] = d => creating[l] = d
  BY Zenon DEF SameConn
<1>4. \A a \in {"create", "established", "forceClose", "destroyed", "register", "remove", "message",
                "finalize"} :
        (Pending(a, d)' <=> Pending(a, d)) /\ (Unique(a, d) => Unique(a, d)')
  BY <1>1, Zenon DEF Ops, BaseOps, LoopOps
<1>5. Creation(d)' BY <1>3, <1>4, Zenon DEF ConnLife, Creation, Ops, BaseOps, LoopOps
<1>6. Single(d)' BY <1>2, <1>4, Zenon DEF ConnLife, Single
<1>7. Phases(d)' BY <1>3, <1>4, Zenon DEF ConnLife, Phases
<1>8. Alive(d)' => Alive(d) BY <1>3, <1>4, Zenon DEF Alive
<1> QED BY <1>5, <1>6, <1>7, <1>8, Zenon DEF ConnLife

(* A step about the connection c.                                           *)
LEMMA OneConn ==
  ASSUME LifeInv, NEW c \in Conns, \A d \in Conns : d # c => SameConn(d) /\ Seen(d, {}, {}),
         UNCHANGED fd, stopping => stopping',
         LifeTypes', Places', Ending', SessionInv',
         ConnLife(c)', Alive(c)' => Alive(c),
         \A f \in Fds : connections'[f] # NoConn =>
           fd[connections'[f]] = f /\ stage'[connections'[f]] = "created"
  PROVE  LifeInv'
<1>1. \A d \in Conns : ConnLife(d) BY Zenon DEF LifeInv
<1>2. \A d \in Conns : ConnLife(d)' /\ (Alive(d)' => Alive(d))
  <2> SUFFICES ASSUME NEW d \in Conns PROVE ConnLife(d)' /\ (Alive(d)' => Alive(d)) BY Zenon
  <2>1. CASE d = c BY <2>1, Zenon
  <2>2. CASE d # c BY <1>1, <2>2, QuietConn, Zenon
  <2> QED BY <2>1, <2>2, Zenon
<1>3. Owners'
  <2>1. \A x, d \in Conns : Alive(x) /\ Alive(d) /\ fd[x] = fd[d] => x = d BY Zenon DEF LifeInv, Owners
  <2>2. \A x, d \in Conns : Alive(x)' /\ Alive(d)' /\ fd'[x] = fd'[d] => x = d BY <1>2, <2>1, Zenon
  <2> QED BY <2>2, Zenon DEF Owners
<1> QED BY <1>2, <1>3, Zenon DEF LifeInv

(* A step that no connection sees.                                          *)
LEMMA NoConnSees ==
  ASSUME LifeInv, \A d \in Conns : Seen(d, {}, {}),
         UNCHANGED <<stage, fd, loopOf, connected, channel, closed, connections, creating>>,
         stopping => stopping', LifeTypes', Places', Ending', SessionInv'
  PROVE  LifeInv'
<1>1. \A d \in Conns : ConnLife(d) BY Zenon DEF LifeInv
<1>2. \A d \in Conns : ConnLife(d)' /\ (Alive(d)' => Alive(d))
  <2> SUFFICES ASSUME NEW d \in Conns PROVE ConnLife(d)' /\ (Alive(d)' => Alive(d)) BY Zenon
  <2>1. SameConn(d) BY Zenon DEF SameConn, Stored
  <2> QED BY <1>1, <2>1, QuietConn, Zenon
<1>3. Owners'
  <2>1. \A x, d \in Conns : Alive(x) /\ Alive(d) /\ fd[x] = fd[d] => x = d BY Zenon DEF LifeInv, Owners
  <2>2. \A x, d \in Conns : Alive(x)' /\ Alive(d)' /\ fd'[x] = fd'[d] => x = d BY <1>2, <2>1, Zenon
  <2>3. \A f \in Fds : connections[f] # NoConn =>
          fd[connections[f]] = f /\ stage[connections[f]] = "created"
    BY Zenon DEF LifeInv, Owners
  <2> QED BY <2>2, <2>3, Zenon DEF Owners
<1> QED BY <1>2, <1>3, Zenon DEF LifeInv

-----------------------------------------------------------------------------
(* The steps of one connection, as its queues see them.                     *)

(* The functor a of c runs; the functors Y of c are posted to where they    *)
(* belong, and perhaps the end of the server.                               *)
LEMMA ConnRuns ==
  ASSUME LifeInv, NEW t \in Threads, NEW a \in Ops, NEW c \in Conns, Runs(t, a, c), UNCHANGED loopOf,
         NEW q1, NEW Y,
         \/ q1 = todo /\ Y = {}
         \/ \E b \in Ops \ {"finalize"} : q1 = Post(todo, Place(b, c), b, c) /\ Y = {b},
         NEW fin \in BOOLEAN,
         todo' = IF fin THEN Post(q1, Base, "finalize", NoConn) ELSE q1
  PROVE  /\ Places' /\ todo' \in AllQueues /\ batch' \in AllQueues
         /\ Seen(c, {a}, Y) /\ \A d \in Conns : d # c => Seen(d, {}, {})
         /\ Finishing' => Finishing \/ fin
         /\ t = Place(a, c) /\ Pending(a, c) /\ a # "finalize"
         /\ a = "forceClose" /\ StartsFirst(c) => ~Pending("established", c)
<1> DEFINE N1 == {<<Place(b, c), Functor(b, c)>> : b \in Y}
           N2 == IF fin THEN {<<Base, Functor("finalize", NoConn)>>} ELSE {}
           new == {Functor(b, c) : b \in Y} \cup IF fin THEN {Functor("finalize", NoConn)} ELSE {}
<1>1. LifeTypes /\ Places /\ todo \in AllQueues /\ batch \in AllQueues BY Zenon DEF LifeInv, LifeTypes, QueueTypes
<1>2. batch' \in AllQueues BY <1>1, RunPops, Zenon
<1>3. q1 \in AllQueues /\ Moves(Both(batch', todo), Both(batch', q1), {}, N1)
  <2>1. CASE q1 = todo /\ Y = {}
    <3>1. N1 = {} BY <2>1, Zenon
    <3> QED BY <1>1, <1>2, <2>1, <3>1, BothTyped, MovesNot, Zenon
  <2>2. CASE \E b \in Ops \ {"finalize"} : q1 = Post(todo, Place(b, c), b, c) /\ Y = {b}
    <3>1. PICK b \in Ops \ {"finalize"} : q1 = Post(todo, Place(b, c), b, c) /\ Y = {b} BY <2>2, Zenon
    <3>2. N1 = {<<Place(b, c), Functor(b, c)>>} BY <3>1, Zenon
    <3>3. Place(b, c) \in Threads BY <1>1, PlaceIsThread, Zenon
    <3> QED BY <1>1, <1>2, <3>1, <3>2, <3>3, PostPushes, SMTT(30)
  <2> QED BY <2>1, <2>2, Zenon
<1>4. todo' \in AllQueues /\ Moves(Both(batch', q1), Both(batch', todo'), {}, N2)
  <2>1. CASE fin
    <3>1. todo' = Post(q1, Base, "finalize", NoConn) /\ N2 = {<<Base, Functor("finalize", NoConn)>>}
      BY <2>1, Zenon
    <3>2. Base \in Threads /\ "finalize" \in Ops /\ NoConn \in Conns \cup {NoConn}
      BY Zenon DEF Threads, Ops, BaseOps
    <3> QED BY <1>2, <1>3, <3>1, <3>2, PostPushes, SMTT(30)
  <2>2. CASE ~fin
    <3>1. todo' = q1 /\ N2 = {} BY <2>2, Zenon
    <3> QED BY <1>2, <1>3, <3>1, BothTyped, MovesNot, Zenon
  <2> QED BY <2>1, <2>2, Zenon
<1>5. Y \subseteq Ops \ {"finalize"} BY Zenon
<1>6. NoConn \notin Conns BY LifecycleAssumption, Zenon
<1>7. N1 \cap N2 = {}
  <2>1. \A b : Functor(b, c) # Functor("finalize", NoConn) BY <1>6, FunctorFields, SMTT(30)
  <2> QED BY <2>1, SMTT(30)
<1> HIDE DEF N1, N2, new
<1>8. Moves(Both(batch', todo), Both(batch', todo'), {}, N1 \cup N2)
  BY <1>3, <1>4, <1>7, MovesTwice, Zenon
<1>9. ASSUME NEW u, NEW x, <<u, x>> \in N1 \cup N2 PROVE x \in new /\ Fits(u, x)
  <2>1. CASE <<u, x>> \in N1
    <3>1. PICK b \in Y : u = Place(b, c) /\ x = Functor(b, c) BY <2>1, Zenon DEF N1
    <3>2. x.op = b /\ x.conn = c /\ b # "finalize" /\ b \in Ops BY <1>5, <3>1, FunctorFields, Zenon
    <3>3. loopOf[c] # Base BY <1>1, PlaceIsThread, Zenon
    <3>4. Fits(u, x) BY <1>6, <3>1, <3>2, <3>3, Zenon DEF Fits, Place
    <3> QED BY <3>1, <3>4, Zenon DEF new
  <2>2. CASE <<u, x>> \in N2
    <3>1. fin /\ u = Base /\ x = Functor("finalize", NoConn) BY <2>2, Zenon DEF N2
    <3>2. x.op = "finalize" /\ x.conn = NoConn BY <3>1, FunctorFields, Zenon
    <3>3. Fits(u, x) BY <3>1, <3>2, Zenon DEF Fits, BaseOps
    <3> QED BY <3>1, <3>3, Zenon DEF new
  <2> QED BY <1>9, <2>1, <2>2, Zenon
<1>11. \A d \in Conns, b \in Ops : /\ Functor(b, d) \in {Functor(a, c)} <=> d = c /\ b = a
                                   /\ Functor(b, d) \in new <=> d = c /\ b \in Y
  <2> SUFFICES ASSUME NEW d \in Conns, NEW b \in Ops
               PROVE  /\ Functor(b, d) = Functor(a, c) <=> d = c /\ b = a
                      /\ Functor(b, d) \in new <=> d = c /\ b \in Y
    BY Zenon
  <2>1. \A e, g : Functor(b, d) = Functor(e, g) <=> b = e /\ d = g BY FunctorFields
  <2>2. Functor(b, d) # Functor("finalize", NoConn) BY <1>6, <2>1, Zenon
  <2>3. Functor(b, d) \in new <=> \E e \in Y : Functor(b, d) = Functor(e, c) BY <2>2, Zenon DEF new
  <2> QED BY <2>1, <2>3, Zenon
<1>9a. ASSUME NEW d \in Conns, NEW b \in Ops, Functor(b, d) \in new
       PROVE  <<Place(b, d), Functor(b, d)>> \in N1 \cup N2
  <2>1. d = c /\ b \in Y BY <1>9a, <1>11, Zenon
  <2> QED BY <2>1, Zenon DEF N1
<1>10. /\ Places' /\ Effect({Functor(a, c)}, new) /\ Fits(t, Functor(a, c))
       /\ Holds(Queues[t], Functor(a, c))
       /\ \A y : Before(Queues[t], y, Functor(a, c)) => ~Holds(Queues[t], y)
  BY <1>1, <1>4, <1>8, <1>9, <1>9a, RunEffect, Zenon
<1>12. Seen(c, {a}, Y)
  <2>1. \A b \in Ops : /\ Functor(b, c) \in {Functor(a, c)} <=> b \in {a}
                       /\ Functor(b, c) \in new <=> b \in Y
    BY <1>11, Zenon
  <2> QED BY <1>10, <2>1, EffectSeen, Zenon
<1>13. ASSUME NEW d \in Conns, d # c PROVE Seen(d, {}, {})
  <2>1. \A b \in Ops : /\ Functor(b, d) \in {Functor(a, c)} <=> b \in {}
                       /\ Functor(b, d) \in new <=> b \in {}
    BY <1>11, <1>13, Zenon
  <2> QED BY <1>10, <2>1, EffectSeen, Zenon
<1>14. Finishing' => Finishing \/ fin
  <2>1. \A b : Functor(b, c) # Functor("finalize", NoConn) BY <1>6, FunctorFields, SMTT(30)
  <2>2. Functor("finalize", NoConn) \in new => fin BY <2>1, Zenon DEF new
  <2> QED BY <1>10, <2>2, Zenon DEF Effect
<1>15. t = Place(a, c) /\ a # "finalize"
  <2>1. Functor(a, c).op = a /\ Functor(a, c).conn = c BY FunctorFields, Zenon
  <2> QED BY <1>6, <1>10, <2>1, Zenon DEF Fits, Place
<1>16. Pending(a, c) BY <1>10, <1>15, Zenon DEF Pending
<1>17. a = "forceClose" /\ StartsFirst(c) => ~Pending("established", c)
  BY <1>10, <1>15, Zenon DEF StartsFirst, Pending, Place, BaseOps
<1> QED BY <1>2, <1>4, <1>10, <1>12, <1>13, <1>14, <1>15, <1>16, <1>17, Zenon

LEMMA RunsAlone ==
  ASSUME LifeInv, NEW t \in Threads, NEW a \in Ops, NEW c \in Conns, Runs(t, a, c),
         UNCHANGED <<loopOf, todo>>
  PROVE  /\ Places' /\ todo' \in AllQueues /\ batch' \in AllQueues
         /\ Seen(c, {a}, {}) /\ \A d \in Conns : d # c => Seen(d, {}, {})
         /\ Finishing' => Finishing
         /\ t = Place(a, c) /\ Pending(a, c)
<1>1. todo' = IF FALSE THEN Post(todo, Base, "finalize", NoConn) ELSE todo BY Zenon
<1> QED BY <1>1, ConnRuns, Zenon

LEMMA RunsPosts ==
  ASSUME LifeInv, NEW t \in Threads, NEW a \in Ops, NEW c \in Conns, Runs(t, a, c), UNCHANGED loopOf,
         NEW b \in Ops \ {"finalize"}, todo' = Post(todo, Place(b, c), b, c)
  PROVE  /\ Places' /\ todo' \in AllQueues /\ batch' \in AllQueues
         /\ Seen(c, {a}, {b}) /\ \A d \in Conns : d # c => Seen(d, {}, {})
         /\ Finishing' => Finishing
         /\ t = Place(a, c) /\ Pending(a, c)
         /\ a = "forceClose" /\ StartsFirst(c) => ~Pending("established", c)
<1> DEFINE q1 == Post(todo, Place(b, c), b, c)
<1>1. todo' = IF FALSE THEN Post(q1, Base, "finalize", NoConn) ELSE q1 BY Zenon
<1>2. \E e \in Ops \ {"finalize"} : q1 = Post(todo, Place(e, c), e, c) /\ {b} = {e} BY Zenon
<1> HIDE DEF q1
<1> QED BY <1>1, <1>2, ConnRuns, Zenon

(* A functor of c is posted while no functor runs.                          *)
LEMMA ConnPosts ==
  ASSUME LifeInv, NEW b \in Ops \ {"finalize"}, NEW c \in Conns, UNCHANGED <<batch, loopOf>>,
         todo' = Post(todo, Place(b, c), b, c)
  PROVE  /\ Places' /\ todo' \in AllQueues /\ batch' \in AllQueues
         /\ Seen(c, {}, {b}) /\ \A d \in Conns : d # c => Seen(d, {}, {})
         /\ Finishing' => Finishing
<1> DEFINE u == Place(b, c)
           x == Functor(b, c)
<1>1. LifeTypes /\ Places /\ todo \in AllQueues /\ batch \in AllQueues BY Zenon DEF LifeInv, LifeTypes, QueueTypes
<1>2. u \in Threads /\ loopOf[c] # Base BY <1>1, PlaceIsThread, Zenon
<1>3. todo' \in AllQueues /\ Moves(Queues, Queues', {}, {<<u, x>>})
  BY <1>1, <1>2, PostPushes, Zenon DEF Queues
<1>4. NoConn \notin Conns BY LifecycleAssumption, Zenon
<1>5. x.op = b /\ x.conn = c BY FunctorFields, Zenon
<1>6. Fits(u, x) BY <1>2, <1>4, <1>5, Zenon DEF Fits, Place
<1> HIDE DEF u, x
<1>7. \A v, y : <<v, y>> \in {<<u, x>>} => y \in {x} /\ Fits(v, y) BY <1>6, Zenon
<1>8. \A d \in Conns, e \in Ops : Functor(e, d) \in {x} <=> d = c /\ e = b BY FunctorFields, SMTT(30) DEF x
<1>9. Places' /\ Effect({}, {x})
  <2>1. \A d \in Conns, e \in Ops : Functor(e, d) \in {x} => <<Place(e, d), Functor(e, d)>> \in {<<u, x>>}
    BY <1>8, Zenon DEF u
  <2> QED BY <1>1, <1>3, <1>7, <2>1, QueueStep, Zenon
<1>10. Seen(c, {}, {b})
  <2>1. \A e \in Ops : (Functor(e, c) \in {} <=> e \in {}) /\ (Functor(e, c) \in {x} <=> e \in {b})
    BY <1>8, Zenon
  <2> QED BY <1>9, <2>1, EffectSeen, SMTT(30)
<1>11. ASSUME NEW d \in Conns, d # c PROVE Seen(d, {}, {})
  <2>1. \A e \in Ops : (Functor(e, d) \in {} <=> e \in {}) /\ (Functor(e, d) \in {x} <=> e \in {})
    BY <1>8, <1>11, Zenon
  <2> QED BY <1>9, <2>1, EffectSeen, SMTT(30)
<1>12. Functor("finalize", NoConn) \notin {x} BY <1>4, FunctorFields, SMTT(30) DEF x
<1>13. Finishing' => Finishing BY <1>9, <1>12, Zenon DEF Effect
<1> QED BY <1>1, <1>3, <1>9, <1>10, <1>11, <1>13, Zenon

-----------------------------------------------------------------------------
(* The steps of the io loops.                                               *)

LEMMA InvOf ==
  ASSUME LifeInv, NEW c \in Conns
  PROVE  /\ Creation(c) /\ Single(c) /\ Phases(c) /\ NoConn \notin Conns
         /\ stage[c] \in {"unused", "accepted", "created", "refused"}
         /\ fd[c] \in Fds /\ loopOf[c] \in Loops /\ loopOf[c] # Base
         /\ Loops \subseteq Threads /\ Base \in Threads /\ Base \notin Loops
BY LifecycleAssumption, SMTT(30) DEF LifeInv, ConnLife, LifeTypes, NetTypes, Threads

LEMMA TypesAfter ==
  ASSUME NetTypes', todo' \in AllQueues, batch' \in AllQueues PROVE LifeTypes'
BY Zenon DEF LifeTypes, QueueTypes, AllQueues, Functors, Ops, BaseOps, LoopOps, Threads

(* A step on a connection not yet created touches the owner of no session.  *)
LEMMA SessionsStay ==
  ASSUME LifeInv, NEW c \in Conns, stage[c] # "created",
         UNCHANGED <<connections, session, leaving, missed>>,
         \A d \in Conns : d # c => stage'[d] = stage[d] /\ fd'[d] = fd[d]
  PROVE  SessionInv'
<1>1. ASSUME NEW f \in Fds, session[f] # NoConn
      PROVE  fd'[session[f]] = f /\ stage'[session[f]] = "created"
  <2>1. fd[session[f]] = f /\ stage[session[f]] = "created" BY <1>1, Zenon DEF LifeInv, SessionInv
  <2>2. session[f] \in Conns BY <1>1, Zenon DEF LifeInv, LifeTypes, NetTypes
  <2>3. session[f] # c BY <2>1, Zenon
  <2> QED BY <2>1, <2>2, <2>3, Zenon
<1>2. SessionsFollowConnections' BY Zenon DEF LifeInv, SessionInv, SessionsFollowConnections
<1> QED BY <1>1, <1>2, Zenon DEF SessionInv

LEMMA CreateCheckKeeps ==
  ASSUME LifeInv, NEW l \in Loops, NEW c \in Conns, CreateCheck(l, c)
  PROVE  LifeInv'
<1>1. /\ Creation(c) /\ Single(c) /\ Phases(c) /\ l \in Threads /\ "create" \in Ops
      /\ NoConn \notin Conns
  BY InvOf, Zenon DEF Ops, LoopOps
<1>2. Runs(l, "create", c) /\ UNCHANGED <<loopOf, todo>>
  BY Zenon DEF CreateCheck
<1>3. /\ Places' /\ todo' \in AllQueues /\ batch' \in AllQueues
      /\ Seen(c, {"create"}, {}) /\ \A d \in Conns : d # c => Seen(d, {}, {})
      /\ Finishing' => Finishing
      /\ l = Place("create", c) /\ Pending("create", c)
  BY <1>1, <1>2, RunsAlone, Zenon
<1>4. l = loopOf[c] BY <1>3, Zenon DEF Place, BaseOps
<1>5. /\ UNCHANGED <<fd, loopOf, connected, channel, closed, connections, session, leaving, missed, stopping, joining,
                     quit>>
      /\ \/ stage' = [stage EXCEPT ![c] = "refused"] /\ creating' = creating
         \/ stage' = stage /\ creating' = [creating EXCEPT ![l] = c]
  BY Zenon DEF CreateCheck, server
<1>6. LifeTypes'
  <2>1. NetTypes' BY <1>5, SMTT(30) DEF LifeInv, LifeTypes, NetTypes
  <2> QED BY <1>3, <2>1, TypesAfter, Zenon
<1>7. ASSUME NEW d \in Conns, d # c PROVE SameConn(d)
  BY <1>5, <1>7, Zenon DEF SameConn, Stored, LifeInv, LifeTypes, NetTypes
<1>8. stage[c] = "accepted" /\ \A a \in Ops \ {"create", "finalize"} : ~Pending(a, c)
  BY <1>1, <1>3, Zenon DEF Creation
<1>9. Ending' /\ SessionInv'
  <2>1. Ending' BY <1>3, <1>5, Zenon DEF LifeInv, Ending
  <2>2. stage[c] # "created" BY <1>8, Zenon
  <2>3. \A d \in Conns : d # c => stage'[d] = stage[d] /\ fd'[d] = fd[d]
    BY <1>5, Zenon DEF LifeInv, LifeTypes, NetTypes
  <2> QED BY <1>5, <2>1, <2>2, <2>3, SessionsStay, Zenon
<1>10. \A f \in Fds : connections'[f] # NoConn =>
         fd[connections'[f]] = f /\ stage'[connections'[f]] = "created"
  BY <1>5, <1>8, SMTT(30) DEF LifeInv, Owners, LifeTypes, NetTypes
<1>11. ~Pending("create", c)' /\ \A a \in Ops \ {"create", "finalize"} : ~Pending(a, c)'
  BY <1>1, <1>3, <1>8, Zenon DEF Seen, Single
<1>12. c \notin connected \cup channel \cup closed /\ ~Stored(c) /\ ~Stored(c)'
  <2>1. c \notin connected \cup channel \cup closed BY <1>1, <1>8, Zenon DEF Creation
  <2>2. ~Stored(c) BY <1>1, <1>8, InvOf, SMTT(30) DEF LifeInv, Owners, Stored
  <2> QED BY <1>5, <2>1, <2>2, Zenon DEF Stored
<1>13. Creation(c)'
  BY <1>1, <1>3, <1>4, <1>5, <1>8, <1>11, <1>12, Zenon DEF Creation, LifeInv, LifeTypes, NetTypes, Ops, BaseOps, LoopOps
<1>14. Single(c)' BY <1>1, <1>3, Zenon DEF Single, Seen, Ops, BaseOps, LoopOps
<1>15. Phases(c)' BY <1>5, <1>11, <1>12, Zenon DEF Phases, Ops, BaseOps, LoopOps
<1>16. Alive(c) BY <1>8, Zenon DEF Alive
<1>17. ConnLife(c)' BY <1>13, <1>14, <1>15, Zenon DEF ConnLife
<1> QED BY <1>3, <1>5, <1>6, <1>7, <1>9, <1>10, <1>16, <1>17, OneConn, Zenon

LEMMA CreatePostKeeps ==
  ASSUME LifeInv, NEW l \in Loops, CreatePost(l)
  PROVE  LifeInv'
<1>1. PICK c \in Conns : creating[l] = c BY Zenon DEF LifeInv, LifeTypes, NetTypes, CreatePost
<1>2. /\ Creation(c) /\ Single(c) /\ Phases(c) /\ NoConn \notin Conns BY <1>1, InvOf, Zenon
<1>3. /\ loopOf[c] = l /\ stage[c] = "accepted" /\ ~Pending("create", c)
      /\ \A a \in Ops \ {"create", "finalize"} : ~Pending(a, c)
      /\ c \notin connected \cup channel \cup closed
  BY <1>1, <1>2, Zenon DEF Creation
<1>4. /\ stage' = [stage EXCEPT ![c] = "created"] /\ connected' = connected \cup {c}
      /\ creating' = [creating EXCEPT ![l] = NoConn]
      /\ UNCHANGED <<fd, loopOf, channel, closed, connections, session, leaving, missed, stopping, joining, quit, batch>>
      /\ todo' = Post(todo, Base, "register", c)
  BY <1>1, Zenon DEF CreatePost, server
<1>5. /\ "register" \in Ops \ {"finalize"} /\ Place("register", c) = Base BY Zenon DEF Ops, BaseOps, Place
<1>6. /\ Places' /\ todo' \in AllQueues /\ batch' \in AllQueues
      /\ Seen(c, {}, {"register"}) /\ \A d \in Conns : d # c => Seen(d, {}, {})
      /\ Finishing' => Finishing
  BY <1>1, <1>4, <1>5, ConnPosts, Zenon
<1>7. LifeTypes'
  <2>1. NetTypes' BY <1>1, <1>4, Zenon DEF LifeInv, LifeTypes, NetTypes
  <2> QED BY <1>6, <2>1, TypesAfter, Zenon
<1>8. ASSUME NEW d \in Conns, d # c PROVE SameConn(d)
  BY <1>2, <1>4, <1>8, Zenon DEF SameConn, Stored, LifeInv, LifeTypes, NetTypes
<1>9. Ending' /\ SessionInv'
  <2>1. Ending' BY <1>4, <1>6, Zenon DEF LifeInv, Ending
  <2>2. stage[c] # "created" BY <1>3, Zenon
  <2>3. \A d \in Conns : d # c => stage'[d] = stage[d] /\ fd'[d] = fd[d]
    BY <1>4, Zenon DEF LifeInv, LifeTypes, NetTypes
  <2> QED BY <1>4, <2>1, <2>2, <2>3, SessionsStay, Zenon
<1>10. \A f \in Fds : connections'[f] # NoConn =>
         fd[connections'[f]] = f /\ stage'[connections'[f]] = "created"
  BY <1>1, <1>4 DEF LifeInv, Owners, LifeTypes, NetTypes
<1>11. \A a \in Ops \ {"register", "finalize"} : ~Pending(a, c)' BY <1>3, <1>6, Zenon DEF Seen
<1>12. ~Stored(c)'
  <2>1. ~Stored(c) BY <1>1, <1>2, <1>3, InvOf, SMTT(30) DEF LifeInv, Owners, Stored
  <2> QED BY <1>4, <2>1, Zenon DEF Stored
<1>13. stage'[c] = "created" /\ c \in connected' /\ c \notin channel' \cup closed'
  BY <1>1, <1>3, <1>4, Zenon DEF LifeInv, LifeTypes, NetTypes
<1>14. \A k \in Loops : creating'[k] # c
  <2> SUFFICES ASSUME NEW k \in Loops, creating'[k] = c PROVE FALSE BY Zenon
  <2>1. creating \in [Loops -> Conns \cup {NoConn}] BY Zenon DEF LifeInv, LifeTypes, NetTypes
  <2>2. CASE k = l BY <1>1, <1>2, <1>4, <2>1, <2>2, Zenon
  <2>3. CASE k # l
    <3>1. creating[k] = c BY <1>4, <2>1, <2>3, Zenon
    <3> QED BY <1>2, <1>3, <2>3, <3>1, Zenon DEF Creation
  <2> QED BY <2>2, <2>3, Zenon
<1>15. Creation(c)' BY <1>11, <1>13, <1>14, Zenon DEF Creation, Ops, BaseOps, LoopOps
<1>16. Single(c)'
  <2>1. ~Pending("register", c) BY <1>3, <1>5, Zenon DEF Ops
  <2> QED BY <1>2, <1>6, <2>1, Zenon DEF Single, Seen, Ops, BaseOps, LoopOps
<1>17. Pending("register", c)' BY <1>5, <1>6, Zenon DEF Seen
<1>18. Phases(c)' BY <1>11, <1>12, <1>13, <1>17, Zenon DEF Phases, Ops, BaseOps, LoopOps
<1>19. Alive(c) BY <1>3, Zenon DEF Alive
<1>20. ConnLife(c)' BY <1>15, <1>16, <1>18, Zenon DEF ConnLife
<1> QED BY <1>1, <1>4, <1>6, <1>7, <1>8, <1>9, <1>10, <1>19, <1>20, OneConn, Zenon

(* What the other steps of an io loop leave alone.                          *)
IoFrame ==
  /\ UNCHANGED <<stage, fd, loopOf, connections, session, leaving, missed, stopping, creating, joining, quit>>
  /\ Places' /\ todo' \in AllQueues /\ batch' \in AllQueues /\ (Finishing' => Finishing)

LEMMA IoFrameKeeps ==
  ASSUME LifeInv, IoFrame, NEW c \in Conns, \A d \in Conns : d # c => Seen(d, {}, {}),
         connected' \subseteq Conns, channel' \subseteq Conns, closed' \subseteq Conns,
         \A d \in Conns : d # c => /\ d \in connected' <=> d \in connected
                                   /\ d \in channel' <=> d \in channel
                                   /\ d \in closed' <=> d \in closed,
         ConnLife(c)', Alive(c)' => Alive(c)
  PROVE  LifeInv'
<1>1. NetTypes' BY Zenon DEF IoFrame, LifeInv, LifeTypes, NetTypes
<1>2. LifeTypes' BY <1>1, TypesAfter, Zenon DEF IoFrame
<1>3. ASSUME NEW d \in Conns, d # c PROVE SameConn(d)
  BY <1>3, Zenon DEF SameConn, Stored, IoFrame
<1>4. Ending' /\ SessionInv'
  BY Zenon DEF LifeInv, Ending, SessionInv, SessionsFollowConnections, IoFrame
<1>5. \A f \in Fds : connections'[f] # NoConn =>
        fd[connections'[f]] = f /\ stage'[connections'[f]] = "created"
  BY Zenon DEF LifeInv, Owners, IoFrame
<1>6. /\ Places' /\ UNCHANGED fd /\ (stopping => stopping') BY Zenon DEF IoFrame
<1> QED BY <1>2, <1>3, <1>4, <1>5, <1>6, OneConn, Zenon

(* handleClose(): the removal of a connected connection is posted.          *)
LEMMA CloseKeeps ==
  ASSUME LifeInv, IoFrame, NEW c \in Conns, \A d \in Conns : d # c => Seen(d, {}, {}), c \in connected,
         NEW X \in SUBSET {"established", "forceClose"}, Seen(c, X, {"remove"}),
         ~Pending("established", c)', ~Pending("register", c),
         connected' = connected \ {c}, channel' = channel \ {c}, UNCHANGED closed
  PROVE  LifeInv'
<1>1. Creation(c) /\ Single(c) /\ Phases(c) BY InvOf, Zenon
<1>2. /\ stage[c] = "created" /\ c \notin closed /\ ~Pending("destroyed", c) /\ ~Pending("remove", c)
      /\ ~Pending("create", c)
  <2>1. stage[c] = "created" /\ c \notin closed /\ ~Pending("destroyed", c) BY <1>1, Zenon DEF Creation, Phases
  <2>2. ~Pending("remove", c) BY <1>1, Zenon DEF Phases
  <2>3. ~Pending("create", c) BY <1>1, <2>1, Zenon DEF Creation
  <2> QED BY <2>1, <2>2, <2>3, Zenon
<1>3. \A a \in {"register", "destroyed", "create"} : ~Pending(a, c)'
  BY <1>2, Zenon DEF Seen, Ops, BaseOps, LoopOps
<1>4. stage'[c] = "created" /\ (Stored(c)' <=> Stored(c)) /\ c \notin closed'
  BY <1>2, Zenon DEF IoFrame, Stored
<1>5. Creation(c)'
  <2>1. \A l \in Loops : creating'[l] # c BY <1>1, <1>2, Zenon DEF Creation, IoFrame
  <2> QED BY <1>3, <1>4, <2>1, Zenon DEF Creation, Ops, BaseOps, LoopOps
<1>6. Single(c)' BY <1>1, <1>2, Zenon DEF Single, Seen, Ops, BaseOps, LoopOps
<1>7. Phases(c)' BY <1>3, <1>4, Zenon DEF Phases
<1>8. Alive(c) BY Zenon DEF Alive
<1>9. ConnLife(c)' BY <1>5, <1>6, <1>7, Zenon DEF ConnLife
<1>10. connected' \subseteq Conns /\ channel' \subseteq Conns /\ closed' \subseteq Conns
  BY Zenon DEF LifeInv, LifeTypes, NetTypes
<1> QED BY <1>8, <1>9, <1>10, IoFrameKeeps, Zenon

LEMMA EstablishedKeeps ==
  ASSUME LifeInv, NEW l \in Loops, NEW c \in Conns, Established(l, c)
  PROVE  LifeInv'
<1>1. /\ Creation(c) /\ Single(c) /\ Phases(c) /\ l \in Threads /\ "established" \in Ops
      /\ Runs(l, "established", c) /\ UNCHANGED loopOf
  BY InvOf, Zenon DEF Ops, LoopOps, Established
<1>2. UNCHANGED <<stage, fd, loopOf, connections, session, leaving, missed, stopping, creating, joining, quit, closed>>
  BY Zenon DEF Established, server
<1>3. CASE channel' = channel \cup {c} /\ UNCHANGED <<connected, todo>>
  <2>1. /\ Places' /\ todo' \in AllQueues /\ batch' \in AllQueues
        /\ Seen(c, {"established"}, {}) /\ \A d \in Conns : d # c => Seen(d, {}, {})
        /\ Finishing' => Finishing
        /\ Pending("established", c)
    BY <1>1, <1>3, RunsAlone, Zenon
  <2>2. IoFrame BY <1>2, <2>1, Zenon DEF IoFrame
  <2>3. ~Pending("established", c)' BY <1>1, <2>1, Zenon DEF Seen, Single
  <2>4. /\ c \in connected /\ Stored(c) /\ stage[c] = "created"
    BY <1>1, <2>1, Zenon DEF Phases, Creation
  <2>5. stage'[c] = "created" /\ (Stored(c)' <=> Stored(c)) BY <1>2, <2>4, Zenon DEF Stored
  <2>6. \A a \in Ops \ {"established"} : Pending(a, c)' <=> Pending(a, c) BY <2>1, Zenon DEF Seen
  <2>7. Creation(c)' BY <1>1, <1>2, <2>3, <2>5, <2>6, Zenon DEF Creation, Ops, BaseOps, LoopOps
  <2>8. Single(c)' BY <1>1, <2>1, Zenon DEF Single, Seen, Ops, BaseOps, LoopOps
  <2>9. Phases(c)' BY <1>1, <1>2, <1>3, <2>3, <2>4, <2>5, <2>6, Zenon DEF Phases, Ops, BaseOps, LoopOps
  <2>10. Alive(c) /\ ConnLife(c)' BY <2>4, <2>7, <2>8, <2>9, Zenon DEF Alive, ConnLife
  <2>11. connected' \subseteq Conns /\ channel' \subseteq Conns /\ closed' \subseteq Conns
    BY <1>2, <1>3, Zenon DEF LifeInv, LifeTypes, NetTypes
  <2>12. \A d \in Conns : d # c => /\ d \in connected' <=> d \in connected
                                   /\ d \in channel' <=> d \in channel
                                   /\ d \in closed' <=> d \in closed
    BY <1>2, <1>3, Zenon
  <2> QED BY <2>1, <2>2, <2>10, <2>11, <2>12, IoFrameKeeps, Zenon
<1>4. CASE HandleClose(c)
  <2>1. connected' = connected \ {c} /\ channel' = channel \ {c} /\ todo' = Post(todo, Base, "remove", c)
    BY <1>4, Zenon DEF HandleClose
  <2>2. "remove" \in Ops \ {"finalize"} /\ Place("remove", c) = Base BY Zenon DEF Ops, BaseOps, Place
  <2>3. /\ Places' /\ todo' \in AllQueues /\ batch' \in AllQueues
        /\ Seen(c, {"established"}, {"remove"}) /\ \A d \in Conns : d # c => Seen(d, {}, {})
        /\ Finishing' => Finishing
        /\ Pending("established", c)
    BY <1>1, <2>1, <2>2, RunsPosts, Zenon
  <2>4. IoFrame BY <1>2, <2>3, Zenon DEF IoFrame
  <2>5. ~Pending("established", c)' BY <1>1, <2>3, Zenon DEF Seen, Single
  <2>6. c \in connected /\ ~Pending("register", c) BY <1>1, <2>3, Zenon DEF Phases
  <2> QED BY <1>2, <2>1, <2>3, <2>4, <2>5, <2>6, CloseKeeps, Zenon
<1> QED BY <1>3, <1>4, Zenon DEF Established

LEMMA ForceCloseKeeps ==
  ASSUME LifeInv, NEW l \in Loops, NEW c \in Conns, ForceClose(l, c)
  PROVE  LifeInv'
<1>1. /\ Creation(c) /\ Single(c) /\ Phases(c) /\ l \in Threads /\ "forceClose" \in Ops
      /\ Runs(l, "forceClose", c) /\ UNCHANGED loopOf
  BY InvOf, Zenon DEF Ops, LoopOps, ForceClose
<1>2. UNCHANGED <<stage, fd, loopOf, connections, session, leaving, missed, stopping, creating, joining, quit, closed>>
  BY Zenon DEF ForceClose, server
<1>3. CASE UNCHANGED <<connected, channel, todo>>
  <2>1. /\ Places' /\ todo' \in AllQueues /\ batch' \in AllQueues
        /\ Seen(c, {"forceClose"}, {}) /\ \A d \in Conns : d # c => Seen(d, {}, {})
        /\ Finishing' => Finishing
    BY <1>1, <1>3, RunsAlone, Zenon
  <2>2. IoFrame BY <1>2, <2>1, Zenon DEF IoFrame
  <2>3. stage'[c] = stage[c] /\ (Stored(c)' <=> Stored(c)) BY <1>2, Zenon DEF Stored
  <2>4. /\ \A a \in Ops \ {"forceClose"} : Pending(a, c)' <=> Pending(a, c)
        /\ Pending("forceClose", c)' => Pending("forceClose", c)
    BY <1>1, <2>1, Zenon DEF Seen
  <2>5. Creation(c)' BY <1>1, <1>2, <1>3, <2>3, <2>4, Zenon DEF Creation, Ops, BaseOps, LoopOps
  <2>6. Single(c)' BY <1>1, <2>1, Zenon DEF Single, Seen, Ops, BaseOps, LoopOps
  <2>7. Phases(c)' BY <1>1, <1>2, <1>3, <2>3, <2>4, Zenon DEF Phases, Ops, BaseOps, LoopOps
  <2>8. Alive(c)' => Alive(c) BY <1>3, <2>3, <2>4, Zenon DEF Alive, Ops, BaseOps, LoopOps
  <2>9. ConnLife(c)' BY <2>5, <2>6, <2>7, Zenon DEF ConnLife
  <2>10. connected' \subseteq Conns /\ channel' \subseteq Conns /\ closed' \subseteq Conns
    BY <1>2, <1>3, Zenon DEF LifeInv, LifeTypes, NetTypes
  <2> QED BY <1>2, <1>3, <2>1, <2>2, <2>8, <2>9, <2>10, IoFrameKeeps, Zenon
<1>4. CASE c \in connected /\ HandleClose(c)
  <2>1. connected' = connected \ {c} /\ channel' = channel \ {c} /\ todo' = Post(todo, Base, "remove", c)
    BY <1>4, Zenon DEF HandleClose
  <2>2. "remove" \in Ops \ {"finalize"} /\ Place("remove", c) = Base BY Zenon DEF Ops, BaseOps, Place
  <2>3. /\ Places' /\ todo' \in AllQueues /\ batch' \in AllQueues
        /\ Seen(c, {"forceClose"}, {"remove"}) /\ \A d \in Conns : d # c => Seen(d, {}, {})
        /\ Finishing' => Finishing
        /\ Pending("forceClose", c) /\ (StartsFirst(c) => ~Pending("established", c))
    BY <1>1, <2>1, <2>2, RunsPosts, Zenon
  <2>4. IoFrame BY <1>2, <2>3, Zenon DEF IoFrame
  <2>5. ~Pending("established", c)' BY <1>1, <2>3, SMTT(30) DEF Seen, Single, Ops, LoopOps
  <2>6. ~Pending("register", c) BY <1>1, <2>3, Zenon DEF Phases
  <2> QED BY <1>2, <1>4, <2>1, <2>3, <2>4, <2>5, <2>6, CloseKeeps, Zenon
<1> QED BY <1>3, <1>4, Zenon DEF ForceClose

LEMMA DestroyedKeeps ==
  ASSUME LifeInv, NEW l \in Loops, NEW c \in Conns, Destroyed(l, c)
  PROVE  LifeInv'
<1>1. /\ Creation(c) /\ Single(c) /\ Phases(c) /\ l \in Threads /\ "destroyed" \in Ops
      /\ Runs(l, "destroyed", c) /\ UNCHANGED <<loopOf, todo>>
  BY InvOf, Zenon DEF Ops, LoopOps, Destroyed
<1>2. /\ UNCHANGED <<stage, fd, loopOf, connections, session, leaving, missed, stopping, creating, joining, quit,
                     connected>>
      /\ closed' = closed \cup {c} /\ channel' = channel \ {c}
  BY Zenon DEF Destroyed, server
<1>3. /\ Places' /\ todo' \in AllQueues /\ batch' \in AllQueues
      /\ Seen(c, {"destroyed"}, {}) /\ \A d \in Conns : d # c => Seen(d, {}, {})
      /\ Finishing' => Finishing
      /\ Pending("destroyed", c)
  BY <1>1, RunsAlone, Zenon
<1>4. IoFrame BY <1>2, <1>3, Zenon DEF IoFrame
<1>5. /\ stage[c] = "created" /\ ~Stored(c) /\ c \notin connected /\ c \notin channel
      /\ ~Pending("remove", c) /\ ~Pending("established", c) /\ ~Pending("register", c)
  BY <1>1, <1>3, Zenon DEF Creation, Phases, Ops, LoopOps
<1>6. stage'[c] = stage[c] /\ (Stored(c)' <=> Stored(c)) BY <1>2, Zenon DEF Stored
<1>7. /\ \A a \in Ops \ {"destroyed"} : Pending(a, c)' <=> Pending(a, c)
      /\ Pending("destroyed", c)' => Pending("destroyed", c)
  BY <1>1, <1>3, Zenon DEF Seen
<1>8. Creation(c)' BY <1>1, <1>2, <1>5, <1>6, <1>7, Zenon DEF Creation, Ops, BaseOps, LoopOps
<1>9. Single(c)' BY <1>1, <1>3, Zenon DEF Single, Seen, Ops, BaseOps, LoopOps
<1>10. Phases(c)' BY <1>2, <1>5, <1>6, <1>7, Zenon DEF Phases, Ops, BaseOps, LoopOps
<1>11. Alive(c)' => Alive(c) BY <1>2, <1>6, <1>7, Zenon DEF Alive, Ops, BaseOps, LoopOps
<1>12. ConnLife(c)' BY <1>8, <1>9, <1>10, Zenon DEF ConnLife
<1>13. connected' \subseteq Conns /\ channel' \subseteq Conns /\ closed' \subseteq Conns
  BY <1>2, Zenon DEF LifeInv, LifeTypes, NetTypes
<1>14. \A d \in Conns : d # c => /\ d \in connected' <=> d \in connected
                                 /\ d \in channel' <=> d \in channel
                                 /\ d \in closed' <=> d \in closed
  BY <1>2, Zenon
<1> QED BY <1>3, <1>4, <1>11, <1>12, <1>13, <1>14, IoFrameKeeps, Zenon

LEMMA PeerClosesKeeps ==
  ASSUME LifeInv, NEW c \in Conns, PeerCloses(c)
  PROVE  LifeInv'
<1>1. Creation(c) /\ Single(c) /\ Phases(c) BY InvOf, Zenon
<1>2. /\ UNCHANGED <<stage, fd, loopOf, connections, session, leaving, missed, stopping, creating, joining, quit,
                     closed, batch>>
      /\ connected' = connected \ {c} /\ channel' = channel \ {c} /\ c \in channel
      /\ todo' = Post(todo, Base, "remove", c)
  BY Zenon DEF PeerCloses, HandleClose, server
<1>3. "remove" \in Ops \ {"finalize"} /\ Place("remove", c) = Base BY Zenon DEF Ops, BaseOps, Place
<1>4. /\ Places' /\ todo' \in AllQueues /\ batch' \in AllQueues
      /\ Seen(c, {}, {"remove"}) /\ \A d \in Conns : d # c => Seen(d, {}, {})
      /\ Finishing' => Finishing
  BY <1>2, <1>3, ConnPosts, Zenon
<1>5. IoFrame BY <1>2, <1>4, Zenon DEF IoFrame
<1>6. c \in connected /\ ~Pending("register", c) /\ ~Pending("established", c)
  BY <1>1, <1>2, Zenon DEF Phases
<1>7. ~Pending("established", c)' BY <1>4, <1>6, SMTT(30) DEF Seen, Ops, LoopOps
<1> QED BY <1>2, <1>4, <1>5, <1>6, <1>7, CloseKeeps, Zenon

LEMMA PeerSendsKeeps ==
  ASSUME LifeInv, NEW c \in Conns, PeerSends(c)
  PROVE  LifeInv'
<1>1. Creation(c) /\ Single(c) /\ Phases(c) BY InvOf, Zenon
<1>2. /\ UNCHANGED <<stage, fd, loopOf, connections, session, leaving, missed, stopping, creating, joining, quit,
                     closed, batch, connected, channel>>
      /\ c \in channel /\ todo' = Post(todo, Base, "message", c)
  BY Zenon DEF PeerSends, net, server
<1>3. "message" \in Ops \ {"finalize"} /\ Place("message", c) = Base BY Zenon DEF Ops, BaseOps, Place
<1>4. /\ Places' /\ todo' \in AllQueues /\ batch' \in AllQueues
      /\ Seen(c, {}, {"message"}) /\ \A d \in Conns : d # c => Seen(d, {}, {})
      /\ Finishing' => Finishing
  BY <1>2, <1>3, ConnPosts, Zenon
<1>5. IoFrame BY <1>2, <1>4, Zenon DEF IoFrame
<1>6. stage[c] = "created" /\ ~Pending("register", c) BY <1>1, <1>2, Zenon DEF Phases, Creation
<1>7. stage'[c] = stage[c] /\ (Stored(c)' <=> Stored(c)) BY <1>2, Zenon DEF Stored
<1>8. \A a \in Ops \ {"message"} : Pending(a, c)' <=> Pending(a, c) BY <1>4, Zenon DEF Seen
<1>9. Creation(c)' BY <1>1, <1>2, <1>6, <1>7, <1>8, Zenon DEF Creation, Ops, BaseOps, LoopOps
<1>10. Single(c)' BY <1>1, <1>4, Zenon DEF Single, Seen, Ops, BaseOps, LoopOps
<1>11. Phases(c)' BY <1>1, <1>2, <1>6, <1>7, <1>8, Zenon DEF Phases, Ops, BaseOps, LoopOps
<1>12. Alive(c)' => Alive(c) BY <1>2, <1>7, <1>8, Zenon DEF Alive, Ops, BaseOps, LoopOps
<1>13. ConnLife(c)' BY <1>9, <1>10, <1>11, Zenon DEF ConnLife
<1>14. connected' \subseteq Conns /\ channel' \subseteq Conns /\ closed' \subseteq Conns
  BY <1>2, Zenon DEF LifeInv, LifeTypes, NetTypes
<1> QED BY <1>2, <1>4, <1>5, <1>12, <1>13, <1>14, IoFrameKeeps, Zenon

-----------------------------------------------------------------------------
(* The steps of the base loop.                                              *)

(* A connection the base loop knows has its descriptor open.                *)
LEMMA KnownIsOpen ==
  ASSUME LifeInv, NEW c \in Conns, Stored(c) \/ Pending("register", c) \/ Pending("remove", c)
  PROVE  FdOpen(c)
<1>1. /\ Creation(c) /\ Phases(c) /\ NoConn \notin Conns /\ fd[c] \in Fds /\ Base \in Threads BY InvOf, Zenon
<1>2. stage[c] = "created" /\ c \notin closed
  <2>1. CASE Stored(c) BY <1>1, <2>1, Zenon DEF Phases, Stored, LifeInv, Owners
  <2>2. CASE Pending("register", c) BY <1>1, <2>2, Zenon DEF Phases, Creation
  <2>3. CASE Pending("remove", c) BY <1>1, <2>3, Zenon DEF Phases, Creation, Ops, BaseOps
  <2> QED BY <2>1, <2>2, <2>3, Zenon
<1>3. ASSUME NEW a \in {"register", "remove"}, Pending(a, c) PROVE Referenced(c)
  <2> DEFINE x == Functor(a, c)
  <2>1. x.conn = c /\ x.op \in Strong BY FunctorFields, Zenon DEF Strong
  <2>2. todo \in AllQueues /\ batch \in AllQueues BY Zenon DEF LifeInv, LifeTypes, QueueTypes
  <2>3. Queues[Base] = batch[Base] \o todo[Base] BY <1>1, <2>2, BothTyped, Zenon DEF Queues
  <2>4. Holds(batch[Base] \o todo[Base], x) BY <1>3, <2>3, Zenon DEF Pending, Place, BaseOps
  <2>5. todo[Base] \in Seq(Functors) /\ batch[Base] \in Seq(Functors) BY <1>1, <2>2, Zenon DEF AllQueues
  <2>6. Holds(batch[Base], x) \/ Holds(todo[Base], x) BY <2>4, <2>5, HoldsConcat, Zenon
  <2> HIDE DEF x
  <2> QED BY <1>1, <2>1, <2>6, Zenon DEF Referenced, Holds
<1>4. Stored(c) => Referenced(c) BY <1>1, Zenon DEF Stored, Referenced
<1> QED BY <1>2, <1>3, <1>4, Zenon DEF FdOpen

(* Nothing enters or leaves a queue.                                        *)
LEMMA QueuesStay ==
  ASSUME LifeInv, Queues' = Queues, UNCHANGED loopOf
  PROVE  Places' /\ (\A d \in Conns : Seen(d, {}, {})) /\ (Finishing' => Finishing)
<1>1. LifeTypes /\ Places /\ Queues \in AllQueues
  BY BothTyped, Zenon DEF LifeInv, LifeTypes, QueueTypes, Queues
<1>2. Moves(Queues, Queues', {}, {}) BY <1>1, MovesNot, Zenon
<1>3. Places' /\ Effect({}, {}) BY <1>1, <1>2, QueueStep, Zenon
<1>4. ASSUME NEW d \in Conns PROVE Seen(d, {}, {}) BY <1>3, EffectSeen, SMTT(30)
<1>5. Finishing' => Finishing BY <1>3, Zenon DEF Effect
<1> QED BY <1>3, <1>4, <1>5, Zenon

LEMMA SwapKeeps ==
  ASSUME LifeInv, NEW t \in Threads, Swap(t)
  PROVE  LifeInv'
<1>1. todo \in AllQueues /\ batch \in AllQueues BY Zenon DEF LifeInv, LifeTypes, QueueTypes
<1>2. /\ batch[t] = <<>> /\ batch' = [batch EXCEPT ![t] = todo[t]] /\ todo' = [todo EXCEPT ![t] = <<>>]
      /\ UNCHANGED <<stage, fd, loopOf, connected, channel, closed, connections, creating, session, leaving, missed,
                     stopping, joining, quit>>
  BY Zenon DEF Swap, Idle, net, server
<1>3. todo' \in AllQueues /\ batch' \in AllQueues BY <1>1, <1>2, Zenon DEF AllQueues
<1>4. \A u \in Threads : batch'[u] \o todo'[u] = batch[u] \o todo[u]
  <2> SUFFICES ASSUME NEW u \in Threads PROVE batch'[u] \o todo'[u] = batch[u] \o todo[u] BY Zenon
  <2>1. CASE u = t
    <3>1. batch'[u] = todo[t] /\ todo'[u] = <<>> /\ todo[t] \in Seq(Functors)
      BY <1>1, <1>2, <2>1, Zenon DEF AllQueues
    <3> QED BY <1>2, <2>1, <3>1, QueueSwap, Zenon
  <2>2. CASE u # t BY <1>1, <1>2, <2>2, Zenon DEF AllQueues
  <2> QED BY <2>1, <2>2, Zenon
<1>5. Queues' = Queues BY <1>4, Zenon DEF Queues, Both, Threads
<1>6. Places' /\ (\A d \in Conns : Seen(d, {}, {})) /\ (Finishing' => Finishing)
  BY <1>2, <1>5, QueuesStay, Zenon
<1>7. NetTypes' BY <1>2, Zenon DEF LifeInv, LifeTypes, NetTypes
<1>8. LifeTypes' BY <1>3, <1>7, TypesAfter, Zenon
<1>9. Ending' /\ SessionInv'
  BY <1>2, <1>6, Zenon DEF LifeInv, Ending, SessionInv, SessionsFollowConnections
<1> QED BY <1>2, <1>6, <1>8, <1>9, NoConnSees, Zenon

(* The loops end.  What is dropped unrun is dropped after stop() only.      *)
LEMMA ExitLoopKeeps ==
  ASSUME LifeInv, NEW t \in Threads, ExitLoop(t)
  PROVE  LifeInv'
<1>1. LifeTypes /\ Places /\ todo \in AllQueues /\ batch \in AllQueues
  BY Zenon DEF LifeInv, LifeTypes, QueueTypes
<1>2. /\ batch[t] = <<>> /\ batch' = batch /\ todo' = [todo EXCEPT ![t] = <<>>] /\ t \in quit
      /\ UNCHANGED <<stage, fd, loopOf, connected, channel, closed, connections, creating, session, leaving, missed,
                     stopping, joining, quit>>
  BY Zenon DEF ExitLoop, Idle, net, server
<1>3. todo' \in AllQueues /\ batch' \in AllQueues BY <1>1, <1>2, Zenon DEF AllQueues
<1>4. stopping BY <1>2, Zenon DEF LifeInv, Ending
<1>5. /\ Queues \in AllQueues /\ \A u \in Threads : Queues[u] = batch[u] \o todo[u]
  BY <1>1, BothTyped, Zenon DEF Queues
<1>6. /\ Queues' \in AllQueues /\ \A u \in Threads : Queues'[u] = batch'[u] \o todo'[u]
  BY <1>3, BothTyped, Zenon DEF Queues
<1>7. Queues'[t] = <<>> BY <1>1, <1>2, <1>6, QueueSwap, Zenon DEF AllQueues
<1>8. \A u \in Threads : u # t => Queues'[u] = Queues[u] BY <1>1, <1>2, <1>5, <1>6, Zenon DEF AllQueues
<1>9. ASSUME NEW u \in Threads, NEW y, NEW z
      PROVE  /\ Holds(Queues'[u], y) => Holds(Queues[u], y)
             /\ Once(Queues[u], y) => Once(Queues'[u], y)
             /\ Before(Queues[u], y, z) => Before(Queues'[u], y, z)
  BY <1>7, <1>8, HoldsEmpty, Zenon
<1>10. \A a, d : Place(a, d)' = Place(a, d) BY <1>2, Zenon DEF Place, BaseOps
<1>11. Places'
  <2> SUFFICES ASSUME NEW u \in Threads, NEW x \in Functors, Holds(Queues'[u], x) PROVE Fits(u, x)'
    BY Zenon DEF Places, Threads, Functors, Ops, BaseOps, LoopOps
  <2>1. Fits(u, x) BY <1>1, <1>9, Zenon DEF Places
  <2> QED BY <1>2, <2>1, Zenon DEF Fits, BaseOps
<1>12. ASSUME NEW d \in Conns, NEW a \in Ops
       PROVE  (Pending(a, d)' => Pending(a, d)) /\ (Unique(a, d) => Unique(a, d)')
  <2>1. Place(a, d) \in Threads BY <1>1, PlaceIsThread, Zenon
  <2> QED BY <1>9, <1>10, <2>1, Zenon DEF Pending, Unique, Functor
<1>13. ASSUME NEW d \in Conns PROVE StartsFirst(d) => StartsFirst(d)'
  <2>1. loopOf[d] \in Threads BY <1>1, PlaceIsThread, Zenon DEF Threads
  <2> QED BY <1>2, <1>9, <2>1, Zenon DEF StartsFirst, Functor
<1>14. \A d \in Conns : stage'[d] = stage[d] /\ (Stored(d)' <=> Stored(d)) BY <1>2, Zenon DEF Stored
<1>15. ASSUME NEW d \in Conns PROVE ConnLife(d)' /\ (Alive(d)' => Alive(d))
  <2>1. Creation(d) /\ Single(d) /\ Phases(d) BY InvOf, Zenon
  <2>2. Creation(d)' BY <1>2, <1>12, <1>14, <2>1, Zenon DEF Creation, Ops, BaseOps, LoopOps
  <2>3. Single(d)' BY <1>12, <1>13, <2>1, Zenon DEF Single, Ops, BaseOps, LoopOps
  <2>4. Phases(d)' BY <1>2, <1>4, <1>12, <1>14, <2>1, Zenon DEF Phases, Ops, BaseOps, LoopOps
  <2>5. Alive(d)' => Alive(d) BY <1>2, <1>12, <1>14, Zenon DEF Alive, Ops, BaseOps
  <2> QED BY <2>2, <2>3, <2>4, <2>5, Zenon DEF ConnLife
<1>16. Owners'
  <2>1. \A x, d \in Conns : Alive(x) /\ Alive(d) /\ fd[x] = fd[d] => x = d BY Zenon DEF LifeInv, Owners
  <2>2. \A x, d \in Conns : Alive(x)' /\ Alive(d)' /\ fd'[x] = fd'[d] => x = d BY <1>2, <1>15, <2>1, Zenon
  <2>3. \A f \in Fds : connections[f] # NoConn =>
          fd[connections[f]] = f /\ stage[connections[f]] = "created"
    BY Zenon DEF LifeInv, Owners
  <2> QED BY <1>2, <2>2, <2>3, Zenon DEF Owners
<1>17. NetTypes' BY <1>2, Zenon DEF LifeInv, LifeTypes, NetTypes
<1>18. LifeTypes' BY <1>3, <1>17, TypesAfter, Zenon
<1>19. Ending' /\ SessionInv'
  BY <1>2, <1>4, Zenon DEF LifeInv, Ending, SessionInv, SessionsFollowConnections
<1> QED BY <1>11, <1>15, <1>16, <1>18, <1>19, Zenon DEF LifeInv

LEMMA JoinKeeps ==
  ASSUME LifeInv, Joined \/ (\E l \in Loops : JoinLoop(l)) \/ UNCHANGED vars
  PROVE  LifeInv'
<1>1. /\ UNCHANGED <<stage, fd, loopOf, connected, channel, closed, connections, creating, session, leaving, missed,
                     stopping, todo, batch>>
      /\ (joining' => joining) /\ (quit' # {} => quit # {} \/ joining)
  BY SMTT(30) DEF Joined, JoinLoop, vars, net, server, loops
<1>2. Queues' = Queues BY <1>1, Zenon DEF Queues, Both, Threads
<1>3. Places' /\ (\A d \in Conns : Seen(d, {}, {})) /\ (Finishing' => Finishing)
  BY <1>1, <1>2, QueuesStay, Zenon
<1>4. NetTypes' BY <1>1, Zenon DEF LifeInv, LifeTypes, NetTypes
<1>5. todo' \in AllQueues /\ batch' \in AllQueues BY <1>1, Zenon DEF LifeInv, LifeTypes, QueueTypes
<1>6. LifeTypes' BY <1>4, <1>5, TypesAfter, Zenon
<1>7. Ending' /\ SessionInv'
  BY <1>1, <1>3, Zenon DEF LifeInv, Ending, SessionInv, SessionsFollowConnections
<1> QED BY <1>1, <1>3, <1>6, <1>7, NoConnSees, Zenon

(* The registration arrives after stop(): the connection is closed.         *)
LEMMA AddStoppedKeeps ==
  ASSUME LifeInv, NEW c \in Conns, AddConnection(c), stopping
  PROVE  LifeInv'
<1>1. /\ Creation(c) /\ Single(c) /\ Phases(c) /\ Base \in Threads /\ loopOf[c] # Base
      /\ "register" \in Ops /\ "forceClose" \in Ops \ {"finalize"}
      /\ Place("forceClose", c) = loopOf[c] /\ Runs(Base, "register", c)
  BY InvOf, Zenon DEF Ops, BaseOps, LoopOps, Place, AddConnection
<1>2. UNCHANGED <<stage, fd, loopOf, connections, session, leaving, missed, stopping, creating, joining, quit,
                  connected, channel, closed>>
  BY Zenon DEF AddConnection, net
<1>3. PICK Y \in {{}, {"forceClose"}} :
         /\ Places' /\ todo' \in AllQueues /\ batch' \in AllQueues
         /\ Seen(c, {"register"}, Y) /\ \A d \in Conns : d # c => Seen(d, {}, {})
         /\ Finishing' => Finishing
         /\ Pending("register", c)
  <2>1. CASE crashed'
    <3>1. UNCHANGED <<loopOf, todo>> BY <1>2, <2>1, Zenon DEF AddConnection
    <3>2. /\ Places' /\ todo' \in AllQueues /\ batch' \in AllQueues
          /\ Seen(c, {"register"}, {}) /\ \A d \in Conns : d # c => Seen(d, {}, {})
          /\ Finishing' => Finishing
          /\ Pending("register", c)
      BY <1>1, <3>1, RunsAlone, Zenon
    <3> QED BY <3>2, Zenon
  <2>2. CASE ~crashed'
    <3>1. UNCHANGED loopOf /\ todo' = Post(todo, Place("forceClose", c), "forceClose", c)
      BY <1>1, <1>2, <2>2, Zenon DEF AddConnection
    <3>2. /\ Places' /\ todo' \in AllQueues /\ batch' \in AllQueues
          /\ Seen(c, {"register"}, {"forceClose"}) /\ \A d \in Conns : d # c => Seen(d, {}, {})
          /\ Finishing' => Finishing
          /\ Pending("register", c)
      BY <1>1, <3>1, RunsPosts, Zenon
    <3> QED BY <3>2, Zenon
  <2> QED BY <2>1, <2>2, Zenon
<1>4. IoFrame BY <1>2, <1>3, Zenon DEF IoFrame
<1>5. /\ stage[c] = "created" /\ c \in connected /\ ~Stored(c) /\ ~Pending("established", c)
      /\ ~Pending("remove", c) /\ c \notin channel
  BY <1>1, <1>3, Zenon DEF Creation, Phases, Ops, BaseOps
<1>6. stage'[c] = stage[c] /\ (Stored(c)' <=> Stored(c)) BY <1>2, Zenon DEF Stored
<1>7. /\ \A a \in Ops \ {"register", "forceClose"} : Pending(a, c)' <=> Pending(a, c)
      /\ ~Pending("register", c)'
  <2>1. \A a \in Ops \ {"register", "forceClose"} : Pending(a, c)' <=> Pending(a, c) BY <1>3, Zenon DEF Seen
  <2>2. Unique("register", c) /\ "register" \notin Y BY <1>1, Zenon DEF Single
  <2>3. ~Pending("register", c)' BY <1>1, <1>3, <2>2, Zenon DEF Seen
  <2> QED BY <2>1, <2>3, Zenon
<1>8. Creation(c)' BY <1>1, <1>2, <1>5, <1>6, <1>7, Zenon DEF Creation, Ops, BaseOps, LoopOps
<1>9. Single(c)'
  <2>1. \A a \in {"create", "register", "remove", "established"} : a \in Ops /\ a \notin Y
    BY Zenon DEF Ops, BaseOps, LoopOps
  <2>2. \A a \in {"create", "register", "remove", "established"} : Unique(a, c)'
    BY <1>1, <1>3, <2>1, Zenon DEF Single, Seen
  <2>3. StartsFirst(c)' BY <1>1, <1>3, <2>1, Zenon DEF Single, Seen
  <2> QED BY <2>2, <2>3, Zenon DEF Single
<1>10. Phases(c)' BY <1>1, <1>2, <1>5, <1>6, <1>7, Zenon DEF Phases, Ops, BaseOps, LoopOps
<1>11. Alive(c)' => Alive(c) BY <1>5, Zenon DEF Alive
<1>12. ConnLife(c)' BY <1>8, <1>9, <1>10, Zenon DEF ConnLife
<1>13. connected' \subseteq Conns /\ channel' \subseteq Conns /\ closed' \subseteq Conns
  BY <1>2, Zenon DEF LifeInv, LifeTypes, NetTypes
<1>14. \A d \in Conns : d # c => /\ d \in connected' <=> d \in connected
                                 /\ d \in channel' <=> d \in channel
                                 /\ d \in closed' <=> d \in closed
  BY <1>2, Zenon
<1> QED BY <1>3, <1>4, <1>11, <1>12, <1>13, <1>14, IoFrameKeeps, Zenon

(* The registration: nobody else is stored under the descriptor.            *)
LEMMA AddKeeps ==
  ASSUME LifeInv, NEW c \in Conns, AddConnection(c), ~stopping
  PROVE  LifeInv'
<1>1. /\ Creation(c) /\ Single(c) /\ Phases(c) /\ Base \in Threads /\ fd[c] \in Fds
      /\ "register" \in Ops /\ "established" \in Ops \ {"finalize"} /\ NoConn \notin Conns
      /\ Place("established", c) = loopOf[c] /\ Runs(Base, "register", c)
  BY InvOf, Zenon DEF Ops, BaseOps, LoopOps, Place, AddConnection
<1>2. /\ UNCHANGED <<stage, fd, loopOf, session, leaving, missed, stopping, creating, joining, quit, connected,
                     channel, closed>>
      /\ connections' = [connections EXCEPT ![fd[c]] = c]
      /\ todo' = Post(todo, Place("established", c), "established", c)
  BY <1>1, Zenon DEF AddConnection, net
<1>3. /\ Places' /\ todo' \in AllQueues /\ batch' \in AllQueues
      /\ Seen(c, {"register"}, {"established"}) /\ \A d \in Conns : d # c => Seen(d, {}, {})
      /\ Finishing' => Finishing
      /\ Pending("register", c)
  BY <1>1, <1>2, RunsPosts, Zenon
<1>4. /\ stage[c] = "created" /\ c \in connected /\ ~Stored(c) /\ c \notin closed /\ c \notin channel
      /\ ~Pending("established", c) /\ ~Pending("forceClose", c) /\ ~Pending("remove", c)
      /\ ~Pending("destroyed", c)
  BY <1>1, <1>3, Zenon DEF Creation, Phases, Ops, BaseOps
<1>5. connections \in [Fds -> Conns \cup {NoConn}] BY Zenon DEF LifeInv, LifeTypes, NetTypes
<1>6. connections[fd[c]] = NoConn
  <2> SUFFICES ASSUME connections[fd[c]] # NoConn PROVE FALSE BY Zenon
  <2> DEFINE x == connections[fd[c]]
  <2>1. x \in Conns /\ fd[x] = fd[c] /\ Stored(x) BY <1>1, <1>5, Zenon DEF LifeInv, Owners, Stored
  <2>2. Alive(x) /\ Alive(c) BY <1>4, <2>1, Zenon DEF Alive
  <2>3. x = c BY <2>1, <2>2, Zenon DEF LifeInv, Owners
  <2> QED BY <1>4, <2>1, <2>3, Zenon
<1>7. /\ connections'[fd[c]] = c
      /\ \A f \in Fds : f # fd[c] => connections'[f] = connections[f]
      /\ connections' \in [Fds -> Conns \cup {NoConn}]
  BY <1>1, <1>2, <1>5, Zenon
<1>8. Stored(c)' /\ stage'[c] = stage[c] BY <1>2, <1>7, Zenon DEF Stored
<1>9. \A d \in Conns : d # c => (Stored(d)' <=> Stored(d))
  BY <1>1, <1>2, <1>6, <1>7, InvOf, SMTT(30) DEF Stored
<1>10. \A d \in Conns : d # c => SameConn(d) BY <1>2, <1>9, Zenon DEF SameConn
<1>11. /\ \A a \in Ops \ {"register", "established"} : Pending(a, c)' <=> Pending(a, c)
       /\ ~Pending("register", c)' /\ Pending("established", c)'
  BY <1>1, <1>3, Zenon DEF Seen, Single
<1>12. Creation(c)' BY <1>1, <1>2, <1>4, <1>8, <1>11, Zenon DEF Creation, Ops, BaseOps, LoopOps
<1>13. Single(c)' BY <1>1, <1>3, <1>4, Zenon DEF Single, Seen, Ops, BaseOps, LoopOps
<1>14. Phases(c)' BY <1>2, <1>4, <1>8, <1>11, Zenon DEF Phases, Ops, BaseOps, LoopOps
<1>15. ConnLife(c)' /\ Alive(c) BY <1>4, <1>12, <1>13, <1>14, Zenon DEF ConnLife, Alive
<1>16. NetTypes' BY <1>2, <1>7, Zenon DEF LifeInv, LifeTypes, NetTypes
<1>17. LifeTypes' BY <1>3, <1>16, TypesAfter, Zenon
<1>18. SessionInv'
  BY <1>1, <1>2, <1>6, <1>7, Zenon DEF LifeInv, SessionInv, SessionsFollowConnections
<1>19. Ending' BY <1>2, <1>3, Zenon DEF LifeInv, Ending
<1>20. ASSUME NEW f \in Fds, connections'[f] # NoConn
       PROVE  fd[connections'[f]] = f /\ stage'[connections'[f]] = "created"
  <2>1. CASE f = fd[c] BY <1>2, <1>4, <1>7, <2>1, Zenon
  <2>2. CASE f # fd[c] BY <1>2, <1>7, <1>20, <2>2, Zenon DEF LifeInv, Owners
  <2> QED BY <2>1, <2>2, Zenon
<1> QED BY <1>2, <1>3, <1>10, <1>15, <1>17, <1>18, <1>19, <1>20, OneConn, Zenon

(* The removal erases what it finds under the descriptor: itself or nothing. *)
LEMMA RemoveConnectionKeeps ==
  ASSUME LifeInv, NEW c \in Conns, RemoveConnection(c)
  PROVE  LifeInv'
<1> DEFINE stored == connections[fd[c]] # NoConn
           q1 == IF stored THEN Post(todo, Place("destroyed", c), "destroyed", c) ELSE todo
           Y == IF stored THEN {"destroyed"} ELSE {}
           fin == FALSE
<1>1. /\ Creation(c) /\ Single(c) /\ Phases(c) /\ Base \in Threads /\ fd[c] \in Fds
      /\ "remove" \in Ops /\ "destroyed" \in Ops \ {"finalize"} /\ NoConn \notin Conns
      /\ Place("destroyed", c) = loopOf[c] /\ Runs(Base, "remove", c)
  BY InvOf, Zenon DEF Ops, BaseOps, LoopOps, Place, RemoveConnection
<1>2. /\ UNCHANGED <<stage, fd, loopOf, stopping, creating, joining, quit, connected, channel, closed>>
      /\ connections' = [connections EXCEPT ![fd[c]] = NoConn]
      /\ leaving' = c /\ leaving = NoConn /\ UNCHANGED <<session, missed>>
  BY <1>1, Zenon DEF RemoveConnection, net, Runs, Running
<1>3. todo' = IF fin THEN Post(q1, Base, "finalize", NoConn) ELSE q1
  BY <1>1, Zenon DEF RemoveConnection
<1>4. \/ q1 = todo /\ Y = {}
      \/ \E b \in Ops \ {"finalize"} : q1 = Post(todo, Place(b, c), b, c) /\ Y = {b}
  BY <1>1, Zenon
<1>5. fin \in BOOLEAN /\ ~fin /\ Y \in {{}, {"destroyed"}}
  BY Zenon DEF LifeInv, LifeTypes, NetTypes
<1> HIDE DEF q1, Y, fin
<1>6. /\ Places' /\ todo' \in AllQueues /\ batch' \in AllQueues
      /\ Seen(c, {"remove"}, Y) /\ \A d \in Conns : d # c => Seen(d, {}, {})
      /\ Finishing' => Finishing \/ fin
      /\ Pending("remove", c)
  BY <1>1, <1>2, <1>3, <1>4, <1>5, ConnRuns, Zenon
<1>7. /\ stage[c] = "created" /\ c \notin connected /\ c \notin closed /\ c \notin channel
      /\ ~Pending("established", c) /\ ~Pending("register", c)
  BY <1>1, <1>6, Zenon DEF Creation, Phases, Ops, BaseOps
<1>8. connections \in [Fds -> Conns \cup {NoConn}] /\ session \in [Fds -> Conns \cup {NoConn}]
  BY Zenon DEF LifeInv, LifeTypes, NetTypes
<1>9. /\ connections'[fd[c]] = NoConn
      /\ \A f \in Fds : f # fd[c] => connections'[f] = connections[f]
      /\ connections' \in [Fds -> Conns \cup {NoConn}] /\ leaving' \in Conns \cup {NoConn}
  BY <1>1, <1>2, <1>8, Zenon
<1>10. ~Stored(c)' /\ stage'[c] = stage[c] BY <1>1, <1>2, <1>9, Zenon DEF Stored
<1>11. ASSUME NEW d \in Conns, d # c PROVE Stored(d)' <=> Stored(d)
  <2>1. CASE fd[d] = fd[c]
    <3>1. Alive(c) BY <1>6, Zenon DEF Alive
    <3>2. ~Stored(d) BY <1>11, <2>1, <3>1, Zenon DEF LifeInv, Owners, Alive
    <3> QED BY <1>1, <1>2, <1>9, <2>1, <3>2, Zenon DEF Stored
  <2>2. CASE fd[d] # fd[c] BY <1>2, <1>9, <2>2, InvOf, Zenon DEF Stored
  <2> QED BY <2>1, <2>2, Zenon
<1>12. \A d \in Conns : d # c => SameConn(d) BY <1>2, <1>11, Zenon DEF SameConn
<1>13. /\ \A a \in Ops \ {"remove", "destroyed"} : Pending(a, c)' <=> Pending(a, c)
       /\ ~Pending("remove", c)'
  <2>1. "remove" \notin Y /\ \A a \in Ops \ {"remove", "destroyed"} : a \notin Y BY <1>5, Zenon
  <2> QED BY <1>1, <1>6, <2>1, Zenon DEF Seen, Single
<1>14. Creation(c)' BY <1>1, <1>2, <1>7, <1>10, <1>13, Zenon DEF Creation, Ops, BaseOps, LoopOps
<1>15. Single(c)'
  <2>1. \A a \in {"create", "register", "remove", "established"} : a \in Ops /\ a \notin Y
    BY <1>5, Zenon DEF Ops, BaseOps, LoopOps
  <2>2. \A a \in {"create", "register", "remove", "established"} : Unique(a, c)'
    BY <1>1, <1>6, <2>1, Zenon DEF Single, Seen
  <2>3. StartsFirst(c)' BY <1>1, <1>6, <2>1, Zenon DEF Single, Seen
  <2> QED BY <2>2, <2>3, Zenon DEF Single
<1>16. Phases(c)' BY <1>2, <1>7, <1>10, <1>13, Zenon DEF Phases, Ops, BaseOps, LoopOps
<1>17. ConnLife(c)' /\ Alive(c) BY <1>6, <1>14, <1>15, <1>16, Zenon DEF ConnLife, Alive
<1>18. NetTypes' BY <1>2, <1>9, Zenon DEF LifeInv, LifeTypes, NetTypes
<1>19. LifeTypes' BY <1>6, <1>18, TypesAfter, Zenon
<1>20. SessionInv'
  <2>1. connections[fd[c]] \in {c, NoConn}
    <3> SUFFICES ASSUME connections[fd[c]] # NoConn PROVE connections[fd[c]] = c BY Zenon
    <3> DEFINE d == connections[fd[c]]
    <3>1. d \in Conns /\ fd[d] = fd[c] /\ Stored(d) BY <1>1, <1>8, Zenon DEF LifeInv, Owners, Stored
    <3>2. Alive(d) /\ Alive(c) BY <1>6, <3>1, Zenon DEF Alive
    <3> QED BY <3>1, <3>2, Zenon DEF LifeInv, Owners
  <2>2. \A f \in Fds : session[f] # NoConn => session[f] \in {connections[f]} \cup missed
    BY <1>2, Zenon DEF LifeInv, SessionInv, SessionsFollowConnections
  <2>3. \A f \in Fds : session[f] # NoConn => session[f] \in {connections'[f], c} \cup missed
    BY <1>9, <2>1, <2>2, Zenon
  <2>4. SessionsFollowConnections' BY <1>2, <2>3, Zenon DEF SessionsFollowConnections
  <2> QED BY <1>2, <2>4, Zenon DEF LifeInv, SessionInv
<1>21. Ending' BY <1>2, <1>5, <1>6, Zenon DEF LifeInv, Ending
<1>22. ASSUME NEW f \in Fds, connections'[f] # NoConn
       PROVE  fd[connections'[f]] = f /\ stage'[connections'[f]] = "created"
  BY <1>2, <1>9, <1>22, Zenon DEF LifeInv, Owners
<1> QED BY <1>2, <1>6, <1>12, <1>17, <1>19, <1>20, <1>21, <1>22, OneConn, Zenon

(* The rest of the removal: the session goes, or its connection is missed.  *)
LEMMA OnDisconnectKeeps ==
  ASSUME LifeInv, OnDisconnect
  PROVE  LifeInv'
<1> DEFINE x == Functor("finalize", NoConn)
           fin == stopping /\ (\A f \in Fds : connections[f] = NoConn) /\ ~finalStopQueued
           N == IF fin THEN {<<Base, x>>} ELSE {}
           new == IF fin THEN {x} ELSE {}
<1>1. /\ LifeTypes /\ Places /\ todo \in AllQueues /\ batch \in AllQueues /\ NoConn \notin Conns
      /\ Base \in Threads
  BY LifecycleAssumption, Zenon DEF LifeInv, LifeTypes, QueueTypes, Threads
<1>2. /\ UNCHANGED <<stage, fd, loopOf, connected, channel, closed, connections, creating, stopping,
                     batch, joining, quit>>
      /\ leaving \in Conns /\ leaving' = NoConn
      /\ \/ session' = [session EXCEPT ![fd[leaving]] = NoConn] /\ missed' = missed
         \/ session' = session /\ missed' = missed \cup ({session[fd[leaving]]} \ {NoConn})
      /\ todo' = IF fin THEN Post(todo, Base, "finalize", NoConn) ELSE todo
  BY <1>1, Zenon DEF OnDisconnect, TryFinishStop, net, LifeTypes, NetTypes
<1>3. fin \in BOOLEAN /\ (fin => stopping) BY <1>1, Zenon DEF LifeTypes, NetTypes
<1> HIDE DEF fin
<1>4. todo' \in AllQueues /\ Moves(Queues, Queues', {}, N)
  <2>0. Queues' = Both(batch, todo') BY <1>2, Zenon DEF Queues, Both, Threads
  <2>1. CASE fin
    <3>1. todo' = Post(todo, Base, "finalize", NoConn) /\ N = {<<Base, x>>} BY <1>2, <2>1, Zenon
    <3>2. "finalize" \in Ops /\ NoConn \in Conns \cup {NoConn} BY Zenon DEF Ops, BaseOps
    <3> HIDE DEF N
    <3> QED BY <1>1, <2>0, <3>1, <3>2, PostPushes, Zenon DEF Queues
  <2>2. CASE ~fin
    <3>1. todo' = todo /\ N = {} BY <1>2, <2>2, Zenon
    <3> HIDE DEF N
    <3> QED BY <1>1, <2>0, <3>1, BothTyped, MovesNot, Zenon DEF Queues
  <2> QED BY <2>1, <2>2, Zenon
<1>5. x.op = "finalize" /\ x.conn = NoConn /\ \A a, d : x = Functor(a, d) <=> a = "finalize" /\ d = NoConn
  BY FunctorFields, SMTT(30)
<1> HIDE DEF x
<1>6. \A t, y : <<t, y>> \in N => y \in new /\ Fits(t, y)
  <2> SUFFICES ASSUME NEW t, NEW y, <<t, y>> \in N PROVE y \in new /\ Fits(t, y) BY Zenon
  <2>1. fin /\ t = Base /\ y = x BY Zenon
  <2> QED BY <1>5, <2>1, Zenon DEF Fits, BaseOps
<1>7. \A d \in Conns, a \in Ops : Functor(a, d) \notin new
  <2> SUFFICES ASSUME NEW d \in Conns, NEW a \in Ops PROVE Functor(a, d) # x BY Zenon
  <2> QED BY <1>1, <1>5, Zenon
<1> HIDE DEF N
<1>8. Places' /\ Effect({}, new)
  <2>1. \A d \in Conns, a \in Ops :
          /\ Functor(a, d) \in {} => <<Place(a, d), Functor(a, d)>> \in {}
          /\ Functor(a, d) \in new => <<Place(a, d), Functor(a, d)>> \in N
    BY <1>7, Zenon
  <2>2. \A t, y : <<t, y>> \in {} => y \in {} BY Zenon
  <2>3. UNCHANGED loopOf BY <1>2, Zenon
  <2> HIDE DEF new
  <2> QED BY <1>1, <1>4, <1>6, <2>1, <2>2, <2>3, QueueStep, Zenon
<1>9. ASSUME NEW d \in Conns PROVE Seen(d, {}, {})
  <2>1. \A a \in Ops : (Functor(a, d) \in {} <=> a \in {}) /\ (Functor(a, d) \in new <=> a \in {})
    BY <1>7, Zenon
  <2> HIDE DEF new
  <2> QED BY <1>8, <2>1, EffectSeen, SMTT(30)
<1>10. Ending'
  <2>1. Finishing' => Finishing \/ fin BY <1>8, Zenon DEF Effect
  <2> QED BY <1>2, <1>3, <2>1, Zenon DEF LifeInv, Ending
<1>11. fd[leaving] \in Fds /\ session \in [Fds -> Conns \cup {NoConn}]
  BY <1>1, <1>2, Zenon DEF LifeTypes, NetTypes
<1>12. \A f \in Fds : session'[f] # NoConn => session'[f] = session[f]
  BY <1>2, <1>11, Zenon
<1>13. \A f \in Fds : session'[f] # NoConn => session'[f] \in {connections'[f], NoConn} \cup missed'
  <2> SUFFICES ASSUME NEW f \in Fds, session'[f] # NoConn
               PROVE  session[f] \in {connections[f]} \cup missed'
    BY <1>2, <1>12, Zenon
  <2>1. /\ session[f] # NoConn /\ session[f] \in {connections[f], leaving} \cup missed
        /\ fd[session[f]] = f
    BY <1>12, Zenon DEF LifeInv, SessionInv, SessionsFollowConnections
  <2>2. CASE session[f] = leaving
    <3>1. f = fd[leaving] BY <2>1, <2>2, Zenon
    <3>2. session' # [session EXCEPT ![fd[leaving]] = NoConn] BY <1>11, <3>1, Zenon
    <3> QED BY <1>2, <2>1, <3>1, <3>2, Zenon
  <2>3. CASE session[f] # leaving BY <1>2, <2>1, <2>3, Zenon
  <2> QED BY <2>2, <2>3, Zenon
<1>14. SessionInv'
  <2>1. SessionsFollowConnections' BY <1>2, <1>13, Zenon DEF SessionsFollowConnections
  <2> QED BY <1>2, <1>12, <2>1, Zenon DEF LifeInv, SessionInv
<1>15. NetTypes' BY <1>1, <1>2, <1>11, Zenon DEF LifeTypes, NetTypes
<1>16. LifeTypes' BY <1>1, <1>2, <1>4, <1>15, TypesAfter, Zenon
<1> QED BY <1>2, <1>8, <1>9, <1>10, <1>14, <1>16, NoConnSees, Zenon

(* A message makes a session only for a registered connection.              *)
LEMMA MessageKeeps ==
  ASSUME LifeInv, NEW c \in Conns, Message(c)
  PROVE  LifeInv'
<1>1. /\ Creation(c) /\ Single(c) /\ Phases(c) /\ Base \in Threads /\ fd[c] \in Fds
      /\ "message" \in Ops /\ NoConn \notin Conns /\ Runs(Base, "message", c)
  BY InvOf, Zenon DEF Ops, BaseOps, Message
<1>2. /\ UNCHANGED <<stage, fd, loopOf, stopping, creating, joining, quit, connected, channel, closed,
                     connections, todo, leaving, missed>>
      /\ session' = IF c \in connected /\ ~stopping /\ session[fd[c]] = NoConn
                    THEN [session EXCEPT ![fd[c]] = c] ELSE session
  BY Zenon DEF Message, net
<1>3. /\ Places' /\ todo' \in AllQueues /\ batch' \in AllQueues
      /\ Seen(c, {"message"}, {}) /\ \A d \in Conns : d # c => Seen(d, {}, {})
      /\ Finishing' => Finishing
      /\ Pending("message", c)
  BY <1>1, <1>2, RunsAlone, Zenon
<1>4. c \in connected /\ ~stopping => Stored(c) BY <1>1, <1>3, Zenon DEF Phases
<1>5. session \in [Fds -> Conns \cup {NoConn}] BY Zenon DEF LifeInv, LifeTypes, NetTypes
<1>6. \A d \in Conns : SameConn(d) BY <1>2, Zenon DEF SameConn, Stored
<1>7. stage'[c] = stage[c] /\ (Stored(c)' <=> Stored(c)) BY <1>2, Zenon DEF Stored
<1>8. /\ \A a \in Ops \ {"message"} : Pending(a, c)' <=> Pending(a, c)
      /\ Pending("message", c)' => Pending("message", c)
  BY <1>1, <1>3, Zenon DEF Seen
<1>9. Creation(c)' BY <1>1, <1>2, <1>7, <1>8, Zenon DEF Creation, Ops, BaseOps, LoopOps
<1>10. Single(c)' BY <1>1, <1>3, Zenon DEF Single, Seen, Ops, BaseOps, LoopOps
<1>11. Phases(c)' BY <1>1, <1>2, <1>7, <1>8, Zenon DEF Phases, Ops, BaseOps, LoopOps
<1>12. Alive(c)' => Alive(c) BY <1>2, <1>7, <1>8, Zenon DEF Alive, Ops, BaseOps, LoopOps
<1>13. ConnLife(c)' BY <1>9, <1>10, <1>11, Zenon DEF ConnLife
<1>14. session' \in [Fds -> Conns \cup {NoConn}] BY <1>1, <1>2, <1>5, Zenon
<1>15. NetTypes' BY <1>2, <1>14, Zenon DEF LifeInv, LifeTypes, NetTypes
<1>16. LifeTypes' BY <1>3, <1>15, TypesAfter, Zenon
<1>17. SessionInv'
  <2> SUFFICES ASSUME NEW f \in Fds, session'[f] # NoConn
               PROVE  /\ session'[f] \in {connections[f], leaving} \cup missed
                      /\ fd[session'[f]] = f /\ stage[session'[f]] = "created"
    BY <1>2, Zenon DEF SessionInv, SessionsFollowConnections
  <2>1. CASE session'[f] = session[f] BY <2>1, Zenon DEF LifeInv, SessionInv, SessionsFollowConnections
  <2>2. CASE session'[f] # session[f]
    <3>1. f = fd[c] /\ session'[f] = c /\ c \in connected /\ ~stopping BY <1>2, <1>5, <2>2, Zenon
    <3>2. stage[c] = "created" BY <1>1, <3>1, Zenon DEF Creation
    <3> QED BY <1>4, <3>1, <3>2, Zenon DEF Stored
  <2> QED BY <2>1, <2>2, Zenon
<1>18. Ending' BY <1>2, <1>3, Zenon DEF LifeInv, Ending
<1>19. \A f \in Fds : connections'[f] # NoConn =>
         fd[connections'[f]] = f /\ stage'[connections'[f]] = "created"
  BY <1>2, Zenon DEF LifeInv, Owners
<1> QED BY <1>2, <1>3, <1>6, <1>12, <1>13, <1>16, <1>17, <1>18, <1>19, OneConn, Zenon

LEMMA FinalizeKeeps ==
  ASSUME LifeInv, Finalize
  PROVE  LifeInv'
<1> DEFINE x == Functor("finalize", NoConn)
<1>1. /\ LifeTypes /\ Places /\ todo \in AllQueues /\ batch \in AllQueues /\ NoConn \notin Conns
      /\ Base \in Threads
  BY LifecycleAssumption, Zenon DEF LifeInv, LifeTypes, QueueTypes, Threads
<1>2. /\ UNCHANGED <<stage, fd, loopOf, stopping, creating, quit, connected, channel, closed,
                     connections, todo, leaving, missed>>
      /\ session' = IF stopped THEN session ELSE [f \in Fds |-> NoConn]
      /\ Runs(Base, "finalize", NoConn)
  BY Zenon DEF Finalize, net
<1>3. batch' \in AllQueues BY <1>1, <1>2, RunPops, Zenon
<1>4. Moves(Both(batch', todo), Both(batch', todo'), {}, {})
  <2>1. Both(batch', todo) \in AllQueues BY <1>1, <1>3, BothTyped, Zenon
  <2> QED BY <1>2, <2>1, MovesNot, Zenon
<1>5. Places' /\ Effect({x}, {}) /\ Holds(Queues[Base], x)
  <2>1. PICK N : N = {} BY Zenon
  <2>2. \A u, y : <<u, y>> \in N => y \in N /\ Fits(u, y) BY <2>1, Zenon
  <2>3. \A d \in Conns, b \in Ops : Functor(b, d) \in N => <<Place(b, d), Functor(b, d)>> \in N
    BY <2>1, Zenon
  <2>4. todo' \in AllQueues /\ UNCHANGED loopOf BY <1>1, <1>2, Zenon
  <2>5. Moves(Both(batch', todo), Both(batch', todo'), {}, N) BY <1>4, <2>1, Zenon
  <2>6. Places' /\ Effect({x}, N) /\ Holds(Queues[Base], x)
    BY <1>1, <1>2, <2>2, <2>3, <2>4, <2>5, RunEffect, Zenon
  <2> QED BY <2>1, <2>6, Zenon
<1>6. stopping BY <1>5, Zenon DEF LifeInv, Ending, Finishing
<1>7. ASSUME NEW d \in Conns PROVE Seen(d, {}, {})
  <2>1. \A a \in Ops : (Functor(a, d) \in {x} <=> a \in {}) /\ (Functor(a, d) \in {} <=> a \in {})
    BY <1>1, FunctorFields, SMTT(30)
  <2> HIDE DEF x
  <2> QED BY <1>5, <2>1, EffectSeen, SMTT(30)
<1>8. session' \in [Fds -> Conns \cup {NoConn}] BY <1>2, Zenon DEF LifeInv, LifeTypes, NetTypes
<1>9. NetTypes' BY <1>2, <1>8, Zenon DEF LifeInv, LifeTypes, NetTypes
<1>10. LifeTypes' BY <1>1, <1>2, <1>3, <1>9, TypesAfter, Zenon
<1>11. Ending' BY <1>2, <1>6, Zenon DEF Ending
<1>12. SessionInv' BY <1>2, Zenon DEF LifeInv, SessionInv, SessionsFollowConnections
<1> QED BY <1>2, <1>5, <1>7, <1>10, <1>11, <1>12, NoConnSees, Zenon

(* A connection that does not exist yet.                                    *)
LEMMA UnusedConn ==
  ASSUME LifeInv, NEW c \in Conns, stage[c] = "unused"
  PROVE  /\ \A t \in Threads : \A a \in Ops : ~Holds(Queues[t], Functor(a, c))
         /\ \A a \in Ops : ~Pending(a, c)
         /\ c \notin connected /\ c \notin channel /\ c \notin closed /\ ~Stored(c)
         /\ \A f \in Fds : connections[f] # c
         /\ \A l \in Loops : creating[l] # c
<1>1. Creation(c) /\ NoConn \notin Conns /\ fd[c] \in Fds BY InvOf, Zenon
<1>2. ASSUME NEW t \in Threads, NEW a \in Ops PROVE ~Holds(Queues[t], Functor(a, c))
  <2> SUFFICES ASSUME Holds(Queues[t], Functor(a, c)) PROVE FALSE BY Zenon
  <2>1. Functor(a, c) \in Functors /\ Functor(a, c).op = a /\ Functor(a, c).conn = c BY FunctorFields, Zenon
  <2>2. Fits(t, Functor(a, c)) BY <2>1, Zenon DEF LifeInv, Places
  <2>3. a # "finalize" /\ t = Place(a, c) BY <1>1, <2>1, <2>2, Zenon DEF Fits, Place
  <2>4. Pending(a, c) BY <2>3, Zenon DEF Pending
  <2> QED BY <1>1, <2>3, <2>4, Zenon DEF Creation
<1>3. \A a \in Ops : ~Pending(a, c)
  <2>1. LifeTypes BY Zenon DEF LifeInv
  <2> QED BY <1>2, <2>1, PlaceIsThread, Zenon DEF Pending
<1>4. c \notin connected /\ c \notin channel /\ c \notin closed /\ \A l \in Loops : creating[l] # c
  BY <1>1, Zenon DEF Creation
<1>5. \A f \in Fds : connections[f] # c BY <1>1, Zenon DEF LifeInv, Owners
<1> QED BY <1>1, <1>2, <1>3, <1>4, <1>5, Zenon DEF Stored

LEMMA AcceptRefusesKeeps ==
  ASSUME LifeInv, NEW c \in Conns, NEW f \in Fds, NEW l \in Loops, Accept(c, f, l),
         connections[f] # NoConn
  PROVE  LifeInv'
<1>1. /\ UNCHANGED <<fd, loopOf, todo, batch, connected, channel, closed, connections, session, leaving, missed,
                     creating, stopping, quit, joining>>
      /\ stage' = [stage EXCEPT ![c] = "refused"] /\ stage[c] = "unused"
  BY Zenon DEF Accept, server
<1>2. Queues' = Queues BY <1>1, Zenon DEF Queues, Both, Threads
<1>3. Places' /\ (\A d \in Conns : Seen(d, {}, {})) /\ (Finishing' => Finishing)
  BY <1>1, <1>2, QueuesStay, Zenon
<1>4. stage \in [Conns -> {"unused", "accepted", "created", "refused"}]
  BY Zenon DEF LifeInv, LifeTypes, NetTypes
<1>5. /\ stage' \in [Conns -> {"unused", "accepted", "created", "refused"}]
      /\ stage'[c] = "refused" /\ \A d \in Conns : d # c => stage'[d] = stage[d]
  BY <1>1, <1>4, Zenon
<1>6. \A d \in Conns : d # c => SameConn(d) BY <1>1, <1>5, Zenon DEF SameConn, Stored
<1>7. /\ \A a \in Ops : ~Pending(a, c)
      /\ c \notin connected /\ c \notin channel /\ c \notin closed /\ ~Stored(c)
      /\ \A e \in Fds : connections[e] # c
      /\ \A k \in Loops : creating[k] # c
  BY <1>1, UnusedConn, Zenon
<1>8. \A a \in Ops : ~Pending(a, c)' BY <1>3, <1>7, Zenon DEF Seen
<1>9. ~Stored(c)' BY <1>1, <1>7, Zenon DEF Stored
<1>10. Creation(c)' BY <1>1, <1>7, <1>8, Zenon DEF Creation, Ops, BaseOps, LoopOps
<1>11. Single(c)
  BY InvOf, Zenon
<1>12. Single(c)' BY <1>3, <1>11, Zenon DEF Single, Seen, Ops, BaseOps, LoopOps
<1>13. Phases(c)' BY <1>1, <1>7, <1>8, <1>9, Zenon DEF Phases, Ops, BaseOps, LoopOps
<1>14. ConnLife(c)' BY <1>10, <1>12, <1>13, Zenon DEF ConnLife
<1>15. ~Alive(c)' BY <1>1, <1>5, <1>7, <1>8, <1>9, Zenon DEF Alive, Ops, BaseOps, LoopOps
<1>16. NetTypes' BY <1>1, <1>5, Zenon DEF LifeInv, LifeTypes, NetTypes
<1>17. LifeTypes'
  <2>1. todo' \in AllQueues /\ batch' \in AllQueues BY <1>1, Zenon DEF LifeInv, LifeTypes, QueueTypes
  <2> QED BY <1>16, <2>1, TypesAfter, Zenon
<1>18. Ending' /\ SessionInv'
  <2>1. Ending' BY <1>1, <1>3, Zenon DEF LifeInv, Ending
  <2>2. stage[c] # "created" BY <1>1, Zenon
  <2>3. \A d \in Conns : d # c => stage'[d] = stage[d] /\ fd'[d] = fd[d] BY <1>1, <1>5, Zenon
  <2> QED BY <1>1, <2>1, <2>2, <2>3, SessionsStay, Zenon
<1>19. ASSUME NEW e \in Fds, connections'[e] # NoConn
       PROVE  fd[connections'[e]] = e /\ stage'[connections'[e]] = "created"
  <2>1. connections[e] \in Conns \ {c} BY <1>1, <1>7, <1>19, Zenon DEF LifeInv, LifeTypes, NetTypes
  <2> QED BY <1>1, <1>5, <1>19, <2>1, Zenon DEF LifeInv, Owners
<1> QED BY <1>1, <1>3, <1>6, <1>14, <1>15, <1>17, <1>18, <1>19, OneConn, Zenon

(* The kernel gives a descriptor nobody has.                                *)
LEMMA AcceptKeeps ==
  ASSUME LifeInv, NEW c \in Conns, NEW f \in Fds, NEW l \in Loops, Accept(c, f, l),
         connections[f] = NoConn
  PROVE  LifeInv'
<1> DEFINE x == Functor("create", c)
<1>1. /\ UNCHANGED <<batch, connected, channel, closed, connections, session, leaving, missed, creating, stopping,
                     quit, joining>>
      /\ stage[c] = "unused" /\ ~stopping /\ f \in FreeFds
      /\ stage' = [stage EXCEPT ![c] = "accepted"]
      /\ fd' = [fd EXCEPT ![c] = f] /\ loopOf' = [loopOf EXCEPT ![c] = l]
      /\ todo' = Post(todo, l, "create", c)
  BY Zenon DEF Accept, server
<1>2. /\ LifeTypes /\ Places /\ todo \in AllQueues /\ batch \in AllQueues /\ NoConn \notin Conns
      /\ Base \in Threads /\ l \in Threads /\ l # Base
  BY LifecycleAssumption, Zenon DEF LifeInv, LifeTypes, QueueTypes, Threads
<1>3. /\ stage \in [Conns -> {"unused", "accepted", "created", "refused"}]
      /\ fd \in [Conns -> Fds] /\ loopOf \in [Conns -> Loops]
      /\ connections \in [Fds -> Conns \cup {NoConn}]
  BY <1>2, Zenon DEF LifeTypes, NetTypes
<1>4. /\ stage' \in [Conns -> {"unused", "accepted", "created", "refused"}]
      /\ fd' \in [Conns -> Fds] /\ loopOf' \in [Conns -> Loops]
      /\ stage'[c] = "accepted" /\ fd'[c] = f /\ loopOf'[c] = l
      /\ \A d \in Conns : d # c => stage'[d] = stage[d] /\ fd'[d] = fd[d] /\ loopOf'[d] = loopOf[d]
  BY <1>1, <1>3, Zenon
<1>5. /\ \A t \in Threads : \A a \in Ops : ~Holds(Queues[t], Functor(a, c))
      /\ c \notin connected /\ c \notin channel /\ c \notin closed /\ ~Stored(c)
      /\ \A e \in Fds : connections[e] # c
      /\ \A k \in Loops : creating[k] # c
  BY <1>1, UnusedConn, Zenon
<1>6. todo' \in AllQueues /\ Moves(Queues, Queues', {}, {<<l, x>>})
  BY <1>1, <1>2, PostPushes, Zenon DEF Queues, Ops, LoopOps
<1>7. \A a, d : Functor(a, d) = x <=> a = "create" /\ d = c BY FunctorFields, SMTT(30)
<1>8. x.op = "create" /\ x.conn = c BY FunctorFields, Zenon
<1> HIDE DEF x
<1>9. \A t \in Threads : \A y :
        /\ Holds(Queues'[t], y) => Holds(Queues[t], y) \/ <<t, y>> = <<l, x>>
        /\ Holds(Queues[t], y) \/ <<t, y>> = <<l, x>> => Holds(Queues'[t], y)
        /\ Once(Queues[t], y) /\ (<<t, y>> = <<l, x>> => ~Holds(Queues[t], y)) => Once(Queues'[t], y)
        /\ \A z : /\ Before(Queues[t], y, z) /\ y # z /\ <<t, y>> # <<l, x>>
                  => Before(Queues'[t], y, z)
  BY <1>6, Zenon DEF Moves
<1>10. Places'
  <2> SUFFICES ASSUME NEW t \in Threads, NEW y \in Functors, Holds(Queues'[t], y) PROVE Fits(t, y)'
    BY Zenon DEF Places, Threads, Functors, Ops, BaseOps, LoopOps
  <2>1. CASE <<t, y>> = <<l, x>> BY <1>2, <1>4, <1>8, <2>1, Zenon DEF Fits, BaseOps
  <2>2. CASE <<t, y>> # <<l, x>>
    <3>1. Holds(Queues[t], y) BY <1>9, <2>2, Zenon
    <3>2. Fits(t, y) BY <1>2, <3>1, Zenon DEF Places
    <3>3. y = Functor(y.op, y.conn) /\ y.op \in Ops /\ y.conn \in Conns \cup {NoConn}
      BY Zenon DEF Functors, Functor
    <3>4. y.conn # c BY <1>5, <3>1, <3>3, Zenon
    <3>5. t # Base => y.conn \in Conns BY <3>2, <3>3, Zenon DEF Fits, BaseOps
    <3> QED BY <1>4, <3>2, <3>4, <3>5, Zenon DEF Fits, BaseOps
  <2> QED BY <2>1, <2>2, Zenon
<1>11. ASSUME NEW d \in Conns, d # c PROVE Seen(d, {}, {}) /\ SameConn(d)
  <2>1. loopOf'[d] = loopOf[d] /\ loopOf[d] \in Threads BY <1>3, <1>4, <1>11, Zenon DEF Threads
  <2>2. ASSUME NEW a \in Ops
        PROVE  (Pending(a, d)' <=> Pending(a, d)) /\ (Unique(a, d) => Unique(a, d)')
    <3> DEFINE y == Functor(a, d)
               t == Place(a, d)
    <3>1. Place(a, d)' = t /\ t \in Threads BY <1>2, <2>1, Zenon DEF Place, BaseOps
    <3>2. y # x BY <1>7, <1>11, SMTT(30)
    <3>3. /\ Pending(a, d) <=> Holds(Queues[t], y)
          /\ Unique(a, d) <=> Once(Queues[t], y)
          /\ Pending(a, d)' <=> Holds(Queues'[t], y)
          /\ Unique(a, d)' <=> Once(Queues'[t], y)
      BY <3>1, Zenon DEF Pending, Unique, Functor
    <3> HIDE DEF t, y
    <3> QED BY <1>9, <3>1, <3>2, <3>3, Zenon
  <2>3. StartsFirst(d) => StartsFirst(d)'
    <3> DEFINE y == Functor("established", d)
               z == Functor("forceClose", d)
               t == loopOf[d]
    <3>1. y # x /\ y # z /\ t \in Threads BY <1>7, <1>11, <2>1, FunctorFields
    <3>2. (StartsFirst(d) <=> Before(Queues[t], y, z)) /\ (StartsFirst(d)' <=> Before(Queues'[t], y, z))
      BY <2>1, Zenon DEF StartsFirst, Functor
    <3> HIDE DEF t, y, z
    <3> QED BY <1>9, <3>1, <3>2, SMTT(30)
  <2>4. Seen(d, {}, {}) BY <2>2, <2>3, Zenon DEF Seen
  <2>5. SameConn(d) BY <1>1, <1>4, <1>11, Zenon DEF SameConn, Stored
  <2> QED BY <2>4, <2>5, Zenon
<1>12. /\ \A a \in Ops : Pending(a, c)' <=> a = "create"
       /\ \A a \in Ops : Unique(a, c)'
       /\ StartsFirst(c)'
  <2>1. ASSUME NEW a \in Ops PROVE (Pending(a, c)' <=> a = "create") /\ Unique(a, c)'
    <3> DEFINE y == Functor(a, c)
    <3>1. PICK t \in Threads : t = Place(a, c)' /\ (a = "create" => t = l)
      BY <1>2, <1>4, Zenon DEF Place, BaseOps
    <3>2. ~Holds(Queues[t], y) /\ Once(Queues[t], y) BY <1>5, <3>1, HoldsNone, Zenon
    <3>3. y = x <=> a = "create" BY <1>7, Zenon
    <3>4. (Pending(a, c)' <=> Holds(Queues'[t], y)) /\ (Unique(a, c)' <=> Once(Queues'[t], y))
      BY <3>1, Zenon DEF Pending, Unique, Functor
    <3> HIDE DEF y
    <3> QED BY <1>9, <3>1, <3>2, <3>3, <3>4, Zenon
  <2>2. StartsFirst(c)'
    <3> DEFINE y == Functor("established", c)
               z == Functor("forceClose", c)
    <3>1. y # x /\ y # z BY <1>7, FunctorFields, SMTT(30)
    <3>2. ~Holds(Queues[l], y) BY <1>2, <1>5, Zenon DEF Ops, LoopOps
    <3>3. Before(Queues[l], y, z) BY <3>2, HoldsNone, Zenon
    <3>4. StartsFirst(c)' <=> Before(Queues'[l], y, z) BY <1>4, Zenon DEF StartsFirst, Functor
    <3> HIDE DEF y, z
    <3> QED BY <1>2, <1>9, <3>1, <3>3, <3>4, SMTT(30)
  <2> QED BY <2>1, <2>2, Zenon
<1>13. ~Stored(c)' BY <1>1, <1>4, <1>5, Zenon DEF Stored
<1>14. Creation(c)' BY <1>1, <1>4, <1>5, <1>12, Zenon DEF Creation, Ops, BaseOps, LoopOps
<1>15. Single(c)' BY <1>12, Zenon DEF Single, Ops, BaseOps, LoopOps
<1>16. Phases(c)' BY <1>1, <1>5, <1>12, <1>13, SMTT(30) DEF Phases, Ops, BaseOps, LoopOps
<1>17. \A d \in Conns : ConnLife(d)' /\ (d # c /\ Alive(d)' => Alive(d))
  <2> SUFFICES ASSUME NEW d \in Conns PROVE ConnLife(d)' /\ (d # c /\ Alive(d)' => Alive(d)) BY Zenon
  <2>1. CASE d = c BY <1>14, <1>15, <1>16, <2>1, Zenon DEF ConnLife
  <2>2. CASE d # c
    <3>1. ConnLife(d) /\ (stopping => stopping') BY <1>1, Zenon DEF LifeInv
    <3> QED BY <1>11, <2>2, <3>1, QuietConn, Zenon
  <2> QED BY <2>1, <2>2, Zenon
<1>18. ASSUME NEW d \in Conns, d # c, Alive(d) PROVE fd[d] # f
  <2>1. FdOpen(d)
    <3>1. stage[d] = "accepted" \/ Stored(d) \/ Pending("register", d) \/ Pending("remove", d)
      BY <1>1, <1>18, InvOf, Zenon DEF Alive, Phases
    <3> QED BY <3>1, KnownIsOpen, Zenon DEF FdOpen
  <2> QED BY <1>1, <2>1, Zenon DEF FreeFds
<1>19. Owners'
  <2>1. \A e, d \in Conns : Alive(e) /\ Alive(d) /\ fd[e] = fd[d] => e = d BY Zenon DEF LifeInv, Owners
  <2>2. ASSUME NEW e \in Conns, NEW d \in Conns, Alive(e)', Alive(d)', fd'[e] = fd'[d] PROVE e = d
    <3>1. CASE e # c /\ d # c BY <1>4, <1>17, <2>1, <2>2, <3>1, Zenon
    <3>2. CASE e = c /\ d # c BY <1>4, <1>17, <1>18, <2>2, <3>2, Zenon
    <3>3. CASE e # c /\ d = c BY <1>4, <1>17, <1>18, <2>2, <3>3, Zenon
    <3> QED BY <3>1, <3>2, <3>3, Zenon
  <2>3. ASSUME NEW e \in Fds, connections[e] # NoConn
        PROVE  fd'[connections[e]] = e /\ stage'[connections[e]] = "created"
    <3>1. connections[e] \in Conns \ {c} BY <1>3, <1>5, <2>3, Zenon
    <3>2. fd[connections[e]] = e /\ stage[connections[e]] = "created" BY <2>3, Zenon DEF LifeInv, Owners
    <3> QED BY <1>4, <3>1, <3>2, Zenon
  <2> QED BY <1>1, <2>2, <2>3, Zenon DEF Owners
<1>20. NetTypes' BY <1>1, <1>2, <1>4, Zenon DEF LifeTypes, NetTypes
<1>21. LifeTypes' BY <1>1, <1>2, <1>6, <1>20, TypesAfter, Zenon
<1>22. Finishing' => Finishing
  <2>1. Functor("finalize", NoConn) # x BY <1>7, SMTT(30)
  <2> QED BY <1>2, <1>9, <2>1, Zenon DEF Finishing, Functor
<1>23. Ending' /\ SessionInv'
  <2>1. Ending' BY <1>1, <1>22, Zenon DEF LifeInv, Ending
  <2>2. stage[c] # "created" BY <1>1, Zenon
  <2>3. \A d \in Conns : d # c => stage'[d] = stage[d] /\ fd'[d] = fd[d] BY <1>4, Zenon
  <2> QED BY <1>1, <2>1, <2>2, <2>3, SessionsStay, Zenon
<1> QED BY <1>10, <1>17, <1>19, <1>21, <1>23, Zenon DEF LifeInv

-----------------------------------------------------------------------------
(* stop(): every io loop is sent the closes of its connections.             *)

(* The functors F(1), F(2), ... are added to the queues.                    *)
LEMMA ConcatMoves ==
  ASSUME NEW b \in AllQueues, NEW q \in AllQueues, NEW p \in AllQueues, NEW q1, NEW N,
         q1 = [t \in Threads |-> q[t] \o p[t]],
         \A t \in Threads : \A y : <<t, y>> \in N <=> Holds(p[t], y),
         \A t \in Threads : \A y : Once(p[t], y)
  PROVE  q1 \in AllQueues /\ Moves(Both(b, q), Both(b, q1), {}, N)
<1> DEFINE Q == Both(b, q)
           R == Both(b, q1)
<1>1. \A t \in Threads : /\ b[t] \in Seq(Functors) /\ q[t] \in Seq(Functors) /\ p[t] \in Seq(Functors)
  BY Zenon DEF AllQueues
<1>2. q1 \in AllQueues /\ \A t \in Threads : q1[t] = q[t] \o p[t] BY <1>1, SMTT(30) DEF AllQueues
<1>3. Q \in AllQueues /\ \A t \in Threads : Q[t] = b[t] \o q[t] BY BothTyped, Zenon
<1>4. R \in AllQueues /\ \A t \in Threads : R[t] = b[t] \o q1[t] BY <1>2, BothTyped, Zenon
<1> HIDE DEF Q, R
<1>5. ASSUME NEW t \in Threads PROVE R[t] = Q[t] \o p[t] /\ Q[t] \in Seq(Functors)
  <2> DEFINE B == b[t]
             C == q[t]
             D == p[t]
  <2>1. b[t] \o (q[t] \o p[t]) = (b[t] \o q[t]) \o p[t]
    <3>1. B \in Seq(Functors) /\ C \in Seq(Functors) /\ D \in Seq(Functors) BY <1>1, Zenon
    <3> HIDE DEF B, C, D
    <3>2. B \o (C \o D) = (B \o C) \o D BY <3>1, QueueConcat, SMTT(30)
    <3> QED BY <3>2, Zenon DEF B, C, D
  <2> QED BY <1>2, <1>3, <1>4, <2>1, Zenon DEF AllQueues
<1>6. ASSUME NEW t \in Threads, NEW y
      PROVE  /\ Holds(R[t], y) => Holds(Q[t], y) \/ <<t, y>> \in N
             /\ Holds(Q[t], y) \/ <<t, y>> \in N => Holds(R[t], y)
             /\ Once(Q[t], y) /\ (<<t, y>> \in N => ~Holds(Q[t], y)) => Once(R[t], y)
             /\ \A z : /\ Before(Q[t], y, z) /\ y # z
                       /\ <<t, y>> \in N => ~Holds(Q[t], z) /\ <<t, z>> \notin N
                       => Before(R[t], y, z)
  <2>1. /\ R[t] = Q[t] \o p[t] /\ Q[t] \in Seq(Functors) /\ p[t] \in Seq(Functors) BY <1>1, <1>5, Zenon
  <2>2. /\ Holds(R[t], y) <=> Holds(Q[t], y) \/ Holds(p[t], y)
        /\ Once(Q[t], y) /\ ~Holds(p[t], y) => Once(R[t], y)
        /\ ~Holds(Q[t], y) /\ Once(p[t], y) => Once(R[t], y)
        /\ \A z : Before(Q[t], y, z) /\ ~Holds(p[t], y) => Before(R[t], y, z)
    BY <2>1, HoldsConcat, SMTT(30)
  <2>3. \A z : Holds(R[t], z) <=> Holds(Q[t], z) \/ Holds(p[t], z) BY <2>1, HoldsConcat, SMTT(30)
  <2>4. \A z : ~Holds(R[t], z) => Before(R[t], y, z) BY HoldsNone, Zenon
  <2> QED BY <2>2, <2>3, <2>4, Zenon
<1>7. Moves(Q, R, {}, N) BY <1>4, <1>6, Zenon DEF Moves
<1> QED BY <1>2, <1>7, Zenon DEF Q, R

LEMMA StopPosts ==
  ASSUME LifeInv, Stop
  PROVE  \E fin \in BOOLEAN : \E q1 \in AllQueues : \E N :
           /\ Moves(Queues, Both(batch, q1), {}, N)
           /\ \A t, y : <<t, y>> \in N =>
                \E c \in Conns : y = Functor("forceClose", c) /\ t = loopOf[c] /\ Stored(c)
           /\ todo' = IF fin THEN Post(q1, Base, "finalize", NoConn) ELSE q1
<1> DEFINE open == {connections[f] : f \in Fds} \ {NoConn}
           on(k) == {c \in open : loopOf[c] = k}
<1>1. PICK order \in [Loops -> UNION {Orders(S) : S \in SUBSET open}] :
        /\ \A l \in Loops : order[l] \in Orders(on(l))
        /\ TryFinishStop(connections, TRUE,
             [t \in Threads |-> IF t = Base THEN todo[t]
               ELSE todo[t] \o [i \in 1..Len(order[t]) |-> Functor("forceClose", order[t][i])]])
  BY Zenon DEF Stop
<1> DEFINE q1 == [t \in Threads |-> IF t = Base THEN todo[t]
                   ELSE todo[t] \o [i \in 1..Len(order[t]) |-> Functor("forceClose", order[t][i])]]
           fin == (\A f \in Fds : connections[f] = NoConn) /\ ~finalStopQueued
           p == [t \in Threads |-> IF t = Base THEN <<>>
                   ELSE [i \in 1..Len(order[t]) |-> Functor("forceClose", order[t][i])]]
           N == UNION {{<<t, p[t][i]>> : i \in 1..Len(p[t])} : t \in Threads}
<1>2. todo' = IF fin THEN Post(q1, Base, "finalize", NoConn) ELSE q1 BY <1>1, Zenon DEF TryFinishStop
<1>3. /\ todo \in AllQueues /\ batch \in AllQueues /\ NoConn \notin Conns /\ Base \notin Loops
      /\ connections \in [Fds -> Conns \cup {NoConn}]
  BY LifecycleAssumption, Zenon DEF LifeInv, LifeTypes, NetTypes, QueueTypes
<1>4. ASSUME NEW c \in open PROVE c \in Conns /\ Stored(c)
  BY <1>3, <1>4, SMTT(30) DEF LifeInv, Owners, Stored
<1>5. ASSUME NEW l \in Loops
      PROVE  /\ order[l] \in Seq(on(l)) /\ Len(order[l]) \in Nat
             /\ \A i, j \in 1..Len(order[l]) : order[l][i] = order[l][j] => i = j
             /\ \A i \in 1..Len(order[l]) : order[l][i] \in on(l)
  <2> DEFINE s == order[l]
             T == on(l)
  <2>1. s \in Orders(T) BY <1>1, Zenon
  <2> HIDE DEF s, T
  <2>2. /\ \A i, j \in 1..Len(s) : s[i] = s[j] => i = j
        /\ s \in UNION {[1..n -> T] : n \in 0..Cardinality(T)}
    BY <2>1, Zenon DEF Orders
  <2>3. PICK n \in 0..Cardinality(T) : s \in [1..n -> T] BY <2>2, Zenon
  <2>4. n \in Nat BY <2>3, SMTT(30)
  <2>5. s \in Seq(T) /\ Len(s) = n BY <2>3, <2>4, SMTT(30)
  <2>6. \A i \in 1..Len(s) : s[i] \in T BY <2>3, <2>5, Zenon
  <2>7. /\ s \in Seq(T) /\ Len(s) \in Nat
        /\ \A i, j \in 1..Len(s) : s[i] = s[j] => i = j
        /\ \A i \in 1..Len(s) : s[i] \in T
    BY <2>2, <2>4, <2>5, <2>6, Zenon
  <2> QED BY <2>7, Zenon DEF s, T
<1>6. ASSUME NEW t \in Loops
      PROVE  /\ p[t] \in Seq(Functors) /\ Len(p[t]) = Len(order[t])
             /\ \A i \in 1..Len(p[t]) :
                  order[t][i] \in Conns /\ Stored(order[t][i]) /\ loopOf[order[t][i]] = t
                  /\ p[t][i] = Functor("forceClose", order[t][i])
             /\ \A i, j \in 1..Len(p[t]) : p[t][i] = p[t][j] => i = j
  <2>1. p[t] = [i \in 1..Len(order[t]) |-> Functor("forceClose", order[t][i])] BY <1>3, Zenon DEF Threads
  <2>2. \A i \in 1..Len(order[t]) : /\ order[t][i] \in Conns /\ Stored(order[t][i])
                                    /\ loopOf[order[t][i]] = t
    BY <1>4, <1>5, Zenon
  <2>3. \A i \in 1..Len(order[t]) : Functor("forceClose", order[t][i]) \in Functors
    BY <2>2, FunctorFields, Zenon DEF Ops, LoopOps
  <2>4. Len(order[t]) \in Nat BY <1>5, Zenon
  <2> HIDE DEF p
  <2>5. p[t] \in Seq(Functors) /\ Len(p[t]) = Len(order[t]) BY <2>1, <2>3, <2>4, SMTT(30)
  <2>6. \A i \in 1..Len(p[t]) : p[t][i] = Functor("forceClose", order[t][i]) BY <2>1, <2>5, Zenon
  <2>7. \A i, j \in 1..Len(p[t]) : p[t][i] = p[t][j] => order[t][i] = order[t][j]
    BY <2>6, FunctorFields, SMTT(30)
  <2>8. \A i, j \in 1..Len(order[t]) : order[t][i] = order[t][j] => i = j BY <1>5, Zenon
  <2> QED BY <2>2, <2>5, <2>6, <2>7, <2>8, Zenon
<1>7. p \in AllQueues
  <2>1. \A t \in Threads : p[t] \in Seq(Functors)
    <3> SUFFICES ASSUME NEW t \in Threads PROVE p[t] \in Seq(Functors) BY Zenon
    <3>1. CASE t = Base BY <3>1, SMTT(30)
    <3>2. CASE t # Base BY <1>6, <3>2, Zenon DEF Threads
    <3> QED BY <3>1, <3>2, Zenon
  <2>2. p = [t \in Threads |-> p[t]] BY Zenon
  <2> HIDE DEF p
  <2> QED BY <2>1, <2>2, Zenon DEF AllQueues
<1>8. q1 = [t \in Threads |-> todo[t] \o p[t]]
  <2> SUFFICES ASSUME NEW t \in Threads PROVE q1[t] = todo[t] \o p[t] BY Zenon
  <2>1. todo[t] \in Seq(Functors) BY <1>3, Zenon DEF AllQueues
  <2>2. CASE t = Base
    <3>1. q1[t] = todo[t] /\ p[t] = <<>> BY <2>2, Zenon
    <3> HIDE DEF q1, p
    <3> QED BY <2>1, <3>1, QueueSwap, Zenon
  <2>3. CASE t # Base BY <2>3, Zenon
  <2> QED BY <2>2, <2>3, Zenon
<1>9. p[Base] = <<>> /\ Base \in Threads BY Zenon DEF Threads
<1> HIDE DEF p, q1, fin
<1>10. \A t \in Threads : \A y : <<t, y>> \in N <=> Holds(p[t], y) BY SMTT(30) DEF Holds
<1>11. \A t \in Threads : \A y : Once(p[t], y)
  <2> SUFFICES ASSUME NEW t \in Threads, NEW y PROVE Once(p[t], y) BY Zenon
  <2>1. CASE t = Base BY <1>9, <2>1, HoldsEmpty, Zenon
  <2>2. CASE t # Base
    <3>1. t \in Loops BY <2>2, Zenon DEF Threads
    <3>2. \A i, j \in 1..Len(p[t]) : p[t][i] = p[t][j] => i = j BY <1>6, <3>1, Zenon
    <3> QED BY <3>2, Zenon DEF Once
  <2> QED BY <2>1, <2>2, Zenon
<1>12. ASSUME NEW t, NEW y, <<t, y>> \in N
       PROVE  \E c \in Conns : y = Functor("forceClose", c) /\ t = loopOf[c] /\ Stored(c)
  <2>1. t \in Threads BY <1>12, SMTT(30)
  <2>2. PICK i \in 1..Len(p[t]) : p[t][i] = y BY <1>10, <1>12, <2>1, Zenon DEF Holds
  <2>3. t \in Loops BY <1>9, <2>1, <2>2, SMTT(30) DEF Threads
  <2>4. /\ order[t][i] \in Conns /\ Stored(order[t][i]) /\ loopOf[order[t][i]] = t
        /\ p[t][i] = Functor("forceClose", order[t][i])
    BY <1>6, <2>2, <2>3, Zenon
  <2> QED BY <2>2, <2>4, Zenon
<1> HIDE DEF N
<1>13. q1 \in AllQueues /\ Moves(Queues, Both(batch, q1), {}, N)
  BY <1>3, <1>7, <1>8, <1>10, <1>11, ConcatMoves, Zenon DEF Queues
<1>14. fin \in BOOLEAN BY Zenon DEF fin
<1> QED BY <1>2, <1>12, <1>13, <1>14, Zenon

LEMMA StopKeeps ==
  ASSUME LifeInv, Stop
  PROVE  LifeInv'
<1> DEFINE x == Functor("finalize", NoConn)
<1>0. PICK fin \in BOOLEAN, q1 \in AllQueues : \E N :
        /\ Moves(Queues, Both(batch, q1), {}, N)
        /\ \A t, y : <<t, y>> \in N =>
             \E c \in Conns : y = Functor("forceClose", c) /\ t = loopOf[c] /\ Stored(c)
        /\ todo' = IF fin THEN Post(q1, Base, "finalize", NoConn) ELSE q1
  BY StopPosts, Zenon
<1>1. PICK N :
        /\ Moves(Queues, Both(batch, q1), {}, N)
        /\ \A t, y : <<t, y>> \in N =>
             \E c \in Conns : y = Functor("forceClose", c) /\ t = loopOf[c] /\ Stored(c)
        /\ todo' = IF fin THEN Post(q1, Base, "finalize", NoConn) ELSE q1
  BY <1>0, Zenon
<1>2. /\ UNCHANGED <<stage, fd, loopOf, connected, channel, closed, connections, session, leaving, missed, batch,
                     creating, quit, joining>>
      /\ stopping' = TRUE
  BY Zenon DEF Stop, net
<1>3. /\ LifeTypes /\ Places /\ todo \in AllQueues /\ batch \in AllQueues /\ NoConn \notin Conns
      /\ Base \in Threads /\ Base \notin Loops
  BY LifecycleAssumption, Zenon DEF LifeInv, LifeTypes, QueueTypes, Threads
<1>4. x.op = "finalize" /\ x.conn = NoConn /\ \A a, d : x = Functor(a, d) <=> a = "finalize" /\ d = NoConn
  BY FunctorFields, SMTT(30)
<1>5. PICK M : /\ M \in {{}, {<<Base, x>>}} /\ todo' \in AllQueues
               /\ Moves(Both(batch, q1), Queues', {}, M)
  <2>1. CASE fin
    <3>1. todo' = Post(q1, Base, "finalize", NoConn) BY <1>1, <2>1, Zenon
    <3>2. todo' \in AllQueues /\ Moves(Both(batch, q1), Both(batch, todo'), {}, {<<Base, x>>})
      BY <1>3, <3>1, PostPushes, Zenon DEF Ops, BaseOps
    <3>3. Queues' = Both(batch, todo') BY <1>2, Zenon DEF Queues, Both, Threads
    <3> HIDE DEF x
    <3> QED BY <3>2, <3>3, Zenon
  <2>2. CASE ~fin
    <3>1. Both(batch, q1) \in AllQueues BY <1>3, BothTyped, Zenon
    <3>2. Queues' = Both(batch, q1) /\ todo' = q1 BY <1>1, <1>2, <2>2, Zenon DEF Queues, Both, Threads
    <3>3. Moves(Both(batch, q1), Both(batch, q1), {}, {}) BY <3>1, MovesNot, Zenon
    <3> QED BY <3>2, <3>3, Zenon
  <2> QED BY <2>1, <2>2, Zenon
<1> HIDE DEF x
<1>6. N \cap M = {}
  <2> SUFFICES ASSUME NEW z \in N, z \in M PROVE FALSE BY Zenon
  <2>1. z = <<Base, x>> BY <1>5, Zenon
  <2>2. PICK c \in Conns : x = Functor("forceClose", c) BY <1>1, <2>1, Zenon
  <2> QED BY <1>4, <2>2, SMTT(30)
<1> DEFINE K == N \cup M
<1>7. Moves(Queues, Queues', {}, K) BY <1>1, <1>5, <1>6, MovesTwice, Zenon
<1>8. \A t, y : <<t, y>> \in K =>
        \/ \E c \in Conns : y = Functor("forceClose", c) /\ t = loopOf[c] /\ Stored(c)
        \/ t = Base /\ y = x
  BY <1>1, <1>5, SMTT(30)
<1> DEFINE new == {Functor("forceClose", c) : c \in {d \in Conns : <<loopOf[d], Functor("forceClose", d)>> \in K}}
                    \cup {x}
<1> HIDE DEF K
<1>9. ASSUME NEW t, NEW y, <<t, y>> \in K PROVE y \in new /\ Fits(t, y)
  <2>1. CASE t = Base /\ y = x BY <1>4, <2>1, Zenon DEF Fits, BaseOps
  <2>2. ASSUME NEW c \in Conns, y = Functor("forceClose", c), t = loopOf[c] PROVE y \in new /\ Fits(t, y)
    <3>1. y.op = "forceClose" /\ y.conn = c BY <2>2, FunctorFields, Zenon
    <3>2. t # Base BY <1>3, <2>2, PlaceIsThread, Zenon
    <3> QED BY <1>3, <1>9, <2>2, <3>1, <3>2, Zenon DEF Fits, BaseOps
  <2> QED BY <1>8, <1>9, <2>1, <2>2, SMTT(30)
<1>10. ASSUME NEW d \in Conns, NEW a \in Ops
       PROVE  Functor(a, d) \in new <=> a = "forceClose" /\ <<Place(a, d), Functor(a, d)>> \in K
  <2>1. Functor(a, d) # x BY <1>3, <1>4, Zenon
  <2>2. \A c : Functor(a, d) = Functor("forceClose", c) <=> a = "forceClose" /\ c = d BY FunctorFields, SMTT(30)
  <2>3. Place("forceClose", d) = loopOf[d] BY Zenon DEF Place, BaseOps
  <2> QED BY <2>1, <2>2, <2>3, Zenon
<1> HIDE DEF new
<1>11. Places' /\ Effect({}, new)
  <2>1. \A d \in Conns, a \in Ops :
          /\ Functor(a, d) \in {} => <<Place(a, d), Functor(a, d)>> \in {}
          /\ Functor(a, d) \in new => <<Place(a, d), Functor(a, d)>> \in K
    BY <1>10, Zenon
  <2>2. \A t, y : <<t, y>> \in {} => y \in {} BY Zenon
  <2> QED BY <1>2, <1>3, <1>7, <1>9, <2>1, <2>2, QueueStep, Zenon
<1>12. ASSUME NEW d \in Conns PROVE ConnLife(d)' /\ (Alive(d)' => Alive(d))
  <2> DEFINE Y == {a \in {"forceClose"} : Functor(a, d) \in new}
  <2>1. Seen(d, {}, Y)
    <3>1. \A a \in Ops : (Functor(a, d) \in {} <=> a \in {}) /\ (Functor(a, d) \in new <=> a \in Y)
      BY <1>10, Zenon
    <3> HIDE DEF Y
    <3> QED BY <1>11, <3>1, EffectSeen, Zenon
  <2>2. Y # {} => Stored(d)
    <3> SUFFICES ASSUME Y # {} PROVE Stored(d) BY Zenon
    <3>1. <<Place("forceClose", d), Functor("forceClose", d)>> \in K BY <1>10, Zenon DEF Ops, LoopOps
    <3>2. \A c : Functor("forceClose", d) = Functor("forceClose", c) <=> c = d BY FunctorFields, SMTT(30)
    <3>3. Functor("forceClose", d) # x BY <1>4, Zenon
    <3> QED BY <1>8, <3>1, <3>2, <3>3, SMTT(30)
  <2>3. Y \in {{}, {"forceClose"}} BY Zenon
  <2> HIDE DEF Y
  <2>4. Creation(d) /\ Single(d) /\ Phases(d) BY InvOf, Zenon
  <2>5. stage'[d] = stage[d] /\ (Stored(d)' <=> Stored(d)) BY <1>2, Zenon DEF Stored
  <2>6. /\ \A a \in Ops \ {"forceClose"} : Pending(a, d)' <=> Pending(a, d)
        /\ Pending("forceClose", d)' => Pending("forceClose", d) \/ Stored(d)
    BY <2>1, <2>2, <2>3, Zenon DEF Seen, Ops, LoopOps
  <2>7. Stored(d) => stage[d] = "created"
    <3>1. fd[d] \in Fds /\ NoConn \notin Conns BY InvOf, Zenon
    <3> QED BY <3>1, Zenon DEF LifeInv, Owners, Stored
  <2>8. Creation(d)' BY <1>2, <2>4, <2>5, <2>6, <2>7, Zenon DEF Creation, Ops, BaseOps, LoopOps
  <2>9. Single(d)'
    <3>1. \A a \in {"create", "register", "remove", "established"} : a \in Ops /\ a \notin Y
      BY <2>3, Zenon DEF Ops, BaseOps, LoopOps
    <3>2. \A a \in {"create", "register", "remove", "established"} : Unique(a, d)'
      BY <2>1, <2>4, <3>1, Zenon DEF Single, Seen
    <3>3. StartsFirst(d)' BY <2>1, <2>4, <3>1, Zenon DEF Single, Seen
    <3> QED BY <3>2, <3>3, Zenon DEF Single
  <2>10. Phases(d)' BY <1>2, <2>4, <2>5, <2>6, Zenon DEF Phases, Ops, BaseOps, LoopOps
  <2>11. Alive(d)' => Alive(d) BY <1>2, <2>5, <2>6, Zenon DEF Alive, Ops, BaseOps
  <2> QED BY <2>8, <2>9, <2>10, <2>11, Zenon DEF ConnLife
<1>13. Owners'
  <2>1. \A e, d \in Conns : Alive(e) /\ Alive(d) /\ fd[e] = fd[d] => e = d BY Zenon DEF LifeInv, Owners
  <2>2. \A e, d \in Conns : Alive(e)' /\ Alive(d)' /\ fd'[e] = fd'[d] => e = d BY <1>2, <1>12, <2>1, Zenon
  <2>3. \A f \in Fds : connections[f] # NoConn =>
          fd[connections[f]] = f /\ stage[connections[f]] = "created"
    BY Zenon DEF LifeInv, Owners
  <2> QED BY <1>2, <2>2, <2>3, Zenon DEF Owners
<1>14. NetTypes' BY <1>2, Zenon DEF LifeInv, LifeTypes, NetTypes
<1>15. LifeTypes' BY <1>2, <1>3, <1>5, <1>14, TypesAfter, Zenon
<1>16. Ending' /\ SessionInv' BY <1>2, Zenon DEF LifeInv, Ending, SessionInv, SessionsFollowConnections
<1> QED BY <1>11, <1>12, <1>13, <1>15, <1>16, Zenon DEF LifeInv

-----------------------------------------------------------------------------
(* The theorems.                                                            *)

LEMMA LifeInit == Init => LifeInv
<1> SUFFICES ASSUME Init PROVE LifeInv BY Zenon
<1>1. /\ todo = [t \in Threads |-> <<>>] /\ batch = [t \in Threads |-> <<>>] /\ NoConn \notin Conns
      /\ stage = [c \in Conns |-> "unused"] /\ connected = {} /\ channel = {} /\ closed = {}
      /\ connections = [f \in Fds |-> NoConn] /\ session = [f \in Fds |-> NoConn] /\ leaving = NoConn
      /\ stopping = FALSE /\ joining = FALSE /\ quit = {} /\ creating = [l \in Loops |-> NoConn]
  BY LifecycleAssumption, Zenon DEF Init
<1>2. fd \in [Conns -> Fds] /\ loopOf \in [Conns -> Loops]
  <2>1. Fds # {} /\ Loops # {} BY LifecycleAssumption, Zenon
  <2>2. (CHOOSE f \in Fds : TRUE) \in Fds /\ (CHOOSE l \in Loops : TRUE) \in Loops BY <2>1, Zenon
  <2> QED BY <2>2, Zenon DEF Init
<1>3. todo \in AllQueues /\ batch \in AllQueues
  <2>1. <<>> \in Seq(Functors) BY SMTT(30)
  <2> QED BY <1>1, <2>1, Zenon DEF AllQueues
<1>4. LifeTypes BY <1>1, <1>2, <1>3, Zenon DEF LifeTypes, NetTypes, QueueTypes
<1>5. \A t \in Threads : Queues[t] = <<>>
  <2>1. <<>> \o <<>> = <<>> BY SMTT(30)
  <2> QED BY <1>1, <2>1, Zenon DEF Queues, Both
<1>6. \A t \in Threads : \A y, z : /\ ~Holds(Queues[t], y) /\ Once(Queues[t], y)
                                   /\ Before(Queues[t], y, z)
  BY <1>5, HoldsEmpty, Zenon
<1>7. Places /\ ~Finishing BY <1>6, Zenon DEF Places, Finishing, Threads
<1>8. ASSUME NEW c \in Conns PROVE ConnLife(c) /\ ~Stored(c) /\ ~Alive(c)
  <2>1. \A a : Place(a, c) \in Threads /\ loopOf[c] \in Threads BY <1>2, Zenon DEF Place, Threads
  <2>2. \A a : ~Pending(a, c) /\ Unique(a, c) BY <1>6, <2>1, Zenon DEF Pending, Unique
  <2>3. StartsFirst(c) BY <1>6, <2>1, Zenon DEF StartsFirst
  <2>4. ~Stored(c) BY <1>1, <1>2, Zenon DEF Stored
  <2>5. Creation(c) BY <1>1, <2>2, Zenon DEF Creation
  <2>6. Single(c) BY <2>2, <2>3, Zenon DEF Single
  <2>7. Phases(c) BY <1>1, <2>2, <2>4, Zenon DEF Phases
  <2>8. ~Alive(c) BY <1>1, <2>2, <2>4, Zenon DEF Alive
  <2> QED BY <2>4, <2>5, <2>6, <2>7, <2>8, Zenon DEF ConnLife
<1>9. Owners BY <1>1, <1>8, Zenon DEF Owners
<1>10. Ending /\ SessionInv BY <1>1, <1>7, Zenon DEF Ending, SessionInv, SessionsFollowConnections
<1> QED BY <1>4, <1>7, <1>8, <1>9, <1>10, Zenon DEF LifeInv

LEMMA LifeStep == LifeInv /\ [Next]_vars => LifeInv'
<1> SUFFICES ASSUME LifeInv, [Next]_vars PROVE LifeInv' BY Zenon
<1>1. Base \in Threads /\ Loops \subseteq Threads BY Zenon DEF Threads
<1>2. ASSUME NEW l \in Loops, IoStep(l) PROVE LifeInv'
  <2>1. CASE Swap(l) BY <1>1, <2>1, SwapKeeps, Zenon
  <2>2. CASE ExitLoop(l) BY <1>1, <2>2, ExitLoopKeeps, Zenon
  <2>3. CASE CreatePost(l) BY <2>3, CreatePostKeeps, Zenon
  <2>4. ASSUME NEW c \in Conns,
               CreateCheck(l, c) \/ Established(l, c) \/ ForceClose(l, c) \/ Destroyed(l, c)
        PROVE  LifeInv'
    BY <2>4, CreateCheckKeeps, EstablishedKeeps, ForceCloseKeeps, DestroyedKeeps, Zenon
  <2> QED BY <1>2, <2>1, <2>2, <2>3, <2>4, Zenon DEF IoStep
<1>3. CASE BaseStep
  <2>1. CASE Swap(Base) BY <1>1, <2>1, SwapKeeps, Zenon
  <2>2. CASE ExitLoop(Base) BY <1>1, <2>2, ExitLoopKeeps, Zenon
  <2>3. CASE OnDisconnect \/ Finalize BY <2>3, OnDisconnectKeeps, FinalizeKeeps, Zenon
  <2>4. CASE Joined \/ \E l \in Loops : JoinLoop(l) BY <2>4, JoinKeeps, Zenon
  <2>5. ASSUME NEW c \in Conns, AddConnection(c) \/ RemoveConnection(c) \/ Message(c) PROVE LifeInv'
    BY <2>5, AddStoppedKeeps, AddKeeps, RemoveConnectionKeeps, MessageKeeps, Zenon
  <2> QED BY <1>3, <2>1, <2>2, <2>3, <2>4, <2>5, Zenon DEF BaseStep
<1>4. CASE Events
  <2>1. CASE Stop BY <2>1, StopKeeps, Zenon
  <2>2. ASSUME NEW c \in Conns, PeerCloses(c) \/ PeerSends(c) PROVE LifeInv'
    BY <2>2, PeerClosesKeeps, PeerSendsKeeps, Zenon
  <2>3. ASSUME NEW c \in Conns, NEW f \in Fds, NEW l \in Loops, Accept(c, f, l) PROVE LifeInv'
    BY <2>3, AcceptKeeps, AcceptRefusesKeeps, Zenon
  <2> QED BY <1>4, <2>1, <2>2, <2>3, Zenon DEF Events
<1>5. CASE UNCHANGED vars BY <1>5, JoinKeeps, Zenon
<1> QED BY <1>2, <1>3, <1>4, <1>5, Zenon DEF Next, Ended

LEMMA LifeAlways == Spec => []LifeInv
BY LifeInit, LifeStep, PTL DEF Spec

LEMMA LifeOwns == LifeInv => DescriptorsStayOwned
<1> SUFFICES ASSUME LifeInv, NEW c \in Conns
             PROVE  LET pending(op) == \E q \in {todo[Base], batch[Base]} :
                                         \E i \in 1..Len(q) : q[i] = Functor(op, c)
                    IN /\ (connections[fd[c]] = c \/ pending("register") \/ pending("remove")) => FdOpen(c)
                       /\ pending("remove") => connections[fd[c]] \in {c, NoConn}
  BY Zenon DEF DescriptorsStayOwned
<1> DEFINE pending(op) == \E q \in {todo[Base], batch[Base]} : \E i \in 1..Len(q) : q[i] = Functor(op, c)
<1>1. ASSUME NEW a \in {"register", "remove"}, pending(a) PROVE Pending(a, c)
  <2>1. Holds(todo[Base], Functor(a, c)) \/ Holds(batch[Base], Functor(a, c)) BY <1>1, Zenon DEF Holds
  <2>2. todo \in AllQueues /\ batch \in AllQueues /\ Base \in Threads
    BY Zenon DEF LifeInv, LifeTypes, QueueTypes, Threads
  <2>3. todo[Base] \in Seq(Functors) /\ batch[Base] \in Seq(Functors) BY <2>2, Zenon DEF AllQueues
  <2>4. Holds(batch[Base] \o todo[Base], Functor(a, c)) BY <2>1, <2>3, HoldsConcat, Zenon
  <2>5. Queues[Base] = batch[Base] \o todo[Base] BY <2>2, BothTyped, Zenon DEF Queues
  <2> QED BY <2>4, <2>5, Zenon DEF Pending, Place, BaseOps
<1>2. pending("register") => Pending("register", c) BY <1>1, Zenon
<1>3. pending("remove") => Pending("remove", c) BY <1>1, Zenon
<1> HIDE DEF pending
<1>4. connections[fd[c]] = c \/ pending("register") \/ pending("remove") => FdOpen(c)
  BY <1>2, <1>3, KnownIsOpen, Zenon DEF Stored
<1>5. ASSUME pending("remove") PROVE connections[fd[c]] \in {c, NoConn}
  <2> SUFFICES ASSUME connections[fd[c]] # NoConn PROVE connections[fd[c]] = c BY Zenon
  <2> DEFINE d == connections[fd[c]]
  <2>1. d \in Conns /\ fd[d] = fd[c] /\ Stored(d)
    BY InvOf, SMTT(30) DEF LifeInv, LifeTypes, NetTypes, Owners, Stored
  <2>2. Alive(d) /\ Alive(c) BY <1>3, <1>5, <2>1, Zenon DEF Alive
  <2> QED BY <2>1, <2>2, Zenon DEF LifeInv, Owners
<1> QED BY <1>4, <1>5, Zenon DEF pending

(* The base loop knows connections by their descriptors (connections_ and   *)
(* removeConnectionInBaseLoop() of TcpServer.cpp): whatever number of       *)
(* connections, descriptors and io threads there are, a connection that is  *)
(* registered, or whose registration or removal is pending, has its         *)
(* descriptor open, and a removal never erases another connection.          *)
THEOREM DescriptorsAreOwned == Spec => []DescriptorsStayOwned
BY LifeAlways, LifeOwns, PTL

(* A session belongs to the connection registered under its descriptor, or  *)
(* to the one being removed; one outlives its connection, to pass to the    *)
(* next with the same descriptor, only where onDisconnect() read -1         *)
(* (getOrCreate() in TcpServer::onMessage(), the second read of conn->fd()  *)
(* in removeConnectionInBaseLoop()).                                        *)
THEOREM SessionsAreOwned == Spec => []SessionsFollowConnections
<1>1. LifeInv => SessionsFollowConnections BY Zenon DEF LifeInv, SessionInv
<1> QED BY <1>1, LifeAlways, PTL
=============================================================================
