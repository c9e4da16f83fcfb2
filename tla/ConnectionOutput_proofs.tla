----------------------- MODULE ConnectionOutput_proofs -----------------------
(***************************************************************************)
(* Proofs that the back-pressure of a connection is sound for all limits,  *)
(* frame sizes and numbers of messages: reservations balance and the       *)
(* backlog is bounded.                                                     *)
(***************************************************************************)
EXTENDS ConnectionOutput, SequenceTheorems, TLAPS

-----------------------------------------------------------------------------
(* The functors posted to the io loop as segments of the stream of reserved *)
(* bytes: each begins where the one before it ends.                         *)

PostedFunctor == [kind : Kinds, bytes : Nat, upTo : Nat]

Reserves(e) == IF e.kind = "reserved" THEN e.bytes ELSE 0

(* q covers the stream from position a to position b without a gap; where   *)
(* it holds no reserved frame it covers nothing.                            *)
Covers(q, a, b) ==
  /\ q = <<>> => a = b
  /\ q # <<>> => q[1].upTo = a + Reserves(q[1]) /\ q[Len(q)].upTo = b
  /\ \A i \in 1..(Len(q) - 1) : q[i + 1].upTo = q[i].upTo + Reserves(q[i + 1])
  /\ \A i \in 1..Len(q) : q[i].upTo <= b
  /\ \A i, j \in 1..Len(q) :
       i < j /\ (\A k \in (i + 1)..j : q[k].kind # "reserved") => q[j].upTo = q[i].upTo

(* Posting a functor extends the stream by what it reserves.                *)
LEMMA CoversAppend ==
  ASSUME NEW q \in Seq(PostedFunctor), NEW e \in PostedFunctor, NEW a \in Nat, NEW b \in Nat,
         Covers(q, a, b), e.upTo = b + Reserves(e)
  PROVE  Covers(Append(q, e), a, e.upTo)
<1> DEFINE r == Append(q, e)
<1>1. /\ r \in Seq(PostedFunctor) /\ Len(r) = Len(q) + 1 /\ r # <<>> /\ r[Len(q) + 1] = e
      /\ Len(q) \in Nat
      /\ \A i \in 1..Len(q) : r[i] = q[i]
  OBVIOUS
<1>2. Reserves(e) \in Nat
  BY DEF Reserves, PostedFunctor
<1>3. q = <<>> <=> Len(q) = 0
  OBVIOUS
<1> HIDE DEF r
<1>4. r[1].upTo = a + Reserves(r[1]) /\ r[Len(r)].upTo = e.upTo
  BY <1>1, <1>2, <1>3 DEF Covers
<1>5. \A i \in 1..(Len(r) - 1) : r[i + 1].upTo = r[i].upTo + Reserves(r[i + 1])
  <2> SUFFICES ASSUME NEW i \in 1..Len(q)
               PROVE  r[i + 1].upTo = r[i].upTo + Reserves(r[i + 1])
    BY <1>1
  <2>1. CASE i = Len(q)
    BY <1>1, <1>3, <2>1 DEF Covers
  <2>2. CASE i # Len(q)
    <3>1. i \in 1..(Len(q) - 1) /\ i + 1 \in 1..Len(q)
      BY <2>2, <1>1
    <3> QED BY <1>1, <3>1 DEF Covers
  <2> QED BY <2>1, <2>2
<1>6. \A i \in 1..Len(r) : r[i].upTo <= e.upTo
  <2> SUFFICES ASSUME NEW i \in 1..Len(r) PROVE r[i].upTo <= e.upTo
    OBVIOUS
  <2>1. CASE i = Len(q) + 1
    BY <1>1, <2>1 DEF PostedFunctor
  <2>2. CASE i # Len(q) + 1
    <3>1. i \in 1..Len(q) /\ q[i].upTo <= b /\ q[i] \in PostedFunctor
      BY <2>2, <1>1 DEF Covers
    <3>2. q[i].upTo \in Nat /\ e.upTo \in Nat
      BY <3>1 DEF PostedFunctor
    <3>3. b <= e.upTo
      BY <1>2
    <3>4. r[i].upTo = q[i].upTo
      BY <1>1, <3>1
    <3> QED BY <3>1, <3>2, <3>3, <3>4
  <2> QED BY <2>1, <2>2
<1>7. ASSUME NEW i \in 1..Len(r), NEW j \in 1..Len(r), i < j,
             \A k \in (i + 1)..j : r[k].kind # "reserved"
      PROVE  r[j].upTo = r[i].upTo
  <2>1. i \in 1..Len(q) /\ r[i] = q[i]
    BY <1>1, <1>7
  <2>2. CASE j = Len(q) + 1
    <3>1. e.upTo = b
      <4>1. e.kind # "reserved"
        BY <1>1, <1>7, <2>2
      <4> QED BY <4>1 DEF Reserves, PostedFunctor
    <3>2. q[Len(q)].upTo = b
      BY <2>1, <1>1, <1>3 DEF Covers
    <3>3. CASE i = Len(q)
      BY <1>1, <2>1, <2>2, <3>1, <3>2, <3>3
    <3>4. CASE i # Len(q)
      <4>1. i < Len(q) /\ Len(q) \in 1..Len(q)
        BY <2>1, <3>4, <1>1
      <4>2. \A k \in (i + 1)..Len(q) : q[k].kind # "reserved"
        BY <1>1, <1>7, <2>1, <2>2
      <4>3. q[Len(q)].upTo = q[i].upTo
        BY <4>1, <4>2, <2>1 DEF Covers
      <4> QED BY <1>1, <2>1, <2>2, <3>1, <3>2, <4>3
    <3> QED BY <3>3, <3>4
  <2>3. CASE j # Len(q) + 1
    <3>1. j \in 1..Len(q) /\ r[j] = q[j]
      BY <1>1, <2>3
    <3>a. \A k \in (i + 1)..j : k \in 1..Len(q)
      BY <1>1, <2>1, <3>1
    <3>2. \A k \in (i + 1)..j : q[k].kind # "reserved"
      BY <1>1, <1>7, <3>a, SMTT(30)
    <3> QED BY <1>7, <2>1, <3>1, <3>2 DEF Covers
  <2> QED BY <2>2, <2>3
<1> QED BY <1>1, <1>4, <1>5, <1>6, <1>7 DEF Covers, r

(* Taking the oldest functor moves the start of the stream past it.         *)
LEMMA CoversTail ==
  ASSUME NEW q \in Seq(PostedFunctor), q # <<>>, NEW a \in Nat, NEW b \in Nat, Covers(q, a, b)
  PROVE  /\ Head(q) \in PostedFunctor /\ Tail(q) \in Seq(PostedFunctor)
         /\ a + Reserves(Head(q)) \in Nat
         /\ a + Reserves(Head(q)) <= b
         /\ Covers(Tail(q), a + Reserves(Head(q)), b)
<1> DEFINE r == Tail(q)
<1>1. /\ r \in Seq(PostedFunctor) /\ Len(r) = Len(q) - 1 /\ Len(q) \in Nat /\ Len(q) >= 1
      /\ Head(q) = q[1] /\ q[1] \in PostedFunctor
      /\ \A i \in 1..Len(r) : r[i] = q[i + 1]
  OBVIOUS
<1>2. q[1].upTo = a + Reserves(q[1]) /\ q[1].upTo <= b /\ q[1].upTo \in Nat
  BY <1>1 DEF Covers, PostedFunctor
<1> HIDE DEF r
<1>3. r = <<>> <=> Len(r) = 0
  BY <1>1
<1>4. r = <<>> => q[1].upTo = b
  <2>1. r = <<>> => Len(q) = 1
    BY <1>1, <1>3
  <2>2. q[Len(q)].upTo = b
    BY DEF Covers
  <2> QED BY <2>1, <2>2
<1>5. r # <<>> => r[1].upTo = q[1].upTo + Reserves(r[1]) /\ r[Len(r)].upTo = b
  <2> SUFFICES ASSUME r # <<>>
               PROVE  r[1].upTo = q[1].upTo + Reserves(r[1]) /\ r[Len(r)].upTo = b
    OBVIOUS
  <2>1. 1 \in 1..(Len(q) - 1) /\ 1 \in 1..Len(r) /\ Len(r) \in 1..Len(r) /\ Len(r) + 1 = Len(q)
    BY <1>1, <1>3
  <2>2. r[1] = q[1 + 1] /\ r[Len(r)] = q[Len(q)]
    BY <1>1, <2>1
  <2> QED BY <2>1, <2>2, <1>1 DEF Covers
<1>6. \A i \in 1..(Len(r) - 1) : r[i + 1].upTo = r[i].upTo + Reserves(r[i + 1])
  <2> SUFFICES ASSUME NEW i \in 1..(Len(r) - 1)
               PROVE  r[i + 1].upTo = r[i].upTo + Reserves(r[i + 1])
    OBVIOUS
  <2>1. r[i] = q[i + 1] /\ r[i + 1] = q[(i + 1) + 1] /\ i + 1 \in 1..(Len(q) - 1)
    BY <1>1
  <2> QED BY <2>1 DEF Covers
<1>7. ASSUME NEW i \in 1..Len(r) PROVE r[i].upTo <= b
  <2>1. i + 1 \in 1..Len(q) /\ r[i] = q[i + 1]
    BY <1>1
  <2> QED BY <2>1 DEF Covers
<1>8. ASSUME NEW i \in 1..Len(r), NEW j \in 1..Len(r), i < j,
             \A k \in (i + 1)..j : r[k].kind # "reserved"
      PROVE  r[j].upTo = r[i].upTo
  <2>1. /\ r[i] = q[i + 1] /\ r[j] = q[j + 1] /\ i + 1 < j + 1
        /\ i + 1 \in 1..Len(q) /\ j + 1 \in 1..Len(q)
    BY <1>1, <1>8
  <2>2. ASSUME NEW k \in ((i + 1) + 1)..(j + 1) PROVE q[k].kind # "reserved"
    <3>1. k - 1 \in (i + 1)..j /\ k - 1 \in 1..Len(r) /\ (k - 1) + 1 = k
      BY <1>1
    <3>2. r[k - 1] = q[k]
      BY <1>1, <3>1
    <3> QED BY <3>1, <3>2, <1>8
  <2> QED BY <2>1, <2>2 DEF Covers
<1>9. Covers(r, q[1].upTo, b)
  BY <1>4, <1>5, <1>6, <1>7, <1>8 DEF Covers
<1> QED BY <1>1, <1>2, <1>9 DEF r

(* Functors without a reserved frame cover nothing.                         *)
LEMMA CoversNothing ==
  ASSUME NEW q \in Seq(PostedFunctor), NEW a \in Nat, NEW b \in Nat, Covers(q, a, b),
         \A i \in 1..Len(q) : q[i].kind # "reserved"
  PROVE  a = b
<1>1. CASE q = <<>>
  BY <1>1 DEF Covers
<1>2. CASE q # <<>>
  <2>1. Len(q) \in Nat /\ 1 \in 1..Len(q) /\ Len(q) \in 1..Len(q) /\ q[1] \in PostedFunctor
    BY <1>2
  <2>2. q[1].upTo = a /\ q[Len(q)].upTo = b
    BY <1>2, <2>1 DEF Covers, Reserves, PostedFunctor
  <2>3. CASE Len(q) = 1
    BY <2>2, <2>3
  <2>4. CASE Len(q) # 1
    <3>1. 1 < Len(q)
      <4>1. \A n \in Nat : 1 \in 1..n /\ n # 1 => 1 < n
        OBVIOUS
      <4> QED BY <2>1, <2>4, <4>1, Zenon
    <3>2. ASSUME NEW k \in (1 + 1)..Len(q) PROVE q[k].kind # "reserved"
      <4>1. k \in 1..Len(q)
        BY <2>1
      <4> QED BY <4>1
    <3> QED BY <2>1, <2>2, <3>1, <3>2 DEF Covers
  <2> QED BY <2>3, <2>4
<1> QED BY <1>1, <1>2

-----------------------------------------------------------------------------
(* The inductive invariant.                                                 *)

(* Ends of the stream still in the inbox: what the io loop has taken, what  *)
(* the base loop has posted.                                                *)
Appended == returned + (IF io.pc = "release" THEN io.frame ELSE 0)
Posted   == taken - (IF base.pc = "reserved" THEN base.frame ELSE 0)

(* queuedFrameBytes_ is exactly what was reserved and not yet released, and *)
(* the posted functors account for it.                                      *)
Accounts ==
  /\ queued = taken - returned
  /\ Appended <= Posted /\ Posted \in Nat
  /\ Covers(inbox, Appended, Posted)

(* What the base loop knows while it is inside tryReserveFrame().  A        *)
(* pending value that can still pass the test was loaded when the backlog   *)
(* was at most twice the hard limit, and nothing the io loop does since     *)
(* takes it above that.                                                     *)
Limits ==
  /\ estimate = buffered
  /\ queued <= HardLimit
  /\ Backlog <= 2 * HardLimit + MaxFrame
  /\ base.pc \in {"loaded", "swap"} /\ base.pending <= HardLimit => Backlog <= 2 * HardLimit
  /\ base.pc = "swap" => base.pending + base.queued + base.frame <= HardLimit

IInv == TypeOK /\ Accounts /\ Limits

(* Initial states satisfy the invariant.                                    *)
LEMMA InitInv == Init => IInv
<1> SUFFICES ASSUME Init PROVE IInv
  OBVIOUS
<1> USE NetConfigAssumption DEF Init, IdleBase, IdleIo
<1>1. TypeOK
  <2>1. <<>> \in Seq([kind : Kinds, bytes : Nat, upTo : Nat])
    BY EmptySeq
  <2>2. base \in [pc : BaseStates, frame : FrameSizes \cup {0}, pending : Nat, queued : Nat,
                  close : BOOLEAN] /\ io \in [pc : IoStates, frame : Nat]
    BY DEF BaseStates, IoStates
  <2>3. 0 \in Nat /\ 0 \in 0..MaxCalls
    OBVIOUS
  <2> QED BY <2>1, <2>2, <2>3, Zenon DEF TypeOK
<1>2. Accounts
  BY DEF Accounts, Appended, Posted, Covers
<1>3. Limits
  BY DEF Limits, Backlog
<1> QED BY <1>1, <1>2, <1>3 DEF IInv

(* The fields of the two threads' local state.                              *)
LEMMA FieldTypes ==
  ASSUME TypeOK
  PROVE  /\ base.frame \in Nat /\ base.frame <= MaxFrame /\ base.pending \in Nat
         /\ base.queued \in Nat /\ io.frame \in Nat
<1>1. base.frame \in FrameSizes \cup {0} /\ base.pending \in Nat /\ base.queued \in Nat
      /\ io.frame \in Nat
  BY DEF TypeOK
<1>2. ASSUME NEW f \in FrameSizes PROVE f \in Nat /\ f <= MaxFrame
  BY NetConfigAssumption
<1>3. 0 <= MaxFrame
  BY NetConfigAssumption
<1> QED BY <1>1, <1>2, <1>3

(* send() posts a functor that reserves nothing.                            *)
LEMMA BaseSendInv ==
  ASSUME IInv, NEW f \in FrameSizes, BaseSend(f)
  PROVE  IInv'
<1>t. /\ base.frame \in Nat /\ base.frame <= MaxFrame /\ base.pending \in Nat
      /\ base.queued \in Nat /\ io.frame \in Nat
  BY FieldTypes DEF IInv
<1>u. HardLimit \in Nat /\ MaxFrame \in Nat /\ MaxCalls \in Nat
  BY NetConfigAssumption
<1>v. /\ buffered \in Nat /\ estimate \in Nat /\ queued \in Nat /\ taken \in Nat
      /\ returned \in Nat /\ dropped \in Nat /\ dropCount \in Nat
      /\ calls \in 0..MaxCalls
  BY DEF IInv, TypeOK
<1>w. TypeOK /\ Accounts /\ Limits
  BY DEF IInv
<1>0. Functor("send", f) \in PostedFunctor
  BY <1>t, <1>u, <1>v, NetConfigAssumption DEF PostedFunctor, Functor, Kinds
<1>1. /\ calls' = calls + 1 /\ calls < MaxCalls
      /\ base.pc = "idle" /\ inbox' = Append(inbox, Functor("send", f))
      /\ UNCHANGED <<connected, buffered, estimate, queued, base, io, taken, returned>>
  BY <1>w, <1>0 DEF BaseSend, TypeOK, atomics, history
<1>2. TypeOK'
  <2>1. calls' \in 0..MaxCalls
    BY <1>t, <1>u, <1>v, <1>1
  <2>2. inbox' \in Seq([kind : Kinds, bytes : Nat, upTo : Nat])
    BY <1>w, <1>0, AppendProperties DEF BaseSend, TypeOK, PostedFunctor
  <2> QED BY <1>w, <2>1, <2>2, Zenon DEF BaseSend, TypeOK, atomics, history
<1>3. Accounts'
  <2>1. inbox \in Seq(PostedFunctor)
    BY <1>w DEF TypeOK, PostedFunctor
  <2>2. Functor("send", f).upTo = Posted + Reserves(Functor("send", f))
    BY <1>t, <1>v, <1>1 DEF Functor, Reserves, Posted
  <2>3. Appended \in Nat /\ Posted \in Nat /\ Covers(inbox, Appended, Posted)
    BY <1>t, <1>v, <1>w DEF Accounts, Appended
  <2>4. Covers(Append(inbox, Functor("send", f)), Appended, Functor("send", f).upTo)
    BY <1>0, <2>1, <2>2, <2>3, CoversAppend
  <2>5. Posted' = Functor("send", f).upTo /\ Appended' = Appended
    BY <1>t, <1>v, <1>1 DEF Posted, Appended, Functor
  <2>6. Appended <= Posted /\ Posted <= Functor("send", f).upTo /\ Functor("send", f).upTo \in Nat
    BY <1>t, <1>v, <1>w DEF Accounts, Functor, Posted
  <2> QED BY <1>1, <1>v, <1>w, <2>3, <2>4, <2>5, <2>6 DEF Accounts
<1>4. Limits'
  BY <1>t, <1>u, <1>v, <1>w, <1>1 DEF Limits, Backlog
<1> QED BY <1>2, <1>3, <1>4 DEF IInv

(* Entering tryReserveFrame().                                              *)
LEMMA ReserveStartInv ==
  ASSUME IInv, NEW f \in FrameSizes, ReserveStart(f)
  PROVE  IInv'
<1>t. /\ base.frame \in Nat /\ base.frame <= MaxFrame /\ base.pending \in Nat
      /\ base.queued \in Nat /\ io.frame \in Nat
  BY FieldTypes DEF IInv
<1>u. HardLimit \in Nat /\ MaxFrame \in Nat /\ MaxCalls \in Nat
  BY NetConfigAssumption
<1>v. /\ buffered \in Nat /\ estimate \in Nat /\ queued \in Nat /\ taken \in Nat
      /\ returned \in Nat /\ dropped \in Nat /\ dropCount \in Nat
      /\ calls \in 0..MaxCalls
  BY DEF IInv, TypeOK
<1>w. TypeOK /\ Accounts /\ Limits
  BY DEF IInv
<1>1. /\ calls' = calls + 1 /\ calls < MaxCalls
      /\ base.pc = "idle" /\ base'.pc = "load"
      /\ UNCHANGED <<connected, buffered, estimate, queued, inbox, io, taken, returned>>
  BY <1>w DEF ReserveStart, TypeOK, atomics, history
<1>2. TypeOK'
  <2>1. base' \in [pc : BaseStates, frame : FrameSizes \cup {0}, pending : Nat, queued : Nat,
                   close : BOOLEAN]
    BY <1>t, <1>u, <1>v, <1>w DEF ReserveStart, TypeOK, BaseStates
  <2>2. calls' \in 0..MaxCalls
    BY <1>t, <1>u, <1>v, <1>1
  <2> QED BY <1>w, <2>1, <2>2, Zenon DEF ReserveStart, TypeOK, atomics, history
<1>3. Accounts'
  BY <1>t, <1>u, <1>v, <1>w, <1>1 DEF Accounts, Appended, Posted
<1>4. Limits'
  BY <1>t, <1>u, <1>v, <1>w, <1>1 DEF Limits, Backlog
<1> QED BY <1>2, <1>3, <1>4 DEF IInv

(* The first load: a small pending value means a small backlog.             *)
LEMMA ReserveLoadPendingInv ==
  ASSUME IInv, ReserveLoadPending
  PROVE  IInv'
<1>t. /\ base.frame \in Nat /\ base.frame <= MaxFrame /\ base.pending \in Nat
      /\ base.queued \in Nat /\ io.frame \in Nat
  BY FieldTypes DEF IInv
<1>u. HardLimit \in Nat /\ MaxFrame \in Nat /\ MaxCalls \in Nat
  BY NetConfigAssumption
<1>v. /\ buffered \in Nat /\ estimate \in Nat /\ queued \in Nat /\ taken \in Nat
      /\ returned \in Nat /\ dropped \in Nat /\ dropCount \in Nat
      /\ calls \in 0..MaxCalls
  BY DEF IInv, TypeOK
<1>w. TypeOK /\ Accounts /\ Limits
  BY DEF IInv
<1>1. /\ base.pc = "load" /\ base'.pc = "loaded" /\ base'.pending = estimate
      /\ UNCHANGED <<connected, buffered, estimate, queued, inbox, io, taken, returned>>
  BY <1>w DEF ReserveLoadPending, TypeOK, atomics, history
<1>2. TypeOK'
  <2>1. base' \in [pc : BaseStates, frame : FrameSizes \cup {0}, pending : Nat, queued : Nat,
                   close : BOOLEAN]
    BY <1>t, <1>u, <1>v, <1>w DEF ReserveLoadPending, TypeOK, BaseStates
  <2> QED BY <1>w, <2>1, Zenon DEF ReserveLoadPending, TypeOK, atomics, history
<1>3. Accounts'
  BY <1>t, <1>u, <1>v, <1>w, <1>1 DEF Accounts, Appended, Posted
<1>4. Limits'
  BY <1>t, <1>u, <1>v, <1>w, <1>1 DEF Limits, Backlog
<1> QED BY <1>2, <1>3, <1>4 DEF IInv

(* The second load and the test of the hard limit.                          *)
LEMMA ReserveLoadQueuedInv ==
  ASSUME IInv, ReserveLoadQueued
  PROVE  IInv'
<1>t. /\ base.frame \in Nat /\ base.frame <= MaxFrame /\ base.pending \in Nat
      /\ base.queued \in Nat /\ io.frame \in Nat
  BY FieldTypes DEF IInv
<1>u. HardLimit \in Nat /\ MaxFrame \in Nat /\ MaxCalls \in Nat
  BY NetConfigAssumption
<1>v. /\ buffered \in Nat /\ estimate \in Nat /\ queued \in Nat /\ taken \in Nat
      /\ returned \in Nat /\ dropped \in Nat /\ dropCount \in Nat
      /\ calls \in 0..MaxCalls
  BY DEF IInv, TypeOK
<1>b. (dropCount + 1 < MaxDrops) \in BOOLEAN /\ (dropCount + 1 >= MaxDrops) \in BOOLEAN
  OBVIOUS
<1>w. TypeOK /\ Accounts /\ Limits
  BY DEF IInv
<1>1. /\ dropped' \in {dropped, dropped + 1} /\ dropCount' \in {dropCount, dropCount + 1}
      /\ base.pc = "loaded"
      /\ \/ base'.pc = "dropped"
         \/ /\ base.pending + queued + base.frame <= HardLimit
            /\ base'.pc = "swap" /\ base'.queued = queued
            /\ base'.pending = base.pending /\ base'.frame = base.frame
      /\ UNCHANGED <<connected, buffered, estimate, queued, inbox, io, taken, returned>>
  BY <1>w DEF ReserveLoadQueued, TypeOK, atomics, history
<1>2. TypeOK'
  <2>1. base' \in [pc : BaseStates, frame : FrameSizes \cup {0}, pending : Nat, queued : Nat,
                   close : BOOLEAN]
    <3>1. CASE base' = [base EXCEPT !.pc = "dropped", !.close = (dropCount + 1 >= MaxDrops)]
      BY <1>w, <1>b, <3>1 DEF TypeOK, BaseStates
    <3>2. CASE base' = [base EXCEPT !.pc = "swap", !.queued = queued]
      BY <1>v, <1>w, <3>2 DEF TypeOK, BaseStates
    <3> QED BY <3>1, <3>2, Zenon DEF ReserveLoadQueued
  <2>2. dropped' \in Nat
    BY <1>t, <1>u, <1>v, <1>b, <1>1
  <2>3. dropCount' \in Nat
    BY <1>t, <1>u, <1>v, <1>b, <1>1
  <2>4. doomed' \in BOOLEAN
    BY <1>t, <1>u, <1>v, <1>w, <1>b, Zenon DEF ReserveLoadQueued, TypeOK
  <2> QED BY <1>w, <2>1, <2>2, <2>3, <2>4, Zenon DEF ReserveLoadQueued, TypeOK, atomics, history
<1>3. Accounts'
  BY <1>t, <1>u, <1>v, <1>w, <1>1 DEF Accounts, Appended, Posted
<1>4. Limits'
  BY <1>t, <1>u, <1>v, <1>w, <1>1 DEF Limits, Backlog
<1> QED BY <1>2, <1>3, <1>4 DEF IInv

(* recordOverloadDrop() may post a close, which reserves nothing.           *)
LEMMA ReserveDroppedInv ==
  ASSUME IInv, ReserveDropped
  PROVE  IInv'
<1>t. /\ base.frame \in Nat /\ base.frame <= MaxFrame /\ base.pending \in Nat
      /\ base.queued \in Nat /\ io.frame \in Nat
  BY FieldTypes DEF IInv
<1>u. HardLimit \in Nat /\ MaxFrame \in Nat /\ MaxCalls \in Nat
  BY NetConfigAssumption
<1>v. /\ buffered \in Nat /\ estimate \in Nat /\ queued \in Nat /\ taken \in Nat
      /\ returned \in Nat /\ dropped \in Nat /\ dropCount \in Nat
      /\ calls \in 0..MaxCalls
  BY DEF IInv, TypeOK
<1>w. TypeOK /\ Accounts /\ Limits
  BY DEF IInv
<1>0. Functor("close", 0) \in PostedFunctor
  BY <1>t, <1>u, <1>v DEF PostedFunctor, Functor, Kinds
<1>1. /\ base.pc = "dropped" /\ base'.pc = "idle"
      /\ inbox' = inbox \/ inbox' = Append(inbox, Functor("close", 0))
      /\ UNCHANGED <<connected, buffered, estimate, queued, io, taken, returned>>
  BY <1>w, <1>0 DEF ReserveDropped, TypeOK, atomics, history, IdleBase
<1>2. TypeOK'
  <2>1. base' \in [pc : BaseStates, frame : FrameSizes \cup {0}, pending : Nat, queued : Nat,
                   close : BOOLEAN]
    BY <1>t, <1>u, <1>v, <1>w DEF ReserveDropped, TypeOK, BaseStates, IdleBase
  <2>2. overloaded' \in BOOLEAN
    BY <1>t, <1>u, <1>v, <1>w, Zenon DEF ReserveDropped, TypeOK
  <2>3. inbox' \in Seq([kind : Kinds, bytes : Nat, upTo : Nat])
    BY <1>w, <1>0, AppendProperties DEF ReserveDropped, TypeOK, PostedFunctor
  <2> QED BY <1>w, <2>1, <2>2, <2>3, Zenon DEF ReserveDropped, TypeOK, atomics, history
<1>3. Accounts'
  <2>a. CASE inbox' = inbox
    BY <1>t, <1>u, <1>v, <1>w, <1>1, <2>a DEF Accounts, Appended, Posted
  <2>b. CASE inbox' = Append(inbox, Functor("close", 0))
    <3>1. inbox \in Seq(PostedFunctor)
      BY <1>w DEF TypeOK, PostedFunctor
    <3>2. Functor("close", 0).upTo = Posted + Reserves(Functor("close", 0))
      BY <1>t, <1>v, <1>1 DEF Functor, Reserves, Posted
    <3>3. Appended \in Nat /\ Posted \in Nat /\ Covers(inbox, Appended, Posted)
      BY <1>t, <1>v, <1>w DEF Accounts, Appended
    <3>4. Covers(Append(inbox, Functor("close", 0)), Appended, Functor("close", 0).upTo)
      BY <1>0, <3>1, <3>2, <3>3, CoversAppend
    <3>5. Posted' = Functor("close", 0).upTo /\ Appended' = Appended
      BY <1>t, <1>v, <1>1 DEF Posted, Appended, Functor
    <3>6. Appended <= Posted /\ Posted <= Functor("close", 0).upTo /\ Functor("close", 0).upTo \in Nat
      BY <1>t, <1>v, <1>w DEF Accounts, Functor, Posted
    <3> QED BY <2>b, <1>1, <1>v, <1>w, <3>3, <3>4, <3>5, <3>6 DEF Accounts
  <2> QED BY <1>1, <2>a, <2>b
<1>4. Limits'
  BY <1>t, <1>u, <1>v, <1>w, <1>1 DEF Limits, Backlog
<1> QED BY <1>2, <1>3, <1>4 DEF IInv

(* A successful exchange takes the backlog up by one frame.                 *)
LEMMA ReserveSwapInv ==
  ASSUME IInv, ReserveSwap
  PROVE  IInv'
<1>t. /\ base.frame \in Nat /\ base.frame <= MaxFrame /\ base.pending \in Nat
      /\ base.queued \in Nat /\ io.frame \in Nat
  BY FieldTypes DEF IInv
<1>u. HardLimit \in Nat /\ MaxFrame \in Nat /\ MaxCalls \in Nat
  BY NetConfigAssumption
<1>v. /\ buffered \in Nat /\ estimate \in Nat /\ queued \in Nat /\ taken \in Nat
      /\ returned \in Nat /\ dropped \in Nat /\ dropCount \in Nat
      /\ calls \in 0..MaxCalls
  BY DEF IInv, TypeOK
<1>w. TypeOK /\ Accounts /\ Limits
  BY DEF IInv
<1>1. /\ \/ /\ queued = base.queued /\ queued' = queued + base.frame
            /\ taken' = taken + base.frame
            /\ base'.pc = "reserved" /\ base'.frame = base.frame
         \/ base'.pc = "load" /\ queued' = queued /\ taken' = taken
      /\ base.pc = "swap"
      /\ UNCHANGED <<connected, buffered, estimate, inbox, io, returned>>
  BY <1>w DEF ReserveSwap, TypeOK, atomics, history
<1>2. TypeOK'
  <2>1. base' \in [pc : BaseStates, frame : FrameSizes \cup {0}, pending : Nat, queued : Nat,
                   close : BOOLEAN]
    BY <1>t, <1>u, <1>v, <1>w DEF ReserveSwap, TypeOK, BaseStates
  <2>2. queued' \in Nat
    BY <1>t, <1>u, <1>v, <1>1
  <2>3. taken' \in Nat
    BY <1>t, <1>u, <1>v, <1>1
  <2> QED BY <1>w, <2>1, <2>2, <2>3, Zenon DEF ReserveSwap, TypeOK, atomics, history
<1>3. Accounts'
  BY <1>t, <1>u, <1>v, <1>w, <1>1 DEF Accounts, Appended, Posted
<1>4. Limits'
  BY <1>t, <1>u, <1>v, <1>w, <1>1 DEF Limits, Backlog
<1> QED BY <1>2, <1>3, <1>4 DEF IInv

(* enqueueFrameBatch() posts the reserved frame.                            *)
LEMMA ReservePostInv ==
  ASSUME IInv, ReservePost
  PROVE  IInv'
<1>t. /\ base.frame \in Nat /\ base.frame <= MaxFrame /\ base.pending \in Nat
      /\ base.queued \in Nat /\ io.frame \in Nat
  BY FieldTypes DEF IInv
<1>u. HardLimit \in Nat /\ MaxFrame \in Nat /\ MaxCalls \in Nat
  BY NetConfigAssumption
<1>v. /\ buffered \in Nat /\ estimate \in Nat /\ queued \in Nat /\ taken \in Nat
      /\ returned \in Nat /\ dropped \in Nat /\ dropCount \in Nat
      /\ calls \in 0..MaxCalls
  BY DEF IInv, TypeOK
<1>w. TypeOK /\ Accounts /\ Limits
  BY DEF IInv
<1>0. Functor("reserved", base.frame) \in PostedFunctor
  BY <1>t, <1>u, <1>v DEF PostedFunctor, Functor, Kinds
<1>1. /\ base.pc = "reserved" /\ base'.pc = "idle"
      /\ inbox' = Append(inbox, Functor("reserved", base.frame))
      /\ UNCHANGED <<connected, buffered, estimate, queued, io, taken, returned>>
  BY <1>w, <1>0 DEF ReservePost, TypeOK, atomics, history, IdleBase
<1>2. TypeOK'
  <2>1. base' \in [pc : BaseStates, frame : FrameSizes \cup {0}, pending : Nat, queued : Nat,
                   close : BOOLEAN]
    BY <1>t, <1>u, <1>v, <1>w DEF ReservePost, TypeOK, BaseStates, IdleBase
  <2>2. inbox' \in Seq([kind : Kinds, bytes : Nat, upTo : Nat])
    BY <1>w, <1>0, AppendProperties DEF ReservePost, TypeOK, PostedFunctor
  <2> QED BY <1>w, <2>1, <2>2, Zenon DEF ReservePost, TypeOK, atomics, history
<1>3. Accounts'
  <2>1. inbox \in Seq(PostedFunctor)
    BY <1>w DEF TypeOK, PostedFunctor
  <2>2. Functor("reserved", base.frame).upTo = Posted + Reserves(Functor("reserved", base.frame))
    BY <1>t, <1>v, <1>1 DEF Functor, Reserves, Posted
  <2>3. Appended \in Nat /\ Posted \in Nat /\ Covers(inbox, Appended, Posted)
    BY <1>t, <1>v, <1>w DEF Accounts, Appended
  <2>4. Covers(Append(inbox, Functor("reserved", base.frame)), Appended, Functor("reserved", base.frame).upTo)
    BY <1>0, <2>1, <2>2, <2>3, CoversAppend
  <2>5. Posted' = Functor("reserved", base.frame).upTo /\ Appended' = Appended
    BY <1>t, <1>v, <1>1 DEF Posted, Appended, Functor
  <2>6. Appended <= Posted /\ Posted <= Functor("reserved", base.frame).upTo /\ Functor("reserved", base.frame).upTo \in Nat
    BY <1>t, <1>v, <1>w DEF Accounts, Functor, Posted
  <2> QED BY <1>1, <1>v, <1>w, <2>3, <2>4, <2>5, <2>6 DEF Accounts
<1>4. Limits'
  BY <1>t, <1>u, <1>v, <1>w, <1>1 DEF Limits, Backlog
<1> QED BY <1>2, <1>3, <1>4 DEF IInv

(* The io loop's own sends respect the hard limit on the buffer.            *)
LEMMA IoSendInv ==
  ASSUME IInv, NEW f \in FrameSizes, IoSend(f)
  PROVE  IInv'
<1>t. /\ base.frame \in Nat /\ base.frame <= MaxFrame /\ base.pending \in Nat
      /\ base.queued \in Nat /\ io.frame \in Nat
  BY FieldTypes DEF IInv
<1>u. HardLimit \in Nat /\ MaxFrame \in Nat /\ MaxCalls \in Nat
  BY NetConfigAssumption
<1>v. /\ buffered \in Nat /\ estimate \in Nat /\ queued \in Nat /\ taken \in Nat
      /\ returned \in Nat /\ dropped \in Nat /\ dropCount \in Nat
      /\ calls \in 0..MaxCalls
  BY DEF IInv, TypeOK
<1>b. (dropCount + 1 < MaxDrops) \in BOOLEAN /\ (dropCount + 1 >= MaxDrops) \in BOOLEAN
  OBVIOUS
<1>w. TypeOK /\ Accounts /\ Limits
  BY DEF IInv
<1>f. f \in Nat
  BY NetConfigAssumption
<1>1. /\ calls' = calls + 1 /\ calls < MaxCalls
      /\ dropped' \in {dropped, dropped + 1} /\ dropCount' \in {dropCount, dropCount + 1}
      /\ \/ UNCHANGED <<buffered, estimate>>
         \/ /\ buffered + f <= HardLimit
            /\ buffered' = buffered + f /\ estimate' = buffered + f
      /\ io.pc = "idle"
      /\ UNCHANGED <<queued, inbox, base, io, taken, returned>>
  BY <1>w DEF IoSend, SendInLoop, TypeOK, atomics, history
<1>2. TypeOK'
  <2>1. buffered' \in Nat
    BY <1>f, <1>t, <1>u, <1>v, <1>1
  <2>2. estimate' \in Nat
    BY <1>f, <1>t, <1>u, <1>v, <1>1
  <2>3. dropped' \in Nat
    BY <1>f, <1>t, <1>u, <1>v, <1>1
  <2>4. dropCount' \in Nat
    BY <1>f, <1>t, <1>u, <1>v, <1>1
  <2>5. calls' \in 0..MaxCalls
    BY <1>f, <1>t, <1>u, <1>v, <1>1
  <2>6. connected' \in BOOLEAN
    BY <1>w, <1>b, Zenon DEF IoSend, SendInLoop, TypeOK
  <2>7. overloaded' \in BOOLEAN
    BY <1>f, <1>t, <1>u, <1>v, <1>w, Zenon DEF IoSend, SendInLoop, TypeOK
  <2>8. doomed' \in BOOLEAN
    BY <1>f, <1>t, <1>u, <1>v, <1>w, Zenon DEF IoSend, SendInLoop, TypeOK
  <2> QED BY <1>w, <2>1, <2>2, <2>3, <2>4, <2>5, <2>6, <2>7, <2>8, Zenon DEF IoSend, SendInLoop, TypeOK, atomics, history
<1>3. Accounts'
  BY <1>t, <1>u, <1>v, <1>w, <1>1 DEF Accounts, Appended, Posted
<1>4. Limits'
  BY <1>f, <1>t, <1>u, <1>v, <1>w, <1>1 DEF Limits, Backlog
<1> QED BY <1>2, <1>3, <1>4 DEF IInv

(* So do the sends posted by the base loop.                                 *)
LEMMA RunSendInv ==
  ASSUME IInv, RunSend
  PROVE  IInv'
<1>t. /\ base.frame \in Nat /\ base.frame <= MaxFrame /\ base.pending \in Nat
      /\ base.queued \in Nat /\ io.frame \in Nat
  BY FieldTypes DEF IInv
<1>u. HardLimit \in Nat /\ MaxFrame \in Nat /\ MaxCalls \in Nat
  BY NetConfigAssumption
<1>v. /\ buffered \in Nat /\ estimate \in Nat /\ queued \in Nat /\ taken \in Nat
      /\ returned \in Nat /\ dropped \in Nat /\ dropCount \in Nat
      /\ calls \in 0..MaxCalls
  BY DEF IInv, TypeOK
<1>b. (dropCount + 1 < MaxDrops) \in BOOLEAN /\ (dropCount + 1 >= MaxDrops) \in BOOLEAN
  OBVIOUS
<1>w. TypeOK /\ Accounts /\ Limits
  BY DEF IInv
<1>0. /\ Head(inbox) \in PostedFunctor /\ Head(inbox).bytes \in Nat
      /\ Tail(inbox) \in Seq(PostedFunctor)
      /\ Appended + Reserves(Head(inbox)) <= Posted
      /\ Covers(Tail(inbox), Appended + Reserves(Head(inbox)), Posted)
      /\ Appended \in Nat /\ Posted \in Nat
  <2>1. inbox \in Seq(PostedFunctor) /\ inbox # <<>>
    BY <1>w DEF TypeOK, PostedFunctor, RunSend
  <2>2. Appended \in Nat /\ Posted \in Nat /\ Covers(inbox, Appended, Posted)
    BY <1>t, <1>v, <1>w DEF Accounts, Appended
  <2>3. \A e \in PostedFunctor : e.bytes \in Nat
    BY DEF PostedFunctor
  <2> QED BY <2>1, <2>2, <2>3, CoversTail
<1>1. /\ inbox' = Tail(inbox)
      /\ dropped' \in {dropped, dropped + 1} /\ dropCount' \in {dropCount, dropCount + 1}
      /\ \/ UNCHANGED <<buffered, estimate>>
         \/ /\ buffered + Head(inbox).bytes <= HardLimit
            /\ buffered' = buffered + Head(inbox).bytes /\ estimate' = buffered + Head(inbox).bytes
      /\ io.pc = "idle"
      /\ UNCHANGED <<queued, base, io, taken, returned>>
  BY <1>w, <1>0 DEF RunSend, SendInLoop, TypeOK, atomics, history
<1>2. TypeOK'
  <2>0. Head(inbox).bytes \in Nat
    BY <1>0
  <2>1. buffered' \in Nat
    BY <1>v, <1>1, <2>0
  <2>2. estimate' \in Nat
    BY <1>v, <1>1, <2>0
  <2>3. dropped' \in Nat
    BY <1>v, <1>1
  <2>4. dropCount' \in Nat
    BY <1>v, <1>1
  <2>5. connected' \in BOOLEAN
    BY <1>w, <1>b, Zenon DEF RunSend, SendInLoop, TypeOK
  <2>6. overloaded' \in BOOLEAN
    BY <1>0, <1>t, <1>u, <1>v, <1>w, Zenon DEF RunSend, SendInLoop, TypeOK
  <2>7. doomed' \in BOOLEAN
    BY <1>0, <1>t, <1>u, <1>v, <1>w, Zenon DEF RunSend, SendInLoop, TypeOK
  <2>8. inbox' \in Seq([kind : Kinds, bytes : Nat, upTo : Nat])
    BY <1>0 DEF RunSend, PostedFunctor
  <2> QED BY <1>w, <2>1, <2>2, <2>3, <2>4, <2>5, <2>6, <2>7, <2>8, Zenon DEF RunSend, SendInLoop, TypeOK, atomics, history
<1>3. Accounts'
  <2>1. Reserves(Head(inbox)) = 0
    BY DEF Reserves, RunSend
  <2>2. Appended' = Appended /\ Posted' = Posted
    BY <1>1 DEF Appended, Posted
  <2>3. Covers(Tail(inbox), Appended, Posted)
    BY <1>0, <2>1
  <2> QED BY <1>1, <1>w, <2>2, <2>3 DEF Accounts
<1>4. Limits'
  <2> DEFINE b == Head(inbox).bytes
  <2>1. b \in Nat
    BY <1>0
  <2>2. /\ UNCHANGED <<buffered, estimate>> \/ (buffered' = buffered + b /\ estimate' = buffered + b
           /\ buffered + b <= HardLimit)
        /\ io.pc = "idle" /\ UNCHANGED <<queued, base, io>>
    BY <1>1
  <2> HIDE DEF b
  <2> QED BY <1>t, <1>u, <1>v, <1>w, <2>1, <2>2 DEF Limits, Backlog
<1> QED BY <1>2, <1>3, <1>4 DEF IInv

(* Appending a reserved frame moves bytes from reserved to buffered.        *)
LEMMA RunReservedInv ==
  ASSUME IInv, RunReserved
  PROVE  IInv'
<1>t. /\ base.frame \in Nat /\ base.frame <= MaxFrame /\ base.pending \in Nat
      /\ base.queued \in Nat /\ io.frame \in Nat
  BY FieldTypes DEF IInv
<1>u. HardLimit \in Nat /\ MaxFrame \in Nat /\ MaxCalls \in Nat
  BY NetConfigAssumption
<1>v. /\ buffered \in Nat /\ estimate \in Nat /\ queued \in Nat /\ taken \in Nat
      /\ returned \in Nat /\ dropped \in Nat /\ dropCount \in Nat
      /\ calls \in 0..MaxCalls
  BY DEF IInv, TypeOK
<1>w. TypeOK /\ Accounts /\ Limits
  BY DEF IInv
<1>0. /\ Head(inbox) \in PostedFunctor /\ Head(inbox).bytes \in Nat
      /\ Tail(inbox) \in Seq(PostedFunctor)
      /\ Appended + Reserves(Head(inbox)) <= Posted
      /\ Covers(Tail(inbox), Appended + Reserves(Head(inbox)), Posted)
      /\ Appended \in Nat /\ Posted \in Nat
  <2>1. inbox \in Seq(PostedFunctor) /\ inbox # <<>>
    BY <1>w DEF TypeOK, PostedFunctor, RunReserved
  <2>2. Appended \in Nat /\ Posted \in Nat /\ Covers(inbox, Appended, Posted)
    BY <1>t, <1>v, <1>w DEF Accounts, Appended
  <2>3. \A e \in PostedFunctor : e.bytes \in Nat
    BY DEF PostedFunctor
  <2> QED BY <2>1, <2>2, <2>3, CoversTail
<1>1. /\ inbox' = Tail(inbox) /\ Head(inbox).kind = "reserved"
      /\ io.pc = "idle" /\ io'.pc = "release" /\ io'.frame = Head(inbox).bytes
      /\ \/ /\ connected /\ buffered' = buffered + Head(inbox).bytes
            /\ estimate' = buffered + Head(inbox).bytes
         \/ ~connected /\ UNCHANGED <<buffered, estimate>>
      /\ UNCHANGED <<connected, queued, base, taken, returned>>
  BY <1>w, <1>0 DEF RunReserved, TypeOK, atomics, history
<1>2. TypeOK'
  <2>1. io' \in [pc : IoStates, frame : Nat]
    BY <1>0, <1>t, <1>u, <1>v, <1>w DEF RunReserved, TypeOK, IoStates
  <2>a. Head(inbox).bytes \in Nat
    BY <1>0
  <2>2. buffered' \in Nat
    BY <1>v, <1>1, <2>a
  <2>3. estimate' \in Nat
    BY <1>v, <1>1, <2>a
  <2>4. inbox' \in Seq([kind : Kinds, bytes : Nat, upTo : Nat])
    BY <1>0 DEF RunReserved, PostedFunctor
  <2> QED BY <1>w, <2>1, <2>2, <2>3, <2>4, Zenon DEF RunReserved, TypeOK, atomics, history
<1>3. Accounts'
  <2>1. Reserves(Head(inbox)) = Head(inbox).bytes
    BY <1>1 DEF Reserves
  <2>2. Appended' = Appended + Reserves(Head(inbox)) /\ Posted' = Posted
    BY <1>0, <1>1, <1>v, <2>1 DEF Appended, Posted
  <2> QED BY <1>0, <1>1, <1>w, <2>2 DEF Accounts
<1>4. Limits'
  <2>1. Backlog' = Backlog
    <3>1. Backlog = buffered + queued
      BY <1>v, <1>1 DEF Backlog
    <3>2. CASE connected
      BY <1>0, <1>v, <1>1, <3>1, <3>2 DEF Backlog
    <3>3. CASE ~connected
      BY <1>v, <1>1, <3>1, <3>3 DEF Backlog
    <3> QED BY <3>2, <3>3
  <2>2. estimate' = buffered'
    BY <1>w, <1>1 DEF Limits
  <2> QED BY <1>w, <1>1, <2>1, <2>2 DEF Limits
<1> QED BY <1>2, <1>3, <1>4 DEF IInv

(* A release gives back no more than is reserved.                           *)
LEMMA ReleaseReservedInv ==
  ASSUME IInv, ReleaseReserved
  PROVE  IInv'
<1>t. /\ base.frame \in Nat /\ base.frame <= MaxFrame /\ base.pending \in Nat
      /\ base.queued \in Nat /\ io.frame \in Nat
  BY FieldTypes DEF IInv
<1>u. HardLimit \in Nat /\ MaxFrame \in Nat /\ MaxCalls \in Nat
  BY NetConfigAssumption
<1>v. /\ buffered \in Nat /\ estimate \in Nat /\ queued \in Nat /\ taken \in Nat
      /\ returned \in Nat /\ dropped \in Nat /\ dropCount \in Nat
      /\ calls \in 0..MaxCalls
  BY DEF IInv, TypeOK
<1>w. TypeOK /\ Accounts /\ Limits
  BY DEF IInv
<1>0. io.frame <= queued
  <2>1. io.pc = "release"
    BY DEF ReleaseReserved
  <2> QED BY <2>1, <1>t, <1>v, <1>w DEF Accounts, Appended, Posted
<1>1. /\ io.pc = "release" /\ io'.pc = "idle" /\ (~connected => ~connected')
      /\ queued' = queued - io.frame /\ returned' = returned + io.frame
      /\ UNCHANGED <<buffered, estimate, inbox, base, taken>>
  BY <1>w, <1>0, <1>t, <1>v DEF ReleaseReserved, TypeOK, atomics, history, IdleIo
<1>2. TypeOK'
  <2>1. io' \in [pc : IoStates, frame : Nat]
    BY <1>0, <1>t, <1>u, <1>v, <1>w DEF ReleaseReserved, TypeOK, IoStates, IdleIo
  <2>2. queued' \in Nat
    BY <1>0, <1>t, <1>u, <1>v, <1>1
  <2>3. returned' \in Nat
    BY <1>0, <1>t, <1>u, <1>v, <1>1
  <2>4. connected' \in BOOLEAN
    BY <1>0, <1>t, <1>u, <1>v, <1>w, Zenon DEF ReleaseReserved, TypeOK
  <2>5. overloaded' \in BOOLEAN
    BY <1>0, <1>t, <1>u, <1>v, <1>w, Zenon DEF ReleaseReserved, TypeOK
  <2> QED BY <1>w, <2>1, <2>2, <2>3, <2>4, <2>5, Zenon DEF ReleaseReserved, TypeOK, atomics, history
<1>3. Accounts'
  <2>1. Appended' = Appended /\ Posted' = Posted
    BY <1>t, <1>v, <1>1 DEF Appended, Posted
  <2> QED BY <1>1, <1>v, <1>t, <1>w, <2>1 DEF Accounts
<1>4. Limits'
  BY <1>t, <1>u, <1>v, <1>w, <1>1 DEF Limits, Backlog
<1> QED BY <1>2, <1>3, <1>4 DEF IInv

(* Closing reserves and appends nothing.                                    *)
LEMMA RunCloseInv ==
  ASSUME IInv, RunClose
  PROVE  IInv'
<1>t. /\ base.frame \in Nat /\ base.frame <= MaxFrame /\ base.pending \in Nat
      /\ base.queued \in Nat /\ io.frame \in Nat
  BY FieldTypes DEF IInv
<1>u. HardLimit \in Nat /\ MaxFrame \in Nat /\ MaxCalls \in Nat
  BY NetConfigAssumption
<1>v. /\ buffered \in Nat /\ estimate \in Nat /\ queued \in Nat /\ taken \in Nat
      /\ returned \in Nat /\ dropped \in Nat /\ dropCount \in Nat
      /\ calls \in 0..MaxCalls
  BY DEF IInv, TypeOK
<1>w. TypeOK /\ Accounts /\ Limits
  BY DEF IInv
<1>0. /\ Head(inbox) \in PostedFunctor /\ Head(inbox).bytes \in Nat
      /\ Tail(inbox) \in Seq(PostedFunctor)
      /\ Appended + Reserves(Head(inbox)) <= Posted
      /\ Covers(Tail(inbox), Appended + Reserves(Head(inbox)), Posted)
      /\ Appended \in Nat /\ Posted \in Nat
  <2>1. inbox \in Seq(PostedFunctor) /\ inbox # <<>>
    BY <1>w DEF TypeOK, PostedFunctor, RunClose
  <2>2. Appended \in Nat /\ Posted \in Nat /\ Covers(inbox, Appended, Posted)
    BY <1>t, <1>v, <1>w DEF Accounts, Appended
  <2>3. \A e \in PostedFunctor : e.bytes \in Nat
    BY DEF PostedFunctor
  <2> QED BY <2>1, <2>2, <2>3, CoversTail
<1>1. /\ inbox' = Tail(inbox) /\ io.pc = "idle"
      /\ UNCHANGED <<buffered, estimate, queued, base, io, taken, returned>>
  BY <1>w, <1>0 DEF RunClose, TypeOK, atomics, history
<1>2. TypeOK'
  <2>1. connected' \in BOOLEAN
    BY <1>t, <1>u, <1>v, <1>w, Zenon DEF RunClose, TypeOK
  <2>2. inbox' \in Seq([kind : Kinds, bytes : Nat, upTo : Nat])
    BY <1>0 DEF RunClose, PostedFunctor
  <2> QED BY <1>w, <2>1, <2>2, Zenon DEF RunClose, TypeOK, atomics, history
<1>3. Accounts'
  <2>1. Reserves(Head(inbox)) = 0
    BY DEF Reserves, RunClose
  <2>2. Appended' = Appended /\ Posted' = Posted
    BY <1>1 DEF Appended, Posted
  <2>3. Covers(Tail(inbox), Appended, Posted)
    BY <1>0, <2>1
  <2> QED BY <1>1, <1>w, <2>2, <2>3 DEF Accounts
<1>4. Limits'
  BY <1>t, <1>u, <1>v, <1>w, <1>1 DEF Limits, Backlog
<1> QED BY <1>2, <1>3, <1>4 DEF IInv

(* Writing only shrinks the backlog.                                        *)
LEMMA IoWriteInv ==
  ASSUME IInv, NEW n \in 1..buffered, IoWrite(n)
  PROVE  IInv'
<1>t. /\ base.frame \in Nat /\ base.frame <= MaxFrame /\ base.pending \in Nat
      /\ base.queued \in Nat /\ io.frame \in Nat
  BY FieldTypes DEF IInv
<1>u. HardLimit \in Nat /\ MaxFrame \in Nat /\ MaxCalls \in Nat
  BY NetConfigAssumption
<1>v. /\ buffered \in Nat /\ estimate \in Nat /\ queued \in Nat /\ taken \in Nat
      /\ returned \in Nat /\ dropped \in Nat /\ dropCount \in Nat
      /\ calls \in 0..MaxCalls
  BY DEF IInv, TypeOK
<1>w. TypeOK /\ Accounts /\ Limits
  BY DEF IInv
<1>1. /\ buffered' = buffered - n /\ estimate' = buffered - n
      /\ io.pc = "idle" /\ io'.pc \in {"idle", "recover"}
      /\ UNCHANGED <<connected, queued, inbox, base, taken, returned>>
  BY <1>w DEF IoWrite, TypeOK, atomics, history
<1>2. TypeOK'
  <2>1. io' \in [pc : IoStates, frame : Nat]
    BY <1>t, <1>u, <1>v, <1>w DEF IoWrite, TypeOK, IoStates
  <2>2. buffered' \in Nat
    BY <1>t, <1>u, <1>v, <1>1
  <2>3. estimate' \in Nat
    BY <1>t, <1>u, <1>v, <1>1
  <2> QED BY <1>w, <2>1, <2>2, <2>3, Zenon DEF IoWrite, TypeOK, atomics, history
<1>3. Accounts'
  BY <1>t, <1>u, <1>v, <1>w, <1>1 DEF Accounts, Appended, Posted
<1>4. Limits'
  BY <1>t, <1>u, <1>v, <1>w, <1>1 DEF Limits, Backlog
<1> QED BY <1>2, <1>3, <1>4 DEF IInv

(* The end of an overload touches no byte count.                            *)
LEMMA IoRecoverInv ==
  ASSUME IInv, IoRecover
  PROVE  IInv'
<1>t. /\ base.frame \in Nat /\ base.frame <= MaxFrame /\ base.pending \in Nat
      /\ base.queued \in Nat /\ io.frame \in Nat
  BY FieldTypes DEF IInv
<1>u. HardLimit \in Nat /\ MaxFrame \in Nat /\ MaxCalls \in Nat
  BY NetConfigAssumption
<1>v. /\ buffered \in Nat /\ estimate \in Nat /\ queued \in Nat /\ taken \in Nat
      /\ returned \in Nat /\ dropped \in Nat /\ dropCount \in Nat
      /\ calls \in 0..MaxCalls
  BY DEF IInv, TypeOK
<1>w. TypeOK /\ Accounts /\ Limits
  BY DEF IInv
<1>1. /\ io.pc = "recover" /\ io'.pc = "idle" /\ dropCount' = 0
      /\ UNCHANGED <<connected, buffered, estimate, queued, inbox, base, taken, returned>>
  BY <1>w DEF IoRecover, TypeOK, atomics, history, IdleIo
<1>2. TypeOK'
  <2>1. io' \in [pc : IoStates, frame : Nat]
    BY <1>t, <1>u, <1>v, <1>w DEF IoRecover, TypeOK, IoStates, IdleIo
  <2>2. dropCount' \in Nat
    BY <1>t, <1>u, <1>v, <1>1
  <2>3. overloaded' \in BOOLEAN
    BY <1>t, <1>u, <1>v, <1>w, Zenon DEF IoRecover, TypeOK
  <2> QED BY <1>w, <2>1, <2>2, <2>3, Zenon DEF IoRecover, TypeOK, atomics, history
<1>3. Accounts'
  BY <1>t, <1>u, <1>v, <1>w, <1>1 DEF Accounts, Appended, Posted
<1>4. Limits'
  BY <1>t, <1>u, <1>v, <1>w, <1>1 DEF Limits, Backlog
<1> QED BY <1>2, <1>3, <1>4 DEF IInv

(* Nor does a close.                                                        *)
LEMMA IoCloseInv ==
  ASSUME IInv, IoClose
  PROVE  IInv'
<1>t. /\ base.frame \in Nat /\ base.frame <= MaxFrame /\ base.pending \in Nat
      /\ base.queued \in Nat /\ io.frame \in Nat
  BY FieldTypes DEF IInv
<1>u. HardLimit \in Nat /\ MaxFrame \in Nat /\ MaxCalls \in Nat
  BY NetConfigAssumption
<1>v. /\ buffered \in Nat /\ estimate \in Nat /\ queued \in Nat /\ taken \in Nat
      /\ returned \in Nat /\ dropped \in Nat /\ dropCount \in Nat
      /\ calls \in 0..MaxCalls
  BY DEF IInv, TypeOK
<1>w. TypeOK /\ Accounts /\ Limits
  BY DEF IInv
<1>1. /\ io.pc = "idle"
      /\ UNCHANGED <<buffered, estimate, queued, inbox, base, io, taken, returned>>
  BY <1>w DEF IoClose, TypeOK, atomics, history
<1>2. TypeOK'
  <2>1. connected' \in BOOLEAN
    BY <1>t, <1>u, <1>v, <1>w, Zenon DEF IoClose, TypeOK
  <2> QED BY <1>w, <2>1, Zenon DEF IoClose, TypeOK, atomics, history
<1>3. Accounts'
  BY <1>t, <1>u, <1>v, <1>w, <1>1 DEF Accounts, Appended, Posted
<1>4. Limits'
  BY <1>t, <1>u, <1>v, <1>w, <1>1 DEF Limits, Backlog
<1> QED BY <1>2, <1>3, <1>4 DEF IInv

(* Every step preserves the invariant.                                      *)
LEMMA NextInv == IInv /\ [Next]_vars => IInv'
<1> SUFFICES ASSUME IInv, [Next]_vars PROVE IInv'
  OBVIOUS
<1>1. CASE UNCHANGED vars
  BY <1>1 DEF vars, atomics, history, IInv, TypeOK, Accounts, Appended, Posted, Limits, Backlog
<1>2. CASE \E f \in FrameSizes : BaseSend(f) \/ ReserveStart(f) \/ IoSend(f)
  BY <1>2, BaseSendInv, ReserveStartInv, IoSendInv
<1>3. CASE BaseStep
  BY <1>3, ReserveLoadPendingInv, ReserveLoadQueuedInv, ReserveDroppedInv, ReserveSwapInv,
     ReservePostInv DEF BaseStep
<1>4. CASE Functors
  BY <1>4, RunSendInv, RunReservedInv, ReleaseReservedInv, RunCloseInv, IoRecoverInv DEF Functors
<1>5. CASE Writes
  BY <1>5, IoWriteInv DEF Writes
<1>6. CASE IoClose
  BY <1>6, IoCloseInv
<1>7. CASE Quiet
  BY <1>7, <1>1 DEF Quiet
<1> QED BY <1>1, <1>2, <1>3, <1>4, <1>5, <1>6, <1>7 DEF Next

(* The invariant holds in every reachable state.                            *)
LEMMA InvHolds == Spec => []IInv
  BY InitInv, NextInv, PTL DEF Spec

-----------------------------------------------------------------------------
(* The counters, flags and queues of TcpConnection keep their types.        *)
THEOREM TypeCorrect == Spec => []TypeOK
<1>1. IInv => TypeOK
  BY DEF IInv
<1> QED BY <1>1, InvHolds, PTL

(* For all limits and frame sizes and any interleaving of the base loop and *)
(* the io loop, the backlog of a connection is at most twice the hard limit *)
(* plus one frame.                                                          *)
THEOREM BacklogIsBounded == Spec => []MemoryBounded
<1>1. IInv => MemoryBounded
  BY DEF IInv, Limits, MemoryBounded
<1> QED BY <1>1, InvHolds, PTL

(* releaseReservedFrame() never underflows, and a reservation is never      *)
(* leaked, whether its frame was appended or its connection had closed.     *)
THEOREM ReservationsAreExact == Spec => []ReservationsBalance
<1>1. IInv => ReservationsBalance
  <2> SUFFICES ASSUME IInv PROVE ReservationsBalance
    OBVIOUS
  <2>1. io.pc = "release" => io.frame <= queued
    BY FieldTypes DEF IInv, Accounts, Appended, Posted, TypeOK
  <2>2. ASSUME base.pc # "reserved", io.pc # "release",
               \A i \in 1..Len(inbox) : inbox[i].kind # "reserved"
        PROVE  queued = 0
    <3>1. inbox \in Seq(PostedFunctor) /\ Appended \in Nat /\ Posted \in Nat
          /\ Covers(inbox, Appended, Posted)
      BY DEF IInv, Accounts, Appended, TypeOK, PostedFunctor
    <3>2. Appended = Posted
      BY <2>2, <3>1, CoversNothing
    <3> QED BY <2>2, <3>2 DEF IInv, Accounts, Appended, Posted, TypeOK
  <2> QED BY <2>1, <2>2 DEF ReservationsBalance
<1> QED BY <1>1, InvHolds, PTL

(* Once handleClose() has run no frame reaches the buffer and the           *)
(* connection stays closed.                                                 *)
THEOREM ClosedStaysClosed == Spec => ClosedBufferIsFrozen
<1>1. ASSUME [Next]_vars PROVE [~connected => buffered' = buffered /\ ~connected']_vars
  <2> SUFFICES ASSUME Next, ~connected PROVE buffered' = buffered /\ ~connected'
    BY <1>1
  <2> USE DEF vars, atomics, history
  <2>1. CASE \E f \in FrameSizes : BaseSend(f) \/ ReserveStart(f) \/ IoSend(f)
    BY <2>1 DEF BaseSend, ReserveStart, IoSend
  <2>2. CASE BaseStep
    BY <2>2 DEF BaseStep, ReserveLoadPending, ReserveLoadQueued, ReserveDropped, ReserveSwap,
       ReservePost
  <2>3. CASE Functors
    BY <2>3 DEF Functors, RunSend, RunReserved, ReleaseReserved, RunClose, IoRecover
  <2>4. CASE Writes \/ IoClose \/ Quiet
    BY <2>4 DEF Writes, IoWrite, IoClose, Quiet
  <2> QED BY <2>1, <2>2, <2>3, <2>4 DEF Next
<1> QED BY <1>1, PTL DEF Spec, ClosedBufferIsFrozen
=============================================================================
