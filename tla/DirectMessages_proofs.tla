------------------------ MODULE DirectMessages_proofs ------------------------
(***************************************************************************)
(* UnreadExact is not inductive.  It needs that a read transaction keeps a *)
(* true picture of its row while it holds the lock (Snapshots, from        *)
(* Locks), and that the message being sent is newer than everything that   *)
(* is stored or read (Ids).                                                *)
(***************************************************************************)
EXTENDS DirectMessages, FiniteSetTheorems, TLAPS

(* Message ids: what is stored or marked is older than the next id, and     *)
(* than the id of the running send transaction.                             *)
Older(n) ==
  /\ \A u \in Users : lastRead[u] < n /\ lastMsg[u] < n
  /\ \A u \in Users : \A i \in inbox[u] : i < n

Ids ==
  /\ Older(nextId)
  /\ sendStage # "idle" => sendId < nextId /\ Older(sendId)

(* Row locks: a transaction past a locking statement holds the row.         *)
Locks ==
  /\ sendStage \in {"senderRow", "receiverRow"} => lock[sender] = "send"
  /\ sendStage = "receiverRow" => lock[Peer(sender)] = "send"
  /\ \A u \in Users : readStage[u] # "idle" => lock[u] = "read"

(* What a read transaction has read is still so.                            *)
Snapshot(u) ==
  /\ readStage[u] # "idle" => readOld[u] = lastRead[u]
  /\ readStage[u] = "counted" =>
       /\ readTarget[u] > readOld[u] /\ Stored(readTarget[u])
       /\ readCount[u] = Cardinality(Between(u, readOld[u], readTarget[u]))

Snapshots == \A u \in Users : Snapshot(u)

Finite == \A u \in Users : IsFiniteSet(inbox[u])

IInv == TypeOK /\ Ids /\ Locks /\ Snapshots /\ Finite /\ UnreadExact

-----------------------------------------------------------------------------
(* The two accounts are each other's peer.                                  *)
LEMMA PeerIsOther ==
  ASSUME NEW u \in Users
  PROVE  Peer(u) \in Users /\ Peer(u) # u /\ Users = {u, Peer(u)}
BY DirectAssumption DEF Peer, Users

(* Initially nothing is stored.                                             *)
LEMMA InitIInv == Init => IInv
<1> SUFFICES ASSUME Init PROVE IInv OBVIOUS
<1>1. TypeOK BY DEF Init, TypeOK, Users
<1>2. Ids BY DEF Init, Ids, Older
<1>3. Locks BY DEF Init, Locks
<1>4. Snapshots BY DEF Init, Snapshots, Snapshot
<1>5. Finite BY FS_EmptySet DEF Init, Finite
<1>6. UnreadExact
  <2> SUFFICES ASSUME NEW u \in Users PROVE unread[u] = Cardinality(UnreadOf(u)) BY DEF UnreadExact
  <2>1. UnreadOf(u) = {} BY DEF Init, UnreadOf
  <2> QED BY <2>1, FS_EmptySet DEF Init
<1> QED BY <1>1, <1>2, <1>3, <1>4, <1>5, <1>6 DEF IInv

(* The messages of an interval, and those after the mark, are finitely many *)
(* and their numbers are natural numbers.                                   *)
LEMMA Counts ==
  ASSUME Finite, NEW u \in Users, NEW lo, NEW hi
  PROVE  /\ IsFiniteSet(Between(u, lo, hi)) /\ Cardinality(Between(u, lo, hi)) \in Nat
         /\ IsFiniteSet(UnreadOf(u)) /\ Cardinality(UnreadOf(u)) \in Nat
<1>1. Between(u, lo, hi) \in SUBSET inbox[u] BY DEF Between
<1>2. UnreadOf(u) \in SUBSET inbox[u] BY DEF UnreadOf
<1>3. IsFiniteSet(inbox[u]) BY DEF Finite
<1>4. IsFiniteSet(Between(u, lo, hi)) /\ IsFiniteSet(UnreadOf(u)) BY <1>1, <1>2, <1>3, FS_Subset
<1> QED BY <1>4, FS_CardinalityType

(* A step keeps the types.                                                  *)
LEMMA TypeStep == IInv /\ [Next]_vars => TypeOK'
<1> SUFFICES ASSUME IInv, [Next]_vars PROVE TypeOK' OBVIOUS
<1>t. TypeOK BY DEF IInv
<1>f. Finite BY DEF IInv
<1> USE <1>t DEF TypeOK
<1>1. CASE UNCHANGED vars BY <1>1 DEF vars, rows, send, read
<1>2. ASSUME NEW u \in Users, BeginSend(u) PROVE TypeOK'
  BY <1>2 DEF BeginSend, rows, read
<1>3. CASE UpsertSender BY <1>3 DEF UpsertSender, rows, read
<1>4. CASE UpsertReceiver BY <1>4 DEF UpsertReceiver, rows, read
<1>5. CASE CommitSend
  <2>1. inbox' \in [Users -> SUBSET Nat] /\ offline' \in [Users -> SUBSET Nat]
    BY <1>5 DEF CommitSend
  <2>2. lastMsg' \in [Users -> Nat] /\ lastRead' \in [Users -> Nat] /\ unread' \in [Users -> Nat]
    BY <1>5, PeerIsOther DEF CommitSend
  <2>3. lock' \in [Users -> {"free", "send", "read"}] BY <1>5 DEF CommitSend, ReleaseSend
  <2> QED BY <1>5, <2>1, <2>2, <2>3 DEF CommitSend, read
<1>6. CASE AbortSend BY <1>6 DEF AbortSend, ReleaseSend, rows, read
<1>7. ASSUME NEW u \in Users, NEW m \in 1..(nextId - 1), BeginRead(u, m) PROVE TypeOK'
  BY <1>7 DEF BeginRead, rows, send
<1>8. ASSUME NEW u \in Users, ReadNothingNew(u) PROVE TypeOK'
  BY <1>8 DEF ReadNothingNew, ReleaseRead, rows, send
<1>9. ASSUME NEW u \in Users, CountRead(u) PROVE TypeOK'
  <2>1. Cardinality(Between(u, readOld[u], readTarget[u])) \in Nat BY <1>f, Counts
  <2> QED BY <1>9, <2>1 DEF CountRead, rows, send
<1>10. ASSUME NEW u \in Users, CommitRead(u) PROVE TypeOK'
  <2>1. readBy' \in [Users -> SUBSET Nat] BY <1>10 DEF CommitRead, Between
  <2>2. lastRead' \in [Users -> Nat] /\ unread' \in [Users -> Nat] BY <1>10 DEF CommitRead
  <2>3. /\ readStage' \in [Users -> {"idle", "locked", "counted"}]
        /\ lock' \in [Users -> {"free", "send", "read"}]
    BY <1>10 DEF CommitRead, ReleaseRead
  <2>4. confirmed' \in [Users -> SUBSET Nat] BY <1>10 DEF CommitRead
  <2> QED BY <1>10, <2>1, <2>2, <2>3, <2>4 DEF CommitRead, send
<1>11. ASSUME NEW u \in Users, AbortRead(u) PROVE TypeOK'
  BY <1>11 DEF AbortRead, ReleaseRead, rows, send
<1>12. ASSUME NEW u \in Users, NEW ids \in SUBSET offline[u], AckOffline(u, ids) PROVE TypeOK'
  BY <1>12 DEF AckOffline, send, read
<1>13. ASSUME NEW old, NEW ids, CleanupOffline(old, ids) PROVE TypeOK'
  BY <1>13 DEF CleanupOffline, send, read
<1> QED
  BY <1>1, <1>2, <1>3, <1>4, <1>5, <1>6, <1>7, <1>8, <1>9, <1>10, <1>11, <1>12, <1>13
  DEF Next, SendStep, ReadStep, Cleanup

(* What the invariant says depends on these variables only.                 *)
LEMMA RowsUnchanged ==
  ASSUME UNCHANGED <<inbox, lastRead, unread, lastMsg>>
  PROVE  /\ \A n : Older(n) => Older(n)'
         /\ Finite => Finite'
         /\ UnreadExact => UnreadExact'
         /\ \A u, lo, hi : Between(u, lo, hi)' = Between(u, lo, hi)
         /\ \A m : Stored(m)' <=> Stored(m)
<1>1. \A n : Older(n) => (Older(n))' BY DEF Older
<1>2. Finite => Finite' BY DEF Finite
<1>3. \A u : UnreadOf(u)' = UnreadOf(u) BY DEF UnreadOf
<1>4. UnreadExact => UnreadExact' BY <1>3 DEF UnreadExact
<1>5. \A u, lo, hi : Between(u, lo, hi)' = Between(u, lo, hi) BY DEF Between
<1>6. \A m : Stored(m)' <=> Stored(m) BY DEF Stored
<1> QED BY <1>1, <1>2, <1>4, <1>5, <1>6

(* A snapshot stays true while its row, its transaction and the messages    *)
(* stay as they are.                                                        *)
LEMMA SnapshotKept ==
  ASSUME NEW v \in Users, Snapshot(v), inbox' = inbox, lastRead'[v] = lastRead[v],
         readStage'[v] = readStage[v], readOld'[v] = readOld[v],
         readTarget'[v] = readTarget[v], readCount'[v] = readCount[v]
  PROVE  Snapshot(v)'
<1>1. Between(v, readOld[v], readTarget[v])' = Between(v, readOld[v], readTarget[v])
  BY DEF Between
<1>2. Stored(readTarget[v])' <=> Stored(readTarget[v]) BY DEF Stored
<1> QED BY <1>1, <1>2 DEF Snapshot

-----------------------------------------------------------------------------
(* Steps that leave the rows alone.                                         *)

(* A send transaction starts with a fresh id.                               *)
LEMMA BeginSendIInv ==
  ASSUME IInv, NEW u \in Users, BeginSend(u), TypeOK'
  PROVE  IInv'
<1>t. nextId \in Nat /\ lastRead \in [Users -> Nat] /\ lastMsg \in [Users -> Nat] /\ inbox \in [Users -> SUBSET Nat]
  BY DEF IInv, TypeOK
<1>w. Ids /\ Locks /\ Snapshots /\ Finite /\ UnreadExact BY DEF IInv
<1>1. /\ sendStage' = "inserted" /\ sendId' = nextId /\ nextId' = nextId + 1
      /\ UNCHANGED <<inbox, lastRead, unread, lastMsg, lock, readStage, readTarget, readOld, readCount>>
  BY DEF BeginSend, rows, read
<1>2. Ids' BY <1>t, <1>w, <1>1 DEF Ids, Older
<1>3. Locks' BY <1>w, <1>1 DEF Locks
<1>4. Snapshots' BY <1>w, <1>1, SnapshotKept DEF Snapshots
<1> QED BY <1>w, <1>1, <1>2, <1>3, <1>4, RowsUnchanged DEF IInv

(* A send transaction takes the lock of a row nobody holds.                 *)
LEMMA UpsertIInv ==
  ASSUME IInv, UpsertSender \/ UpsertReceiver, TypeOK'
  PROVE  IInv'
<1>t. lock \in [Users -> {"free", "send", "read"}] /\ sender \in Users BY DEF IInv, TypeOK
<1>u. Peer(sender) \in Users /\ Peer(sender) # sender BY <1>t, PeerIsOther
<1>w. Ids /\ Locks /\ Snapshots /\ Finite /\ UnreadExact BY DEF IInv
<1>1. UNCHANGED <<inbox, lastRead, unread, lastMsg, sender, sendId, nextId, readStage, readTarget, readOld, readCount>>
  BY DEF UpsertSender, UpsertReceiver, rows, read
<1>2. sendStage # "idle" BY DEF UpsertSender, UpsertReceiver
<1>3. Ids' BY <1>w, <1>1, <1>2, RowsUnchanged DEF Ids
<1>4. Locks'
  <2>1. CASE UpsertSender
    <3>1. /\ sendStage' = "senderRow" /\ lock[sender] = "free"
          /\ lock' = [lock EXCEPT ![sender] = "send"] BY <2>1 DEF UpsertSender
    <3>2. Peer(sender)' = Peer(sender) BY <1>1 DEF Peer
    <3> QED BY <1>t, <1>u, <1>w, <1>1, <3>1 DEF Locks
  <2>2. CASE UpsertReceiver
    <3>1. /\ sendStage = "senderRow" /\ sendStage' = "receiverRow" /\ lock[Peer(sender)] = "free"
          /\ lock' = [lock EXCEPT ![Peer(sender)] = "send"] BY <2>2 DEF UpsertReceiver
    <3>2. Peer(sender)' = Peer(sender) BY <1>1 DEF Peer
    <3> QED BY <1>t, <1>u, <1>w, <1>1, <3>1, <3>2 DEF Locks
  <2> QED BY <2>1, <2>2
<1>5. Snapshots' BY <1>w, <1>1, SnapshotKept DEF Snapshots
<1> QED BY <1>w, <1>1, <1>3, <1>4, <1>5, RowsUnchanged DEF IInv

(* A rolled back send transaction gives its locks back and nothing else.    *)
LEMMA AbortSendIInv ==
  ASSUME IInv, AbortSend, TypeOK'
  PROVE  IInv'
<1>w. Ids /\ Locks /\ Snapshots /\ Finite /\ UnreadExact BY DEF IInv
<1>1. /\ sendStage' = "idle" /\ lock' = [u \in Users |-> IF lock[u] = "send" THEN "free" ELSE lock[u]]
      /\ UNCHANGED <<inbox, lastRead, unread, lastMsg, sender, sendId, nextId, readStage, readTarget, readOld, readCount>>
  BY DEF AbortSend, ReleaseSend, rows, read
<1>2. Ids' BY <1>w, <1>1, RowsUnchanged DEF Ids
<1>3. Locks' BY <1>w, <1>1 DEF Locks
<1>4. Snapshots' BY <1>w, <1>1, SnapshotKept DEF Snapshots
<1> QED BY <1>w, <1>1, <1>2, <1>3, <1>4, RowsUnchanged DEF IInv

(* A read transaction starts with the mark of a row nobody holds.           *)
LEMMA BeginReadIInv ==
  ASSUME IInv, NEW u \in Users, NEW m \in 1..(nextId - 1), BeginRead(u, m), TypeOK'
  PROVE  IInv'
<1>t. /\ lock \in [Users -> {"free", "send", "read"}] /\ readOld \in [Users -> Nat]
      /\ readStage \in [Users -> {"idle", "locked", "counted"}] /\ readTarget \in [Users -> Nat]
      /\ sender \in Users
  BY DEF IInv, TypeOK
<1>v. Peer(sender) \in Users BY <1>t, PeerIsOther
<1>w. Ids /\ Locks /\ Snapshots /\ Finite /\ UnreadExact BY DEF IInv
<1>1. /\ lock[u] = "free" /\ lock' = [lock EXCEPT ![u] = "read"]
      /\ readStage' = [readStage EXCEPT ![u] = "locked"]
      /\ readTarget' = [readTarget EXCEPT ![u] = m]
      /\ readOld' = [readOld EXCEPT ![u] = lastRead[u]]
      /\ UNCHANGED <<inbox, lastRead, unread, lastMsg, sender, sendStage, sendId, nextId, readCount>>
  BY DEF BeginRead, rows, send
<1>2. Ids' BY <1>w, <1>1, RowsUnchanged DEF Ids
<1>3. Peer(sender)' = Peer(sender) BY <1>1 DEF Peer
<1>4. Locks' BY <1>t, <1>v, <1>w, <1>1, <1>3 DEF Locks
<1>5. Snapshots'
  <2> SUFFICES ASSUME NEW v \in Users PROVE Snapshot(v)' BY DEF Snapshots
  <2>1. Snapshot(v) BY <1>w DEF Snapshots
  <2>2. CASE v = u
    BY <1>t, <1>1, <2>1, <2>2, RowsUnchanged DEF Snapshot
  <2>3. CASE v # u
    <3>1. readStage'[v] = readStage[v] /\ readOld'[v] = readOld[v]
          /\ readTarget'[v] = readTarget[v] /\ readCount'[v] = readCount[v]
          /\ lastRead'[v] = lastRead[v]
      BY <1>t, <1>1, <2>3
    <3> QED BY <1>1, <2>1, <3>1, SnapshotKept
  <2> QED BY <2>2, <2>3
<1> QED BY <1>w, <1>1, <1>2, <1>4, <1>5, RowsUnchanged DEF IInv

(* A read transaction counts under its lock.                                *)
LEMMA CountReadIInv ==
  ASSUME IInv, NEW u \in Users, CountRead(u), TypeOK'
  PROVE  IInv'
<1>t. /\ readStage \in [Users -> {"idle", "locked", "counted"}] /\ readCount \in [Users -> Nat]
  BY DEF IInv, TypeOK
<1>w. Ids /\ Locks /\ Snapshots /\ Finite /\ UnreadExact BY DEF IInv
<1>1. /\ readStage[u] = "locked" /\ readStage' = [readStage EXCEPT ![u] = "counted"]
      /\ Stored(readTarget[u]) /\ readTarget[u] > readOld[u]
      /\ readCount' = [readCount EXCEPT ![u] = Cardinality(Between(u, readOld[u], readTarget[u]))]
      /\ UNCHANGED <<inbox, lastRead, unread, lastMsg, lock, sender, sendStage, sendId, nextId, readTarget, readOld>>
  BY DEF CountRead, rows, send
<1>2. Ids' BY <1>w, <1>1, RowsUnchanged DEF Ids
<1>3. Peer(sender)' = Peer(sender) BY <1>1 DEF Peer
<1>4. Locks' BY <1>t, <1>w, <1>1, <1>3 DEF Locks
<1>5. Snapshots'
  <2> SUFFICES ASSUME NEW v \in Users PROVE Snapshot(v)' BY DEF Snapshots
  <2>1. Snapshot(v) BY <1>w DEF Snapshots
  <2>2. CASE v = u
    <3>1. /\ readOld'[u] = lastRead'[u]
          /\ readTarget'[u] > readOld'[u]
      BY <1>1, <2>1, <2>2 DEF Snapshot
    <3>2. Stored(readTarget[u])' BY <1>1 DEF Stored
    <3>3. Between(u, readOld[u], readTarget[u])' = Between(u, readOld[u], readTarget[u])
      BY <1>1 DEF Between
    <3>4. readCount'[u] = Cardinality(Between(u, readOld[u], readTarget[u]))
      BY <1>t, <1>1
    <3>5. Snapshot(u)' BY <3>1, <3>2, <3>3, <3>4 DEF Snapshot
    <3> QED BY <2>2, <3>5
  <2>3. CASE v # u
    <3>1. readStage'[v] = readStage[v] /\ readOld'[v] = readOld[v]
          /\ readTarget'[v] = readTarget[v] /\ readCount'[v] = readCount[v]
          /\ lastRead'[v] = lastRead[v]
      BY <1>t, <1>1, <2>3
    <3> QED BY <1>1, <2>1, <3>1, SnapshotKept
  <2> QED BY <2>2, <2>3
<1> QED BY <1>w, <1>1, <1>2, <1>4, <1>5, RowsUnchanged DEF IInv

(* A read transaction that ends without a change gives its lock back.       *)
LEMMA EndReadIInv ==
  ASSUME IInv, NEW u \in Users, ReadNothingNew(u) \/ AbortRead(u), TypeOK'
  PROVE  IInv'
<1>t. /\ lock \in [Users -> {"free", "send", "read"}] /\ sender \in Users
      /\ readStage \in [Users -> {"idle", "locked", "counted"}]
  BY DEF IInv, TypeOK
<1>v. Peer(sender) \in Users BY <1>t, PeerIsOther
<1>w. Ids /\ Locks /\ Snapshots /\ Finite /\ UnreadExact BY DEF IInv
<1>1. /\ readStage' = [readStage EXCEPT ![u] = "idle"]
      /\ lock' = [lock EXCEPT ![u] = IF @ = "read" THEN "free" ELSE @]
      /\ UNCHANGED <<inbox, lastRead, unread, lastMsg, sender, sendStage, sendId, nextId, readTarget, readOld, readCount>>
  BY DEF ReadNothingNew, AbortRead, ReleaseRead, rows, send
<1>2. Ids' BY <1>w, <1>1, RowsUnchanged DEF Ids
<1>3. Peer(sender)' = Peer(sender) BY <1>1 DEF Peer
<1>4. Locks' BY <1>t, <1>v, <1>w, <1>1, <1>3 DEF Locks
<1>5. Snapshots'
  <2> SUFFICES ASSUME NEW v \in Users PROVE Snapshot(v)' BY DEF Snapshots
  <2>1. Snapshot(v) BY <1>w DEF Snapshots
  <2>2. CASE v = u
    BY <1>t, <1>1, <2>1, <2>2, RowsUnchanged DEF Snapshot
  <2>3. CASE v # u
    <3>1. readStage'[v] = readStage[v] /\ readOld'[v] = readOld[v]
          /\ readTarget'[v] = readTarget[v] /\ readCount'[v] = readCount[v]
          /\ lastRead'[v] = lastRead[v]
      BY <1>t, <1>1, <2>3
    <3> QED BY <1>1, <2>1, <3>1, SnapshotKept
  <2> QED BY <2>2, <2>3
<1> QED BY <1>w, <1>1, <1>2, <1>4, <1>5, RowsUnchanged DEF IInv

(* Steps that touch none of the invariant's variables.                      *)
LEMMA StutterIInv ==
  ASSUME IInv, TypeOK',
         UNCHANGED <<inbox, lastRead, unread, lastMsg, lock, send, read>>
  PROVE  IInv'
<1>w. Ids /\ Locks /\ Snapshots /\ Finite /\ UnreadExact BY DEF IInv
<1>1. /\ UNCHANGED <<inbox, lastRead, unread, lastMsg, lock>>
      /\ UNCHANGED <<sender, sendStage, sendId, nextId, readStage, readTarget, readOld, readCount>>
  BY DEF send, read
<1>2. Ids' BY <1>w, <1>1, RowsUnchanged DEF Ids
<1>3. Peer(sender)' = Peer(sender) BY <1>1 DEF Peer
<1>4. Locks' BY <1>w, <1>1, <1>3 DEF Locks
<1>5. Snapshots' BY <1>w, <1>1, SnapshotKept DEF Snapshots
<1> QED BY <1>w, <1>1, <1>2, <1>4, <1>5, RowsUnchanged DEF IInv

-----------------------------------------------------------------------------
(* The commits.                                                             *)

(* A committed message is one more to read for its receiver and leaves      *)
(* nothing to read for its sender.  Both rows are locked, so no read        *)
(* transaction is under way.                                                *)
LEMMA CommitSendIInv ==
  ASSUME IInv, CommitSend, TypeOK'
  PROVE  IInv'
<1> DEFINE to == Peer(sender)
<1>t. /\ inbox \in [Users -> SUBSET Nat] /\ unread \in [Users -> Nat]
      /\ lastRead \in [Users -> Nat] /\ lastMsg \in [Users -> Nat]
      /\ sender \in Users /\ sendId \in Nat /\ nextId \in Nat
  BY DEF IInv, TypeOK
<1>u. to \in Users /\ to # sender /\ Users = {sender, to} BY <1>t, PeerIsOther
<1>w. Ids /\ Locks /\ Finite /\ UnreadExact BY DEF IInv
<1>1. /\ sendStage = "receiverRow" /\ sendStage' = "idle"
      /\ inbox' = [inbox EXCEPT ![to] = @ \cup {sendId}]
      /\ lastMsg' = [u \in Users |-> sendId]
      /\ lastRead' = [lastRead EXCEPT ![sender] = sendId]
      /\ unread' = [unread EXCEPT ![sender] = 0, ![to] = @ + 1]
      /\ UNCHANGED <<sender, sendId, nextId, readStage, readTarget, readOld, readCount>>
  BY DEF CommitSend, read
<1> HIDE DEF to
<1>2. sendId < nextId /\ Older(sendId) /\ Older(nextId) BY <1>w, <1>1 DEF Ids
<1>3. \A u \in Users : readStage[u] = "idle"
  <2>1. lock[sender] = "send" /\ lock[to] = "send" BY <1>w, <1>1 DEF Locks, to
  <2> QED BY <1>u, <1>w, <2>1 DEF Locks
<1>4. inbox'[to] = inbox[to] \cup {sendId} /\ inbox'[sender] = inbox[sender]
  BY <1>t, <1>u, <1>1
<1>5. Ids'
  <2>1. \A u \in Users : lastRead'[u] < nextId /\ lastMsg'[u] < nextId
    BY <1>t, <1>1, <1>2 DEF Older
  <2>2. \A u \in Users : \A i \in inbox'[u] : i < nextId
    BY <1>t, <1>u, <1>4, <1>2 DEF Older
  <2> QED BY <1>1, <2>1, <2>2 DEF Ids, Older
<1>6. Locks' BY <1>1, <1>3 DEF Locks
<1>7. Snapshots' BY <1>1, <1>3 DEF Snapshots, Snapshot
<1>8. Finite' BY <1>u, <1>w, <1>4, FS_AddElement DEF Finite
<1>9. unread'[sender] = Cardinality(UnreadOf(sender)')
  <2>1. UnreadOf(sender)' = {}
    <3>1. UnreadOf(sender)' = {i \in inbox[sender] : i > sendId} BY <1>t, <1>1, <1>4 DEF UnreadOf
    <3> QED BY <1>t, <1>2, <3>1 DEF Older
  <2> QED BY <1>t, <1>u, <1>1, <2>1, FS_EmptySet
<1>10. unread'[to] = Cardinality(UnreadOf(to)')
  <2>1. UnreadOf(to)' = {i \in inbox[to] \cup {sendId} : i > lastRead[to]}
    <3>1. (UnreadOf(to))' = {i \in inbox'[to'] : i > lastRead'[to']} BY DEF UnreadOf
    <3>2. to' = to BY <1>1 DEF to, Peer
    <3> QED BY <1>t, <1>u, <1>1, <1>4, <3>1, <3>2
  <2>2. UnreadOf(to)' = UnreadOf(to) \cup {sendId} /\ sendId \notin UnreadOf(to)
    BY <1>t, <1>u, <1>2, <2>1 DEF Older, UnreadOf
  <2>3. IsFiniteSet(UnreadOf(to)) BY <1>u, <1>w, Counts
  <2>4. Cardinality(UnreadOf(to)') = Cardinality(UnreadOf(to)) + 1 BY <2>2, <2>3, FS_AddElement
  <2>5. unread[to] = Cardinality(UnreadOf(to)) BY <1>u, <1>w DEF UnreadExact
  <2>6. unread'[to] = unread[to] + 1 BY <1>t, <1>u, <1>1
  <2> QED BY <2>4, <2>5, <2>6
<1>11. UnreadExact' BY <1>u, <1>9, <1>10, <1>1 DEF UnreadExact, to, Peer
<1> QED BY <1>5, <1>6, <1>7, <1>8, <1>11 DEF IInv

(* The messages after the old mark are those the read covers and those      *)
(* after the new mark.                                                      *)
LEMMA SplitUnread ==
  ASSUME Finite, inbox \in [Users -> SUBSET Nat], NEW u \in Users,
         NEW old \in Nat, NEW new \in Nat, old < new, lastRead[u] = old,
         NEW rest, rest = {i \in inbox[u] : i > new}
  PROVE  /\ Cardinality(rest) \in Nat
         /\ Cardinality(UnreadOf(u)) = Cardinality(Between(u, old, new)) + Cardinality(rest)
<1>1. UnreadOf(u) = Between(u, old, new) \cup rest BY DEF UnreadOf, Between
<1>2. Between(u, old, new) \cap rest = {} BY DEF Between
<1>3. IsFiniteSet(inbox[u]) /\ rest \in SUBSET inbox[u] BY DEF Finite
<1>4. IsFiniteSet(rest) BY <1>3, FS_Subset
<1>5. IsFiniteSet(Between(u, old, new)) /\ Cardinality(Between(u, old, new)) \in Nat BY Counts
<1>6. Cardinality(rest) \in Nat BY <1>4, FS_CardinalityType
<1>7. Cardinality(Between(u, old, new) \cap rest) = 0 BY <1>2, FS_EmptySet
<1>8. Cardinality(UnreadOf(u)) =
        Cardinality(Between(u, old, new)) + Cardinality(rest) - Cardinality(Between(u, old, new) \cap rest)
  BY <1>1, <1>4, <1>5, FS_Union
<1> QED BY <1>5, <1>6, <1>7, <1>8

(* A committed read moves the mark to a stored message and subtracts        *)
(* exactly what it covers.                                                  *)
LEMMA CommitReadIInv ==
  ASSUME IInv, NEW u \in Users, CommitRead(u), TypeOK'
  PROVE  IInv'
<1> DEFINE new == readTarget[u]
           old == readOld[u]
           rest == {i \in inbox[u] : i > new}
<1>t. /\ inbox \in [Users -> SUBSET Nat] /\ unread \in [Users -> Nat]
      /\ lastRead \in [Users -> Nat] /\ lastMsg \in [Users -> Nat]
      /\ lock \in [Users -> {"free", "send", "read"}] /\ sender \in Users
      /\ readStage \in [Users -> {"idle", "locked", "counted"}]
      /\ new \in Nat /\ old \in Nat /\ sendId \in Nat /\ nextId \in Nat
  BY DEF IInv, TypeOK
<1>v. Peer(sender) \in Users BY <1>t, PeerIsOther
<1>w. Ids /\ Locks /\ Snapshots /\ Finite /\ UnreadExact BY DEF IInv
<1>1. /\ readStage[u] = "counted" /\ readStage' = [readStage EXCEPT ![u] = "idle"]
      /\ lastRead' = [lastRead EXCEPT ![u] = new]
      /\ unread' = [unread EXCEPT ![u] = IF @ > readCount[u] THEN @ - readCount[u] ELSE 0]
      /\ lock' = [lock EXCEPT ![u] = IF @ = "read" THEN "free" ELSE @]
      /\ UNCHANGED <<inbox, lastMsg, sender, sendStage, sendId, nextId, readTarget, readOld, readCount>>
  BY DEF CommitRead, ReleaseRead, send
<1>2. /\ old = lastRead[u] /\ new > old /\ Stored(new)
      /\ readCount[u] = Cardinality(Between(u, old, new))
  BY <1>w, <1>1 DEF Snapshots, Snapshot
<1> HIDE DEF new, old, rest
<1>3. \E v \in Users : new \in inbox[v] BY <1>2 DEF Stored, Users
<1>4. Ids'
  <2>1. \A n : Older(n) => Older(n)'
    BY <1>t, <1>1, <1>3 DEF Older
  <2> QED BY <1>w, <1>1, <2>1 DEF Ids
<1>5. Peer(sender)' = Peer(sender) BY <1>1 DEF Peer
<1>6. Locks' BY <1>t, <1>v, <1>w, <1>1, <1>5 DEF Locks
<1>7. Snapshots'
  <2> SUFFICES ASSUME NEW v \in Users PROVE Snapshot(v)' BY DEF Snapshots
  <2>1. Snapshot(v) BY <1>w DEF Snapshots
  <2> QED BY <1>t, <1>1, <2>1 DEF Snapshot, Stored, Between
<1>8. Finite' BY <1>w, <1>1 DEF Finite
<1>9. UnreadExact'
  <2> SUFFICES ASSUME NEW v \in Users PROVE unread'[v] = Cardinality(UnreadOf(v)') BY DEF UnreadExact
  <2>1. CASE v # u
    <3>1. UnreadOf(v)' = UnreadOf(v) BY <1>t, <1>1, <2>1 DEF UnreadOf
    <3> QED BY <1>t, <1>w, <1>1, <2>1, <3>1 DEF UnreadExact
  <2>2. CASE v = u
    <3>1. UnreadOf(v)' = rest BY <1>t, <1>1, <2>2 DEF UnreadOf, rest
    <3>2. /\ Cardinality(rest) \in Nat
          /\ Cardinality(UnreadOf(u)) = Cardinality(Between(u, old, new)) + Cardinality(rest)
      BY <1>t, <1>w, <1>2, SplitUnread DEF rest
    <3>3. Cardinality(Between(u, old, new)) \in Nat BY <1>w, Counts
    <3>4. unread[u] = readCount[u] + Cardinality(rest) BY <1>w, <1>2, <3>2 DEF UnreadExact
    <3>5. unread'[u] = IF unread[u] > readCount[u] THEN unread[u] - readCount[u] ELSE 0
      BY <1>t, <1>1
    <3>a. readCount[u] \in Nat /\ Cardinality(rest) \in Nat BY <1>2, <3>2, <3>3
    <3>b. \A c, r \in Nat : (IF c + r > c THEN (c + r) - c ELSE 0) = r OBVIOUS
    <3>6. unread'[u] = Cardinality(rest) BY <3>4, <3>5, <3>a, <3>b
    <3> QED BY <2>2, <3>1, <3>6
  <2> QED BY <2>1, <2>2
<1> QED BY <1>4, <1>6, <1>7, <1>8, <1>9 DEF IInv

-----------------------------------------------------------------------------
(* The invariant is inductive.                                              *)
LEMMA StepIInv == IInv /\ [Next]_vars => IInv'
<1> SUFFICES ASSUME IInv, [Next]_vars PROVE IInv' OBVIOUS
<1>t. TypeOK' BY TypeStep
<1>1. CASE UNCHANGED vars BY <1>1, <1>t, StutterIInv DEF vars, rows
<1>2. CASE SendStep
  BY <1>2, <1>t, BeginSendIInv, UpsertIInv, CommitSendIInv, AbortSendIInv DEF SendStep
<1>3. ASSUME NEW u \in Users, ReadStep(u) PROVE IInv'
  <2>1. ASSUME NEW ids \in SUBSET offline[u], AckOffline(u, ids) PROVE IInv'
    BY <1>t, <2>1, StutterIInv DEF AckOffline
  <2> QED BY <1>3, <1>t, <2>1, BeginReadIInv, EndReadIInv, CountReadIInv, CommitReadIInv DEF ReadStep
<1>4. ASSUME NEW old, NEW ids, CleanupOffline(old, ids) PROVE IInv'
  BY <1>t, <1>4, StutterIInv DEF CleanupOffline
<1> QED BY <1>1, <1>2, <1>3, <1>4 DEF Next, Cleanup

(* It holds in every reachable state.                                       *)
LEMMA AlwaysIInv == Spec => []IInv
BY InitIInv, StepIInv, PTL DEF Spec

(* Every variable keeps its type.                                           *)
THEOREM TypeCorrect == Spec => []TypeOK
<1>1. IInv => TypeOK BY DEF IInv
<1> QED BY <1>1, AlwaysIInv, PTL

(* For any number of messages the unread count kept by the two kinds of     *)
(* transactions is the number of messages after the read mark.              *)
THEOREM UnreadIsExact == Spec => []UnreadExact
<1>1. IInv => UnreadExact BY DEF IInv
<1> QED BY <1>1, AlwaysIInv, PTL

(* Read marks and last messages never move back.                            *)
THEOREM MarksOnlyAdvance == Spec => MarksAdvance
<1> DEFINE Advance == \A u \in Users : lastRead'[u] >= lastRead[u] /\ lastMsg'[u] >= lastMsg[u]
<1>1. ASSUME IInv, [Next]_vars PROVE [Advance]_vars
  <2>t. /\ lastRead \in [Users -> Nat] /\ lastMsg \in [Users -> Nat] /\ sendId \in Nat
        /\ sender \in Users /\ readTarget \in [Users -> Nat] /\ readOld \in [Users -> Nat]
    BY <1>1 DEF IInv, TypeOK
  <2>w. Ids /\ Snapshots BY <1>1 DEF IInv
  <2>1. CASE UNCHANGED <<lastRead, lastMsg>> BY <2>t, <2>1
  <2>2. CASE CommitSend
    <3>1. /\ lastMsg' = [u \in Users |-> sendId]
          /\ lastRead' = [lastRead EXCEPT ![sender] = sendId]
      BY <2>2 DEF CommitSend
    <3>2. Older(sendId) BY <2>2, <2>w DEF CommitSend, Ids
    <3> QED BY <2>t, <3>1, <3>2 DEF Older
  <2>3. ASSUME NEW u \in Users, CommitRead(u) PROVE Advance
    <3>1. lastMsg' = lastMsg /\ lastRead' = [lastRead EXCEPT ![u] = readTarget[u]]
      BY <2>3 DEF CommitRead
    <3>2. readOld[u] = lastRead[u] /\ readTarget[u] > readOld[u]
      BY <2>3, <2>w DEF CommitRead, Snapshots, Snapshot
    <3> QED BY <2>t, <3>1, <3>2
  <2> QED
    BY <1>1, <2>1, <2>2, <2>3
    DEF Next, SendStep, ReadStep, BeginSend, UpsertSender, UpsertReceiver, AbortSend, BeginRead,
        ReadNothingNew, CountRead, AbortRead, AckOffline, Cleanup, CleanupOffline, vars, rows
<1> QED BY <1>1, AlwaysIInv, PTL DEF Spec, MarksAdvance

(* A stored message is in the receiver's offline index until the receiver   *)
(* acknowledges it or the cleanup finds it past its retention.              *)
THEOREM OfflineIsComplete == Spec => []OfflineUntilAcked
<1>1. Init => OfflineUntilAcked BY DEF Init, OfflineUntilAcked
<1>2. ASSUME IInv, OfflineUntilAcked, [Next]_vars PROVE OfflineUntilAcked'
  <2>t. /\ inbox \in [Users -> SUBSET Nat] /\ offline \in [Users -> SUBSET Nat]
        /\ released \in [Users -> SUBSET Nat]
    BY <1>2 DEF IInv, TypeOK
  <2>1. CASE UNCHANGED <<inbox, offline, released>> BY <1>2, <2>1 DEF OfflineUntilAcked
  <2>2. CASE CommitSend BY <1>2, <2>t, <2>2 DEF CommitSend, OfflineUntilAcked
  <2>3. ASSUME NEW u \in Users, NEW ids \in SUBSET offline[u], AckOffline(u, ids)
        PROVE OfflineUntilAcked'
    BY <1>2, <2>t, <2>3 DEF AckOffline, OfflineUntilAcked
  <2>4. ASSUME NEW old, NEW ids, CleanupOffline(old, ids) PROVE OfflineUntilAcked'
    BY <1>2, <2>t, <2>4 DEF CleanupOffline, OfflineUntilAcked
  <2> QED
    BY <1>2, <2>1, <2>2, <2>3, <2>4
    DEF Next, SendStep, ReadStep, Cleanup, BeginSend, UpsertSender, UpsertReceiver, AbortSend,
        BeginRead, ReadNothingNew, CountRead, CommitRead, AbortRead, vars, rows
<1> QED BY <1>1, <1>2, AlwaysIInv, PTL DEF Spec
=============================================================================
