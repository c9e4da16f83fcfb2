---------------------------- MODULE DirectMessages ----------------------------
(***************************************************************************)
(* One direct conversation in the database.  Sending                       *)
(* (SqlDirectMessageWriteStore) and marking as read                        *)
(* (SqlConversationReadWriteStore) are transactions of different executor  *)
(* keys, "dm:<conversation>" and "ack:<account>", so they run at the same  *)
(* time and only the row locks of the two conversations rows order them.   *)
(* Every locking statement is a step; what a transaction wrote becomes     *)
(* visible when it commits; it may be rolled back after every statement.   *)
(***************************************************************************)
EXTENDS Integers, FiniteSets

CONSTANTS
  A, B,    \* the two accounts
  MaxSends \* bound: send transactions of one behaviour

ASSUME DirectAssumption == A # B /\ MaxSends \in Nat

Users == {A, B}
Peer(u) == IF u = A THEN B ELSE A

VARIABLES
  inbox,      \* direct_messages: ids of the committed messages to a user
  lastMsg,    \* conversations.last_msg_id of the user's row; 0: no row yet
  lastRead,   \* conversations.last_read_msg_id
  unread,     \* conversations.unread_count
  offline,    \* offline_messages: ids waiting for the user's ack
  readBy,     \* message_receipts: ids with a read time
  lock,       \* who holds the user's conversations row
  nextId,     \* the next message id
  sendStage, sender, sendId,              \* the running send transaction
  readStage, readTarget, readOld, readCount, \* the running read transaction of each user
  released,   \* history: ids the user acknowledged, or past their retention
  confirmed   \* history: ids a read request of the user succeeded for

rows == <<inbox, lastMsg, lastRead, unread, offline, readBy>>
send == <<sendStage, sender, sendId, nextId>>
read == <<readStage, readTarget, readOld, readCount>>
vars == <<rows, lock, send, read, released, confirmed>>

Init ==
  /\ inbox = [u \in Users |-> {}] /\ offline = [u \in Users |-> {}]
  /\ readBy = [u \in Users |-> {}]
  /\ lastMsg = [u \in Users |-> 0] /\ lastRead = [u \in Users |-> 0]
  /\ unread = [u \in Users |-> 0]
  /\ lock = [u \in Users |-> "free"]
  /\ nextId = 1 /\ sendStage = "idle" /\ sender = A /\ sendId = 0
  /\ readStage = [u \in Users |-> "idle"] /\ readTarget = [u \in Users |-> 0]
  /\ readOld = [u \in Users |-> 0] /\ readCount = [u \in Users |-> 0]
  /\ released = [u \in Users |-> {}] /\ confirmed = [u \in Users |-> {}]

-----------------------------------------------------------------------------
(* Sending.  The executor runs the sends of a conversation one at a time in *)
(* the order of their ids.                                                  *)

(* Receiver and friendship are checked and the message inserted.            *)
BeginSend(u) ==
  /\ sendStage = "idle" /\ nextId <= MaxSends
  /\ sendStage' = "inserted" /\ sender' = u /\ sendId' = nextId
  /\ nextId' = nextId + 1
  /\ UNCHANGED <<rows, lock, read, released, confirmed>>

(* The upsert of the sender's row waits for its lock.                       *)
UpsertSender ==
  /\ sendStage = "inserted" /\ lock[sender] = "free"
  /\ sendStage' = "senderRow"
  /\ lock' = [lock EXCEPT ![sender] = "send"]
  /\ UNCHANGED <<rows, sender, sendId, nextId, read, released, confirmed>>

(* Then that of the receiver's row.                                         *)
UpsertReceiver ==
  /\ sendStage = "senderRow" /\ lock[Peer(sender)] = "free"
  /\ sendStage' = "receiverRow"
  /\ lock' = [lock EXCEPT ![Peer(sender)] = "send"]
  /\ UNCHANGED <<rows, sender, sendId, nextId, read, released, confirmed>>

ReleaseSend == lock' = [u \in Users |-> IF lock[u] = "send" THEN "free" ELSE lock[u]]

(* The index of undelivered messages, and the commit: the sender has read   *)
(* everything, the receiver has one more to read.                           *)
CommitSend ==
  LET to == Peer(sender) IN
  /\ sendStage = "receiverRow"
  /\ inbox' = [inbox EXCEPT ![to] = @ \cup {sendId}]
  /\ offline' = [offline EXCEPT ![to] = @ \cup {sendId}]
  /\ lastMsg' = [u \in Users |-> sendId]
  /\ lastRead' = [lastRead EXCEPT ![sender] = sendId]
  /\ unread' = [unread EXCEPT ![sender] = 0, ![to] = @ + 1]
  /\ sendStage' = "idle" /\ ReleaseSend
  /\ UNCHANGED <<readBy, sender, sendId, nextId, read, released, confirmed>>

(* An error, a deadlock, a lost connection or a crash: rolled back.         *)
AbortSend ==
  /\ sendStage # "idle"
  /\ sendStage' = "idle" /\ ReleaseSend
  /\ UNCHANGED <<rows, sender, sendId, nextId, read, released, confirmed>>

-----------------------------------------------------------------------------
(* Reading: commitDirect().                                                 *)

(* Committed messages to u in the half-open interval (lo, hi].              *)
Between(u, lo, hi) == {i \in inbox[u] : lo < i /\ i <= hi}

(* SELECT last_read_msg_id ... FOR UPDATE finds the user's row.             *)
BeginRead(u, m) ==
  /\ readStage[u] = "idle" /\ lock[u] = "free" /\ lastMsg[u] # 0
  /\ lock' = [lock EXCEPT ![u] = "read"]
  /\ readStage' = [readStage EXCEPT ![u] = "locked"]
  /\ readTarget' = [readTarget EXCEPT ![u] = m]
  /\ readOld' = [readOld EXCEPT ![u] = lastRead[u]]
  /\ UNCHANGED <<rows, send, readCount, released, confirmed>>

ReleaseRead(u) == lock' = [lock EXCEPT ![u] = IF @ = "read" THEN "free" ELSE @]

(* The message belongs to the conversation and is committed.                *)
Stored(m) == m \in inbox[A] \cup inbox[B]

(* An older target: nothing to do, and the request succeeds.                *)
ReadNothingNew(u) ==
  /\ readStage[u] = "locked" /\ Stored(readTarget[u])
  /\ readTarget[u] <= readOld[u]
  /\ readStage' = [readStage EXCEPT ![u] = "idle"] /\ ReleaseRead(u)
  /\ confirmed' = [confirmed EXCEPT ![u] = @ \cup {readTarget[u]}]
  /\ UNCHANGED <<rows, send, readTarget, readOld, readCount, released>>

(* A newer target: count what it reads.                                     *)
CountRead(u) ==
  /\ readStage[u] = "locked" /\ Stored(readTarget[u])
  /\ readTarget[u] > readOld[u]
  /\ readStage' = [readStage EXCEPT ![u] = "counted"]
  /\ readCount' = [readCount EXCEPT ![u] = Cardinality(Between(u, readOld[u], readTarget[u]))]
  /\ UNCHANGED <<rows, lock, send, readTarget, readOld, released, confirmed>>

(* Mutant of CommitRead: the unread count is simply set to zero.            *)
CommitReadResets(u) ==
  /\ readStage[u] = "counted"
  /\ readBy' = [readBy EXCEPT ![u] = @ \cup Between(u, readOld[u], readTarget[u])]
  /\ lastRead' = [lastRead EXCEPT ![u] = readTarget[u]]
  /\ unread' = [unread EXCEPT ![u] = 0]
  /\ readStage' = [readStage EXCEPT ![u] = "idle"] /\ ReleaseRead(u)
  /\ confirmed' = [confirmed EXCEPT ![u] = @ \cup {readTarget[u]}]
  /\ UNCHANGED <<inbox, lastMsg, offline, send, readTarget, readOld, readCount, released>>

(* Receipts, the new mark, the difference of the unread count, commit.      *)
CommitRead(u) ==
  /\ readStage[u] = "counted"
  /\ readBy' = [readBy EXCEPT ![u] = @ \cup Between(u, readOld[u], readTarget[u])]
  /\ lastRead' = [lastRead EXCEPT ![u] = readTarget[u]]
  /\ unread' = [unread EXCEPT ![u] = IF @ > readCount[u] THEN @ - readCount[u] ELSE 0]
  /\ readStage' = [readStage EXCEPT ![u] = "idle"] /\ ReleaseRead(u)
  /\ confirmed' = [confirmed EXCEPT ![u] = @ \cup {readTarget[u]}]
  /\ UNCHANGED <<inbox, lastMsg, offline, send, readTarget, readOld, readCount, released>>

(* No such message, or an error as above.                                   *)
AbortRead(u) ==
  /\ readStage[u] # "idle"
  /\ readStage' = [readStage EXCEPT ![u] = "idle"] /\ ReleaseRead(u)
  /\ UNCHANGED <<rows, send, readTarget, readOld, readCount, released, confirmed>>

(* ackOfflineMessagesBatch(), in turn with the user's reads; an id without  *)
(* a row deletes nothing.                                                   *)
AckOffline(u, ids) ==
  /\ readStage[u] = "idle"
  /\ offline' = [offline EXCEPT ![u] = @ \ ids]
  /\ released' = [released EXCEPT ![u] = @ \cup ids]
  /\ UNCHANGED <<inbox, lastMsg, lastRead, unread, readBy, lock, send, read, confirmed>>

(* cleanupOfflineIndexes(), deleteCreatedBefore(): the retention of the     *)
(* messages up to old is over; a batch of their rows is deleted,            *)
(* acknowledged or not.  Rows are created in the order of their ids.        *)
CleanupOffline(old, ids) ==
  /\ \A i \in ids : i <= old
  /\ offline' = [u \in Users |-> offline[u] \ ids]
  /\ released' = [u \in Users |-> released[u] \cup {i \in inbox[u] : i <= old}]
  /\ UNCHANGED <<inbox, lastMsg, lastRead, unread, readBy, lock, send, read, confirmed>>

-----------------------------------------------------------------------------
SendStep == (\E u \in Users : BeginSend(u)) \/ UpsertSender \/ UpsertReceiver \/ CommitSend \/ AbortSend
ReadStep(u) ==
  \/ \E m \in 1..(nextId - 1) : BeginRead(u, m)
  \/ ReadNothingNew(u) \/ CountRead(u) \/ CommitRead(u) \/ AbortRead(u)
  \/ \E ids \in SUBSET offline[u] \ {{}} : AckOffline(u, ids)

Cleanup ==
  \E old \in 0..(nextId - 1) : \E ids \in SUBSET (offline[A] \cup offline[B]) \ {{}} :
    CleanupOffline(old, ids)

Next == SendStep \/ (\E u \in Users : ReadStep(u)) \/ Cleanup

Spec == Init /\ [][Next]_vars

-----------------------------------------------------------------------------
TypeOK ==
  /\ inbox \in [Users -> SUBSET Nat] /\ offline \in [Users -> SUBSET Nat]
  /\ readBy \in [Users -> SUBSET Nat]
  /\ lastMsg \in [Users -> Nat] /\ lastRead \in [Users -> Nat] /\ unread \in [Users -> Nat]
  /\ lock \in [Users -> {"free", "send", "read"}]
  /\ nextId \in Nat /\ sender \in Users /\ sendId \in Nat
  /\ sendStage \in {"idle", "inserted", "senderRow", "receiverRow"}
  /\ readStage \in [Users -> {"idle", "locked", "counted"}]
  /\ readTarget \in [Users -> Nat] /\ readOld \in [Users -> Nat] /\ readCount \in [Users -> Nat]
  /\ released \in [Users -> SUBSET Nat] /\ confirmed \in [Users -> SUBSET Nat]

(* The messages to u after its read mark.                                   *)
UnreadOf(u) == {i \in inbox[u] : i > lastRead[u]}

(* The unread count of a conversation, kept by increments of the sender's   *)
(* transaction and differences of the reader's, is at every commit exactly  *)
(* the number of messages after the read mark.                              *)
UnreadExact == \A u \in Users : unread[u] = Cardinality(UnreadOf(u))

(* Neither the read mark nor the last message of a conversation ever moves  *)
(* back: not for a late or repeated read request, nor for a send.           *)
MarksAdvance ==
  [][\A u \in Users : lastRead'[u] >= lastRead[u] /\ lastMsg'[u] >= lastMsg[u]]_vars

(* A stored message stays in the receiver's offline index until the         *)
(* receiver acknowledges it or its retention is over, whichever is first.   *)
OfflineUntilAcked == \A u \in Users : inbox[u] \ released[u] \subseteq offline[u]

(* "Conversation read updates read mark, unread count and message receipts  *)
(* together" (README.md:25): once a read request for a message succeeded,   *)
(* the messages up to it have read receipts.                                *)
ReadLeavesReceipts ==
  \A u \in Users : \A m \in confirmed[u] : {i \in inbox[u] : i <= m} \subseteq readBy[u]
=============================================================================
