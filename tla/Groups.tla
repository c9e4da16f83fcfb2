-------------------------------- MODULE Groups --------------------------------
(***************************************************************************)
(* One chat group: its rows in the database, its copy in the GroupManager  *)
(* of the base loop, and its messages.                                     *)
(*                                                                         *)
(* Every membership request runs on the base loop from its first query to  *)
(* its last change of the copy, so it is one step.  Messages are sent and  *)
(* marked as read by transactions on the executors, which run between and  *)
(* during the base loop's: the row locks order them.  A transaction of the *)
(* base loop that needs a locked row waits.  A database error before the   *)
(* commit rolls the transaction back and is answered, a step that          *)
(* changes nothing, with two exceptions: handleLeave has changed the copy  *)
(* by then, and a query that fails where its caller cannot tell an error   *)
(* from an empty result is taken for an absent group or a group without    *)
(* members (HandleLeave, Reload, Restart).                                 *)
(***************************************************************************)
EXTENDS Integers, FiniteSets, Sequences

CONSTANTS
  Accounts,    \* the accounts
  None,        \* no account, no row, no transaction
  MaxMembers,  \* ImConfig::maxGroupMembers
  MaxMessages  \* bound: messages submitted in one behaviour

ASSUME GroupsAssumption ==
  /\ None \notin Accounts /\ None \notin [seq : Nat, msg : Nat]
  /\ MaxMembers \in Nat \ {0}
  /\ MaxMessages \in Nat

VARIABLES
  status,    \* chat_groups.status, "absent" before the group is created
  owner,     \* chat_groups.owner
  role,      \* group_members.role, "none" without a row
  pending,   \* applicants with a pending row in group_join_requests
  head,      \* group_conversation_heads: last_seq and last_msg_id, or None
  cursor,    \* user_group_cursors of each account, or None
  messages,  \* the committed rows of messages
  memOwner,  \* Group::ownerAccountId_; None: the group is not in memory
  memRole,   \* Group::members_
  memIndex,  \* accounts with the group in GroupManager::accountIdGroups_
  forgotten, \* history: members a failed query hid when the copy was changed
  told,      \* the accounts the last step sent an event of the group
  queue,     \* the group's tasks in the message executor
  nextId,    \* the next message id
  sending,   \* the send transaction that holds the head row, or None
  reading    \* each account's read transaction holding its cursor, or None

rows == <<status, owner, role, pending, head, cursor>>
memory == <<memOwner, memRole, memIndex, forgotten>>
work == <<messages, queue, nextId, sending, reading>>
vars == <<rows, memory, work, told>>

Nobody == [a \in Accounts |-> "none"]
Members == {a \in Accounts : role[a] # "none"}
GroupExists == status = "active"
IsMember(a) == role[a] # "none"
CountMembers == Cardinality(Members)
Managers == {a \in Accounts : role[a] \in {"admin", "owner"}}

HeadFree == sending = None
CursorFree(a) == reading[a] = None

Init ==
  /\ status = "absent" /\ owner = None /\ role = Nobody /\ pending = {}
  /\ head = None /\ cursor = [a \in Accounts |-> None] /\ messages = {}
  /\ memOwner = None /\ memRole = Nobody /\ memIndex = {}
  /\ forgotten = {} /\ told = {}
  /\ queue = <<>> /\ nextId = 1 /\ sending = None
  /\ reading = [a \in Accounts |-> None]

-----------------------------------------------------------------------------
(* GroupManager: the copy.                                                  *)

CopyMembers == {a \in Accounts : memRole[a] # "none"}

(* createGroup: the group with its owner.                                   *)
MemCreate(a) ==
  /\ memOwner' = a /\ memRole' = [Nobody EXCEPT ![a] = "owner"]
  /\ memIndex' = memIndex \cup {a}
  /\ UNCHANGED forgotten

(* removeGroup                                                              *)
MemRemoveGroup ==
  /\ memOwner' = None /\ memRole' = Nobody
  /\ memIndex' = memIndex \ CopyMembers

(* restoreGroup accepts rows in which nobody but the owner has that role,   *)
(* and replaces the group and its entries in the index.                     *)
Restorable(o, r) == \A a \in Accounts : r[a] = "owner" => a = o
Restored(o, r) == [r EXCEPT ![o] = "owner"]

Hidden(o, r) == {a \in Members' : Restored(o, r)[a] = "none"}

MemRestore(o, r) ==
  /\ memOwner' = o /\ memRole' = Restored(o, r)
  /\ memIndex' = (memIndex \ CopyMembers)
                    \cup {a \in Accounts : Restored(o, r)[a] # "none"}
  /\ forgotten' = Hidden(o, r)

(* reloadGroup, after the step changed the rows, and whether it succeeds.   *)
(* findGroupsByIds returns nothing for a group that is not active and when  *)
(* its query fails: the group leaves the memory.  listMemberRecords returns *)
(* nothing when its query fails: the owner is restored alone.               *)
Reload(ok) ==
  \/ ~ok /\ MemRemoveGroup /\ forgotten' = Members'
  \/ /\ GroupExists'
     /\ \E r \in {role', Nobody} :
          IF Restorable(owner', r) THEN ok /\ MemRestore(owner', r)
                                   ELSE ~ok /\ UNCHANGED memory

(* Mutant of MemJoin: a refused join is not followed by a reload.           *)
MemJoinNoReload(a, ok) ==
  /\ ok
  /\ IF memOwner # None /\ memRole[a] = "none"
       THEN /\ memRole' = [memRole EXCEPT ![a] = "member"]
            /\ memIndex' = memIndex \cup {a}
            /\ UNCHANGED <<memOwner, forgotten>>
       ELSE UNCHANGED memory

(* joinGroup adds a plain member; the group is reloaded when the account is *)
(* in the copy already or the group is not.                                 *)
MemJoin(a, ok) ==
  IF memOwner # None /\ memRole[a] = "none"
    THEN /\ ok
         /\ memRole' = [memRole EXCEPT ![a] = "member"]
         /\ memIndex' = memIndex \cup {a}
         /\ UNCHANGED <<memOwner, forgotten>>
    ELSE Reload(ok)

(* Group::removeMember refuses the owner and a stranger.                    *)
Removable(a) == memRole[a] # "none" /\ a # memOwner

(* leaveGroup                                                               *)
MemLeave(a) ==
  /\ Removable(a)
  /\ memRole' = [memRole EXCEPT ![a] = "none"]
  /\ memIndex' = memIndex \ {a}
  /\ UNCHANGED memOwner

(* removeMember, then a reload when it refuses.                             *)
MemRemove(a, ok) ==
  IF Removable(a)
    THEN /\ ok
         /\ memRole' = [memRole EXCEPT ![a] = "none"]
         /\ memIndex' = memIndex \ {a}
         /\ UNCHANGED <<memOwner, forgotten>>
    ELSE Reload(ok)

(* setMemberRole: Group::setRole refuses the owner and a stranger.          *)
MemSetRole(a, r, ok) ==
  IF memRole[a] # "none" /\ a # memOwner
    THEN /\ ok
         /\ memRole' = [memRole EXCEPT ![a] = r]
         /\ UNCHANGED <<memOwner, memIndex, forgotten>>
    ELSE Reload(ok)

MemTransfer(old, new, ok) ==
  IF memOwner = old /\ memRole[old] # "none" /\ memRole[new] # "none"
    THEN /\ ok
         /\ memOwner' = new
         /\ memRole' = [memRole EXCEPT ![old] = "member", ![new] = "owner"]
         /\ UNCHANGED <<memIndex, forgotten>>
    ELSE Reload(ok)

-----------------------------------------------------------------------------
(* The repositories: what one transaction does to the rows.                 *)

(* createGroupWithOwner: group, owner, head and the owner's cursor.         *)
CreateGroupWithOwner(a) ==
  /\ status = "absent"
  /\ status' = "active" /\ owner' = a
  /\ role' = [role EXCEPT ![a] = "owner"]
  /\ head' = [seq |-> 0, msg |-> 0]
  /\ cursor' = [cursor EXCEPT ![a] = [read |-> 0, msg |-> 0, joined |-> 0]]
  /\ UNCHANGED pending

(* addMember: the member's row only.                                        *)
AddMember(a) ==
  /\ GroupExists /\ ~IsMember(a)
  /\ role' = [role EXCEPT ![a] = "member"]
  /\ UNCHANGED <<status, owner, pending, head, cursor>>

(* removeMember: the member's row and cursor.                               *)
RemoveRows(a) ==
  /\ CursorFree(a)
  /\ role' = [role EXCEPT ![a] = "none"]
  /\ cursor' = [cursor EXCEPT ![a] = None]
  /\ UNCHANGED <<status, owner, pending, head>>

UpdateMemberRole(a, r) ==
  /\ role' = [role EXCEPT ![a] = r]
  /\ UNCHANGED <<status, owner, pending, head, cursor>>

(* Mutant of TransferRows: the old owner is not demoted.                    *)
TransferRowsKeepOld(old, new) ==
  /\ owner = old
  /\ owner' = new
  /\ role' = [role EXCEPT ![new] = "owner"]
  /\ UNCHANGED <<status, pending, head, cursor>>

(* SqlGroupRepo::transferOwner                                              *)
TransferRows(old, new) ==
  /\ owner = old
  /\ owner' = new
  /\ role' = [role EXCEPT ![new] = "owner", ![old] = "member"]
  /\ UNCHANGED <<status, pending, head, cursor>>

(* SqlGroupRepo::dissolveGroup deletes members, cursors and the head; the   *)
(* messages stay.                                                           *)
DissolveRows(o) ==
  /\ GroupExists /\ owner = o /\ Members # {}
  /\ HeadFree /\ \A a \in Accounts : CursorFree(a)
  /\ status' = "dissolved" /\ role' = Nobody /\ head' = None
  /\ cursor' = [a \in Accounts |-> None]
  /\ UNCHANGED <<owner, pending>>

(* submit: a new request, or a handled one becomes pending again.           *)
SubmitRequest(a) ==
  /\ GroupExists /\ ~IsMember(a) /\ a \notin pending
  /\ pending' = pending \cup {a}
  /\ UNCHANGED <<status, owner, role, head, cursor>>

(* review, approved: the member, a cursor at the head, the request.  The    *)
(* head row is read under a lock.  For an applicant who is a member by now  *)
(* (invited meanwhile) the function sets the request to approved and        *)
(* returns without the commit: nothing changes.                             *)
Approve(r, a) ==
  /\ GroupExists /\ r \in Managers /\ a \in pending
  /\ CountMembers < MaxMembers
  /\ ~IsMember(a)
  /\ HeadFree /\ head # None
  /\ role' = [role EXCEPT ![a] = "member"]
  /\ cursor' = [cursor EXCEPT ![a] =
                  [read |-> head.seq, msg |-> head.msg, joined |-> head.seq]]
  /\ pending' = pending \ {a}
  /\ UNCHANGED <<status, owner, head>>

(* review, rejected.                                                        *)
Reject(r, a) ==
  /\ GroupExists /\ r \in Managers /\ a \in pending
  /\ pending' = pending \ {a}
  /\ UNCHANGED <<status, owner, role, head, cursor>>

-----------------------------------------------------------------------------
(* GroupService and GroupJoinService: who may, then the rows, then the copy, *)
(* and whether the result is ok.                                            *)

CreateGroup(a) == CreateGroupWithOwner(a) /\ MemCreate(a)

(* kickMember: the owner anybody, an administrator a plain member.          *)
KickMember(o, a, ok) ==
  /\ GroupExists /\ IsMember(a) /\ IsMember(o)
  /\ \/ role[o] = "owner"
     \/ role[o] = "admin" /\ role[a] = "member"
  /\ RemoveRows(a)
  /\ MemRemove(a, ok)

SetAdmin(o, a, enable, ok) ==
  /\ o # a /\ role[o] = "owner" /\ IsMember(a)
  /\ LET r == IF enable THEN "admin" ELSE "member"
     IN  UpdateMemberRole(a, r) /\ MemSetRole(a, r, ok)

TransferOwner(o, a, ok) ==
  /\ o # a /\ role[o] = "owner" /\ IsMember(a)
  /\ TransferRows(o, a)
  /\ MemTransfer(o, a, ok)

(* inviteMember, for a target the friendship rule lets in.                  *)
InviteMember(i, a, ok) ==
  /\ i # a /\ GroupExists /\ IsMember(i) /\ ~IsMember(a)
  /\ CountMembers < MaxMembers
  /\ AddMember(a)
  /\ MemJoin(a, ok)

DissolveGroup(o) == DissolveRows(o) /\ MemRemoveGroup /\ forgotten' = {}

(* applyToJoin                                                              *)
ApplyToJoin(a) == SubmitRequest(a) /\ UNCHANGED memory

(* reviewRequest: an approved applicant enters the copy.                    *)
ReviewRequest(r, a, approve, ok) ==
  IF approve
    THEN Approve(r, a) /\ MemJoin(a, ok)
    ELSE ok /\ Reject(r, a) /\ UNCHANGED memory

-----------------------------------------------------------------------------
(* The handlers of ImService, on the base loop: the change, then, if its    *)
(* result is ok, the event.                                                 *)

(* Mutant of Broadcast: the audience is collected before the change.        *)
BroadcastBefore(o) == CopyMembers \ {o}

(* broadcastToGroup: the members in the copy by now, but not the asker.     *)
Broadcast(o) == CopyMembers' \ {o}

HandleCreateGroup(a) == CreateGroup(a) /\ told' = {} /\ UNCHANGED work

HandleApplyGroupJoin(a) == ApplyToJoin(a) /\ told' = {} /\ UNCHANGED work

(* The applicant hears of the review, the group of a new member.            *)
HandleReviewGroupJoin(r, a, approve) ==
  /\ \E ok \in BOOLEAN :
       /\ ReviewRequest(r, a, approve, ok)
       /\ told' = IF ok THEN {a} \cup (IF approve THEN Broadcast(r) ELSE {}) ELSE {}
  /\ UNCHANGED work

HandleInviteGroupMember(i, a) ==
  /\ \E ok \in BOOLEAN :
       /\ InviteMember(i, a, ok)
       /\ told' = IF ok THEN Broadcast(i) ELSE {}
  /\ UNCHANGED work

(* handleLeave: the copy first, then the database.  NotFound counts as      *)
(* having left: there is no row, or groupExists() could not ask and the row *)
(* stays.  Nobody is told.                                                  *)
HandleLeave(a) ==
  /\ MemLeave(a)
  /\ \/ IsMember(a) /\ RemoveRows(a) /\ UNCHANGED forgotten
     \/ UNCHANGED rows /\ forgotten' = forgotten \cup ({a} \cap Members)
  /\ told' = {}
  /\ UNCHANGED work

(* handleLeave when removeMember's transaction fails: the account joins the *)
(* copy again, as a plain member.                                           *)
LeaveFails(a) ==
  /\ Removable(a)
  /\ memRole' = [memRole EXCEPT ![a] = "member"]
  /\ told' = {}
  /\ UNCHANGED <<rows, memOwner, memIndex, forgotten, work>>

(* The one who is out hears of it, and everybody who is still in.           *)
HandleKickGroupMember(o, a) ==
  /\ o # a
  /\ \E ok \in BOOLEAN :
       /\ KickMember(o, a, ok)
       /\ told' = IF ok THEN {a} \cup Broadcast(o) ELSE {}
  /\ UNCHANGED work

HandleSetGroupAdmin(o, a, enable) ==
  /\ \E ok \in BOOLEAN :
       /\ SetAdmin(o, a, enable, ok)
       /\ told' = IF ok THEN Broadcast(o) ELSE {}
  /\ UNCHANGED work

HandleTransferGroupOwner(o, a) ==
  /\ \E ok \in BOOLEAN :
       /\ TransferOwner(o, a, ok)
       /\ told' = IF ok THEN Broadcast(o) ELSE {}
  /\ UNCHANGED work

(* The members the transaction deleted are told one by one.                 *)
HandleDissolveGroup(o) ==
  /\ DissolveGroup(o)
  /\ told' = Members
  /\ UNCHANGED work

-----------------------------------------------------------------------------
(* Messages.                                                                *)

(* handleGroupMessageAsync: the copy decides, an id is drawn, the task is   *)
(* queued under the group's key.                                            *)
Submit(a) ==
  /\ memRole[a] # "none" /\ nextId <= MaxMessages
  /\ queue' = Append(queue, [from |-> a, id |-> nextId])
  /\ nextId' = nextId + 1
  /\ told' = {}
  /\ UNCHANGED <<rows, memory, messages, sending, reading>>

(* The send transaction locks the head, inserts the message under the next  *)
(* number and updates the head.                                             *)
BeginSend ==
  /\ queue # <<>> /\ HeadFree /\ head # None
  /\ sending' = [from |-> Head(queue).from, id |-> Head(queue).id,
                 seq |-> head.seq + 1]
  /\ queue' = Tail(queue)
  /\ told' = {}
  /\ UNCHANGED <<rows, memory, messages, nextId, reading>>

(* The task finds no head: the group is dissolved.                          *)
RefuseSend ==
  /\ queue # <<>> /\ HeadFree /\ head = None
  /\ queue' = Tail(queue)
  /\ told' = {}
  /\ UNCHANGED <<rows, memory, messages, nextId, sending, reading>>

(* Mutant of CommitSend: the sender's message counts as unread.             *)
CommitSendKeepsRead ==
  /\ sending # None /\ cursor[sending.from] # None /\ CursorFree(sending.from)
  /\ messages' = messages \cup {sending}
  /\ head' = [seq |-> sending.seq, msg |-> sending.id]
  /\ cursor' = [cursor EXCEPT ![sending.from].msg = sending.id]
  /\ sending' = None
  /\ told' = {}
  /\ UNCHANGED <<status, owner, role, pending, memory, queue, nextId, reading>>

(* Mutant of CommitSend: the sender's cursor may be missing.                *)
CommitSendUnchecked ==
  /\ sending # None /\ CursorFree(sending.from)
  /\ messages' = messages \cup {sending}
  /\ head' = [seq |-> sending.seq, msg |-> sending.id]
  /\ cursor' = [a \in Accounts |->
                  IF a = sending.from /\ cursor[a] # None
                    THEN [cursor[a] EXCEPT !.read = sending.seq, !.msg = sending.id]
                    ELSE cursor[a]]
  /\ sending' = None
  /\ told' = {}
  /\ UNCHANGED <<status, owner, role, pending, memory, queue, nextId, reading>>

(* The sender's cursor is moved and the transaction commits.                *)
CommitSend ==
  /\ sending # None /\ cursor[sending.from] # None /\ CursorFree(sending.from)
  /\ messages' = messages \cup {sending}
  /\ head' = [seq |-> sending.seq, msg |-> sending.id]
  /\ cursor' = [cursor EXCEPT ![sending.from] =
                  [read |-> IF @.read > sending.seq THEN @.read ELSE sending.seq,
                   msg |-> sending.id, joined |-> @.joined]]
  /\ sending' = None
  /\ told' = {}
  /\ UNCHANGED <<status, owner, role, pending, memory, queue, nextId, reading>>

(* Mutant of AbortSend: the head keeps the number of the message.           *)
AbortSendBurnsNumber ==
  /\ sending # None
  /\ head' = [head EXCEPT !.seq = sending.seq]
  /\ sending' = None
  /\ told' = {}
  /\ UNCHANGED <<status, owner, role, pending, cursor, memory, messages, queue,
                 nextId, reading>>

(* The sender has no cursor, or a statement fails (the deadlock with        *)
(* dissolveGroup, which locks cursors before the head, included).           *)
AbortSend ==
  /\ sending # None
  /\ sending' = None
  /\ told' = {}
  /\ UNCHANGED <<rows, memory, messages, queue, nextId, reading>>

(* commitGroup: the cursor is locked and read, the message's number found.  *)
BeginRead(a, m) ==
  /\ CursorFree(a) /\ cursor[a] # None /\ m \in messages
  /\ reading' = [reading EXCEPT ![a] = [old |-> cursor[a].read, to |-> m]]
  /\ told' = {}
  /\ UNCHANGED <<rows, memory, messages, queue, nextId, sending>>

(* The mark moves forward only.                                             *)
CommitRead(a) ==
  /\ reading[a] # None
  /\ IF reading[a].to.seq <= reading[a].old
       THEN UNCHANGED cursor
       ELSE cursor' = [cursor EXCEPT ![a].read = reading[a].to.seq,
                                     ![a].msg = reading[a].to.id]
  /\ reading' = [reading EXCEPT ![a] = None]
  /\ told' = {}
  /\ UNCHANGED <<status, owner, role, pending, head, memory, messages, queue,
                 nextId, sending>>

AbortRead(a) ==
  /\ reading[a] # None
  /\ reading' = [reading EXCEPT ![a] = None]
  /\ told' = {}
  /\ UNCHANGED <<rows, memory, messages, queue, nextId, sending>>

(* The process dies and starts: tasks and transactions are gone, the copy   *)
(* is loaded from the rows (loadFromRepositories).  The group is missing    *)
(* when it is not active or listGroups() fails, and its owner is alone when *)
(* listMemberRecords() fails.                                               *)
Restart ==
  /\ queue' = <<>> /\ sending' = None
  /\ reading' = [a \in Accounts |-> None]
  /\ UNCHANGED <<rows, messages, nextId>>
  /\ \/ memOwner' = None /\ memRole' = Nobody /\ memIndex' = {} /\ forgotten' = Members
     \/ /\ GroupExists
        /\ \E r \in {role, Nobody} :
             /\ Restorable(owner, r)
             /\ memOwner' = owner /\ memRole' = Restored(owner, r)
             /\ memIndex' = {a \in Accounts : Restored(owner, r)[a] # "none"}
             /\ forgotten' = Hidden(owner, r)
  /\ told' = {}

-----------------------------------------------------------------------------
Membership ==
  \E a \in Accounts :
    \/ HandleCreateGroup(a) \/ HandleApplyGroupJoin(a)
    \/ HandleLeave(a) \/ LeaveFails(a) \/ HandleDissolveGroup(a)
    \/ \E o \in Accounts :
         \/ HandleInviteGroupMember(o, a) \/ HandleKickGroupMember(o, a)
         \/ HandleTransferGroupOwner(o, a)
         \/ \E yes \in BOOLEAN :
              HandleReviewGroupJoin(o, a, yes) \/ HandleSetGroupAdmin(o, a, yes)

Messaging ==
  \/ BeginSend \/ RefuseSend \/ CommitSend \/ AbortSend
  \/ \E a \in Accounts :
       \/ Submit(a) \/ CommitRead(a) \/ AbortRead(a)
       \/ \E m \in messages : BeginRead(a, m)

Next == Membership \/ Messaging \/ Restart

Spec == Init /\ [][Next]_vars

-----------------------------------------------------------------------------
(* Properties.                                                              *)

(* The committed messages of the group are numbered 1, 2, ... without a gap *)
(* or a duplicate, in the order of their ids, and the head names the last   *)
(* of them (README: "群消息事务分配群内递增序号"): aborted transactions,     *)
(* membership changes and restarts leave no hole.                           *)
NumbersAreDense ==
  LET n == Cardinality(messages) IN
  /\ \A m \in messages : m.seq \in 1..n
  /\ \A m1, m2 \in messages : m1.id < m2.id <=> m1.seq < m2.seq
  /\ head # None =>
       /\ head.seq = n
       /\ IF n = 0 THEN head.msg = 0
                   ELSE \E m \in messages : m.seq = n /\ m.id = head.msg

(* listConversations: the unread number of a group in a member's list.      *)
Unread(a) ==
  LET from == IF cursor[a].read > cursor[a].joined THEN cursor[a].read
                                                   ELSE cursor[a].joined
  IN  IF head.seq > from THEN head.seq - from ELSE 0

(* The unread number the conversation list computes from three sequence     *)
(* numbers is the number of messages with an id above the member's read     *)
(* mark, whatever sends, reads, kicks, joins and restarts ran against each  *)
(* other: a newcomer starts with none, and a sender has read what they sent. *)
GroupUnreadExact ==
  \A a \in Accounts : cursor[a] # None =>
    /\ IsMember(a) /\ head # None
    /\ Unread(a) = Cardinality({m \in messages : m.id > cursor[a].msg})

(* An active group has exactly one member with the role of owner, the owner *)
(* of chat_groups: what restoreGroup insists on at the next start.          *)
OneOwner ==
  /\ status = "active" => {a \in Accounts : role[a] = "owner"} = {owner}
  /\ status # "active" => Members = {}

(* The copy that decides who may send and who receives a push never has     *)
(* anybody the database has not.  It has all the members and the owner of   *)
(* the database but for those a failed query hid when the copy was last     *)
(* changed, whatever requests follow, and a later reload or restart whose   *)
(* queries succeed brings them back; so has the index that answers          *)
(* LIST_GROUPS.                                                             *)
CopyHasTheMembers ==
  /\ forgotten \subseteq Members
  /\ CopyMembers = Members \ forgotten /\ memIndex = CopyMembers
  /\ memOwner = IF status = "active" /\ owner \notin forgotten THEN owner ELSE None

(* Whenever the members or their roles change, except by a leave, everybody *)
(* who was or is a member gets the event, but for the one who asked and for *)
(* whom a failed query hides from the copy: the audience comes from the     *)
(* copy, the change was made to the rows.                                   *)
MembersHearOfChanges ==
  [][role' # role =>
       \/ \E a \in Accounts : HandleLeave(a)
       \/ \E o \in Accounts :
            (Members \cup Members') \ (forgotten \cup forgotten') \subseteq told' \cup {o}]_vars

(* A message is committed only while its sender is a member of the active   *)
(* group, although the membership was checked before the task was queued:   *)
(* the missing cursor stops a sender who left or was removed meanwhile.     *)
OnlyMembersPost ==
  [][\A m \in messages' \ messages :
       status = "active" /\ m.from \in Members]_vars

(* commitGroup's comment on a missing cursor, "查不到：用户退群、被题、数据不一致" *)
(* (left, kicked or inconsistent data): a member has a cursor.              *)
MembersHaveCursors == \A a \in Members : cursor[a] # None
=============================================================================
