--------------------------- MODULE RequestPipeline ---------------------------
(***************************************************************************)
(* The other asynchronous requests of Imservice, beside the messages of    *)
(* MessagePipeline: histories, lists and sync, which a thread of the read  *)
(* executor answers from the database, and acknowledgements and read       *)
(* marks, which the message executor writes, one account's at a time.      *)
(* They share connections, sessions, membership, the rate limiter and the  *)
(* queue of the base loop with the messages.                               *)
(***************************************************************************)
EXTENDS MessagePipeline

VARIABLES
  acks,       \* acknowledgements and read marks the message executor holds
  receipts,   \* history: acknowledgements whose receipts are committed
  indexes,    \* history: acknowledgements whose offline indexes are deleted
  confirmed,  \* history: acknowledgements the client was told are done
  shown       \* history: [member |-> ...] of each group content sent out

ackVars == <<acks, receipts, indexes, confirmed>>
allVars == <<vars, ackVars, shown>>

RequestInit == Init /\ acks = <<>> /\ receipts = {} /\ indexes = {} /\ confirmed = {} /\ shown = {}

(* parseSyncCursors(), parseMessageAck(): the parts a request names.        *)
Cursors  == SUBSET {"direct", "group"}
AckParts == SUBSET {"messages", "offline"} \ {{}}

(* Is the answer content of the group?                                      *)
OfGroup(r) == r.kind = "group_history" \/ (r.kind = "sync" /\ "group" \in r.to)

(* guardAuthenticated(), isClosed() and acceptingAsyncMessages_: the tests  *)
(* every asynchronous handler makes before it takes a request.              *)
Admits(c) == life[c] = "open" /\ session[key[c]] \in Accounts /\ accepting

(* A request enters the pipeline at this stage, or the executor refuses it  *)
(* and the client is told (submitResultMapToDispatchResult()).              *)
Enter(r, stage) ==
  /\ Len(requests) < MaxRequests
  /\ \/ requests' = Append(requests, [r EXCEPT !.stage = stage]) /\ UNCHANGED answers
     \/ /\ requests' = Append(requests, [r EXCEPT !.stage = "done"])
        /\ Answer(Len(requests) + 1, r)
  /\ UNCHANGED <<conns, sessions, members, mode, submitted, posted, lastMsgId, log, misdirected, shown>>

FirstStage == IF rateLimited THEN "limit" ELSE "read"

-----------------------------------------------------------------------------
(* Queries.                                                                 *)

(* handleGroupHistoryAsync().                                               *)
HandleGroupHistory(c) ==
  /\ Admits(c) /\ session[key[c]] \in members
  /\ Enter(Context(c, "group_history", None), FirstStage)
  /\ UNCHANGED ackVars

(* handleDmHistoryAsync(): whether the peer exists and is a friend is left  *)
(* to the read task.                                                        *)
HandleDmHistory(c) ==
  /\ Admits(c)
  /\ Enter(Context(c, "dm_history", None), FirstStage)
  /\ UNCHANGED ackVars

(* handleSyncAsync(): every group cursor names a group of the user.         *)
HandleSync(c, cursors) ==
  /\ Admits(c) /\ ("group" \in cursors => session[key[c]] \in members)
  /\ Enter(Context(c, "sync", cursors), FirstStage)
  /\ UNCHANGED ackVars

(* handleOfflineListAsync(): not rate limited.                              *)
HandleOfflineList(c) ==
  /\ Admits(c)
  /\ Enter(Context(c, "offline_list", None), "read")
  /\ UNCHANGED ackVars

(* handleConversationListAsync(): not rate limited.                         *)
HandleConversationList(c) ==
  /\ Admits(c)
  /\ Enter(Context(c, "conversation_list", None), "read")
  /\ UNCHANGED ackVars

(* After the rate limit check: dropped, refused, or handed to the read      *)
(* executor, which may refuse as well (sendDeferredSubmitFailure()).        *)
AfterRateLimit(i, allowed) ==
  /\ \/ DropRequest(i)
     \/ RefuseRequest(i)
     \/ /\ ResolvePendingSender(requests[i]) /\ accepting /\ allowed
        /\ requests' = [requests EXCEPT ![i].stage = "read"]
        /\ UNCHANGED <<submitted, lastMsgId, answers>>
  /\ UNCHANGED <<conns, sessions, members, mode, log, misdirected, ackVars, shown>>

(* completeGroupHistoryRateLimit(): whoever left meanwhile is refused.      *)
CompleteGroupHistoryRateLimit ==
  /\ Takes("limited", "group_history")
  /\ AfterRateLimit(Head(posted), requests[Head(posted)].account \in members)

(* completeDmHistoryRateLimit().                                            *)
CompleteDmHistoryRateLimit ==
  /\ Takes("limited", "dm_history")
  /\ AfterRateLimit(Head(posted), TRUE)

(* completeSyncRateLimit().                                                 *)
CompleteSyncRateLimit ==
  /\ Takes("limited", "sync")
  /\ LET r == requests[Head(posted)] IN
     AfterRateLimit(Head(posted), OfGroup(r) => r.account \in members)

(* A thread of the read executor runs the query; an exception counts as a   *)
(* failed one; the result is posted to the base loop.                       *)
RunQuery(i, kind) ==
  /\ i \in DOMAIN requests /\ requests[i].stage = "read" /\ requests[i].kind = kind
  /\ \E ok \in BOOLEAN :
       requests' = [requests EXCEPT ![i] = [@ EXCEPT !.stage = "written", !.durable = ok]]
  /\ posted' = Append(posted, i)
  /\ UNCHANGED <<conns, sessions, members, mode, submitted, lastMsgId, history, ackVars, shown>>

(* The tasks of submitGroupHistoryQuery(), submitDmHistoryQuery() (unknown  *)
(* peer, not a friend), submitSyncQuery() (the same for direct cursors),    *)
(* handleOfflineListAsync() and handleConversationListAsync().              *)
GroupHistoryTask(i)     == RunQuery(i, "group_history")
DmHistoryTask(i)        == RunQuery(i, "dm_history")
SyncTask(i)             == RunQuery(i, "sync")
OfflineListTask(i)      == RunQuery(i, "offline_list")
ConversationListTask(i) == RunQuery(i, "conversation_list")

(* The result, or the error, goes to the client that is still there.        *)
Respond(i, mayShow) ==
  LET r == requests[i]  gone == ~ResolvePendingSender(r) IN
  /\ Finish(i)
  /\ IF gone THEN UNCHANGED answers ELSE Answer(i, r)
  /\ shown' = IF ~gone /\ mayShow /\ r.durable /\ OfGroup(r)
              THEN shown \cup {[account |-> session[r.key], member |-> session[r.key] \in members]}
              ELSE shown
  /\ UNCHANGED <<conns, sessions, members, mode, submitted, lastMsgId, log, misdirected>>

(* Mutant of CompleteGroupHistory: membership was checked twice before.     *)
CompleteGroupHistoryUnchecked ==
  /\ Takes("written", "group_history")
  /\ Respond(Head(posted), TRUE)
  /\ UNCHANGED ackVars

(* completeGroupHistory(): the third check of membership.                   *)
CompleteGroupHistory ==
  /\ Takes("written", "group_history")
  /\ Respond(Head(posted), session[requests[Head(posted)].key] \in members)
  /\ UNCHANGED ackVars

(* completeDmHistory().                                                     *)
CompleteDmHistory ==
  /\ Takes("written", "dm_history")
  /\ Respond(Head(posted), TRUE)
  /\ UNCHANGED ackVars

(* completeSync(): membership of every group cursor is checked once more.   *)
CompleteSync ==
  /\ Takes("written", "sync")
  /\ LET r == requests[Head(posted)] IN
     Respond(Head(posted), OfGroup(r) => session[r.key] \in members)
  /\ UNCHANGED ackVars

(* completeOfflineList().                                                   *)
CompleteOfflineList ==
  /\ Takes("written", "offline_list")
  /\ Respond(Head(posted), TRUE)
  /\ UNCHANGED ackVars

(* completeConversationList().                                              *)
CompleteConversationList ==
  /\ Takes("written", "conversation_list")
  /\ Respond(Head(posted), TRUE)
  /\ UNCHANGED ackVars

-----------------------------------------------------------------------------
(* Acknowledgements and read marks: tasks of the message executor, with the *)
(* ordering key "ack:" + account.                                           *)

(* The request waits in the message executor, unless its queue is full.     *)
EnterAck(r) ==
  /\ Enter(r, "persist")
  /\ acks' = IF requests'[Len(requests) + 1].stage = "persist"
             THEN Append(acks, Len(requests) + 1)
             ELSE acks
  /\ UNCHANGED <<receipts, indexes, confirmed>>

(* handleMessageAckAsync().                                                 *)
HandleMessageAck(c, parts) ==
  /\ Admits(c)
  /\ EnterAck(Context(c, "message_ack", parts))

(* handleConversationReadAsync(): membership is checked here and, for a     *)
(* group, once more by the row the transaction locks.                       *)
HandleConversationRead(c, type) ==
  /\ Admits(c) /\ (type = "group" => session[key[c]] \in members)
  /\ EnterAck(Context(c, "conversation_read", type))

(* handleOfflineAckAsync() answers "message ACK pipeline unavailable"       *)
(* whenever messageAckService_ is set, which it is in a running server.     *)
HandleOfflineAck(c) ==
  /\ Registered(c) /\ session[key[c]] \in Accounts
  /\ Len(requests) < MaxRequests
  /\ requests' = Append(requests, [Context(c, "offline_ack", None) EXCEPT !.stage = "done"])
  /\ Answer(Len(requests) + 1, Context(c, "offline_ack", None))
  /\ UNCHANGED <<conns, sessions, members, mode, submitted, posted, lastMsgId, log, misdirected,
                 ackVars, shown>>

(* The tasks of one account run one at a time, in order.                    *)
AckTurn(n) == \A m \in 1..(n - 1) : requests[acks[m]].account # requests[acks[n]].account

(* The task ends: its result is posted.                                     *)
EndAck(n, ok) ==
  /\ acks' = [m \in 1..(Len(acks) - 1) |-> acks[IF m < n THEN m ELSE m + 1]]
  /\ requests' = [requests EXCEPT ![acks[n]] = [@ EXCEPT !.stage = "written", !.durable = ok]]
  /\ posted' = Append(posted, acks[n])

(* Still to be written by a task.                                           *)
Parts(r) ==
  IF r.kind = "conversation_read" THEN {}
  ELSE IF r.stage = "persist" THEN r.to ELSE r.to \ {"messages"}

(* Mutant of AckMessages: a failure does not keep the second part from      *)
(* being tried.                                                             *)
AckMessagesRegardless(n) ==
  LET i == acks[n]  r == requests[i] IN
  /\ AckTurn(n) /\ "messages" \in Parts(r)
  /\ receipts' \in {receipts, receipts \cup {i}}
  /\ IF "offline" \in r.to
     THEN /\ requests' = [requests EXCEPT ![i].stage = "acking"]
          /\ UNCHANGED <<acks, posted>>
     ELSE EndAck(n, i \in receipts')
  /\ UNCHANGED <<indexes, confirmed>>
  /\ UNCHANGED <<conns, sessions, members, mode, submitted, lastMsgId, history, shown>>

(* The first half of the task of an acknowledgement: ackMessages(), which   *)
(* is the transaction of markDeliveredBatch().                              *)
AckMessages(n) ==
  LET i == acks[n]  r == requests[i] IN
  /\ AckTurn(n) /\ "messages" \in Parts(r)
  /\ \/ /\ receipts' = receipts \cup {i}
        /\ IF "offline" \in r.to
           THEN /\ requests' = [requests EXCEPT ![i].stage = "acking"]
                /\ UNCHANGED <<acks, posted>>
           ELSE EndAck(n, TRUE)
     \/ EndAck(n, FALSE) /\ UNCHANGED receipts
  /\ UNCHANGED <<indexes, confirmed>>
  /\ UNCHANGED <<conns, sessions, members, mode, submitted, lastMsgId, history, shown>>

(* Its second half: ackOfflineMessages(), one DELETE of its own.            *)
AckOfflineMessages(n) ==
  LET i == acks[n] IN
  /\ AckTurn(n) /\ Parts(requests[i]) = {"offline"}
  /\ \/ indexes' = indexes \cup {i} /\ EndAck(n, TRUE)
     \/ EndAck(n, FALSE) /\ UNCHANGED indexes
  /\ UNCHANGED <<receipts, confirmed>>
  /\ UNCHANGED <<conns, sessions, members, mode, submitted, lastMsgId, history, shown>>

(* The task of a read mark: markConversationRead(), a transaction that      *)
(* DirectMessages and Groups look into.                                     *)
MarkConversationRead(n) ==
  /\ AckTurn(n) /\ requests[acks[n]].kind = "conversation_read"
  /\ \E ok \in BOOLEAN : EndAck(n, ok)
  /\ UNCHANGED <<receipts, indexes, confirmed>>
  /\ UNCHANGED <<conns, sessions, members, mode, submitted, lastMsgId, history, shown>>

(* completeMessageAck().                                                    *)
CompleteMessageAck ==
  /\ Takes("written", "message_ack")
  /\ LET i == Head(posted)  r == requests[i] IN
     /\ Respond(i, TRUE)
     /\ confirmed' = IF r.durable /\ ResolvePendingSender(r) THEN confirmed \cup {i} ELSE confirmed
  /\ UNCHANGED <<acks, receipts, indexes>>

(* completeConversationRead().                                              *)
CompleteConversationRead ==
  /\ Takes("written", "conversation_read")
  /\ Respond(Head(posted), TRUE)
  /\ UNCHANGED ackVars

-----------------------------------------------------------------------------
RequestCompletion ==
  \/ CompleteGroupHistoryRateLimit \/ CompleteDmHistoryRateLimit \/ CompleteSyncRateLimit
  \/ CompleteGroupHistory \/ CompleteDmHistory \/ CompleteSync
  \/ CompleteOfflineList \/ CompleteConversationList
  \/ CompleteMessageAck \/ CompleteConversationRead

Queries(i) ==
  \/ GroupHistoryTask(i) \/ DmHistoryTask(i) \/ SyncTask(i)
  \/ OfflineListTask(i) \/ ConversationListTask(i)

AckTasks == \E n \in DOMAIN acks : AckMessages(n) \/ AckOfflineMessages(n) \/ MarkConversationRead(n)

RequestClients ==
  \E c \in Conns :
    \/ HandleGroupHistory(c) \/ HandleDmHistory(c) \/ (\E s \in Cursors : HandleSync(c, s))
    \/ HandleOfflineList(c) \/ HandleConversationList(c) \/ HandleOfflineAck(c)
    \/ \E p \in AckParts : HandleMessageAck(c, p)
    \/ \E t \in {"direct", "group"} : HandleConversationRead(c, t)

RequestNext ==
  \/ Next /\ UNCHANGED <<ackVars, shown>>
  \/ RequestCompletion \/ (\E i \in 1..MaxRequests : Queries(i)) \/ AckTasks \/ RequestClients

(* The base loop and the threads of the three executors keep running.       *)
RequestSpec ==
  /\ RequestInit /\ [][RequestNext]_allVars
  /\ WF_allVars(RequestCompletion \/ (Completion /\ UNCHANGED <<ackVars, shown>>))
  /\ \A i \in 1..MaxRequests :
       /\ WF_allVars(CheckRateLimit(i) /\ UNCHANGED <<ackVars, shown>>)
       /\ WF_allVars(Queries(i))
  /\ WF_allVars((\E n \in DOMAIN submitted : Persist(n)) /\ UNCHANGED <<ackVars, shown>>)
  /\ WF_allVars(AckTasks)

-----------------------------------------------------------------------------
(* Messages of the group, as history or by sync, are sent only to an        *)
(* account that is a member when they are sent, although it was one when it *)
(* asked: it may leave, or be kicked, while the request waits for redis or  *)
(* for the database.                                                        *)
GroupContentStaysInside == \A x \in shown : x.member

(* An acknowledgement is two transactions.  The index of an undelivered     *)
(* message is deleted only after its receipt is committed, and the client   *)
(* is told of success only when every part it asked for is durable; after   *)
(* a failure it has to ask again.                                           *)
AcksAreTruthful ==
  /\ \A i \in indexes : "messages" \in requests[i].to => i \in receipts
  /\ \A i \in confirmed : /\ "messages" \in requests[i].to => i \in receipts
                          /\ "offline" \in requests[i].to => i \in indexes
=============================================================================
