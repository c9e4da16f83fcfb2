----------------------------- MODULE MessageSync -----------------------------
(***************************************************************************)
(* Reading a conversation back: sync by cursor and backward history, for a *)
(* direct and a group conversation, while messages are being committed.    *)
(* The queries are the SELECTs of SqlMessageRepo; the limit of a page goes *)
(* through the parser and through the repository, which clamp it each in   *)
(* their own way.  Responses may be lost; the client then asks again.      *)
(*                                                                         *)
(* Messages of one conversation are committed in the order of their ids:   *)
(* CommitsFollowIds of MessagePipeline.                                    *)
(***************************************************************************)
EXTENDS Integers, Sequences, FiniteSets

CONSTANTS
  MaxId,            \* bound: message ids
  Limits,           \* what a client writes into "limit"
  ConfigLimit,      \* imConfig_.maxSyncMessageLimit and maxHistoryLimit (1 to 500)
  RepoDefault,      \* what a query of SqlMessageRepo takes for 0 (20)
  GroupRepoLimit,   \* the most rows its group queries return (100)
  DirectRepoLimit   \* the most rows its direct queries return (200)

Types == {"direct", "group"}
None  == [kind |-> "none"]

VARIABLES
  type,     \* of the conversation
  stored,   \* ids of its messages, committed so far
  cursor,   \* the client's lastMsgId: it has everything up to here
  oldest,   \* the client's beforeMsgId, 0 at first
  got,      \* ids the client received, in order, by sync
  older,    \* ids the client received, in order, going back
  start,    \* stored when the client began to go back
  pending,  \* the request under way, then its response
  atEnd     \* what the client concluded: nothing newer, nothing older

vars == <<type, stored, cursor, oldest, got, older, start, pending, atEnd>>

Init ==
  /\ type \in Types /\ stored = {} /\ start = {}
  /\ cursor = 0 /\ oldest = 0 /\ got = <<>> /\ older = <<>>
  /\ pending = None /\ atEnd = [newer |-> FALSE, older |-> FALSE]

Min2(a, b) == IF a < b THEN a ELSE b
Ids(s) == {s[i] : i \in DOMAIN s}

-----------------------------------------------------------------------------
(* Limits on their way to the database.                                     *)

(* parseLimit(): cut at the configured maximum.                             *)
ParseLimit(l) == Min2(l, ConfigLimit)

(* parseSyncCursors(): a cursor without a limit takes the request's.        *)
ParseCursorLimit(l, default) == Min2(IF l = 0 THEN default ELSE l, ConfigLimit)

(* parseHistoryQuery().                                                     *)
ParseHistoryLimit(l) == Min2(l, ConfigLimit)

(* The rows a query returns at most: 0 stands for the default.              *)
Clamp(l, max) == Min2(IF l = 0 THEN RepoDefault ELSE l, max)

-----------------------------------------------------------------------------
(* Queries.                                                                 *)

(* The n smallest, in order; the n largest, largest first.                  *)
Lowest(S, n) ==
  [i \in 1..Min2(n, Cardinality(S)) |-> CHOOSE x \in S : Cardinality({y \in S : y < x}) = i - 1]
Highest(S, n) ==
  [i \in 1..Min2(n, Cardinality(S)) |-> CHOOSE x \in S : Cardinality({y \in S : y > x}) = i - 1]

Newer(last)   == {m \in stored : m > last}
Older(before) == {m \in stored : before = 0 \/ m < before}

(* Mutant of ListGroupMessagesAfter: newest first, as histories have it.    *)
ListGroupMessagesAfterNewest(last, l) == Highest(Newer(last), Clamp(l, GroupRepoLimit))

(* listGroupMessagesAfter(): msg_id > ? ORDER BY msg_id ASC LIMIT ?         *)
ListGroupMessagesAfter(last, l) == Lowest(Newer(last), Clamp(l, GroupRepoLimit))

(* listDirectMessagesAfter(): the same with a limit of its own.             *)
ListDirectMessagesAfter(last, l) == Lowest(Newer(last), Clamp(l, DirectRepoLimit))

(* listGroupMessages(): [msg_id < ?] ORDER BY msg_id DESC LIMIT ?           *)
ListGroupMessages(before, l) == Highest(Older(before), Clamp(l, GroupRepoLimit))

(* listDirectMessages(): here 0 is no row at all.                           *)
ListDirectMessages(before, l) == Highest(Older(before), Min2(l, DirectRepoLimit))

(* sync(): a full page means that there may be more.                        *)
HasMore(page, l) == Len(page) >= l

(* sync(): the largest id of the page, the cursor itself if it is empty.    *)
LatestMsgId(page, last) ==
  IF page = <<>> THEN last
  ELSE CHOOSE m \in Ids(page) : \A x \in Ids(page) : x <= m

(* sync(): one cursor.  For the properties, all is what was stored when the *)
(* page was read, and limit the one that was asked for.                     *)
Delta(page, last, l) ==
  [kind |-> "delta", page |-> page, latest |-> LatestMsgId(page, last), more |-> HasMore(page, l),
   all |-> stored, limit |-> l]

-----------------------------------------------------------------------------
(* A message is committed.                                                  *)
Commit(m) ==
  /\ \A x \in stored : x < m
  /\ stored' = stored \cup {m}
  /\ UNCHANGED <<type, cursor, oldest, got, older, start, pending, atEnd>>

(* The client asks for what follows its cursor; the request has a limit and *)
(* the cursor may have one of its own.                                      *)
AskSync(l, own) ==
  /\ pending = None
  /\ pending' = [kind |-> "sync", from |-> cursor, limit |-> ParseCursorLimit(own, ParseLimit(l))]
  /\ UNCHANGED <<type, stored, cursor, oldest, got, older, start, atEnd>>

(* The client asks for what precedes the oldest message it has.  It asks    *)
(* for at least one.                                                        *)
AskHistory(l) ==
  /\ pending = None /\ l > 0 /\ ~atEnd.older
  /\ pending' = [kind |-> "history", from |-> oldest, limit |-> ParseHistoryLimit(l)]
  /\ start' = IF oldest = 0 THEN stored ELSE start
  /\ UNCHANGED <<type, stored, cursor, oldest, got, older, atEnd>>

(* The read task of a sync request, for a direct and for a group cursor.    *)
SyncDirect ==
  /\ pending.kind = "sync" /\ type = "direct"
  /\ pending' = Delta(ListDirectMessagesAfter(pending.from, pending.limit), pending.from, pending.limit)
  /\ UNCHANGED <<type, stored, cursor, oldest, got, older, start, atEnd>>

SyncGroup ==
  /\ pending.kind = "sync" /\ type = "group"
  /\ pending' = Delta(ListGroupMessagesAfter(pending.from, pending.limit), pending.from, pending.limit)
  /\ UNCHANGED <<type, stored, cursor, oldest, got, older, start, atEnd>>

(* The read task of a history request.                                      *)
History ==
  /\ pending.kind = "history"
  /\ pending' = [kind |-> "page",
                 page |-> IF type = "direct" THEN ListDirectMessages(pending.from, pending.limit)
                          ELSE ListGroupMessages(pending.from, pending.limit)]
  /\ UNCHANGED <<type, stored, cursor, oldest, got, older, start, atEnd>>

(* The query fails, or the response does not arrive.                        *)
Lose ==
  /\ pending # None
  /\ pending' = None
  /\ UNCHANGED <<type, stored, cursor, oldest, got, older, start, atEnd>>

(* The client moves its cursor to latestMsgId and believes hasMore.         *)
ReceiveDelta ==
  /\ pending.kind = "delta"
  /\ got' = got \o pending.page
  /\ cursor' = pending.latest
  /\ atEnd' = [atEnd EXCEPT !.newer = ~pending.more]
  /\ pending' = [kind |-> "seen", all |-> pending.all, limit |-> pending.limit]
  /\ UNCHANGED <<type, stored, oldest, older, start>>

(* What the client concluded from the last page is compared with what was   *)
(* stored when the page was read.                                           *)
Continue ==
  /\ pending.kind = "seen"
  /\ pending' = None
  /\ UNCHANGED <<type, stored, cursor, oldest, got, older, start, atEnd>>

(* An empty page ends the history.                                          *)
ReceivePage ==
  /\ pending.kind = "page"
  /\ older' = older \o pending.page
  /\ oldest' = IF pending.page = <<>> THEN oldest ELSE pending.page[Len(pending.page)]
  /\ atEnd' = [atEnd EXCEPT !.older = pending.page = <<>>]
  /\ pending' = None
  /\ UNCHANGED <<type, stored, cursor, got, start>>

Next ==
  \/ \E m \in 1..MaxId : Commit(m)
  \/ \E l, own \in Limits : AskSync(l, own)
  \/ \E l \in Limits : AskHistory(l)
  \/ SyncDirect \/ SyncGroup \/ History \/ Lose \/ ReceiveDelta \/ Continue \/ ReceivePage

Spec == Init /\ [][Next]_vars

-----------------------------------------------------------------------------
Sorted(s) == \A i, j \in DOMAIN s : i < j => s[i] < s[j]

(* The most rows a sync query of the conversation returns.                  *)
RepoLimit == IF type = "direct" THEN DirectRepoLimit ELSE GroupRepoLimit

(* A client that follows the pages misses nothing, however requests are     *)
(* lost and repeated and messages committed in between.  Whatever the       *)
(* limits, its cursor never passes a message it did not get: the pages of   *)
(* sync are the conversation, in order, without a gap or a repetition.      *)
(* When sync says that there is no more, the client has everything that was *)
(* committed when the page was read, provided that the limit that passed    *)
(* the configuration (at most 500) is within that of the query (100 for a   *)
(* group, 200 for a direct conversation): a page cut by the query is        *)
(* shorter than the limit and is taken for the last.  Going back page by    *)
(* page until an empty one shows everything there was when it began, newest *)
(* first, nothing twice.                                                    *)
PagesMissNothing ==
  /\ Sorted(got) /\ Ids(got) = {m \in stored : m <= cursor}
  /\ pending.kind = "seen" /\ atEnd.newer /\ pending.limit <= RepoLimit
       => pending.all \subseteq Ids(got)
  /\ \A i, j \in DOMAIN older : i < j => older[i] > older[j]
  /\ atEnd.older => start \subseteq Ids(older)
=============================================================================
