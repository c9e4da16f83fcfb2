--------------------------- MODULE MessagePipeline ---------------------------
(***************************************************************************)
(* Sending messages through Imservice.  The base loop validates a request, *)
(* the redis executor checks the sender's rate limit (when a limiter is    *)
(* configured), the base loop checks again and allocates the message id,   *)
(* the message executor persists, the base loop pushes and answers.        *)
(* Meanwhile connections close, descriptors (the connection keys) are      *)
(* reused, users log in and out and leave the group.                       *)
(*                                                                         *)
(* The base loop runs one functor per step.  Both executors run the tasks  *)
(* of one ordering key one at a time in submission order (KeyedOrder, the  *)
(* contract KeyedSerialExecutor is checked against).                       *)
(***************************************************************************)
EXTENDS Naturals, Sequences, FiniteSets

CONSTANTS
  Conns,       \* TcpConnection objects
  Keys,        \* connection keys: descriptors
  Accounts,    \* accounts; all of them know each other's id
  None,        \* nobody, nothing
  Anonymous,   \* a session in state Connected
  MaxRequests  \* bound: send requests of one behaviour

ASSUME PipelineAssumption ==
  /\ None \notin Conns \cup Keys \cup Accounts /\ Anonymous \notin Accounts /\ None # Anonymous
  /\ MaxRequests \in Nat

VARIABLES
  life,         \* of a connection: "new", "open", "closed", "gone"
  key,          \* its descriptor
  connections,  \* TcpServer::connections_
  session,      \* sessions_: account, Anonymous, or None
  accountConn,  \* accountConnMap_
  connAccount,  \* connAccountMap_
  missed,       \* history: keys whose session an earlier connection left behind
  members,      \* the members of the one group, in GroupManager
  accepting,    \* acceptingAsyncMessages_
  requests,     \* contexts of the requests, in order of arrival
  submitted,    \* requests the message executor holds, in submission order
  posted,       \* completions the base loop still has to run
  lastMsgId,    \* the id generator
  log,          \* history: requests persisted, in commit order
  answers,      \* history: responses sent, with the connection they went to
  misdirected,  \* history: keys a push left out or reached by mistake
  rateLimited   \* is rateLimiter_ set?  Fixed when the server starts

conns    == <<life, key, connections>>
sessions == <<session, accountConn, connAccount, missed>>
history  == <<log, answers, misdirected>>
mode     == <<accepting, rateLimited>>
vars     == <<conns, sessions, members, mode, requests, submitted, posted, lastMsgId, history>>

Init ==
  /\ life = [c \in Conns |-> "new"]
  /\ key = [c \in Conns |-> None]
  /\ connections = [k \in Keys |-> None] /\ session = [k \in Keys |-> None]
  /\ accountConn = [a \in Accounts |-> {}] /\ connAccount = [k \in Keys |-> None] /\ missed = {}
  /\ members = Accounts /\ accepting = TRUE
  /\ requests = <<>> /\ submitted = <<>> /\ posted = <<>> /\ lastMsgId = 0
  /\ log = <<>> /\ answers = {} /\ misdirected = {}
  /\ rateLimited \in BOOLEAN

-----------------------------------------------------------------------------
(* Connections, as ServerLifecycle checks them: a descriptor is handed out  *)
(* again only after the base loop removed its connection.                   *)

Connect(c, k) ==
  /\ life[c] = "new" /\ connections[k] = None
  /\ life' = [life EXCEPT ![c] = "open"]
  /\ key' = [key EXCEPT ![c] = k]
  /\ connections' = [connections EXCEPT ![k] = c]
  /\ UNCHANGED <<sessions, members, mode, requests, submitted, posted, lastMsgId, history>>

(* The io loop closes: isClosed() is true from now on.                      *)
IoClose(c) ==
  /\ life[c] = "open"
  /\ life' = [life EXCEPT ![c] = "closed"]
  /\ UNCHANGED <<key, connections, sessions, members, mode, requests, submitted, posted,
                 lastMsgId, history>>

(* unbindConn().                                                            *)
UnbindConn(k) ==
  LET a == connAccount[k] IN
  /\ accountConn' = IF a = None THEN accountConn ELSE [accountConn EXCEPT ![a] = @ \ {k}]
  /\ connAccount' = [connAccount EXCEPT ![k] = None]

(* removeConnectionInBaseLoop() and onDisconnect(), which reads conn->fd()  *)
(* once more.  connectionDestroyed() is on its way by then: once the io     *)
(* loop has run it the descriptor reads as -1, the session under the key is *)
(* missed, and it is there for the next connection with that descriptor.    *)
RemoveConnection(c) ==
  /\ life[c] = "closed"
  /\ life' = [life EXCEPT ![c] = "gone"]
  /\ connections' = [connections EXCEPT ![key[c]] = None]
  /\ \/ /\ UnbindConn(key[c])
        /\ session' = [session EXCEPT ![key[c]] = None]
        /\ missed' = missed \ {key[c]}
     \/ /\ session[key[c]] # None
        /\ missed' = missed \cup {key[c]}
        /\ UNCHANGED <<session, accountConn, connAccount>>
  /\ UNCHANGED <<key, members, mode, requests, submitted, posted, lastMsgId, history>>

(* Requests of a connection are handled until the base loop removes it,     *)
(* also after the io loop closed it.                                        *)
Registered(c) == life[c] \in {"open", "closed"}

(* onMessage() creates the session, if there is none under the key; the     *)
(* request leaves it as it is.                                              *)
FirstMessage(c) ==
  /\ Registered(c) /\ session[key[c]] = None
  /\ session' = [session EXCEPT ![key[c]] = Anonymous]
  /\ UNCHANGED <<conns, accountConn, connAccount, missed, members, mode, requests, submitted, posted,
                 lastMsgId, history>>

(* A login that succeeds: bindUser().  One on an authenticated connection   *)
(* changes nothing.                                                         *)
Login(c, a) ==
  /\ Registered(c) /\ session[key[c]] = Anonymous
  /\ session' = [session EXCEPT ![key[c]] = a]
  /\ accountConn' = [accountConn EXCEPT ![a] = @ \cup {key[c]}]
  /\ connAccount' = [connAccount EXCEPT ![key[c]] = a]
  /\ missed' = missed \ {key[c]}
  /\ UNCHANGED <<conns, members, mode, requests, submitted, posted, lastMsgId, history>>

(* handleLogout() with a token that is or was valid.                        *)
Logout(c) ==
  /\ Registered(c) /\ session[key[c]] \in Accounts
  /\ UnbindConn(key[c])
  /\ session' = [session EXCEPT ![key[c]] = Anonymous]
  /\ missed' = missed \ {key[c]}
  /\ UNCHANGED <<conns, members, mode, requests, submitted, posted, lastMsgId, history>>

(* A member leaves or is kicked.                                            *)
LeaveGroup(a) ==
  /\ a \in members
  /\ members' = members \ {a}
  /\ UNCHANGED <<conns, sessions, mode, requests, submitted, posted, lastMsgId, history>>

(* stopAcceptingAsyncMessages().                                            *)
StopAccepting ==
  /\ accepting
  /\ accepting' = FALSE
  /\ UNCHANGED <<conns, sessions, members, requests, submitted, posted, lastMsgId, history,
                 rateLimited>>

-----------------------------------------------------------------------------
(* Contexts.  stage: "limit" the redis executor holds it, "limited" its     *)
(* result is posted, "persist" the message executor holds it, "written" the *)
(* result is posted, "done".                                                *)

Context(c, kind, to) ==
  [conn |-> c, key |-> key[c], account |-> session[key[c]], kind |-> kind, to |-> to,
   stage |-> "new", msgId |-> 0, durable |-> FALSE]

(* The ordering key of the message executor.                                *)
OrderingKey(r) == IF r.kind = "group" THEN {"group"} ELSE {r.account, r.to}

(* Mutant of ResolvePendingSender: the weak connection is not looked at.    *)
ResolveByKey(r) == session[r.key] = r.account

(* resolvePendingSender(): the request's own connection is alive and open   *)
(* and its key still carries a session of the request's account.            *)
ResolvePendingSender(r) == life[r.conn] = "open" /\ session[r.key] = r.account

(* sendResponseWithLog(): whoever is registered under the key gets it.      *)
Answer(i, r) ==
  answers' = IF connections[r.key] = None THEN answers
             ELSE answers \cup {[req |-> i, conn |-> connections[r.key], account |-> session[r.key]]}

(* Mutant of SubmitPersistence: ids in the order of arrival, as if          *)
(* allocated before the rate limit check.                                   *)
SubmitWithEarlyId(i, r) ==
  /\ lastMsgId' = Len(requests)
  /\ requests' = [requests EXCEPT ![i] = [r EXCEPT !.stage = "persist", !.msgId = i]]
  /\ submitted' = Append(submitted, i)
  /\ UNCHANGED answers

(* submitGroupMessagePersistence(), submitDirectMessagePersistence(): a new *)
(* id, then the executor accepts the task or its queue is full and the      *)
(* sender is told.                                                          *)
SubmitPersistence(i, r) ==
  /\ lastMsgId' = lastMsgId + 1
  /\ \/ /\ requests' = [requests EXCEPT ![i] = [r EXCEPT !.stage = "persist", !.msgId = lastMsgId + 1]]
        /\ submitted' = Append(submitted, i)
        /\ UNCHANGED answers
     \/ /\ requests' = [requests EXCEPT ![i] = [r EXCEPT !.stage = "done"]]
        /\ Answer(i, r)
        /\ UNCHANGED submitted

(* Drop the request: stage "done" and no response.                          *)
Finish(i) == requests' = [requests EXCEPT ![i].stage = "done"]

(* The tail both handlers share: submitRateLimitCheck(), or the persistence *)
(* at once; an executor that refuses is answered with its reason.           *)
SubmitRequest(r) ==
  LET i == Len(requests) + 1 IN
  /\ Len(requests) < MaxRequests
  /\ \/ /\ rateLimited
        /\ requests' = Append(requests, [r EXCEPT !.stage = "limit"])
        /\ UNCHANGED <<submitted, lastMsgId, answers>>
     \/ /\ ~rateLimited
        /\ requests' = Append(requests, [r EXCEPT !.stage = "persist", !.msgId = lastMsgId + 1])
        /\ submitted' = Append(submitted, i)
        /\ lastMsgId' = lastMsgId + 1
        /\ UNCHANGED answers
     \/ /\ requests' = Append(requests, [r EXCEPT !.stage = "done"])
        /\ lastMsgId' = IF rateLimited THEN lastMsgId ELSE lastMsgId + 1
        /\ Answer(i, r)
        /\ UNCHANGED submitted
  /\ UNCHANGED <<conns, sessions, members, mode, posted, log, misdirected>>

(* handleGroupMessageAsync() past its guards.                               *)
HandleGroupMessage(c) ==
  /\ life[c] = "open" /\ session[key[c]] \in members /\ accepting
  /\ SubmitRequest(Context(c, "group", None))

(* handleDmAsync() past its guards.  A message to oneself is not enumerated: *)
(* it fails in the transaction, as any other may.                           *)
HandleDm(c, to) ==
  /\ life[c] = "open" /\ session[key[c]] \in Accounts \ {to} /\ accepting
  /\ SubmitRequest(Context(c, "dm", to))

(* The redis task: requests of one account are checked in order.            *)
CheckRateLimit(i) ==
  /\ i \in DOMAIN requests /\ requests[i].stage = "limit"
  /\ \A j \in 1..(i - 1) : requests[j].account = requests[i].account => requests[j].stage # "limit"
  /\ requests' = [requests EXCEPT ![i].stage = "limited"]
  /\ posted' = Append(posted, i)
  /\ UNCHANGED <<conns, sessions, members, mode, submitted, lastMsgId, history>>

(* The base loop takes the next completion, of this stage and kind.         *)
Takes(stage, kind) ==
  /\ posted # <<>> /\ requests[Head(posted)].stage = stage /\ requests[Head(posted)].kind = kind
  /\ posted' = Tail(posted)

(* Dropped without an answer: nobody to answer, or stopping.                *)
DropRequest(i) ==
  /\ ~ResolvePendingSender(requests[i]) \/ ~accepting
  /\ Finish(i)
  /\ UNCHANGED <<submitted, lastMsgId, answers>>

(* Mutant of RefuseRequest: the limiter's verdict is not answered.          *)
RefuseSilently(i) ==
  /\ ResolvePendingSender(requests[i]) /\ accepting
  /\ Finish(i)
  /\ UNCHANGED <<submitted, lastMsgId, answers>>

(* Over the limit, or the limiter is down and redisFailOpen_ is not set.    *)
RefuseRequest(i) ==
  /\ ResolvePendingSender(requests[i]) /\ accepting
  /\ Finish(i) /\ Answer(i, requests[i])
  /\ UNCHANGED <<submitted, lastMsgId>>

(* completeGroupMessageRateLimit(): whoever left the group meanwhile is     *)
(* refused too.                                                             *)
CompleteGroupRateLimit ==
  /\ Takes("limited", "group")
  /\ LET i == Head(posted)  r == requests[i] IN
     \/ DropRequest(i)
     \/ RefuseRequest(i)
     \/ /\ ResolvePendingSender(r) /\ accepting /\ r.account \in members
        /\ SubmitPersistence(i, r)
  /\ UNCHANGED <<conns, sessions, members, mode, log, misdirected>>

(* completeDirectMessageRateLimit().                                        *)
CompleteDirectRateLimit ==
  /\ Takes("limited", "dm")
  /\ LET i == Head(posted)  r == requests[i] IN
     \/ DropRequest(i)
     \/ RefuseRequest(i)
     \/ /\ ResolvePendingSender(r) /\ accepting
        /\ SubmitPersistence(i, r)
  /\ UNCHANGED <<conns, sessions, members, mode, log, misdirected>>

(* The message task: persist() commits or fails, the result is posted.      *)
Persist(n) ==
  LET i == submitted[n]  r == requests[i] IN
  /\ \A m \in 1..(n - 1) : OrderingKey(requests[submitted[m]]) # OrderingKey(r)
  /\ submitted' = [m \in 1..(Len(submitted) - 1) |-> submitted[IF m < n THEN m ELSE m + 1]]
  /\ \E durable \in BOOLEAN :
       /\ requests' = [requests EXCEPT ![i] = [r EXCEPT !.stage = "written", !.durable = durable]]
       /\ log' = IF durable THEN Append(log, i) ELSE log
  /\ posted' = Append(posted, i)
  /\ UNCHANGED <<conns, sessions, members, mode, lastMsgId, answers, misdirected>>

(* Mutant of CollectGroupTargets: the group is not consulted.               *)
CollectEverybody(r) == (UNION {accountConn[m] : m \in Accounts}) \ {r.key}

(* collectGroupTargets().                                                   *)
CollectGroupTargets(r) == (UNION {accountConn[m] : m \in members}) \ {r.key}

(* The keys with a session of one of these accounts, and those among them   *)
(* whose connection logged in itself.                                       *)
WithSession(who) == {k \in Keys : session[k] \in who}
LoggedIn(who) == WithSession(who) \ missed

(* A durable message is pushed to the targets, whether the sender is still  *)
(* there or not; the sender is answered if still there.                     *)
PushAndAnswer(i, r, targets, audience) ==
  /\ Finish(i)
  /\ misdirected' = IF r.durable
                    THEN misdirected \cup (targets \ (audience \cup missed)) \cup (audience \ targets)
                    ELSE misdirected
  /\ IF ResolvePendingSender(r) THEN Answer(i, r) ELSE UNCHANGED answers
  /\ UNCHANGED <<conns, sessions, members, mode, submitted, lastMsgId, log>>

(* completeGroupMessage().                                                  *)
CompleteGroupMessage ==
  /\ Takes("written", "group")
  /\ LET r == requests[Head(posted)] IN
     PushAndAnswer(Head(posted), r, CollectGroupTargets(r), LoggedIn(members) \ {r.key})

(* completeDirectMessage(): to every connection of the receiver.            *)
CompleteDirectMessage ==
  /\ Takes("written", "dm")
  /\ LET r == requests[Head(posted)] IN
     PushAndAnswer(Head(posted), r, accountConn[r.to], LoggedIn({r.to}))

-----------------------------------------------------------------------------
Completion ==
  \/ CompleteGroupRateLimit \/ CompleteDirectRateLimit
  \/ CompleteGroupMessage \/ CompleteDirectMessage

Base == Completion \/ (\E c \in Conns : RemoveConnection(c))
Workers == (\E i \in 1..MaxRequests : CheckRateLimit(i)) \/ (\E n \in DOMAIN submitted : Persist(n))
Clients ==
  \/ \E c \in Conns, k \in Keys : Connect(c, k)
  \/ \E c \in Conns : IoClose(c) \/ FirstMessage(c) \/ Logout(c) \/ (\E a \in Accounts : Login(c, a))
  \/ \E c \in Conns : HandleGroupMessage(c) \/ (\E to \in Accounts : HandleDm(c, to))
  \/ \E a \in Accounts : LeaveGroup(a)
  \/ StopAccepting

Next == Base \/ Workers \/ Clients

Spec == Init /\ [][Next]_vars

-----------------------------------------------------------------------------
(* The three maps of SessionManager stay in step through logins, logouts    *)
(* and reuse of keys: a key is in exactly the set of the account its        *)
(* session is logged in as, and every session has a registered connection   *)
(* unless onDisconnect() missed it.                                         *)
MapsAgree ==
  /\ \A k \in Keys :
       /\ connAccount[k] = IF session[k] \in Accounts THEN session[k] ELSE None
       /\ session[k] # None => connections[k] # None \/ k \in missed
  /\ \A a \in Accounts : accountConn[a] = {k \in Keys : connAccount[k] = a}

(* A response goes to the connection that sent the request, still logged in *)
(* as the account that sent it, however late it comes: never to a later     *)
(* connection with the same descriptor or to another user of the same one.  *)
AnswersReachSender ==
  \A x \in answers : /\ x.conn = requests[x.req].conn
                     /\ x.account = requests[x.req].account

(* Within one group or one direct conversation messages are committed in    *)
(* the order of their ids, although requests of different senders pass the  *)
(* rate limiter in any order and some fail on the way.                      *)
CommitsFollowIds ==
  \A i, j \in DOMAIN log :
    /\ i < j
    /\ OrderingKey(requests[log[i]]) = OrderingKey(requests[log[j]])
    => requests[log[i]].msgId < requests[log[j]].msgId

(* A push reaches exactly the connections that are logged in as a member of *)
(* the group, or as the receiver, when the message is durable: nobody who   *)
(* left or logged out meanwhile.  There are two exceptions: whoever holds   *)
(* the sender's descriptor by then, whom collectGroupTargets() takes for    *)
(* the sender, and whoever has a descriptor whose session onDisconnect()    *)
(* missed and did not log out of it.  The maps the targets are found in     *)
(* stay in step all the time, and no other session is left behind.          *)
PushesReachTheirAudience == MapsAgree /\ misdirected = {}

(* No request is forgotten: it is answered, or its connection closed, its   *)
(* user logged out, or the server is stopping.                              *)
RequestsAreAnswered ==
  \A i \in 1..MaxRequests :
    (i \in DOMAIN requests /\ requests[i].stage # "done") ~>
      \/ \E x \in answers : x.req = i
      \/ i \in DOMAIN requests /\ ~ResolvePendingSender(requests[i])
      \/ ~accepting
=============================================================================
