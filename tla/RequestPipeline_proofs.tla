----------------------- MODULE RequestPipeline_proofs -----------------------
(***************************************************************************)
(* The promises of the asynchronous requests, for any number of            *)
(* connections, descriptors, accounts and requests.  The first part is     *)
(* about the send pipelines alone: answers reach their sender, pushes      *)
(* their audience, and commits follow ids.                                 *)
(*                                                                         *)
(* A completion finds the connection again by its descriptor.  What makes  *)
(* that right is ConnInv: an open connection is the one registered under   *)
(* its descriptor, and the maps of SessionManager agree.  What makes the   *)
(* order right is OrderInv: the message executor holds its tasks in the    *)
(* order of their ids, behind everything of the same key already written.  *)
(* The contexts may be of any kind, so that the second part can use the    *)
(* same invariant.                                                         *)
(*                                                                         *)
(* The second part is about all requests together: they share the queues   *)
(* and keep IInv, so the three promises hold in the whole.  AckInv adds    *)
(* what is durable at which stage of an acknowledgement.                   *)
(***************************************************************************)
EXTENDS RequestPipeline, TLAPS

(* What Append(), Tail() and the length of a sequence are.                  *)
LEMMA SeqElement ==
  ASSUME NEW S, NEW q \in Seq(S), NEW n \in 1..Len(q) PROVE q[n] \in S
OBVIOUS

LEMMA SeqLength ==
  ASSUME NEW S, NEW q \in Seq(S)
  PROVE  Len(q) \in Nat /\ DOMAIN q = 1..Len(q) /\ q \in [1..Len(q) -> S]
OBVIOUS

LEMMA SeqEmpty ==
  ASSUME NEW S
  PROVE  /\ <<>> \in Seq(S) /\ Len(<<>>) = 0
         /\ \A q \in Seq(S) : q # <<>> => Len(q) \in Nat \ {0}
OBVIOUS

LEMMA SeqAppend ==
  ASSUME NEW S, NEW q \in Seq(S), NEW e \in S
  PROVE  /\ Append(q, e) \in Seq(S) /\ Len(Append(q, e)) = Len(q) + 1
         /\ Append(q, e)[Len(q) + 1] = e
         /\ \A n \in 1..Len(q) : Append(q, e)[n] = q[n]
OBVIOUS

LEMMA SeqExcept ==
  ASSUME NEW S, NEW q \in Seq(S), NEW i \in 1..Len(q), NEW e \in S
  PROVE  /\ [q EXCEPT ![i] = e] \in Seq(S) /\ Len([q EXCEPT ![i] = e]) = Len(q)
         /\ \A j \in 1..Len(q) : [q EXCEPT ![i] = e][j] = IF j = i THEN e ELSE q[j]
OBVIOUS

LEMMA SeqTail ==
  ASSUME NEW S, NEW q \in Seq(S), q # <<>>
  PROVE  /\ Head(q) \in S /\ Tail(q) \in Seq(S) /\ Len(Tail(q)) = Len(q) - 1
         /\ \A n \in 1..Len(Tail(q)) : Tail(q)[n] = q[n + 1]
OBVIOUS

(* A context of any asynchronous request, the ones of RequestPipeline too.  *)
Stages == {"new", "limit", "limited", "persist", "written", "done", "read", "acking"}
Kinds ==
  {"group", "dm", "group_history", "dm_history", "sync", "offline_list", "conversation_list",
   "message_ack", "conversation_read", "offline_ack"}
Targets ==
  Accounts \cup {None, "direct", "group"} \cup SUBSET {"direct", "group", "messages", "offline"}
Request == [conn : Conns, key : Keys, account : Accounts, kind : Kinds, to : Targets,
            stage : Stages, msgId : Nat, durable : BOOLEAN]

ConnTypes ==
  /\ life \in [Conns -> {"new", "open", "closed", "gone"}]
  /\ key \in [Conns -> Keys \cup {None}]
  /\ connections \in [Keys -> Conns \cup {None}]
  /\ session \in [Keys -> Accounts \cup {None, Anonymous}]
  /\ accountConn \in [Accounts -> SUBSET Keys]
  /\ connAccount \in [Keys -> Accounts \cup {None}]
  /\ members \subseteq Accounts

(* A connection is registered under its descriptor until it is removed, and *)
(* nothing else is.                                                         *)
Owners ==
  /\ \A c \in Conns : Registered(c) => key[c] \in Keys /\ connections[key[c]] = c
  /\ \A k \in Keys : connections[k] # None =>
       Registered(connections[k]) /\ key[connections[k]] = k

ConnInv == ConnTypes /\ Owners /\ MapsAgree

(* A context keeps the descriptor its connection had.                       *)
ContextInv ==
  /\ requests \in Seq(Request)
  /\ \A i \in 1..Len(requests) :
       /\ life[requests[i].conn] # "new"
       /\ requests[i].key = key[requests[i].conn]
       /\ requests[i].kind = "dm" => requests[i].to \in Accounts

QueueInv ==
  /\ submitted \in Seq(Nat) /\ posted \in Seq(Nat) /\ log \in Seq(Nat)
  /\ \A n \in 1..Len(submitted) :
       submitted[n] \in 1..Len(requests) /\ requests[submitted[n]].stage = "persist"
  /\ \A n \in 1..Len(posted) : posted[n] \in 1..Len(requests)
  /\ \A n \in 1..Len(log) :
       log[n] \in 1..Len(requests) /\ requests[log[n]].stage \in {"written", "done"}

(* Ids and the order of the executor.                                       *)
OrderInv ==
  /\ lastMsgId \in Nat
  /\ \A i \in 1..Len(requests) : requests[i].msgId <= lastMsgId
  /\ \A m, n \in 1..Len(submitted) :
       m < n => requests[submitted[m]].msgId < requests[submitted[n]].msgId
  /\ \A m \in 1..Len(log), n \in 1..Len(submitted) :
       OrderingKey(requests[log[m]]) = OrderingKey(requests[submitted[n]])
       => requests[log[m]].msgId < requests[submitted[n]].msgId
  /\ \A m, n \in 1..Len(log) :
       m < n /\ OrderingKey(requests[log[m]]) = OrderingKey(requests[log[n]])
       => requests[log[m]].msgId < requests[log[n]].msgId

AnswerInv ==
  /\ \A x \in answers : /\ x.req \in 1..Len(requests)
                        /\ x.conn = requests[x.req].conn
                        /\ x.account = requests[x.req].account
  /\ misdirected = {}

IInv == ConnInv /\ ContextInv /\ QueueInv /\ OrderInv /\ AnswerInv

-----------------------------------------------------------------------------
(* The connections, the sessions and the group.                             *)

(* A new connection takes a descriptor nobody is registered under.          *)
LEMMA ConnectKeeps ==
  ASSUME ConnInv, NEW c \in Conns, NEW k \in Keys, Connect(c, k)
  PROVE  ConnInv'
<1> USE PipelineAssumption DEF ConnInv, Connect, Registered
<1>1. ConnTypes'
  BY Zenon DEF ConnTypes, sessions
<1>2. Owners'
  BY SMTT(30) DEF ConnTypes, Owners
<1>3. MapsAgree'
  BY Zenon DEF ConnTypes, MapsAgree, sessions
<1> QED
  BY <1>1, <1>2, <1>3, Zenon

(* A connection that closes stays registered.                               *)
LEMMA IoCloseKeeps ==
  ASSUME ConnInv, NEW c \in Conns, IoClose(c)
  PROVE  ConnInv'
<1> USE DEF ConnInv, IoClose, Registered
<1>1. ConnTypes'
  BY Zenon DEF ConnTypes, sessions
<1>2. Owners'
  BY SMTT(30) DEF ConnTypes, Owners
<1>3. MapsAgree'
  BY Zenon DEF MapsAgree, sessions
<1> QED
  BY <1>1, <1>2, <1>3, Zenon

(* unbindConn() takes the key out of the one set it is in.                  *)
LEMMA UnbindKeeps ==
  ASSUME ConnInv, NEW k \in Keys, UnbindConn(k)
  PROVE  /\ accountConn' \in [Accounts -> SUBSET Keys]
         /\ connAccount' \in [Keys -> Accounts \cup {None}]
         /\ connAccount' = [connAccount EXCEPT ![k] = None]
         /\ \A a \in Accounts : accountConn'[a] = {j \in Keys : connAccount'[j] = a}
<1> USE PipelineAssumption DEF ConnInv, ConnTypes, UnbindConn
<1>1. CASE connAccount[k] = None
  <2>1. accountConn' = accountConn /\ connAccount' = connAccount
    BY <1>1, Zenon
  <2> QED
    BY <1>1, <2>1, SMTT(30) DEF MapsAgree
<1>2. CASE connAccount[k] # None
  <2>1. connAccount[k] \in Accounts
    BY <1>2, Zenon
  <2>2. accountConn' = [accountConn EXCEPT ![connAccount[k]] = @ \ {k}]
    BY <1>2, Zenon
  <2>3. \A a \in Accounts : accountConn'[a] = accountConn[a] \ {k}
    BY <2>1, <2>2, SMTT(30) DEF MapsAgree
  <2>4. \A a \in Accounts : a # None
    BY Zenon
  <2>5. \A a \in Accounts : {j \in Keys : connAccount'[j] = a} = accountConn[a] \ {k}
    BY <2>4, SMTT(30) DEF MapsAgree
  <2> QED
    BY <2>1, <2>2, <2>3, <2>5, SMTT(30)
<1> QED
  BY <1>1, <1>2, Zenon

(* The base loop removes a connection with its session and its bindings, or *)
(* misses them.                                                             *)
LEMMA RemoveKeeps ==
  ASSUME ConnInv, NEW c \in Conns, RemoveConnection(c)
  PROVE  ConnInv'
<1> DEFINE k == key[c]
<1>1. k \in Keys /\ connections[k] = c
  BY Zenon DEF RemoveConnection, Registered, ConnInv, Owners
<1>2. /\ life' = [life EXCEPT ![c] = "gone"]
      /\ connections' = [connections EXCEPT ![k] = None]
      /\ UNCHANGED <<key, members>>
  BY Zenon DEF RemoveConnection
<1>3. Owners'
  BY <1>1, <1>2, PipelineAssumption, SMTT(30) DEF ConnInv, ConnTypes, Owners, Registered
<1>4. CASE session' = [session EXCEPT ![k] = None] /\ UnbindConn(k) /\ missed' = missed \ {k}
  <2>1. /\ accountConn' \in [Accounts -> SUBSET Keys]
        /\ connAccount' \in [Keys -> Accounts \cup {None}]
        /\ connAccount' = [connAccount EXCEPT ![k] = None]
        /\ \A a \in Accounts : accountConn'[a] = {j \in Keys : connAccount'[j] = a}
    BY <1>1, <1>4, UnbindKeeps, Zenon
  <2>2. ConnTypes'
    BY <1>1, <1>2, <1>4, <2>1, Zenon DEF ConnInv, ConnTypes
  <2>3. MapsAgree'
    BY <1>1, <1>2, <1>4, <2>1, PipelineAssumption, SMTT(30) DEF ConnInv, ConnTypes, MapsAgree
  <2> QED
    BY <1>3, <2>2, <2>3, Zenon DEF ConnInv
<1>5. CASE missed' = missed \cup {k} /\ UNCHANGED <<session, accountConn, connAccount>>
  <2>1. ConnTypes'
    BY <1>1, <1>2, <1>5, Zenon DEF ConnInv, ConnTypes
  <2>2. \A j \in Keys : session[j] # None => connections'[j] # None \/ j \in missed'
    BY <1>1, <1>2, <1>5, Zenon DEF ConnInv, ConnTypes, MapsAgree
  <2>3. MapsAgree'
    BY <1>5, <2>2, Zenon DEF ConnInv, MapsAgree
  <2> QED
    BY <1>3, <2>1, <2>3, Zenon DEF ConnInv
<1> QED
  BY <1>4, <1>5, Zenon DEF RemoveConnection

(* A session begins on a descriptor that had none.                          *)
LEMMA FirstMessageKeeps ==
  ASSUME ConnInv, NEW c \in Conns, FirstMessage(c)
  PROVE  ConnInv'
<1> USE PipelineAssumption DEF ConnInv, FirstMessage, conns
<1>1. key[c] \in Keys /\ connections[key[c]] # None
  BY Zenon DEF Owners
<1>2. ConnTypes'
  BY <1>1, Zenon DEF ConnTypes
<1>3. Owners'
  BY Zenon DEF Owners, Registered
<1>4. MapsAgree'
  BY <1>1 DEF ConnTypes, MapsAgree
<1> QED
  BY <1>2, <1>3, <1>4, Zenon

(* bindUser() writes the three maps alike.                                  *)
LEMMA LoginKeeps ==
  ASSUME ConnInv, NEW c \in Conns, NEW a \in Accounts, Login(c, a)
  PROVE  ConnInv'
<1> USE PipelineAssumption DEF ConnInv, Login, conns
<1>1. key[c] \in Keys /\ connections[key[c]] # None
  BY Zenon DEF Owners
<1>2. ConnTypes'
  BY <1>1, Zenon DEF ConnTypes
<1>3. Owners'
  BY Zenon DEF Owners, Registered
<1>4. MapsAgree'
  <2>1. connAccount[key[c]] = None
    BY <1>1, Zenon DEF MapsAgree
  <2> QED
    BY <1>1, <2>1, SMTT(30) DEF ConnTypes, MapsAgree
<1> QED
  BY <1>2, <1>3, <1>4, Zenon

(* A logout leaves the session anonymous and unbound.                       *)
LEMMA LogoutKeeps ==
  ASSUME ConnInv, NEW c \in Conns, Logout(c)
  PROVE  ConnInv'
<1> DEFINE k == key[c]
<1>1. k \in Keys /\ connections[k] = c
  BY Zenon DEF Logout, ConnInv, Owners
<1>2. /\ session' = [session EXCEPT ![k] = Anonymous]
      /\ UnbindConn(k) /\ missed' = missed \ {k}
      /\ UNCHANGED <<life, key, connections, members>>
  BY Zenon DEF Logout, conns
<1>3. /\ accountConn' \in [Accounts -> SUBSET Keys]
      /\ connAccount' \in [Keys -> Accounts \cup {None}]
      /\ connAccount' = [connAccount EXCEPT ![k] = None]
      /\ \A a \in Accounts : accountConn'[a] = {j \in Keys : connAccount'[j] = a}
  BY <1>1, <1>2, UnbindKeeps, Zenon
<1>4. ConnTypes'
  BY <1>1, <1>2, <1>3, Zenon DEF ConnInv, ConnTypes
<1>5. Owners'
  BY <1>2, Zenon DEF ConnInv, Owners, Registered
<1>6. MapsAgree'
  BY <1>1, <1>2, <1>3, PipelineAssumption, SMTT(30) DEF ConnInv, ConnTypes, MapsAgree
<1> QED
  BY <1>4, <1>5, <1>6, Zenon DEF ConnInv

(* Requests and completions leave the connections alone.                    *)
LEMMA ConnFrame ==
  ASSUME ConnInv, UNCHANGED <<life, key, connections, session, accountConn, connAccount, missed>>,
         members' \subseteq members
  PROVE  ConnInv'
BY DEF ConnInv, ConnTypes, Owners, Registered, MapsAgree

(* Contexts have their type.                                                *)
LEMMA TypedRequests ==
  ASSUME ContextInv
  PROVE  /\ Len(requests) \in Nat /\ DOMAIN requests = 1..Len(requests)
         /\ \A i \in 1..Len(requests) : requests[i] \in Request
BY SeqElement, SeqLength, Zenon DEF ContextInv

(* And the connections leave the requests alone: a context names a          *)
(* connection that had its descriptor already.                              *)
LEMMA RequestFrame ==
  ASSUME IInv, ConnInv',
         UNCHANGED <<requests, submitted, posted, lastMsgId, log, answers, misdirected>>,
         \A c \in Conns : life[c] # "new" => life'[c] # "new" /\ key'[c] = key[c]
  PROVE  IInv'
<1>1. ContextInv'
  <2>1. \A i \in 1..Len(requests) : requests[i].conn \in Conns
    BY TypedRequests, Zenon DEF IInv, Request
  <2>2. \A i \in 1..Len(requests) :
          /\ life'[requests[i].conn] # "new"
          /\ requests[i].key = key'[requests[i].conn]
          /\ requests[i].kind = "dm" => requests[i].to \in Accounts
    BY <2>1, Zenon DEF IInv, ContextInv
  <2>3. requests' \in Seq(Request)
    BY Zenon DEF IInv, ContextInv
  <2> QED
    BY <2>2, <2>3, Zenon DEF ContextInv, Request, Stages, Kinds, Targets
<1>2. QueueInv'
  BY Zenon DEF IInv, QueueInv
<1>3. OrderInv'
  BY ZenonT(40) DEF IInv, OrderInv, OrderingKey
<1>4. AnswerInv'
  BY Zenon DEF IInv, AnswerInv
<1> QED
  BY <1>1, <1>2, <1>3, <1>4, Zenon DEF IInv

(* What stays of a context when its stage changes.                          *)
SameContext(r, s) ==
  /\ r.conn = s.conn /\ r.key = s.key /\ r.account = s.account
  /\ r.kind = s.kind /\ r.to = s.to

(* The ordering key depends on the context alone.                           *)
LEMMA SameKey ==
  ASSUME NEW r, NEW s, SameContext(r, s)
  PROVE  OrderingKey(r) = OrderingKey(s)
BY Zenon DEF SameContext, OrderingKey

(* A context on its way to the executor.                                    *)
Submitted(r, n) == [r EXCEPT !.stage = "persist", !.msgId = n]

(* What the context keeps when it gets its id.                              *)
LEMMA ContextGetsId ==
  ASSUME NEW r \in Request, NEW n \in Nat
  PROVE  /\ Submitted(r, n) \in Request /\ SameContext(r, Submitted(r, n))
         /\ Submitted(r, n).stage = "persist" /\ Submitted(r, n).msgId = n
<1> DEFINE t == Submitted(r, n)
<1> USE DEF Submitted
<1>1. t \in Request
  BY Zenon DEF Request, Stages, Kinds, Targets
<1>2. t.conn = r.conn /\ t.key = r.key /\ t.account = r.account
  BY Zenon DEF Request
<1>3. t.kind = r.kind /\ t.to = r.to
  BY Zenon DEF Request
<1>4. t.stage = "persist" /\ t.msgId = n
  BY Zenon DEF Request
<1> QED
  BY <1>1, <1>2, <1>3, <1>4, Zenon DEF SameContext

(* A context changes.                                                       *)
LEMMA ContextChanges ==
  ASSUME ContextInv, NEW i \in 1..Len(requests), NEW r \in Request,
         SameContext(requests[i], r), requests' = [requests EXCEPT ![i] = r],
         UNCHANGED <<life, key>>
  PROVE  /\ ContextInv' /\ Len(requests') = Len(requests) /\ requests'[i] = r
         /\ \A j \in 1..Len(requests) : j # i => requests'[j] = requests[j]
         /\ \A j \in 1..Len(requests) : SameContext(requests[j], requests'[j])
<1>1. /\ requests' \in Seq(Request) /\ Len(requests') = Len(requests)
      /\ \A j \in 1..Len(requests) : requests'[j] = IF j = i THEN r ELSE requests[j]
  BY SeqExcept, SMTT(30) DEF ContextInv
<1>2. \A j \in 1..Len(requests) : SameContext(requests[j], requests'[j])
  BY <1>1, Zenon DEF SameContext
<1>3. ContextInv'
  BY <1>1, <1>2, SMTT(30) DEF ContextInv, SameContext, Request, Stages, Kinds, Targets
<1> QED
  BY <1>1, <1>2, <1>3, Zenon

(* A context is added.                                                      *)
LEMMA ContextArrives ==
  ASSUME ContextInv, NEW r \in Request, life[r.conn] # "new", r.key = key[r.conn],
         r.kind = "dm" => r.to \in Accounts,
         requests' = Append(requests, r), UNCHANGED <<life, key>>
  PROVE  /\ ContextInv' /\ Len(requests') = Len(requests) + 1
         /\ requests'[Len(requests) + 1] = r
         /\ \A j \in 1..Len(requests) : requests'[j] = requests[j]
         /\ \A j \in 1..Len(requests) : SameContext(requests[j], requests'[j])
<1>1. /\ requests' \in Seq(Request) /\ Len(requests') = Len(requests) + 1
      /\ \A j \in 1..Len(requests) : requests'[j] = requests[j]
      /\ requests'[Len(requests) + 1] = r
  BY SeqAppend, SMTT(30) DEF ContextInv
<1>2. Len(requests) \in Nat
  BY SMTT(30) DEF ContextInv
<1>3. ContextInv'
  <2> SUFFICES ASSUME NEW i \in 1..(Len(requests) + 1)
               PROVE  /\ life[requests'[i].conn] # "new"
                      /\ requests'[i].key = key[requests'[i].conn]
                      /\ requests'[i].kind = "dm" => requests'[i].to \in Accounts
      BY <1>1 DEF ContextInv, Request, Stages, Kinds, Targets
  <2>1. i \in 1..Len(requests) \/ i = Len(requests) + 1
    BY <1>2, SMTT(30)
  <2> QED
    BY <1>1, <2>1, Zenon DEF ContextInv
<1> QED
  BY <1>1, <1>3, Zenon DEF SameContext

(* Nothing goes into the executor or the log: what they hold keeps its id.  *)
LEMMA OrderFrame ==
  ASSUME ContextInv, QueueInv, OrderInv, NEW i,
         Len(requests') \in Nat, Len(requests') >= Len(requests),
         \A j \in 1..Len(requests) : SameContext(requests[j], requests'[j]),
         \A j \in 1..Len(requests) : j # i => requests'[j] = requests[j],
         i \in 1..Len(requests) => requests'[i].msgId = requests[i].msgId,
         \A j \in 1..Len(requests') : requests'[j].msgId <= lastMsgId',
         lastMsgId' \in Nat, UNCHANGED <<submitted, log>>
  PROVE  OrderInv'
<1>1. \A j \in 1..Len(requests) : /\ requests'[j].msgId = requests[j].msgId
                                  /\ OrderingKey(requests'[j]) = OrderingKey(requests[j])
  BY SameKey, Zenon
<1>2. \A n \in 1..Len(submitted) : submitted[n] \in 1..Len(requests)
  BY Zenon DEF QueueInv
<1>3. \A n \in 1..Len(log) : log[n] \in 1..Len(requests)
  BY Zenon DEF QueueInv
<1>4. \A m, n \in 1..Len(submitted) :
        m < n => requests'[submitted[m]].msgId < requests'[submitted[n]].msgId
  BY <1>1, <1>2, Zenon DEF OrderInv
<1>5. \A m \in 1..Len(log), n \in 1..Len(submitted) :
        OrderingKey(requests'[log[m]]) = OrderingKey(requests'[submitted[n]])
        => requests'[log[m]].msgId < requests'[submitted[n]].msgId
  BY <1>1, <1>2, <1>3 DEF OrderInv
<1>6. \A m, n \in 1..Len(log) :
        m < n /\ OrderingKey(requests'[log[m]]) = OrderingKey(requests'[log[n]])
        => requests'[log[m]].msgId < requests'[log[n]].msgId
  BY <1>1, <1>3 DEF OrderInv
<1> QED
  BY <1>4, <1>5, <1>6 DEF OrderInv

(* The indices of a sequence one longer.                                    *)
LEMMA OneMore == \A n \in Nat : \A m \in 1..(n + 1) : m \in 1..n \/ m = n + 1
BY SMTT(30)

(* What is at most n is below the next number.                              *)
LEMMA AtMost == \A m, n \in Nat : m <= n => m < n + 1
BY SMTT(30)

(* The indices of a longer sequence.                                        *)
LEMMA Wider == \A m, n \in Nat : m <= n => 1..m \subseteq 1..n
BY SMTT(30)

(* A context that is not with the executor moves on.                        *)
LEMMA QueueFrame ==
  ASSUME ContextInv, QueueInv, NEW i,
         Len(requests') \in Nat, Len(requests') >= Len(requests),
         \A j \in 1..Len(requests) : j # i => requests'[j] = requests[j],
         i \in 1..Len(requests) =>
           \/ requests[i].stage \in {"limit", "limited", "read", "acking"}
           \/ requests[i].stage = "written" /\ requests'[i].stage = "done"
           \/ requests[i].stage = "persist" /\ \A n \in 1..Len(submitted) : submitted[n] # i,
         UNCHANGED <<submitted, log>>,
         posted' \in Seq(Nat), \A n \in 1..Len(posted') : posted'[n] \in 1..Len(requests')
  PROVE  QueueInv'
<1>1. \A n \in 1..Len(submitted) :
        submitted[n] \in 1..Len(requests') /\ requests'[submitted[n]].stage = "persist"
  <2> SUFFICES ASSUME NEW n \in 1..Len(submitted)
               PROVE  /\ submitted[n] \in 1..Len(requests')
                      /\ requests'[submitted[n]].stage = "persist"
      BY Zenon
  <2>1. submitted[n] \in 1..Len(requests) /\ requests[submitted[n]].stage = "persist"
    BY Zenon DEF QueueInv
  <2>2. submitted[n] # i
    BY <2>1, Zenon
  <2> QED
    BY <2>1, <2>2, TypedRequests, SMTT(30)
<1>2. \A n \in 1..Len(log) :
        log[n] \in 1..Len(requests') /\ requests'[log[n]].stage \in {"written", "done"}
  <2> SUFFICES ASSUME NEW n \in 1..Len(log)
               PROVE  /\ log[n] \in 1..Len(requests')
                      /\ requests'[log[n]].stage \in {"written", "done"}
      BY Zenon
  <2>1. log[n] \in 1..Len(requests) /\ requests[log[n]].stage \in {"written", "done"}
    BY Zenon DEF QueueInv
  <2>2. log[n] \in 1..Len(requests')
    BY <2>1, TypedRequests, SMTT(30)
  <2>3. CASE log[n] = i
    BY <2>1, <2>2, <2>3, Zenon
  <2>4. CASE log[n] # i
    BY <2>1, <2>2, <2>4, Zenon
  <2> QED
    BY <2>3, <2>4, Zenon
<1>3. submitted' \in Seq(Nat) /\ log' \in Seq(Nat)
  BY Zenon DEF QueueInv
<1> QED
  BY <1>1, <1>2, <1>3, Zenon DEF QueueInv

(* No response is sent.                                                     *)
LEMMA AnswerFrame ==
  ASSUME ContextInv, AnswerInv, Len(requests') \in Nat, Len(requests') >= Len(requests),
         \A j \in 1..Len(requests) : SameContext(requests[j], requests'[j]),
         UNCHANGED <<answers, misdirected>>
  PROVE  AnswerInv'
BY TypedRequests, SMTT(30) DEF AnswerInv, SameContext

(* A response to whoever is found under the key.                            *)
LEMMA AnswerArrives ==
  ASSUME ContextInv, AnswerInv, Len(requests') \in Nat, Len(requests') >= Len(requests),
         \A j \in 1..Len(requests) : SameContext(requests[j], requests'[j]),
         NEW i \in 1..Len(requests'), NEW r, Answer(i, r),
         connections[r.key] = requests'[i].conn, session[r.key] = requests'[i].account,
         misdirected' = misdirected
  PROVE  AnswerInv'
<1>1. \A x \in answers : /\ x.req \in 1..Len(requests')
                         /\ x.conn = requests'[x.req].conn
                         /\ x.account = requests'[x.req].account
  BY TypedRequests, SMTT(30) DEF AnswerInv, SameContext
<1>2. \A x \in answers' : x \in answers \/
        x = [req |-> i, conn |-> connections[r.key], account |-> session[r.key]]
  BY Zenon DEF Answer
<1> QED
  BY <1>1, <1>2, SMTT(30) DEF AnswerInv

(* resolvePendingSender() finds the sender and nobody else.                 *)
LEMMA ResolveFinds ==
  ASSUME ConnInv, ContextInv, NEW i \in 1..Len(requests), ResolvePendingSender(requests[i])
  PROVE  /\ connections[requests[i].key] = requests[i].conn
         /\ session[requests[i].key] = requests[i].account
<1>1. requests[i].conn \in Conns /\ requests[i].key = key[requests[i].conn]
  BY TypedRequests, Zenon DEF ContextInv, Request
<1> QED
  BY <1>1 DEF ConnInv, Owners, Registered, ResolvePendingSender

(* The base loop takes a completion.                                        *)
LEMMA TakesHead ==
  ASSUME ContextInv, QueueInv, NEW stage, NEW kind, Takes(stage, kind)
  PROVE  /\ Head(posted) \in 1..Len(requests)
         /\ requests[Head(posted)].stage = stage /\ requests[Head(posted)].kind = kind
         /\ posted' \in Seq(Nat) /\ \A n \in 1..Len(posted') : posted'[n] \in 1..Len(requests)
<1>1. /\ posted # <<>> /\ posted' = Tail(posted)
      /\ requests[Head(posted)].stage = stage /\ requests[Head(posted)].kind = kind
  BY Zenon DEF Takes
<1>2. posted \in Seq(Nat) /\ \A n \in 1..Len(posted) : posted[n] \in 1..Len(requests)
  BY Zenon DEF QueueInv
<1>3. /\ Len(posted) \in Nat \ {0} /\ Tail(posted) \in Seq(Nat)
      /\ Len(Tail(posted)) = Len(posted) - 1
      /\ \A n \in 1..Len(Tail(posted)) : Tail(posted)[n] = posted[n + 1]
  BY <1>1, <1>2, SeqTail, SeqEmpty, Zenon
<1>4. Head(posted) = posted[1]
  BY <1>1, <1>2, SMTT(30)
<1> QED
  BY <1>1, <1>2, <1>3, <1>4, SMTT(30)

-----------------------------------------------------------------------------
(* The message executor keeps the order of ids: what it takes in comes      *)
(* behind everything of its key, and what it writes is the oldest of its    *)
(* key.                                                                     *)

(* A context that is in neither gets a new id and goes to the executor.     *)
LEMMA ExecutorTakes ==
  ASSUME ContextInv, QueueInv, OrderInv, NEW i \in Nat,
         Len(requests') \in Nat, Len(requests') >= Len(requests), i \in 1..Len(requests'),
         \A j \in 1..Len(requests') : j = i \/ j \in 1..Len(requests),
         \A j \in 1..Len(requests) : j # i => requests'[j] = requests[j],
         i \in 1..Len(requests) => requests[i].stage = "limited",
         requests'[i].stage = "persist", requests'[i].msgId = lastMsgId + 1,
         lastMsgId' = lastMsgId + 1, submitted' = Append(submitted, i), log' = log,
         posted' \in Seq(Nat), \A n \in 1..Len(posted') : posted'[n] \in 1..Len(requests)
  PROVE  QueueInv' /\ OrderInv'
<1> DEFINE L == Len(submitted)
<1>1. /\ submitted' \in Seq(Nat) /\ Len(submitted') = L + 1 /\ L \in Nat
      /\ submitted'[L + 1] = i
      /\ \A n \in 1..L : submitted'[n] = submitted[n]
  BY SeqAppend, SeqLength, SMTT(30) DEF QueueInv
<1>2. /\ lastMsgId \in Nat /\ Len(requests) \in Nat
      /\ \A j \in 1..Len(requests) : requests[j].msgId \in Nat
  BY TypedRequests, Zenon DEF OrderInv, Request
<1>3. \A n \in 1..L : /\ submitted[n] \in 1..Len(requests) /\ submitted[n] # i
                      /\ requests[submitted[n]].stage = "persist"
                      /\ requests'[submitted[n]] = requests[submitted[n]]
                      /\ requests[submitted[n]].msgId < lastMsgId + 1
  <2> SUFFICES ASSUME NEW n \in 1..L
               PROVE  /\ submitted[n] \in 1..Len(requests) /\ submitted[n] # i
                      /\ requests[submitted[n]].stage = "persist"
                      /\ requests'[submitted[n]] = requests[submitted[n]]
                      /\ requests[submitted[n]].msgId < lastMsgId + 1
      BY Zenon
  <2>1. submitted[n] \in 1..Len(requests) /\ requests[submitted[n]].stage = "persist"
    BY Zenon DEF QueueInv
  <2>2. submitted[n] # i
    BY <2>1, Zenon
  <2>3. requests[submitted[n]].msgId <= lastMsgId
    BY <2>1, Zenon DEF OrderInv
  <2>4. requests[submitted[n]].msgId \in Nat
    BY <1>2, <2>1, Zenon
  <2>5. requests[submitted[n]].msgId < lastMsgId + 1
    BY <1>2, <2>3, <2>4, AtMost, Zenon
  <2>6. requests'[submitted[n]] = requests[submitted[n]]
    BY <2>1, <2>2, Zenon
  <2> QED
    BY <2>1, <2>2, <2>5, <2>6, Zenon
<1>4. \A n \in 1..Len(log) : /\ log[n] \in 1..Len(requests)
                             /\ requests'[log[n]].stage \in {"written", "done"}
                             /\ requests'[log[n]] = requests[log[n]]
                             /\ requests[log[n]].msgId < lastMsgId + 1
  <2> SUFFICES ASSUME NEW n \in 1..Len(log)
               PROVE  /\ log[n] \in 1..Len(requests)
                      /\ requests'[log[n]].stage \in {"written", "done"}
                      /\ requests'[log[n]] = requests[log[n]]
                      /\ requests[log[n]].msgId < lastMsgId + 1
      BY Zenon
  <2>1. log[n] \in 1..Len(requests) /\ requests[log[n]].stage \in {"written", "done"}
    BY Zenon DEF QueueInv
  <2>2. log[n] # i
    BY <2>1, Zenon
  <2>3. requests'[log[n]] = requests[log[n]]
    BY <2>1, <2>2, Zenon
  <2>4. requests[log[n]].msgId <= lastMsgId
    BY <2>1, Zenon DEF OrderInv
  <2>5. requests[log[n]].msgId < lastMsgId + 1
    BY <1>2, <2>1, <2>4, SMTT(30)
  <2> QED
    BY <2>1, <2>3, <2>5, Zenon
<1>5. \A n \in 1..(L + 1) : n \in 1..L \/ n = L + 1
  BY <1>1, OneMore, Zenon
<1>6. QueueInv'
  <2>0. 1..Len(requests) \subseteq 1..Len(requests')
    BY <1>2, Wider, Zenon
  <2>1. \A n \in 1..(L + 1) :
          submitted'[n] \in 1..Len(requests') /\ requests'[submitted'[n]].stage = "persist"
    <3> SUFFICES ASSUME NEW n \in 1..(L + 1)
                 PROVE  /\ submitted'[n] \in 1..Len(requests')
                        /\ requests'[submitted'[n]].stage = "persist"
        BY Zenon
    <3>1. CASE n \in 1..L
      <4>1. submitted'[n] = submitted[n]
        BY <1>1, <3>1, Zenon
      <4>2. /\ submitted[n] \in 1..Len(requests) /\ requests[submitted[n]].stage = "persist"
            /\ requests'[submitted[n]] = requests[submitted[n]]
        BY <1>3, <3>1, Zenon
      <4> QED
        BY <2>0, <4>1, <4>2, Zenon
    <3>2. CASE n = L + 1
      BY <1>1, <3>2, Zenon
    <3> QED
      BY <1>5, <3>1, <3>2, Zenon
  <2>2. \A n \in 1..Len(posted') : posted'[n] \in 1..Len(requests')
    BY <2>0, Zenon
  <2>3. \A n \in 1..Len(log) :
          log[n] \in 1..Len(requests') /\ requests'[log[n]].stage \in {"written", "done"}
    BY <1>4, <2>0, Zenon
  <2>4. log' \in Seq(Nat)
    BY Zenon DEF QueueInv
  <2>5. /\ submitted' \in Seq(Nat)
        /\ \A n \in 1..Len(submitted') :
             submitted'[n] \in 1..Len(requests') /\ requests'[submitted'[n]].stage = "persist"
        /\ \A n \in 1..Len(log') :
             log'[n] \in 1..Len(requests') /\ requests'[log'[n]].stage \in {"written", "done"}
    BY <1>1, <2>1, <2>3, Zenon
  <2> QED
    BY <2>2, <2>4, <2>5, Zenon DEF QueueInv
<1>7. OrderInv'
  <2>1. \A j \in 1..Len(requests') : requests'[j].msgId <= lastMsgId'
    <3> SUFFICES ASSUME NEW j \in 1..Len(requests') PROVE requests'[j].msgId <= lastMsgId'
        BY Zenon
    <3>1. CASE j = i
      BY <1>2, <3>1, SMTT(30)
    <3>2. CASE j # i
      <4>1. j \in 1..Len(requests) /\ requests'[j] = requests[j]
        BY <3>2, Zenon
      <4>2. requests[j].msgId <= lastMsgId
        BY <4>1, Zenon DEF OrderInv
      <4> QED
        BY <1>2, <4>1, <4>2, SMTT(30)
    <3> QED
      BY <3>1, <3>2, Zenon
  <2>2. \A m, n \in 1..(L + 1) :
          m < n => requests'[submitted'[m]].msgId < requests'[submitted'[n]].msgId
    <3> SUFFICES ASSUME NEW m \in 1..(L + 1), NEW n \in 1..(L + 1), m < n
                 PROVE  requests'[submitted'[m]].msgId < requests'[submitted'[n]].msgId
        BY Zenon
    <3>1. m \in 1..L
      BY <1>1, SMTT(30)
    <3>2. requests'[submitted'[m]] = requests[submitted[m]]
      BY <1>1, <1>3, <3>1, Zenon
    <3>3. CASE n \in 1..L
      <4>1. requests'[submitted'[n]] = requests[submitted[n]]
        BY <1>1, <1>3, <3>3, Zenon
      <4>2. requests[submitted[m]].msgId < requests[submitted[n]].msgId
        BY <3>1, <3>3, Zenon DEF OrderInv
      <4> QED
        BY <3>2, <4>1, <4>2, Zenon
    <3>4. CASE n = L + 1
      <4>1. requests'[submitted'[n]].msgId = lastMsgId + 1
        BY <1>1, <3>4, Zenon
      <4>2. requests[submitted[m]].msgId < lastMsgId + 1
        BY <1>3, <3>1, Zenon
      <4> QED
        BY <3>2, <4>1, <4>2, Zenon
    <3> QED
      BY <1>5, <3>3, <3>4, Zenon
  <2>3. \A m \in 1..Len(log), n \in 1..(L + 1) :
          OrderingKey(requests'[log[m]]) = OrderingKey(requests'[submitted'[n]])
          => requests'[log[m]].msgId < requests'[submitted'[n]].msgId
    <3> SUFFICES ASSUME NEW m \in 1..Len(log), NEW n \in 1..(L + 1),
                        OrderingKey(requests'[log[m]]) = OrderingKey(requests'[submitted'[n]])
                 PROVE  requests'[log[m]].msgId < requests'[submitted'[n]].msgId
        BY Zenon
    <3>1. CASE n \in 1..L
      <4>1. /\ requests'[submitted'[n]] = requests[submitted[n]]
            /\ requests'[log[m]] = requests[log[m]]
        BY <1>1, <1>3, <1>4, <3>1, SMTT(30)
      <4>2. OrderingKey(requests[log[m]]) = OrderingKey(requests[submitted[n]])
        BY <4>1, Zenon
      <4>3. requests[log[m]].msgId < requests[submitted[n]].msgId
        BY <3>1, <4>2, Zenon DEF OrderInv
      <4> QED
        BY <4>1, <4>3, Zenon
    <3>2. CASE n = L + 1
      BY <1>1, <1>4, <3>2, Zenon
    <3> QED
      BY <1>5, <3>1, <3>2, Zenon
  <2>4. \A m, n \in 1..Len(log) :
          m < n /\ OrderingKey(requests'[log[m]]) = OrderingKey(requests'[log[n]])
          => requests'[log[m]].msgId < requests'[log[n]].msgId
    <3> SUFFICES ASSUME NEW m \in 1..Len(log), NEW n \in 1..Len(log), m < n,
                        OrderingKey(requests'[log[m]]) = OrderingKey(requests'[log[n]])
                 PROVE  requests'[log[m]].msgId < requests'[log[n]].msgId
        BY Zenon
    <3>1. requests'[log[m]] = requests[log[m]] /\ requests'[log[n]] = requests[log[n]]
      BY <1>4, Zenon
    <3>2. OrderingKey(requests[log[m]]) = OrderingKey(requests[log[n]])
      BY <3>1, Zenon
    <3>3. requests[log[m]].msgId < requests[log[n]].msgId
      BY <3>2, Zenon DEF OrderInv
    <3> QED
      BY <3>1, <3>3, Zenon
  <2>5. /\ \A m, n \in 1..Len(submitted') :
             m < n => requests'[submitted'[m]].msgId < requests'[submitted'[n]].msgId
        /\ \A m \in 1..Len(log'), n \in 1..Len(submitted') :
             OrderingKey(requests'[log'[m]]) = OrderingKey(requests'[submitted'[n]])
             => requests'[log'[m]].msgId < requests'[submitted'[n]].msgId
    BY <1>1, <2>2, <2>3, Zenon
  <2>6. \A m, n \in 1..Len(log') :
          m < n /\ OrderingKey(requests'[log'[m]]) = OrderingKey(requests'[log'[n]])
          => requests'[log'[m]].msgId < requests'[log'[n]].msgId
    BY <2>4, Zenon
  <2>7. lastMsgId' \in Nat
    BY <1>2, SMTT(30)
  <2> QED
    BY <2>1, <2>5, <2>6, <2>7, Zenon DEF OrderInv
<1> QED
  BY <1>6, <1>7, Zenon

(* The message executor has written, or failed to.  The task it takes is    *)
(* the oldest of its ordering key, so the ids of what is behind it are      *)
(* larger.                                                                  *)
Written(r, d) == [r EXCEPT !.stage = "written", !.durable = d]

(* What the context keeps when its message is written.                      *)
LEMMA ContextIsWritten ==
  ASSUME NEW r \in Request, NEW d \in BOOLEAN
  PROVE  /\ Written(r, d) \in Request /\ SameContext(r, Written(r, d))
         /\ Written(r, d).stage = "written" /\ Written(r, d).msgId = r.msgId
<1> DEFINE t == Written(r, d)
<1> USE DEF Written
<1>1. t \in Request
  BY Zenon DEF Request, Stages, Kinds, Targets
<1>2. t.conn = r.conn /\ t.key = r.key /\ t.account = r.account
  BY Zenon DEF Request
<1>3. t.kind = r.kind /\ t.to = r.to
  BY Zenon DEF Request
<1>4. t.stage = "written" /\ t.msgId = r.msgId
  BY Zenon DEF Request
<1> QED
  BY <1>1, <1>2, <1>3, <1>4, Zenon DEF SameContext

(* What is left of a queue when a worker took its n-th task.               *)
Without(s, n) == [m \in 1..(Len(s) - 1) |-> s[IF m < n THEN m ELSE m + 1]]

(* Every task that is left was in the queue, at the place given.            *)
LEMMA TaskLeaves ==
  ASSUME NEW s \in Seq(Nat), NEW n \in 1..Len(s)
  PROVE  /\ Without(s, n) \in Seq(Nat) /\ Len(Without(s, n)) = Len(s) - 1
         /\ \A m \in 1..Len(Without(s, n)) : \E p \in 1..Len(s) :
              /\ p # n /\ Without(s, n)[m] = s[p] /\ p = IF m < n THEN m ELSE m + 1
<1> DEFINE t == Without(s, n)
<1>1. Len(s) \in Nat /\ \A m \in 1..Len(s) : s[m] \in Nat
  BY SeqElement, SeqLength, Zenon
<1>2. \A m \in 1..(Len(s) - 1) :
        (IF m < n THEN m ELSE m + 1) \in 1..Len(s) \ {n}
  BY <1>1, SMTT(30)
<1>3. t \in [1..(Len(s) - 1) -> Nat]
  BY <1>1, <1>2, Zenon DEF Without
<1>4. Len(s) - 1 \in Nat
  BY <1>1, SMTT(30)
<1>5. t \in Seq(Nat) /\ Len(t) = Len(s) - 1
  BY <1>3, <1>4, SMTT(30)
<1> QED
  BY <1>2, <1>5, Zenon DEF Without

(* Taking a task out keeps the order of the others.                         *)
LEMMA OrderStays ==
  ASSUME NEW k \in Nat, NEW m \in Nat, NEW n \in Nat, k < m
  PROVE  (IF k < n THEN k ELSE k + 1) < (IF m < n THEN m ELSE m + 1)
BY SMTT(30)

(* The message executor runs the oldest task of some ordering key.          *)
LEMMA PersistKeeps ==
  ASSUME IInv, NEW n \in DOMAIN submitted, Persist(n)
  PROVE  IInv'
<1> DEFINE i == submitted[n]
<1>1. /\ submitted \in Seq(Nat) /\ Len(submitted) \in Nat /\ n \in 1..Len(submitted)
      /\ posted \in Seq(Nat) /\ log \in Seq(Nat)
  BY SeqLength, Zenon DEF IInv, QueueInv
<1>2. /\ \A m \in 1..Len(submitted) : /\ submitted[m] \in 1..Len(requests)
                                      /\ requests[submitted[m]].stage = "persist"
                                      /\ requests[submitted[m]] \in Request
      /\ Len(requests) \in Nat /\ lastMsgId \in Nat
  BY TypedRequests, Zenon DEF IInv, QueueInv, OrderInv
<1>3. /\ \A m \in 1..(n - 1) :
           OrderingKey(requests[submitted[m]]) # OrderingKey(requests[i])
      /\ submitted' = Without(submitted, n) /\ posted' = Append(posted, i)
      /\ UNCHANGED <<conns, sessions, members, mode, lastMsgId, answers, misdirected>>
  BY Zenon DEF Persist, Without
<1>4. PICK d \in BOOLEAN : /\ requests' = [requests EXCEPT ![i] = Written(requests[i], d)]
                           /\ log' = IF d THEN Append(log, i) ELSE log
  BY Zenon DEF Persist, Written
<1>5. i \in 1..Len(requests) /\ requests[i] \in Request /\ i \in Nat
  BY <1>1, <1>2, SMTT(30)
<1>6. /\ UNCHANGED <<life, key, connections, session, accountConn, connAccount, missed, members>>
      /\ UNCHANGED <<lastMsgId, answers, misdirected>>
  BY <1>3, Zenon DEF conns, sessions
<1>7. ConnInv'
  BY <1>6, ConnFrame, Zenon DEF IInv
<1>8. /\ Written(requests[i], d) \in Request /\ SameContext(requests[i], Written(requests[i], d))
      /\ Written(requests[i], d).stage = "written"
      /\ Written(requests[i], d).msgId = requests[i].msgId
  BY <1>5, ContextIsWritten, Zenon
<1> HIDE DEF i
<1>9. /\ ContextInv' /\ Len(requests') = Len(requests)
      /\ requests'[i] = Written(requests[i], d)
      /\ \A j \in 1..Len(requests) : j # i => requests'[j] = requests[j]
      /\ \A j \in 1..Len(requests) : SameContext(requests[j], requests'[j])
  BY <1>4, <1>5, <1>6, <1>8, ContextChanges, Zenon DEF IInv
<1>10. \A j \in 1..Len(requests) : /\ requests'[j].msgId = requests[j].msgId
                                   /\ OrderingKey(requests'[j]) = OrderingKey(requests[j])
  BY <1>8, <1>9, SameKey, Zenon
(* The tasks left, and where they were.                                     *)
<1>11. /\ submitted' \in Seq(Nat) /\ Len(submitted') = Len(submitted) - 1
       /\ \A m \in 1..Len(submitted') : \E p \in 1..Len(submitted) :
            p # n /\ submitted'[m] = submitted[p] /\ p = IF m < n THEN m ELSE m + 1
  <2> DEFINE t == Without(submitted, n)
  <2>1. /\ t \in Seq(Nat) /\ Len(t) = Len(submitted) - 1
        /\ \A m \in 1..Len(t) : \E p \in 1..Len(submitted) :
             /\ p # n /\ t[m] = submitted[p] /\ p = IF m < n THEN m ELSE m + 1
    BY <1>1, TaskLeaves, Zenon
  <2>2. submitted' = t
    BY <1>3, Zenon
  <2> HIDE DEF t
  <2> QED
    BY <2>1, <2>2, Zenon
<1>12. \A p \in 1..Len(submitted) : p # n =>
         /\ submitted[p] # i
         /\ OrderingKey(requests[submitted[p]]) = OrderingKey(requests[i])
            => requests[i].msgId < requests[submitted[p]].msgId
  <2> SUFFICES ASSUME NEW p \in 1..Len(submitted), p # n
               PROVE  /\ submitted[p] # i
                      /\ OrderingKey(requests[submitted[p]]) = OrderingKey(requests[i])
                         => requests[i].msgId < requests[submitted[p]].msgId
      BY Zenon
  <2>1. requests[i].msgId \in Nat /\ requests[submitted[p]].msgId \in Nat
    BY <1>2, <1>5, Zenon DEF Request
  <2>2. CASE p < n
    <3>1. requests[submitted[p]].msgId < requests[i].msgId
      BY <1>1, <2>2, Zenon DEF IInv, OrderInv, i
    <3>2. OrderingKey(requests[submitted[p]]) # OrderingKey(requests[i])
      <4>1. p \in 1..(n - 1)
        BY <1>1, <2>2, SMTT(30)
      <4> QED
        BY <1>3, <4>1, Zenon
    <3> QED
      BY <2>1, <3>1, <3>2, Zenon
  <2>3. CASE n < p
    <3>1. requests[i].msgId < requests[submitted[p]].msgId
      BY <1>1, <2>3, Zenon DEF IInv, OrderInv, i
    <3> QED
      BY <2>1, <3>1, SMTT(30)
  <2> QED
    BY <1>1, <2>2, <2>3, SMTT(30)
(* What is written, and what was already.                                   *)
<1>13. /\ log' \in Seq(Nat) /\ Len(log) \in Nat
       /\ \A m \in 1..Len(log') :
            (m \in 1..Len(log) /\ log'[m] = log[m]) \/ (m = Len(log) + 1 /\ log'[m] = i)
  <2>1. CASE d
    <3>1. log' = Append(log, i)
      BY <1>4, <2>1, Zenon
    <3>2. /\ log' \in Seq(Nat) /\ Len(log) \in Nat /\ Len(log') = Len(log) + 1
          /\ \A m \in 1..Len(log) : log'[m] = log[m]
          /\ log'[Len(log) + 1] = i
      BY <1>1, <1>5, <3>1, SeqAppend, SeqLength, SMTT(30)
    <3> QED
      BY <3>2, OneMore, Zenon
  <2>2. CASE ~d
    <3>1. log' = log
      BY <1>4, <2>2, Zenon
    <3> QED
      BY <1>1, <3>1, SeqLength, Zenon
  <2> QED
    BY <2>1, <2>2, Zenon
<1>14. QueueInv'
  <2>1. \A m \in 1..Len(submitted') :
          submitted'[m] \in 1..Len(requests') /\ requests'[submitted'[m]].stage = "persist"
    <3> SUFFICES ASSUME NEW m \in 1..Len(submitted')
                 PROVE  /\ submitted'[m] \in 1..Len(requests')
                        /\ requests'[submitted'[m]].stage = "persist"
        BY Zenon
    <3>1. PICK p \in 1..Len(submitted) : p # n /\ submitted'[m] = submitted[p]
      BY <1>11, Zenon
    <3>2. submitted[p] # i /\ submitted[p] \in 1..Len(requests)
          /\ requests[submitted[p]].stage = "persist"
      BY <1>2, <1>12, <3>1, Zenon
    <3> QED
      BY <1>9, <3>1, <3>2, Zenon
  <2>2. posted' \in Seq(Nat) /\ \A m \in 1..Len(posted') : posted'[m] \in 1..Len(requests')
    <3>1. \A m \in 1..Len(posted) : posted[m] \in 1..Len(requests)
      BY Zenon DEF IInv, QueueInv
    <3>2. /\ posted' \in Seq(Nat) /\ Len(posted') = Len(posted) + 1 /\ Len(posted) \in Nat
          /\ \A m \in 1..Len(posted) : posted'[m] = posted[m]
          /\ posted'[Len(posted) + 1] = i
      BY <1>1, <1>3, <1>5, SeqAppend, SeqLength, SMTT(30)
    <3> QED
      BY <1>5, <1>9, <3>1, <3>2, OneMore, Zenon
  <2>3. \A m \in 1..Len(log') :
          log'[m] \in 1..Len(requests') /\ requests'[log'[m]].stage \in {"written", "done"}
    <3> SUFFICES ASSUME NEW m \in 1..Len(log')
                 PROVE  /\ log'[m] \in 1..Len(requests')
                        /\ requests'[log'[m]].stage \in {"written", "done"}
        BY Zenon
    <3>1. CASE log'[m] = i
      BY <1>5, <1>8, <1>9, <3>1, Zenon
    <3>2. CASE log'[m] # i
      <4>1. /\ m \in 1..Len(log) /\ log'[m] = log[m]
        BY <1>13, <3>2, Zenon
      <4>2. log[m] \in 1..Len(requests) /\ requests[log[m]].stage \in {"written", "done"}
        BY <4>1, Zenon DEF IInv, QueueInv
      <4> QED
        BY <1>9, <3>2, <4>1, <4>2, Zenon
    <3> QED
      BY <3>1, <3>2, Zenon
  <2> QED
    BY <1>11, <1>13, <2>1, <2>2, <2>3, Zenon DEF QueueInv
<1>15. OrderInv'
  <2>1. lastMsgId' \in Nat /\ \A j \in 1..Len(requests') : requests'[j].msgId <= lastMsgId'
    BY <1>6, <1>9, <1>10, Zenon DEF IInv, OrderInv
  <2>2. \A k, m \in 1..Len(submitted') :
          k < m => requests'[submitted'[k]].msgId < requests'[submitted'[m]].msgId
    <3> SUFFICES ASSUME NEW k \in 1..Len(submitted'), NEW m \in 1..Len(submitted'), k < m
                 PROVE  requests'[submitted'[k]].msgId < requests'[submitted'[m]].msgId
        BY Zenon
    <3>1. PICK p \in 1..Len(submitted) :
            submitted'[k] = submitted[p] /\ p = IF k < n THEN k ELSE k + 1
      BY <1>11, Zenon
    <3>2. PICK q \in 1..Len(submitted) :
            submitted'[m] = submitted[q] /\ q = IF m < n THEN m ELSE m + 1
      BY <1>11, Zenon
    <3>3. p < q
      <4>1. k \in Nat /\ m \in Nat /\ n \in Nat
        BY <1>1, <1>11, SMTT(30)
      <4> QED
        BY <3>1, <3>2, <4>1, OrderStays, Zenon
    <3>4. requests[submitted[p]].msgId < requests[submitted[q]].msgId
      BY <3>3, Zenon DEF IInv, OrderInv
    <3> QED
      BY <1>2, <1>10, <3>1, <3>2, <3>4, Zenon
  <2>3. \A k \in 1..Len(log'), m \in 1..Len(submitted') :
          OrderingKey(requests'[log'[k]]) = OrderingKey(requests'[submitted'[m]])
          => requests'[log'[k]].msgId < requests'[submitted'[m]].msgId
    <3> SUFFICES ASSUME NEW k \in 1..Len(log'), NEW m \in 1..Len(submitted'),
                        OrderingKey(requests'[log'[k]]) = OrderingKey(requests'[submitted'[m]])
                 PROVE  requests'[log'[k]].msgId < requests'[submitted'[m]].msgId
        BY Zenon
    <3>1. PICK p \in 1..Len(submitted) : p # n /\ submitted'[m] = submitted[p]
      BY <1>11, Zenon
    <3>2. /\ requests'[submitted'[m]].msgId = requests[submitted[p]].msgId
          /\ OrderingKey(requests'[submitted'[m]]) = OrderingKey(requests[submitted[p]])
      BY <1>2, <1>10, <3>1, Zenon
    <3>3. CASE log'[k] = i
      <4>1. /\ requests'[log'[k]].msgId = requests[i].msgId
            /\ OrderingKey(requests'[log'[k]]) = OrderingKey(requests[i])
        BY <1>5, <1>10, <3>3, Zenon
      <4>2. requests[i].msgId < requests[submitted[p]].msgId
        BY <1>12, <3>1, <3>2, <4>1, Zenon
      <4> QED
        BY <3>2, <4>1, <4>2, Zenon
    <3>4. CASE k \in 1..Len(log) /\ log'[k] = log[k]
      <4>1. log[k] \in 1..Len(requests)
        BY <3>4, Zenon DEF IInv, QueueInv
      <4>2. /\ requests'[log'[k]].msgId = requests[log[k]].msgId
            /\ OrderingKey(requests'[log'[k]]) = OrderingKey(requests[log[k]])
        BY <1>10, <3>4, <4>1, Zenon
      <4>3. OrderingKey(requests[log[k]]) = OrderingKey(requests[submitted[p]])
        BY <3>2, <4>2, Zenon
      <4>4. requests[log[k]].msgId < requests[submitted[p]].msgId
        BY <3>4, <4>3, Zenon DEF IInv, OrderInv
      <4> QED
        BY <3>2, <4>2, <4>4, Zenon
    <3> QED
      BY <1>13, <3>3, <3>4, Zenon
  <2>4. \A k, m \in 1..Len(log') :
          k < m /\ OrderingKey(requests'[log'[k]]) = OrderingKey(requests'[log'[m]])
          => requests'[log'[k]].msgId < requests'[log'[m]].msgId
    <3> SUFFICES ASSUME NEW k \in 1..Len(log'), NEW m \in 1..Len(log'), k < m,
                        OrderingKey(requests'[log'[k]]) = OrderingKey(requests'[log'[m]])
                 PROVE  requests'[log'[k]].msgId < requests'[log'[m]].msgId
        BY Zenon
    <3>1. k \in 1..Len(log) /\ log'[k] = log[k]
      BY <1>13, SMTT(30)
    <3>2. log[k] \in 1..Len(requests)
      BY <3>1, Zenon DEF IInv, QueueInv
    <3>3. /\ requests'[log'[k]].msgId = requests[log[k]].msgId
          /\ OrderingKey(requests'[log'[k]]) = OrderingKey(requests[log[k]])
      BY <1>10, <3>1, <3>2, Zenon
    <3>4. CASE log'[m] = i
      <4>1. /\ requests'[log'[m]].msgId = requests[i].msgId
            /\ OrderingKey(requests'[log'[m]]) = OrderingKey(requests[i])
        BY <1>5, <1>10, <3>4, Zenon
      <4>2. OrderingKey(requests[log[k]]) = OrderingKey(requests[submitted[n]])
        BY <3>3, <4>1, Zenon DEF i
      <4>3. requests[log[k]].msgId < requests[submitted[n]].msgId
        BY <1>1, <3>1, <4>2, Zenon DEF IInv, OrderInv
      <4> QED
        BY <3>3, <4>1, <4>3, Zenon DEF i
    <3>5. CASE m \in 1..Len(log) /\ log'[m] = log[m]
      <4>1. log[m] \in 1..Len(requests)
        BY <3>5, Zenon DEF IInv, QueueInv
      <4>2. /\ requests'[log'[m]].msgId = requests[log[m]].msgId
            /\ OrderingKey(requests'[log'[m]]) = OrderingKey(requests[log[m]])
        BY <1>10, <3>5, <4>1, Zenon
      <4>3. OrderingKey(requests[log[k]]) = OrderingKey(requests[log[m]])
        BY <3>3, <4>2, Zenon
      <4>4. requests[log[k]].msgId < requests[log[m]].msgId
        BY <3>1, <3>5, <4>3, Zenon DEF IInv, OrderInv
      <4> QED
        BY <3>3, <4>2, <4>4, Zenon
    <3> QED
      BY <1>13, <3>4, <3>5, Zenon
  <2> QED
    BY <2>1, <2>2, <2>3, <2>4, Zenon DEF OrderInv
<1>16. AnswerInv'
  BY <1>2, <1>6, <1>9, AnswerFrame, SMTT(30) DEF IInv
<1> QED
  BY <1>7, <1>9, <1>14, <1>15, <1>16, Zenon DEF IInv

-----------------------------------------------------------------------------
(* The requests.                                                            *)

(* A request that is taken ends, with an answer or without.                 *)
LEMMA FinishKeeps ==
  ASSUME IInv, NEW i \in 1..Len(requests), requests[i].stage \in {"limited", "written"},
         Finish(i), UNCHANGED <<life, key, submitted, log>>,
         lastMsgId' \in Nat, lastMsgId' >= lastMsgId,
         posted' \in Seq(Nat), \A n \in 1..Len(posted') : posted'[n] \in 1..Len(requests)
  PROVE  /\ ContextInv' /\ QueueInv' /\ OrderInv'
         /\ Len(requests') = Len(requests)
         /\ \A j \in 1..Len(requests) : SameContext(requests[j], requests'[j])
<1> DEFINE r == [requests[i] EXCEPT !.stage = "done"]
<1>1. requests[i] \in Request /\ Len(requests) \in Nat
  BY TypedRequests, Zenon DEF IInv
<1>2. /\ r \in Request /\ SameContext(requests[i], r) /\ r.stage = "done"
      /\ r.msgId = requests[i].msgId
  BY <1>1, Zenon DEF Request, Stages, Kinds, Targets, SameContext
<1>3. requests' = [requests EXCEPT ![i] = r]
  BY Zenon DEF Finish
<1> HIDE DEF r
<1>4. /\ ContextInv' /\ Len(requests') = Len(requests) /\ requests'[i] = r
      /\ \A j \in 1..Len(requests) : j # i => requests'[j] = requests[j]
      /\ \A j \in 1..Len(requests) : SameContext(requests[j], requests'[j])
  BY <1>2, <1>3, ContextChanges, Zenon DEF IInv
<1>5. QueueInv'
  BY <1>1, <1>2, <1>4, QueueFrame, SMTT(30) DEF IInv
<1>6. \A j \in 1..Len(requests') : requests'[j].msgId <= lastMsgId'
  <2>1. \A j \in 1..Len(requests) : requests[j].msgId \in Nat /\ requests[j].msgId <= lastMsgId
    BY TypedRequests, Zenon DEF IInv, OrderInv, Request
  <2>2. \A j \in 1..Len(requests) : requests'[j].msgId = requests[j].msgId
    BY <1>2, <1>4, Zenon
  <2>3. lastMsgId \in Nat
    BY Zenon DEF IInv, OrderInv
  <2> QED
    BY <1>4, <2>1, <2>2, <2>3, SMTT(30)
<1>7. OrderInv'
  <2>1. Len(requests') \in Nat /\ Len(requests') >= Len(requests)
    BY <1>1, <1>4, SMTT(30)
  <2>2. requests'[i].msgId = requests[i].msgId
    BY <1>2, <1>4, Zenon
  <2> QED
    BY <1>4, <1>6, <2>1, <2>2, OrderFrame, Zenon DEF IInv
<1> QED
  BY <1>4, <1>5, <1>7, Zenon

(* The tail of the two completions of the rate limit check.                 *)
LEMMA CompletionKeeps ==
  ASSUME IInv, NEW i \in 1..Len(requests), requests[i].stage = "limited",
         \/ DropRequest(i) \/ RefuseRequest(i)
         \/ ResolvePendingSender(requests[i]) /\ SubmitPersistence(i, requests[i]),
         UNCHANGED <<conns, sessions, members, mode, log, misdirected>>,
         posted' \in Seq(Nat), \A n \in 1..Len(posted') : posted'[n] \in 1..Len(requests)
  PROVE  IInv'
<1>1. ConnInv'
  BY ConnFrame, Zenon DEF IInv, conns, sessions
<1>2. /\ lastMsgId \in Nat /\ requests[i] \in Request /\ Len(requests) \in Nat
      /\ UNCHANGED <<life, key, log, misdirected>>
  BY TypedRequests, Zenon DEF IInv, OrderInv, conns
<1>3. CASE DropRequest(i)
  <2>1. Finish(i) /\ UNCHANGED <<submitted, lastMsgId, answers>>
    BY <1>3, Zenon DEF DropRequest
  <2>2. /\ ContextInv' /\ QueueInv' /\ OrderInv' /\ Len(requests') = Len(requests)
        /\ \A j \in 1..Len(requests) : SameContext(requests[j], requests'[j])
    BY <1>2, <2>1, FinishKeeps, SMTT(30)
  <2>3. AnswerInv'
    BY <1>2, <2>1, <2>2, AnswerFrame, SMTT(30) DEF IInv
  <2> QED
    BY <1>1, <2>2, <2>3, Zenon DEF IInv
<1>4. ASSUME ResolvePendingSender(requests[i]), Finish(i), Answer(i, requests[i]),
             UNCHANGED submitted, lastMsgId' \in Nat, lastMsgId' >= lastMsgId
      PROVE  IInv'
  <2>1. /\ ContextInv' /\ QueueInv' /\ OrderInv' /\ Len(requests') = Len(requests)
        /\ \A j \in 1..Len(requests) : SameContext(requests[j], requests'[j])
    BY <1>2, <1>4, FinishKeeps, Zenon
  <2>2. /\ connections[requests[i].key] = requests'[i].conn
        /\ session[requests[i].key] = requests'[i].account
    BY <1>4, <2>1, ResolveFinds, Zenon DEF IInv, SameContext
  <2>3. AnswerInv'
    BY <1>2, <1>4, <2>1, <2>2, AnswerArrives, SMTT(30) DEF IInv
  <2> QED
    BY <1>1, <2>1, <2>3, Zenon DEF IInv
<1>5. CASE RefuseRequest(i)
  BY <1>2, <1>4, <1>5, SMTT(30) DEF RefuseRequest
<1>6. CASE ResolvePendingSender(requests[i]) /\ SubmitPersistence(i, requests[i])
  <2> DEFINE r == [requests[i] EXCEPT !.stage = "persist", !.msgId = lastMsgId + 1]
  <2>1. CASE /\ requests' = [requests EXCEPT ![i] = r]
             /\ submitted' = Append(submitted, i) /\ UNCHANGED answers
    <3>1. /\ r \in Request /\ SameContext(requests[i], r) /\ r.stage = "persist"
          /\ r.msgId = lastMsgId + 1
      <4>1. r = Submitted(requests[i], lastMsgId + 1)
        BY Zenon DEF Submitted
      <4>2. lastMsgId + 1 \in Nat
        BY <1>2, SMTT(30)
      <4> HIDE DEF r
      <4> QED
        BY <1>2, <4>1, <4>2, ContextGetsId, Zenon
    <3> HIDE DEF r
    <3>2. /\ ContextInv' /\ Len(requests') = Len(requests) /\ requests'[i] = r
          /\ \A j \in 1..Len(requests) : j # i => requests'[j] = requests[j]
          /\ \A j \in 1..Len(requests) : SameContext(requests[j], requests'[j])
      BY <1>2, <2>1, <3>1, ContextChanges, Zenon DEF IInv
    <3>3. lastMsgId' = lastMsgId + 1
      BY <1>6, Zenon DEF SubmitPersistence
    <3>4. QueueInv' /\ OrderInv'
      <4>1. /\ Len(requests') \in Nat /\ Len(requests') >= Len(requests)
            /\ i \in Nat /\ i \in 1..Len(requests')
        BY <1>2, <3>2, SMTT(30)
      <4>2. \A j \in 1..Len(requests') : j = i \/ j \in 1..Len(requests)
        BY <3>2, Zenon
      <4>3. requests'[i].stage = "persist" /\ requests'[i].msgId = lastMsgId + 1
        BY <3>1, <3>2, Zenon
      <4> QED
        BY <1>2, <2>1, <3>2, <3>3, <4>1, <4>2, <4>3, ExecutorTakes, Zenon DEF IInv
    <3>5. AnswerInv'
      BY <1>2, <2>1, <3>2, AnswerFrame, SMTT(30) DEF IInv
    <3> QED
      BY <1>1, <3>2, <3>4, <3>5, Zenon DEF IInv
  <2>2. CASE /\ requests' = [requests EXCEPT ![i] = [requests[i] EXCEPT !.stage = "done"]]
             /\ Answer(i, requests[i]) /\ UNCHANGED submitted
    <3>1. Finish(i)
      BY <2>2, Zenon DEF Finish
    <3>2. lastMsgId' \in Nat /\ lastMsgId' >= lastMsgId
      BY <1>2, <1>6, SMTT(30) DEF SubmitPersistence
    <3> QED
      BY <1>4, <1>6, <2>2, <3>1, <3>2, Zenon
  <2> QED
    BY <1>6, <2>1, <2>2, Zenon DEF SubmitPersistence
<1> QED
  BY <1>3, <1>5, <1>6, Zenon

(* The redis executor has checked.                                          *)
LEMMA CheckKeeps ==
  ASSUME IInv, NEW i, CheckRateLimit(i)
  PROVE  IInv'
<1> DEFINE r == [requests[i] EXCEPT !.stage = "limited"]
<1>1. /\ i \in 1..Len(requests) /\ requests[i] \in Request /\ requests[i].stage = "limit"
      /\ Len(requests) \in Nat
  BY TypedRequests, Zenon DEF IInv, CheckRateLimit
<1>2. /\ requests' = [requests EXCEPT ![i] = r] /\ posted' = Append(posted, i)
      /\ UNCHANGED <<conns, sessions, members, mode, submitted, lastMsgId, history>>
  BY Zenon DEF CheckRateLimit
<1>3. r \in Request /\ SameContext(requests[i], r) /\ r.msgId = requests[i].msgId
  BY <1>1, Zenon DEF Request, Stages, Kinds, Targets, SameContext
<1> HIDE DEF r
<1>4. /\ UNCHANGED <<life, key, connections, session, accountConn, connAccount, missed, members>>
      /\ UNCHANGED <<submitted, lastMsgId, log, answers, misdirected>>
  BY <1>2, Zenon DEF conns, sessions, history
<1>5. ConnInv'
  BY <1>4, ConnFrame, Zenon DEF IInv
<1>6. /\ ContextInv' /\ Len(requests') = Len(requests) /\ requests'[i] = r
      /\ \A j \in 1..Len(requests) : j # i => requests'[j] = requests[j]
      /\ \A j \in 1..Len(requests) : SameContext(requests[j], requests'[j])
  BY <1>1, <1>2, <1>3, <1>4, ContextChanges, Zenon DEF IInv
<1>7. posted' \in Seq(Nat) /\ \A n \in 1..Len(posted') : posted'[n] \in 1..Len(requests)
  <2>1. posted \in Seq(Nat) /\ \A n \in 1..Len(posted) : posted[n] \in 1..Len(requests)
    BY Zenon DEF IInv, QueueInv
  <2>2. /\ posted' \in Seq(Nat) /\ Len(posted') = Len(posted) + 1 /\ Len(posted) \in Nat
        /\ \A n \in 1..Len(posted) : posted'[n] = posted[n]
        /\ posted'[Len(posted) + 1] = i
    BY <1>1, <1>2, <2>1, SeqAppend, SeqLength, SMTT(30)
  <2> QED
    BY <1>1, <2>1, <2>2, OneMore, Zenon
<1>8. QueueInv'
  <2>1. Len(requests') \in Nat /\ Len(requests') >= Len(requests)
    BY <1>1, <1>6, SMTT(30)
  <2>2. \A n \in 1..Len(posted') : posted'[n] \in 1..Len(requests')
    BY <1>6, <1>7, Zenon
  <2>3. requests[i].stage \in {"limit", "limited", "read", "acking"}
    BY <1>1, Zenon
  <2> QED
    BY <1>4, <1>6, <1>7, <2>1, <2>2, <2>3, QueueFrame, Zenon DEF IInv
<1>9. \A j \in 1..Len(requests') : requests'[j].msgId <= lastMsgId'
  BY <1>3, <1>4, <1>6, Zenon DEF IInv, OrderInv
<1>10. OrderInv'
  <2>1. lastMsgId' \in Nat
    BY <1>4, Zenon DEF IInv, OrderInv
  <2> QED
    BY <1>1, <1>3, <1>4, <1>6, <1>9, <2>1, OrderFrame, SMTT(30) DEF IInv
<1>11. AnswerInv'
  BY <1>1, <1>4, <1>6, AnswerFrame, SMTT(30) DEF IInv
<1> QED
  BY <1>5, <1>6, <1>8, <1>10, <1>11, Zenon DEF IInv

(* A request arrives.                                                       *)
LEMMA SubmitKeeps ==
  ASSUME IInv, NEW c \in Conns, NEW kind \in {"group", "dm"}, NEW to \in Accounts \cup {None},
         life[c] = "open", session[key[c]] \in Accounts, kind = "dm" => to \in Accounts,
         SubmitRequest(Context(c, kind, to))
  PROVE  IInv'
<1> DEFINE r == Context(c, kind, to)
           i == Len(requests) + 1
<1>1. key[c] \in Keys /\ connections[key[c]] = c
  BY Zenon DEF IInv, ConnInv, Owners, Registered
<1>2. /\ r \in Request /\ r.conn = c /\ r.key = key[c] /\ r.account = session[key[c]]
      /\ r.kind = kind /\ r.to = to /\ r.msgId = 0
  BY <1>1, Zenon DEF Context, Request, Stages, Kinds, Targets
<1>3. /\ Len(requests) \in Nat /\ lastMsgId \in Nat
      /\ \A j \in 1..Len(requests) : requests[j].msgId \in Nat /\ requests[j].msgId <= lastMsgId
  BY TypedRequests, Zenon DEF IInv, OrderInv, Request
<1>4. /\ UNCHANGED <<life, key, connections, session, accountConn, connAccount, missed, members>>
      /\ UNCHANGED <<posted, log, misdirected>>
      /\ SubmitRequest(r)
  BY Zenon DEF SubmitRequest, conns, sessions
<1> HIDE DEF r
<1>5. ConnInv'
  BY <1>4, ConnFrame, Zenon DEF IInv
<1>6. ASSUME NEW s \in Request, SameContext(r, s), requests' = Append(requests, s)
      PROVE  /\ ContextInv' /\ Len(requests') = i /\ requests'[i] = s
             /\ \A j \in 1..Len(requests) : requests'[j] = requests[j]
             /\ \A j \in 1..Len(requests) : SameContext(requests[j], requests'[j])
  <2>1. life[s.conn] # "new" /\ s.key = key[s.conn] /\ (s.kind = "dm" => s.to \in Accounts)
    BY <1>2, <1>6, Zenon DEF SameContext
  <2> QED
    BY <1>4, <1>6, <2>1, ContextArrives, Zenon DEF IInv
<1>7. /\ posted' \in Seq(Nat) /\ \A n \in 1..Len(posted') : posted'[n] \in 1..Len(requests)
      /\ 1..Len(requests) \subseteq 1..i
      /\ \A n \in 1..i : n \in 1..Len(requests) \/ n = i
  BY <1>3, <1>4, OneMore, Wider, SMTT(30) DEF IInv, QueueInv
<1>8. CASE \E s \in Stages : requests' = Append(requests, [r EXCEPT !.stage = s])
           /\ UNCHANGED submitted
           /\ lastMsgId' \in Nat /\ lastMsgId' >= lastMsgId
           /\ (UNCHANGED answers \/ Answer(i, r))
  <2>1. PICK t \in Stages : requests' = Append(requests, [r EXCEPT !.stage = t])
    BY <1>8, Zenon
  <2> DEFINE s == [r EXCEPT !.stage = t]
  <2>2. s \in Request /\ SameContext(r, s) /\ s.msgId = 0
    BY <1>2, Zenon DEF Request, SameContext
  <2>3. /\ requests' = Append(requests, s) /\ UNCHANGED submitted
        /\ lastMsgId' \in Nat /\ lastMsgId' >= lastMsgId
        /\ UNCHANGED answers \/ Answer(i, r)
    BY <1>8, <2>1, Zenon
  <2> HIDE DEF s
  <2>4. /\ ContextInv' /\ Len(requests') = i /\ requests'[i] = s
        /\ \A j \in 1..Len(requests) : requests'[j] = requests[j]
        /\ \A j \in 1..Len(requests) : SameContext(requests[j], requests'[j])
    BY <1>6, <2>2, <2>3, Zenon
  <2>5. i \in Nat /\ i \in 1..i /\ i >= Len(requests) /\ i \notin 1..Len(requests)
    BY <1>3, SMTT(30)
  <2>6. QueueInv'
    BY <1>4, <1>7, <2>3, <2>4, <2>5, QueueFrame, Zenon DEF IInv
  <2>7. \A j \in 1..Len(requests') : requests'[j].msgId <= lastMsgId'
    <3> SUFFICES ASSUME NEW j \in 1..i PROVE requests'[j].msgId <= lastMsgId'
        BY <2>4, Zenon
    <3>1. CASE j \in 1..Len(requests)
      <4>1. requests'[j] = requests[j] /\ requests[j].msgId \in Nat
            /\ requests[j].msgId <= lastMsgId
        BY <1>3, <2>4, <3>1, Zenon
      <4> QED
        BY <1>3, <2>3, <4>1, SMTT(30)
    <3>2. CASE j = i
      BY <2>2, <2>3, <2>4, <3>2, SMTT(30)
    <3> QED
      BY <1>7, <3>1, <3>2, Zenon
  <2>8. OrderInv'
    BY <1>4, <2>3, <2>4, <2>5, <2>7, OrderFrame, Zenon DEF IInv
  <2>9. AnswerInv'
    <3>1. CASE UNCHANGED answers
      BY <1>4, <2>4, <2>5, <3>1, AnswerFrame, Zenon DEF IInv
    <3>2. CASE Answer(i, r)
      <4>1. connections[r.key] = requests'[i].conn /\ session[r.key] = requests'[i].account
        BY <1>1, <1>2, <2>2, <2>4, Zenon DEF SameContext
      <4> QED
        BY <1>4, <2>4, <2>5, <3>2, <4>1, AnswerArrives, Zenon DEF IInv
    <3> QED
      BY <2>3, <3>1, <3>2, Zenon
  <2> QED
    BY <1>5, <2>4, <2>6, <2>8, <2>9, Zenon DEF IInv
<1>9. CASE /\ requests' = Append(requests, [r EXCEPT !.stage = "persist", !.msgId = lastMsgId + 1])
           /\ submitted' = Append(submitted, i) /\ lastMsgId' = lastMsgId + 1
           /\ UNCHANGED answers
  <2> DEFINE s == [r EXCEPT !.stage = "persist", !.msgId = lastMsgId + 1]
  <2>1. s \in Request /\ SameContext(r, s) /\ s.stage = "persist" /\ s.msgId = lastMsgId + 1
    <3>1. s = Submitted(r, lastMsgId + 1)
      BY Zenon DEF Submitted
    <3>2. lastMsgId + 1 \in Nat
      BY <1>3, SMTT(30)
    <3> HIDE DEF s
    <3> QED
      BY <1>2, <3>1, <3>2, ContextGetsId, Zenon
  <2>2. requests' = Append(requests, s)
    BY <1>9, Zenon
  <2> HIDE DEF s
  <2>3. /\ ContextInv' /\ Len(requests') = i /\ requests'[i] = s
        /\ \A j \in 1..Len(requests) : requests'[j] = requests[j]
        /\ \A j \in 1..Len(requests) : SameContext(requests[j], requests'[j])
    BY <1>6, <2>1, <2>2, Zenon
  <2>4. i \in Nat /\ i \in 1..i /\ i >= Len(requests) /\ i \notin 1..Len(requests)
    BY <1>3, SMTT(30)
  <2>5. QueueInv' /\ OrderInv'
    BY <1>4, <1>7, <1>9, <2>1, <2>3, <2>4, ExecutorTakes, Zenon DEF IInv
  <2>6. AnswerInv'
    BY <1>4, <1>9, <2>3, <2>4, AnswerFrame, Zenon DEF IInv
  <2> QED
    BY <1>5, <2>3, <2>5, <2>6, Zenon DEF IInv
<1>10. \/ /\ requests' = Append(requests, [r EXCEPT !.stage = "limit"])
          /\ UNCHANGED <<submitted, lastMsgId, answers>>
       \/ /\ requests' = Append(requests, [r EXCEPT !.stage = "persist", !.msgId = lastMsgId + 1])
          /\ submitted' = Append(submitted, i) /\ lastMsgId' = lastMsgId + 1
          /\ UNCHANGED answers
       \/ /\ requests' = Append(requests, [r EXCEPT !.stage = "done"])
          /\ lastMsgId' = IF rateLimited THEN lastMsgId ELSE lastMsgId + 1
          /\ Answer(i, r) /\ UNCHANGED submitted
  BY <1>4, Zenon DEF SubmitRequest
<1> QED
  BY <1>3, <1>8, <1>9, <1>10, SMTT(30) DEF Stages

(* The result of a write comes back: the maps give the sessions of the      *)
(* receivers.                                                               *)
LEMMA MapsGiveAudience ==
  ASSUME ConnInv, NEW who \in SUBSET Accounts
  PROVE  UNION {accountConn[a] : a \in who} = WithSession(who)
<1>1. \A a \in Accounts : accountConn[a] = {k \in Keys : session[k] = a}
  <2>1. \A k \in Keys, a \in Accounts : connAccount[k] = a <=> session[k] = a
    BY PipelineAssumption, Zenon DEF ConnInv, MapsAgree
  <2> QED
    BY <2>1, SMTT(30) DEF ConnInv, MapsAgree
<1> QED
  BY <1>1, SMTT(30) DEF WithSession

(* A push whose targets are its audience and missed keys ends the request.  *)
LEMMA PushKeeps ==
  ASSUME IInv, NEW i \in 1..Len(requests), requests[i].stage = "written",
         NEW targets, PushAndAnswer(i, requests[i], targets, targets \ missed),
         posted' \in Seq(Nat), \A n \in 1..Len(posted') : posted'[n] \in 1..Len(requests)
  PROVE  IInv'
<1>1. /\ Finish(i)
      /\ IF ResolvePendingSender(requests[i]) THEN Answer(i, requests[i]) ELSE UNCHANGED answers
      /\ UNCHANGED <<life, key, connections, session, accountConn, connAccount, missed, members>>
      /\ UNCHANGED <<submitted, lastMsgId, log>>
  BY Zenon DEF PushAndAnswer, conns, sessions
<1>2. misdirected' = misdirected
  BY Zenon DEF PushAndAnswer
<1>3. ConnInv'
  BY <1>1, ConnFrame, Zenon DEF IInv
<1>4. lastMsgId \in Nat /\ Len(requests) \in Nat
  BY TypedRequests, Zenon DEF IInv, OrderInv
<1>5. /\ ContextInv' /\ QueueInv' /\ OrderInv' /\ Len(requests') = Len(requests)
      /\ \A j \in 1..Len(requests) : SameContext(requests[j], requests'[j])
  BY <1>1, <1>4, FinishKeeps, SMTT(30)
<1>6. AnswerInv'
  <2>1. CASE ResolvePendingSender(requests[i])
    <3>1. /\ connections[requests[i].key] = requests'[i].conn
          /\ session[requests[i].key] = requests'[i].account
      BY <1>5, <2>1, ResolveFinds, Zenon DEF IInv, SameContext
    <3> QED
      BY <1>1, <1>2, <1>4, <1>5, <2>1, <3>1, AnswerArrives, SMTT(30) DEF IInv
  <2>2. CASE ~ResolvePendingSender(requests[i])
    BY <1>1, <1>2, <1>4, <1>5, <2>2, AnswerFrame, SMTT(30) DEF IInv
  <2> QED
    BY <2>1, <2>2, Zenon
<1> QED
  BY <1>3, <1>5, <1>6, Zenon DEF IInv

(* The base loop runs a completion.                                         *)
LEMMA CompleteKeeps ==
  ASSUME IInv, Completion
  PROVE  IInv'
<1> DEFINE i == Head(posted)
<1>1. ASSUME NEW stage, NEW kind, Takes(stage, kind)
      PROVE  /\ i \in 1..Len(requests)
             /\ requests[i].stage = stage /\ requests[i].kind = kind
             /\ posted' \in Seq(Nat)
             /\ \A n \in 1..Len(posted') : posted'[n] \in 1..Len(requests)
  BY <1>1, TakesHead, Zenon DEF IInv
<1>2. CASE CompleteGroupRateLimit
  <2>1. Takes("limited", "group")
    BY <1>2, Zenon DEF CompleteGroupRateLimit
  <2>2. /\ \/ DropRequest(i) \/ RefuseRequest(i)
           \/ ResolvePendingSender(requests[i]) /\ SubmitPersistence(i, requests[i])
        /\ UNCHANGED <<conns, sessions, members, mode, log, misdirected>>
    BY <1>2, Zenon DEF CompleteGroupRateLimit
  <2> QED
    BY <1>1, <2>1, <2>2, CompletionKeeps, Zenon
<1>3. CASE CompleteDirectRateLimit
  <2>1. Takes("limited", "dm")
    BY <1>3, Zenon DEF CompleteDirectRateLimit
  <2>2. /\ \/ DropRequest(i) \/ RefuseRequest(i)
           \/ ResolvePendingSender(requests[i]) /\ SubmitPersistence(i, requests[i])
        /\ UNCHANGED <<conns, sessions, members, mode, log, misdirected>>
    BY <1>3, Zenon DEF CompleteDirectRateLimit
  <2> QED
    BY <1>1, <2>1, <2>2, CompletionKeeps, Zenon
<1>4. CASE CompleteGroupMessage
  <2>1. Takes("written", "group")
    BY <1>4, Zenon DEF CompleteGroupMessage
  <2>2. UNION {accountConn[a] : a \in members} = WithSession(members)
    BY MapsGiveAudience, Zenon DEF IInv, ConnInv, ConnTypes
  <2>3. PushAndAnswer(i, requests[i], CollectGroupTargets(requests[i]),
                      LoggedIn(members) \ {requests[i].key})
    BY <1>4, Zenon DEF CompleteGroupMessage
  <2>4. LoggedIn(members) \ {requests[i].key} = CollectGroupTargets(requests[i]) \ missed
    BY <2>2, Zenon DEF CollectGroupTargets, LoggedIn
  <2>5. PushAndAnswer(i, requests[i], CollectGroupTargets(requests[i]),
                      CollectGroupTargets(requests[i]) \ missed)
    BY <2>3, <2>4, Zenon
  <2> QED
    BY <1>1, <2>1, <2>5, PushKeeps, Zenon
<1>5. CASE CompleteDirectMessage
  <2>1. Takes("written", "dm")
    BY <1>5, Zenon DEF CompleteDirectMessage
  <2>2. requests[i].to \in Accounts
    BY <1>1, <2>1, Zenon DEF IInv, ContextInv
  <2>3. LoggedIn({requests[i].to}) = accountConn[requests[i].to] \ missed
    <3>1. UNION {accountConn[a] : a \in {requests[i].to}} = WithSession({requests[i].to})
      BY <2>2, MapsGiveAudience, Zenon DEF IInv
    <3> QED
      BY <3>1, Zenon DEF LoggedIn
  <2>4. PushAndAnswer(i, requests[i], accountConn[requests[i].to], LoggedIn({requests[i].to}))
    BY <1>5, Zenon DEF CompleteDirectMessage
  <2>5. PushAndAnswer(i, requests[i], accountConn[requests[i].to],
                      accountConn[requests[i].to] \ missed)
    BY <2>3, <2>4, Zenon
  <2> QED
    BY <1>1, <2>1, <2>5, PushKeeps, Zenon
<1> QED
  BY <1>2, <1>3, <1>4, <1>5, Zenon DEF Completion

-----------------------------------------------------------------------------
(* Steps that touch no request.                                             *)

(* Connections and sessions change.                                         *)
LEMMA ConnectionSteps ==
  ASSUME IInv, NEW c \in Conns,
         \/ \E k \in Keys : Connect(c, k)
         \/ IoClose(c) \/ RemoveConnection(c)
         \/ FirstMessage(c) \/ Logout(c) \/ (\E a \in Accounts : Login(c, a))
  PROVE  IInv'
<1>1. ConnInv'
  BY ConnectKeeps, IoCloseKeeps, RemoveKeeps, FirstMessageKeeps, LogoutKeeps, LoginKeeps, Zenon DEF IInv
<1>2. UNCHANGED <<requests, submitted, posted, lastMsgId, log, answers, misdirected>>
  BY Zenon DEF Connect, IoClose, RemoveConnection, FirstMessage, Logout, Login, history
<1>3. life \in [Conns -> {"new", "open", "closed", "gone"}] /\ key \in [Conns -> Keys \cup {None}]
  BY Zenon DEF IInv, ConnInv, ConnTypes
<1>4. \A d \in Conns : life[d] # "new" => life'[d] # "new" /\ key'[d] = key[d]
  <2>1. CASE \E k \in Keys : Connect(c, k)
    BY <1>3, <2>1, Zenon DEF Connect
  <2>2. CASE IoClose(c)
    BY <1>3, <2>2, Zenon DEF IoClose
  <2>3. CASE RemoveConnection(c)
    BY <1>3, <2>3, Zenon DEF RemoveConnection
  <2>4. CASE FirstMessage(c) \/ Logout(c) \/ (\E a \in Accounts : Login(c, a))
    BY <2>4, Zenon DEF FirstMessage, Logout, Login, conns
  <2> QED
    BY <2>1, <2>2, <2>3, <2>4, Zenon
<1> QED
  BY <1>1, <1>2, <1>4, RequestFrame, Zenon

(* A member leaves, or the server begins to stop.                           *)
LEMMA QuietSteps ==
  ASSUME IInv, StopAccepting \/ (\E a \in Accounts : LeaveGroup(a)) \/ UNCHANGED vars
  PROVE  IInv'
<1>1. /\ UNCHANGED <<life, key, connections, session, accountConn, connAccount, missed>>
      /\ members' \subseteq members
      /\ UNCHANGED <<requests, submitted, posted, lastMsgId, log, answers, misdirected>>
  BY Zenon DEF StopAccepting, LeaveGroup, vars, conns, sessions, history
<1>2. ConnInv'
  BY <1>1, ConnFrame, Zenon DEF IInv
<1> QED
  BY <1>1, <1>2, RequestFrame, Zenon

(* The two handlers.                                                        *)
LEMMA HandleKeeps ==
  ASSUME IInv, NEW c \in Conns,
         HandleGroupMessage(c) \/ (\E to \in Accounts : HandleDm(c, to))
  PROVE  IInv'
<1>1. CASE HandleGroupMessage(c)
  <2>1. /\ life[c] = "open" /\ session[key[c]] \in Accounts
        /\ SubmitRequest(Context(c, "group", None))
    BY <1>1, Zenon DEF HandleGroupMessage, IInv, ConnInv, ConnTypes
  <2> QED
    BY <2>1, SubmitKeeps, Zenon
<1>2. CASE \E to \in Accounts : HandleDm(c, to)
  <2>1. PICK to \in Accounts : /\ life[c] = "open" /\ session[key[c]] \in Accounts
                               /\ SubmitRequest(Context(c, "dm", to))
    BY <1>2, Zenon DEF HandleDm
  <2> QED
    BY <2>1, SubmitKeeps, Zenon
<1> QED
  BY <1>1, <1>2, Zenon

(* The invariant holds at first.                                            *)
LEMMA InitIInv == Init => IInv
<1> SUFFICES ASSUME Init PROVE IInv
  BY Zenon
<1>1. /\ requests = <<>> /\ submitted = <<>> /\ posted = <<>> /\ log = <<>>
      /\ lastMsgId = 0 /\ answers = {} /\ misdirected = {}
  BY Zenon DEF Init
<1>2. ConnInv
  BY PipelineAssumption, Zenon DEF Init, ConnInv, ConnTypes, Owners, Registered, MapsAgree
<1>3. ContextInv /\ QueueInv /\ OrderInv /\ AnswerInv
  BY <1>1, SMTT(30) DEF ContextInv, QueueInv, OrderInv, AnswerInv
<1> QED
  BY <1>2, <1>3, Zenon DEF IInv

(* Every step keeps the invariant.                                          *)
LEMMA NextIInv == IInv /\ [Next]_vars => IInv'
<1> SUFFICES ASSUME IInv, [Next]_vars PROVE IInv'
  BY Zenon
<1>1. CASE Base
  BY <1>1, CompleteKeeps, ConnectionSteps, Zenon DEF Base
<1>2. CASE Workers
  BY <1>2, CheckKeeps, PersistKeeps, Zenon DEF Workers
<1>3. CASE Clients
  BY <1>3, ConnectionSteps, HandleKeeps, QuietSteps, Zenon DEF Clients
<1>4. CASE UNCHANGED vars
  BY <1>4, QuietSteps, Zenon
<1> QED
  BY <1>1, <1>2, <1>3, <1>4, Zenon DEF Next

-----------------------------------------------------------------------------
(* Every response goes to the connection that asked, still logged in as who *)
(* asked (resolvePendingSender), whatever descriptors were used again.      *)
THEOREM AnswersAreDelivered == Spec => []AnswersReachSender
<1>1. IInv => AnswersReachSender
  BY Zenon DEF IInv, AnswerInv, AnswersReachSender
<1> QED
  BY <1>1, InitIInv, NextIInv, PTL DEF Spec

(* A push of completeGroupMessage() or completeDirectMessage() reaches all  *)
(* connections logged in as one of its receivers at that moment, and no     *)
(* other but a holder of a descriptor whose session onDisconnect() missed;  *)
(* the maps of SessionManager stay in step.                                 *)
THEOREM PushesAreRight == Spec => []PushesReachTheirAudience
<1>1. IInv => PushesReachTheirAudience
  BY Zenon DEF IInv, ConnInv, AnswerInv, PushesReachTheirAudience
<1> QED
  BY <1>1, InitIInv, NextIInv, PTL DEF Spec

(* The message executor commits the messages of one group or conversation   *)
(* in the order of the ids submit*MessagePersistence() gave them.           *)
THEOREM OrderIsKept == Spec => []CommitsFollowIds
<1>1. IInv => CommitsFollowIds
  <2> SUFFICES ASSUME IInv PROVE CommitsFollowIds
    BY Zenon
  <2>1. DOMAIN log = 1..Len(log)
    BY SMTT(30) DEF IInv, QueueInv
  <2> QED
    BY <2>1, Zenon DEF IInv, OrderInv, CommitsFollowIds
<1> QED
  BY <1>1, InitIInv, NextIInv, PTL DEF Spec

-----------------------------------------------------------------------------
(* All requests together.                                                   *)

AckKinds == {"message_ack", "conversation_read"}

(* Every part the acknowledgement names is durable.                         *)
Durable(i) ==
  /\ "messages" \in requests[i].to => i \in receipts
  /\ "offline" \in requests[i].to => i \in indexes

(* The message executor holds each acknowledgement once, and messages       *)
(* apart from them.                                                         *)
AckQueue ==
  /\ acks \in Seq(Nat)
  /\ \A n \in 1..Len(acks) : /\ acks[n] \in 1..Len(requests)
                             /\ requests[acks[n]].kind \in AckKinds
                             /\ requests[acks[n]].stage \in {"persist", "acking"}
  /\ \A m, n \in 1..Len(acks) : acks[m] = acks[n] => m = n
  /\ \A n \in 1..Len(submitted) : requests[submitted[n]].kind \in {"group", "dm"}

(* What is durable at which stage.                                          *)
AckStages ==
  \A i \in 1..Len(requests) :
    requests[i].kind = "message_ack" =>
      /\ requests[i].stage = "acking" => i \in receipts
      /\ requests[i].stage = "written" /\ requests[i].durable => Durable(i)

AckHistory ==
  /\ indexes \subseteq 1..Len(requests) /\ confirmed \subseteq 1..Len(requests)
  /\ \A i \in indexes : "messages" \in requests[i].to => i \in receipts
  /\ \A i \in confirmed : Durable(i)

AckInv == AckQueue /\ AckStages /\ AckHistory

-----------------------------------------------------------------------------
(* The connections, the sessions, the group, the messages: what no step of  *)
(* this module changes.                                                     *)
Untouched ==
  /\ UNCHANGED <<life, key, connections, session, accountConn, connAccount, missed, members>>
  /\ UNCHANGED <<submitted, lastMsgId, log, misdirected>>

(* A request moves on to another stage, and may be answered.                *)
LEMMA MoveKeeps ==
  ASSUME IInv, Untouched, NEW i \in 1..Len(requests), NEW r \in Request,
         SameContext(requests[i], r), r.msgId = requests[i].msgId,
         requests' = [requests EXCEPT ![i] = r],
         UNCHANGED answers \/ (ResolvePendingSender(requests[i]) /\ Answer(i, requests[i])),
         \/ requests[i].stage \in {"limit", "limited", "read", "acking"}
         \/ requests[i].stage = "written" /\ r.stage = "done"
         \/ requests[i].stage = "persist" /\ \A n \in 1..Len(submitted) : submitted[n] # i,
         posted' \in Seq(Nat), \A n \in 1..Len(posted') : posted'[n] \in 1..Len(requests)
  PROVE  /\ IInv' /\ Len(requests') = Len(requests) /\ requests'[i] = r
         /\ \A j \in 1..Len(requests) : j # i => requests'[j] = requests[j]
         /\ \A j \in 1..Len(requests) : SameContext(requests[j], requests'[j])
<1>1. ConnInv' BY ConnFrame, Zenon DEF IInv, Untouched
<1>2. /\ ContextInv' /\ Len(requests') = Len(requests) /\ requests'[i] = r
      /\ \A j \in 1..Len(requests) : j # i => requests'[j] = requests[j]
      /\ \A j \in 1..Len(requests) : SameContext(requests[j], requests'[j])
  BY ContextChanges, Zenon DEF IInv, Untouched
<1>3. Len(requests) \in Nat /\ lastMsgId \in Nat BY TypedRequests, Zenon DEF IInv, OrderInv
<1>4. Len(requests') \in Nat /\ Len(requests') >= Len(requests) BY <1>2, <1>3, SMTT(30)
<1>5. \A n \in 1..Len(posted') : posted'[n] \in 1..Len(requests') BY <1>2, Zenon
<1>6. QueueInv' BY <1>2, <1>4, <1>5, QueueFrame, Zenon DEF IInv, Untouched
<1>7. lastMsgId' = lastMsgId /\ UNCHANGED <<submitted, log>> BY Zenon DEF Untouched
<1>8. \A j \in 1..Len(requests') : requests'[j].msgId <= lastMsgId'
  <2>1. \A j \in 1..Len(requests) : requests[j].msgId <= lastMsgId BY Zenon DEF IInv, OrderInv
  <2>2. \A j \in 1..Len(requests) : requests'[j].msgId = requests[j].msgId BY <1>2, Zenon
  <2> QED BY <1>2, <1>7, <2>1, <2>2, SMTT(30)
<1>9. OrderInv' BY <1>2, <1>3, <1>4, <1>7, <1>8, OrderFrame, Zenon DEF IInv
<1>10. AnswerInv'
  <2>1. CASE UNCHANGED answers BY <1>2, <1>4, <2>1, AnswerFrame, Zenon DEF IInv, Untouched
  <2>2. CASE ResolvePendingSender(requests[i]) /\ Answer(i, requests[i])
    <3>1. /\ connections[requests[i].key] = requests'[i].conn
          /\ session[requests[i].key] = requests'[i].account
      BY <1>2, <2>2, ResolveFinds, Zenon DEF IInv, SameContext
    <3>2. misdirected' = misdirected /\ i \in 1..Len(requests') BY <1>2, Zenon DEF Untouched
    <3> QED BY <1>2, <1>4, <2>2, <3>1, <3>2, AnswerArrives, Zenon DEF IInv
  <2> QED BY <2>1, <2>2, Zenon
<1> QED BY <1>1, <1>2, <1>6, <1>9, <1>10, Zenon DEF IInv

(* A request arrives that goes to no queue of messages.                     *)
LEMMA ArriveKeeps ==
  ASSUME IInv, Untouched, posted' = posted, NEW c \in Conns, Registered(c),
         NEW s \in Request, s.conn = c, s.key = key[c], s.account = session[key[c]],
         s.msgId = 0, s.kind # "dm", requests' = Append(requests, s),
         NEW r, r.key = key[c], UNCHANGED answers \/ Answer(Len(requests) + 1, r)
  PROVE  /\ IInv' /\ Len(requests') = Len(requests) + 1 /\ Len(requests) \in Nat
         /\ requests'[Len(requests) + 1] = s
         /\ \A j \in 1..Len(requests) : requests'[j] = requests[j]
         /\ \A j \in 1..Len(requests) : SameContext(requests[j], requests'[j])
<1> DEFINE i == Len(requests) + 1
<1>1. ConnInv' BY ConnFrame, Zenon DEF IInv, Untouched
<1>2. life[c] # "new" /\ connections[key[c]] = c BY Zenon DEF IInv, ConnInv, Owners, Registered
<1>3. /\ ContextInv' /\ Len(requests') = i /\ requests'[i] = s
      /\ \A j \in 1..Len(requests) : requests'[j] = requests[j]
      /\ \A j \in 1..Len(requests) : SameContext(requests[j], requests'[j])
  BY <1>2, ContextArrives, Zenon DEF IInv, Untouched
<1>4. Len(requests) \in Nat /\ lastMsgId \in Nat BY TypedRequests, Zenon DEF IInv, OrderInv
<1>5. /\ i \in Nat /\ i >= Len(requests) /\ i \notin 1..Len(requests) /\ i \in 1..i
      /\ 1..Len(requests) \subseteq 1..i
      /\ \A j \in 1..i : j \in 1..Len(requests) \/ j = i
  BY <1>4, SMTT(30)
<1> HIDE DEF i
<1>6. posted' \in Seq(Nat) /\ \A n \in 1..Len(posted') : posted'[n] \in 1..Len(requests')
  BY <1>3, <1>5, Zenon DEF IInv, QueueInv
<1>7. lastMsgId' = lastMsgId /\ UNCHANGED <<submitted, log, misdirected>> BY Zenon DEF Untouched
<1>8. QueueInv' BY <1>3, <1>5, <1>6, <1>7, QueueFrame, Zenon DEF IInv
<1>9. \A j \in 1..Len(requests') : requests'[j].msgId <= lastMsgId'
  <2>1. \A j \in 1..Len(requests) : requests[j].msgId <= lastMsgId BY Zenon DEF IInv, OrderInv
  <2>2. \A j \in 1..Len(requests) : requests'[j].msgId <= lastMsgId' BY <1>3, <1>7, <2>1, Zenon
  <2>3. requests'[i].msgId <= lastMsgId' BY <1>3, <1>4, <1>7, SMTT(30)
  <2> QED BY <1>3, <1>5, <2>2, <2>3, Zenon
<1>10. OrderInv' BY <1>3, <1>4, <1>5, <1>7, <1>9, OrderFrame, Zenon DEF IInv
<1>11. AnswerInv'
  <2>1. CASE UNCHANGED answers BY <1>3, <1>5, <1>7, <2>1, AnswerFrame, Zenon DEF IInv
  <2>2. CASE Answer(i, r)
    <3>1. connections[r.key] = requests'[i].conn /\ session[r.key] = requests'[i].account
      BY <1>2, <1>3, Zenon
    <3> QED BY <1>3, <1>5, <1>7, <2>2, <3>1, AnswerArrives, Zenon DEF IInv
  <2> QED BY <2>1, <2>2, Zenon DEF i
<1> QED BY <1>1, <1>3, <1>4, <1>8, <1>10, <1>11, Zenon DEF IInv, i

-----------------------------------------------------------------------------
(* The acknowledgements.                                                    *)

(* A request arrives or moves that the executor does not hold as an         *)
(* acknowledgement; clients are told of durable ones.                       *)
LEMMA AckFrame ==
  ASSUME AckInv, NEW i, Len(requests) \in Nat, Len(requests') \in Nat,
         Len(requests') >= Len(requests),
         \A j \in 1..Len(requests') : j = i \/ j \in 1..Len(requests),
         \A j \in 1..Len(requests) : j # i => requests'[j] = requests[j],
         \A j \in 1..Len(requests) : SameContext(requests[j], requests'[j]),
         \A n \in 1..Len(acks) : acks[n] # i,
         i \in 1..Len(requests') =>
           (requests'[i].kind = "message_ack" => requests'[i].stage \notin {"acking", "written"}),
         \A n \in 1..Len(submitted') : requests'[submitted'[n]].kind \in {"group", "dm"},
         UNCHANGED <<acks, receipts, indexes>>,
         confirmed' \subseteq 1..Len(requests), \A j \in confirmed' : Durable(j)
  PROVE  AckInv'
<1>1. 1..Len(requests) \subseteq 1..Len(requests') BY Wider, Zenon
<1>2. AckQueue'
  <2>1. acks' \in Seq(Nat) /\ acks' = acks BY Zenon DEF AckInv, AckQueue
  <2>2. ASSUME NEW n \in 1..Len(acks)
        PROVE  /\ acks[n] \in 1..Len(requests')
               /\ requests'[acks[n]].kind \in AckKinds
               /\ requests'[acks[n]].stage \in {"persist", "acking"}
    <3>1. acks[n] \in 1..Len(requests) /\ acks[n] # i BY Zenon DEF AckInv, AckQueue
    <3>2. requests'[acks[n]] = requests[acks[n]] BY <3>1, Zenon
    <3> QED BY <1>1, <3>1, <3>2, Zenon DEF AckInv, AckQueue
  <2>3. \A m, n \in 1..Len(acks) : acks[m] = acks[n] => m = n BY Zenon DEF AckInv, AckQueue
  <2> QED BY <2>1, <2>2, <2>3, Zenon DEF AckQueue, AckKinds
<1>3. \A j \in 1..Len(requests) : requests'[j].to = requests[j].to BY Zenon DEF SameContext
<1>4. \A j \in 1..Len(requests) : Durable(j) => Durable(j)' BY <1>3, Zenon DEF Durable
<1>5. AckStages'
  <2> SUFFICES ASSUME NEW j \in 1..Len(requests'), requests'[j].kind = "message_ack"
               PROVE  /\ requests'[j].stage = "acking" => j \in receipts'
                      /\ requests'[j].stage = "written" /\ requests'[j].durable => Durable(j)'
    BY Zenon DEF AckStages
  <2>1. CASE j = i BY <2>1, Zenon
  <2>2. CASE j # i
    <3>1. j \in 1..Len(requests) /\ requests'[j] = requests[j] BY <2>2, Zenon
    <3> QED BY <1>4, <3>1, Zenon DEF AckInv, AckStages
  <2> QED BY <2>1, <2>2, Zenon
<1>6. AckHistory'
  <2>1. indexes' \subseteq 1..Len(requests') /\ confirmed' \subseteq 1..Len(requests')
    BY <1>1, Zenon DEF AckInv, AckHistory
  <2>2. ASSUME NEW j \in indexes', "messages" \in requests'[j].to PROVE j \in receipts'
    BY <1>3, <2>2, Zenon DEF AckInv, AckHistory
  <2>3. ASSUME NEW j \in confirmed' PROVE Durable(j)' BY <1>4, <2>3, Zenon
  <2> QED BY <2>1, <2>2, <2>3, Zenon DEF AckHistory
<1> QED BY <1>2, <1>5, <1>6, Zenon DEF AckInv

(* The executor holds no acknowledgement that is at another stage.          *)
LEMMA NotHeld ==
  ASSUME AckInv, NEW i \in 1..Len(requests),
         requests[i].stage \notin {"persist", "acking"} \/ requests[i].kind \notin AckKinds
  PROVE  \A n \in 1..Len(acks) : acks[n] # i
BY Zenon DEF AckInv, AckQueue

(* Confirmed acknowledgements stay durable.                                 *)
LEMMA StillConfirmed ==
  ASSUME AckInv PROVE confirmed \subseteq 1..Len(requests) /\ \A j \in confirmed : Durable(j)
BY Zenon DEF AckInv, AckHistory

(* A request at one of these stages moves, and is not at "written" then.    *)
LEMMA AckMove ==
  ASSUME AckInv, Len(requests) \in Nat, NEW i \in 1..Len(requests),
         requests[i].stage \notin {"persist", "acking"} \/ requests[i].kind \notin AckKinds,
         Len(requests') = Len(requests),
         \A j \in 1..Len(requests) : j # i => requests'[j] = requests[j],
         \A j \in 1..Len(requests) : SameContext(requests[j], requests'[j]),
         requests[i].kind = "message_ack" => requests'[i].stage \notin {"acking", "written"},
         \A n \in 1..Len(submitted') : \/ \E m \in 1..Len(submitted) : submitted'[n] = submitted[m]
                                       \/ submitted'[n] = i /\ requests[i].kind \in {"group", "dm"},
         \A n \in 1..Len(submitted) : submitted[n] \in 1..Len(requests),
         UNCHANGED <<acks, receipts, indexes>>,
         confirmed' \subseteq 1..Len(requests), \A j \in confirmed' : Durable(j)
  PROVE  AckInv'
<1>1. \A j \in 1..Len(requests) : requests'[j].kind = requests[j].kind BY Zenon DEF SameContext
<1>2. ASSUME NEW n \in 1..Len(submitted')
      PROVE  requests'[submitted'[n]].kind \in {"group", "dm"}
  <2>1. CASE \E m \in 1..Len(submitted) : submitted'[n] = submitted[m]
    <3>1. PICK m \in 1..Len(submitted) : submitted'[n] = submitted[m] BY <2>1, Zenon
    <3>2. submitted[m] \in 1..Len(requests) /\ requests[submitted[m]].kind \in {"group", "dm"}
      BY Zenon DEF AckInv, AckQueue
    <3> QED BY <1>1, <3>1, <3>2, Zenon
  <2>2. CASE submitted'[n] = i /\ requests[i].kind \in {"group", "dm"} BY <1>1, <2>2, Zenon
  <2> QED BY <2>1, <2>2, Zenon
<1>3. \A n \in 1..Len(acks) : acks[n] # i BY NotHeld, Zenon
<1>4. Len(requests') \in Nat /\ Len(requests') >= Len(requests) BY SMTT(30)
<1>5. requests'[i].kind = "message_ack" => requests'[i].stage \notin {"acking", "written"} BY <1>1, Zenon
<1> QED BY <1>2, <1>3, <1>4, <1>5, AckFrame, Zenon

(* A request arrives that is no acknowledgement for the executor.           *)
LEMMA AckArrive ==
  ASSUME AckInv, Len(requests) \in Nat, Len(requests') = Len(requests) + 1,
         \A j \in 1..Len(requests) : requests'[j] = requests[j],
         \A j \in 1..Len(requests) : SameContext(requests[j], requests'[j]),
         requests'[Len(requests) + 1].kind = "message_ack"
           => requests'[Len(requests) + 1].stage \notin {"acking", "written"},
         \A n \in 1..Len(submitted') : \/ \E m \in 1..Len(submitted) : submitted'[n] = submitted[m]
                                       \/ /\ submitted'[n] = Len(requests) + 1
                                          /\ requests'[Len(requests) + 1].kind \in {"group", "dm"},
         \A n \in 1..Len(submitted) : submitted[n] \in 1..Len(requests),
         UNCHANGED <<acks, receipts, indexes, confirmed>>
  PROVE  AckInv'
<1> DEFINE i == Len(requests) + 1
<1>1. ASSUME NEW n \in 1..Len(submitted')
      PROVE  requests'[submitted'[n]].kind \in {"group", "dm"}
  <2>1. CASE \E m \in 1..Len(submitted) : submitted'[n] = submitted[m]
    <3>1. PICK m \in 1..Len(submitted) : submitted'[n] = submitted[m] BY <2>1, Zenon
    <3>2. submitted[m] \in 1..Len(requests) /\ requests[submitted[m]].kind \in {"group", "dm"}
      BY Zenon DEF AckInv, AckQueue
    <3> QED BY <3>1, <3>2, Zenon
  <2>2. CASE submitted'[n] = i /\ requests'[i].kind \in {"group", "dm"} BY <2>2, Zenon
  <2> QED BY <2>1, <2>2, Zenon
<1>2. i \in Nat /\ i >= Len(requests) /\ i \notin 1..Len(requests) BY SMTT(30)
<1>3. \A j \in 1..i : j = i \/ j \in 1..Len(requests) BY OneMore, Zenon
<1>4. \A n \in 1..Len(acks) : acks[n] # i BY <1>2, Zenon DEF AckInv, AckQueue
<1>5. confirmed' \subseteq 1..Len(requests) /\ \A j \in confirmed' : Durable(j) BY StillConfirmed, Zenon
<1> HIDE DEF i
<1>6. /\ requests'[i].kind = "message_ack" => requests'[i].stage \notin {"acking", "written"}
      /\ Len(requests') = i
  BY Zenon DEF i
<1> QED BY <1>1, <1>2, <1>3, <1>4, <1>5, <1>6, AckFrame, Zenon

(* A context changes that the executor does not hold as an acknowledgement. *)
LEMMA AckContext ==
  ASSUME IInv, AckInv, NEW i \in 1..Len(requests), NEW r \in Request,
         SameContext(requests[i], r), requests' = [requests EXCEPT ![i] = r],
         UNCHANGED <<life, key>>,
         requests[i].stage \notin {"persist", "acking"} \/ requests[i].kind \notin AckKinds,
         requests[i].kind = "message_ack" => r.stage \notin {"acking", "written"},
         \/ submitted' = submitted
         \/ submitted' = Append(submitted, i) /\ requests[i].kind \in {"group", "dm"}
         \/ \E n \in 1..Len(submitted) : submitted' = Without(submitted, n),
         UNCHANGED <<acks, receipts, indexes>>,
         confirmed' \subseteq 1..Len(requests), \A j \in confirmed' : Durable(j)
  PROVE  AckInv'
<1>1. /\ Len(requests') = Len(requests) /\ requests'[i] = r
      /\ \A j \in 1..Len(requests) : j # i => requests'[j] = requests[j]
      /\ \A j \in 1..Len(requests) : SameContext(requests[j], requests'[j])
  BY ContextChanges, Zenon DEF IInv
<1>2. Len(requests) \in Nat BY TypedRequests, Zenon DEF IInv
<1>3. submitted \in Seq(Nat) /\ Len(submitted) \in Nat /\ i \in Nat BY SeqLength, SMTT(30) DEF IInv, QueueInv
<1>4. \A n \in 1..Len(submitted) : submitted[n] \in 1..Len(requests) BY Zenon DEF IInv, QueueInv
<1>5. ASSUME NEW n \in 1..Len(submitted')
      PROVE  \/ \E m \in 1..Len(submitted) : submitted'[n] = submitted[m]
             \/ submitted'[n] = i /\ requests[i].kind \in {"group", "dm"}
  <2>1. CASE submitted' = submitted BY <2>1, Zenon
  <2>2. CASE submitted' = Append(submitted, i) /\ requests[i].kind \in {"group", "dm"}
    <3>1. /\ Len(submitted') = Len(submitted) + 1 /\ submitted'[Len(submitted) + 1] = i
          /\ \A m \in 1..Len(submitted) : submitted'[m] = submitted[m]
      BY <1>3, <2>2, SeqAppend, SMTT(30)
    <3>2. n \in 1..Len(submitted) \/ n = Len(submitted) + 1 BY <1>3, <3>1, OneMore, Zenon
    <3> QED BY <2>2, <3>1, <3>2, Zenon
  <2>3. CASE \E k \in 1..Len(submitted) : submitted' = Without(submitted, k)
    <3>1. PICK k \in 1..Len(submitted) : submitted' = Without(submitted, k) BY <2>3, Zenon
    <3> DEFINE t == Without(submitted, k)
    <3>2. \A x \in 1..Len(t) : \E m \in 1..Len(submitted) : t[x] = submitted[m]
      BY <1>3, TaskLeaves, SMTT(30)
    <3>3. submitted' = t BY <3>1, Zenon
    <3> HIDE DEF t
    <3> QED BY <3>2, <3>3, Zenon
  <2> QED BY <2>1, <2>2, <2>3, Zenon
<1> QED BY <1>1, <1>2, <1>4, <1>5, AckMove, Zenon

(* A step that changes no request.                                          *)
LEMMA AckQuiet ==
  ASSUME AckInv, UNCHANGED <<requests, submitted, acks, receipts, indexes, confirmed>>
  PROVE  AckInv'
BY Zenon DEF AckInv, AckQueue, AckKinds, AckStages, AckHistory, Durable

(* A context at another stage.                                              *)
Staged(r, stage) == [r EXCEPT !.stage = stage]

(* What stays of it.                                                        *)
LEMMA ContextStage ==
  ASSUME NEW r \in Request, NEW stage \in Stages
  PROVE  /\ Staged(r, stage) \in Request /\ SameContext(r, Staged(r, stage))
         /\ Staged(r, stage).stage = stage /\ Staged(r, stage).msgId = r.msgId
         /\ Staged(r, stage).durable = r.durable
<1> DEFINE t == Staged(r, stage)
<1>1. t \in Request BY Zenon DEF Request, Staged
<1>2. t.conn = r.conn /\ t.key = r.key /\ t.account = r.account BY Zenon DEF Request, Staged
<1>3. t.kind = r.kind /\ t.to = r.to BY Zenon DEF Request, Staged
<1>4. t.stage = stage /\ t.msgId = r.msgId /\ t.durable = r.durable BY Zenon DEF Request, Staged
<1> QED BY <1>1, <1>2, <1>3, <1>4, Zenon DEF SameContext

(* The completions of messages.                                             *)
LEMMA CompletionAcks ==
  ASSUME IInv, AckInv, Completion, UNCHANGED ackVars
  PROVE  AckInv'
<1> DEFINE i == Head(posted)
<1>1. /\ i \in 1..Len(requests) /\ requests[i].kind \in {"group", "dm"}
      /\ requests[i].stage \in {"limited", "written"}
  BY TakesHead, Zenon DEF IInv, Completion, CompleteGroupRateLimit, CompleteDirectRateLimit,
                   CompleteGroupMessage, CompleteDirectMessage
<1>2. UNCHANGED <<life, key, acks, receipts, indexes, confirmed>>
  BY Zenon DEF ackVars, conns, Completion, CompleteGroupRateLimit, CompleteDirectRateLimit,
         CompleteGroupMessage, CompleteDirectMessage, PushAndAnswer
<1>3. \/ Finish(i) /\ submitted' = submitted
      \/ SubmitPersistence(i, requests[i])
  BY Zenon DEF Completion, CompleteGroupRateLimit, CompleteDirectRateLimit, DropRequest, RefuseRequest,
         CompleteGroupMessage, CompleteDirectMessage, PushAndAnswer
<1>4. confirmed' \subseteq 1..Len(requests) /\ \A j \in confirmed' : Durable(j)
  BY <1>2, StillConfirmed, Zenon
<1>5. requests[i] \in Request /\ lastMsgId + 1 \in Nat BY <1>1, TypedRequests, SMTT(30) DEF IInv, OrderInv
<1> HIDE DEF i
<1>6. CASE Finish(i) /\ submitted' = submitted
  <2> DEFINE r == Staged(requests[i], "done")
  <2>1. r \in Request /\ SameContext(requests[i], r) BY <1>5, ContextStage, Zenon DEF Stages
  <2>2. requests' = [requests EXCEPT ![i] = r] BY <1>6, Zenon DEF Finish, Staged
  <2> HIDE DEF r
  <2> QED BY <1>1, <1>2, <1>4, <1>6, <2>1, <2>2, AckContext, Zenon
<1>7. CASE SubmitPersistence(i, requests[i])
  <2>1. CASE /\ requests' = [requests EXCEPT ![i] = Submitted(requests[i], lastMsgId + 1)]
             /\ submitted' = Append(submitted, i)
    <3> DEFINE r == Submitted(requests[i], lastMsgId + 1)
    <3>1. r \in Request /\ SameContext(requests[i], r) BY <1>5, ContextGetsId, Zenon
    <3>2. requests' = [requests EXCEPT ![i] = r] BY <2>1, Zenon
    <3> HIDE DEF r
    <3> QED BY <1>1, <1>2, <1>4, <2>1, <3>1, <3>2, AckContext
  <2>2. CASE /\ requests' = [requests EXCEPT ![i] = [requests[i] EXCEPT !.stage = "done"]]
             /\ submitted' = submitted
    BY <1>6, <2>2, Zenon DEF Finish
  <2> QED BY <1>7, <2>1, <2>2, Zenon DEF SubmitPersistence, Submitted
<1> QED BY <1>3, <1>6, <1>7, Zenon

(* The executors' steps with messages.                                      *)
LEMMA WorkerAcks ==
  ASSUME IInv, AckInv, Workers, UNCHANGED ackVars
  PROVE  AckInv'
<1>1. UNCHANGED <<acks, receipts, indexes, confirmed>> BY Zenon DEF ackVars
<1>2. confirmed' \subseteq 1..Len(requests) /\ \A j \in confirmed' : Durable(j)
  BY <1>1, StillConfirmed, Zenon
<1>3. ASSUME NEW i, CheckRateLimit(i) PROVE AckInv'
  <2> DEFINE r == Staged(requests[i], "limited")
  <2>1. i \in 1..Len(requests) /\ requests[i] \in Request /\ requests[i].stage = "limit"
    BY <1>3, TypedRequests, Zenon DEF IInv, CheckRateLimit
  <2>2. r \in Request /\ SameContext(requests[i], r) /\ r.stage = "limited"
    BY <2>1, ContextStage, Zenon DEF Stages
  <2>3. requests' = [requests EXCEPT ![i] = r] /\ UNCHANGED <<life, key, submitted>>
    BY <1>3, Zenon DEF CheckRateLimit, conns, Staged
  <2> HIDE DEF r
  <2> QED BY <1>1, <1>2, <2>1, <2>2, <2>3, AckContext, Zenon
<1>4. ASSUME NEW n \in DOMAIN submitted, Persist(n) PROVE AckInv'
  <2>1. n \in 1..Len(submitted) /\ submitted[n] \in 1..Len(requests)
    BY SMTT(30) DEF IInv, QueueInv
  <2>2. requests[submitted[n]].kind \in {"group", "dm"} BY <2>1, Zenon DEF AckInv, AckQueue
  <2>3. PICK d \in BOOLEAN : requests' = [requests EXCEPT ![submitted[n]] = Written(requests[submitted[n]], d)]
    BY <1>4, Zenon DEF Persist, Written
  <2>4. submitted' = Without(submitted, n) /\ UNCHANGED <<life, key>>
    BY <1>4, Zenon DEF Persist, Without, conns
  <2>5. requests[submitted[n]] \in Request BY <2>1, TypedRequests, Zenon DEF IInv
  <2>6. /\ Written(requests[submitted[n]], d) \in Request
        /\ SameContext(requests[submitted[n]], Written(requests[submitted[n]], d))
    BY <2>5, ContextIsWritten, Zenon
  <2>7. requests[submitted[n]].kind \notin AckKinds /\ requests[submitted[n]].kind # "message_ack"
    BY <2>2, Zenon DEF AckKinds
  <2>8. \E k \in 1..Len(submitted) : submitted' = Without(submitted, k) BY <2>1, <2>4, Zenon
  <2> QED BY <1>1, <1>2, <2>1, <2>3, <2>4, <2>6, <2>7, <2>8, AckContext
<1> QED BY <1>3, <1>4, Zenon DEF Workers

(* A message arrives.                                                       *)
LEMMA SubmitAcks ==
  ASSUME IInv, AckInv, NEW c \in Conns, NEW kind \in {"group", "dm"},
         NEW to \in Accounts \cup {None}, life[c] = "open", session[key[c]] \in Accounts,
         kind = "dm" => to \in Accounts,
         SubmitRequest(Context(c, kind, to)), UNCHANGED ackVars
  PROVE  AckInv'
<1> DEFINE r == Context(c, kind, to)
           i == Len(requests) + 1
<1>1. key[c] \in Keys BY Zenon DEF IInv, ConnInv, Owners, Registered
<1>2. r \in Request /\ r.conn = c /\ r.key = key[c] /\ r.kind = kind /\ r.to = to
  BY <1>1, Zenon DEF Context, Request, Stages, Kinds, Targets
<1>3. /\ Len(requests) \in Nat /\ lastMsgId + 1 \in Nat /\ submitted \in Seq(Nat)
      /\ Len(submitted) \in Nat
      /\ \A n \in 1..Len(submitted) : submitted[n] \in 1..Len(requests)
  BY TypedRequests, SeqLength, SMTT(30) DEF IInv, OrderInv, QueueInv
<1>4. UNCHANGED <<life, key, acks, receipts, indexes, confirmed>> /\ SubmitRequest(r)
  BY Zenon DEF SubmitRequest, conns, ackVars
<1>5. \/ \E t \in {"limit", "done"} : requests' = Append(requests, Staged(r, t))
                                      /\ submitted' = submitted
      \/ requests' = Append(requests, Submitted(r, lastMsgId + 1)) /\ submitted' = Append(submitted, i)
  BY <1>4, Zenon DEF SubmitRequest, Submitted, Staged
<1> HIDE DEF r
<1>6. PICK s \in Request : /\ SameContext(r, s) /\ requests' = Append(requests, s)
                           /\ submitted' = submitted \/ submitted' = Append(submitted, i)
  <2>1. ASSUME NEW t \in {"limit", "done"}
        PROVE  Staged(r, t) \in Request /\ SameContext(r, Staged(r, t))
    BY <1>2, ContextStage, Zenon DEF Stages
  <2>2. Submitted(r, lastMsgId + 1) \in Request /\ SameContext(r, Submitted(r, lastMsgId + 1))
    BY <1>2, <1>3, ContextGetsId, Zenon
  <2> QED BY <1>5, <2>1, <2>2, Zenon
<1>7. s.conn = c /\ s.key = key[c] /\ s.kind = kind /\ (s.kind = "dm" => s.to \in Accounts)
  BY <1>2, <1>6, Zenon DEF SameContext
<1>8. /\ Len(requests') = i /\ requests'[i] = s
      /\ \A j \in 1..Len(requests) : requests'[j] = requests[j]
      /\ \A j \in 1..Len(requests) : SameContext(requests[j], requests'[j])
  BY <1>4, <1>6, <1>7, ContextArrives, Zenon DEF IInv
<1>9. ASSUME NEW n \in 1..Len(submitted')
      PROVE  \/ \E m \in 1..Len(submitted) : submitted'[n] = submitted[m]
             \/ submitted'[n] = i /\ requests'[i].kind \in {"group", "dm"}
  <2>1. CASE submitted' = submitted BY <2>1, Zenon
  <2>2. CASE submitted' = Append(submitted, i)
    <3>0. i \in Nat BY <1>3, SMTT(30)
    <3> HIDE DEF i
    <3>1. /\ Len(submitted') = Len(submitted) + 1 /\ submitted'[Len(submitted) + 1] = i
          /\ \A m \in 1..Len(submitted) : submitted'[m] = submitted[m]
      BY <1>3, <2>2, <3>0, SeqAppend, SMTT(30)
    <3>2. n \in 1..Len(submitted) \/ n = Len(submitted) + 1 BY <1>3, <3>1, OneMore, Zenon
    <3> QED BY <1>7, <1>8, <3>1, <3>2, Zenon
  <2> QED BY <1>6, <2>1, <2>2, Zenon
<1> QED BY <1>3, <1>4, <1>7, <1>8, <1>9, AckArrive, Zenon

(* The steps of MessagePipeline.                                            *)
LEMMA MessagesKeepAcks ==
  ASSUME IInv, AckInv, Next, UNCHANGED ackVars
  PROVE  AckInv'
<1>1. UNCHANGED <<acks, receipts, indexes, confirmed>> BY Zenon DEF ackVars
<1>2. CASE Base
  <2>1. CASE \E c \in Conns : RemoveConnection(c) BY <1>1, <2>1, AckQuiet, Zenon DEF RemoveConnection
  <2> QED BY <1>2, <2>1, CompletionAcks, Zenon DEF Base
<1>3. CASE Workers BY <1>3, WorkerAcks, Zenon
<1>4. CASE Clients
  <2>1. ASSUME NEW c \in Conns, HandleGroupMessage(c) PROVE AckInv'
    <3>1. /\ life[c] = "open" /\ session[key[c]] \in Accounts
          /\ SubmitRequest(Context(c, "group", None))
      BY <2>1, Zenon DEF HandleGroupMessage, IInv, ConnInv, ConnTypes
    <3> QED BY <3>1, SubmitAcks, Zenon
  <2>2. ASSUME NEW c \in Conns, NEW to \in Accounts, HandleDm(c, to) PROVE AckInv'
    <3>1. /\ life[c] = "open" /\ session[key[c]] \in Accounts
          /\ SubmitRequest(Context(c, "dm", to))
      BY <2>2, Zenon DEF HandleDm
    <3> QED BY <3>1, SubmitAcks, Zenon
  <2>3. CASE \/ \E c \in Conns, k \in Keys : Connect(c, k)
             \/ \E c \in Conns : \/ IoClose(c) \/ FirstMessage(c) \/ Logout(c)
                                 \/ \E a \in Accounts : Login(c, a)
             \/ \E a \in Accounts : LeaveGroup(a)
             \/ StopAccepting
    <3>1. UNCHANGED <<requests, submitted>>
      BY <2>3, Zenon DEF Connect, IoClose, FirstMessage, Logout, Login, LeaveGroup, StopAccepting
    <3> QED BY <1>1, <3>1, AckQuiet, Zenon
  <2> QED BY <1>4, <2>1, <2>2, <2>3, Zenon DEF Clients
<1> QED BY <1>2, <1>3, <1>4, Zenon DEF Next

-----------------------------------------------------------------------------
(* The requests of this module arrive.                                      *)

(* The context an asynchronous handler makes.                               *)
LEMMA NewContext ==
  ASSUME IInv, NEW c \in Conns, Registered(c), session[key[c]] \in Accounts,
         NEW kind \in Kinds, NEW to \in Targets, NEW stage \in Stages
  PROVE  /\ Staged(Context(c, kind, to), stage) \in Request
         /\ Staged(Context(c, kind, to), stage).conn = c
         /\ Staged(Context(c, kind, to), stage).key = key[c]
         /\ Staged(Context(c, kind, to), stage).account = session[key[c]]
         /\ Staged(Context(c, kind, to), stage).kind = kind
         /\ Staged(Context(c, kind, to), stage).to = to
         /\ Staged(Context(c, kind, to), stage).stage = stage
         /\ Staged(Context(c, kind, to), stage).msgId = 0
<1>1. key[c] \in Keys BY Zenon DEF IInv, ConnInv, Owners
<1> DEFINE r == Context(c, kind, to)
           s == Staged(r, stage)
<1>2. /\ r \in Request /\ r.conn = c /\ r.key = key[c] /\ r.account = session[key[c]]
      /\ r.kind = kind /\ r.to = to /\ r.msgId = 0
  BY <1>1, Zenon DEF Context, Request, Stages
<1> HIDE DEF r
<1>3. s \in Request /\ SameContext(r, s) /\ s.stage = stage /\ s.msgId = r.msgId
  BY <1>2, ContextStage, Zenon
<1>4. /\ s.conn = c /\ s.key = key[c] /\ s.account = session[key[c]] /\ s.kind = kind /\ s.to = to
  BY <1>2, <1>3, Zenon DEF SameContext
<1> QED BY <1>2, <1>3, <1>4, Zenon DEF r

(* Enter(): the request waits, or is refused.                               *)
LEMMA EnterKeeps ==
  ASSUME IInv, NEW c \in Conns, Admits(c), NEW kind \in Kinds \ {"dm"}, NEW to \in Targets,
         NEW stage \in Stages, Enter(Context(c, kind, to), stage)
  PROVE  /\ IInv' /\ Len(requests) \in Nat /\ Len(requests') = Len(requests) + 1
         /\ requests'[Len(requests) + 1].kind = kind /\ requests'[Len(requests) + 1].to = to
         /\ requests'[Len(requests) + 1].stage \in {stage, "done"}
         /\ \A j \in 1..Len(requests) : requests'[j] = requests[j]
         /\ \A j \in 1..Len(requests) : SameContext(requests[j], requests'[j])
         /\ submitted' = submitted
<1> DEFINE r == Context(c, kind, to)
<1>1. Untouched /\ posted' = posted BY Zenon DEF Enter, Untouched, conns, sessions
<1>2. Registered(c) /\ session[key[c]] \in Accounts BY Zenon DEF Admits, Registered
<1>3. r.key = key[c] BY Zenon DEF Context
<1>4. PICK t \in {stage, "done"} :
        /\ requests' = Append(requests, Staged(r, t))
        /\ UNCHANGED answers \/ Answer(Len(requests) + 1, r)
  BY Zenon DEF Enter, Staged
<1> DEFINE s == Staged(r, t)
<1>5. t \in Stages /\ kind \in Kinds BY Zenon DEF Stages
<1>6. /\ s \in Request /\ s.conn = c /\ s.key = key[c] /\ s.account = session[key[c]]
      /\ s.kind = kind /\ s.to = to /\ s.stage = t /\ s.msgId = 0
  BY <1>2, <1>5, NewContext, SMTT(30)
<1>7. requests' = Append(requests, s) BY <1>4, Zenon
<1> HIDE DEF r, s
<1>8. /\ IInv' /\ Len(requests') = Len(requests) + 1 /\ Len(requests) \in Nat
      /\ requests'[Len(requests) + 1] = s
      /\ \A j \in 1..Len(requests) : requests'[j] = requests[j]
      /\ \A j \in 1..Len(requests) : SameContext(requests[j], requests'[j])
  BY <1>1, <1>2, <1>3, <1>4, <1>6, <1>7, ArriveKeeps, Zenon
<1> QED BY <1>1, <1>6, <1>8, Zenon DEF Untouched

(* A query arrives.                                                         *)
LEMMA QueryArrives ==
  ASSUME IInv, AckInv, NEW c \in Conns, Admits(c), NEW kind \in Kinds \ ({"dm"} \cup AckKinds),
         NEW to \in Targets, NEW stage \in {"limit", "read"},
         Enter(Context(c, kind, to), stage), UNCHANGED ackVars
  PROVE  IInv' /\ AckInv'
<1>1. stage \in Stages /\ kind # "message_ack" /\ kind \in Kinds \ {"dm"} BY Zenon DEF Stages, AckKinds
<1>2. /\ IInv' /\ Len(requests) \in Nat /\ Len(requests') = Len(requests) + 1
      /\ requests'[Len(requests) + 1].kind = kind
      /\ \A j \in 1..Len(requests) : requests'[j] = requests[j]
      /\ \A j \in 1..Len(requests) : SameContext(requests[j], requests'[j])
      /\ submitted' = submitted
  BY <1>1, EnterKeeps, Zenon
<1>3. UNCHANGED <<acks, receipts, indexes, confirmed>> BY Zenon DEF ackVars
<1>4. \A n \in 1..Len(submitted) : submitted[n] \in 1..Len(requests) BY Zenon DEF IInv, QueueInv
<1>5. \A n \in 1..Len(submitted') : \E m \in 1..Len(submitted) : submitted'[n] = submitted[m]
  BY <1>2, Zenon
<1> QED BY <1>1, <1>2, <1>3, <1>4, <1>5, AckArrive, Zenon

(* An acknowledgement or a read mark arrives.                               *)
LEMMA AckArrives ==
  ASSUME IInv, AckInv, NEW c \in Conns, Admits(c), NEW kind \in AckKinds, NEW to \in Targets,
         EnterAck(Context(c, kind, to))
  PROVE  IInv' /\ AckInv'
<1> DEFINE i == Len(requests) + 1
<1>1. kind \in Kinds \ {"dm"} /\ "persist" \in Stages BY Zenon DEF Kinds, AckKinds, Stages
<1>2. Enter(Context(c, kind, to), "persist") BY Zenon DEF EnterAck
<1>3. /\ IInv' /\ Len(requests) \in Nat /\ Len(requests') = i
      /\ requests'[i].kind = kind /\ requests'[i].stage \in {"persist", "done"}
      /\ \A j \in 1..Len(requests) : requests'[j] = requests[j]
      /\ \A j \in 1..Len(requests) : SameContext(requests[j], requests'[j])
      /\ submitted' = submitted
  BY <1>1, <1>2, EnterKeeps, Zenon
<1>4. \A n \in 1..Len(submitted) : submitted[n] \in 1..Len(requests) BY Zenon DEF IInv, QueueInv
<1>5. UNCHANGED <<receipts, indexes, confirmed>> BY Zenon DEF EnterAck
<1>6. CASE acks' = acks
  <2>1. \A n \in 1..Len(submitted') : \E m \in 1..Len(submitted) : submitted'[n] = submitted[m]
    BY <1>3, Zenon
  <2> QED BY <1>3, <1>4, <1>5, <1>6, <2>1, AckArrive, Zenon
<1>7. CASE acks' = Append(acks, i) /\ requests'[i].stage = "persist"
  <2>1. acks \in Seq(Nat) /\ i \in Nat /\ i \notin 1..Len(requests) /\ i \in 1..i
        /\ 1..Len(requests) \subseteq 1..i
    <3>1. acks \in Seq(Nat) BY Zenon DEF AckInv, AckQueue
    <3>2. Len(requests) \in Nat BY <1>3, Zenon
    <3> QED BY <3>1, <3>2, SMTT(30)
  <2> HIDE DEF i
  <2>2. /\ acks' \in Seq(Nat) /\ Len(acks') = Len(acks) + 1 /\ acks'[Len(acks) + 1] = i
        /\ Len(acks) \in Nat /\ \A m \in 1..Len(acks) : acks'[m] = acks[m]
    BY <1>7, <2>1, SeqAppend, SeqLength, SMTT(30)
  <2>3. \A n \in 1..Len(acks') : n \in 1..Len(acks) \/ n = Len(acks) + 1 BY <2>2, OneMore, Zenon
  <2>4. \A n \in 1..Len(acks) : acks[n] \in 1..Len(requests) /\ acks'[n] # i
    BY <2>1, <2>2, Zenon DEF AckInv, AckQueue
  <2>5. AckQueue'
    <3>1. ASSUME NEW n \in 1..Len(acks')
          PROVE  /\ acks'[n] \in 1..Len(requests')
                 /\ requests'[acks'[n]].kind \in AckKinds
                 /\ requests'[acks'[n]].stage \in {"persist", "acking"}
      <4>1. CASE n = Len(acks) + 1 BY <1>3, <1>7, <2>1, <2>2, <4>1, Zenon
      <4>2. CASE n \in 1..Len(acks)
        <5>1. /\ acks[n] \in 1..Len(requests) /\ requests[acks[n]].kind \in AckKinds
              /\ requests[acks[n]].stage \in {"persist", "acking"} /\ acks'[n] = acks[n]
          BY <2>2, <4>2, Zenon DEF AckInv, AckQueue
        <5> QED BY <1>3, <2>1, <5>1, Zenon
      <4> QED BY <2>3, <4>1, <4>2, Zenon
    <3>2. ASSUME NEW m \in 1..Len(acks'), NEW n \in 1..Len(acks'), acks'[m] = acks'[n]
          PROVE  m = n
      <4>1. CASE m \in 1..Len(acks) /\ n \in 1..Len(acks)
        BY <2>2, <3>2, <4>1, Zenon DEF AckInv, AckQueue
      <4> QED BY <2>2, <2>3, <2>4, <3>2, <4>1, Zenon
    <3>3. \A n \in 1..Len(submitted') : requests'[submitted'[n]].kind \in {"group", "dm"}
      BY <1>3, <1>4, Zenon DEF AckInv, AckQueue
    <3> QED BY <2>2, <3>1, <3>2, <3>3, Zenon DEF AckQueue, AckKinds
  <2>6. \A j \in 1..Len(requests) : Durable(j)' <=> Durable(j) BY <1>3, <1>5, Zenon DEF Durable
  <2>7. AckStages'
    <3> SUFFICES ASSUME NEW j \in 1..Len(requests'), requests'[j].kind = "message_ack"
                 PROVE  /\ requests'[j].stage = "acking" => j \in receipts'
                        /\ requests'[j].stage = "written" /\ requests'[j].durable => Durable(j)'
      BY Zenon DEF AckStages
    <3>1. CASE j = i BY <1>7, <3>1, Zenon
    <3>2. CASE j # i
      <4>1. j \in 1..Len(requests) /\ requests'[j] = requests[j] BY <1>3, <3>2, OneMore, Zenon DEF i
      <4> QED BY <1>5, <2>6, <4>1, Zenon DEF AckInv, AckStages
    <3> QED BY <3>1, <3>2, Zenon
  <2>8. AckHistory' BY <1>3, <1>5, <2>1, <2>6, Zenon DEF AckInv, AckHistory
  <2> QED BY <1>3, <2>5, <2>7, <2>8, Zenon DEF AckInv
<1> QED BY <1>3, <1>6, <1>7, Zenon DEF EnterAck

-----------------------------------------------------------------------------
(* The requests of this module move on.                                     *)

(* A result is posted to the base loop.                                     *)
LEMMA PostOne ==
  ASSUME IInv, NEW i \in 1..Len(requests), posted' = Append(posted, i)
  PROVE  posted' \in Seq(Nat) /\ \A n \in 1..Len(posted') : posted'[n] \in 1..Len(requests)
<1>1. /\ posted \in Seq(Nat) /\ i \in Nat
      /\ \A n \in 1..Len(posted) : posted[n] \in 1..Len(requests)
  BY TypedRequests, SMTT(30) DEF IInv, QueueInv
<1>2. /\ posted' \in Seq(Nat) /\ Len(posted') = Len(posted) + 1 /\ Len(posted) \in Nat
      /\ \A n \in 1..Len(posted) : posted'[n] = posted[n]
      /\ posted'[Len(posted) + 1] = i
  BY <1>1, SeqAppend, SeqLength, SMTT(30)
<1> QED BY <1>1, <1>2, OneMore, Zenon

(* completeGroupHistoryRateLimit() and the others like it.                  *)
LEMMA AfterRateLimitKeeps ==
  ASSUME IInv, AckInv, NEW kind, Takes("limited", kind), NEW allowed,
         AfterRateLimit(Head(posted), allowed)
  PROVE  IInv' /\ AckInv'
<1> DEFINE i == Head(posted)
<1>1. /\ i \in 1..Len(requests) /\ requests[i].stage = "limited" /\ posted' \in Seq(Nat)
      /\ \A n \in 1..Len(posted') : posted'[n] \in 1..Len(requests)
  BY TakesHead, Zenon DEF IInv
<1>2. Untouched /\ UNCHANGED <<acks, receipts, indexes, confirmed>>
  BY Zenon DEF AfterRateLimit, DropRequest, RefuseRequest, Untouched, conns, sessions, ackVars
<1>3. PICK t \in {"done", "read"} :
        /\ requests' = [requests EXCEPT ![i] = Staged(requests[i], t)]
        /\ UNCHANGED answers \/ (ResolvePendingSender(requests[i]) /\ Answer(i, requests[i]))
  BY Zenon DEF AfterRateLimit, DropRequest, RefuseRequest, Finish, Staged
<1>4. requests[i] \in Request /\ t \in Stages BY <1>1, TypedRequests, Zenon DEF IInv, Stages
<1> HIDE DEF i
<1> DEFINE r == Staged(requests[i], t)
<1>5. /\ r \in Request /\ SameContext(requests[i], r) /\ r.msgId = requests[i].msgId
      /\ r.stage \in {"done", "read"}
  BY <1>4, ContextStage, Zenon
<1>6. requests' = [requests EXCEPT ![i] = r] BY <1>3, Zenon
<1> HIDE DEF r
<1>7. IInv' BY <1>1, <1>2, <1>3, <1>5, <1>6, MoveKeeps, Zenon
<1>8. confirmed' \subseteq 1..Len(requests) /\ \A j \in confirmed' : Durable(j)
  BY <1>2, StillConfirmed, Zenon
<1>9. AckInv' BY <1>1, <1>2, <1>5, <1>6, <1>8, AckContext, Zenon DEF Untouched
<1> QED BY <1>7, <1>9, Zenon

(* A thread of the read executor runs a query.                              *)
LEMMA QueryKeeps ==
  ASSUME IInv, AckInv, NEW i, NEW kind, kind # "message_ack", RunQuery(i, kind)
  PROVE  IInv' /\ AckInv'
<1>1. i \in 1..Len(requests) /\ requests[i].stage = "read" /\ requests[i].kind = kind
  BY TypedRequests, Zenon DEF RunQuery, IInv
<1>2. Untouched /\ UNCHANGED <<acks, receipts, indexes, confirmed, answers>>
  BY Zenon DEF RunQuery, Untouched, conns, sessions, history, ackVars
<1>3. PICK ok \in BOOLEAN : requests' = [requests EXCEPT ![i] = Written(requests[i], ok)]
  BY Zenon DEF RunQuery, Written
<1>4. requests[i] \in Request BY <1>1, TypedRequests, Zenon DEF IInv
<1>5. posted' \in Seq(Nat) /\ \A n \in 1..Len(posted') : posted'[n] \in 1..Len(requests)
  BY <1>1, PostOne, Zenon DEF RunQuery
<1> DEFINE r == Written(requests[i], ok)
<1>6. r \in Request /\ SameContext(requests[i], r) /\ r.msgId = requests[i].msgId
  BY <1>4, ContextIsWritten, Zenon
<1>7. requests' = [requests EXCEPT ![i] = r] BY <1>3, Zenon
<1> HIDE DEF r
<1>8. IInv' BY <1>1, <1>2, <1>5, <1>6, <1>7, MoveKeeps, Zenon
<1>9. confirmed' \subseteq 1..Len(requests) /\ \A j \in confirmed' : Durable(j)
  BY <1>2, StillConfirmed, Zenon
<1>10. AckInv' BY <1>1, <1>2, <1>6, <1>7, <1>9, AckContext, Zenon DEF Untouched
<1> QED BY <1>8, <1>10, Zenon

(* The base loop answers a request, if its client is still there.           *)
LEMMA RespondKeeps ==
  ASSUME IInv, AckInv, NEW kind, Takes("written", kind), NEW mayShow,
         Respond(Head(posted), mayShow), UNCHANGED <<acks, receipts, indexes>>,
         confirmed' \subseteq 1..Len(requests), \A j \in confirmed' : Durable(j)
  PROVE  IInv' /\ AckInv'
<1> DEFINE i == Head(posted)
<1>1. /\ i \in 1..Len(requests) /\ requests[i].stage = "written" /\ posted' \in Seq(Nat)
      /\ \A n \in 1..Len(posted') : posted'[n] \in 1..Len(requests)
  BY TakesHead, Zenon DEF IInv
<1>2. Untouched BY Zenon DEF Respond, Untouched, conns, sessions
<1>3. /\ requests' = [requests EXCEPT ![i] = Staged(requests[i], "done")]
      /\ UNCHANGED answers \/ (ResolvePendingSender(requests[i]) /\ Answer(i, requests[i]))
  BY Zenon DEF Respond, Finish, Staged
<1>4. requests[i] \in Request /\ "done" \in Stages BY <1>1, TypedRequests, Zenon DEF IInv, Stages
<1> HIDE DEF i
<1> DEFINE r == Staged(requests[i], "done")
<1>5. /\ r \in Request /\ SameContext(requests[i], r) /\ r.msgId = requests[i].msgId
      /\ r.stage = "done"
  BY <1>4, ContextStage, Zenon
<1>6. requests' = [requests EXCEPT ![i] = r] BY <1>3, Zenon
<1> HIDE DEF r
<1>7. IInv' BY <1>1, <1>2, <1>3, <1>5, <1>6, MoveKeeps, Zenon
<1>8. AckInv' BY <1>1, <1>2, <1>5, <1>6, AckContext, Zenon DEF Untouched
<1> QED BY <1>7, <1>8, Zenon

(* handleOfflineAckAsync() refuses.                                         *)
LEMMA OfflineAckKeeps ==
  ASSUME IInv, AckInv, NEW c \in Conns, HandleOfflineAck(c)
  PROVE  IInv' /\ AckInv'
<1> DEFINE r == Context(c, "offline_ack", None)
           s == Staged(r, "done")
<1>1. Registered(c) /\ session[key[c]] \in Accounts BY Zenon DEF HandleOfflineAck
<1>2. /\ Untouched /\ posted' = posted /\ UNCHANGED <<acks, receipts, indexes, confirmed>>
      /\ requests' = Append(requests, s) /\ Answer(Len(requests) + 1, r)
  BY Zenon DEF HandleOfflineAck, Untouched, conns, sessions, ackVars, Staged
<1>3. "offline_ack" \in Kinds /\ None \in Targets /\ "done" \in Stages
  BY Zenon DEF Kinds, Targets, Stages
<1>4. /\ s \in Request /\ s.conn = c /\ s.key = key[c] /\ s.account = session[key[c]]
      /\ s.kind = "offline_ack" /\ s.msgId = 0
  BY <1>1, <1>3, NewContext, SMTT(30)
<1>5. r.key = key[c] BY Zenon DEF Context
<1> HIDE DEF r, s
<1>6. /\ IInv' /\ Len(requests') = Len(requests) + 1 /\ Len(requests) \in Nat
      /\ requests'[Len(requests) + 1] = s
      /\ \A j \in 1..Len(requests) : requests'[j] = requests[j]
      /\ \A j \in 1..Len(requests) : SameContext(requests[j], requests'[j])
  BY <1>1, <1>2, <1>4, <1>5, ArriveKeeps, Zenon
<1>7. \A n \in 1..Len(submitted) : submitted[n] \in 1..Len(requests) BY Zenon DEF IInv, QueueInv
<1>8. \A n \in 1..Len(submitted') : \E m \in 1..Len(submitted) : submitted'[n] = submitted[m]
  BY <1>2, Zenon DEF Untouched
<1>9. AckInv' BY <1>2, <1>4, <1>6, <1>7, <1>8, AckArrive, Zenon
<1> QED BY <1>6, <1>9, Zenon

-----------------------------------------------------------------------------
(* The tasks of acknowledgements.                                           *)

(* What the message executor holds.                                         *)
LEMMA HeldAck ==
  ASSUME IInv, AckInv, NEW n \in DOMAIN acks
  PROVE  /\ n \in 1..Len(acks) /\ acks[n] \in 1..Len(requests) /\ requests[acks[n]] \in Request
         /\ requests[acks[n]].kind \in AckKinds
         /\ requests[acks[n]].stage \in {"persist", "acking"}
         /\ \A m \in 1..Len(submitted) : submitted[m] # acks[n]
<1>1. n \in 1..Len(acks) BY SMTT(30) DEF AckInv, AckQueue
<1>2. /\ acks[n] \in 1..Len(requests) /\ requests[acks[n]].kind \in AckKinds
      /\ requests[acks[n]].stage \in {"persist", "acking"}
  BY <1>1, Zenon DEF AckInv, AckQueue
<1>3. \A m \in 1..Len(submitted) : submitted[m] # acks[n]
  BY <1>2, Zenon DEF AckInv, AckQueue, AckKinds
<1> QED BY <1>1, <1>2, <1>3, TypedRequests, Zenon DEF IInv

(* The task ends.  What it reports done is durable.                         *)
LEMMA EndAckKeeps ==
  ASSUME IInv, AckInv, NEW n \in DOMAIN acks, NEW ok \in BOOLEAN, EndAck(n, ok),
         Untouched, UNCHANGED <<answers, confirmed>>,
         receipts \subseteq receipts', indexes \subseteq indexes',
         indexes' \subseteq indexes \cup {acks[n]},
         acks[n] \in indexes' /\ "messages" \in requests[acks[n]].to => acks[n] \in receipts',
         ok /\ requests[acks[n]].kind = "message_ack" =>
           /\ "messages" \in requests[acks[n]].to => acks[n] \in receipts'
           /\ "offline" \in requests[acks[n]].to => acks[n] \in indexes'
  PROVE  IInv' /\ AckInv'
<1> DEFINE i == acks[n]
           r == Written(requests[i], ok)
<1>1. /\ n \in 1..Len(acks) /\ i \in 1..Len(requests) /\ requests[i] \in Request
      /\ requests[i].kind \in AckKinds
      /\ requests[i].stage \in {"persist", "acking"}
      /\ \A m \in 1..Len(submitted) : submitted[m] # i
  BY HeldAck, Zenon
<1>2. /\ acks' = Without(acks, n) /\ requests' = [requests EXCEPT ![i] = r]
      /\ posted' = Append(posted, i)
  BY Zenon DEF EndAck, Without, Written
<1>3. /\ r \in Request /\ SameContext(requests[i], r) /\ r.stage = "written"
      /\ r.msgId = requests[i].msgId /\ r.durable = ok
  <2>1. r.durable = ok BY <1>1, Zenon DEF Written, Request
  <2> QED BY <1>1, <2>1, ContextIsWritten, Zenon
<1> HIDE DEF i, r
<1>4. posted' \in Seq(Nat) /\ \A m \in 1..Len(posted') : posted'[m] \in 1..Len(requests)
  BY <1>1, <1>2, PostOne, Zenon
<1>5. /\ IInv' /\ Len(requests') = Len(requests) /\ requests'[i] = r
      /\ \A j \in 1..Len(requests) : j # i => requests'[j] = requests[j]
      /\ \A j \in 1..Len(requests) : SameContext(requests[j], requests'[j])
  BY <1>1, <1>2, <1>3, <1>4, MoveKeeps, Zenon
<1>6. \A j \in 1..Len(requests) : requests'[j].to = requests[j].to /\ requests'[j].kind = requests[j].kind
  BY <1>5, Zenon DEF SameContext
<1>7. AckQueue'
  <2>1. acks \in Seq(Nat) /\ Len(acks) \in Nat BY SeqLength, Zenon DEF AckInv, AckQueue
  <2> DEFINE t == Without(acks, n)
  <2>2. /\ t \in Seq(Nat) /\ Len(t) = Len(acks) - 1
        /\ \A m \in 1..Len(t) : \E p \in 1..Len(acks) :
             /\ p # n /\ t[m] = acks[p] /\ p = IF m < n THEN m ELSE m + 1
    BY <1>1, <2>1, TaskLeaves, Zenon
  <2>3. acks' = t BY <1>2, Zenon
  <2> HIDE DEF t
  <2>4. /\ acks' \in Seq(Nat) /\ Len(acks') = Len(acks) - 1
        /\ \A m \in 1..Len(acks') : \E p \in 1..Len(acks) :
             /\ p # n /\ acks'[m] = acks[p] /\ p = IF m < n THEN m ELSE m + 1
    BY <2>2, <2>3, Zenon
  <2>5. ASSUME NEW m \in 1..Len(acks')
        PROVE  /\ acks'[m] \in 1..Len(requests')
               /\ requests'[acks'[m]].kind \in AckKinds
               /\ requests'[acks'[m]].stage \in {"persist", "acking"}
    <3>1. PICK p \in 1..Len(acks) : p # n /\ acks'[m] = acks[p] BY <2>4, Zenon
    <3>2. /\ acks[p] # i /\ acks[p] \in 1..Len(requests) /\ requests[acks[p]].kind \in AckKinds
          /\ requests[acks[p]].stage \in {"persist", "acking"}
      BY <1>1, <3>1, Zenon DEF AckInv, AckQueue, i
    <3> QED BY <1>5, <3>1, <3>2, Zenon
  <2>6. ASSUME NEW k \in 1..Len(acks'), NEW m \in 1..Len(acks'), acks'[k] = acks'[m]
        PROVE  k = m
    <3>1. PICK p \in 1..Len(acks) : acks'[k] = acks[p] /\ p = IF k < n THEN k ELSE k + 1
      BY <2>4, Zenon
    <3>2. PICK q \in 1..Len(acks) : acks'[m] = acks[q] /\ q = IF m < n THEN m ELSE m + 1
      BY <2>4, Zenon
    <3>3. p = q BY <2>6, <3>1, <3>2, Zenon DEF AckInv, AckQueue
    <3> QED BY <1>1, <2>1, <3>1, <3>2, <3>3, SMTT(30)
  <2>7. \A m \in 1..Len(submitted') : requests'[submitted'[m]].kind \in {"group", "dm"}
    BY <1>6, Zenon DEF Untouched, AckInv, AckQueue, IInv, QueueInv
  <2> QED BY <2>4, <2>5, <2>6, <2>7, Zenon DEF AckQueue, AckKinds
<1>8. \A j \in 1..Len(requests) : Durable(j) => Durable(j)' BY <1>6, Zenon DEF Durable
<1>9. AckStages'
  <2> SUFFICES ASSUME NEW j \in 1..Len(requests'), requests'[j].kind = "message_ack"
               PROVE  /\ requests'[j].stage = "acking" => j \in receipts'
                      /\ requests'[j].stage = "written" /\ requests'[j].durable => Durable(j)'
    BY Zenon DEF AckStages
  <2>1. CASE j = i
    <3>1. requests'[j].stage = "written" /\ requests'[j].durable = ok BY <1>3, <1>5, <2>1, Zenon
    <3>2. ok => Durable(j)' BY <1>5, <1>6, <2>1, Zenon DEF Durable, i
    <3> QED BY <3>1, <3>2, Zenon
  <2>2. CASE j # i
    <3>1. j \in 1..Len(requests) /\ requests'[j] = requests[j] BY <1>5, <2>2, Zenon
    <3> QED BY <1>8, <3>1, Zenon DEF AckInv, AckStages
  <2> QED BY <2>1, <2>2, Zenon
<1>10. AckHistory'
  <2>1. indexes' \subseteq 1..Len(requests') /\ confirmed' \subseteq 1..Len(requests')
    BY <1>1, <1>5, Zenon DEF AckInv, AckHistory, i
  <2>2. ASSUME NEW j \in indexes', "messages" \in requests'[j].to PROVE j \in receipts'
    <3>1. j \in 1..Len(requests) /\ "messages" \in requests[j].to BY <1>5, <1>6, <2>1, <2>2, Zenon
    <3> QED BY <3>1, Zenon DEF AckInv, AckHistory
  <2>3. ASSUME NEW j \in confirmed' PROVE Durable(j)'
    BY <1>8, Zenon DEF AckInv, AckHistory
  <2> QED BY <2>1, <2>2, <2>3, Zenon DEF AckHistory
<1> QED BY <1>5, <1>7, <1>9, <1>10, Zenon DEF AckInv

(* The first half has committed the receipts, the second is to come.        *)
LEMMA AckingKeeps ==
  ASSUME IInv, AckInv, NEW n \in DOMAIN acks, requests[acks[n]].stage = "persist",
         requests' = [requests EXCEPT ![acks[n]] = Staged(requests[acks[n]], "acking")],
         receipts' = receipts \cup {acks[n]}, UNCHANGED <<acks, indexes, confirmed, answers, posted>>,
         Untouched
  PROVE  IInv' /\ AckInv'
<1> DEFINE i == acks[n]
           r == Staged(requests[i], "acking")
<1>1. /\ i \in 1..Len(requests) /\ requests[i] \in Request /\ requests[i].kind \in AckKinds
      /\ \A m \in 1..Len(submitted) : submitted[m] # i
  BY HeldAck, Zenon
<1>2. "acking" \in Stages BY Zenon DEF Stages
<1>3. /\ r \in Request /\ SameContext(requests[i], r) /\ r.stage = "acking"
      /\ r.msgId = requests[i].msgId
  BY <1>1, <1>2, ContextStage, Zenon
<1>4. requests' = [requests EXCEPT ![i] = r] BY Zenon DEF Staged
<1> HIDE DEF r
<1>5. posted' \in Seq(Nat) /\ \A m \in 1..Len(posted') : posted'[m] \in 1..Len(requests)
  BY Zenon DEF IInv, QueueInv
<1>6. /\ IInv' /\ Len(requests') = Len(requests) /\ requests'[i] = r
      /\ \A j \in 1..Len(requests) : j # i => requests'[j] = requests[j]
      /\ \A j \in 1..Len(requests) : SameContext(requests[j], requests'[j])
  BY <1>1, <1>3, <1>4, <1>5, MoveKeeps, Zenon
<1>7. \A j \in 1..Len(requests) : requests'[j].to = requests[j].to /\ requests'[j].kind = requests[j].kind
  BY <1>6, Zenon DEF SameContext
<1> HIDE DEF i
<1>8. AckQueue'
  <2>1. acks' = acks /\ acks' \in Seq(Nat) BY Zenon DEF AckInv, AckQueue
  <2>2. ASSUME NEW m \in 1..Len(acks)
        PROVE  /\ acks[m] \in 1..Len(requests')
               /\ requests'[acks[m]].kind \in AckKinds
               /\ requests'[acks[m]].stage \in {"persist", "acking"}
    <3>1. /\ acks[m] \in 1..Len(requests) /\ requests[acks[m]].kind \in AckKinds
          /\ requests[acks[m]].stage \in {"persist", "acking"}
      BY Zenon DEF AckInv, AckQueue
    <3> QED BY <1>3, <1>6, <1>7, <3>1, Zenon
  <2>3. \A m \in 1..Len(submitted') : requests'[submitted'[m]].kind \in {"group", "dm"}
    BY <1>7, SMTT(30) DEF Untouched, AckInv, AckQueue, IInv, QueueInv
  <2>4. \A k, m \in 1..Len(acks) : acks[k] = acks[m] => k = m BY Zenon DEF AckInv, AckQueue
  <2> QED BY <2>1, <2>2, <2>3, <2>4 DEF AckQueue, AckKinds
<1>9. \A j \in 1..Len(requests) : Durable(j) => Durable(j)' BY <1>7, Zenon DEF Durable
<1>10. AckStages'
  <2> SUFFICES ASSUME NEW j \in 1..Len(requests'), requests'[j].kind = "message_ack"
               PROVE  /\ requests'[j].stage = "acking" => j \in receipts'
                      /\ requests'[j].stage = "written" /\ requests'[j].durable => Durable(j)'
    BY Zenon DEF AckStages
  <2>1. CASE j = i BY <1>3, <1>6, <2>1, Zenon DEF i
  <2>2. CASE j # i
    <3>1. j \in 1..Len(requests) /\ requests'[j] = requests[j] BY <1>6, <2>2, Zenon
    <3> QED BY <1>9, <3>1, Zenon DEF AckInv, AckStages
  <2> QED BY <2>1, <2>2, Zenon
<1>11. AckHistory'
  <2>1. indexes' \subseteq 1..Len(requests') /\ confirmed' \subseteq 1..Len(requests')
    BY <1>6, Zenon DEF AckInv, AckHistory
  <2>2. ASSUME NEW j \in indexes', "messages" \in requests'[j].to PROVE j \in receipts'
    BY <1>6, <1>7, <2>1, <2>2, Zenon DEF AckInv, AckHistory
  <2>3. ASSUME NEW j \in confirmed' PROVE Durable(j)' BY <1>9, Zenon DEF AckInv, AckHistory
  <2> QED BY <2>1, <2>2, <2>3, Zenon DEF AckHistory
<1> QED BY <1>6, <1>8, <1>10, <1>11, Zenon DEF AckInv

(* The three tasks.                                                         *)
LEMMA AckTasksKeep ==
  ASSUME IInv, AckInv, AckTasks
  PROVE  IInv' /\ AckInv'
<1>1. PICK n \in DOMAIN acks : AckMessages(n) \/ AckOfflineMessages(n) \/ MarkConversationRead(n)
  BY Zenon DEF AckTasks
<1> DEFINE i == acks[n]
<1>2. /\ i \in 1..Len(requests) /\ requests[i].kind \in AckKinds
      /\ requests[i].stage \in {"persist", "acking"}
  BY HeldAck, Zenon
<1>3. Untouched /\ UNCHANGED <<answers, confirmed>>
  BY <1>1, Zenon DEF AckMessages, AckOfflineMessages, MarkConversationRead, Untouched, conns, sessions, history
<1>4. i \in indexes /\ "messages" \in requests[i].to => i \in receipts
  BY Zenon DEF AckInv, AckHistory
<1>5. CASE AckMessages(n)
  <2>1. requests[i].stage = "persist"
    BY <1>5, Zenon DEF AckMessages, Parts
  <2>2. indexes' = indexes BY <1>5, Zenon DEF AckMessages
  <2>3. CASE receipts' = receipts \cup {i} /\ "offline" \notin requests[i].to /\ EndAck(n, TRUE)
    BY <1>3, <1>4, <2>2, <2>3, EndAckKeeps, Zenon
  <2>4. CASE receipts' = receipts /\ EndAck(n, FALSE)
    BY <1>3, <1>4, <2>2, <2>4, EndAckKeeps
  <2>5. CASE /\ receipts' = receipts \cup {i} /\ UNCHANGED <<acks, posted>>
             /\ requests' = [requests EXCEPT ![i].stage = "acking"]
    <3>1. requests' = [requests EXCEPT ![i] = Staged(requests[i], "acking")] BY <2>5, Zenon DEF Staged
    <3> QED BY <1>3, <2>1, <2>2, <2>5, <3>1, AckingKeeps, Zenon
  <2> QED BY <1>5, <2>3, <2>4, <2>5, Zenon DEF AckMessages
<1>6. CASE AckOfflineMessages(n)
  <2>1. requests[i].kind = "message_ack" BY <1>2, <1>6, Zenon DEF AckOfflineMessages, Parts, AckKinds
  <2>2. "messages" \in requests[i].to => i \in receipts
    <3>1. CASE requests[i].stage = "acking" BY <1>2, <2>1, <3>1, Zenon DEF AckInv, AckStages
    <3>2. CASE requests[i].stage = "persist"
      <4>1. requests[i].to = {"offline"} BY <1>6, <2>1, <3>2, Zenon DEF AckOfflineMessages, Parts
      <4> QED BY <4>1, Zenon
    <3> QED BY <1>2, <3>1, <3>2, Zenon
  <2>3. receipts' = receipts BY <1>6, Zenon DEF AckOfflineMessages
  <2>4. CASE indexes' = indexes \cup {i} /\ EndAck(n, TRUE)
    BY <1>3, <2>2, <2>3, <2>4, EndAckKeeps
  <2>5. CASE indexes' = indexes /\ EndAck(n, FALSE)
    BY <1>3, <2>2, <2>3, <2>5, EndAckKeeps, Zenon
  <2> QED BY <1>6, <2>4, <2>5, Zenon DEF AckOfflineMessages
<1>7. CASE MarkConversationRead(n)
  <2>1. PICK ok \in BOOLEAN : EndAck(n, ok) BY <1>7, Zenon DEF MarkConversationRead
  <2>2. /\ requests[i].kind # "message_ack" /\ receipts' = receipts /\ indexes' = indexes
    BY <1>7, Zenon DEF MarkConversationRead
  <2> QED BY <1>3, <1>4, <2>1, <2>2, EndAckKeeps
<1> QED BY <1>1, <1>5, <1>6, <1>7, Zenon

-----------------------------------------------------------------------------
(* The whole.                                                               *)

(* The handlers.                                                            *)
LEMMA RequestClientsKeep ==
  ASSUME IInv, AckInv, RequestClients
  PROVE  IInv' /\ AckInv'
<1>1. PICK c \in Conns :
        \/ HandleGroupHistory(c) \/ HandleDmHistory(c) \/ (\E s \in Cursors : HandleSync(c, s))
        \/ HandleOfflineList(c) \/ HandleConversationList(c) \/ HandleOfflineAck(c)
        \/ \E p \in AckParts : HandleMessageAck(c, p)
        \/ \E t \in {"direct", "group"} : HandleConversationRead(c, t)
  BY Zenon DEF RequestClients
<1>2. FirstStage \in {"limit", "read"} BY Zenon DEF FirstStage
<1>3. /\ \A k \in {"group_history", "dm_history", "sync", "offline_list", "conversation_list"} :
           k \in Kinds \ ({"dm"} \cup AckKinds)
      /\ None \in Targets /\ Cursors \subseteq Targets /\ AckParts \subseteq Targets
      /\ {"direct", "group"} \subseteq Targets
  BY Zenon DEF Kinds, AckKinds, Targets, Cursors, AckParts
<1>4. CASE HandleGroupHistory(c) BY <1>2, <1>3, <1>4, QueryArrives, Zenon DEF HandleGroupHistory
<1>5. CASE HandleDmHistory(c) BY <1>2, <1>3, <1>5, QueryArrives, Zenon DEF HandleDmHistory
<1>6. CASE \E s \in Cursors : HandleSync(c, s)
  BY <1>2, <1>3, <1>6, QueryArrives, Zenon DEF HandleSync
<1>7. CASE HandleOfflineList(c) BY <1>3, <1>7, QueryArrives, Zenon DEF HandleOfflineList
<1>8. CASE HandleConversationList(c) BY <1>3, <1>8, QueryArrives, Zenon DEF HandleConversationList
<1>9. CASE HandleOfflineAck(c) BY <1>9, OfflineAckKeeps, Zenon
<1>10. CASE \E p \in AckParts : HandleMessageAck(c, p)
  BY <1>3, <1>10, AckArrives, Zenon DEF HandleMessageAck, AckKinds
<1>11. CASE \E t \in {"direct", "group"} : HandleConversationRead(c, t)
  BY <1>3, <1>11, AckArrives, Zenon DEF HandleConversationRead, AckKinds
<1> QED BY <1>1, <1>4, <1>5, <1>6, <1>7, <1>8, <1>9, <1>10, <1>11

(* The completions.  A confirmed acknowledgement was written and durable.   *)
LEMMA RequestCompletionKeeps ==
  ASSUME IInv, AckInv, RequestCompletion
  PROVE  IInv' /\ AckInv'
<1>1. ASSUME NEW kind, Takes("written", kind), NEW m, Respond(Head(posted), m), UNCHANGED ackVars
      PROVE  IInv' /\ AckInv'
  <2>1. /\ UNCHANGED <<acks, receipts, indexes>> /\ confirmed' \subseteq 1..Len(requests)
        /\ \A j \in confirmed' : Durable(j)
    BY <1>1, StillConfirmed, Zenon DEF ackVars
  <2> QED BY <1>1, <2>1, RespondKeeps, Zenon
<1>2. CASE CompleteGroupHistoryRateLimit \/ CompleteDmHistoryRateLimit \/ CompleteSyncRateLimit
  BY <1>2, AfterRateLimitKeeps, Zenon
  DEF CompleteGroupHistoryRateLimit, CompleteDmHistoryRateLimit, CompleteSyncRateLimit
<1>3. CASE CompleteGroupHistory \/ CompleteDmHistory \/ CompleteSync
  BY <1>1, <1>3, Zenon DEF CompleteGroupHistory, CompleteDmHistory, CompleteSync
<1>4. CASE CompleteOfflineList \/ CompleteConversationList \/ CompleteConversationRead
  BY <1>1, <1>4, Zenon DEF CompleteOfflineList, CompleteConversationList, CompleteConversationRead
<1>5. CASE CompleteMessageAck
  <2> DEFINE i == Head(posted)
  <2>1. /\ Takes("written", "message_ack") /\ Respond(i, TRUE) /\ UNCHANGED <<acks, receipts, indexes>>
        /\ confirmed' = confirmed \/ (requests[i].durable /\ confirmed' = confirmed \cup {i})
    BY <1>5, Zenon DEF CompleteMessageAck
  <2>2. i \in 1..Len(requests) /\ requests[i].stage = "written" /\ requests[i].kind = "message_ack"
    BY <2>1, TakesHead, Zenon DEF IInv
  <2>3. requests[i].durable => Durable(i) BY <2>2, Zenon DEF AckInv, AckStages
  <2>4. confirmed' \subseteq 1..Len(requests) /\ \A j \in confirmed' : Durable(j)
    BY <2>1, <2>2, <2>3, StillConfirmed, Zenon
  <2> QED BY <2>1, <2>4, RespondKeeps, Zenon
<1> QED BY <1>2, <1>3, <1>4, <1>5, Zenon DEF RequestCompletion

(* The queries.                                                             *)
LEMMA QueriesKeep ==
  ASSUME IInv, AckInv, NEW i, Queries(i)
  PROVE  IInv' /\ AckInv'
BY QueryKeeps, Zenon DEF Queries, GroupHistoryTask, DmHistoryTask, SyncTask, OfflineListTask,
                  ConversationListTask

(* Nothing is acknowledged at first.                                        *)
LEMMA InitAck == RequestInit => IInv /\ AckInv
<1> SUFFICES ASSUME RequestInit PROVE IInv /\ AckInv BY Zenon
<1>1. IInv BY InitIInv, Zenon DEF RequestInit
<1>2. /\ requests = <<>> /\ submitted = <<>> /\ acks = <<>> /\ indexes = {} /\ confirmed = {}
  BY Zenon DEF RequestInit, Init
<1>3. AckInv BY <1>2, SMTT(30) DEF AckInv, AckQueue, AckStages, AckHistory
<1> QED BY <1>1, <1>3, Zenon

(* Every step keeps the two invariants.                                     *)
LEMMA RequestStep == IInv /\ AckInv /\ [RequestNext]_allVars => IInv' /\ AckInv'
<1> SUFFICES ASSUME IInv, AckInv, [RequestNext]_allVars PROVE IInv' /\ AckInv' BY Zenon
<1>1. CASE Next /\ UNCHANGED <<ackVars, shown>> BY <1>1, NextIInv, MessagesKeepAcks, Zenon
<1>2. CASE UNCHANGED allVars
  <2>1. UNCHANGED vars /\ UNCHANGED <<requests, submitted, acks, receipts, indexes, confirmed>>
    BY <1>2, Zenon DEF allVars, vars, ackVars
  <2> QED BY <2>1, NextIInv, AckQuiet, Zenon
<1> QED
  BY <1>1, <1>2, RequestCompletionKeeps, QueriesKeep, AckTasksKeep, RequestClientsKeep
  DEF RequestNext

LEMMA RequestInvariant == RequestSpec => [](IInv /\ AckInv)
BY InitAck, RequestStep, PTL DEF RequestSpec

(* AcksAreTruthful is an invariant: an offline index is deleted only when   *)
(* the receipt is committed, and a client is told of success only when all  *)
(* it asked for is durable, whatever fails in between.                      *)
THEOREM AcksTellTheTruth == RequestSpec => []AcksAreTruthful
<1>1. AckInv => AcksAreTruthful BY Zenon DEF AckInv, AckHistory, Durable, AcksAreTruthful
<1> QED BY <1>1, RequestInvariant, PTL

(* AnswersReachSender is an invariant of all asynchronous requests          *)
(* together: histories, lists, sync, acknowledgements and read marks are    *)
(* answered on the connection that asked, as the account that asked.        *)
THEOREM AllAnswersAreDelivered == RequestSpec => []AnswersReachSender
<1>1. IInv => AnswersReachSender BY Zenon DEF IInv, AnswerInv, AnswersReachSender
<1> QED BY <1>1, RequestInvariant, PTL

(* PushesReachTheirAudience is an invariant beside them: no acknowledgement *)
(* or query disturbs the routing maps that pushes are sent by.              *)
THEOREM AllPushesAreRight == RequestSpec => []PushesReachTheirAudience
<1>1. IInv => PushesReachTheirAudience
  BY Zenon DEF IInv, ConnInv, AnswerInv, PushesReachTheirAudience
<1> QED BY <1>1, RequestInvariant, PTL

(* CommitsFollowIds is an invariant beside them too: the tasks the message  *)
(* executor runs for acknowledgements do not disturb the order of messages. *)
THEOREM OrderIsKeptAmongRequests == RequestSpec => []CommitsFollowIds
<1>1. IInv => CommitsFollowIds
  <2> SUFFICES ASSUME IInv PROVE CommitsFollowIds BY Zenon
  <2>1. DOMAIN log = 1..Len(log) BY SMTT(30) DEF IInv, QueueInv
  <2> QED BY <2>1, Zenon DEF IInv, OrderInv, CommitsFollowIds
<1> QED BY <1>1, RequestInvariant, PTL

-----------------------------------------------------------------------------
(* Content of the group goes out in Respond() alone, and there only to a    *)
(* member.                                                                  *)
LEMMA ShownStep ==
  GroupContentStaysInside /\ [RequestNext]_allVars => GroupContentStaysInside'
<1> SUFFICES ASSUME GroupContentStaysInside, [RequestNext]_allVars PROVE GroupContentStaysInside'
  BY Zenon
<1>1. ASSUME shown' = shown PROVE GroupContentStaysInside' BY <1>1, Zenon DEF GroupContentStaysInside
<1>2. ASSUME NEW i, NEW m, Respond(i, m),
             m /\ OfGroup(requests[i]) => session[requests[i].key] \in members
      PROVE  GroupContentStaysInside'
  <2> DEFINE x == [account |-> session[requests[i].key],
                   member |-> session[requests[i].key] \in members]
  <2>1. shown' = shown \/ (shown' = shown \cup {x} /\ m /\ OfGroup(requests[i]))
    BY <1>2, Zenon DEF Respond
  <2>2. x.member = (session[requests[i].key] \in members) BY Zenon
  <2> HIDE DEF x
  <2>3. CASE shown' = shown BY <1>1, <2>3, Zenon
  <2>4. CASE shown' = shown \cup {x} /\ m /\ OfGroup(requests[i])
    <3>1. x.member BY <1>2, <2>2, <2>4, Zenon
    <3> QED BY <2>4, <3>1, Zenon DEF GroupContentStaysInside
  <2> QED BY <2>1, <2>3, <2>4, Zenon
<1>3. CASE CompleteGroupHistory BY <1>2, <1>3, Zenon DEF CompleteGroupHistory
<1>4. CASE CompleteSync BY <1>2, <1>4, Zenon DEF CompleteSync
<1>5. CASE \/ CompleteDmHistory \/ CompleteOfflineList \/ CompleteConversationList
           \/ CompleteMessageAck \/ CompleteConversationRead
  <2>1. ~OfGroup(requests[Head(posted)])
    BY <1>5, Zenon DEF OfGroup, Takes, CompleteDmHistory, CompleteOfflineList, CompleteConversationList,
                CompleteMessageAck, CompleteConversationRead
  <2>2. Respond(Head(posted), TRUE)
    BY <1>5, Zenon DEF CompleteDmHistory, CompleteOfflineList, CompleteConversationList,
                CompleteMessageAck, CompleteConversationRead
  <2> QED BY <1>2, <2>1, <2>2, Zenon
<1>6. CASE CompleteGroupHistoryRateLimit \/ CompleteDmHistoryRateLimit \/ CompleteSyncRateLimit
  BY <1>1, <1>6, Zenon DEF CompleteGroupHistoryRateLimit, CompleteDmHistoryRateLimit,
                    CompleteSyncRateLimit, AfterRateLimit
<1>7. CASE (\E i \in 1..MaxRequests : Queries(i)) \/ AckTasks
  BY <1>1, <1>7, Zenon DEF Queries, GroupHistoryTask, DmHistoryTask, SyncTask, OfflineListTask,
                    ConversationListTask, RunQuery, AckTasks, AckMessages, AckOfflineMessages,
                    MarkConversationRead
<1>8. CASE RequestClients
  BY <1>1, <1>8 DEF RequestClients, HandleGroupHistory, HandleDmHistory, HandleSync,
                    HandleOfflineList, HandleConversationList, HandleOfflineAck, HandleMessageAck,
                    HandleConversationRead, EnterAck, Enter
<1>9. CASE UNCHANGED <<ackVars, shown>> \/ UNCHANGED allVars BY <1>1, <1>9, Zenon DEF allVars
<1> QED
  BY <1>3, <1>4, <1>5, <1>6, <1>7, <1>8, <1>9 DEF RequestNext, RequestCompletion

(* GroupContentStaysInside is an invariant: histories and sync pages of a   *)
(* group reach only who is a member when they are sent, for any number of   *)
(* accounts and requests (the last check in completeGroupHistory() and      *)
(* completeSync()).                                                         *)
THEOREM GroupContentIsKept == RequestSpec => []GroupContentStaysInside
<1>1. RequestInit => GroupContentStaysInside BY Zenon DEF RequestInit, GroupContentStaysInside
<1> QED BY <1>1, ShownStep, PTL DEF RequestSpec
=============================================================================
