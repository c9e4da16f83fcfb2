-------------------------- MODULE ServerLifecycle --------------------------
(***************************************************************************)
(* The life of connections in TcpServer and the graceful stop: the base    *)
(* loop (Acceptor, connections_, the sessions of Imservice) and the io     *)
(* loops exchange functors through EventLoop::queueInLoop; file            *)
(* descriptors are reused by the kernel as soon as they are closed.        *)
(*                                                                         *)
(* A thread is an EventLoop: it swaps its pending functors into a batch    *)
(* and runs the batch to the end; events are handled between batches.  A   *)
(* functor runs as one step, except for two.  The creation functor of an   *)
(* io loop tests stopping_ and posts to the base loop later.  The removal  *)
(* functor of the base loop posts connectionDestroyed() to the io loop and *)
(* then reads conn->fd() once more, while that loop may run closeFd().     *)
(***************************************************************************)
EXTENDS Integers, Sequences, FiniteSets

CONSTANTS
  Conns,      \* TcpConnection objects, one for each accepted socket
  Fds,        \* file descriptors the kernel can hand out
  Loops,      \* the io loops of iothreadPool_ (at least one)
  Base,       \* the base loop
  NoConn,     \* an empty entry of a map
  MaxMessages \* bound: frames the peers send in one behaviour

ASSUME LifecycleAssumption ==
  /\ Base \notin Loops /\ NoConn \notin Conns
  /\ Fds # {} /\ Loops # {}
  /\ MaxMessages \in Nat

Threads == Loops \cup {Base}

VARIABLES
  stage,        \* of a connection: "unused", "accepted", "created", "refused"
  fd,           \* fd_ of each connection
  loopOf,       \* loop_ of each connection
  connected,    \* connections whose connected_ is true
  channel,      \* connections whose channel_ is registered
  closed,       \* connections whose fdClosed_ is true
  connections,  \* TcpServer::connections_, by fd
  session,      \* SessionManager::sessions_, by fd: whose message created it
  leaving,      \* the connection the base loop is removing, before onDisconnect()
  missed,       \* history: connections whose session onDisconnect() missed
  stopping, finalStopQueued, stopped,
  todo,         \* pendingFunctors_ of each loop
  batch,        \* what remains of the batch a loop is running
  creating,     \* the io loops inside the creation functor, past its test
  quit,         \* loops whose quit_ is set
  exited,       \* loops whose thread has ended; the EventLoop is destroyed
  joining,      \* the base loop is inside iothreadPool_->stop()
  crashed,      \* a functor was posted to a destroyed EventLoop
  messages      \* frames sent so far

net    == <<stage, fd, loopOf, connected, channel, closed>>
server == <<connections, session, leaving, missed, stopping, finalStopQueued, stopped>>
loops  == <<todo, batch, creating, quit, exited, joining, crashed>>
vars   == <<net, server, loops, messages>>

Functor(op, c) == [op |-> op, conn |-> c]
Post(q, t, op, c) == [q EXCEPT ![t] = Append(@, Functor(op, c))]

Init ==
  /\ stage = [c \in Conns |-> "unused"]
  /\ fd \in [Conns -> {CHOOSE f \in Fds : TRUE}]
  /\ loopOf \in [Conns -> {CHOOSE l \in Loops : TRUE}]
  /\ connected = {} /\ channel = {} /\ closed = {}
  /\ connections = [f \in Fds |-> NoConn] /\ session = [f \in Fds |-> NoConn]
  /\ leaving = NoConn /\ missed = {}
  /\ stopping = FALSE /\ finalStopQueued = FALSE /\ stopped = FALSE
  /\ todo = [t \in Threads |-> <<>>] /\ batch = [t \in Threads |-> <<>>]
  /\ creating = [l \in Loops |-> NoConn]
  /\ quit = {} /\ exited = {} /\ joining = FALSE /\ crashed = FALSE
  /\ messages = 0

-----------------------------------------------------------------------------
(* References.  A functor that captured a shared_ptr keeps its connection   *)
(* alive; forceClose and message functors hold a weak_ptr.  The destructor  *)
(* of an unreferenced connection closes its descriptor.  (The functor that  *)
(* runs holds a reference too; nothing is accepted before it ends.)         *)

Strong == {"register", "remove", "established", "destroyed"}

Referenced(c) ==
  \/ \E f \in Fds : connections[f] = c
  \/ \E t \in Threads : \E i \in 1..Len(todo[t]) : todo[t][i].conn = c /\ todo[t][i].op \in Strong
  \/ \E t \in Threads : \E i \in 1..Len(batch[t]) : batch[t][i].conn = c /\ batch[t][i].op \in Strong

FdOpen(c) ==
  \/ stage[c] = "accepted"
  \/ stage[c] = "created" /\ c \notin closed /\ Referenced(c)

FreeFds == Fds \ {fd[c] : c \in {x \in Conns : FdOpen(x)}}

-----------------------------------------------------------------------------
(* EventLoop::loop() and doPendingFunctors().                               *)

Running(t) == t \notin exited /\ ~crashed /\ (t = Base => ~joining /\ leaving = NoConn)
Idle(t)    == Running(t) /\ batch[t] = <<>> /\ (t \in Loops => creating[t] = NoConn)

Swap(t) ==
  /\ Idle(t) /\ t \notin quit /\ todo[t] # <<>>
  /\ batch' = [batch EXCEPT ![t] = todo[t]]
  /\ todo' = [todo EXCEPT ![t] = <<>>]
  /\ UNCHANGED <<net, server, creating, quit, exited, joining, crashed, messages>>

(* loop() returns; functors that were not swapped in are destroyed unrun.   *)
ExitLoop(t) ==
  /\ Idle(t) /\ t \in quit
  /\ exited' = exited \cup {t}
  /\ todo' = [todo EXCEPT ![t] = <<>>]
  /\ UNCHANGED <<net, server, batch, creating, quit, joining, crashed, messages>>

(* The functor at the head of t's batch.                                    *)
Runs(t, op, c) ==
  /\ Running(t) /\ (t \in Loops => creating[t] = NoConn)
  /\ batch[t] # <<>> /\ Head(batch[t]) = Functor(op, c)
  /\ batch' = [batch EXCEPT ![t] = Tail(@)]

-----------------------------------------------------------------------------
(* The io loops.                                                            *)

(* handleClose() and forceCloseInLoop(): connected_.exchange(false), the    *)
(* channel leaves epoll, closeCallback_ posts the removal.                  *)
HandleClose(c) ==
  /\ connected' = connected \ {c}
  /\ channel' = channel \ {c}
  /\ todo' = Post(todo, Base, "remove", c)

(* The creation functor of newConnection(): its test of stopping_.          *)
CreateCheck(l, c) ==
  /\ Runs(l, "create", c)
  /\ IF stopping
     THEN /\ stage' = [stage EXCEPT ![c] = "refused"]
          /\ UNCHANGED creating
     ELSE /\ creating' = [creating EXCEPT ![l] = c]
          /\ UNCHANGED stage
  /\ UNCHANGED <<fd, loopOf, connected, channel, closed, server, todo, quit, exited, joining,
                 crashed, messages>>

(* The TcpConnection exists and its registration is posted.                 *)
CreatePost(l) ==
  /\ Running(l) /\ creating[l] # NoConn
  /\ stage' = [stage EXCEPT ![creating[l]] = "created"]
  /\ connected' = connected \cup {creating[l]}
  /\ todo' = Post(todo, Base, "register", creating[l])
  /\ creating' = [creating EXCEPT ![l] = NoConn]
  /\ UNCHANGED <<fd, loopOf, channel, closed, server, batch, quit, exited, joining, crashed, messages>>

(* connectionEstablished(): the channel starts reading, or the connection   *)
(* closes.                                                                  *)
Established(l, c) ==
  /\ Runs(l, "established", c)
  /\ \/ channel' = channel \cup {c} /\ UNCHANGED <<connected, todo>>
     \/ HandleClose(c)
  /\ UNCHANGED <<stage, fd, loopOf, closed, server, creating, quit, exited, joining, crashed, messages>>

(* A posted forceClose(): nothing if the connection is closed or gone.  The *)
(* base loop frees a functor it ran only at the end of the batch, so a      *)
(* connection nobody else refers to may still be there.                     *)
ForceClose(l, c) ==
  /\ Runs(l, "forceClose", c)
  /\ \/ c \in connected /\ HandleClose(c)
     \/ (c \notin connected \/ ~Referenced(c)) /\ UNCHANGED <<connected, channel, todo>>
  /\ UNCHANGED <<stage, fd, loopOf, closed, server, creating, quit, exited, joining, crashed, messages>>

(* connectionDestroyed(): closeFd(), which also sets fd_ to -1.  Only       *)
(* OnDisconnect reads fd_ of such a connection; fd here keeps the number.   *)
Destroyed(l, c) ==
  /\ Runs(l, "destroyed", c)
  /\ closed' = closed \cup {c}
  /\ channel' = channel \ {c}
  /\ UNCHANGED <<stage, fd, loopOf, connected, server, todo, creating, quit, exited, joining,
                 crashed, messages>>

(* Mutant of PeerCloses: the descriptor is closed together with the channel. *)
PeerClosesFd(c) ==
  /\ c \in channel /\ Idle(loopOf[c])
  /\ HandleClose(c)
  /\ closed' = closed \cup {c}
  /\ UNCHANGED <<stage, fd, loopOf, server, batch, creating, quit, exited, joining, crashed,
                 messages>>

(* An event on the channel ends in handleClose().                           *)
PeerCloses(c) ==
  /\ c \in channel /\ Idle(loopOf[c])
  /\ HandleClose(c)
  /\ UNCHANGED <<stage, fd, loopOf, closed, server, batch, creating, quit, exited, joining,
                 crashed, messages>>

(* handleRead() completes a frame: messageCallback_ posts it.               *)
PeerSends(c) ==
  /\ c \in channel /\ Idle(loopOf[c]) /\ messages < MaxMessages
  /\ todo' = Post(todo, Base, "message", c)
  /\ messages' = messages + 1
  /\ UNCHANGED <<net, server, batch, creating, quit, exited, joining, crashed>>

-----------------------------------------------------------------------------
(* The base loop.                                                           *)

(* Acceptor::handleRead() and newConnection().  The kernel picks any        *)
(* descriptor that is not open, getNextLoop() some io loop.                 *)
Accept(c, f, l) ==
  /\ Idle(Base) /\ ~stopping
  /\ stage[c] = "unused" /\ f \in FreeFds
  /\ IF connections[f] # NoConn
     THEN /\ stage' = [stage EXCEPT ![c] = "refused"]
          /\ UNCHANGED <<fd, loopOf, todo>>
     ELSE /\ stage' = [stage EXCEPT ![c] = "accepted"]
          /\ fd' = [fd EXCEPT ![c] = f]
          /\ loopOf' = [loopOf EXCEPT ![c] = l]
          /\ todo' = Post(todo, l, "create", c)
  /\ UNCHANGED <<connected, channel, closed, server, batch, creating, quit, exited, joining,
                 crashed, messages>>

(* tryFinishStopInBaseLoop() and finishStopInBaseLoop(), given the state of *)
(* the registry and of stopping_ when it is called.  The executors drain    *)
(* before the finalization is queued.                                       *)
TryFinishStop(registry, stop, q) ==
  LET finish == stop /\ (\A f \in Fds : registry[f] = NoConn) /\ ~finalStopQueued IN
  /\ finalStopQueued' = (finalStopQueued \/ finish)
  /\ todo' = IF finish THEN Post(q, Base, "finalize", NoConn) ELSE q

(* The registration functor of newConnection().                             *)
AddConnection(c) ==
  /\ Runs(Base, "register", c)
  /\ IF stopping
     THEN /\ crashed' = (loopOf[c] \in exited)
          /\ todo' = IF crashed' THEN todo ELSE Post(todo, loopOf[c], "forceClose", c)
          /\ UNCHANGED connections
     ELSE /\ connections' = [connections EXCEPT ![fd[c]] = c]
          /\ todo' = Post(todo, loopOf[c], "established", c)
          /\ UNCHANGED crashed
  /\ UNCHANGED <<net, session, leaving, missed, stopping, finalStopQueued, stopped, creating, quit,
                 exited, joining, messages>>

(* Mutant of RemoveConnection: the entry is looked up but not erased.        *)
RemoveKeepsFd(c) ==
  /\ Runs(Base, "remove", c)
  /\ leaving' = c
  /\ UNCHANGED <<net, connections, session, missed, stopping, finalStopQueued, stopped, todo, creating,
                 quit, exited, joining, crashed, messages>>

(* removeConnectionInBaseLoop(): erased by descriptor, whatever is stored,  *)
(* and connectionDestroyed() is posted.                                     *)
RemoveConnection(c) ==
  /\ Runs(Base, "remove", c)
  /\ connections' = [connections EXCEPT ![fd[c]] = NoConn]
  /\ todo' = IF connections[fd[c]] # NoConn THEN Post(todo, loopOf[c], "destroyed", c) ELSE todo
  /\ leaving' = c
  /\ UNCHANGED <<net, session, missed, stopping, finalStopQueued, stopped, creating, quit, exited,
                 joining, crashed, messages>>

(* Mutant of OnDisconnect: the session is not erased.                       *)
DisconnectKeepsSession ==
  /\ leaving # NoConn /\ ~crashed
  /\ TryFinishStop(connections, stopping, todo)
  /\ leaving' = NoConn
  /\ UNCHANGED <<net, connections, session, missed, stopping, stopped, batch, creating, quit, exited,
                 joining, crashed, messages>>

(* Mutant of OnDisconnect: it does not look whether a stop waits for it.    *)
DisconnectForgetsStop ==
  /\ leaving # NoConn /\ ~crashed
  /\ session' = [session EXCEPT ![fd[leaving]] = NoConn]
  /\ leaving' = NoConn
  /\ UNCHANGED <<net, connections, missed, stopping, finalStopQueued, stopped, todo, batch, creating,
                 quit, exited, joining, crashed, messages>>

(* The rest of it: onDisconnect() reads conn->fd() anew.  Once the io loop  *)
(* has begun closeFd() that is the descriptor or -1, and with -1 the        *)
(* session stays where it is.                                               *)
OnDisconnect ==
  /\ leaving # NoConn /\ ~crashed
  /\ LET f == fd[leaving] IN
     \/ session' = [session EXCEPT ![f] = NoConn] /\ UNCHANGED missed
     \/ /\ leaving \in closed
        /\ missed' = missed \cup ({session[f]} \ {NoConn})
        /\ UNCHANGED session
  /\ TryFinishStop(connections, stopping, todo)
  /\ leaving' = NoConn
  /\ UNCHANGED <<net, connections, stopping, stopped, batch, creating, quit, exited, joining, crashed,
                 messages>>

(* The message functor, TcpServer::onMessage() and getOrCreate().           *)
Message(c) ==
  /\ Runs(Base, "message", c)
  /\ session' = IF c \in connected /\ ~stopping /\ session[fd[c]] = NoConn
                THEN [session EXCEPT ![fd[c]] = c] ELSE session
  /\ UNCHANGED <<net, connections, leaving, missed, stopping, finalStopQueued, stopped, todo, creating,
                 quit, exited, joining, crashed, messages>>

(* The orders in which a loop may visit the members of a set.               *)
Orders(S) ==
  {s \in UNION {[1..n -> S] : n \in 0..Cardinality(S)} :
     /\ \A i, j \in 1..Len(s) : s[i] = s[j] => i = j
     /\ \A x \in S : \E i \in 1..Len(s) : s[i] = x}

(* stopInBaseLoop(): a second call returns at once.  connections_ is an     *)
(* unordered map, so each io loop is sent its closes in some order.         *)
Stop ==
  /\ Idle(Base) /\ ~stopping
  /\ stopping' = TRUE
  /\ LET open  == {connections[f] : f \in Fds} \ {NoConn}
         on(l) == {c \in open : loopOf[c] = l}
     IN \E order \in [Loops -> UNION {Orders(S) : S \in SUBSET open}] :
          /\ \A l \in Loops : order[l] \in Orders(on(l))
          /\ TryFinishStop(connections, TRUE,
               [t \in Threads |-> IF t = Base THEN todo[t]
                 ELSE todo[t] \o [i \in 1..Len(order[t]) |-> Functor("forceClose", order[t][i])]])
  /\ UNCHANGED <<net, connections, session, leaving, missed, stopped, batch, creating, quit, exited,
                 joining, crashed, messages>>

(* finalizeStopInBaseLoop() up to iothreadPool_->stop().                    *)
Finalize ==
  /\ Runs(Base, "finalize", NoConn)
  /\ stopped' = TRUE
  /\ session' = IF stopped THEN session ELSE [f \in Fds |-> NoConn]
  /\ joining' = ~stopped
  /\ UNCHANGED <<net, connections, leaving, missed, stopping, finalStopQueued, todo, creating, quit,
                 exited, crashed, messages>>

(* EventLoopThreadPool::stop(): one io thread after the other is told to    *)
(* quit and joined; then quitCallback_ ends the base loop.                  *)
JoinLoop(l) ==
  /\ joining /\ l \notin quit /\ quit \subseteq exited
  /\ quit' = quit \cup {l}
  /\ UNCHANGED <<net, server, todo, batch, creating, exited, joining, crashed, messages>>

Joined ==
  /\ joining /\ Loops \subseteq exited
  /\ joining' = FALSE
  /\ quit' = quit \cup {Base}
  /\ UNCHANGED <<net, server, todo, batch, creating, exited, crashed, messages>>

-----------------------------------------------------------------------------
IoStep(l) ==
  \/ Swap(l) \/ ExitLoop(l) \/ CreatePost(l)
  \/ \E c \in Conns : CreateCheck(l, c) \/ Established(l, c) \/ ForceClose(l, c) \/ Destroyed(l, c)
BaseStep ==
  \/ Swap(Base) \/ ExitLoop(Base) \/ OnDisconnect \/ Finalize \/ Joined
  \/ \E l \in Loops : JoinLoop(l)
  \/ \E c \in Conns : AddConnection(c) \/ RemoveConnection(c) \/ Message(c)
Events ==
  \/ Stop
  \/ \E c \in Conns : PeerCloses(c) \/ PeerSends(c)
  \/ \E c \in Conns, f \in Fds, l \in Loops : Accept(c, f, l)
Ended == (Base \in exited \/ crashed) /\ UNCHANGED vars

Next == (\E l \in Loops : IoStep(l)) \/ BaseStep \/ Events \/ Ended

Spec == Init /\ [][Next]_vars

(* Every event loop keeps running its functors: epoll_wait returns after at *)
(* most a second, and a post from another thread wakes it.                  *)
FairSpec == Spec /\ WF_vars(BaseStep) /\ \A l \in Loops : WF_vars(IoStep(l))

-----------------------------------------------------------------------------
(* The base loop knows a connection by its descriptor and reads conn->fd()  *)
(* while the io loop closes descriptors: a registered connection, or one    *)
(* whose registration or removal is pending, still has its descriptor open, *)
(* so the number is nobody else's, and a removal, which erases whatever it  *)
(* finds under the number, never finds another connection.                  *)
DescriptorsStayOwned ==
  \A c \in Conns :
    LET pending(op) == \E q \in {todo[Base], batch[Base]} : \E i \in 1..Len(q) : q[i] = Functor(op, c)
    IN /\ (connections[fd[c]] = c \/ pending("register") \/ pending("remove")) => FdOpen(c)
       /\ pending("remove") => connections[fd[c]] \in {c, NoConn}

(* Sessions are keyed by descriptor: a session belongs to the connection    *)
(* registered under its key, or to the one being removed.  One outlives its *)
(* connection, to be found by the next one with the same descriptor, only   *)
(* where onDisconnect() came too late to read the descriptor.               *)
SessionsFollowConnections ==
  \A f \in Fds : session[f] # NoConn => session[f] \in {connections[f], leaving} \cup missed

(* The comment at TcpServer.cpp:446: the io threads are stopped after all   *)
(* connections are closed.                                                  *)
IoStopsAfterConnections == joining => connected = {}

(* stop() ends the base loop.  (Posting to a destroyed loop is undefined    *)
(* behaviour; what follows is not modelled.)                                *)
StopTerminates == stopping ~> (Base \in exited \/ crashed)

(* The descriptor of a connection that closed is given back, by             *)
(* connectionDestroyed() or by the destructor.                              *)
ClosedIsReleased ==
  \A c \in Conns : (stage[c] = "created" /\ c \notin connected) ~> (~FdOpen(c) \/ crashed)
=============================================================================
