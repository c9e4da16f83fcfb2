----------------------------- MODULE AcceptLoop ------------------------------
(***************************************************************************)
(* Acceptor: the edge-triggered accept loop of the base loop, and what it  *)
(* does when the process has no descriptor left.  Other threads open and   *)
(* close descriptors all the time.                                         *)
(***************************************************************************)
EXTENDS Integers

CONSTANTS
  MaxFds,        \* descriptors the process may have for all this
  MaxClients     \* bound: clients that connect

VARIABLES
  backlog,     \* connections the kernel has completed and nobody accepted
  edge,        \* epoll has an event for the listening socket
  pc,          \* where handleRead() is
  used,        \* descriptors in use: connections and other threads'
  idleFd,      \* idleFd_ is open
  served, refused,      \* clients accepted; clients accepted and closed
  ended,       \* how the last round of handleRead() ended
  clients      \* clients that connected so far

vars == <<backlog, edge, pc, used, idleFd, served, refused, ended, clients>>

Init ==
  /\ backlog = 0 /\ edge = FALSE /\ pc = "wait" /\ used = 0 /\ idleFd = TRUE
  /\ served = 0 /\ refused = 0 /\ ended = "empty" /\ clients = 0

Free == MaxFds - used - (IF idleFd THEN 1 ELSE 0)

(* The kernel completes a connection.                                       *)
Connect ==
  /\ clients < MaxClients
  /\ clients' = clients + 1 /\ backlog' = backlog + 1 /\ edge' = TRUE
  /\ UNCHANGED <<pc, used, idleFd, served, refused, ended>>

(* A connection is reset before it is accepted: ECONNABORTED, or it simply  *)
(* leaves the queue.  The loop goes on.                                     *)
Abort ==
  /\ backlog > 0
  /\ backlog' = backlog - 1 /\ refused' = refused + 1
  /\ UNCHANGED <<edge, pc, used, idleFd, served, ended, clients>>

(* Other threads take a descriptor, or a connection is closed.              *)
OpenOther ==
  /\ Free > 0 /\ used' = used + 1
  /\ UNCHANGED <<backlog, edge, pc, idleFd, served, refused, ended, clients>>

CloseOther ==
  /\ used > 0 /\ used' = used - 1
  /\ UNCHANGED <<backlog, edge, pc, idleFd, served, refused, ended, clients>>

(* Channel::handleEvent() -> handleRead().                                  *)
HandleRead ==
  /\ pc = "wait" /\ edge
  /\ edge' = FALSE /\ pc' = "accept"
  /\ UNCHANGED <<backlog, used, idleFd, served, refused, ended, clients>>

(* Mutant of Accept: one client per event.                                  *)
AcceptOne ==
  /\ pc = "accept" /\ backlog > 0 /\ Free > 0
  /\ backlog' = backlog - 1 /\ used' = used + 1 /\ served' = served + 1
  /\ pc' = "wait" /\ ended' = "empty"
  /\ UNCHANGED <<edge, idleFd, refused, clients>>

(* A client is accepted and given to newConnectionCallback_.                *)
Accept ==
  /\ pc = "accept" /\ backlog > 0 /\ Free > 0
  /\ backlog' = backlog - 1 /\ used' = used + 1 /\ served' = served + 1
  /\ UNCHANGED <<edge, pc, idleFd, refused, ended, clients>>

(* EAGAIN: the queue is empty.                                              *)
AcceptNothing ==
  /\ pc = "accept" /\ backlog = 0
  /\ pc' = "wait" /\ ended' = "empty"
  /\ UNCHANGED <<backlog, edge, used, idleFd, served, refused, clients>>

(* Any errno the loop has no branch for (ENOBUFS, ENOMEM, ENETDOWN...): it  *)
(* is logged and the loop is left.                                          *)
AcceptError ==
  /\ pc = "accept"
  /\ pc' = "wait" /\ ended' = "error"
  /\ UNCHANGED <<backlog, edge, used, idleFd, served, refused, clients>>

(* EMFILE: handleFdExhaustion() gives up its spare descriptor, ...          *)
Exhausted ==
  /\ pc = "accept" /\ Free = 0
  /\ idleFd' = FALSE /\ pc' = "refuse" /\ ended' = "exhausted"
  /\ UNCHANGED <<backlog, edge, used, served, refused, clients>>

(* ...accepts and closes one client, unless another thread was quicker, ... *)
RefuseOne ==
  /\ pc = "refuse"
  /\ IF backlog > 0 /\ Free > 0
     THEN backlog' = backlog - 1 /\ refused' = refused + 1
     ELSE UNCHANGED <<backlog, refused>>
  /\ pc' = "reopen"
  /\ UNCHANGED <<edge, used, idleFd, served, ended, clients>>

(* ...opens the spare again, if it can, and leaves the loop.                *)
Reopen ==
  /\ pc = "reopen"
  /\ idleFd' = (Free > 0) /\ pc' = "wait"
  /\ UNCHANGED <<backlog, edge, used, served, refused, ended, clients>>

Next ==
  \/ Connect \/ Abort \/ OpenOther \/ CloseOther
  \/ HandleRead \/ Accept \/ AcceptNothing \/ AcceptError \/ Exhausted \/ RefuseOne \/ Reopen

Spec == Init /\ [][Next]_vars

-----------------------------------------------------------------------------
(* A client is left in the queue without a pending event only after a round *)
(* that accept() cut short, for lack of a descriptor or with an error the   *)
(* loop does not know; the next client that connects brings it out again.   *)
(* No client is lost to the books.                                          *)
NobodyIsForgotten ==
  /\ pc = "wait" /\ ~edge /\ backlog > 0 => ended \in {"exhausted", "error"}
  /\ clients = backlog + served + refused
=============================================================================
