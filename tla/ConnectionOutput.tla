-------------------------- MODULE ConnectionOutput --------------------------
(***************************************************************************)
(* The output side of one established TcpConnection: the base loop sends   *)
(* responses with send() and broadcasts with tryReserveFrame() followed by *)
(* a posted sendReservedFrameInLoop(); the connection's io loop appends to *)
(* outputBuffer_, writes it to the socket, and enforces the water marks,   *)
(* the hard limit and the slow-connection policy.                          *)
(*                                                                         *)
(* The two threads share only atomics.  One step is one access to them, or *)
(* a run of accesses of the io loop that the base loop cannot tell apart.  *)
(* Frames are abstracted to their size.  Sizes are whatever unit the       *)
(* constants are given in; only sums and comparisons matter.               *)
(***************************************************************************)
EXTENDS Integers, Sequences

CONSTANTS
  FrameSizes,   \* frameBytes of the messages that pass the maxFrameLen test
  MaxFrame,     \* maxFrameLen + 4
  LowWater, HighWater, HardLimit,
  MaxDrops,     \* maxOverloadDropCount_
  MaxCalls      \* bound: messages handed to the connection in one behaviour

ASSUME NetConfigAssumption ==
  /\ FrameSizes \subseteq Nat \ {0} /\ MaxFrame \in Nat
  /\ \A f \in FrameSizes : f <= MaxFrame
  /\ LowWater \in Nat /\ HighWater \in Nat /\ HardLimit \in Nat
  /\ 0 < LowWater /\ LowWater <= HighWater /\ HighWater <= HardLimit
  /\ MaxDrops \in Nat \ {0} /\ MaxCalls \in Nat

VARIABLES
  connected,    \* connected_
  buffered,     \* outputBuffer_.readableBytes()
  estimate,     \* pendingBytesEstimate_
  queued,       \* queuedFrameBytes_
  overloaded,   \* overloaded_
  dropCount,    \* overloadDropCount_
  dropped,      \* droppedMessage_
  inbox,        \* functors the base loop posted to the io loop, oldest first
  base,         \* the base loop inside tryReserveFrame / sendBatchToConnKeys
  io,           \* the io loop inside one of its handlers
  calls,        \* messages handed over so far
  taken,        \* history: bytes ever reserved
  returned,     \* history: bytes ever released
  doomed        \* history: a drop reached MaxDrops and scheduled the close

atomics == <<estimate, queued, overloaded, dropCount, dropped>>
history == <<taken, returned, doomed>>
vars    == <<connected, buffered, atomics, inbox, base, io, calls, history>>

BaseStates == {"idle", "load", "loaded", "swap", "reserved", "dropped"}
IoStates   == {"idle", "release", "recover"}
Kinds      == {"send", "reserved", "close"}
IdleBase   == [pc |-> "idle", frame |-> 0, pending |-> 0, queued |-> 0, close |-> FALSE]
IdleIo     == [pc |-> "idle", frame |-> 0]

(* totalPendingEstimate() as the io loop computes it.                       *)
TotalPending == queued + buffered

Init ==
  /\ connected = TRUE /\ buffered = 0 /\ estimate = 0 /\ queued = 0
  /\ overloaded = FALSE /\ dropCount = 0 /\ dropped = 0
  /\ inbox = <<>> /\ base = IdleBase /\ io = IdleIo /\ calls = 0
  /\ taken = 0 /\ returned = 0 /\ doomed = FALSE

(* A functor of the io loop.  upTo is the history value of taken when it    *)
(* was posted: the end of its frame in the stream of reserved bytes.        *)
Functor(kind, bytes) == [kind |-> kind, bytes |-> bytes, upTo |-> taken]

-----------------------------------------------------------------------------
(* The base loop.                                                           *)

(* send() from the base loop: a closed connection ignores the call.         *)
BaseSend(f) ==
  /\ base.pc = "idle" /\ calls < MaxCalls
  /\ connected
  /\ inbox' = Append(inbox, Functor("send", f))
  /\ calls' = calls + 1
  /\ UNCHANGED <<connected, buffered, atomics, base, io, history>>

(* sendBatchToConnKeys() reaches this connection: tryReserveFrame() begins, *)
(* or answers Closed and changes nothing.                                   *)
ReserveStart(f) ==
  /\ base.pc = "idle" /\ calls < MaxCalls
  /\ connected
  /\ base' = [base EXCEPT !.pc = "load", !.frame = f]
  /\ calls' = calls + 1
  /\ UNCHANGED <<connected, buffered, atomics, inbox, io, history>>

ReserveLoadPending ==
  /\ base.pc = "load"
  /\ base' = [base EXCEPT !.pc = "loaded", !.pending = estimate]
  /\ UNCHANGED <<connected, buffered, atomics, inbox, io, calls, history>>

(* Mutant of ReserveLoadQueued: frames accepted but not yet appended are    *)
(* left out of the test against the hard limit.                             *)
ReserveIgnoringQueued ==
  /\ base.pc = "loaded"
  /\ \/ /\ base.pending + base.frame > HardLimit
        /\ dropped' = dropped + 1 /\ dropCount' = dropCount + 1
        /\ doomed' = (doomed \/ dropCount + 1 >= MaxDrops)
        /\ base' = [base EXCEPT !.pc = "dropped", !.close = (dropCount + 1 >= MaxDrops)]
     \/ /\ base.pending + base.frame <= HardLimit
        /\ base' = [base EXCEPT !.pc = "swap", !.queued = queued]
        /\ UNCHANGED <<dropped, dropCount, doomed>>
  /\ UNCHANGED <<connected, buffered, estimate, queued, overloaded, inbox, io, calls,
                 taken, returned>>

(* The second load and the test.  The drop's counters are the first half of *)
(* recordOverloadDrop().                                                    *)
ReserveLoadQueued ==
  /\ base.pc = "loaded"
  /\ \/ /\ base.pending + queued + base.frame > HardLimit
        /\ dropped' = dropped + 1 /\ dropCount' = dropCount + 1
        /\ doomed' = (doomed \/ dropCount + 1 >= MaxDrops)
        /\ base' = [base EXCEPT !.pc = "dropped", !.close = (dropCount + 1 >= MaxDrops)]
     \/ /\ base.pending + queued + base.frame <= HardLimit
        /\ base' = [base EXCEPT !.pc = "swap", !.queued = queued]
        /\ UNCHANGED <<dropped, dropCount, doomed>>
  /\ UNCHANGED <<connected, buffered, estimate, queued, overloaded, inbox, io, calls,
                 taken, returned>>

(* Mutant of ReserveDropped: the close is not scheduled.                    *)
ReserveDroppedNoClose ==
  /\ base.pc = "dropped"
  /\ overloaded' = TRUE
  /\ base' = IdleBase
  /\ UNCHANGED <<inbox, connected, buffered, estimate, queued, dropCount, dropped, io,
                 calls, history>>

(* The second half of recordOverloadDrop(): the flag, then the close.       *)
ReserveDropped ==
  /\ base.pc = "dropped"
  /\ overloaded' = TRUE
  /\ inbox' = IF base.close THEN Append(inbox, Functor("close", 0)) ELSE inbox
  /\ base' = IdleBase
  /\ UNCHANGED <<connected, buffered, estimate, queued, dropCount, dropped, io, calls, history>>

(* compare_exchange_weak: succeeds only on the value loaded, may fail even  *)
(* then; a failure starts over with a fresh load of both.                   *)
ReserveSwap ==
  /\ base.pc = "swap"
  /\ \/ /\ queued = base.queued
        /\ queued' = queued + base.frame
        /\ taken' = taken + base.frame
        /\ base' = [base EXCEPT !.pc = "reserved"]
     \/ /\ base' = [base EXCEPT !.pc = "load"]
        /\ UNCHANGED <<queued, taken>>
  /\ UNCHANGED <<connected, buffered, estimate, overloaded, dropCount, dropped, inbox,
                 io, calls, returned, doomed>>

(* enqueueFrameBatch(): the reserved frame is posted to the io loop.        *)
ReservePost ==
  /\ base.pc = "reserved"
  /\ inbox' = Append(inbox, Functor("reserved", base.frame))
  /\ base' = IdleBase
  /\ UNCHANGED <<connected, buffered, atomics, io, calls, history>>

-----------------------------------------------------------------------------
(* The io loop.  enableWriting() may fail, which closes the connection.     *)

(* sendInLoop() on an open connection.  canAccept() looks at the buffer     *)
(* alone, a drop does not set overloaded_, and scheduleCloseInLoop() runs   *)
(* at once since this is the io loop.                                       *)
SendInLoop(f) ==
  \/ /\ buffered + f > HardLimit
     /\ dropped' = dropped + 1 /\ dropCount' = dropCount + 1
     /\ connected' = (dropCount + 1 < MaxDrops)
     /\ doomed' = (doomed \/ dropCount + 1 >= MaxDrops)
     /\ UNCHANGED <<buffered, estimate, overloaded>>
  \/ /\ buffered + f <= HardLimit
     /\ buffered' = buffered + f /\ estimate' = buffered + f
     /\ overloaded' = (overloaded \/ buffered + f >= HighWater)
     /\ connected' \in BOOLEAN
     /\ UNCHANGED <<dropped, dropCount, doomed>>

(* PING and PONG are sent by the io loop itself.                            *)
IoSend(f) ==
  /\ io.pc = "idle" /\ calls < MaxCalls
  /\ connected
  /\ SendInLoop(f)
  /\ calls' = calls + 1
  /\ UNCHANGED <<queued, inbox, base, io, taken, returned>>

(* doPendingFunctors() reaches a posted send().                             *)
RunSend ==
  /\ io.pc = "idle" /\ inbox # <<>> /\ Head(inbox).kind = "send"
  /\ inbox' = Tail(inbox)
  /\ \/ connected /\ SendInLoop(Head(inbox).bytes)
     \/ /\ ~connected
        /\ UNCHANGED <<connected, buffered, estimate, overloaded, dropCount, dropped, doomed>>
  /\ UNCHANGED <<queued, base, io, calls, taken, returned>>

(* sendReservedFrameInLoop(): the frame is appended without a further test  *)
(* if the connection is open; its reservation is released in either case.   *)
RunReserved ==
  /\ io.pc = "idle" /\ inbox # <<>> /\ Head(inbox).kind = "reserved"
  /\ inbox' = Tail(inbox)
  /\ io' = [pc |-> "release", frame |-> Head(inbox).bytes]
  /\ \/ connected /\ buffered' = buffered + Head(inbox).bytes /\ estimate' = buffered'
     \/ ~connected /\ UNCHANGED <<buffered, estimate>>
  /\ UNCHANGED <<connected, queued, overloaded, dropCount, dropped, base, calls, history>>

(* releaseReservedFrame() and, on an open connection, the high water test.  *)
ReleaseReserved ==
  /\ io.pc = "release"
  /\ queued' = IF queued < io.frame THEN 0 ELSE queued - io.frame
  /\ returned' = returned + io.frame
  /\ \/ /\ connected
        /\ overloaded' = (overloaded \/ queued' + buffered > HighWater)
        /\ connected' \in BOOLEAN
     \/ ~connected /\ UNCHANGED <<overloaded, connected>>
  /\ io' = IdleIo
  /\ UNCHANGED <<buffered, estimate, dropCount, dropped, inbox, base, calls, taken, doomed>>

(* The close posted by scheduleCloseInLoop().                               *)
RunClose ==
  /\ io.pc = "idle" /\ inbox # <<>> /\ Head(inbox).kind = "close"
  /\ inbox' = Tail(inbox)
  /\ connected' = FALSE
  /\ UNCHANGED <<buffered, atomics, base, io, calls, history>>

(* One successful ::send of handleWrite(), and the decision to recover.     *)
IoWrite(n) ==
  /\ io.pc = "idle" /\ connected
  /\ buffered' = buffered - n /\ estimate' = buffered - n
  /\ io' = IF overloaded /\ queued + buffered' < LowWater
             THEN [io EXCEPT !.pc = "recover"] ELSE io
  /\ UNCHANGED <<connected, queued, overloaded, dropCount, dropped, inbox, base, calls, history>>

(* ::send takes some prefix of what is buffered.                            *)
Writes == \E n \in 1..buffered : IoWrite(n)

(* The two stores that end the overload.                                    *)
IoRecover ==
  /\ io.pc = "recover"
  /\ overloaded' = FALSE /\ dropCount' = 0
  /\ io' = IdleIo
  /\ UNCHANGED <<connected, buffered, estimate, queued, dropped, inbox, base, calls, history>>

(* handleClose() for any other reason: the peer, a socket error, a missed   *)
(* heartbeat, forceClose().                                                 *)
IoClose ==
  /\ io.pc = "idle" /\ connected
  /\ connected' = FALSE
  /\ UNCHANGED <<buffered, atomics, inbox, base, io, calls, history>>

-----------------------------------------------------------------------------
BaseStep == ReserveLoadPending \/ ReserveLoadQueued \/ ReserveDropped \/ ReserveSwap \/ ReservePost
Functors == RunSend \/ RunReserved \/ ReleaseReserved \/ RunClose \/ IoRecover

(* Nothing left to do: every call made, everything written or closed.       *)
Quiet == /\ calls = MaxCalls \/ ~connected
         /\ base.pc = "idle" /\ io.pc = "idle" /\ inbox = <<>>
         /\ UNCHANGED vars

Next ==
  \/ \E f \in FrameSizes : BaseSend(f) \/ ReserveStart(f) \/ IoSend(f)
  \/ BaseStep \/ Functors \/ Writes \/ IoClose
  \/ Quiet

Spec == Init /\ [][Next]_vars

(* Both threads keep running.  A peer that stops reading is closed by the   *)
(* missed heartbeat, so a backlog shrinks or the connection closes.  The    *)
(* base loop's retry ends because compare_exchange_weak cannot fail for     *)
(* ever while nobody else changes queuedFrameBytes_.                        *)
Fairness ==
  /\ WF_vars(BaseStep) /\ SF_vars(ReserveSwap /\ base'.pc = "reserved")
  /\ WF_vars(Functors)
  /\ WF_vars(Writes \/ (buffered > 0 /\ IoClose))
FairSpec == Spec /\ Fairness

-----------------------------------------------------------------------------
(* Every variable has the type of the member it stands for.                 *)
TypeOK ==
  /\ connected \in BOOLEAN /\ overloaded \in BOOLEAN /\ doomed \in BOOLEAN
  /\ buffered \in Nat /\ estimate \in Nat /\ queued \in Nat
  /\ dropCount \in Nat /\ dropped \in Nat /\ calls \in 0..MaxCalls
  /\ taken \in Nat /\ returned \in Nat
  /\ inbox \in Seq([kind : Kinds, bytes : Nat, upTo : Nat])
  /\ base \in [pc : BaseStates, frame : FrameSizes \cup {0}, pending : Nat, queued : Nat,
               close : BOOLEAN]
  /\ io \in [pc : IoStates, frame : Nat]

(* Bytes accepted for the peer and not yet written: the buffer, plus the    *)
(* reservations except the one whose frame is in the buffer already.        *)
Backlog == buffered + queued - (IF io.pc = "release" /\ connected THEN io.frame ELSE 0)

(* The slow-connection policy of the README, "避免输出缓冲无限增长": however *)
(* the unsynchronised loads of tryReserveFrame(), the posted frames and the *)
(* io loop's own sends interleave, the backlog of a connection stays below  *)
(* twice the hard limit plus one frame.                                     *)
MemoryBounded == Backlog <= 2 * HardLimit + MaxFrame

(* Reservations are paired with releases on every path, closed connections  *)
(* included: the "queuedFrameBytes underflow" branch of                     *)
(* releaseReservedFrame() is dead code, and when no reserved frame is under *)
(* way nothing is left reserved.                                            *)
ReservationsBalance ==
  /\ io.pc = "release" => io.frame <= queued
  /\ (/\ base.pc # "reserved" /\ io.pc # "release"
      /\ \A i \in 1..Len(inbox) : inbox[i].kind # "reserved") => queued = 0

(* A closed connection's buffer never changes again: frames that were under *)
(* way when handleClose() ran are released, not appended.                   *)
ClosedBufferIsFrozen == [][~connected => buffered' = buffered /\ ~connected']_vars

(* A slow peer is dealt with in the end: a connection whose drops reached   *)
(* the limit is closed, and an overload with bytes still to write ends in   *)
(* recovery or in the close.                                                *)
SlowPeersEnd ==
  /\ doomed ~> ~connected
  /\ (overloaded /\ buffered > 0) ~> (~overloaded \/ ~connected)
=============================================================================
