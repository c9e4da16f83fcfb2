------------------------------- MODULE Framing -------------------------------
(***************************************************************************)
(* The input of a connection: bytes arrive in pieces of any size, epoll    *)
(* reports them edge-triggered, TcpConnection::handleRead() reads them     *)
(* into a Buffer and cuts them into frames.  The Buffer is modelled with   *)
(* its storage and its two indexes, scaled down: a header is HeaderLen     *)
(* bytes.                                                                  *)
(*                                                                         *)
(* A byte is <<k, i>>, the i-th byte of the k-th frame the peer sends, so  *)
(* that a frame cut at the wrong place shows.                              *)
(***************************************************************************)
EXTENDS Integers, Sequences, FiniteSets

CONSTANTS
  HeaderLen,       \* 4
  Prepend,         \* kCheapPrepend (8)
  InitialSize,     \* 1024
  ExtraSize,       \* bytes of extrabuf (65536)
  MaxFrameLen,     \* maxFrameLen
  Streams          \* what the peer may send: sequences of frames

VARIABLES
  stream,      \* what this peer sends
  arrived,     \* bytes of it that reached the socket
  taken,       \* bytes of it that were read from the socket
  edge,        \* epoll has an event for the channel
  storage, readerIndex, writerIndex,    \* Buffer
  pc,          \* where handleRead() is
  delivered,   \* payloads given to messageCallback_
  pongs,       \* PING frames answered
  open         \* connected_

vars == <<stream, arrived, taken, edge, storage, readerIndex, writerIndex, pc, delivered, pongs, open>>

(* A frame is [len |-> Nat, control |-> BOOLEAN].                           *)
Bytes(k)   == [i \in 1..(HeaderLen + stream[k].len) |-> <<k, i>>]
Payload(k) == [i \in 1..stream[k].len |-> <<k, HeaderLen + i>>]
Offset[k \in Nat] == IF k <= 1 THEN 0 ELSE Offset[k - 1] + HeaderLen + stream[k - 1].len
Total      == Offset[Len(stream) + 1]
FrameOf(p) == CHOOSE k \in DOMAIN stream : Offset[k] < p /\ p <= Offset[k + 1]
ByteAt(p)  == <<FrameOf(p), p - Offset[FrameOf(p)]>>

Init ==
  /\ stream \in Streams
  /\ arrived = 0 /\ taken = 0 /\ edge = FALSE
  /\ storage = [i \in 0..(Prepend + InitialSize - 1) |-> <<0, 0>>]
  /\ readerIndex = Prepend /\ writerIndex = Prepend
  /\ pc = "wait" /\ delivered = <<>> /\ pongs = 0 /\ open = TRUE

-----------------------------------------------------------------------------
(* Buffer.                                                                  *)

Size          == Cardinality(DOMAIN storage)
ReadableBytes == writerIndex - readerIndex
WriteableBytes == Size - writerIndex
Min2(a, b)    == IF a < b THEN a ELSE b

(* Storage st with the bytes of the stream after byte from at index at.     *)
Copied(st, at, from, n) ==
  [i \in DOMAIN st |-> IF i \in at..(at + n - 1) THEN ByteAt(from + 1 + i - at) ELSE st[i]]

(* ensureWritableBytes(): the readable bytes move to the front.             *)
Moved(st, w) ==
  [storage |-> [i \in DOMAIN st |-> IF i - Prepend \in 0..(w - readerIndex - 1)
                                    THEN st[readerIndex + i - Prepend] ELSE st[i]],
   reader |-> Prepend, writer |-> Prepend + w - readerIndex]

(* ensureWritableBytes(): the storage grows.                                *)
Grown(st, w, n) ==
  [storage |-> [i \in 0..(w + n - 1) |-> IF i \in DOMAIN st THEN st[i] ELSE <<0, 0>>],
   reader |-> readerIndex, writer |-> w]

(* ensureWritableBytes(n), with writer index w.                             *)
EnsureWritableBytes(st, w, n) ==
  IF Size - w >= n THEN [storage |-> st, reader |-> readerIndex, writer |-> w]
  ELSE IF Size - w + readerIndex - Prepend >= n THEN Moved(st, w)
  ELSE Grown(st, w, n)

(* readFd(): readv() fills the storage first and extrabuf after it, which   *)
(* is appended.                                                             *)
ReadFd(n) ==
  LET direct == Min2(n, WriteableBytes)
      first  == Copied(storage, writerIndex, taken, direct)
      b      == IF n <= WriteableBytes
                THEN [storage |-> first, reader |-> readerIndex, writer |-> writerIndex + n]
                ELSE EnsureWritableBytes(first, writerIndex + direct, n - direct)
  IN  /\ storage' = IF n <= WriteableBytes THEN b.storage
                    ELSE Copied(b.storage, b.writer, taken + direct, n - direct)
      /\ readerIndex' = b.reader
      /\ writerIndex' = IF n <= WriteableBytes THEN b.writer ELSE b.writer + n - direct
      /\ taken' = taken + n

(* retrieve(): both indexes go back to the front when nothing is left.      *)
Retrieve(n) ==
  IF n < ReadableBytes
  THEN readerIndex' = readerIndex + n /\ UNCHANGED writerIndex
  ELSE readerIndex' = Prepend /\ writerIndex' = Prepend

(* What is readable, from the i-th byte on.                                 *)
Peek(i, n) == [j \in 1..n |-> storage[readerIndex + i + j - 2]]

(* peekUInt32(): the length a header stands for; a header that is not one   *)
(* of the stream's stands for a length nobody sent.                         *)
PeekUInt32 ==
  LET k == storage[readerIndex][1]
  IN  IF k \in DOMAIN stream /\ Peek(1, HeaderLen) = SubSeq(Bytes(k), 1, HeaderLen)
      THEN stream[k].len ELSE MaxFrameLen + 1

-----------------------------------------------------------------------------
(* The network brings some more bytes.                                      *)
Arrive(n) ==
  /\ arrived + n <= Total
  /\ arrived' = arrived + n /\ edge' = TRUE
  /\ UNCHANGED <<stream, taken, storage, readerIndex, writerIndex, pc, delivered, pongs, open>>

(* Channel::handleEvent() -> handleRead(); the event is consumed.           *)
HandleRead ==
  /\ open /\ edge /\ pc = "wait"
  /\ edge' = FALSE /\ pc' = "read"
  /\ UNCHANGED <<stream, arrived, taken, storage, readerIndex, writerIndex, delivered, pongs, open>>

(* readFd() takes what is there, as far as the two areas reach.             *)
ReadSome ==
  /\ pc = "read" /\ arrived > taken
  /\ ReadFd(Min2(arrived - taken, WriteableBytes + ExtraSize))
  /\ pc' = "parse"
  /\ UNCHANGED <<stream, arrived, edge, delivered, pongs, open>>

(* EAGAIN.                                                                  *)
ReadNothing ==
  /\ pc = "read" /\ arrived = taken
  /\ pc' = "wait"
  /\ UNCHANGED <<stream, arrived, taken, edge, storage, readerIndex, writerIndex, delivered, pongs, open>>

(* Mutant of ParseNothing: handleRead() returns and waits for an event.     *)
ParseNothingAndReturn ==
  /\ pc = "parse"
  /\ ReadableBytes >= HeaderLen
       => PeekUInt32 \in 1..MaxFrameLen /\ ReadableBytes < HeaderLen + PeekUInt32
  /\ pc' = "wait"
  /\ UNCHANGED <<stream, arrived, taken, edge, storage, readerIndex, writerIndex, delivered, pongs, open>>

(* No complete frame: read again.                                           *)
ParseNothing ==
  /\ pc = "parse"
  /\ ReadableBytes >= HeaderLen
       => PeekUInt32 \in 1..MaxFrameLen /\ ReadableBytes < HeaderLen + PeekUInt32
  /\ pc' = "read"
  /\ UNCHANGED <<stream, arrived, taken, edge, storage, readerIndex, writerIndex, delivered, pongs, open>>

(* An empty frame is a message; it is never a control frame.                *)
ParseEmpty ==
  /\ pc = "parse" /\ ReadableBytes >= HeaderLen /\ PeekUInt32 = 0
  /\ Retrieve(HeaderLen)
  /\ delivered' = Append(delivered, <<>>)
  /\ UNCHANGED <<stream, arrived, taken, edge, storage, pc, pongs, open>>

(* A frame that is too long ends the connection.                            *)
ParseTooLong ==
  /\ pc = "parse" /\ ReadableBytes >= HeaderLen /\ PeekUInt32 > MaxFrameLen
  /\ open' = FALSE /\ pc' = "closed"
  /\ UNCHANGED <<stream, arrived, taken, edge, storage, readerIndex, writerIndex, delivered, pongs>>

(* A whole frame: header and payload are retrieved.  handleControlFrame()   *)
(* keeps PING and PONG.                                                     *)
ParseFrame ==
  /\ pc = "parse" /\ ReadableBytes >= HeaderLen
  /\ PeekUInt32 \in 1..MaxFrameLen /\ ReadableBytes >= HeaderLen + PeekUInt32
  /\ LET payload == Peek(HeaderLen + 1, PeekUInt32)
         control == stream[storage[readerIndex][1]].control
     IN  /\ delivered' = IF control THEN delivered ELSE Append(delivered, payload)
         /\ pongs' = IF control THEN pongs + 1 ELSE pongs
  /\ Retrieve(HeaderLen + PeekUInt32)
  /\ UNCHANGED <<stream, arrived, taken, edge, storage, pc, open>>

Next ==
  \/ \E n \in 1..Total : Arrive(n)
  \/ HandleRead \/ ReadSome \/ ReadNothing
  \/ ParseNothing \/ ParseEmpty \/ ParseTooLong \/ ParseFrame

Spec == Init /\ [][Next]_vars

-----------------------------------------------------------------------------
(* The frames before the first that is too long.                            *)
Good     == {k \in DOMAIN stream : \A j \in 1..k : stream[j].len <= MaxFrameLen}
Complete(p) == {k \in Good : Offset[k + 1] <= p}
Messages(S) == SelectSeq([k \in 1..Cardinality(S) |-> k], LAMBDA k : ~stream[k].control)
Expected(S) == [i \in DOMAIN Messages(S) |-> Payload(Messages(S)[i])]

(* Whatever pieces the bytes come in, the callback gets the peer's messages *)
(* byte for byte, in order, each once and none before it is complete; and   *)
(* while no event is pending nothing complete stays in the socket or in the *)
(* buffer, although epoll will not speak of it again.                       *)
FramesFollowStream ==
  /\ \E k \in 0..Len(stream) : delivered = Expected(Complete(Offset[k + 1]))
  /\ pc = "wait" /\ ~edge => delivered = Expected(Complete(arrived))
=============================================================================
