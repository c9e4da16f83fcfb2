----------------------------- MODULE MCReactor -----------------------------
(***************************************************************************)
(* What the loops do with sockets and where they hand work to, one part at *)
(* a time: the output side of a connection, its input side, the listening  *)
(* socket, and the keyed executor.  `which' is the part that runs; the     *)
(* others rest in a first state.                                           *)
(***************************************************************************)
EXTENDS ConnectionOutput

VARIABLES
  which,
  stream, arrived, read, readable, storage, readerIndex, writerIndex, readPc,
  delivered, pongs, open,
  backlog, acceptable, acceptPc, used, idleFd, served, refused, ended, clients,
  accepting, call, shard, queue, running, stopAt, mode, finished, discarded

inputVars == <<stream, arrived, read, readable, storage, readerIndex, writerIndex, readPc,
               delivered, pongs, open>>
acceptVars == <<backlog, acceptable, acceptPc, used, idleFd, served, refused, ended, clients>>
keyedVars == <<accepting, call, shard, queue, running, stopAt, mode, finished, discarded>>

(* Two frame sizes; limits small enough for a handful of messages to cross  *)
(* every one of them.                                                       *)
MCFrameSizes == {2, 3}

(* Frames of every kind: empty, short, a control frame, the longest, one    *)
(* that is too long.                                                        *)
Frames == {[len |-> l, control |-> FALSE] : l \in {0, 1, 3, 4}} \cup {[len |-> 2, control |-> TRUE]}

I == INSTANCE Framing WITH
  HeaderLen <- 2, Prepend <- 1, InitialSize <- 3, ExtraSize <- 2, MaxFrameLen <- 3,
  Streams <- [1..3 -> Frames],
  taken <- read, edge <- readable, pc <- readPc

A == INSTANCE AcceptLoop WITH
  MaxFds <- 3, MaxClients <- 5, edge <- acceptable, pc <- acceptPc

(* Three keys on two shards: two keys share shard 1, one key has two tasks. *)
K == INSTANCE KeyedSerialExecutor WITH
  Tasks <- 1..4, Keys <- {"k1", "k2", "k3"}, KeyOf <- <<"k1", "k1", "k2", "k3">>,
  NumShards <- 2, ShardOf <- [k1 |-> 1, k2 |-> 1, k3 |-> 2], Capacity <- 2,
  Stoppers <- {"s1", "s2"}, NoTask <- 0, dropped <- discarded

all == <<which, vars, inputVars, acceptVars, keyedVars>>

MCInit ==
  /\ which \in {"output", "input", "accept", "keyed"}
  /\ Init /\ A!Init /\ K!Init
  /\ I!Init /\ (which # "input" => stream = [k \in 1..3 |-> [len |-> 0, control |-> FALSE]])

OnlyOutput == which = "output" /\ UNCHANGED <<which, inputVars, acceptVars, keyedVars>>

RunOutput == OnlyOutput /\ Next
RunInput  == which = "input" /\ I!Next /\ UNCHANGED <<which, vars, acceptVars, keyedVars>>
RunAccept == which = "accept" /\ A!Next /\ UNCHANGED <<which, vars, inputVars, keyedVars>>
RunKeyed  == which = "keyed" /\ K!Next /\ UNCHANGED <<which, vars, inputVars, acceptVars>>

(* The other parts may come to an end.                                      *)
Rest == which # "output" /\ UNCHANGED all

MCNext == RunOutput \/ RunInput \/ RunAccept \/ RunKeyed \/ Rest

(* The fairness of ConnectionOutput, while that is the part that runs.      *)
OutputFairness ==
  /\ WF_all(OnlyOutput /\ BaseStep)
  /\ SF_all(OnlyOutput /\ ReserveSwap /\ base'.pc = "reserved")
  /\ WF_all(OnlyOutput /\ Functors)
  /\ WF_all(OnlyOutput /\ (Writes \/ (buffered > 0 /\ IoClose)))

MCSpec == MCInit /\ [][MCNext]_all /\ OutputFairness

-----------------------------------------------------------------------------
(* Framing: the callback gets the peer's messages, byte for byte, and none  *)
(* stays behind when no event is pending.                                   *)
FramesFollowStream == I!FramesFollowStream

(* AcceptLoop: a client stays in the backlog without a pending event only   *)
(* after a round that accept() cut short.                                   *)
NobodyIsForgotten == A!NobodyIsForgotten

(* KeyedSerialExecutor: an accepted task is in exactly one place.           *)
AcceptedIsAccountedFor == K!AcceptedIsAccountedFor

(* KeyedSerialExecutor: one serial queue per key, whatever the sharding.    *)
ImplementsKeyedOrder == K!ImplementsKeyedOrder
=============================================================================
