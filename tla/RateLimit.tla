------------------------------ MODULE RateLimit ------------------------------
(***************************************************************************)
(* RateLimiter on RedisRateLimitStore: the Lua script counts the hits of a *)
(* key in a window and blocks the key when there are too many.  Redis runs *)
(* a script as one step and forgets a key once its time is over; reset()   *)
(* is two commands.                                                        *)
(***************************************************************************)
EXTENDS Integers, Sequences

CONSTANTS
  MaxRequests, WindowMs, BlockMs,   \* a RateLimitRule
  MaxClock                          \* bound: the last millisecond

Gone == -1      \* of a key: it does not exist

VARIABLES
  now,
  counter, counterEnds,   \* the counter key and when it expires
  blockEnds,              \* when the block key expires
  resetting,              \* between the two commands of reset()
  promise,                \* when the client was told to come back
  honest,                 \* no client came back later and was refused
  passed                  \* when the latest hits were let through

vars == <<now, counter, counterEnds, blockEnds, resetting, promise, honest, passed>>

Init ==
  /\ now = 0 /\ counter = 0 /\ counterEnds = Gone /\ blockEnds = Gone
  /\ resetting = FALSE /\ promise = Gone /\ honest = TRUE /\ passed = <<>>

(* Redis: a key is there up to the millisecond it expires in.               *)
Exists(ends) == ends # Gone /\ now <= ends
Pttl(ends)   == IF Exists(ends) THEN ends - now ELSE -2
Count        == (IF Exists(counterEnds) THEN counter ELSE 0) + 1

(* The times that matter to LimitsAreKept.                                  *)
Keep(s) == IF Len(s) > 2 * MaxRequests + 1 THEN Tail(s) ELSE s

(* hitScript(): the key is blocked.                                         *)
HitBlocked ==
  /\ Pttl(blockEnds) > 0
  /\ promise' = now + Pttl(blockEnds)
  /\ honest' = (honest /\ (promise # Gone => now <= promise))
  /\ UNCHANGED <<now, counter, counterEnds, blockEnds, resetting, passed>>

(* Mutant of HitCounted: the counter is not given an end.                   *)
HitCountedForever ==
  /\ Pttl(blockEnds) <= 0 /\ Count <= MaxRequests
  /\ counter' = Count
  /\ counterEnds' = MaxClock
  /\ promise' = Gone
  /\ passed' = Keep(Append(passed, now))
  /\ UNCHANGED <<now, blockEnds, resetting, honest>>

(* hitScript(): counted and let through; the first hit starts the window.   *)
HitCounted ==
  /\ Pttl(blockEnds) <= 0 /\ Count <= MaxRequests
  /\ counter' = Count
  /\ counterEnds' = IF Count = 1 THEN now + WindowMs ELSE counterEnds
  /\ promise' = Gone
  /\ passed' = Keep(Append(passed, now))
  /\ UNCHANGED <<now, blockEnds, resetting, honest>>

(* hitScript(): one too many.                                               *)
HitTooMany ==
  /\ Pttl(blockEnds) <= 0 /\ Count > MaxRequests
  /\ counter' = Count
  /\ blockEnds' = now + BlockMs
  /\ promise' = now + BlockMs
  /\ honest' = (honest /\ (promise # Gone => now <= promise))
  /\ UNCHANGED <<now, counterEnds, resetting, passed>>

(* hitByLua(): what the script answers is passed on.  Without an answer the *)
(* hit is let through uncounted; here redis answers.                        *)
Hit == HitBlocked \/ HitCounted \/ HitTooMany

(* reset(): DEL counter, then DEL block; hits may come in between.          *)
ResetCounter ==
  /\ ~resetting
  /\ counterEnds' = Gone /\ resetting' = TRUE /\ passed' = <<>>
  /\ UNCHANGED <<now, counter, blockEnds, promise, honest>>

ResetBlock ==
  /\ resetting
  /\ blockEnds' = Gone /\ resetting' = FALSE /\ passed' = <<>>
  /\ UNCHANGED <<now, counter, counterEnds, promise, honest>>

Tick ==
  /\ now < MaxClock
  /\ now' = now + 1
  /\ UNCHANGED <<counter, counterEnds, blockEnds, resetting, promise, honest, passed>>

Next == Hit \/ ResetCounter \/ ResetBlock \/ Tick

Spec == Init /\ [][Next]_vars

-----------------------------------------------------------------------------
(* Who is refused and comes back after retryAfterMs is let through: the     *)
(* window of the hits that led to the refusal is over when the block is.    *)
(* And any stretch of time as long as the window lets through at most twice *)
(* the limit.                                                               *)
LimitsAreKept ==
  /\ honest
  /\ \A i \in DOMAIN passed : i + 2 * MaxRequests \in DOMAIN passed
       => passed[i + 2 * MaxRequests] - passed[i] >= WindowMs
=============================================================================
