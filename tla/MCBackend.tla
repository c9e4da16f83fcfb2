------------------------------ MODULE MCBackend ------------------------------
(***************************************************************************)
(* The parts below the request handlers: the SQL connection pool, accounts *)
(* and tokens, friends, the rate limiter, the id generator.  They share no *)
(* state, so a behaviour runs one of them and the others rest in their     *)
(* first state: the state spaces add up and do not multiply.  For TLC, the *)
(* parts use the same interchangeable values for their own things.         *)
(***************************************************************************)
EXTENDS SqlPool, TLC

CONSTANTS
  Ids, Tokens, Clients, TokenLife, Retention, LastDay, NoAccount, NoToken,
  People, MaxFriendRequests,
  MaxRequests, WindowMs, BlockMs, LastMs,
  SeqSize, Tolerance, Epoch, LastClock

(* A row lives and is kept for some time; RateLimiter's rules let something *)
(* through, and none ends the block before the window; an id has room for a *)
(* sequence, and the epoch lies after 1970.                                 *)
ASSUME BackendAssumption ==
  /\ TokenLife \in Nat \ {0} /\ Retention \in Nat
  /\ MaxFriendRequests \in Nat
  /\ MaxRequests \in Nat \ {0} /\ WindowMs \in Nat \ {0}
  /\ BlockMs \in Nat /\ BlockMs >= WindowMs
  /\ SeqSize \in Nat \ {0} /\ Tolerance \in Nat
  /\ Epoch \in Nat \ {0} /\ LastClock \in Nat

VARIABLES
  which,    \* the part that runs
  users, profiles, rows, bound, base, day, issued, tried, ended,
  profiled, requests, relation, asked, agreed,
  now, counter, counterEnds, blockEnds, resetting, promise, honest, passed,
  clock, last, sequence, call, id, made, fresh

A == INSTANCE Accounts WITH Conns <- Clients, MaxClock <- LastDay, clock <- day,
                            session <- bound
F == INSTANCE Friends WITH Accounts <- People, MaxRequests <- MaxFriendRequests
R == INSTANCE RateLimit WITH MaxClock <- LastMs
S == INSTANCE Snowflake WITH MaxClock <- LastClock

Symmetry == Permutations(Threads) \cup Permutations(Tokens) \cup Permutations(Conns)

MCInit ==
  /\ which \in {"pool", "accounts", "friends", "limits", "ids"}
  /\ Init /\ A!Init /\ R!Init
  /\ F!Init /\ (which # "friends" => profiled = {})
  /\ S!Init /\ (which # "ids" => clock = Epoch + 1)

accountVars == <<users, profiles, rows, bound, base, day, issued, tried, ended>>
friendVars == <<profiled, requests, relation, asked, agreed>>
limitVars == <<now, counter, counterEnds, blockEnds, resetting, promise, honest,
               passed>>
idVars == <<clock, last, sequence, call, id, made, fresh>>

RunPool ==
  /\ which = "pool" /\ Next
  /\ UNCHANGED <<which, accountVars, friendVars, limitVars, idVars>>

RunAccounts ==
  /\ which = "accounts" /\ A!Next
  /\ UNCHANGED <<which, vars, friendVars, limitVars, idVars>>

RunFriends ==
  /\ which = "friends" /\ F!Next
  /\ UNCHANGED <<which, vars, accountVars, limitVars, idVars>>

RunLimits ==
  /\ which = "limits" /\ R!Next
  /\ UNCHANGED <<which, vars, accountVars, friendVars, idVars>>

RunIds ==
  /\ which = "ids" /\ S!Next
  /\ UNCHANGED <<which, vars, accountVars, friendVars, limitVars>>

MCNext == RunPool \/ RunAccounts \/ RunFriends \/ RunLimits \/ RunIds

MCSpec == MCInit /\ [][MCNext]_<<which, vars, accountVars, friendVars, limitVars, idVars>>

-----------------------------------------------------------------------------
(* The token of a login works until it expires or is logged out (Accounts). *)
TokensLiveUntilLogout == A!TokensLiveUntilLogout

(* Two accounts are friends while both want it; a request waits until it is *)
(* answered (Friends).                                                      *)
FriendsByConsent == F!FriendsByConsent

(* Whoever comes back when told to is let through, and no window lets more  *)
(* than its share through (RateLimit).                                      *)
LimitsAreKept == R!LimitsAreKept

(* An id is larger than the one before it, the first of a process if the    *)
(* clock has passed it (Snowflake).                                         *)
IdsGrow == S!IdsGrow
=============================================================================
