------------------------------ MODULE Accounts -----------------------------
(***************************************************************************)
(* Registration, login, login by token and logout: the handlers of         *)
(* Imservice over AuthService, the tables users, user_profiles and         *)
(* user_sessions, and the sessions of the connections.                     *)
(*                                                                         *)
(* The handlers run one after the other on the base loop; the cleanup of   *)
(* old rows runs on a pool thread, so it may fall between the two calls a  *)
(* handler makes of a repository: the model gives the look-up of a token   *)
(* and what follows it a step each.  A call that fails may or may not have *)
(* changed the row.  Time is the system clock, taken not to run backwards. *)
(* The limits on registration and on failed logins are in RateLimit.       *)
(***************************************************************************)
EXTENDS Integers, FiniteSets

CONSTANTS Ids,          \* account ids the generator may come up with
          Conns,        \* connections
          Tokens,       \* random tokens; their hashes are as distinct
          TokenLife,    \* lifetime of a token
          Retention,    \* how long a dead row is kept
          MaxClock,     \* bound: the clock stops here
          NoAccount,    \* a connection without a login
          NoToken       \* the base loop is between two requests

VARIABLES users,      \* users: accounts with a row
          profiles,   \* user_profiles: accounts with a row
          rows,       \* user_sessions: token -> row
          session,    \* connection -> account it is bound to
          base,       \* what the base loop is in the middle of
          clock,
          issued,     \* history: token -> [to, until]
          tried,      \* history: tokens a logout was attempted for
          ended       \* history: tokens a logout was answered "ok" for

accountVars == <<users, profiles, rows, session, base, clock, issued, tried, ended>>
tables == <<users, profiles, rows>>
history == <<issued, tried, ended>>

Gone == [account |-> NoAccount, expireAt |-> 0, revoked |-> FALSE, revokedAt |-> 0]
Idle == [op |-> "idle", conn |-> NoAccount, token |-> NoToken, row |-> Gone]
NotIssued == [to |-> NoAccount, until |-> 0]

Init ==
    /\ users = {} /\ profiles = {}
    /\ rows = [t \in Tokens |-> Gone]
    /\ session = [c \in Conns |-> NoAccount]
    /\ base = Idle
    /\ clock = 1
    /\ issued = [t \in Tokens |-> NotIssued]
    /\ tried = {} /\ ended = {}

(* The handler of a new request starts when the one before has returned.   *)
Free == base = Idle
-----------------------------------------------------------------------------
(* registerUser: up to five ids are tried, one already taken is passed     *)
(* over; when the look-up or the default profile fails the user row stays. *)
RegisterUser(a) ==
    /\ Free
    /\ a \notin users
    /\ users' = users \union {a}
    /\ profiles' \in {profiles, profiles \union {a}}
    /\ UNCHANGED <<rows, session, base, clock, history>>

(* issueToken and createSession.                                           *)
CreateSession(a, t) ==
    /\ rows' = [rows EXCEPT ![t] = [account |-> a, expireAt |-> clock + TokenLife,
                                    revoked |-> FALSE, revokedAt |-> 0]]
    /\ issued' = [issued EXCEPT ![t] = [to |-> a, until |-> clock + TokenLife]]

(* handleLogin with the right password on a connection not logged in.      *)
Login(c, a, t) ==
    /\ Free
    /\ session[c] = NoAccount
    /\ a \in users
    /\ issued[t] = NotIssued
    /\ CreateSession(a, t)
    /\ session' = [session EXCEPT ![c] = a]
    /\ UNCHANGED <<users, profiles, base, clock, tried, ended>>

(* loginByToken reads the row and rejects a missing, a revoked and an      *)
(* expired token.                                                          *)
Usable(row, now) == row # Gone /\ ~row.revoked /\ row.expireAt > now

FindForLogin(c, t) ==
    /\ Free
    /\ session[c] = NoAccount
    /\ Usable(rows[t], clock)
    /\ base' = [op |-> "login", conn |-> c, token |-> t, row |-> rows[t]]
    /\ UNCHANGED <<tables, session, clock, history>>

(* touchSession changes a column nobody reads, and is content with a row   *)
(* that has gone; the connection is then bound to the account of the row   *)
(* that was read.                                                          *)
BindByToken ==
    /\ base.op = "login"
    /\ session' = [session EXCEPT ![base.conn] = base.row.account]
    /\ base' = Idle
    /\ UNCHANGED <<tables, clock, history>>

(* touchSession fails: the answer is an error and nothing is bound.        *)
TouchFails ==
    /\ base.op = "login"
    /\ base' = Idle
    /\ UNCHANGED <<tables, session, clock, history>>

(* logout looks the row up; a missing one is an invalid token.             *)
FindForLogout(c, t) ==
    /\ Free
    /\ rows[t] # Gone
    /\ base' = [op |-> "logout", conn |-> c, token |-> t, row |-> rows[t]]
    /\ tried' = tried \union {t}
    /\ UNCHANGED <<tables, session, clock, issued, ended>>

(* Mutant: the row of the session that holds the connection is kept.       *)
RevokeSessionOfOthers(t, now) ==
    rows' = IF rows[t] # Gone /\ ~rows[t].revoked /\ rows[t].account # session[base.conn]
            THEN [rows EXCEPT ![t].revoked = TRUE, ![t].revokedAt = now] ELSE rows

(* revokeSession: UPDATE ... WHERE token_hash = ? AND revoked = 0; a row   *)
(* the cleanup has taken meanwhile is no error.                            *)
RevokeSession(t, now) ==
    rows' = IF rows[t] # Gone /\ ~rows[t].revoked
            THEN [rows EXCEPT ![t].revoked = TRUE, ![t].revokedAt = now] ELSE rows

(* The rest of handleLogout: a token already revoked is answered "ok" as   *)
(* it stands; the connection the request came on is unbound, whoever the   *)
(* token belongs to.                                                       *)
RevokeAndUnbind ==
    /\ base.op = "logout"
    /\ IF base.row.revoked THEN UNCHANGED rows ELSE RevokeSession(base.token, clock)
    /\ session' = [session EXCEPT ![base.conn] = NoAccount]
    /\ ended' = ended \union {base.token}
    /\ base' = Idle
    /\ UNCHANGED <<users, profiles, clock, issued, tried>>

(* revokeSession fails; the update may have been made all the same.        *)
RevokeFails ==
    /\ base.op = "logout"
    /\ ~base.row.revoked
    /\ RevokeSession(base.token, clock) \/ UNCHANGED rows
    /\ base' = Idle
    /\ UNCHANGED <<users, profiles, session, clock, history>>

(* onDisconnect: the connection's session goes, its slot is free again.    *)
Disconnect(c) ==
    /\ Free
    /\ session[c] # NoAccount
    /\ session' = [session EXCEPT ![c] = NoAccount]
    /\ UNCHANGED <<tables, base, clock, history>>
-----------------------------------------------------------------------------
(* The cleanups delete what was dead before the cutoff; it was computed    *)
(* when the sweep began, at or before now.                                 *)
Cutoff(now) == now - Retention

DeleteExpiredBefore(t) ==
    /\ rows[t] # Gone
    /\ rows[t].expireAt < Cutoff(clock)
    /\ rows' = [rows EXCEPT ![t] = Gone]
    /\ UNCHANGED <<users, profiles, session, base, clock, history>>

DeleteRevokedBefore(t) ==
    /\ rows[t].revoked
    /\ rows[t].revokedAt < Cutoff(clock)
    /\ rows' = [rows EXCEPT ![t] = Gone]
    /\ UNCHANGED <<users, profiles, session, base, clock, history>>

Tick ==
    /\ clock < MaxClock
    /\ clock' = clock + 1
    /\ UNCHANGED <<tables, session, base, history>>

Next ==
    \/ \E a \in Ids : RegisterUser(a)
    \/ \E c \in Conns, a \in Ids, t \in Tokens : Login(c, a, t)
    \/ \E c \in Conns, t \in Tokens : FindForLogin(c, t) \/ FindForLogout(c, t)
    \/ BindByToken \/ TouchFails \/ RevokeAndUnbind \/ RevokeFails
    \/ \E c \in Conns : Disconnect(c)
    \/ \E t \in Tokens : DeleteExpiredBefore(t) \/ DeleteRevokedBefore(t)
    \/ Tick

Spec == Init /\ [][Next]_accountVars
-----------------------------------------------------------------------------
(* A token logs its account in until it expires or is logged out, and      *)
(* never after a logout was confirmed: failed updates, repeated logouts,   *)
(* time passing between look-up and update, and the cleanup of old rows    *)
(* (which must not touch a live one) leave this so.                        *)
TokensLiveUntilLogout ==
    \A t \in Tokens :
        /\ (t \notin tried /\ issued[t].until > clock) => Usable(rows[t], clock)
        /\ t \in ended => ~Usable(rows[t], clock)
        /\ rows[t] # Gone => rows[t].account = issued[t].to
=============================================================================
