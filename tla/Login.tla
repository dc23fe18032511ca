-------------------------------- MODULE Login --------------------------------
(***************************************************************************)
(* The dashboard's login (auth/github_router.py, auth/session.py): GitHub  *)
(* sends the browser back with a state, a session is made, a short-lived   *)
(* code for it is kept in memory and exchanged once, and the session is    *)
(* prolonged whenever the dashboard is opened.  The scan that a login      *)
(* starts is the subject of UserScan.                                      *)
(***************************************************************************)
EXTENDS Integers, FiniteSets

CONSTANTS Logins,           \* logins, each with a state, a code and a session
          CodeLife,         \* _EXCHANGE_CODE_TTL_SECONDS
          SessionLife,      \* _EXPIRES_DAYS
          MaxSession,       \* _MAX_SESSION_DAYS
          LastInstant,      \* bound: the clock stops here
          MaxRestarts       \* bound

ASSUME LoginAssumption == /\ CodeLife \in Nat /\ SessionLife \in Nat /\ MaxSession \in Nat
                          /\ LastInstant \in Nat /\ MaxRestarts \in Nat

VARIABLES instant,
          state_cookie,     \* logins whose state is in the browser's cookie
          exchange_code,    \* each login's code: none, pending, gone
          code_until,       \* when it expires
          login_at,         \* when GitHub confirmed the user
          sessions,         \* tokens handed out: <<login, expiry>>
          exchanges,        \* ghost: how often each code was exchanged
          restarts

loginVars == <<instant, state_cookie, exchange_code, code_until, login_at, sessions, exchanges,
               restarts>>

LoginTypeOK ==
    /\ instant \in 0..LastInstant
    /\ state_cookie \subseteq Logins
    /\ exchange_code \in [Logins -> {"none", "pending", "gone"}]
    /\ code_until \in [Logins -> Nat] /\ login_at \in [Logins -> Nat]
    /\ sessions \subseteq Logins \X Nat
    /\ exchanges \in [Logins -> Nat]
    /\ restarts \in 0..MaxRestarts

LoginInit ==
    /\ instant = 0
    /\ state_cookie = {}
    /\ exchange_code = [l \in Logins |-> "none"]
    /\ code_until = [l \in Logins |-> 0] /\ login_at = [l \in Logins |-> 0]
    /\ sessions = {}
    /\ exchanges = [l \in Logins |-> 0]
    /\ restarts = 0

(* Mutated form: the login counts from the last renewal.                   *)
RenewedNow(l) == TRUE

(* github_login: a state, in a cookie; a later login overwrites it.        *)
github_login(l) ==
    /\ exchange_code[l] = "none"
    /\ state_cookie' = {l}
    /\ UNCHANGED <<instant, exchange_code, code_until, login_at, sessions, exchanges, restarts>>

(* create_session_token, decode_session_token: a session ends SessionLife  *)
(* after it was made out.                                                  *)
create_session_token(l, from) == <<l, from + SessionLife>>

decode_session_token(s) == s[2] > instant

(* Codes that have expired go, the new one is stored.                      *)
store_exchange_code(l) ==
    /\ exchange_code' = [m \in Logins |->
                           IF m = l THEN "pending"
                           ELSE IF exchange_code[m] = "pending" /\ code_until[m] < instant
                           THEN "gone" ELSE exchange_code[m]]
    /\ code_until' = [code_until EXCEPT ![l] = instant + CodeLife]

(* Popped first, then looked at.                                           *)
consume_exchange_code(l) ==
    /\ exchange_code[l] = "pending"
    /\ exchange_code' = [exchange_code EXCEPT ![l] = "gone"]

(* github_callback: the state must be the cookie's, which goes.            *)
github_callback(l) ==
    /\ l \in state_cookie
    /\ store_exchange_code(l)
    /\ login_at' = [login_at EXCEPT ![l] = instant]
    /\ state_cookie' = {}
    /\ UNCHANGED <<instant, sessions, exchanges, restarts>>

(* exchange: the session made out at the login must still be valid.        *)
exchange(l) ==
    LET session == create_session_token(l, login_at[l])
        granted == instant <= code_until[l] /\ decode_session_token(session)
    IN  /\ consume_exchange_code(l)
        /\ \/ /\ granted
              /\ sessions' = sessions \union {session}
              /\ exchanges' = [exchanges EXCEPT ![l] = @ + 1]
           \/ /\ ~granted
              /\ UNCHANGED <<sessions, exchanges>>
        /\ UNCHANGED <<instant, state_cookie, code_until, login_at, restarts>>

(* the condition of refresh_session_token                                  *)
may_renew(l) == instant - login_at[l] <= MaxSession

(* refresh: a valid session not older than MaxSession is prolonged, by the *)
(* whole of SessionLife.                                                   *)
refresh(s) ==
    /\ decode_session_token(s)
    /\ may_renew(s[1])
    /\ sessions' = sessions \union {create_session_token(s[1], instant)}
    /\ UNCHANGED <<instant, state_cookie, exchange_code, code_until, login_at, exchanges, restarts>>

Instant ==
    /\ instant < LastInstant
    /\ instant' = instant + 1
    /\ sessions' = {s \in sessions : s[2] > instant + 1}      \* expired ones are worth nothing
    /\ UNCHANGED <<state_cookie, exchange_code, code_until, login_at, exchanges, restarts>>

(* The codes are in the memory of the process; sessions and cookies not.   *)
LoginRestart ==
    /\ restarts < MaxRestarts
    /\ restarts' = restarts + 1
    /\ exchange_code' = [l \in Logins |-> IF exchange_code[l] = "pending" THEN "gone"
                                          ELSE exchange_code[l]]
    /\ UNCHANGED <<instant, state_cookie, code_until, login_at, sessions, exchanges>>

LoginHorizon == instant = LastInstant /\ UNCHANGED loginVars

LoginNext ==
    \/ \E l \in Logins : github_login(l) \/ github_callback(l) \/ exchange(l)
    \/ \E s \in sessions : refresh(s)
    \/ Instant \/ LoginRestart \/ LoginHorizon

LoginSpec == LoginInit /\ [][LoginNext]_loginVars

-----------------------------------------------------------------------------
(* No session is made out later than MaxSession after GitHub confirmed the *)
(* user, however often it is prolonged (refresh_session_token), and a code *)
(* is exchanged once (consume_exchange_code).  How long the last session   *)
(* then lasts is the subject of the next property.                         *)
MadeOutInTime ==
    /\ \A s \in sessions : s[2] - SessionLife <= login_at[s[1]] + MaxSession
    /\ \A l \in Logins : exchanges[l] <= 1

(* No session is good for longer than MaxSession after GitHub confirmed    *)
(* the user: MaxSession is the absolute limit, counted from the login,     *)
(* which no renewal exceeds, as the comment at _MAX_SESSION_DAYS says      *)
(* (auth/session.py).  It does not hold: a session renewed on its last day *)
(* lasts a whole SessionLife more.                                         *)
SessionsWithinLimit ==
    \A s \in sessions : decode_session_token(s) => instant <= login_at[s[1]] + MaxSession
=============================================================================
