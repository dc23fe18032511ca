----------------------------- MODULE OAuthTokens -----------------------------
(***************************************************************************)
(* The tokens of the OAuth server: authorization codes being exchanged,    *)
(* refresh tokens in families that rotate (oauth/refresh.py,               *)
(* oauth/services.py), the short-lived access tokens of the ledger         *)
(* (mcp_token_store.py), and what ends a grant: reuse of a used token,     *)
(* /revoke, disconnecting a client (oauth/connections.py), and the daily   *)
(* cleanup of unused connections (oauth/cleanup.py).                       *)
(*                                                                         *)
(* A family is one authorization; a connection is a user and a client.     *)
(* Every commit is a step of its own.  Time is in days: an access token    *)
(* lasts an hour and a code five minutes, so both end with the day; a      *)
(* request does not straddle midnight.                                     *)
(***************************************************************************)
EXTENDS Integers, FiniteSets

CONSTANTS Families,       \* authorizations
          Connections,    \* users' connections with a client
          Tokens,         \* refresh tokens, in the order of their creation
          Exchanges,      \* threads of POST /token
          Revokers,       \* threads that disconnect a client
          RefreshTTL,     \* REFRESH_TTL
          RefreshRetention, \* refresh.py's _RETENTION
          LedgerRetention,  \* mcp_token_store.py's _RETENTION
          UnusedTTL,      \* UNUSED_CONNECTION_TTL
          Midnights,      \* bound: days modelled
          MaxStops        \* bound: restarts

ASSUME TokensAssumption == Tokens \subseteq Nat /\ Tokens # {} /\ Families # {} /\ Connections # {}
ASSUME OAuthTimesAssumption ==
    /\ RefreshTTL \in Nat /\ RefreshRetention \in Nat /\ LedgerRetention \in Nat
    /\ UnusedTTL \in Nat /\ Midnights \in Nat /\ MaxStops \in Nat

VARIABLES
    today,
    conn,                        \* the connection each authorization is for
    code,                        \* the authorization code of each family
    token, family, born, ended,  \* refresh tokens: state, family, created, revoked
    stage, handling, presented,  \* exchanges: where, of which family, which token
    access, accessDay, touched,  \* the access token an exchange has issued
    cutter, cutting, selected,   \* disconnecting threads, connection, access tokens
    condemned,                   \* connections the cleanup has found unused
    stops,                       \* restarts so far
    cut,                         \* ghost: families revoked with no exchange under way
    closing, closed,             \* ghosts: those being, and wholly, disconnected since
    lastUse                      \* ghost: the day a connection was last used

refreshTokens == <<token, family, born, ended>>
exchanging == <<stage, handling, presented>>
ledger == <<access, accessDay, touched>>
disconnecting == <<cutter, cutting, selected>>
oauthGhosts == <<cut, closing, closed, lastUse>>
oauthVars == <<today, conn, code, refreshTokens, exchanging, ledger, disconnecting,
               condemned, stops, oauthGhosts>>

Stages == {"idle", "code", "loaded", "checked", "turned", "minted", "done", "refused"}

OAuthTokensTypeOK ==
    /\ today \in Nat
    /\ conn \in [Families -> Connections]
    /\ code \in [Families -> {"none", "ready", "gone"}]
    /\ token \in [Tokens -> {"absent", "live", "used", "revoked", "purged"}]
    /\ family \in [Tokens -> Families]
    /\ born \in [Tokens -> Nat] /\ ended \in [Tokens -> Nat]
    /\ stage \in [Exchanges -> Stages]
    /\ handling \in [Exchanges -> Families]
    /\ presented \in [Exchanges -> Tokens]
    /\ access \in [Exchanges -> {"absent", "valid", "revoked", "purged"}]
    /\ accessDay \in [Exchanges -> Nat] /\ touched \in [Exchanges -> Nat]
    /\ cutter \in [Revokers -> {"idle", "grants", "select", "commit", "done"}]
    /\ cutting \in [Revokers -> Connections]
    /\ selected \in [Revokers -> SUBSET Exchanges]
    /\ condemned \subseteq Connections
    /\ stops \in Nat
    /\ cut \subseteq Families /\ closed \subseteq Families
    /\ closing \in [Revokers -> SUBSET Families]
    /\ lastUse \in [Connections -> Nat]

Never0 == 0       \* a day before the first

OAuthTokensInit ==
    /\ today = 1
    /\ conn \in [Families -> Connections]
    /\ code = [f \in Families |-> "none"]
    /\ token = [t \in Tokens |-> "absent"]
    /\ family \in {[t \in Tokens |-> f] : f \in {CHOOSE f \in Families : TRUE}}
    /\ born = [t \in Tokens |-> Never0]
    /\ ended = [t \in Tokens |-> Never0]
    /\ stage = [x \in Exchanges |-> "idle"]
    /\ handling = [x \in Exchanges |-> CHOOSE f \in Families : TRUE]
    /\ presented = [x \in Exchanges |-> CHOOSE t \in Tokens : TRUE]
    /\ access = [x \in Exchanges |-> "absent"]
    /\ accessDay = [x \in Exchanges |-> Never0]
    /\ touched = [x \in Exchanges |-> Never0]
    /\ cutter = [r \in Revokers |-> "idle"]
    /\ cutting = [r \in Revokers |-> CHOOSE c \in Connections : TRUE]
    /\ selected = [r \in Revokers |-> {}]
    /\ condemned = {}
    /\ stops = 0
    /\ cut = {} /\ closed = {}
    /\ closing = [r \in Revokers |-> {}]
    /\ lastUse = [c \in Connections |-> Never0]

-----------------------------------------------------------------------------
(* An exchange that has used up its code or token and not yet issued the   *)
(* refresh token that follows it.                                          *)
Turning(f) == {x \in Exchanges : handling[x] = f /\ stage[x] \in {"turned", "minted"}}

OfFamily(f) == {t \in Tokens : family[t] = f /\ token[t] # "absent"}

LiveOf(f) == {t \in OfFamily(f) : token[t] = "live"}

Unrevoked(t) == token[t] \in {"live", "used"}

FamiliesOf(c) == {f \in Families : conn[f] = c}

Expired(t) == born[t] + RefreshTTL <= today

(* purge_stale: rows expired or revoked longer than the retention ago      *)
purge_stale(t) ==
    \/ Unrevoked(t) /\ born[t] + RefreshTTL < today - RefreshRetention
    \/ token[t] = "revoked" /\ (\/ ended[t] < today - RefreshRetention
                                \/ born[t] + RefreshTTL < today - RefreshRetention)

(* _purge_stale of the ledger, of one user's rows                          *)
stale_access(y) == /\ access[y] \in {"valid", "revoked"}
                   /\ accessDay[y] < today - LedgerRetention

revoke(set) ==
    /\ token' = [t \in Tokens |-> IF t \in set THEN "revoked" ELSE token[t]]
    /\ ended' = [t \in Tokens |-> IF t \in set THEN today ELSE ended[t]]
    /\ UNCHANGED <<family, born>>

(* The families of a set that are revoked with no exchange under way.      *)
CutNow(fs) == {f \in fs : Turning(f) = {} /\ OfFamily(f) # {}}

(* Mutated forms, used only to show that the properties can fail.          *)

(* rotate without the conditions of its UPDATE on used_at                  *)
RotatesUsed(x) == token[presented[x]] \in {"live", "used"}

(* rotate without the condition on revoked_at                              *)
RotatesRevoked(x) == token[presented[x]] \in {"live", "revoked"}

(* list_connections looks at the tokens that are still valid               *)
LastUsedOfValid(c) == {touched[x] : x \in {x \in Exchanges : /\ access[x] = "valid"
                                                             /\ conn[handling[x]] = c
                                                             /\ accessDay[x] = today}}

-----------------------------------------------------------------------------
(* complete_request, of OAuthFlow: the user has agreed and a code is sent. *)
Grant(f) ==
    /\ code[f] = "none"
    /\ code' = [code EXCEPT ![f] = "ready"]
    /\ UNCHANGED <<today, conn, refreshTokens, exchanging, ledger, disconnecting,
                   condemned, stops, oauthGhosts>>

(* AuthorizationService.load_code: a known code that has not expired.      *)
load_code(x, f) ==
    /\ stage[x] = "idle" /\ code[f] = "ready"
    /\ stage' = [stage EXCEPT ![x] = "code"]
    /\ handling' = [handling EXCEPT ![x] = f]
    /\ UNCHANGED <<today, conn, code, refreshTokens, presented, ledger, disconnecting,
                   condemned, stops, oauthGhosts>>

(* consume_code: the row is deleted, and the number of rows decides.       *)
consume_code(x) ==
    LET f == handling[x]
        won == code[f] = "ready"
    IN  /\ stage[x] = "code"
        /\ stage' = [stage EXCEPT ![x] = IF won THEN "turned" ELSE "refused"]
        /\ code' = [code EXCEPT ![f] = "gone"]
        /\ UNCHANGED <<today, conn, refreshTokens, handling, presented, ledger,
                       disconnecting, condemned, stops, oauthGhosts>>

(* find_usable, called by RefreshService.load and again by its exchange:   *)
(* a used token revokes its family; a revoked, expired or unknown one is   *)
(* refused.                                                                *)
find_usable(x, t) ==
    /\ \/ stage[x] = "idle" /\ token[t] # "absent"
       \/ stage[x] = "loaded" /\ t = presented[x]
    /\ presented' = [presented EXCEPT ![x] = t]
    /\ handling' = [handling EXCEPT ![x] = family[t]]
    /\ LET f == family[t] IN
       \/ /\ token[t] = "used"
          /\ revoke({u \in OfFamily(f) : Unrevoked(u)})
          /\ cut' = cut \union CutNow({f})
          /\ stage' = [stage EXCEPT ![x] = "refused"]
       \/ /\ token[t] # "used"
          /\ stage' = [stage EXCEPT ![x] =
                         IF token[t] # "live" \/ Expired(t) THEN "refused"
                         ELSE IF @ = "idle" THEN "loaded" ELSE "checked"]
          /\ UNCHANGED <<refreshTokens, cut>>
    /\ UNCHANGED <<today, conn, code, ledger, disconnecting, condemned, stops, closing,
                   closed, lastUse>>

(* The conditions of rotate's UPDATE.                                      *)
rotates(x) == token[presented[x]] = "live"

(* rotate: used, if it still was neither used nor revoked.                 *)
rotate(x) ==
    /\ stage[x] = "checked"
    /\ \/ /\ rotates(x)
          /\ token' = [token EXCEPT ![presented[x]] = "used"]
          /\ stage' = [stage EXCEPT ![x] = "turned"]
       \/ /\ ~rotates(x)
          /\ stage' = [stage EXCEPT ![x] = "refused"]
          /\ UNCHANGED token
    /\ UNCHANGED <<today, conn, code, family, born, ended, handling, presented, ledger,
                   disconnecting, condemned, stops, oauthGhosts>>

(* issue_oauth_token: old rows go, the new access token is recorded.       *)
issue_oauth_token(x) ==
    /\ stage[x] = "turned"
    /\ stage' = [stage EXCEPT ![x] = "minted"]
    /\ access' = [y \in Exchanges |-> IF y = x THEN "valid"
                                      ELSE IF stale_access(y) THEN "purged"
                                      ELSE access[y]]
    /\ accessDay' = [accessDay EXCEPT ![x] = today]
    /\ UNCHANGED <<today, conn, code, refreshTokens, handling, presented, touched,
                   disconnecting, condemned, stops, oauthGhosts>>

(* refresh.issue: stale rows go, the next token of the family is added.    *)
issue(x) ==
    /\ stage[x] = "minted"
    /\ \E t \in Tokens :
        /\ token[t] = "absent"
        /\ \A u \in Tokens : u < t => token[u] # "absent"
        /\ token' = [u \in Tokens |-> IF u = t THEN "live"
                                      ELSE IF purge_stale(u) THEN "purged"
                                      ELSE token[u]]
        /\ family' = [family EXCEPT ![t] = handling[x]]
        /\ born' = [born EXCEPT ![t] = today]
    /\ stage' = [stage EXCEPT ![x] = "done"]
    /\ UNCHANGED <<today, conn, code, ended, handling, presented, ledger, disconnecting,
                   condemned, stops, oauthGhosts>>

(* is_usable: the access token is used at /mcp, and the ledger touched.    *)
is_usable(x) ==
    /\ access[x] = "valid" /\ accessDay[x] = today
    /\ stage[x] = "done"
    /\ touched' = [touched EXCEPT ![x] = today]
    /\ lastUse' = [lastUse EXCEPT ![conn[handling[x]]] = today]
    /\ UNCHANGED <<today, conn, code, refreshTokens, exchanging, access, accessDay,
                   disconnecting, condemned, stops, cut, closing, closed>>

(* AccessTokenService.revoke: one access token only.                       *)
revoke_access(x) ==
    /\ access[x] = "valid" /\ accessDay[x] = today
    /\ stage[x] = "done"
    /\ access' = [access EXCEPT ![x] = "revoked"]
    /\ UNCHANGED <<today, conn, code, refreshTokens, exchanging, accessDay, touched,
                   disconnecting, condemned, stops, oauthGhosts>>

-----------------------------------------------------------------------------
Heads(c) == {t \in Tokens : token[t] = "live" /\ conn[family[t]] = c /\ ~Expired(t)}

(* list_connections: first_connected and last_used of a connection         *)
first_connected(c) ==
    LET days == {born[t] : t \in {t \in Tokens : /\ token[t] \notin {"absent", "purged"}
                                                 /\ conn[family[t]] = c}}
    IN  CHOOSE d \in days : \A e \in days : d <= e

last_used(c) == {touched[x] : x \in {x \in Exchanges : /\ access[x] \in {"valid", "revoked"}
                                                       /\ conn[handling[x]] = c}}

unused(c) == /\ Heads(c) # {}
             /\ last_used(c) \subseteq {Never0}
             /\ first_connected(c) < today - UnusedTTL

(* disconnect_unused_connections lists them, and disconnects each.         *)
CleanupLists ==
    /\ condemned = {}
    /\ \E c \in Connections : unused(c)
    /\ condemned' = {c \in Connections : unused(c)}
    /\ UNCHANGED <<today, conn, code, refreshTokens, exchanging, ledger, disconnecting,
                   stops, oauthGhosts>>

(* disconnect, on request or from the cleanup; revoke_all of /revoke is    *)
(* the same.  First every refresh token of the connection ...              *)
revoke_client_grants(r, c) ==
    /\ cutter[r] = "idle"
    /\ \E f \in FamiliesOf(c) : code[f] = "gone"     \* something to disconnect
    /\ revoke({t \in Tokens : Unrevoked(t) /\ conn[family[t]] = c})
    /\ cut' = cut \union CutNow(FamiliesOf(c))
    /\ closing' = [closing EXCEPT ![r] = cut' \intersect FamiliesOf(c)]
    /\ cutter' = [cutter EXCEPT ![r] = "select"]
    /\ cutting' = [cutting EXCEPT ![r] = c]
    /\ condemned' = condemned \ {c}
    /\ UNCHANGED <<today, conn, code, exchanging, ledger, selected, stops, closed, lastUse>>

(* ... then its access tokens, as they are when they are read.             *)
SelectAccess(r) ==
    /\ cutter[r] = "select"
    /\ selected' = [selected EXCEPT ![r] =
                      {x \in Exchanges : access[x] = "valid" /\ conn[handling[x]] = cutting[r]}]
    /\ cutter' = [cutter EXCEPT ![r] = "commit"]
    /\ UNCHANGED <<today, conn, code, refreshTokens, exchanging, ledger, cutting, condemned,
                   stops, oauthGhosts>>

revoke_oauth_tokens(r) ==
    /\ cutter[r] = "commit"
    /\ access' = [x \in Exchanges |-> IF x \in selected[r] /\ access[x] = "valid"
                                      THEN "revoked" ELSE access[x]]
    /\ closed' = closed \union closing[r]
    /\ closing' = [closing EXCEPT ![r] = {}]
    /\ cutter' = [cutter EXCEPT ![r] = "done"]
    /\ selected' = [selected EXCEPT ![r] = {}]
    /\ UNCHANGED <<today, conn, code, refreshTokens, exchanging, accessDay, touched, cutting,
                   condemned, stops, cut, lastUse>>

InFlight == \/ \E x \in Exchanges : stage[x] \notin {"idle", "done", "refused"}
            \/ \E r \in Revokers : cutter[r] \notin {"idle", "done"}

(* The next day; a code that was not exchanged has expired.                *)
Midnight ==
    /\ today <= Midnights
    /\ ~InFlight
    /\ today' = today + 1
    /\ code' = [f \in Families |-> IF code[f] = "ready" THEN "gone" ELSE code[f]]
    /\ condemned' = {}
    /\ UNCHANGED <<conn, refreshTokens, exchanging, ledger, disconnecting, stops, oauthGhosts>>

(* The process stops between two commits.                                  *)
Stop ==
    /\ stops < MaxStops
    /\ InFlight
    /\ stage' = [x \in Exchanges |-> IF stage[x] \in {"idle", "done"} THEN stage[x]
                                     ELSE "refused"]
    /\ cutter' = [r \in Revokers |-> IF cutter[r] = "idle" THEN "idle" ELSE "done"]
    /\ selected' = [r \in Revokers |-> {}]
    /\ closing' = [r \in Revokers |-> {}]
    /\ condemned' = {}
    /\ stops' = stops + 1
    /\ UNCHANGED <<today, conn, code, refreshTokens, handling, presented, ledger, cutting,
                   cut, closed, lastUse>>

OAuthHorizon == today > Midnights /\ ~InFlight /\ UNCHANGED oauthVars

OAuthTokensNext ==
    \/ \E f \in Families : Grant(f) \/ \E x \in Exchanges : load_code(x, f)
    \/ \E x \in Exchanges : \/ consume_code(x)
                            \/ \E t \in Tokens : find_usable(x, t)
                            \/ rotate(x) \/ issue_oauth_token(x) \/ issue(x)
                            \/ is_usable(x) \/ revoke_access(x)
    \/ CleanupLists
    \/ \E r \in Revokers : \/ \E c \in Connections : revoke_client_grants(r, c)
                           \/ SelectAccess(r) \/ revoke_oauth_tokens(r)
    \/ Midnight \/ Stop \/ OAuthHorizon

OAuthTokensSpec == OAuthTokensInit /\ [][OAuthTokensNext]_oauthVars

-----------------------------------------------------------------------------
(* Two holders of one grant: two tokens that may be used, two exchanges    *)
(* each about to issue one, or a token and such an exchange.               *)
Forked(f) == \/ \E t, u \in LiveOf(f) : t # u
             \/ \E x, y \in Turning(f) : x # y
             \/ LiveOf(f) # {} /\ Turning(f) # {}

grantOf(f) == IF Forked(f) THEN "forked"
              ELSE IF LiveOf(f) # {} THEN "held"
              ELSE IF Turning(f) # {} THEN "turning"
              ELSE IF code[f] = "ready" THEN "offered"
              ELSE IF code[f] = "none" THEN "none"
              ELSE "ended"

Chains == INSTANCE GrantChain WITH grant <- [f \in Families |-> grantOf(f)]

(* Every authorization is a chain of single holders: however exchanges of  *)
(* one code or one token overlap, are retried or are cut off by a restart, *)
(* at most one of them obtains a successor, and an authorization that has  *)
(* ended (consume_code, rotate, revoke_family) is never revived.           *)
EachGrantIsAChain == Chains!GrantSpec

(* Revocation is final.  A family revoked while none of its exchanges was  *)
(* between rotate and issue never has a usable refresh token again, not    *)
(* even through an exchange that had already passed find_usable; and once  *)
(* disconnect has committed, none of its access tokens is valid.           *)
RevokedStaysRevoked ==
    /\ \A f \in cut : LiveOf(f) = {}
    /\ \A f \in closed : \A x \in Exchanges :
         handling[x] = f /\ stage[x] = "done" => access[x] # "valid"

(* The daily cleanup leaves connections alone that have been used, as far  *)
(* back as the ledger keeps rows (disconnect_unused_connections).          *)
UsedIsKept ==
    [][\A c \in condemned' \ condemned :
         lastUse[c] = Never0 \/ lastUse[c] < today - LedgerRetention]_oauthVars
=============================================================================
