------------------------------ MODULE AccessProofs ------------------------------
(***************************************************************************)
(* What is proved of the access control.                                   *)
(*                                                                         *)
(* Of OAuthTokens, for any number of authorizations, requests and          *)
(* restarts: that each authorization is a chain of single holders (the     *)
(* refinement of GrantChain), that a revocation is final, and that the     *)
(* cleanup spares what was used.                                           *)
(*                                                                         *)
(* Of OAuthFlow, for any number of requests, browsers and logins at the    *)
(* same time: a code goes to the browser that approved, and a request ends *)
(* once.                                                                   *)
(*                                                                         *)
(* Of logins, registered clients, tokens issued by hand and the rate       *)
(* limiter, for any number of each and any values of the terms and limits: *)
(* what each promises; and of all the parts side by side that none         *)
(* disturbs another.                                                       *)
(***************************************************************************)
EXTENDS MCAccess, FiniteSetTheorems, SequenceTheorems, WellFoundedInduction, TLAPS

-----------------------------------------------------------------------------
(* The tokens of an authorization.                                         *)
Moving == {"turned", "minted"}

(* An authorization has a token that may be used; an exchange of it is     *)
(* between using up its code or token and issuing the next one.            *)
Has(f) == \E t \in Tokens : token[t] = "live" /\ family[t] = f
Moves(f) == \E x \in Exchanges : stage[x] \in Moving /\ handling[x] = f

-----------------------------------------------------------------------------
(* The inductive invariant, in parts.                                      *)

(* Of what is used up or issued there is nothing before the code is gone.  *)
FreshIsEmpty ==
    \A f \in Families : code[f] # "gone" =>
        /\ \A t \in Tokens : family[t] = f => token[t] = "absent"
        /\ ~Moves(f)

(* An exchange that has loaded a token handles the family of that token.   *)
LoadedExists ==
    \A x \in Exchanges : stage[x] \in {"loaded", "checked"} =>
        token[presented[x]] # "absent" /\ handling[x] = family[presented[x]]

(* An exchange that has loaded a code handles an authorization that was    *)
(* granted.                                                                *)
LoadedWasGranted ==
    \A x \in Exchanges : stage[x] = "code" => code[handling[x]] # "none"

(* Never two tokens that may be used, two exchanges about to issue one, or *)
(* one of each.                                                            *)
OneHolder ==
    /\ \A t, u \in Tokens :
         token[t] = "live" /\ token[u] = "live" /\ family[t] = family[u] => t = u
    /\ \A x, y \in Exchanges :
         stage[x] \in Moving /\ stage[y] \in Moving /\ handling[x] = handling[y] => x = y
    /\ \A t \in Tokens, x \in Exchanges :
         token[t] = "live" /\ stage[x] \in Moving => handling[x] # family[t]

(* What was cut off has tokens, none of which may be used, and nothing is  *)
(* on its way.                                                             *)
CutIsOver ==
    \A f \in cut : /\ \E t \in Tokens : token[t] # "absent" /\ family[t] = f
                   /\ ~Has(f) /\ ~Moves(f)

(* What a thread is disconnecting is cut off, and it has selected every    *)
(* access token of it that is still valid.                                 *)
ClosingIsCut ==
    /\ closed \subseteq cut
    /\ \A r \in Revokers : \A f \in closing[r] :
         /\ f \in cut
         /\ cutter[r] \in {"select", "commit"}
         /\ conn[f] = cutting[r]
         /\ cutter[r] = "commit" => \A x \in Exchanges :
              handling[x] = f /\ stage[x] = "done" /\ access[x] = "valid" => x \in selected[r]

ClosedIsDead ==
    \A f \in closed : \A x \in Exchanges :
        handling[x] = f /\ stage[x] = "done" => access[x] # "valid"

(* The last use of a connection is in the ledger, unless the row has been  *)
(* purged, which happens after the retention only.                         *)
UseIsRecorded ==
    /\ today # Never0
    /\ \A c \in Connections : lastUse[c] # Never0 =>
         \E x \in Exchanges : /\ stage[x] = "done" /\ conn[handling[x]] = c
                              /\ touched[x] = lastUse[c] /\ accessDay[x] = lastUse[c]
                              /\ access[x] # "absent"
    /\ \A x \in Exchanges : access[x] = "purged" => accessDay[x] < today - LedgerRetention

ChainInv == /\ OAuthTokensTypeOK
            /\ FreshIsEmpty /\ LoadedExists /\ LoadedWasGranted /\ OneHolder

RevokedInv == ChainInv /\ CutIsOver /\ ClosingIsCut /\ ClosedIsDead

UseInv == OAuthTokensTypeOK /\ UseIsRecorded
-----------------------------------------------------------------------------
(* Initially every variable is in its domain.                              *)
LEMMA InitTokensTyped == OAuthTokensInit => OAuthTokensTypeOK
<1> USE TokensAssumption, OAuthTimesAssumption
    DEF OAuthTokensInit, OAuthTokensTypeOK, Never0, Stages
<1>1. (CHOOSE f \in Families : TRUE) \in Families
  OBVIOUS
<1>2. (CHOOSE t \in Tokens : TRUE) \in Tokens
  OBVIOUS
<1>3. (CHOOSE c \in Connections : TRUE) \in Connections
  OBVIOUS
<1> QED
  BY <1>1, <1>2, <1>3

(* Every step keeps every variable in its domain.                          *)
LEMMA StepTokensTyped == OAuthTokensTypeOK /\ [OAuthTokensNext]_oauthVars => OAuthTokensTypeOK'
<1> SUFFICES ASSUME OAuthTokensTypeOK, [OAuthTokensNext]_oauthVars PROVE OAuthTokensTypeOK'
  OBVIOUS
<1> USE TokensAssumption, OAuthTimesAssumption DEF OAuthTokensTypeOK, Stages, refreshTokens,
        exchanging, ledger, disconnecting, oauthGhosts
<1>1. ASSUME NEW f \in Families, Grant(f) PROVE OAuthTokensTypeOK'
  BY <1>1 DEF Grant
<1>2. ASSUME NEW f \in Families, NEW x \in Exchanges, load_code(x, f) PROVE OAuthTokensTypeOK'
  BY <1>2 DEF load_code
<1>3. ASSUME NEW x \in Exchanges, consume_code(x) PROVE OAuthTokensTypeOK'
  BY <1>3 DEF consume_code
<1>4. ASSUME NEW x \in Exchanges, NEW t \in Tokens, find_usable(x, t) PROVE OAuthTokensTypeOK'
  BY <1>4 DEF find_usable, revoke, CutNow
<1>5. ASSUME NEW x \in Exchanges, rotate(x) PROVE OAuthTokensTypeOK'
  BY <1>5 DEF rotate
<1>6. ASSUME NEW x \in Exchanges, issue_oauth_token(x) PROVE OAuthTokensTypeOK'
  BY <1>6 DEF issue_oauth_token
<1>7. ASSUME NEW x \in Exchanges, issue(x) PROVE OAuthTokensTypeOK'
  BY <1>7 DEF issue
<1>8. ASSUME NEW x \in Exchanges, is_usable(x) PROVE OAuthTokensTypeOK'
  BY <1>8 DEF is_usable
<1>9. ASSUME NEW x \in Exchanges, revoke_access(x) PROVE OAuthTokensTypeOK'
  BY <1>9 DEF revoke_access
<1>10. CASE CleanupLists
  BY <1>10 DEF CleanupLists
<1>11. ASSUME NEW r \in Revokers, NEW c \in Connections, revoke_client_grants(r, c)
       PROVE OAuthTokensTypeOK'
  BY <1>11 DEF revoke_client_grants, revoke, CutNow, FamiliesOf
<1>12. ASSUME NEW r \in Revokers, SelectAccess(r) PROVE OAuthTokensTypeOK'
  BY <1>12 DEF SelectAccess
<1>13. ASSUME NEW r \in Revokers, revoke_oauth_tokens(r) PROVE OAuthTokensTypeOK'
  BY <1>13 DEF revoke_oauth_tokens
<1>14. CASE Midnight
  BY <1>14 DEF Midnight
<1>15. CASE Stop
  BY <1>15 DEF Stop
<1>16. CASE OAuthHorizon \/ UNCHANGED oauthVars
  BY <1>16 DEF OAuthHorizon, oauthVars
<1> QED
  BY <1>1, <1>2, <1>3, <1>4, <1>5, <1>6, <1>7, <1>8, <1>9, <1>10, <1>11, <1>12, <1>13, <1>14,
     <1>15, <1>16 DEF OAuthTokensNext

-----------------------------------------------------------------------------
(* Nothing has been granted, presented, cut off or used yet.               *)
LEMMA InitInv == OAuthTokensInit => RevokedInv /\ UseInv
<1> SUFFICES ASSUME OAuthTokensInit PROVE RevokedInv /\ UseInv
  OBVIOUS
<1>1. OAuthTokensTypeOK
  BY InitTokensTyped
<1>2. FreshIsEmpty /\ LoadedExists /\ LoadedWasGranted /\ OneHolder
  BY DEF OAuthTokensInit, FreshIsEmpty, LoadedExists, LoadedWasGranted, OneHolder, Moves, Moving
<1>3. CutIsOver /\ ClosingIsCut /\ ClosedIsDead
  BY DEF OAuthTokensInit, CutIsOver, ClosingIsCut, ClosedIsDead
<1>4. UseIsRecorded
  BY DEF OAuthTokensInit, UseIsRecorded, Never0
<1> QED
  BY <1>1, <1>2, <1>3, <1>4 DEF RevokedInv, ChainInv, UseInv

(* The parts of the invariant that say who holds a grant.                  *)
LEMMA StepChained ==
  ASSUME ChainInv, OAuthTokensTypeOK', [OAuthTokensNext]_oauthVars
  PROVE  FreshIsEmpty' /\ LoadedExists' /\ LoadedWasGranted' /\ OneHolder'
<1> DEFINE Holds == FreshIsEmpty /\ LoadedExists /\ LoadedWasGranted /\ OneHolder
<1> SUFFICES Holds'
  OBVIOUS
<1> USE DEF ChainInv, OAuthTokensTypeOK, FreshIsEmpty, LoadedExists, LoadedWasGranted, OneHolder,
        Moves, Moving, Stages, refreshTokens, exchanging
<1>1. ASSUME NEW f \in Families, Grant(f) PROVE Holds'
  BY <1>1 DEF Grant
<1>2. ASSUME NEW f \in Families, NEW x \in Exchanges, load_code(x, f) PROVE Holds'
  BY <1>2 DEF load_code
<1>3. ASSUME NEW x \in Exchanges, consume_code(x) PROVE Holds'
  <2>1. FreshIsEmpty'
    BY <1>3 DEF consume_code
  <2>2. LoadedExists'
    BY <1>3 DEF consume_code
  <2>3. LoadedWasGranted'
    BY <1>3 DEF consume_code
  <2>4. OneHolder'
    <3>1. code[handling[x]] = "ready" \/ stage' = [stage EXCEPT ![x] = "refused"]
      BY <1>3 DEF consume_code
    <3>2. CASE code[handling[x]] = "ready"
      <4>1. ~Moves(handling[x])
            /\ \A t \in Tokens : family[t] = handling[x] => token[t] = "absent"
        BY <3>2
      <4>2. /\ UNCHANGED <<token, family, handling>>
            /\ stage' = [stage EXCEPT ![x] = "turned"]
        BY <1>3, <3>2 DEF consume_code
      <4> QED
        BY <4>1, <4>2
    <3>3. CASE stage' = [stage EXCEPT ![x] = "refused"]
      <4>1. UNCHANGED <<token, family, handling>>
        BY <1>3 DEF consume_code
      <4> QED
        BY <3>3, <4>1
    <3> QED
      BY <3>1, <3>2, <3>3
  <2> QED
    BY <2>1, <2>2, <2>3, <2>4
<1>4. ASSUME NEW x \in Exchanges, NEW t \in Tokens, find_usable(x, t) PROVE Holds'
  <2>1. FreshIsEmpty'
    BY <1>4 DEF find_usable, revoke, Unrevoked
  <2>2. LoadedExists'
    BY <1>4 DEF find_usable, revoke
  <2>3. LoadedWasGranted'
    BY <1>4 DEF find_usable, revoke
  <2>4. OneHolder'
    BY <1>4 DEF find_usable, revoke
  <2> QED
    BY <2>1, <2>2, <2>3, <2>4
<1>5. ASSUME NEW x \in Exchanges, rotate(x) PROVE Holds'
  <2>1. FreshIsEmpty'
    BY <1>5 DEF rotate, rotates
  <2>2. LoadedExists'
    BY <1>5 DEF rotate, rotates
  <2>3. LoadedWasGranted'
    BY <1>5 DEF rotate, rotates
  <2>4. OneHolder'
    <3>1. CASE token[presented[x]] = "live"
      <4>1. handling[x] = family[presented[x]]
        BY <1>5 DEF rotate
      <4>2. /\ UNCHANGED <<family, handling>>
            /\ token' = [token EXCEPT ![presented[x]] = "used"]
            /\ stage' = [stage EXCEPT ![x] = "turned"]
        BY <1>5, <3>1 DEF rotate, rotates
      <4>3. /\ \A t \in Tokens : token'[t] = "live" => token[t] = "live" /\ t # presented[x]
            /\ \A y \in Exchanges : stage'[y] \in Moving => y = x \/ stage[y] \in Moving
        BY <4>2
      <4> QED
        BY <3>1, <4>1, <4>2, <4>3
    <3>2. CASE token[presented[x]] # "live"
      <4>1. /\ UNCHANGED <<token, family, handling>>
            /\ stage' = [stage EXCEPT ![x] = "refused"]
        BY <1>5, <3>2 DEF rotate, rotates
      <4> QED
        BY <4>1
    <3> QED
      BY <3>1, <3>2
  <2> QED
    BY <2>1, <2>2, <2>3, <2>4
<1>6. ASSUME NEW x \in Exchanges, issue_oauth_token(x) PROVE Holds'
  BY <1>6 DEF issue_oauth_token
<1>7. ASSUME NEW x \in Exchanges, issue(x) PROVE Holds'
  <2>1. FreshIsEmpty'
    BY <1>7 DEF issue, purge_stale, Unrevoked
  <2>2. LoadedExists'
    BY <1>7 DEF issue
  <2>3. LoadedWasGranted'
    BY <1>7 DEF issue
  <2>4. OneHolder'
    BY <1>7 DEF issue
  <2> QED
    BY <2>1, <2>2, <2>3, <2>4
<1>8. ASSUME NEW r \in Revokers, NEW c \in Connections, revoke_client_grants(r, c) PROVE Holds'
  <2>1. FreshIsEmpty'
    BY <1>8 DEF revoke_client_grants, revoke, Unrevoked
  <2>2. LoadedExists'
    BY <1>8 DEF revoke_client_grants, revoke
  <2>3. LoadedWasGranted'
    BY <1>8 DEF revoke_client_grants, revoke
  <2>4. OneHolder'
    BY <1>8 DEF revoke_client_grants, revoke
  <2> QED
    BY <2>1, <2>2, <2>3, <2>4
<1>9. CASE Midnight
  BY <1>9 DEF Midnight
<1>10. CASE Stop
  BY <1>10 DEF Stop
<1>11. ASSUME UNCHANGED <<code, refreshTokens, exchanging>> PROVE Holds'
  BY <1>11
<1>12. ASSUME \/ \E x \in Exchanges : is_usable(x) \/ revoke_access(x)
              \/ \E r \in Revokers : SelectAccess(r) \/ revoke_oauth_tokens(r)
              \/ CleanupLists \/ OAuthHorizon \/ UNCHANGED oauthVars
       PROVE UNCHANGED <<code, refreshTokens, exchanging>>
  BY <1>12 DEF is_usable, revoke_access, SelectAccess, revoke_oauth_tokens, CleanupLists,
               OAuthHorizon, oauthVars
<1> QED
  BY <1>1, <1>2, <1>3, <1>4, <1>5, <1>6, <1>7, <1>8, <1>9, <1>10, <1>11, <1>12
     DEF OAuthTokensNext

(* The parts that say what a revocation has ended.                         *)
LEMMA StepRevoked ==
  ASSUME RevokedInv, OAuthTokensTypeOK', [OAuthTokensNext]_oauthVars
  PROVE  CutIsOver' /\ ClosingIsCut' /\ ClosedIsDead'
<1> DEFINE Holds == CutIsOver /\ ClosingIsCut /\ ClosedIsDead
<1> SUFFICES Holds'
  OBVIOUS
<1> USE DEF RevokedInv, ChainInv, OAuthTokensTypeOK, CutIsOver, ClosingIsCut, ClosedIsDead, Has,
        Moves, Moving, Stages, refreshTokens, exchanging, ledger, disconnecting, oauthGhosts
<1>1. ASSUME NEW f \in Families, Grant(f) PROVE Holds'
  BY <1>1 DEF Grant
<1>2. ASSUME NEW f \in Families, NEW x \in Exchanges, load_code(x, f) PROVE Holds'
  BY <1>2 DEF load_code
<1>3. ASSUME NEW x \in Exchanges, consume_code(x) PROVE Holds'
  BY <1>3 DEF consume_code, FreshIsEmpty
<1>4. ASSUME NEW x \in Exchanges, NEW t \in Tokens, find_usable(x, t) PROVE Holds'
  BY <1>4, SMTT(30) DEF find_usable, revoke, CutNow, OfFamily, Turning, Unrevoked
<1>5. ASSUME NEW x \in Exchanges, rotate(x) PROVE Holds'
  BY <1>5 DEF rotate, rotates, LoadedExists
<1>6. ASSUME NEW x \in Exchanges, issue_oauth_token(x) PROVE Holds'
  BY <1>6 DEF issue_oauth_token, stale_access
<1>7. ASSUME NEW x \in Exchanges, issue(x) PROVE Holds'
  BY <1>7 DEF issue
<1>8. ASSUME NEW x \in Exchanges, is_usable(x) \/ revoke_access(x) PROVE Holds'
  BY <1>8 DEF is_usable, revoke_access
<1>9. ASSUME NEW r \in Revokers, NEW c \in Connections, revoke_client_grants(r, c) PROVE Holds'
  BY <1>9 DEF revoke_client_grants, revoke, CutNow, FamiliesOf, OfFamily, Turning, Unrevoked
<1>10. ASSUME NEW r \in Revokers, SelectAccess(r) PROVE Holds'
  BY <1>10 DEF SelectAccess
<1>11. ASSUME NEW r \in Revokers, revoke_oauth_tokens(r) PROVE Holds'
  BY <1>11 DEF revoke_oauth_tokens
<1>12. CASE Midnight
  BY <1>12 DEF Midnight
<1>13. CASE Stop
  BY <1>13 DEF Stop
<1>14. CASE CleanupLists \/ OAuthHorizon \/ UNCHANGED oauthVars
  BY <1>14 DEF CleanupLists, OAuthHorizon, oauthVars
<1> QED
  BY <1>1, <1>2, <1>3, <1>4, <1>5, <1>6, <1>7, <1>8, <1>9, <1>10, <1>11, <1>12, <1>13, <1>14
     DEF OAuthTokensNext

(* The part that says where the last use of a connection stands.           *)
LEMMA StepUsed ==
  ASSUME UseInv, OAuthTokensTypeOK', [OAuthTokensNext]_oauthVars
  PROVE  UseIsRecorded'
<1> USE OAuthTimesAssumption DEF UseInv, OAuthTokensTypeOK, UseIsRecorded, Never0, Stages,
        refreshTokens, exchanging, ledger, disconnecting, oauthGhosts
<1>1. ASSUME NEW f \in Families, NEW x \in Exchanges, load_code(x, f) PROVE UseIsRecorded'
  BY <1>1 DEF load_code
<1>2. ASSUME NEW x \in Exchanges, consume_code(x) \/ rotate(x) \/ issue(x) PROVE UseIsRecorded'
  BY <1>2 DEF consume_code, rotate, issue
<1>3. ASSUME NEW x \in Exchanges, NEW t \in Tokens, find_usable(x, t) PROVE UseIsRecorded'
  BY <1>3 DEF find_usable, revoke
<1>4. ASSUME NEW x \in Exchanges, issue_oauth_token(x) PROVE UseIsRecorded'
  BY <1>4 DEF issue_oauth_token, stale_access
<1>5. ASSUME NEW x \in Exchanges, is_usable(x) PROVE UseIsRecorded'
  BY <1>5 DEF is_usable
<1>6. ASSUME NEW x \in Exchanges, revoke_access(x) PROVE UseIsRecorded'
  BY <1>6 DEF revoke_access
<1>7. ASSUME NEW r \in Revokers, NEW c \in Connections, revoke_client_grants(r, c)
      PROVE UseIsRecorded'
  BY <1>7 DEF revoke_client_grants, revoke
<1>8. ASSUME NEW r \in Revokers, SelectAccess(r) \/ revoke_oauth_tokens(r) PROVE UseIsRecorded'
  BY <1>8 DEF SelectAccess, revoke_oauth_tokens
<1>9. CASE Midnight
  BY <1>9 DEF Midnight
<1>10. CASE Stop
  BY <1>10 DEF Stop
<1>11. CASE \/ \E f \in Families : Grant(f)
            \/ CleanupLists \/ OAuthHorizon \/ UNCHANGED oauthVars
  BY <1>11 DEF Grant, CleanupLists, OAuthHorizon, oauthVars
<1> QED
  BY <1>1, <1>2, <1>3, <1>4, <1>5, <1>6, <1>7, <1>8, <1>9, <1>10, <1>11 DEF OAuthTokensNext

-----------------------------------------------------------------------------
(* The whole invariant holds throughout.                                   *)
THEOREM RevokedInvHolds == OAuthTokensSpec => [](RevokedInv /\ UseInv)
<1>1. OAuthTokensInit => RevokedInv /\ UseInv
  BY InitInv
<1>2. (RevokedInv /\ UseInv) /\ [OAuthTokensNext]_oauthVars => (RevokedInv /\ UseInv)'
  <2> SUFFICES ASSUME RevokedInv, UseInv, [OAuthTokensNext]_oauthVars
               PROVE  RevokedInv' /\ UseInv'
    OBVIOUS
  <2>1. OAuthTokensTypeOK'
    BY StepTokensTyped DEF UseInv
  <2>2. ChainInv'
    BY <2>1, StepChained DEF RevokedInv, ChainInv
  <2>3. CutIsOver' /\ ClosingIsCut' /\ ClosedIsDead'
    BY <2>1, StepRevoked
  <2>4. UseIsRecorded'
    BY <2>1, StepUsed
  <2> QED
    BY <2>1, <2>2, <2>3, <2>4 DEF RevokedInv, UseInv
<1> QED
  BY <1>1, <1>2, PTL DEF OAuthTokensSpec

(* Revocation is final (revoke_family, revoke_client_grants, disconnect),  *)
(* however many exchanges and threads that disconnect there are.           *)
THEOREM RevocationIsFinal == OAuthTokensSpec => []RevokedStaysRevoked
<1>1. RevokedInv => RevokedStaysRevoked
  BY DEF RevokedInv, ChainInv, OAuthTokensTypeOK, CutIsOver, ClosedIsDead, RevokedStaysRevoked, Has,
         LiveOf, OfFamily
<1> QED
  BY <1>1, RevokedInvHolds, PTL

(* The daily cleanup cuts off no connection that was used within the       *)
(* retention of the ledger (disconnect_unused_connections).                *)
THEOREM CleanupSparesTheUsed == OAuthTokensSpec => UsedIsKept
<1> DEFINE Spared == \A c \in condemned' \ condemned :
                       lastUse[c] = Never0 \/ lastUse[c] < today - LedgerRetention
<1>1. UseInv /\ [OAuthTokensNext]_oauthVars => [Spared]_oauthVars
  <2> SUFFICES ASSUME UseInv, OAuthTokensNext, NEW c \in condemned' \ condemned,
                      lastUse[c] # Never0
               PROVE  lastUse[c] < today - LedgerRetention
    OBVIOUS
  <2>1. unused(c) /\ c \in Connections
    BY DEF OAuthTokensNext, Grant, load_code, consume_code, find_usable, rotate, issue_oauth_token,
           issue, is_usable, revoke_access, CleanupLists, revoke_client_grants, SelectAccess,
           revoke_oauth_tokens, Midnight, Stop, OAuthHorizon, oauthVars
  <2>2. PICK x \in Exchanges : /\ stage[x] = "done" /\ conn[handling[x]] = c
                               /\ touched[x] = lastUse[c] /\ accessDay[x] = lastUse[c]
                               /\ access[x] # "absent"
    BY <2>1 DEF UseInv, UseIsRecorded
  <2>3. access[x] \notin {"valid", "revoked"}
    BY <2>1, <2>2 DEF unused, last_used
  <2>4. access[x] = "purged"
    BY <2>2, <2>3 DEF UseInv, OAuthTokensTypeOK
  <2> QED
    BY <2>2, <2>4 DEF UseInv, UseIsRecorded
<1> QED
  BY <1>1, RevokedInvHolds, PTL DEF OAuthTokensSpec, UsedIsKept

-----------------------------------------------------------------------------
(* Where nobody shares a grant, its stage is that of its only holder.      *)
LEMMA StageOfGrant ==
  ASSUME ChainInv, NEW f \in Families
  PROVE  grantOf(f) = IF Has(f) THEN "held"
                      ELSE IF Moves(f) THEN "turning"
                      ELSE IF code[f] = "ready" THEN "offered"
                      ELSE IF code[f] = "none" THEN "none"
                      ELSE "ended"
<1>1. ~Forked(f)
  BY DEF ChainInv, OneHolder, Forked, LiveOf, OfFamily, Turning, Moving
<1>2. LiveOf(f) # {} <=> Has(f)
  BY DEF LiveOf, OfFamily, Has
<1>3. Turning(f) # {} <=> Moves(f)
  BY DEF Turning, Moves, Moving
<1> QED
  BY <1>1, <1>2, <1>3 DEF grantOf

(* The same after a step.                                                  *)
LEMMA StageAfterStep ==
  ASSUME NEW f \in Families
  PROVE  (ChainInv => grantOf(f) = IF Has(f) THEN "held"
                                   ELSE IF Moves(f) THEN "turning"
                                   ELSE IF code[f] = "ready" THEN "offered"
                                   ELSE IF code[f] = "none" THEN "none"
                                   ELSE "ended")'
<1>1. ChainInv => grantOf(f) = IF Has(f) THEN "held"
                               ELSE IF Moves(f) THEN "turning"
                               ELSE IF code[f] = "ready" THEN "offered"
                               ELSE IF code[f] = "none" THEN "none"
                               ELSE "ended"
  BY StageOfGrant
<1> QED
  BY <1>1, PTL

(* What a step may do to one authorization: nothing, offer its code, use   *)
(* the code up, or, when that is gone, go on from a token or an exchange.  *)
Moved(f) ==
    \/ (Has(f)' <=> Has(f)) /\ (Moves(f)' <=> Moves(f)) /\ code'[f] = code[f]
    \/ code[f] = "none" /\ code'[f] = "ready" /\ ~Has(f)' /\ ~Moves(f)'
    \/ code[f] = "ready" /\ code'[f] = "gone" /\ ~Has(f)'
    \/ /\ code[f] = "gone" /\ code'[f] = "gone"
       /\ Has(f)' \/ Moves(f)' => Has(f) \/ Moves(f)

(* Before the code is gone there is neither token nor exchange.            *)
LEMMA FreshHasNone ==
  ASSUME ChainInv, NEW f \in Families, code[f] # "gone"
  PROVE  ~Has(f) /\ ~Moves(f)
BY DEF ChainInv, FreshIsEmpty, Has

(* Every step moves every authorization like that.                         *)
LEMMA StepMoves ==
  ASSUME ChainInv, ChainInv', [OAuthTokensNext]_oauthVars, NEW f \in Families
  PROVE  Moved(f)
<1> USE DEF ChainInv, OAuthTokensTypeOK, Stages, refreshTokens, exchanging
<1>1. CASE code[f] # "gone" /\ code'[f] = code[f]
  BY <1>1, FreshHasNone DEF Moved, FreshIsEmpty, Has
<1>2. CASE code'[f] # code[f]
  <2>1. \/ \E e \in Families : Grant(e)
        \/ \E x \in Exchanges : consume_code(x)
        \/ Midnight
    BY <1>2 DEF OAuthTokensNext, load_code, find_usable, rotate, issue_oauth_token, issue,
         is_usable, revoke_access, CleanupLists, revoke_client_grants, SelectAccess,
         revoke_oauth_tokens, Stop, OAuthHorizon, oauthVars
  <2>2. \/ code[f] = "none" /\ code'[f] = "ready"
        \/ code[f] = "ready" /\ code'[f] = "gone"
    <3>1. ASSUME NEW x \in Exchanges, consume_code(x)
          PROVE  code[f] = "ready" /\ code'[f] = "gone"
      <4>1. f = handling[x] /\ code'[f] = "gone" /\ stage[x] = "code"
        BY <1>2, <3>1 DEF consume_code
      <4> QED
        BY <1>2, <4>1 DEF LoadedWasGranted
    <3>2. ASSUME NEW e \in Families, Grant(e) PROVE code[f] = "none" /\ code'[f] = "ready"
      BY <1>2, <3>2 DEF Grant
    <3>3. ASSUME Midnight PROVE code[f] = "ready" /\ code'[f] = "gone"
      BY <1>2, <3>3 DEF Midnight
    <3> QED
      BY <2>1, <3>1, <3>2, <3>3
  <2>3. UNCHANGED <<token, family>>
    BY <2>1 DEF Grant, consume_code, Midnight
  <2>4. ~Has(f)'
    BY <2>2, <2>3, FreshHasNone DEF Has
  <2>5. code'[f] = "ready" => ~Moves(f)'
    BY DEF FreshIsEmpty
  <2> QED
    BY <2>2, <2>4, <2>5 DEF Moved
<1>3. CASE code[f] = "gone" /\ code'[f] = "gone"
  <2> SUFFICES ASSUME Has(f)' \/ Moves(f)' PROVE Has(f) \/ Moves(f)
    BY <1>3 DEF Moved
  <2> USE DEF Has, Moves, Moving
  <2>1. ASSUME NEW e \in Families, NEW x \in Exchanges, load_code(x, e) PROVE Has(f) \/ Moves(f)
    BY <2>1 DEF load_code
  <2>2. ASSUME NEW x \in Exchanges, consume_code(x) PROVE Has(f) \/ Moves(f)
    BY <1>3, <2>2 DEF consume_code
  <2>3. ASSUME NEW x \in Exchanges, NEW t \in Tokens, find_usable(x, t) PROVE Has(f) \/ Moves(f)
    BY <2>3 DEF find_usable, revoke
  <2>4. ASSUME NEW x \in Exchanges, rotate(x) PROVE Has(f) \/ Moves(f)
    BY <2>4 DEF rotate, rotates, LoadedExists
  <2>5. ASSUME NEW x \in Exchanges, issue_oauth_token(x) PROVE Has(f) \/ Moves(f)
    BY <2>5 DEF issue_oauth_token
  <2>6. ASSUME NEW x \in Exchanges, issue(x) PROVE Has(f) \/ Moves(f)
    BY <2>6 DEF issue
  <2>7. ASSUME NEW r \in Revokers, NEW c \in Connections, revoke_client_grants(r, c)
        PROVE Has(f) \/ Moves(f)
    BY <2>7 DEF revoke_client_grants, revoke
  <2>8. CASE Stop
    BY <2>8 DEF Stop
  <2>9. CASE UNCHANGED <<token, family, stage, handling>>
    BY <2>9
  <2>10. ASSUME \/ \E e \in Families : Grant(e)
                \/ \E x \in Exchanges : is_usable(x) \/ revoke_access(x)
                \/ \E r \in Revokers : SelectAccess(r) \/ revoke_oauth_tokens(r)
                \/ CleanupLists \/ Midnight \/ OAuthHorizon \/ UNCHANGED oauthVars
         PROVE UNCHANGED <<token, family, stage, handling>>
    BY <2>10 DEF Grant, is_usable, revoke_access, SelectAccess, revoke_oauth_tokens, CleanupLists,
                 Midnight, OAuthHorizon, oauthVars
  <2> QED
    BY <2>1, <2>2, <2>3, <2>4, <2>5, <2>6, <2>7, <2>8, <2>9, <2>10 DEF OAuthTokensNext
<1> QED
  BY <1>1, <1>2, <1>3

(* Every authorization is a chain of single holders, for any number of     *)
(* them, of exchanges and of restarts: OAuthTokens implements GrantChain.  *)
THEOREM GrantsAreChains == OAuthTokensSpec => EachGrantIsAChain
<1> DEFINE grant == [f \in Families |-> grantOf(f)]
<1>1. OAuthTokensInit => grant = [f \in Families |-> "none"]
  <2> SUFFICES ASSUME OAuthTokensInit, NEW f \in Families PROVE grantOf(f) = "none"
    OBVIOUS
  <2>1. ChainInv
    BY InitInv DEF RevokedInv
  <2>2. code[f] = "none"
    BY DEF OAuthTokensInit
  <2> QED
    BY <2>1, <2>2, StageOfGrant, FreshHasNone
<1>2. ChainInv /\ ChainInv' /\ [OAuthTokensNext]_oauthVars => [Chains!GrantNext]_grant
  <2> SUFFICES ASSUME ChainInv, ChainInv', [OAuthTokensNext]_oauthVars, NEW f \in Families
               PROVE  \/ grantOf(f)' = grantOf(f)
                      \/ grantOf(f) = "none" /\ grantOf(f)' = "offered"
                      \/ grantOf(f) \in {"offered", "held"} /\ grantOf(f)' = "turning"
                      \/ grantOf(f) = "turning" /\ grantOf(f)' = "held"
                      \/ grantOf(f) \in {"offered", "held", "turning"} /\ grantOf(f)' = "ended"
    BY DEF Chains!GrantNext, Chains!Offered, Chains!Turned, Chains!Held, Chains!Ended
  <2>1. grantOf(f) = IF Has(f) THEN "held" ELSE IF Moves(f) THEN "turning"
                     ELSE IF code[f] = "ready" THEN "offered"
                     ELSE IF code[f] = "none" THEN "none" ELSE "ended"
    BY StageOfGrant
  <2>2. grantOf(f)' = IF Has(f)' THEN "held" ELSE IF Moves(f)' THEN "turning"
                      ELSE IF code'[f] = "ready" THEN "offered"
                      ELSE IF code'[f] = "none" THEN "none" ELSE "ended"
    BY StageAfterStep
  <2>3. Moved(f)
    BY StepMoves
  <2>4. code[f] # "gone" => ~Has(f) /\ ~Moves(f)
    BY FreshHasNone
  <2> QED
    BY <2>1, <2>2, <2>3, <2>4 DEF Moved, ChainInv, OAuthTokensTypeOK
<1> QED
  BY <1>1, <1>2, RevokedInvHolds, PTL
     DEF OAuthTokensSpec, EachGrantIsAChain, Chains!GrantSpec, Chains!GrantInit, RevokedInv
-----------------------------------------------------------------------------
(* The rest is about OAuthFlow.                                            *)


Opening(s, q) == \E b \in Browsers : show[s] = <<b, q>>

(* A nonce is in a cookie or a row only once its page has been opened, and *)
(* in one cookie at most.                                                  *)
NoncesAreNew ==
    /\ \A b \in Browsers : cookie[b] # Nobody => show[cookie[b]] = <<"done">>
    /\ \A q \in Requests : browser_hash[q] # Nobody => show[browser_hash[q]] = <<"done">>
    /\ \A b, c \in Browsers : cookie[b] = cookie[c] => b = c \/ cookie[b] = Nobody

(* Of a request whose page no two browsers opened at the same time, one    *)
(* thread is opening the page, or the row holds a nonce for good; and who  *)
(* has approved is the only one that may hold the nonce.                   *)
OneBrowser ==
    \A q \in Requests \ raced :
        /\ \A s \in Shows : Opening(s, q) => browser_hash[q] = Nobody
        /\ \A r, s \in Shows : Opening(r, q) /\ Opening(s, q) => r = s
        /\ approved[q] # {} => browser_hash[q] # Nobody
        /\ \A b \in approved[q], c \in Browsers : cookie[c] = browser_hash[q] => c = b

(* A login goes on in a browser that approved the request.                 *)
LoginsApproved ==
    \A k \in Callbacks, b \in Browsers, q \in Requests \ raced :
        callback[k] = <<b, q>> \/ answered[k] = <<b, q>> => b \in approved[q]

(* What is under way concerns requests that were made; a login answers     *)
(* when it has ended.                                                      *)
UnderWay ==
    /\ \A q \in denying \union refusedRequests : request[q] # "absent"
    /\ \A k \in Callbacks, b \in Browsers, q \in Requests :
         callback[k] = <<b, q>> \/ answered[k] = <<b, q>> => request[q] # "absent"
    /\ \A k \in Callbacks : answered[k] # <<>> => callback[k] = <<"done">>
    /\ \A k \in sent : answered[k] # <<>>

(* The code of a row is of a login for that row; a row whose code has been *)
(* exchanged, or whose client was refused, is gone.                        *)
CodesOfRows ==
    /\ \A q \in Requests : code_hash[q] # Nobody =>
         \E b \in Browsers : answered[code_hash[q]] = <<b, q>>
    /\ \A k \in exchanged : \E b \in Browsers, q \in Requests :
         answered[k] = <<b, q>> /\ request[q] = "deleted" /\ code_hash[q] = k
    /\ \A q \in refusedRequests : request[q] = "deleted"

(* A code that was sent is stored until it expires, unless another login   *)
(* or a refusal of the request came in between.                            *)
Stored(k, q) ==
    \/ request[q] = "completed" /\ code_hash[q] = k
    \/ request[q] = "deleted" /\ expires[q] <= minute
    \/ \E j \in Callbacks \ {k} : \E c \in Browsers : answered[j] = <<c, q>>
    \/ q \in refusedRequests

SentIsStored ==
    \A k \in sent \ exchanged : \A b \in Browsers, q \in Requests :
        answered[k] = <<b, q>> => Stored(k, q)

FlowInv == OAuthFlowTypeOK /\ NoncesAreNew /\ OneBrowser /\ LoginsApproved
           /\ UnderWay /\ CodesOfRows /\ SentIsStored
-----------------------------------------------------------------------------
(* There are no requests, cookies or codes at first.                       *)
LEMMA InitFlow == OAuthFlowInit => FlowInv
<1> SUFFICES ASSUME OAuthFlowInit PROVE FlowInv
  OBVIOUS
<1> USE FlowAssumption DEF OAuthFlowInit
<1>1. OAuthFlowTypeOK
  BY DEF OAuthFlowTypeOK
<1>2. NoncesAreNew /\ OneBrowser /\ LoginsApproved
  BY DEF NoncesAreNew, OneBrowser, LoginsApproved, Opening
<1>3. UnderWay /\ CodesOfRows /\ SentIsStored
  BY DEF UnderWay, CodesOfRows, SentIsStored
<1> QED
  BY <1>1, <1>2, <1>3 DEF FlowInv

(* Every step keeps every variable in its domain.                          *)
LEMMA StepFlowTyped == OAuthFlowTypeOK /\ [OAuthFlowNext]_flowVars => OAuthFlowTypeOK'
<1> SUFFICES ASSUME OAuthFlowTypeOK, [OAuthFlowNext]_flowVars PROVE OAuthFlowTypeOK'
  OBVIOUS
<1> USE FlowAssumption DEF OAuthFlowTypeOK, Pairs
<1>1. ASSUME NEW q \in Requests, create_request(q) PROVE OAuthFlowTypeOK'
  BY <1>1 DEF create_request
<1>2. ASSUME NEW s \in Shows, NEW b \in Browsers, NEW q \in Requests, ShowReads(s, b, q)
      PROVE  OAuthFlowTypeOK'
  BY <1>2 DEF ShowReads
<1>3. ASSUME NEW s \in Shows, bind_browser(s) PROVE OAuthFlowTypeOK'
  <2>1. PICK b \in Browsers, q \in Requests :
          \/ /\ browser_hash' = [browser_hash EXCEPT ![q] = s]
             /\ cookie' = [cookie EXCEPT ![b] = s]
          \/ UNCHANGED <<browser_hash, cookie>>
    BY <1>3 DEF bind_browser
  <2>2. show' = [show EXCEPT ![s] = <<"done">>]
    BY <1>3 DEF bind_browser
  <2>3. browser_hash' \in [Requests -> Shows \union {Nobody}]
        /\ cookie' \in [Browsers -> Shows \union {Nobody}]
    <3>1. browser_hash \in [Requests -> Shows \union {Nobody}]
          /\ cookie \in [Browsers -> Shows \union {Nobody}]
      OBVIOUS
    <3> HIDE DEF OAuthFlowTypeOK
    <3> QED
      BY <2>1, <3>1
  <2>4. UNCHANGED <<minute, request, expires, code_hash, approved, denying, callback, answered,
                    sent, exchanged, refusedRequests, raced>>
    BY <1>3 DEF bind_browser
  <2> QED
    BY <2>2, <2>3, <2>4
<1>4. ASSUME NEW b \in Browsers, NEW q \in Requests, Approve(b, q) PROVE OAuthFlowTypeOK'
  BY <1>4 DEF Approve
<1>5. ASSUME NEW b \in Browsers, NEW q \in Requests, DenyReads(b, q) PROVE OAuthFlowTypeOK'
  BY <1>5 DEF DenyReads
<1>6. ASSUME NEW q \in Requests, Deny(q) PROVE OAuthFlowTypeOK'
  BY <1>6 DEF Deny, discard_request
<1>7. ASSUME NEW k \in Callbacks, NEW b \in Browsers, NEW q \in Requests,
             ReturnsFromGitHub(k, b, q)
      PROVE  OAuthFlowTypeOK'
  BY <1>7 DEF ReturnsFromGitHub
<1>8. ASSUME NEW k \in Callbacks, LoginFails(k) PROVE OAuthFlowTypeOK'
  BY <1>8 DEF LoginFails, discard_request
<1>9. ASSUME NEW k \in Callbacks, complete_request(k) PROVE OAuthFlowTypeOK'
  <2>1. PICK b \in Browsers, q \in Requests :
          \/ /\ request' = [request EXCEPT ![q] = "completed"]
             /\ code_hash' = [code_hash EXCEPT ![q] = k]
             /\ expires' = [expires EXCEPT ![q] = minute + CodeTTL]
             /\ answered' = [answered EXCEPT ![k] = <<b, q>>]
             /\ sent' = sent \union {k}
             /\ cookie' = [cookie EXCEPT ![b] = Nobody]
          \/ UNCHANGED <<request, code_hash, expires, answered, sent, cookie>>
    BY <1>9 DEF complete_request
  <2>2. callback' = [callback EXCEPT ![k] = <<"done">>]
    BY <1>9 DEF complete_request
  <2>3. UNCHANGED <<minute, browser_hash, show, approved, denying, exchanged, refusedRequests,
                    raced>>
    BY <1>9 DEF complete_request
  <2>4. /\ request' \in [Requests -> {"absent", "pending", "completed", "deleted"}]
        /\ code_hash' \in [Requests -> Callbacks \union {Nobody}]
        /\ expires' \in [Requests -> Nat]
    <3>1. /\ minute + CodeTTL \in Nat
          /\ request \in [Requests -> {"absent", "pending", "completed", "deleted"}]
          /\ code_hash \in [Requests -> Callbacks \union {Nobody}]
          /\ expires \in [Requests -> Nat]
      OBVIOUS
    <3> HIDE DEF OAuthFlowTypeOK
    <3> QED
      BY <2>1, <3>1
  <2>5. /\ answered' \in [Callbacks -> Pairs \union {<<>>}]
        /\ cookie' \in [Browsers -> Shows \union {Nobody}]
        /\ sent' \subseteq Callbacks /\ exchanged' \subseteq sent'
    <3>1. /\ answered \in [Callbacks -> Pairs \union {<<>>}]
          /\ cookie \in [Browsers -> Shows \union {Nobody}]
          /\ sent \subseteq Callbacks /\ exchanged \subseteq sent
      OBVIOUS
    <3> HIDE DEF OAuthFlowTypeOK
    <3> QED
      BY <2>1, <2>3, <3>1
  <2> QED
    BY <2>2, <2>3, <2>4, <2>5
<1>10. ASSUME NEW k \in Callbacks, CodeExchanged(k) PROVE OAuthFlowTypeOK'
  BY <1>10 DEF CodeExchanged
<1>11. CASE Minute \/ FlowHorizon \/ UNCHANGED flowVars
  BY <1>11 DEF Minute, FlowHorizon, flowVars
<1> QED
  BY <1>1, <1>2, <1>3, <1>4, <1>5, <1>6, <1>7, <1>8, <1>9, <1>10, <1>11 DEF OAuthFlowNext
(* Two pairs are equal part by part, and none is a mark.                   *)
LEMMA PairsDiffer ==
  /\ \A b, c \in Browsers, p, q \in Requests : <<b, p>> = <<c, q>> => b = c /\ p = q
  /\ \A b \in Browsers, q \in Requests : <<b, q>> # <<>> /\ <<b, q>> # <<"done">>
  /\ <<"done">> # <<>>
OBVIOUS

(* Every step keeps the nonces apart and logins with who approved.         *)
LEMMA StepBrowsers ==
  ASSUME FlowInv, OAuthFlowTypeOK', [OAuthFlowNext]_flowVars
  PROVE  NoncesAreNew' /\ OneBrowser' /\ LoginsApproved'
<1> DEFINE Parts == NoncesAreNew /\ OneBrowser /\ LoginsApproved
<1> SUFFICES Parts'
  OBVIOUS
<1>0. /\ browser_hash \in [Requests -> Shows \union {Nobody}]
      /\ cookie \in [Browsers -> Shows \union {Nobody}]
      /\ show \in [Shows -> Pairs \union {<<>>, <<"done">>}]
      /\ approved \in [Requests -> SUBSET Browsers]
      /\ callback \in [Callbacks -> Pairs \union {<<>>, <<"done">>}]
      /\ answered \in [Callbacks -> Pairs \union {<<>>}]
      /\ NoncesAreNew /\ OneBrowser /\ LoginsApproved
  BY DEF FlowInv, OAuthFlowTypeOK
<1> USE <1>0, FlowAssumption, PairsDiffer
<1>1. ASSUME UNCHANGED <<browser_hash, cookie, show, approved, callback, answered, raced>>
      PROVE  Parts'
  BY <1>1 DEF NoncesAreNew, OneBrowser, LoginsApproved, Opening
<1>2. ASSUME NEW q \in Requests, create_request(q) \/ Deny(q) PROVE Parts'
  BY <1>1, <1>2 DEF create_request, Deny
<1>3. ASSUME NEW s \in Shows, NEW b \in Browsers, NEW q \in Requests, ShowReads(s, b, q)
      PROVE  Parts'
  <2>1. /\ show[s] = <<>> /\ browser_hash[q] = Nobody
        /\ show' = [show EXCEPT ![s] = <<b, q>>]
        /\ UNCHANGED <<browser_hash, cookie, approved, callback, answered>>
        /\ raced \subseteq raced'
        /\ (\E r \in Shows : Opening(r, q)) => q \in raced'
    BY <1>3 DEF ShowReads, Opening
  <2>2. NoncesAreNew'
    BY <2>1 DEF NoncesAreNew
  <2>3. OneBrowser'
    BY <2>1 DEF OneBrowser, Opening
  <2>4. LoginsApproved'
    BY <2>1 DEF LoginsApproved
  <2> QED
    BY <2>2, <2>3, <2>4
<1>4. ASSUME NEW s \in Shows, bind_browser(s) PROVE Parts'
  <2>1. PICK b \in Browsers, q \in Requests :
          /\ show[s] = <<b, q>>
          /\ \/ /\ browser_hash' = [browser_hash EXCEPT ![q] = s]
                /\ cookie' = [cookie EXCEPT ![b] = s]
             \/ UNCHANGED <<browser_hash, cookie>>
    BY <1>4 DEF bind_browser
  <2>2. /\ show' = [show EXCEPT ![s] = <<"done">>]
        /\ UNCHANGED <<approved, callback, answered, raced>>
    BY <1>4 DEF bind_browser
  <2>3. NoncesAreNew'
    <3>1. \A c \in Browsers : cookie'[c] = s \/ cookie'[c] = cookie[c]
      BY <2>1
    <3>2. \A p \in Requests : browser_hash'[p] = s \/ browser_hash'[p] = browser_hash[p]
      BY <2>1
    <3>3. \A c \in Browsers : cookie[c] # s
      BY <2>1 DEF NoncesAreNew
    <3>4. \A r \in Shows : show[r] = <<"done">> \/ r = s => show'[r] = <<"done">>
      BY <2>2
    <3>5. \A c, d \in Browsers : cookie'[c] = cookie'[d] => c = d \/ cookie'[c] = Nobody
      BY <2>1, <3>3 DEF NoncesAreNew
    <3> QED
      BY <3>1, <3>2, <3>4, <3>5 DEF NoncesAreNew
  <2>4. OneBrowser'
    <3>1. /\ \A c \in Browsers : cookie[c] # s
          /\ \A p \in Requests : browser_hash[p] # s
      BY <2>1 DEF NoncesAreNew
    <3>2. \A p \in Requests, r \in Shows : Opening(r, p)' => Opening(r, p) /\ r # s
      BY <2>2 DEF Opening
    <3> SUFFICES ASSUME NEW p \in Requests, p \notin raced
                 PROVE  /\ \A r \in Shows : Opening(r, p)' => browser_hash'[p] = Nobody
                        /\ \A r, t \in Shows : Opening(r, p)' /\ Opening(t, p)' => r = t
                        /\ approved[p] # {} => browser_hash'[p] # Nobody
                        /\ \A a \in approved[p], c \in Browsers :
                             cookie'[c] = browser_hash'[p] => c = a
      BY <2>2 DEF OneBrowser
    <3>3. CASE UNCHANGED <<browser_hash, cookie>>
      BY <3>2, <3>3 DEF OneBrowser
    <3>4. CASE /\ browser_hash' = [browser_hash EXCEPT ![q] = s]
               /\ cookie' = [cookie EXCEPT ![b] = s]
      <4>1. Opening(s, q)
        BY <2>1 DEF Opening
      <4>2. q \notin raced => browser_hash[q] = Nobody /\ approved[q] = {}
        BY <4>1 DEF OneBrowser
      <4>3. CASE p = q
        BY <3>2, <3>4, <4>1, <4>2, <4>3 DEF OneBrowser
      <4>4. CASE p # q
        <5>1. browser_hash'[p] = browser_hash[p] /\ browser_hash[p] # s
          BY <3>1, <3>4, <4>4
        <5>2. \A c \in Browsers : cookie'[c] = browser_hash[p] => cookie[c] = browser_hash[p]
          BY <3>4, <5>1
        <5> QED
          BY <3>2, <5>1, <5>2 DEF OneBrowser
      <4> QED
        BY <4>3, <4>4
    <3> QED
      BY <2>1, <3>3, <3>4
  <2>5. LoginsApproved'
    BY <2>2 DEF LoginsApproved
  <2> QED
    BY <2>3, <2>4, <2>5
<1>5. ASSUME NEW b \in Browsers, NEW q \in Requests, Approve(b, q) PROVE Parts'
  <2>1. /\ cookie[b] # Nobody /\ cookie[b] = browser_hash[q]
        /\ approved' = [approved EXCEPT ![q] = approved[q] \union {b}]
        /\ UNCHANGED <<browser_hash, cookie, show, callback, answered, raced>>
    BY <1>5 DEF Approve, is_bound_to
  <2>2. NoncesAreNew'
    BY <2>1 DEF NoncesAreNew
  <2>3. OneBrowser'
    BY <2>1 DEF OneBrowser, Opening, NoncesAreNew
  <2>4. LoginsApproved'
    BY <2>1 DEF LoginsApproved
  <2> QED
    BY <2>2, <2>3, <2>4
<1>6. ASSUME NEW b \in Browsers, NEW q \in Requests, DenyReads(b, q) PROVE Parts'
  BY <1>1, <1>6 DEF DenyReads
<1>7. ASSUME NEW k \in Callbacks, NEW b \in Browsers, NEW q \in Requests,
             ReturnsFromGitHub(k, b, q)
      PROVE  Parts'
  <2>1. /\ approved[q] # {} /\ cookie[b] = browser_hash[q]
        /\ callback' = [callback EXCEPT ![k] = <<b, q>>]
        /\ UNCHANGED <<browser_hash, cookie, show, approved, answered, raced>>
    BY <1>7 DEF ReturnsFromGitHub, is_bound_to
  <2>2. q \notin raced => b \in approved[q]
    BY <2>1 DEF OneBrowser
  <2>3. NoncesAreNew' /\ OneBrowser'
    BY <2>1 DEF NoncesAreNew, OneBrowser, Opening
  <2>4. LoginsApproved'
    BY <2>1, <2>2 DEF LoginsApproved
  <2> QED
    BY <2>3, <2>4
<1>8. ASSUME NEW k \in Callbacks, LoginFails(k) PROVE Parts'
  <2>1. /\ callback' = [callback EXCEPT ![k] = <<"done">>]
        /\ UNCHANGED <<browser_hash, cookie, show, approved, answered, raced>>
    BY <1>8 DEF LoginFails
  <2>2. NoncesAreNew' /\ OneBrowser'
    BY <2>1 DEF NoncesAreNew, OneBrowser, Opening
  <2>3. LoginsApproved'
    BY <2>1 DEF LoginsApproved
  <2> QED
    BY <2>2, <2>3
<1>9. ASSUME NEW k \in Callbacks, complete_request(k) PROVE Parts'
  <2>1. PICK b \in Browsers, q \in Requests :
          /\ callback[k] = <<b, q>>
          /\ \/ /\ answered' = [answered EXCEPT ![k] = <<b, q>>]
                /\ cookie' = [cookie EXCEPT ![b] = Nobody]
             \/ UNCHANGED <<answered, cookie>>
    BY <1>9 DEF complete_request
  <2>2. /\ callback' = [callback EXCEPT ![k] = <<"done">>]
        /\ UNCHANGED <<browser_hash, show, approved, raced>>
    BY <1>9 DEF complete_request
  <2>3. NoncesAreNew'
    BY <2>1, <2>2 DEF NoncesAreNew
  <2>4. OneBrowser'
    BY <2>1, <2>2 DEF OneBrowser, Opening
  <2>5. LoginsApproved'
    <3> SUFFICES ASSUME NEW j \in Callbacks, NEW c \in Browsers, NEW p \in Requests \ raced,
                        callback'[j] = <<c, p>> \/ answered'[j] = <<c, p>>
                 PROVE  c \in approved[p]
      BY <2>2 DEF LoginsApproved
    <3>1. callback'[j] = <<c, p>> => callback[j] = <<c, p>>
      BY <2>2
    <3>2. answered'[j] = <<c, p>> => callback[j] = <<c, p>> \/ answered[j] = <<c, p>>
      BY <2>1
    <3> QED
      BY <3>1, <3>2 DEF LoginsApproved
  <2> QED
    BY <2>3, <2>4, <2>5
<1>10. ASSUME NEW k \in Callbacks, CodeExchanged(k) PROVE Parts'
  BY <1>1, <1>10 DEF CodeExchanged
<1>11. CASE Minute \/ FlowHorizon \/ UNCHANGED flowVars
  BY <1>1, <1>11 DEF Minute, FlowHorizon, flowVars
<1> QED
  BY <1>2, <1>3, <1>4, <1>5, <1>6, <1>7, <1>8, <1>9, <1>10, <1>11 DEF OAuthFlowNext

(* A row that is gone stays so, one that was made does not become unmade,  *)
(* and what a row stores changes only when a login ends.                   *)
LEMMA StepRows ==
  ASSUME OAuthFlowTypeOK, [OAuthFlowNext]_flowVars
  PROVE  /\ \A q \in Requests : /\ request[q] # "absent" => request'[q] # "absent"
                                /\ request[q] = "deleted" => /\ request'[q] = "deleted"
                                                             /\ expires'[q] = expires[q]
         /\ minute \in Nat /\ minute' \in Nat /\ minute <= minute'
         /\ \A q \in Requests : expires[q] \in Nat
         /\ \/ UNCHANGED <<code_hash, answered, sent>>
            \/ \E k \in Callbacks : complete_request(k)
<1>0. /\ request \in [Requests -> {"absent", "pending", "completed", "deleted"}]
      /\ expires \in [Requests -> Nat] /\ minute \in Nat
  BY FlowAssumption DEF OAuthFlowTypeOK
<1> DEFINE Parts == /\ \A q \in Requests : /\ request[q] # "absent" => request'[q] # "absent"
                                           /\ request[q] = "deleted" =>
                                                /\ request'[q] = "deleted"
                                                /\ expires'[q] = expires[q]
                    /\ minute' = minute \/ minute' = minute + 1
                    /\ \/ UNCHANGED <<code_hash, answered, sent>>
                       \/ \E k \in Callbacks : complete_request(k)
<1> SUFFICES Parts
  BY <1>0
<1> USE <1>0
<1>1. ASSUME NEW q \in Requests, create_request(q) PROVE Parts
  BY <1>1 DEF create_request, present
<1>2. ASSUME NEW q \in Requests, Deny(q) PROVE Parts
  BY <1>2 DEF Deny, discard_request, present
<1>3. ASSUME NEW s \in Shows, NEW b \in Browsers, NEW q \in Requests, ShowReads(s, b, q)
      PROVE  Parts
  BY <1>3 DEF ShowReads
<1>4. ASSUME NEW s \in Shows, bind_browser(s) PROVE Parts
  BY <1>4 DEF bind_browser
<1>5. ASSUME NEW b \in Browsers, NEW q \in Requests,
             \/ Approve(b, q) \/ DenyReads(b, q)
             \/ \E k \in Callbacks : ReturnsFromGitHub(k, b, q)
      PROVE  Parts
  BY <1>5, SMTT(30) DEF Approve, DenyReads, ReturnsFromGitHub
<1>6. ASSUME NEW k \in Callbacks, LoginFails(k) PROVE Parts
  BY <1>6 DEF LoginFails, discard_request, present
<1>7. ASSUME NEW k \in Callbacks, complete_request(k) PROVE Parts
  BY <1>7 DEF complete_request, writable, present
<1>8. ASSUME NEW k \in Callbacks, CodeExchanged(k) PROVE Parts
  BY <1>8 DEF CodeExchanged
<1>9. CASE Minute \/ FlowHorizon \/ UNCHANGED flowVars
  BY <1>9 DEF Minute, FlowHorizon, flowVars
<1> QED
  BY <1>1, <1>2, <1>3, <1>4, <1>5, <1>6, <1>7, <1>8, <1>9 DEF OAuthFlowNext

(* Every step keeps what is under way and what the rows store in order.    *)
LEMMA StepEnds ==
  ASSUME FlowInv, OAuthFlowTypeOK', [OAuthFlowNext]_flowVars
  PROVE  UnderWay' /\ CodesOfRows' /\ SentIsStored'
<1> DEFINE Parts == UnderWay /\ CodesOfRows /\ SentIsStored
<1> SUFFICES Parts'
  OBVIOUS
<1>0. /\ request \in [Requests -> {"absent", "pending", "completed", "deleted"}]
      /\ code_hash \in [Requests -> Callbacks \union {Nobody}]
      /\ expires \in [Requests -> Nat] /\ minute \in Nat
      /\ callback \in [Callbacks -> Pairs \union {<<>>, <<"done">>}]
      /\ answered \in [Callbacks -> Pairs \union {<<>>}]
      /\ sent \subseteq Callbacks /\ exchanged \subseteq sent
      /\ denying \subseteq Requests /\ refusedRequests \subseteq Requests
      /\ UnderWay /\ CodesOfRows /\ SentIsStored
  BY FlowAssumption DEF FlowInv, OAuthFlowTypeOK
<1>00. /\ \A q \in Requests : /\ request[q] # "absent" => request'[q] # "absent"
                              /\ request[q] = "deleted" => /\ request'[q] = "deleted"
                                                           /\ expires'[q] = expires[q]
       /\ minute \in Nat /\ minute' \in Nat /\ minute <= minute'
  BY StepRows DEF FlowInv
<1> USE <1>0, <1>00, FlowAssumption, PairsDiffer
<1>1. ASSUME UNCHANGED <<code_hash, answered, sent, exchanged, refusedRequests>>,
             \A q \in denying' : request'[q] # "absent",
             \A k \in Callbacks, b \in Browsers, q \in Requests :
               callback'[k] = <<b, q>> => request'[q] # "absent",
             \A k \in Callbacks : callback[k] = <<"done">> => callback'[k] = <<"done">>,
             \A q \in Requests : request[q] = "completed" =>
               \/ request'[q] = "completed"
               \/ request'[q] = "deleted" /\ expires'[q] <= minute'
      PROVE  Parts'
  <2>1. UnderWay'
    BY <1>1 DEF UnderWay
  <2>2. CodesOfRows'
    BY <1>1 DEF CodesOfRows
  <2>3. SentIsStored'
    <3> SUFFICES ASSUME NEW k \in sent \ exchanged, NEW b \in Browsers, NEW q \in Requests,
                        answered[k] = <<b, q>>
                 PROVE  Stored(k, q)'
      BY <1>1 DEF SentIsStored
    <3>1. request[q] = "deleted" /\ expires[q] <= minute =>
            request'[q] = "deleted" /\ expires'[q] <= minute'
      OBVIOUS
    <3>2. Stored(k, q)
      BY DEF SentIsStored
    <3> QED
      BY <1>1, <3>1, <3>2 DEF Stored
  <2> QED
    BY <2>1, <2>2, <2>3
<1>2. ASSUME NEW q \in Requests, create_request(q) PROVE Parts'
  <2>1. /\ \A p \in Requests : request[p] = "completed" =>
             \/ request'[p] = "completed"
             \/ request'[p] = "deleted" /\ expires'[p] <= minute'
        /\ \A p \in Requests : p # q => expires'[p] = expires[p]
    BY <1>2 DEF create_request, present
  <2> QED
    BY <1>1, <1>2, <2>1 DEF create_request, UnderWay
<1>3. ASSUME NEW s \in Shows, NEW b \in Browsers, NEW q \in Requests, ShowReads(s, b, q)
      PROVE  Parts'
  BY <1>1, <1>3 DEF ShowReads, UnderWay
<1>4. ASSUME NEW s \in Shows, bind_browser(s) PROVE Parts'
  BY <1>1, <1>4 DEF bind_browser, UnderWay
<1>5. ASSUME NEW b \in Browsers, NEW q \in Requests, Approve(b, q) PROVE Parts'
  BY <1>1, <1>5 DEF Approve, UnderWay
<1>6. ASSUME NEW b \in Browsers, NEW q \in Requests, DenyReads(b, q) PROVE Parts'
  BY <1>1, <1>6 DEF DenyReads, UnderWay, pending
<1>7. ASSUME NEW k \in Callbacks, NEW b \in Browsers, NEW q \in Requests,
             ReturnsFromGitHub(k, b, q)
      PROVE  Parts'
  <2>1. /\ callback[k] = <<>> /\ callback' = [callback EXCEPT ![k] = <<b, q>>]
        /\ request[q] = "pending"
    BY <1>7 DEF ReturnsFromGitHub, pending
  <2>2. UNCHANGED <<minute, request, expires, code_hash, denying, answered, sent, exchanged,
                    refusedRequests>>
    BY <1>7 DEF ReturnsFromGitHub
  <2>3. \A j \in Callbacks, c \in Browsers, p \in Requests :
          callback'[j] = <<c, p>> => request'[p] # "absent"
    BY <2>1, <2>2 DEF UnderWay
  <2> QED
    BY <1>1, <2>1, <2>2, <2>3 DEF UnderWay
<1>8. ASSUME NEW q \in Requests, request[q] # "absent",
             request' = [request EXCEPT ![q] = IF present(q) THEN "deleted" ELSE @],
             refusedRequests' = refusedRequests \union {q},
             denying' \subseteq denying,
             \A k \in Callbacks : callback'[k] \in {callback[k], <<"done">>},
             UNCHANGED <<minute, expires, code_hash, answered, sent, exchanged>>
      PROVE  Parts'
  <2>1. request'[q] = "deleted" /\ \A p \in Requests \ {q} : request'[p] = request[p]
    BY <1>8 DEF present
  <2>2. UnderWay'
    <3>1. \A k \in Callbacks, b \in Browsers, p \in Requests :
            callback'[k] = <<b, p>> => callback[k] = <<b, p>>
      BY <1>8
    <3> QED
      BY <1>8, <2>1, <3>1 DEF UnderWay
  <2>3. CodesOfRows'
    BY <1>8, <2>1 DEF CodesOfRows
  <2>4. SentIsStored'
    <3> SUFFICES ASSUME NEW k \in sent \ exchanged, NEW b \in Browsers, NEW p \in Requests,
                        answered[k] = <<b, p>>
                 PROVE  Stored(k, p)'
      BY <1>8 DEF SentIsStored
    <3>1. Stored(k, p)
      BY DEF SentIsStored
    <3> QED
      BY <1>8, <2>1, <3>1 DEF Stored
  <2> QED
    BY <2>2, <2>3, <2>4
<1>9. ASSUME NEW q \in Requests, Deny(q) PROVE Parts'
  BY <1>8, <1>9 DEF Deny, discard_request, UnderWay
<1>10. ASSUME NEW k \in Callbacks, LoginFails(k) PROVE Parts'
  <2>1. PICK b \in Browsers, q \in Requests :
          /\ callback[k] = <<b, q>>
          /\ discard_request(q)
          /\ refusedRequests' = refusedRequests \union {q}
    BY <1>10 DEF LoginFails
  <2>2. /\ callback' = [callback EXCEPT ![k] = <<"done">>]
        /\ UNCHANGED <<minute, expires, code_hash, answered, sent, exchanged, denying>>
    BY <1>10 DEF LoginFails
  <2>3. request[q] # "absent"
    BY <2>1 DEF UnderWay
  <2> QED
    BY <1>8, <2>1, <2>2, <2>3 DEF discard_request
<1>11. ASSUME NEW k \in Callbacks, complete_request(k) PROVE Parts'
  <2>1. PICK b \in Browsers, q \in Requests :
          /\ callback[k] = <<b, q>>
          /\ \/ /\ writable(q)
                /\ request' = [request EXCEPT ![q] = "completed"]
                /\ code_hash' = [code_hash EXCEPT ![q] = k]
                /\ expires' = [expires EXCEPT ![q] = minute + CodeTTL]
                /\ answered' = [answered EXCEPT ![k] = <<b, q>>]
                /\ sent' = sent \union {k}
             \/ UNCHANGED <<request, code_hash, expires, answered, sent>>
    BY <1>11 DEF complete_request
  <2>2. /\ callback' = [callback EXCEPT ![k] = <<"done">>]
        /\ UNCHANGED <<minute, denying, exchanged, refusedRequests>>
    BY <1>11 DEF complete_request
  <2>3. CASE UNCHANGED <<request, code_hash, expires, answered, sent>>
    <3>1. \A j \in Callbacks, c \in Browsers, p \in Requests :
            callback'[j] = <<c, p>> => callback[j] = <<c, p>>
      BY <2>2
    <3>2. \A j \in Callbacks : callback[j] = <<"done">> => callback'[j] = <<"done">>
      BY <2>2
    <3>3. \A p \in denying' : request'[p] # "absent"
      BY <2>2, <2>3 DEF UnderWay
    <3>4. \A j \in Callbacks, c \in Browsers, p \in Requests :
            callback'[j] = <<c, p>> => request'[p] # "absent"
      BY <2>3, <3>1 DEF UnderWay
    <3>5. \A p \in Requests : request[p] = "completed" =>
            \/ request'[p] = "completed"
            \/ request'[p] = "deleted" /\ expires'[p] <= minute'
      BY <2>3
    <3>6. UNCHANGED <<code_hash, answered, sent, exchanged, refusedRequests>>
      BY <2>2, <2>3
    <3> HIDE <1>0, <1>00
    <3> QED
      BY <1>1, <3>2, <3>3, <3>4, <3>5, <3>6
  <2>4. CASE /\ writable(q)
             /\ request' = [request EXCEPT ![q] = "completed"]
             /\ code_hash' = [code_hash EXCEPT ![q] = k]
             /\ expires' = [expires EXCEPT ![q] = minute + CodeTTL]
             /\ answered' = [answered EXCEPT ![k] = <<b, q>>]
             /\ sent' = sent \union {k}
    <3>0. answered[k] = <<>> /\ k \notin sent /\ k \notin exchanged /\ request[q] # "deleted"
      <4>1. callback[k] # <<"done">>
        BY <2>1
      <4>2. answered[k] = <<>>
        BY <4>1 DEF UnderWay
      <4>3. k \notin sent /\ k \notin exchanged
        BY <4>2 DEF UnderWay
      <4>4. request[q] # "deleted"
        BY <2>4 DEF writable, present
      <4> QED
        BY <4>2, <4>3, <4>4
    <3>1. UnderWay'
      <4>1. \A j \in Callbacks, c \in Browsers, p \in Requests :
              callback'[j] = <<c, p>> \/ answered'[j] = <<c, p>> =>
                callback[j] = <<c, p>> \/ answered[j] = <<c, p>>
        <5>1. ASSUME NEW j \in Callbacks, NEW c \in Browsers, NEW p \in Requests,
                     callback'[j] = <<c, p>>
              PROVE  callback[j] = <<c, p>>
          BY <2>2, <5>1
        <5>2. ASSUME NEW j \in Callbacks, NEW c \in Browsers, NEW p \in Requests,
                     answered'[j] = <<c, p>>
              PROVE  callback[j] = <<c, p>> \/ answered[j] = <<c, p>>
          BY <2>1, <2>4, <5>2
        <5> QED
          BY <5>1, <5>2
      <4>2. \A j \in Callbacks : answered'[j] # <<>> => callback'[j] = <<"done">>
        BY <2>2, <2>4 DEF UnderWay
      <4>3. \A j \in sent' : answered'[j] # <<>>
        BY <2>4 DEF UnderWay
      <4> QED
        <5>1. \A p \in (denying \union refusedRequests)' : request'[p] # "absent"
          BY <2>2 DEF UnderWay
        <5>2. \A j \in Callbacks, c \in Browsers, p \in Requests :
                callback'[j] = <<c, p>> \/ answered'[j] = <<c, p>> => request'[p] # "absent"
          BY <4>1 DEF UnderWay
        <5> QED
          BY <4>2, <4>3, <5>1, <5>2 DEF UnderWay
    <3>2. CodesOfRows'
      <4>1. \A p \in Requests : code_hash'[p] # Nobody =>
              \E c \in Browsers : answered'[code_hash'[p]] = <<c, p>>
        <5> SUFFICES ASSUME NEW p \in Requests, code_hash'[p] # Nobody
                     PROVE  \E c \in Browsers : answered'[code_hash'[p]] = <<c, p>>
          OBVIOUS
        <5>1. CASE p = q
          BY <2>4, <5>1
        <5>2. CASE p # q
          <6>1. code_hash'[p] = code_hash[p] /\ code_hash[p] \in Callbacks
            BY <2>4, <5>2
          <6>2. PICK c \in Browsers : answered[code_hash[p]] = <<c, p>>
            BY <6>1 DEF CodesOfRows
          <6> QED
            BY <2>4, <3>0, <6>1, <6>2
        <5> QED
          BY <5>1, <5>2
      <4>2. ASSUME NEW j \in exchanged
            PROVE  \E c \in Browsers, p \in Requests :
                     answered'[j] = <<c, p>> /\ request'[p] = "deleted" /\ code_hash'[p] = j
        <5>1. PICK c \in Browsers, p \in Requests :
                answered[j] = <<c, p>> /\ request[p] = "deleted" /\ code_hash[p] = j
          BY DEF CodesOfRows
        <5>2. j # k /\ p # q
          BY <3>0, <5>1
        <5> QED
          BY <2>4, <5>1, <5>2
      <4>3. \A p \in refusedRequests : request'[p] = "deleted"
        BY DEF CodesOfRows
      <4> QED
        BY <2>2, <4>1, <4>2, <4>3 DEF CodesOfRows
    <3>3. SentIsStored'
      <4> SUFFICES ASSUME NEW j \in sent' \ exchanged, NEW c \in Browsers, NEW p \in Requests,
                          answered'[j] = <<c, p>>
                   PROVE  Stored(j, p)'
        BY <2>2 DEF SentIsStored
      <4>1. CASE j = k
        BY <2>4, <4>1 DEF Stored
      <4>2. CASE j # k /\ p = q
        BY <2>4, <4>2 DEF Stored
      <4>3. CASE j # k /\ p # q
        <5>1. j \in sent \ exchanged /\ answered[j] = <<c, p>> /\ request'[p] = request[p]
              /\ code_hash'[p] = code_hash[p] /\ expires'[p] = expires[p]
          BY <2>4, <4>3
        <5>2. \A i \in Callbacks : \A d \in Browsers : answered[i] = <<d, p>> =>
                answered'[i] = <<d, p>>
          BY <2>4, <3>0
        <5>3. Stored(j, p)
          BY <5>1 DEF SentIsStored
        <5> QED
          <6>1. CASE \E i \in Callbacks \ {j} : \E d \in Browsers : answered[i] = <<d, p>>
            <7>1. \E i \in Callbacks \ {j} : \E d \in Browsers : answered'[i] = <<d, p>>
              BY <5>2, <6>1
            <7> QED
              BY <7>1 DEF Stored
          <6>2. CASE \/ request[p] = "completed" /\ code_hash[p] = j
                     \/ request[p] = "deleted" /\ expires[p] <= minute
                     \/ p \in refusedRequests
            BY <2>2, <5>1, <6>2 DEF Stored
          <6> QED
            BY <5>3, <6>1, <6>2 DEF Stored
      <4> QED
        BY <4>1, <4>2, <4>3
    <3> QED
      BY <3>1, <3>2, <3>3
  <2> QED
    BY <2>1, <2>3, <2>4
<1>12. ASSUME NEW k \in Callbacks, CodeExchanged(k) PROVE Parts'
  <2>1. PICK q \in Requests :
          /\ k \in sent
          /\ request[q] = "completed" /\ code_hash[q] = k
          /\ request' = [request EXCEPT ![q] = "deleted"]
    BY <1>12 DEF CodeExchanged
  <2>2. /\ exchanged' = exchanged \union {k}
        /\ UNCHANGED <<minute, expires, code_hash, denying, callback, answered, sent,
                       refusedRequests>>
    BY <1>12 DEF CodeExchanged
  <2>3. UnderWay'
    BY <2>1, <2>2 DEF UnderWay
  <2>4. CodesOfRows'
    BY <2>1, <2>2 DEF CodesOfRows
  <2>5. PICK b \in Browsers : answered[k] = <<b, q>>
    BY <2>1 DEF CodesOfRows
  <2>6. SentIsStored'
    <3> SUFFICES ASSUME NEW j \in sent \ exchanged, j # k, NEW c \in Browsers, NEW p \in Requests,
                        answered[j] = <<c, p>>
                 PROVE  Stored(j, p)'
      BY <2>2 DEF SentIsStored
    <3>1. CASE p = q
      BY <2>2, <2>5, <3>1 DEF Stored
    <3>2. CASE p # q
      <4>1. Stored(j, p)
        BY DEF SentIsStored
      <4> QED
        BY <2>1, <2>2, <3>2, <4>1 DEF Stored
    <3> QED
      BY <3>1, <3>2
  <2> QED
    BY <2>3, <2>4, <2>6
<1>13. CASE Minute \/ FlowHorizon \/ UNCHANGED flowVars
  BY <1>1, <1>13 DEF Minute, FlowHorizon, flowVars, UnderWay
<1> QED
  BY <1>2, <1>3, <1>4, <1>5, <1>6, <1>7, <1>9, <1>10, <1>11, <1>12, <1>13 DEF OAuthFlowNext
-----------------------------------------------------------------------------
(* The invariant of the rows of oauth_authorizations, the cookies and the  *)
(* logins, for any number of them.                                         *)
THEOREM FlowInvHolds == OAuthFlowSpec => []FlowInv
<1>1. OAuthFlowInit => FlowInv
  BY InitFlow
<1>2. FlowInv /\ [OAuthFlowNext]_flowVars => FlowInv'
  <2> SUFFICES ASSUME FlowInv, [OAuthFlowNext]_flowVars PROVE FlowInv'
    OBVIOUS
  <2>1. OAuthFlowTypeOK'
    BY StepFlowTyped DEF FlowInv
  <2> QED
    BY <2>1, StepBrowsers, StepEnds DEF FlowInv
<1> QED
  BY <1>1, <1>2, PTL DEF OAuthFlowSpec

(* complete_github_login: a code goes out only for a login in the browser  *)
(* that approved the request, unless two browsers raced to open its page.  *)
THEOREM CodesGoToTheApprover == OAuthFlowSpec => []OnlyTheApproverGetsACode
<1>1. FlowInv => OnlyTheApproverGetsACode
  BY DEF FlowInv, OAuthFlowTypeOK, LoginsApproved, OnlyTheApproverGetsACode
<1> QED
  BY <1>1, FlowInvHolds, PTL

(* consume_code, discard_request and complete_request: a request ends once *)
(* and its code can be exchanged until it expires.                         *)
THEOREM RequestsEndOnce == OAuthFlowSpec => []EndsOnce
<1>1. FlowInv => EndsOnce
  <2> SUFFICES ASSUME FlowInv PROVE EndsOnce
    OBVIOUS
  <2>0. /\ exchanged \subseteq sent /\ sent \subseteq Callbacks
        /\ answered \in [Callbacks -> Pairs \union {<<>>}]
    BY DEF FlowInv, OAuthFlowTypeOK
  <2>1. ASSUME NEW q \in Requests
        PROVE  Cardinality({k \in exchanged : answered[k] \in Browsers \X {q}}) <= 1
    <3> DEFINE E == {k \in exchanged : answered[k] \in Browsers \X {q}}
    <3>1. \A k \in E : code_hash[q] = k
      BY PairsDiffer DEF FlowInv, CodesOfRows
    <3>2. CASE E = {}
      BY <3>2, FS_EmptySet
    <3>3. CASE E # {}
      <4>1. E = {code_hash[q]}
        BY <3>1, <3>3
      <4>2. Cardinality({code_hash[q]}) = 1
        BY FS_Singleton
      <4> QED
        BY <4>1, <4>2
    <3> QED
      BY <3>2, <3>3
  <2>2. ASSUME NEW k \in sent \ exchanged, NEW q \in Requests, answered[k] \in Browsers \X {q}
        PROVE  \/ request[q] = "completed" /\ code_hash[q] = k
               \/ expires[q] <= minute
               \/ OthersUnderWay(k, q) \/ q \in refusedRequests
    <3>1. PICK b \in Browsers : answered[k] = <<b, q>>
      BY <2>2
    <3> QED
      <4>1. Stored(k, q)
        BY <3>1 DEF FlowInv, SentIsStored
      <4>2. \A c \in Browsers : <<c, q>> \in Browsers \X {q}
        OBVIOUS
      <4> QED
        BY <4>1, <4>2 DEF Stored, OthersUnderWay
  <2> QED
    BY <2>1, <2>2 DEF EndsOnce, FlowInv, CodesOfRows
<1> QED
  BY <1>1, FlowInvHolds, PTL

-----------------------------------------------------------------------------
(* The login.  A state is in the cookie only before its code exists, and   *)
(* whoever has a session has exchanged the code; none is made out too late. *)
CookieIsNew == \A l \in state_cookie : exchange_code[l] = "none"

ExchangedOnce ==
    \A l \in Logins : exchanges[l] <= 1 /\ (exchange_code[l] # "gone" => exchanges[l] = 0)

SessionsRenewedInTime ==
    \A s \in sessions : /\ exchange_code[s[1]] = "gone"
                        /\ s[2] <= login_at[s[1]] + MaxSession + SessionLife

LoginInv == LoginTypeOK /\ CookieIsNew /\ ExchangedOnce /\ SessionsRenewedInTime

(* Nobody is logged in at first.                                           *)
LEMMA InitLogin == LoginInit => LoginInv
BY LoginAssumption
DEF LoginInit, LoginInv, LoginTypeOK, CookieIsNew, ExchangedOnce, SessionsRenewedInTime

(* Every step keeps the logins in order.                                   *)
LEMMA StepLogin == LoginInv /\ [LoginNext]_loginVars => LoginInv'
<1> SUFFICES ASSUME LoginInv, [LoginNext]_loginVars PROVE LoginInv'
  OBVIOUS
<1> USE LoginAssumption DEF LoginInv, LoginTypeOK
<1>1. ASSUME NEW l \in Logins, github_login(l) PROVE LoginInv'
  BY <1>1 DEF github_login, CookieIsNew, ExchangedOnce, SessionsRenewedInTime
<1>2. ASSUME NEW l \in Logins, github_callback(l) PROVE LoginInv'
  <2>1. /\ exchange_code[l] = "none" /\ exchange_code'[l] = "pending"
        /\ exchange_code' \in [Logins -> {"none", "pending", "gone"}]
        /\ \A m \in Logins \ {l} : \/ exchange_code'[m] = exchange_code[m]
                                   \/ exchange_code[m] # "none" /\ exchange_code'[m] = "gone"
        /\ \A m \in Logins : exchange_code[m] = "gone" => exchange_code'[m] = "gone"
    BY <1>2 DEF github_callback, store_exchange_code, CookieIsNew
  <2>2. /\ code_until' \in [Logins -> Nat] /\ login_at' \in [Logins -> Nat]
        /\ \A m \in Logins \ {l} : login_at'[m] = login_at[m]
        /\ state_cookie' = {} /\ UNCHANGED <<instant, sessions, exchanges, restarts>>
    BY <1>2 DEF github_callback, store_exchange_code
  <2>3. \A s \in sessions : s[1] \in Logins /\ s[1] # l
    BY <2>1 DEF SessionsRenewedInTime
  <2>4. ExchangedOnce'
    BY <2>1, <2>2 DEF ExchangedOnce
  <2>5. SessionsRenewedInTime'
    BY <2>1, <2>2, <2>3 DEF SessionsRenewedInTime
  <2> QED
    BY <2>1, <2>2, <2>4, <2>5 DEF CookieIsNew
<1>3. ASSUME NEW l \in Logins, exchange(l) PROVE LoginInv'
  <2>1. /\ exchange_code[l] = "pending"
        /\ exchange_code' = [exchange_code EXCEPT ![l] = "gone"]
        /\ UNCHANGED <<instant, state_cookie, code_until, login_at, restarts>>
    BY <1>3 DEF exchange, consume_exchange_code
  <2>2. CASE UNCHANGED <<sessions, exchanges>>
    BY <2>1, <2>2 DEF CookieIsNew, ExchangedOnce, SessionsRenewedInTime
  <2>3. CASE /\ sessions' = sessions \union {<<l, login_at[l] + SessionLife>>}
             /\ exchanges' = [exchanges EXCEPT ![l] = @ + 1]
    <3>1. sessions' \subseteq Logins \X Nat /\ exchanges' \in [Logins -> Nat]
      BY <2>3
    <3>2. CookieIsNew'
      BY <2>1 DEF CookieIsNew
    <3>3. ExchangedOnce'
      BY <2>1, <2>3 DEF ExchangedOnce
    <3>4. SessionsRenewedInTime'
      BY <2>1, <2>3 DEF SessionsRenewedInTime
    <3> QED
      BY <2>1, <3>1, <3>2, <3>3, <3>4
  <2> QED
    BY <1>3, <2>2, <2>3 DEF exchange, create_session_token
<1>4. ASSUME NEW s \in sessions, refresh(s) PROVE LoginInv'
  <2>1. /\ s[1] \in Logins /\ instant <= login_at[s[1]] + MaxSession
        /\ sessions' = sessions \union {<<s[1], instant + SessionLife>>}
        /\ UNCHANGED <<instant, state_cookie, exchange_code, code_until, login_at, exchanges,
                       restarts>>
    BY <1>4 DEF refresh, may_renew, create_session_token
  <2>2. SessionsRenewedInTime'
    BY <2>1 DEF SessionsRenewedInTime
  <2> QED
    BY <2>1, <2>2 DEF CookieIsNew, ExchangedOnce
<1>5. CASE Instant
  BY <1>5 DEF Instant, CookieIsNew, ExchangedOnce, SessionsRenewedInTime
<1>6. CASE LoginRestart
  BY <1>6 DEF LoginRestart, CookieIsNew, ExchangedOnce, SessionsRenewedInTime
<1>7. CASE UNCHANGED loginVars
  BY <1>7 DEF loginVars, CookieIsNew, ExchangedOnce, SessionsRenewedInTime
<1> QED
  BY <1>1, <1>2, <1>3, <1>4, <1>5, <1>6, <1>7 DEF LoginNext, LoginHorizon

-----------------------------------------------------------------------------
(* Clients that register.  Unless requests count side by side, one at most *)
(* has been counted and is not inserted, and there is room for it.         *)
RegistrationsInv ==
    /\ OAuthClientsTypeOK
    /\ IsFiniteSet(Kept)
    /\ ~side_by_side =>
         /\ \A c, d \in Clients : client[c] = "counted" /\ client[d] = "counted" => c = d
         /\ (\E c \in Clients : client[c] = "counted") => within_limits(Kept)
         /\ Cardinality(Kept) <= MaxClients
         /\ Cardinality(Recent(Kept)) <= MaxPerHour

(* Fewer clients, or fewer recent ones, are within the limits as well.     *)
LEMMA FewerClients ==
  ASSUME NEW S, IsFiniteSet(S), NEW T \in SUBSET S
  PROVE  /\ IsFiniteSet(T) /\ IsFiniteSet(Recent(S)) /\ IsFiniteSet(Recent(T))
         /\ Cardinality(T) <= Cardinality(S) /\ Cardinality(Recent(T)) <= Cardinality(Recent(S))
         /\ Cardinality(S) \in Nat /\ Cardinality(T) \in Nat
         /\ Cardinality(Recent(S)) \in Nat /\ Cardinality(Recent(T)) \in Nat
<1>1. Recent(S) \subseteq S /\ Recent(T) \subseteq Recent(S) /\ Recent(T) \subseteq T
  BY DEF Recent
<1>2. IsFiniteSet(T) /\ IsFiniteSet(Recent(S)) /\ IsFiniteSet(Recent(T))
  BY <1>1, FS_Subset
<1> QED
  BY <1>1, <1>2, FS_Subset, FS_CardinalityType

(* Nobody is registered at first.                                          *)
LEMMA InitRegistrations == OAuthClientsInit => RegistrationsInv
<1> SUFFICES ASSUME OAuthClientsInit PROVE RegistrationsInv
  OBVIOUS
<1>1. OAuthClientsTypeOK
  <2>0. hour = 0 /\ side_by_side = FALSE
    BY DEF OAuthClientsInit
  <2>1. hour \in 0..LastHour
    BY <2>0, ClientsAssumption
  <2>1a. side_by_side \in BOOLEAN
    BY <2>0
  <2>2. /\ client \in [Clients -> {"unknown", "counted", "registered", "used", "removed"}]
        /\ created \in [Clients -> Nat]
    BY DEF OAuthClientsInit
  <2> QED
    BY <2>1, <2>1a, <2>2 DEF OAuthClientsTypeOK
<1>2. Kept = {} /\ Recent(Kept) = {}
  BY DEF OAuthClientsInit, Kept, Recent
<1>3. IsFiniteSet({}) /\ Cardinality({}) = 0
  BY FS_EmptySet
<1> QED
  BY <1>1, <1>2, <1>3, ClientsAssumption DEF OAuthClientsInit, RegistrationsInv

(* Every step keeps the registrations within the limits.                   *)
LEMMA StepRegistrations ==
  ASSUME RegistrationsInv, [OAuthClientsNext]_clientVars
  PROVE  RegistrationsInv'
<1> USE ClientsAssumption DEF RegistrationsInv, OAuthClientsTypeOK
<1>1. ASSUME NEW c \in Clients, CountClients(c) PROVE RegistrationsInv'
  <2> DEFINE kept == {d \in Kept : ~stale_client(d)}
  <2>1. /\ client' \in [Clients -> {"unknown", "counted", "registered", "used", "removed"}]
        /\ UNCHANGED <<hour, created>> /\ side_by_side' \in BOOLEAN
        /\ client[c] = "unknown"
    BY <1>1 DEF CountClients
  <2>2. Kept' = kept /\ Recent(kept)' = Recent(kept)
    BY <1>1 DEF CountClients, Kept, stale_client, Recent
  <2>3. kept \subseteq Kept /\ IsFiniteSet(kept)
    BY FS_Subset
  <2>4. /\ Cardinality(kept) <= Cardinality(Kept)
        /\ Cardinality(Recent(kept)) <= Cardinality(Recent(Kept))
        /\ Cardinality(Kept) \in Nat /\ Cardinality(kept) \in Nat
        /\ Cardinality(Recent(Kept)) \in Nat /\ Cardinality(Recent(kept)) \in Nat
    BY <2>3, FewerClients
  <2>5. ASSUME ~side_by_side'
        PROVE  /\ ~side_by_side
               /\ \A d \in Clients : client[d] # "counted"
               /\ \A d \in Clients : client'[d] = "counted" => d = c /\ within_limits(kept)
    BY <1>1, <2>5 DEF CountClients
  <2>5a. Recent(Kept)' = Recent(kept)
    BY <2>1, <2>2 DEF Recent
  <2>6. Recent(Kept)' = Recent(kept) /\ (within_limits(kept) => within_limits(Kept)')
    BY <2>2, <2>5a DEF within_limits
  <2> QED
    BY <2>1, <2>2, <2>3, <2>4, <2>5, <2>6
<1>2. ASSUME NEW c \in Clients, save_client(c) PROVE RegistrationsInv'
  <2>1. /\ client[c] = "counted" /\ client' = [client EXCEPT ![c] = "registered"]
        /\ created' = [created EXCEPT ![c] = hour] /\ UNCHANGED <<hour, side_by_side>>
    BY <1>2 DEF save_client
  <2>2. Kept' = Kept \union {c} /\ c \notin Kept
    BY <2>1 DEF Kept
  <2>3. /\ IsFiniteSet(Kept') /\ Cardinality(Kept') = Cardinality(Kept) + 1
        /\ Cardinality(Kept) \in Nat
    BY <2>2, FS_AddElement, FS_CardinalityType
  <2>4. Recent(Kept)' \subseteq Recent(Kept) \union {c} /\ IsFiniteSet(Recent(Kept))
    BY <2>1, <2>2, FewerClients DEF Recent, Kept
  <2> DEFINE before == Recent(Kept)
  <2> HIDE DEF before
  <2>4a. IsFiniteSet(before)
    BY <2>4 DEF before
  <2>4b. /\ IsFiniteSet(before \union {c}) /\ Cardinality(before) \in Nat
         /\ Cardinality(before \union {c}) <= Cardinality(before) + 1
         /\ Cardinality(before \union {c}) \in Nat
    <3>1. /\ IsFiniteSet(before \union {c})
          /\ Cardinality(before \union {c}) =
               IF c \in before THEN Cardinality(before) ELSE Cardinality(before) + 1
      BY <2>4a, FS_AddElement
    <3>2. Cardinality(before) \in Nat
      BY <2>4a, FS_CardinalityType
    <3> QED
      BY <3>1, <3>2
  <2>5. /\ IsFiniteSet(Recent(Kept) \union {c}) /\ Cardinality(Recent(Kept)) \in Nat
        /\ Cardinality(Recent(Kept) \union {c}) <= Cardinality(Recent(Kept)) + 1
        /\ Cardinality(Recent(Kept) \union {c}) \in Nat
    BY <2>4b DEF before
  <2>6. /\ Cardinality(Recent(Kept)') <= Cardinality(Recent(Kept) \union {c})
        /\ Cardinality(Recent(Kept)') \in Nat
    BY <2>4, <2>5, FS_Subset, FS_CardinalityType
  <2>7. OAuthClientsTypeOK'
    BY <2>1
  <2>8. ASSUME ~side_by_side' PROVE \A d \in Clients : client'[d] # "counted"
    BY <2>1, <2>8
  <2>9. ASSUME ~side_by_side'
        PROVE  Cardinality(Kept') <= MaxClients /\ Cardinality(Recent(Kept)') <= MaxPerHour
    <3>1. within_limits(Kept)
      BY <2>1, <2>9
    <3>2. Cardinality(Kept) < MaxClients /\ Cardinality(Recent(Kept)) < MaxPerHour
      BY <3>1 DEF within_limits
    <3>3. Cardinality(Recent(Kept)') <= Cardinality(Recent(Kept)) + 1
      BY <2>5, <2>6
    <3> QED
      BY <2>3, <2>5, <2>6, <3>2, <3>3
  <2> QED
    BY <2>3, <2>7, <2>8, <2>9
<1>3. ASSUME OAuthClientsTypeOK', side_by_side' = side_by_side,
             Kept' \subseteq Kept, Recent(Kept)' \subseteq Recent(Kept),
             \A c \in Clients : client'[c] = "counted" => client[c] = "counted"
      PROVE  RegistrationsInv'
  <2>1. /\ IsFiniteSet(Kept') /\ Cardinality(Kept') <= Cardinality(Kept)
        /\ Cardinality(Kept') \in Nat /\ Cardinality(Kept) \in Nat
    BY <1>3, FS_Subset, FS_CardinalityType
  <2>2. IsFiniteSet(Recent(Kept))
    BY FewerClients
  <2>3. /\ Cardinality(Recent(Kept)') <= Cardinality(Recent(Kept))
        /\ Cardinality(Recent(Kept)') \in Nat /\ Cardinality(Recent(Kept)) \in Nat
    BY <1>3, <2>2, FS_Subset, FS_CardinalityType
  <2>4. within_limits(Kept) => within_limits(Kept)'
    BY <2>1, <2>3 DEF within_limits
  <2> QED
    BY <1>3, <2>1, <2>3, <2>4
<1>4. ASSUME NEW c \in Clients, touch_client(c) PROVE RegistrationsInv'
  BY <1>3, <1>4 DEF touch_client, Kept, Recent
<1>5. CASE purge_unused_clients
  BY <1>3, <1>5 DEF purge_unused_clients, Kept, Recent
<1>6. CASE Hour
  BY <1>3, <1>6 DEF Hour, Kept, Recent
<1>7. CASE UNCHANGED clientVars
  BY <1>3, <1>7 DEF clientVars, Kept, Recent
<1> QED
  BY <1>1, <1>2, <1>4, <1>5, <1>6, <1>7 DEF OAuthClientsNext, ClientsHorizon

-----------------------------------------------------------------------------
(* Tokens issued by hand.  Unless requests count side by side, one at most *)
(* has counted and not inserted, and there is room for its token.          *)
CapInv ==
    /\ McpTokensTypeOK
    /\ IsFiniteSet(Valid)
    /\ ~crowded =>
         /\ \A i, j \in Ids : mcp[i] = "counted" /\ mcp[j] = "counted" => i = j
         /\ (\E i \in Ids : mcp[i] = "counted") => below_cap
         /\ Cardinality(Valid) <= MaxActive

(* What expires was announced, or its notice failed; what expires tomorrow *)
(* was, too, once today's job is over, and until then the job has it in    *)
(* hand.  A token is announced once more for each mishap: between the       *)
(* sending and the mark, or in the answer to the sending.                  *)
NoticeInv ==
    /\ McpTokensTypeOK
    /\ \A i \in Ids : mcp[i] = "active" =>
         /\ until[i] <= mday => notices[i] > 0 \/ i \in waived
         /\ until[i] <= mday + 1 /\ notice # "idle" =>
              notices[i] > 0 \/ i \in waived \/ (notice = "found" /\ i \in expiring)
    /\ \A i \in notified : notices[i] > 0
    /\ notice = "found" => expiring \intersect notified = {}
    /\ notice = "sent" => \A i \in expiring : notices[i] > 0
    /\ \A i \in Ids : /\ notices[i] <= 1 + mishaps
                      /\ \/ i \in notified \/ (notice = "sent" /\ i \in expiring)
                         \/ notices[i] <= mishaps

McpInv == CapInv /\ NoticeInv

(* No token has been issued at first.                                      *)
LEMMA InitMcp == McpTokensInit => McpInv
<1> SUFFICES ASSUME McpTokensInit PROVE McpInv
  OBVIOUS
<1> USE McpTokensAssumption
<1>1. McpTokensTypeOK
  <2>1. /\ mday = 0 /\ mishaps = 0 /\ notified = {} /\ expiring = {} /\ waived = {}
        /\ notice = "idle" /\ webhook \in BOOLEAN
        /\ mcp = [i \in Ids |-> "absent"]
        /\ until = [i \in Ids |-> 0] /\ notices = [i \in Ids |-> 0]
    BY DEF McpTokensInit
  <2>2. crowded \in BOOLEAN
    BY DEF McpTokensInit
  <2> QED
    BY <2>1, <2>2 DEF McpTokensTypeOK
<1>2. Valid = {}
  BY DEF McpTokensInit, Valid, token_status
<1>3. IsFiniteSet({}) /\ Cardinality({}) = 0
  BY FS_EmptySet
<1>4. CapInv
  BY <1>1, <1>2, <1>3 DEF CapInv, McpTokensInit
<1>5. NoticeInv
  BY <1>1 DEF NoticeInv, McpTokensInit
<1> QED
  BY <1>4, <1>5 DEF McpInv

(* Every step keeps every variable in its domain.                          *)
LEMMA StepMcpTyped ==
  ASSUME McpTokensTypeOK, [McpTokensNext]_mcpVars
  PROVE  McpTokensTypeOK'
<1> USE McpTokensAssumption DEF McpTokensTypeOK
<1>1. ASSUME NEW i \in Ids, CountTokens(i) PROVE McpTokensTypeOK'
  <2>1. crowded' \in BOOLEAN
    BY <1>1 DEF CountTokens
  <2> QED
    BY <1>1, <2>1 DEF CountTokens
<1>2. ASSUME NEW i \in Ids, NEW days \in Lifetimes, issue_token(i, days) PROVE McpTokensTypeOK'
  BY <1>2 DEF issue_token
<1>3. ASSUME NEW i \in Ids, revoke_token(i) PROVE McpTokensTypeOK'
  BY <1>3 DEF revoke_token
<1>4. CASE SetWebhook
  BY <1>4 DEF SetWebhook
<1>5. CASE find_expiring_tokens
  BY <1>5 DEF find_expiring_tokens
<1>6. CASE NoticeSkipped
  BY <1>6 DEF NoticeSkipped
<1>7. ASSUME NEW arrives \in BOOLEAN, NEW ok \in BOOLEAN, Send(arrives, ok)
      PROVE  McpTokensTypeOK'
  <2>1. /\ mishaps' \in 0..MaxMishaps /\ waived' \subseteq Ids
        /\ notices' \in [Ids -> Nat]
    BY <1>7 DEF Send
  <2>2. notice' \in {"sent", "done"}
    BY <1>7 DEF Send
  <2> QED
    BY <1>7, <2>1, <2>2 DEF Send
<1>8. CASE MarkNotified
  BY <1>8 DEF MarkNotified
<1>9. CASE NoticeJobFails
  BY <1>9 DEF NoticeJobFails
<1>10. CASE NextDay
  BY <1>10 DEF NextDay
<1>11. CASE UNCHANGED mcpVars
  BY <1>11 DEF mcpVars
<1> QED
  BY <1>1, <1>2, <1>3, <1>4, <1>5, <1>6, <1>7, <1>8, <1>9, <1>10, <1>11
  DEF McpTokensNext, McpHorizon

(* Every step keeps the cap.                                               *)
LEMMA StepCap ==
  ASSUME CapInv, [McpTokensNext]_mcpVars
  PROVE  CapInv'
<1>0. McpTokensTypeOK /\ McpTokensTypeOK'
  BY StepMcpTyped DEF CapInv
<1> USE McpTokensAssumption DEF CapInv, McpTokensTypeOK
<1>1. ASSUME crowded' = crowded, Valid' \subseteq Valid,
             \A i \in Ids : mcp'[i] = "counted" => mcp[i] = "counted"
      PROVE  CapInv'
  <2>1. /\ IsFiniteSet(Valid') /\ Cardinality(Valid') <= Cardinality(Valid)
        /\ Cardinality(Valid') \in Nat /\ Cardinality(Valid) \in Nat
    BY <1>1, FS_Subset, FS_CardinalityType
  <2>2. below_cap => below_cap'
    BY <2>1 DEF below_cap
  <2> QED
    BY <1>0, <1>1, <2>1, <2>2
<1>2. ASSUME NEW i \in Ids, CountTokens(i) PROVE CapInv'
  <2>1. /\ mcp[i] = "absent" /\ below_cap /\ mcp' = [mcp EXCEPT ![i] = "counted"]
        /\ UNCHANGED <<mday, until>>
    BY <1>2 DEF CountTokens
  <2>2. Valid' = Valid
    BY <1>0, <2>1 DEF Valid, token_status
  <2>3. below_cap'
    BY <2>1, <2>2 DEF below_cap
  <2>4. ASSUME ~crowded' PROVE ~crowded /\ \A j \in Ids : mcp[j] # "counted"
    BY <1>2, <2>4 DEF CountTokens
  <2>5. ~crowded' => /\ \A j, k \in Ids : mcp'[j] = "counted" /\ mcp'[k] = "counted" => j = k
                     /\ Cardinality(Valid') <= MaxActive
    BY <1>0, <2>1, <2>2, <2>4
  <2> QED
    BY <1>0, <2>2, <2>3, <2>5
<1>3. ASSUME NEW i \in Ids, NEW days \in Lifetimes, issue_token(i, days) PROVE CapInv'
  <2>1. /\ mcp[i] = "counted" /\ mcp'[i] = "active" /\ crowded' = crowded
        /\ \A j \in Ids \ {i} : /\ mcp'[j] = mcp[j] \/ mcp'[j] = "purged"
                                /\ until'[j] = until[j]
        /\ mday' = mday
    BY <1>0, <1>3 DEF issue_token
  <2>2. Valid' \subseteq Valid \union {i}
    BY <2>1 DEF Valid, token_status
  <2> DEFINE before == Valid
  <2> HIDE DEF before
  <2>3. IsFiniteSet(before)
    BY DEF before
  <2>4. /\ IsFiniteSet(before \union {i})
        /\ Cardinality(before \union {i}) =
             IF i \in before THEN Cardinality(before) ELSE Cardinality(before) + 1
    BY <2>3, FS_AddElement
  <2>5. Cardinality(before) \in Nat
    BY <2>3, FS_CardinalityType
  <2>6. Cardinality(before \union {i}) <= Cardinality(before) + 1
    BY <2>4, <2>5
  <2>7. /\ IsFiniteSet(Valid') /\ Cardinality(Valid') <= Cardinality(before \union {i})
        /\ Cardinality(before \union {i}) \in Nat /\ Cardinality(Valid') \in Nat
    BY <2>2, <2>4, FS_Subset, FS_CardinalityType DEF before
  <2>8. ~crowded => Cardinality(before) < MaxActive
    BY <2>1 DEF below_cap, before
  <2>9. ~crowded => Cardinality(Valid') <= MaxActive
    BY <2>5, <2>6, <2>7, <2>8
  <2>10. ~crowded => \A j \in Ids : mcp'[j] # "counted"
    BY <2>1
  <2> QED
    BY <1>0, <2>1, <2>7, <2>9, <2>10
<1>4. ASSUME NEW i \in Ids, revoke_token(i) PROVE CapInv'
  BY <1>0, <1>1, <1>4 DEF revoke_token, Valid, token_status
<1>5. ASSUME UNCHANGED <<mday, mcp, until, crowded>> PROVE CapInv'
  BY <1>0, <1>1, <1>5 DEF Valid, token_status
<1>6. ASSUME NEW arrives \in BOOLEAN, NEW ok \in BOOLEAN, Send(arrives, ok)
      PROVE  UNCHANGED <<mday, mcp, until, crowded>>
  BY <1>6 DEF Send
<1>7. CASE SetWebhook \/ find_expiring_tokens \/ NoticeSkipped \/ MarkNotified \/ NoticeJobFails
  BY <1>5, <1>7 DEF SetWebhook, find_expiring_tokens, NoticeSkipped, MarkNotified, NoticeJobFails
<1>8. CASE NextDay
  <2>1. /\ mday' = mday + 1 /\ UNCHANGED <<mcp, until, crowded>>
    BY <1>8 DEF NextDay
  <2>2. Valid' \subseteq Valid
    BY <1>0, <2>1 DEF Valid, token_status
  <2> QED
    BY <1>1, <2>1, <2>2
<1>9. CASE UNCHANGED mcpVars
  BY <1>5, <1>9 DEF mcpVars
<1> QED
  BY <1>2, <1>3, <1>4, <1>5, <1>6, <1>7, <1>8, <1>9 DEF McpTokensNext, McpHorizon

(* Every step keeps the notices in order.                                  *)
LEMMA StepNotices ==
  ASSUME NoticeInv, [McpTokensNext]_mcpVars
  PROVE  NoticeInv'
<1>0. McpTokensTypeOK /\ McpTokensTypeOK'
  BY StepMcpTyped DEF NoticeInv
<1> USE McpTokensAssumption, <1>0 DEF NoticeInv, McpTokensTypeOK
<1>1. ASSUME NEW i \in Ids, CountTokens(i) PROVE NoticeInv'
  BY <1>1 DEF CountTokens
<1>2. ASSUME NEW i \in Ids, NEW days \in Lifetimes, issue_token(i, days) PROVE NoticeInv'
  <2>1. /\ \A j \in Ids \ {i} : /\ mcp'[j] = "active" => mcp[j] = "active"
                                /\ until'[j] = until[j]
        /\ until'[i] = mday + days /\ days >= 2
        /\ UNCHANGED <<mday, notified, notice, expiring, mishaps, notices, waived>>
    BY <1>2 DEF issue_token
  <2> QED
    BY <2>1
<1>3. ASSUME NEW i \in Ids, revoke_token(i) PROVE NoticeInv'
  BY <1>3 DEF revoke_token
<1>4. CASE SetWebhook
  BY <1>4 DEF SetWebhook
<1>5. CASE find_expiring_tokens
  BY <1>5 DEF find_expiring_tokens, due_notice
<1>6. CASE NoticeSkipped
  BY <1>6 DEF NoticeSkipped
<1>7. CASE Send(TRUE, TRUE)
  <2>1. /\ notice = "found" /\ notice' = "sent"
        /\ \A i \in Ids : notices'[i] = notices[i] + (IF i \in expiring THEN 1 ELSE 0)
        /\ UNCHANGED <<mday, mcp, until, notified, expiring, mishaps, waived>>
    BY <1>7 DEF Send, marks
  <2> QED
    BY <2>1
<1>8. ASSUME NEW arrives \in BOOLEAN, Send(arrives, FALSE) PROVE NoticeInv'
  <2>1. /\ notice = "found" /\ notice' = "done" /\ mishaps' = mishaps + 1
        /\ \A i \in Ids : notices'[i] = notices[i]
                              + (IF arrives /\ i \in expiring THEN 1 ELSE 0)
        /\ waived' = waived \union expiring
        /\ UNCHANGED <<mday, mcp, until, notified, expiring>>
    BY <1>8 DEF Send, marks
  <2> QED
    BY <2>1
<1>9. CASE MarkNotified
  BY <1>9 DEF MarkNotified
<1>10. CASE NoticeJobFails
  BY <1>10 DEF NoticeJobFails
<1>11. CASE NextDay
  BY <1>11 DEF NextDay
<1>12. CASE UNCHANGED mcpVars
  BY <1>12 DEF mcpVars
<1>13. ASSUME NEW arrives \in BOOLEAN, NEW ok \in BOOLEAN, Send(arrives, ok) PROVE NoticeInv'
  <2>1. CASE ok = TRUE
    <3>1. arrives = TRUE
      BY <1>13, <2>1 DEF Send
    <3> QED
      BY <1>7, <1>13, <2>1, <3>1
  <2>2. CASE ok = FALSE
    BY <1>8, <1>13, <2>2
  <2> QED
    BY <2>1, <2>2
<1> QED
  BY <1>1, <1>2, <1>3, <1>4, <1>5, <1>6, <1>9, <1>10, <1>11, <1>12, <1>13
  DEF McpTokensNext, McpHorizon

(* Every step keeps the ledger in order.                                   *)
LEMMA StepMcp == McpInv /\ [McpTokensNext]_mcpVars => McpInv'
BY StepCap, StepNotices DEF McpInv

-----------------------------------------------------------------------------
(* The rate limiter.  What popping from the front of a deque of times does.*)
Times == 1..LastTime

(* A deque of times has numbers for its entries.                           *)
LEMMA TimesOf ==
  ASSUME NEW s \in Seq(Times)
  PROVE  Len(s) \in Nat /\ \A i \in 1..Len(s) : s[i] \in Times /\ s[i] \in Int
<1>1. Len(s) \in Nat /\ \A i \in 1..Len(s) : s[i] \in Times
  BY ElementOfSeq
<1>2. \A t \in Times : t \in Int
  BY RateAssumption DEF Times
<1> QED
  BY <1>1, <1>2

(* The largest member of a non-empty set of numbers up to a bound.         *)
LEMMA LargestMember ==
  ASSUME NEW N \in Nat, NEW S \in SUBSET (0..N), S # {}
  PROVE  Max(S) \in S /\ \A y \in S : Max(S) >= y
<1> DEFINE Below == {N - x : x \in S}
<1>1. Below \subseteq Nat /\ Below # {}
  <2>1. \A x \in S : N - x \in Nat
    OBVIOUS
  <2> QED
    BY <2>1
<1>2. IsWellFoundedOn(OpToRel(<, Nat), Nat)
  BY NatLessThanWellFounded
<1>3. PICK t \in Below : \A y \in Below : ~(<<y, t>> \in OpToRel(<, Nat))
  BY <1>1, <1>2, WFMin
<1>4. \A y \in Below : ~(y < t)
  BY <1>1, <1>3 DEF OpToRel
<1>5. PICK x \in S : t = N - x
  OBVIOUS
<1>6. \A y \in S : x >= y
  BY <1>4, <1>5
<1> QED
  BY <1>5, <1>6 DEF Max

(* The entries up to the limit go, as far as there are only such in front. *)
LEMMA Popped ==
  ASSUME NEW s \in Seq(Times), NEW a \in Int
  PROVE  /\ popped(s, a) \in 0..Len(s)
         /\ \A i \in 1..popped(s, a) : s[i] <= a
         /\ popped(s, a) < Len(s) => s[popped(s, a) + 1] > a
<1> DEFINE S == {n \in 0..Len(s) : \A i \in 1..n : s[i] <= a}
<1>0. Len(s) \in Nat /\ \A i \in 1..Len(s) : s[i] \in Int
  BY TimesOf
<1>1. S \in SUBSET (0..Len(s)) /\ S # {}
  BY <1>0
<1>2. Max(S) \in S /\ \A y \in S : Max(S) >= y
  BY <1>0, <1>1, LargestMember
<1>3. popped(s, a) = Max(S)
  BY DEF popped
<1>4. /\ popped(s, a) \in 0..Len(s) /\ \A i \in 1..popped(s, a) : s[i] <= a
      /\ \A y \in S : popped(s, a) >= y
  BY <1>2, <1>3
<1>5. ASSUME popped(s, a) < Len(s), ~(s[popped(s, a) + 1] > a) PROVE FALSE
  <2> DEFINE m == popped(s, a) + 1
  <2>1. m \in 1..Len(s) /\ s[m] <= a
    BY <1>0, <1>4, <1>5
  <2>2. \A i \in 1..m : s[i] <= a
    BY <1>4, <2>1
  <2>3. m \in S
    BY <2>1, <2>2
  <2> QED
    BY <1>0, <1>4, <2>3
<1> QED
  BY <1>4, <1>5

(* No other number of entries does.                                        *)
LEMMA PoppedIs ==
  ASSUME NEW s \in Seq(Times), NEW a \in Int, NEW m \in 0..Len(s),
         \A i \in 1..m : s[i] <= a, m < Len(s) => s[m + 1] > a
  PROVE  popped(s, a) = m
<1>0. /\ Len(s) \in Nat /\ \A i \in 1..Len(s) : s[i] \in Int
      /\ popped(s, a) \in 0..Len(s)
      /\ \A i \in 1..popped(s, a) : s[i] <= a
      /\ popped(s, a) < Len(s) => s[popped(s, a) + 1] > a
  BY TimesOf, Popped
<1>1. ~(popped(s, a) < m)
  BY <1>0
<1>2. ~(m < popped(s, a))
  BY <1>0
<1> QED
  BY <1>0, <1>1, <1>2

(* The rest stays as it is.                                                *)
LEMMA After ==
  ASSUME NEW s \in Seq(Times), NEW a \in Int
  PROVE  /\ after(s, a) \in Seq(Times)
         /\ Len(after(s, a)) = Len(s) - popped(s, a)
         /\ Len(after(s, a)) <= Len(s)
         /\ \A i \in 1..Len(after(s, a)) : /\ popped(s, a) + i \in 1..Len(s)
                                           /\ after(s, a)[i] = s[popped(s, a) + i]
<1> DEFINE p == popped(s, a)
<1>0. /\ Len(s) \in Nat /\ \A i \in 1..Len(s) : s[i] \in Times
      /\ p \in 0..Len(s)
  BY TimesOf, Popped
<1> HIDE DEF p
<1>1. p + 1 \in Int /\ Len(s) \in Int /\ \A i \in p + 1..Len(s) : s[i] \in Times
  BY <1>0
<1>2. /\ SubSeq(s, p + 1, Len(s)) \in Seq(Times)
      /\ Len(SubSeq(s, p + 1, Len(s))) =
           IF p + 1 <= Len(s) THEN Len(s) - (p + 1) + 1 ELSE 0
      /\ \A i \in 1..Len(s) - (p + 1) + 1 : SubSeq(s, p + 1, Len(s))[i] = s[p + 1 + i - 1]
  BY <1>1, SubSeqProperties
<1>3. after(s, a) = SubSeq(s, p + 1, Len(s))
  BY DEF after, p
<1>4. Len(after(s, a)) = Len(s) - p
  BY <1>0, <1>2, <1>3
<1>5. \A i \in 1..Len(after(s, a)) : p + i \in 1..Len(s) /\ after(s, a)[i] = s[p + i]
  BY <1>0, <1>2, <1>3, <1>4
<1> QED
  BY <1>0, <1>2, <1>3, <1>4, <1>5 DEF p

(* Popping up to a limit, and then up to a later one, is popping up to the *)
(* later one at once.                                                      *)
LEMMA AfterAfter ==
  ASSUME NEW s \in Seq(Times), NEW a \in Int, NEW b \in Int, a <= b
  PROVE  after(after(s, a), b) = after(s, b)
<1> DEFINE t == after(s, a)
           p == popped(s, a)
           q == popped(s, b)
<1>1. /\ Len(s) \in Nat /\ \A i \in 1..Len(s) : s[i] \in Int
      /\ p \in 0..Len(s) /\ \A i \in 1..p : s[i] <= a
      /\ p < Len(s) => s[p + 1] > a
      /\ q \in 0..Len(s) /\ \A i \in 1..q : s[i] <= b
      /\ q < Len(s) => s[q + 1] > b
  BY TimesOf, Popped
<1>2. /\ t \in Seq(Times) /\ Len(t) = Len(s) - p
      /\ \A i \in 1..Len(t) : p + i \in 1..Len(s) /\ t[i] = s[p + i]
  BY After
<1>3. /\ after(s, b) \in Seq(Times) /\ Len(after(s, b)) = Len(s) - q
      /\ \A i \in 1..Len(after(s, b)) : q + i \in 1..Len(s) /\ after(s, b)[i] = s[q + i]
  BY After
<1> HIDE DEF t, p, q
<1>4. p <= q
  <2>1. CASE q < Len(s)
    <3>1. ~(q + 1 <= p)
      BY <1>1, <2>1
    <3> QED
      BY <1>1, <3>1
  <2>2. CASE q = Len(s)
    BY <1>1, <2>2
  <2> QED
    BY <1>1, <2>1, <2>2
<1>5. popped(t, b) = q - p
  <2>1. q - p \in 0..Len(t)
    BY <1>1, <1>2, <1>4
  <2>2. \A i \in 1..q - p : t[i] <= b
    BY <1>1, <1>2, <1>4
  <2>3. q - p < Len(t) => t[q - p + 1] > b
    <3> SUFFICES ASSUME q - p < Len(t) PROVE t[q - p + 1] > b
      OBVIOUS
    <3>1. q < Len(s) /\ q - p + 1 \in 1..Len(t)
      BY <1>1, <1>2, <1>4
    <3>2. t[q - p + 1] = s[p + (q - p + 1)] /\ p + (q - p + 1) = q + 1
      BY <1>1, <1>2, <3>1
    <3> QED
      BY <1>1, <3>1, <3>2
  <2> QED
    BY <1>2, <2>1, <2>2, <2>3, PoppedIs
<1>6. /\ after(t, b) \in Seq(Times) /\ Len(after(t, b)) = Len(t) - (q - p)
      /\ \A i \in 1..Len(after(t, b)) : /\ q - p + i \in 1..Len(t)
                                        /\ after(t, b)[i] = t[q - p + i]
  BY <1>2, <1>5, After
<1>7. Len(after(t, b)) = Len(after(s, b))
  BY <1>1, <1>2, <1>3, <1>6
<1>8. \A i \in 1..Len(after(t, b)) : after(t, b)[i] = after(s, b)[i]
  <2> TAKE i \in 1..Len(after(t, b))
  <2>1. after(t, b)[i] = t[q - p + i] /\ q - p + i \in 1..Len(t)
    BY <1>6
  <2>2. i \in Int /\ p + (q - p + i) = q + i
    BY <1>1, <1>6
  <2>3. t[q - p + i] = s[p + (q - p + i)]
    BY <1>2, <2>1
  <2>4. after(s, b)[i] = s[q + i]
    BY <1>3, <1>7
  <2> QED
    BY <2>1, <2>2, <2>3, <2>4
<1> QED
  BY <1>3, <1>6, <1>7, <1>8, SeqEqual DEF t

(* Appending a time keeps a deque of times, and the entries it has.        *)
LEMMA AppendTime ==
  ASSUME NEW s \in Seq(Times), NEW t \in Times
  PROVE  /\ Append(s, t) \in Seq(Times) /\ Len(Append(s, t)) = Len(s) + 1
         /\ \A i \in 1..Len(s) + 1 : Append(s, t)[i] = IF i <= Len(s) THEN s[i] ELSE t
<1>1. /\ Append(s, t) \in Seq(Times) /\ Len(Append(s, t)) = Len(s) + 1
      /\ \A i \in 1..Len(s) : Append(s, t)[i] = s[i]
      /\ Append(s, t)[Len(s) + 1] = t
  BY AppendProperties
<1>2. Len(s) \in Nat
  BY TimesOf
<1> QED
  BY <1>1, <1>2

(* A table whose order is too long loses its oldest entry.                 *)
LEMMA EnteredType ==
  ASSUME NEW order \in Seq(Peers), NEW p \in Peers
  PROVE  entered(order, p) \in Seq(Peers)
<1> DEFINE longer == IF p \in ToSet(order) THEN order ELSE Append(order, p)
<1>1. longer \in Seq(Peers)
  BY AppendProperties
<1>2. Len(longer) > MaxTracked => longer # <<>>
  BY <1>1, EmptySeq, RateAssumption
<1> HIDE DEF longer
<1>3. Len(longer) > MaxTracked => Tail(longer) \in Seq(Peers)
  BY <1>1, <1>2, HeadTailProperties
<1>4. entered(order, p) = IF Len(longer) > MaxTracked THEN Tail(longer) ELSE longer
  BY DEF entered, longer
<1> QED
  BY <1>1, <1>3, <1>4

(* What the limiter remembers of a client it has not forgotten is what     *)
(* happened; a lockout is in force until it ends, and no request was let   *)
(* through during it.                                                      *)
Remembers(p) ==
    p \notin forgotten =>
        /\ recent(requests[p], Window) = recent(admitted[p], Window)
        /\ Len(recent(admitted[p], Window)) <= PerMinute
        /\ recent(failures[p], FailureWindow) = recent(failed[p], FailureWindow)
        /\ Len(recent(failed[p], FailureWindow)) < LockoutFailures

LocksOut(p) ==
    /\ lockedAt[p] # 0 /\ clock < lockedAt[p] + LockoutSeconds
         => locked_until[p] = lockedAt[p] + LockoutSeconds
    /\ \A i \in 1..Len(admitted[p]) :
         /\ admitted[p][i] <= clock
         /\ lockedAt[p] # 0 /\ admitted[p][i] > lockedAt[p]
              => admitted[p][i] >= lockedAt[p] + LockoutSeconds

RateInv == /\ RateLimiterTypeOK
           /\ \A p \in Peers : inFlight[p] <= let_through
           /\ \A p \in Peers : Remembers(p) /\ LocksOut(p)

(* Nothing is remembered at first.                                         *)
LEMMA InitRate == RateLimiterInit => RateInv
<1> SUFFICES ASSUME RateLimiterInit PROVE RateInv
  OBVIOUS
<1>1. <<>> \in Seq(Times) /\ Len(<<>>) = 0 /\ <<>> \in Seq(Peers)
  BY EmptySeq
<1>2. clock = 1 /\ let_through = 0 /\ forgotten = {}
  BY DEF RateLimiterInit
<1>3. clock \in 1..LastTime /\ 0 \in 0..MaxRequests
  BY <1>2, RateAssumption
<1>4. \A p \in Peers : /\ requests[p] = <<>> /\ failures[p] = <<>> /\ admitted[p] = <<>>
                       /\ failed[p] = <<>> /\ lockedAt[p] = 0 /\ inFlight[p] = 0
  BY DEF RateLimiterInit
<1>5. RateLimiterTypeOK
  BY <1>1, <1>2, <1>3 DEF RateLimiterInit, RateLimiterTypeOK, Times
<1>6. \A a \in Int : Len(after(<<>>, a)) <= 0 /\ Len(after(<<>>, a)) \in Nat
  BY <1>1, After, TimesOf
<1>7. ASSUME NEW p \in Peers PROVE Remembers(p)
  <2>1. clock - Window \in Int /\ clock - FailureWindow \in Int
    BY <1>2, RateAssumption
  <2>2. Len(recent(<<>>, Window)) <= 0 /\ Len(recent(<<>>, FailureWindow)) <= 0
    BY <1>6, <2>1 DEF recent
  <2>3. Len(recent(<<>>, Window)) \in Nat /\ Len(recent(<<>>, FailureWindow)) \in Nat
    BY <1>6, <2>1 DEF recent
  <2> QED
    BY <1>4, <2>2, <2>3, RateAssumption DEF Remembers
<1>8. ASSUME NEW p \in Peers PROVE LocksOut(p)
  BY <1>1, <1>4 DEF LocksOut
<1> QED
  BY <1>2, <1>4, <1>5, <1>7, <1>8 DEF RateInv

(* What a client does changes only the entries of the client, but for the  *)
(* clients that are forgotten in its place.                                *)
LEMMA CheckKeeps ==
  ASSUME RateInv, NEW p \in Peers, check(p)
  PROVE  RateInv'
<1> DEFINE window == recent(requests[p], Window)
<1>0. /\ requests[p] \in Seq(Times) /\ admitted[p] \in Seq(Times)
      /\ clock \in Times /\ clock \in Int /\ clock - Window \in Int
      /\ lockedAt[p] \in Nat /\ PerMinute \in Nat
  BY RateAssumption DEF RateInv, RateLimiterTypeOK, Times
<1>1. /\ window \in Seq(Times) /\ Len(window) \in Nat
      /\ recent(admitted[p], Window) \in Seq(Times)
      /\ recent(window, Window) = window
      /\ recent(recent(admitted[p], Window), Window) = recent(admitted[p], Window)
  <2>1. ASSUME NEW s \in Seq(Times)
        PROVE  /\ recent(s, Window) \in Seq(Times) /\ Len(recent(s, Window)) \in Nat
               /\ recent(recent(s, Window), Window) = recent(s, Window)
    <3>1. after(s, clock - Window) \in Seq(Times) /\ clock - Window <= clock - Window
      BY <1>0, After
    <3>2. Len(after(s, clock - Window)) \in Nat
      BY <3>1, TimesOf
    <3>3. after(after(s, clock - Window), clock - Window) = after(s, clock - Window)
      BY <1>0, <3>1, AfterAfter
    <3> QED
      BY <3>1, <3>2, <3>3 DEF recent
  <2> QED
    BY <1>0, <2>1
<1>2. clock' = clock /\ failures' = failures /\ failed' = failed /\ lockedAt' = lockedAt
      /\ failureOrder' = failureOrder
  BY DEF check
<1>3. /\ locked_until' = [locked_until EXCEPT ![p] = 0]
      /\ \A q \in Peers \ {p} : locked_until'[q] = locked_until[q]
      /\ locked_until' \in [Peers -> Nat]
  BY DEF check, RateInv, RateLimiterTypeOK
<1>4. lockedAt[p] # 0 => clock >= lockedAt[p] + LockoutSeconds
  <2>1. lockedAt[p] + LockoutSeconds \in Int
    BY <1>0, RateAssumption
  <2>2. ~is_locked(p)
    BY DEF check
  <2>3. lockedAt[p] # 0 /\ clock < lockedAt[p] + LockoutSeconds
          => locked_until[p] = lockedAt[p] + LockoutSeconds
    BY DEF RateInv, LocksOut
  <2>4. lockedAt[p] # 0 => lockedAt[p] + LockoutSeconds # 0
    BY <1>0, RateAssumption
  <2> QED
    BY <1>0, <2>1, <2>2, <2>3, <2>4 DEF is_locked
<1>5. CASE Len(window) < PerMinute
  <2>1. /\ requests' = [q \in Peers |-> IF q = p THEN Append(window, clock)
                                        ELSE IF q \in Dropped(requestOrder, p) THEN <<>>
                                        ELSE requests[q]]
        /\ requestOrder' = entered(requestOrder, p)
        /\ forgotten' = forgotten \union Dropped(requestOrder, p)
        /\ inFlight' = [inFlight EXCEPT ![p] = @ + 1]
        /\ let_through' = let_through + 1 /\ let_through < MaxRequests
        /\ admitted' = [admitted EXCEPT ![p] = Append(recent(@, Window), clock)]
    BY <1>5 DEF check
  <2>2. /\ Append(window, clock) \in Seq(Times) /\ <<>> \in Seq(Times)
        /\ Len(Append(window, clock)) = Len(window) + 1
        /\ Append(recent(admitted[p], Window), clock) \in Seq(Times)
    BY <1>0, <1>1, AppendTime, EmptySeq
  <2>3. requestOrder' \in Seq(Peers)
    BY <2>1, EnteredType DEF RateInv, RateLimiterTypeOK
  <2>4. \A q \in Peers : inFlight'[q] \in 0..MaxRequests /\ inFlight'[q] <= let_through'
    <3>1. let_through \in Nat /\ MaxRequests \in Nat
      BY RateAssumption DEF RateInv, RateLimiterTypeOK
    <3>2. \A q \in Peers : /\ inFlight[q] \in Nat /\ inFlight[q] <= let_through
                           /\ inFlight'[q] = IF q = p THEN inFlight[q] + 1 ELSE inFlight[q]
      BY <2>1, RateAssumption DEF RateInv, RateLimiterTypeOK
    <3> QED
      BY <2>1, <3>1, <3>2
  <2>5. let_through' \in 0..MaxRequests
    BY <2>1, RateAssumption DEF RateInv, RateLimiterTypeOK
  <2>6. requests' \in [Peers -> Seq(Times)]
    <3>1. \A q \in Peers : requests[q] \in Seq(Times)
      BY DEF RateInv, RateLimiterTypeOK, Times
    <3> HIDE DEF window
    <3> QED
      BY <2>1, <2>2, <3>1
  <2>7. admitted' \in [Peers -> Seq(Times)]
    BY <2>1, <2>2 DEF RateInv, RateLimiterTypeOK, Times
  <2>8. forgotten' \subseteq Peers
    <3>1. ToSet(requestOrder) \subseteq Peers
      BY DEF RateInv, RateLimiterTypeOK, ToSet
    <3> QED
      BY <2>1, <3>1 DEF RateInv, RateLimiterTypeOK, Dropped
  <2>9. RateLimiterTypeOK'
    <3>1. inFlight' \in [Peers -> 0..MaxRequests]
      BY <2>1, <2>4 DEF RateInv, RateLimiterTypeOK
    <3> QED
      BY <1>2, <1>3, <2>3, <2>5, <2>6, <2>7, <2>8, <3>1 DEF RateInv, RateLimiterTypeOK, Times
  <2>10. ASSUME NEW q \in Peers PROVE Remembers(q)'
    <3>1. CASE q # p
      BY <1>2, <2>1, <3>1 DEF RateInv, Remembers, recent, RateLimiterTypeOK
    <3>2. CASE q = p
      <4>1. SUFFICES ASSUME p \notin forgotten' PROVE Remembers(p)'
        BY <3>2 DEF Remembers
      <4>2. p \notin forgotten /\ window = recent(admitted[p], Window)
        BY <2>1, <4>1 DEF RateInv, Remembers
      <4>3. requests'[p] = Append(window, clock) /\ admitted'[p] = Append(window, clock)
        BY <2>1, <4>2 DEF RateInv, RateLimiterTypeOK
      <4>4. /\ Len(after(Append(window, clock), clock - Window)) <= Len(window) + 1
            /\ after(Append(window, clock), clock - Window) \in Seq(Times)
        <5> HIDE DEF window
        <5> QED
          BY <1>0, <2>2, After
      <4>5. Len(after(Append(window, clock), clock - Window)) <= PerMinute
        <5> HIDE DEF window
        <5>1. Len(after(Append(window, clock), clock - Window)) \in Nat
          BY <4>4, TimesOf
        <5> QED
          BY <1>0, <1>1, <1>5, <4>4, <5>1
      <4> QED
        BY <1>2, <4>1, <4>2, <4>3, <4>5 DEF RateInv, Remembers, recent
    <3> QED
      BY <3>1, <3>2
  <2>11. ASSUME NEW q \in Peers PROVE LocksOut(q)'
    <3>1. CASE q # p
      BY <1>2, <1>3, <2>1, <3>1 DEF RateInv, LocksOut, RateLimiterTypeOK
    <3>2. CASE q = p
      <4> DEFINE w == recent(admitted[p], Window)
      <4>1. /\ Len(w) \in Nat
            /\ \A i \in 1..Len(w) : \E j \in 1..Len(admitted[p]) : w[i] = admitted[p][j]
        BY <1>0, <1>1, After, TimesOf DEF recent
      <4>2. admitted'[p] = Append(w, clock)
        BY <2>1 DEF RateInv, RateLimiterTypeOK
      <4>3. \A i \in 1..Len(w) : /\ w[i] <= clock
                                 /\ lockedAt[p] # 0 /\ w[i] > lockedAt[p]
                                      => w[i] >= lockedAt[p] + LockoutSeconds
        <5>1. \A j \in 1..Len(admitted[p]) :
                /\ admitted[p][j] <= clock
                /\ lockedAt[p] # 0 /\ admitted[p][j] > lockedAt[p]
                     => admitted[p][j] >= lockedAt[p] + LockoutSeconds
          BY DEF RateInv, LocksOut
        <5> HIDE DEF w
        <5> QED
          BY <4>1, <5>1
      <4>4. /\ Len(admitted'[p]) = Len(w) + 1
            /\ \A i \in 1..Len(w) + 1 : admitted'[p][i] = IF i <= Len(w) THEN w[i] ELSE clock
        BY <1>0, <1>1, <4>2, AppendTime
      <4>5. \A i \in 1..Len(admitted'[p]) :
               /\ admitted'[p][i] <= clock
               /\ lockedAt[p] # 0 /\ admitted'[p][i] > lockedAt[p]
                    => admitted'[p][i] >= lockedAt[p] + LockoutSeconds
        <5> HIDE DEF w
        <5> TAKE i \in 1..Len(admitted'[p])
        <5>1. CASE i <= Len(w)
          <6>1. i \in 1..Len(w) /\ admitted'[p][i] = w[i]
            BY <4>1, <4>4, <5>1
          <6> QED
            BY <4>3, <6>1
        <5>2. CASE ~(i <= Len(w))
          <6>1. admitted'[p][i] = clock
            BY <4>1, <4>4, <5>2
          <6> QED
            BY <1>0, <1>4, <6>1
        <5> QED
          BY <5>1, <5>2
      <4>6. ~(lockedAt[p] # 0 /\ clock < lockedAt[p] + LockoutSeconds)
        <5>1. lockedAt[p] + LockoutSeconds \in Int
          BY <1>0, RateAssumption
        <5> QED
          BY <1>0, <1>4, <5>1
      <4> QED
        BY <1>2, <3>2, <4>5, <4>6 DEF LocksOut
    <3> QED
      BY <3>1, <3>2
  <2> QED
    BY <2>4, <2>9, <2>10, <2>11 DEF RateInv
<1>6. CASE ~(Len(window) < PerMinute)
  <2>1. /\ requests' = [requests EXCEPT ![p] = window]
        /\ UNCHANGED <<requestOrder, forgotten, inFlight, let_through, admitted>>
    BY <1>6 DEF check
  <2>2. RateLimiterTypeOK'
    <3>1. requests' \in [Peers -> Seq(Times)]
      BY <1>1, <2>1 DEF RateInv, RateLimiterTypeOK, Times
    <3> QED
      BY <1>2, <1>3, <2>1, <3>1 DEF RateInv, RateLimiterTypeOK, Times
  <2>3. ASSUME NEW q \in Peers PROVE Remembers(q)'
    <3>1. CASE q # p
      BY <1>2, <2>1, <3>1 DEF RateInv, Remembers, recent, RateLimiterTypeOK
    <3>2. CASE q = p
      <4>1. requests'[p] = window
        BY <2>1 DEF RateInv, RateLimiterTypeOK
      <4> QED
        BY <1>1, <1>2, <2>1, <3>2, <4>1 DEF RateInv, Remembers, recent
    <3> QED
      BY <3>1, <3>2
  <2>4. ASSUME NEW q \in Peers PROVE LocksOut(q)'
    <3>1. CASE q # p
      BY <1>2, <1>3, <2>1, <3>1 DEF RateInv, LocksOut
    <3>2. CASE q = p
      <4>1. ~(lockedAt[p] # 0 /\ clock < lockedAt[p] + LockoutSeconds)
        <5>1. lockedAt[p] + LockoutSeconds \in Int
          BY <1>0, RateAssumption
        <5> QED
          BY <1>0, <1>4, <5>1
      <4> QED
        BY <1>2, <2>1, <3>2, <4>1 DEF RateInv, LocksOut
    <3> QED
      BY <3>1, <3>2
  <2> QED
    BY <2>1, <2>2, <2>3, <2>4 DEF RateInv
<1> QED
  BY <1>5, <1>6

(* A failure is counted in the window, or locks the client out.            *)
LEMMA FailureKeeps ==
  ASSUME RateInv, NEW p \in Peers, record_failure(p)
  PROVE  RateInv'
<1> DEFINE old    == recent(failures[p], FailureWindow)
           window == Append(old, clock)
<1>0. /\ failures[p] \in Seq(Times) /\ failed[p] \in Seq(Times)
      /\ clock \in Times /\ clock \in Int /\ clock >= 1 /\ clock - FailureWindow \in Int
      /\ LockoutSeconds \in Nat \ {0} /\ LockoutFailures \in Nat \ {0}
  BY RateAssumption DEF RateInv, RateLimiterTypeOK, Times
<1>1. /\ old \in Seq(Times) /\ Len(old) \in Nat
      /\ recent(failed[p], FailureWindow) \in Seq(Times)
  BY <1>0, After, TimesOf DEF recent
<1>2. /\ window \in Seq(Times) /\ Len(window) = Len(old) + 1 /\ <<>> \in Seq(Times)
      /\ Len(<<>>) = 0 /\ Append(recent(failed[p], FailureWindow), clock) \in Seq(Times)
  <2> HIDE DEF old
  <2> QED
    BY <1>0, <1>1, AppendTime, EmptySeq
<1>3. ASSUME NEW s \in Seq(Times)
      PROVE  /\ Len(recent(s, FailureWindow)) \in Nat
             /\ Len(recent(s, FailureWindow)) <= Len(s)
  BY <1>0, <1>3, After, TimesOf DEF recent
<1>4. /\ inFlight' = [inFlight EXCEPT ![p] = @ - 1] /\ inFlight[p] > 0
      /\ failures' = [q \in Peers |->
                        IF q = p THEN IF Len(window) >= LockoutFailures THEN <<>> ELSE window
                        ELSE IF q \in Dropped(failureOrder, p) THEN <<>>
                        ELSE failures[q]]
      /\ failureOrder' = entered(failureOrder, p)
      /\ forgotten' = forgotten \union Dropped(failureOrder, p)
      /\ UNCHANGED <<clock, requests, requestOrder, let_through, admitted>>
  BY DEF record_failure
<1>5. \/ /\ Len(window) >= LockoutFailures
         /\ locked_until' = [locked_until EXCEPT ![p] = clock + LockoutSeconds]
         /\ lockedAt' = [lockedAt EXCEPT ![p] = clock]
         /\ failed' = [failed EXCEPT ![p] = <<>>]
      \/ /\ ~(Len(window) >= LockoutFailures)
         /\ failed' = [failed EXCEPT ![p] = Append(recent(@, FailureWindow), clock)]
         /\ UNCHANGED <<locked_until, lockedAt>>
  BY DEF record_failure
<1>6. \A q \in Peers : inFlight'[q] \in 0..MaxRequests /\ inFlight'[q] <= let_through'
  BY <1>4, RateAssumption DEF RateInv, RateLimiterTypeOK
<1>7. RateLimiterTypeOK'
  <2>1. failures' \in [Peers -> Seq(Times)]
    <3>1. \A q \in Peers : failures[q] \in Seq(Times)
      BY DEF RateInv, RateLimiterTypeOK, Times
    <3> HIDE DEF window
    <3> QED
      BY <1>2, <1>4, <3>1
  <2>2. failed' \in [Peers -> Seq(Times)]
    BY <1>2, <1>5 DEF RateInv, RateLimiterTypeOK, Times
  <2>3. locked_until' \in [Peers -> Nat] /\ lockedAt' \in [Peers -> Nat]
    <3>1. clock + LockoutSeconds \in Nat /\ clock \in Nat
      BY <1>0
    <3> QED
      BY <1>5, <3>1 DEF RateInv, RateLimiterTypeOK
  <2>4. failureOrder' \in Seq(Peers)
    BY <1>4, EnteredType DEF RateInv, RateLimiterTypeOK
  <2>5. forgotten' \subseteq Peers
    <3>1. ToSet(failureOrder) \subseteq Peers
      BY DEF RateInv, RateLimiterTypeOK, ToSet
    <3> QED
      BY <1>4, <3>1 DEF RateInv, RateLimiterTypeOK, Dropped
  <2>6. inFlight' \in [Peers -> 0..MaxRequests]
    BY <1>4, <1>6 DEF RateInv, RateLimiterTypeOK
  <2> QED
    BY <1>4, <2>1, <2>2, <2>3, <2>4, <2>5, <2>6 DEF RateInv, RateLimiterTypeOK, Times
<1>8. ASSUME NEW q \in Peers PROVE Remembers(q)'
  <2>1. CASE q # p
    <3>1. failed'[q] = failed[q]
      BY <1>5, <2>1 DEF RateInv, RateLimiterTypeOK
    <3> QED
      BY <1>4, <2>1, <3>1 DEF RateInv, Remembers, recent, RateLimiterTypeOK
  <2>2. CASE q = p
    <3>1. SUFFICES ASSUME p \notin forgotten' PROVE Remembers(p)'
      BY <2>2 DEF Remembers
    <3>2. p \notin forgotten /\ old = recent(failed[p], FailureWindow)
      BY <1>4, <3>1 DEF RateInv, Remembers
    <3>3. CASE Len(window) >= LockoutFailures
      <4>1. failures'[p] = <<>> /\ failed'[p] = <<>>
        BY <1>4, <1>5, <3>3 DEF RateInv, RateLimiterTypeOK
      <4>2. Len(recent(<<>>, FailureWindow)) < LockoutFailures
        <5>1. /\ Len(recent(<<>>, FailureWindow)) \in Nat
              /\ Len(recent(<<>>, FailureWindow)) <= Len(<<>>)
          BY <1>2, <1>3
        <5>2. Len(recent(<<>>, FailureWindow)) <= 0
          BY <1>2, <5>1
        <5> QED
          BY <1>0, <5>1, <5>2
      <4> QED
        BY <1>4, <3>2, <4>1, <4>2 DEF RateInv, Remembers, recent
    <3>4. CASE ~(Len(window) >= LockoutFailures)
      <4>1. failures'[p] = window /\ failed'[p] = window
        BY <1>4, <1>5, <3>2, <3>4 DEF RateInv, RateLimiterTypeOK
      <4>2. Len(recent(window, FailureWindow)) < LockoutFailures
        <5>1. /\ Len(recent(window, FailureWindow)) \in Nat
              /\ Len(recent(window, FailureWindow)) <= Len(window)
          BY <1>2, <1>3
        <5>2. Len(window) \in Nat /\ Len(window) < LockoutFailures
          BY <1>0, <1>1, <1>2, <3>4
        <5> HIDE DEF window
        <5> QED
          BY <1>0, <5>1, <5>2
      <4> QED
        BY <1>4, <3>2, <4>1, <4>2 DEF RateInv, Remembers, recent
    <3> QED
      BY <3>3, <3>4
  <2> QED
    BY <2>1, <2>2
<1>9. ASSUME NEW q \in Peers PROVE LocksOut(q)'
  <2>1. LocksOut(q)
    BY DEF RateInv
  <2>2. CASE q # p
    <3>1. lockedAt'[q] = lockedAt[q] /\ locked_until'[q] = locked_until[q]
      BY <1>5, <2>2 DEF RateInv, RateLimiterTypeOK
    <3> QED
      BY <1>4, <2>1, <3>1 DEF LocksOut
  <2>3. CASE q = p
    <3>1. CASE Len(window) >= LockoutFailures
      <4>1. lockedAt'[p] = clock /\ locked_until'[p] = clock + LockoutSeconds
        BY <1>5, <3>1 DEF RateInv, RateLimiterTypeOK
      <4>2. admitted' = admitted /\ \A i \in 1..Len(admitted[p]) : admitted[p][i] \in Int
        <5>1. admitted[p] \in Seq(Times)
          BY DEF RateInv, RateLimiterTypeOK, Times
        <5> QED
          BY <1>4, <5>1, TimesOf
      <4>3. \A i \in 1..Len(admitted[p]) :
              admitted[p][i] <= clock /\ ~(admitted[p][i] > clock)
        BY <1>0, <2>1, <2>3, <4>2 DEF LocksOut
      <4> QED
        BY <1>4, <2>3, <4>1, <4>2, <4>3 DEF LocksOut
    <3>2. CASE ~(Len(window) >= LockoutFailures)
      BY <1>4, <1>5, <2>1, <3>2 DEF LocksOut
    <3> QED
      BY <3>1, <3>2
  <2> QED
    BY <2>2, <2>3
<1> QED
  BY <1>6, <1>7, <1>8, <1>9 DEF RateInv

(* Time only lets the windows move on.                                     *)
LEMMA SecondKeeps == RateInv /\ Second => RateInv'
<1> SUFFICES ASSUME RateInv, Second PROVE RateInv'
  OBVIOUS
<1>0. /\ clock \in Int /\ clock >= 1 /\ clock' = clock + 1 /\ clock' \in Times
      /\ Window \in Nat \ {0} /\ FailureWindow \in Nat \ {0} /\ LockoutSeconds \in Nat
      /\ PerMinute \in Nat /\ LockoutFailures \in Nat
  BY RateAssumption DEF RateInv, RateLimiterTypeOK, Second, Times
<1>1. ASSUME NEW p \in Peers
      PROVE  /\ requests[p] \in Seq(Times) /\ failures[p] \in Seq(Times)
             /\ admitted[p] \in Seq(Times) /\ failed[p] \in Seq(Times)
             /\ lockedAt[p] \in Nat /\ locked_until[p] \in Nat
  BY <1>1 DEF RateInv, RateLimiterTypeOK, Times
<1>2. /\ admitted' = [p \in Peers |-> recent(admitted[p], Window - 1)]
      /\ failed' = [p \in Peers |-> recent(failed[p], FailureWindow - 1)]
      /\ UNCHANGED <<requests, failures, requestOrder, failureOrder, locked_until, inFlight,
                     let_through, lockedAt, forgotten>>
  BY DEF Second
<1>3. ASSUME NEW s \in Seq(Times), NEW w \in Nat \ {0}
      PROVE  /\ recent(s, w - 1) \in Seq(Times)
             /\ recent(s, w) \in Seq(Times) /\ Len(recent(s, w)) \in Nat
             /\ after(recent(s, w - 1), clock' - w) = after(s, clock' - w)
             /\ after(recent(s, w), clock' - w) = after(s, clock' - w)
             /\ Len(after(s, clock' - w)) \in Nat
             /\ Len(after(s, clock' - w)) <= Len(recent(s, w))
  <2>1. /\ clock - w \in Int /\ clock - (w - 1) \in Int /\ clock' - w \in Int
        /\ clock - w <= clock' - w /\ clock - (w - 1) <= clock' - w
    BY <1>0, <1>3
  <2>2. /\ after(s, clock - (w - 1)) \in Seq(Times) /\ after(s, clock - w) \in Seq(Times)
        /\ after(s, clock' - w) \in Seq(Times)
    BY <1>3, <2>1, After
  <2>3. after(after(s, clock - (w - 1)), clock' - w) = after(s, clock' - w)
    BY <1>3, <2>1, AfterAfter
  <2>4. after(after(s, clock - w), clock' - w) = after(s, clock' - w)
    BY <1>3, <2>1, AfterAfter
  <2>5. Len(after(s, clock' - w)) <= Len(after(s, clock - w))
    BY <2>1, <2>2, <2>4, After
  <2> QED
    BY <2>2, <2>3, <2>4, <2>5, TimesOf DEF recent
<1>4. RateLimiterTypeOK'
  <2>1. admitted' \in [Peers -> Seq(Times)] /\ failed' \in [Peers -> Seq(Times)]
    BY <1>0, <1>1, <1>2, <1>3
  <2> QED
    BY <1>0, <1>2, <2>1 DEF RateInv, RateLimiterTypeOK, Times
<1>5. ASSUME NEW p \in Peers PROVE Remembers(p)'
  <2>1. SUFFICES ASSUME p \notin forgotten PROVE Remembers(p)'
    BY <1>2 DEF Remembers
  <2>2. Remembers(p)
    BY DEF RateInv
  <2>3. /\ after(admitted'[p], clock' - Window) = after(admitted[p], clock' - Window)
        /\ after(failed'[p], clock' - FailureWindow) = after(failed[p], clock' - FailureWindow)
    BY <1>0, <1>1, <1>2, <1>3
  <2>4. /\ recent(requests[p], Window) = recent(admitted[p], Window)
        /\ recent(failures[p], FailureWindow) = recent(failed[p], FailureWindow)
        /\ Len(recent(admitted[p], Window)) <= PerMinute
        /\ Len(recent(failed[p], FailureWindow)) < LockoutFailures
    BY <2>1, <2>2 DEF Remembers
  <2>5. /\ after(requests[p], clock' - Window) = after(admitted[p], clock' - Window)
        /\ after(failures[p], clock' - FailureWindow) = after(failed[p], clock' - FailureWindow)
    <3>1. /\ after(recent(requests[p], Window), clock' - Window)
               = after(requests[p], clock' - Window)
          /\ after(recent(admitted[p], Window), clock' - Window)
               = after(admitted[p], clock' - Window)
      BY <1>0, <1>1, <1>3
    <3>2. /\ after(recent(failures[p], FailureWindow), clock' - FailureWindow)
               = after(failures[p], clock' - FailureWindow)
          /\ after(recent(failed[p], FailureWindow), clock' - FailureWindow)
               = after(failed[p], clock' - FailureWindow)
      BY <1>0, <1>1, <1>3
    <3> QED
      BY <2>4, <3>1, <3>2
  <2>6. Len(after(admitted[p], clock' - Window)) <= PerMinute
    <3>1. /\ Len(after(admitted[p], clock' - Window)) \in Nat
          /\ Len(recent(admitted[p], Window)) \in Nat
          /\ Len(after(admitted[p], clock' - Window)) <= Len(recent(admitted[p], Window))
      BY <1>0, <1>1, <1>3
    <3> QED
      BY <1>0, <2>4, <3>1
  <2>7. Len(after(failed[p], clock' - FailureWindow)) < LockoutFailures
    <3>1. /\ Len(after(failed[p], clock' - FailureWindow)) \in Nat
          /\ Len(recent(failed[p], FailureWindow)) \in Nat
          /\ Len(after(failed[p], clock' - FailureWindow)) <= Len(recent(failed[p], FailureWindow))
      BY <1>0, <1>1, <1>3
    <3> QED
      BY <1>0, <2>4, <3>1
  <2> QED
    BY <1>2, <2>3, <2>5, <2>6, <2>7 DEF Remembers, recent
<1>6. ASSUME NEW p \in Peers PROVE LocksOut(p)'
  <2>1. LocksOut(p) /\ lockedAt' = lockedAt /\ locked_until' = locked_until
    BY <1>2 DEF RateInv
  <2>2. lockedAt[p] # 0 /\ clock' < lockedAt[p] + LockoutSeconds
          => locked_until[p] = lockedAt[p] + LockoutSeconds
    BY <1>0, <1>1, <2>1 DEF LocksOut
  <2>3. \A i \in 1..Len(admitted'[p]) : \E j \in 1..Len(admitted[p]) :
           admitted'[p][i] = admitted[p][j]
    <3>1. admitted'[p] = after(admitted[p], clock - (Window - 1)) /\ clock - (Window - 1) \in Int
      BY <1>0, <1>2 DEF recent
    <3>2. \A i \in 1..Len(after(admitted[p], clock - (Window - 1))) :
             LET j == popped(admitted[p], clock - (Window - 1)) + i
             IN  /\ j \in 1..Len(admitted[p])
                 /\ after(admitted[p], clock - (Window - 1))[i] = admitted[p][j]
      BY <1>1, <3>1, After
    <3> QED
      BY <3>1, <3>2
  <2>4. \A j \in 1..Len(admitted[p]) : admitted[p][j] \in Int
    BY <1>1, TimesOf
  <2>5. \A j \in 1..Len(admitted[p]) : admitted[p][j] <= clock'
    BY <1>0, <2>1, <2>4 DEF LocksOut
  <2> QED
    BY <2>1, <2>2, <2>3, <2>5 DEF LocksOut
<1> QED
  BY <1>2, <1>4, <1>5, <1>6 DEF RateInv

(* Every step keeps what the limiter remembers in order.                   *)
LEMMA StepRate == RateInv /\ [RateLimiterNext]_rateVars => RateInv'
<1> SUFFICES ASSUME RateInv, [RateLimiterNext]_rateVars PROVE RateInv'
  OBVIOUS
<1>1. ASSUME NEW p \in Peers, Answered(p) PROVE RateInv'
  <2>1. /\ inFlight' = [inFlight EXCEPT ![p] = @ - 1] /\ inFlight[p] > 0
        /\ UNCHANGED <<clock, requests, failures, requestOrder, failureOrder, locked_until,
                       let_through, admitted, failed, lockedAt, forgotten>>
    BY <1>1 DEF Answered
  <2>2. \A q \in Peers : inFlight'[q] \in 0..MaxRequests /\ inFlight'[q] <= let_through'
    BY <2>1, RateAssumption DEF RateInv, RateLimiterTypeOK
  <2>3. inFlight' \in [Peers -> 0..MaxRequests]
    BY <2>1, <2>2 DEF RateInv, RateLimiterTypeOK
  <2>4. RateLimiterTypeOK'
    BY <2>1, <2>3 DEF RateInv, RateLimiterTypeOK
  <2>5. \A q \in Peers : Remembers(q)' /\ LocksOut(q)'
    BY <2>1 DEF RateInv, Remembers, LocksOut, recent
  <2> QED
    BY <2>2, <2>4, <2>5 DEF RateInv
<1>2. CASE UNCHANGED rateVars
  <2>1. RateLimiterTypeOK'
    BY <1>2 DEF RateInv, RateLimiterTypeOK, rateVars
  <2>2. \A q \in Peers : Remembers(q)' /\ LocksOut(q)'
    BY <1>2 DEF RateInv, Remembers, LocksOut, recent, rateVars
  <2> QED
    BY <1>2, <2>1, <2>2 DEF RateInv, rateVars
<1> QED
  BY <1>1, <1>2, CheckKeeps, FailureKeeps, SecondKeeps DEF RateLimiterNext, RateHorizon

(* What the limiter remembers is enough for the limits to hold.            *)
LEMMA RateLimited == RateInv => AtMostPerMinute /\ LockoutHolds
<1> SUFFICES ASSUME RateInv PROVE AtMostPerMinute /\ LockoutHolds
  OBVIOUS
<1>1. AtMostPerMinute
  BY DEF RateInv, AtMostPerMinute, Remembers
<1>2. ASSUME NEW p \in Peers, lockedAt[p] # 0, clock < lockedAt[p] + LockoutSeconds
      PROVE  is_locked(p)
  BY <1>2, RateAssumption DEF RateInv, LocksOut, is_locked, RateLimiterTypeOK
<1>3. ASSUME NEW p \in Peers PROVE DOMAIN admitted[p] = 1..Len(admitted[p])
  BY <1>3, LenProperties DEF RateInv, RateLimiterTypeOK
<1> QED
  BY <1>1, <1>2, <1>3 DEF RateInv, Remembers, LocksOut, LockoutHolds

-----------------------------------------------------------------------------
(* All parts side by side: each moves as in its own specification, or not  *)
(* at all.                                                                 *)
McpTokensSpec == McpTokensInit /\ [][McpTokensNext]_mcpVars
OAuthClientsSpec == OAuthClientsInit /\ [][OAuthClientsNext]_clientVars
RateLimiterSpec == RateLimiterInit /\ [][RateLimiterNext]_rateVars

(* A behaviour of the whole is a behaviour of every part.                  *)
LEMMA EachPart ==
  Spec => /\ OAuthTokensSpec /\ OAuthFlowSpec /\ McpTokensSpec
          /\ OAuthClientsSpec /\ RateLimiterSpec /\ LoginSpec
<1>1. Init => /\ OAuthTokensInit /\ OAuthFlowInit /\ McpTokensInit
              /\ OAuthClientsInit /\ RateLimiterInit /\ LoginInit
  BY DEF Init
<1>2. [Next]_vars => [OAuthTokensNext]_oauthVars
  BY DEF Next, vars
<1>3. [Next]_vars => [OAuthFlowNext]_flowVars
  BY DEF Next, vars
<1>4. [Next]_vars => [McpTokensNext]_mcpVars
  BY DEF Next, vars
<1>5. [Next]_vars => [OAuthClientsNext]_clientVars
  BY DEF Next, vars
<1>6. [Next]_vars => [RateLimiterNext]_rateVars
  BY DEF Next, vars
<1>7. [Next]_vars => [LoginNext]_loginVars
  BY DEF Next, vars
<1> QED
  BY <1>1, <1>2, <1>3, <1>4, <1>5, <1>6, <1>7, PTL
  DEF Spec, OAuthTokensSpec, OAuthFlowSpec, McpTokensSpec, OAuthClientsSpec, RateLimiterSpec,
      LoginSpec

(* What holds of the logins, the clients, the ledger of tokens and the     *)
(* limiter in every state (app/auth, oauth_client_store, mcp_token_store,  *)
(* rate_limit).                                                            *)
THEOREM LimitersInvHold == Spec => [](LoginInv /\ RegistrationsInv /\ McpInv /\ RateInv)
<1>1. LoginSpec => []LoginInv
  BY InitLogin, StepLogin, PTL DEF LoginSpec
<1>2. OAuthClientsSpec => []RegistrationsInv
  BY InitRegistrations, StepRegistrations, PTL DEF OAuthClientsSpec
<1>3. McpTokensSpec => []McpInv
  BY InitMcp, StepMcp, PTL DEF McpTokensSpec
<1>4. RateLimiterSpec => []RateInv
  BY InitRate, StepRate, PTL DEF RateLimiterSpec
<1> QED
  BY <1>1, <1>2, <1>3, <1>4, EachPart, PTL

(* Every variable of every part stays in its domain.                       *)
THEOREM AccessTyped == Spec => []AccessTypeOK
<1>1. /\ RevokedInv /\ FlowInv /\ LoginInv /\ RegistrationsInv /\ McpInv /\ RateInv
      => AccessTypeOK
  BY DEF RevokedInv, ChainInv, FlowInv, LoginInv, RegistrationsInv, McpInv, CapInv, RateInv,
         AccessTypeOK
<1> QED
  BY <1>1, EachPart, RevokedInvHolds, FlowInvHolds, LimitersInvHold, PTL

(* issue_token, save_client, check and record_failure, and                 *)
(* refresh_session_token keep the caps and terms: active tokens of a user, *)
(* unless two of its requests counted at once; registered clients,         *)
(* likewise; requests let through and failures of a client; and that a     *)
(* session token is made out anew only within MaxSession of the login.     *)
THEOREM LimitsAreKept == Spec => []LimitsHold
<1>1. McpInv => CapHolds
  BY DEF McpInv, CapInv, CapHolds
<1>2. RegistrationsInv => RegistrationsLimited
  BY DEF RegistrationsInv, RegistrationsLimited
<1>3. LoginInv => MadeOutInTime
  <2> SUFFICES ASSUME LoginInv PROVE MadeOutInTime
    OBVIOUS
  <2>1. ASSUME NEW s \in sessions PROVE s[2] - SessionLife <= login_at[s[1]] + MaxSession
    <3>1. /\ s[2] \in Nat /\ login_at[s[1]] \in Nat /\ MaxSession \in Nat /\ SessionLife \in Nat
          /\ s[2] <= login_at[s[1]] + MaxSession + SessionLife
      BY LoginAssumption DEF LoginInv, LoginTypeOK, SessionsRenewedInTime
    <3> QED
      BY <3>1
  <2> QED
    BY <2>1 DEF LoginInv, ExchangedOnce, MadeOutInTime
<1>4. LoginInv /\ RegistrationsInv /\ McpInv /\ RateInv => LimitsHold
  BY <1>1, <1>2, <1>3, RateLimited DEF LimitsHold
<1> QED
  BY <1>4, LimitersInvHold, PTL

(* find_expiring_tokens runs often enough that no token ends unannounced,  *)
(* unless its notice could not be sent (mcp_token_expiry.py).              *)
THEOREM ExpiryAnnounced == Spec => []ExpiryIsAnnounced
<1>1. McpInv => ExpiryIsAnnounced
  BY DEF McpInv, NoticeInv, ExpiryIsAnnounced, token_status, McpTokensTypeOK
<1> QED
  BY <1>1, LimitersInvHold, PTL
=============================================================================
