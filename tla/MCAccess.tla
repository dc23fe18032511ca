------------------------------- MODULE MCAccess -------------------------------
(* The parts of the access control, one to a behaviour: they share neither *)
(* rows nor memory, so the one that runs is chosen at the start and the    *)
(* others stay where they begin.                                           *)
EXTENDS OAuthTokens, OAuthFlow, McpTokens, OAuthClients, RateLimiter, Login

VARIABLE part

vars == <<part, oauthVars, flowVars, mcpVars, clientVars, rateVars, loginVars>>

Init == /\ part \in {"tokens", "flow", "mcp", "clients", "rate", "login"}
        /\ OAuthTokensInit /\ OAuthFlowInit /\ McpTokensInit
        /\ OAuthClientsInit /\ RateLimiterInit /\ LoginInit
        /\ part # "tokens" => \A f \in Families : conn[f] = "c1"
        /\ part # "mcp" => webhook = FALSE

Next == /\ part' = part
        /\ \/ /\ part = "tokens" /\ OAuthTokensNext
              /\ UNCHANGED <<flowVars, mcpVars, clientVars, rateVars, loginVars>>
           \/ /\ part = "flow" /\ OAuthFlowNext
              /\ UNCHANGED <<oauthVars, mcpVars, clientVars, rateVars, loginVars>>
           \/ /\ part = "mcp" /\ McpTokensNext
              /\ UNCHANGED <<oauthVars, flowVars, clientVars, rateVars, loginVars>>
           \/ /\ part = "clients" /\ OAuthClientsNext
              /\ UNCHANGED <<oauthVars, flowVars, mcpVars, rateVars, loginVars>>
           \/ /\ part = "rate" /\ RateLimiterNext
              /\ UNCHANGED <<oauthVars, flowVars, mcpVars, clientVars, loginVars>>
           \/ /\ part = "login" /\ LoginNext
              /\ UNCHANGED <<oauthVars, flowVars, mcpVars, clientVars, rateVars>>

Spec == Init /\ [][Next]_vars

(* Every variable stays in its domain.                                     *)
AccessTypeOK == /\ OAuthTokensTypeOK /\ OAuthFlowTypeOK /\ McpTokensTypeOK
                /\ OAuthClientsTypeOK /\ RateLimiterTypeOK /\ LoginTypeOK

(* The caps and terms of the access control hold together: active tokens   *)
(* of a user (issue_token), registered clients (save_client), requests and *)
(* failures of a peer (RateLimiter), and the renewal of sessions           *)
(* (refresh_session_token), as far as each of the five modules states it.  *)
LimitsHold ==
    CapHolds /\ RegistrationsLimited /\ AtMostPerMinute /\ LockoutHolds /\ MadeOutInTime

(* The same three model values stand for exchanges, callbacks, issued      *)
(* tokens and clients, which keeps the symmetry group small.               *)
Sym == Permutations(Exchanges)
===============================================================================
