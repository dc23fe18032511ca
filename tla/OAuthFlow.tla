------------------------------ MODULE OAuthFlow ------------------------------
(***************************************************************************)
(* From /authorize to the authorization code: the rows of                  *)
(* oauth_authorizations (oauth/flow.py), the consent page and the return   *)
(* from GitHub (oauth/consent.py).  What the code is then exchanged for is *)
(* the subject of OAuthTokens.                                             *)
(*                                                                         *)
(* A browser keeps one cookie, of the consent page it opened last.  A row  *)
(* is read at the start of a request and written at its end, with GitHub   *)
(* asked in between; only the end of a request looks at what others have   *)
(* done meanwhile, and only as far as an UPDATE by primary key does.       *)
(***************************************************************************)
EXTENDS Integers, FiniteSets

CONSTANTS Requests,     \* authorization requests
          Browsers,
          Shows,        \* threads: GET /oauth/consent (each with a nonce of its own)
          Callbacks,    \* threads: GET /auth/github/callback (each with a code)
          Nobody,       \* no nonce, no code
          RequestTTL,   \* REQUEST_TTL
          CodeTTL,      \* CODE_TTL
          LastMinute    \* bound: the clock stops here

ASSUME FlowAssumption == /\ RequestTTL \in Nat /\ CodeTTL \in Nat /\ LastMinute \in Nat
                         /\ Nobody \notin Shows \union Callbacks

VARIABLES
    minute,
    request,        \* each row: absent, pending, completed or deleted
    expires,        \* its expires_at
    browser_hash,   \* the nonce of the browser it is bound to
    code_hash,      \* the callback whose code is stored
    cookie,         \* the nonce each browser holds
    show,           \* consent pages being opened: <<browser, request>> until bound
    approved,       \* the browsers that were sent to GitHub for a request
    denying,        \* requests for which a refusal is being carried out
    callback,       \* callbacks: idle, then <<browser, request>> while GitHub is asked
    answered,       \* the request of each callback that has ended, and its browser
    sent, exchanged,  \* the codes sent to the client, and exchanged by it
    refusedRequests,  \* ghost: requests whose client was told access_denied
    raced           \* ghost: requests two pages were opening at once

flowVars == <<minute, request, expires, browser_hash, code_hash, cookie, show, approved,
              denying, callback, answered, sent, exchanged, refusedRequests, raced>>

Pairs == Browsers \X Requests

OAuthFlowTypeOK ==
    /\ minute \in 0..LastMinute
    /\ request \in [Requests -> {"absent", "pending", "completed", "deleted"}]
    /\ expires \in [Requests -> Nat]
    /\ browser_hash \in [Requests -> Shows \union {Nobody}]
    /\ code_hash \in [Requests -> Callbacks \union {Nobody}]
    /\ cookie \in [Browsers -> Shows \union {Nobody}]
    /\ show \in [Shows -> Pairs \union {<<>>, <<"done">>}]
    /\ approved \in [Requests -> SUBSET Browsers]
    /\ denying \subseteq Requests
    /\ callback \in [Callbacks -> Pairs \union {<<>>, <<"done">>}]
    /\ answered \in [Callbacks -> Pairs \union {<<>>}]
    /\ sent \subseteq Callbacks /\ exchanged \subseteq sent
    /\ refusedRequests \subseteq Requests /\ raced \subseteq Requests

OAuthFlowInit ==
    /\ minute = 0
    /\ request = [q \in Requests |-> "absent"]
    /\ expires = [q \in Requests |-> 0]
    /\ browser_hash = [q \in Requests |-> Nobody]
    /\ code_hash = [q \in Requests |-> Nobody]
    /\ cookie = [b \in Browsers |-> Nobody]
    /\ show = [s \in Shows |-> <<>>]
    /\ approved = [q \in Requests |-> {}]
    /\ denying = {}
    /\ callback = [k \in Callbacks |-> <<>>]
    /\ answered = [k \in Callbacks |-> <<>>]
    /\ sent = {} /\ exchanged = {}
    /\ refusedRequests = {} /\ raced = {}

(* load_pending                                                            *)
pending(q) == request[q] = "pending" /\ expires[q] > minute

present(q) == request[q] \in {"pending", "completed"}

-----------------------------------------------------------------------------
(* Mutated forms, used only to show that the properties can fail.          *)

(* bound to somebody, whoever it is that comes                             *)
BoundToAny(q, b) == browser_hash[q] # Nobody

(* the code is written by an upsert                                        *)
WritableOrDenied(q) == request[q] # "absent"

-----------------------------------------------------------------------------
(* is_bound_to                                                             *)
is_bound_to(q, b) == cookie[b] # Nobody /\ cookie[b] = browser_hash[q]

(* AuthorizationService.begin and create_request: what has expired goes,   *)
(* the new request is stored.                                              *)
create_request(q) ==
    /\ request[q] = "absent"
    /\ request' = [p \in Requests |-> IF p = q THEN "pending"
                                      ELSE IF present(p) /\ expires[p] < minute THEN "deleted"
                                      ELSE request[p]]
    /\ expires' = [expires EXCEPT ![q] = minute + RequestTTL]
    /\ UNCHANGED <<minute, browser_hash, code_hash, cookie, show, approved, denying, callback,
                   answered, sent, exchanged, refusedRequests, raced>>

(* ConsentFlow.show: refused to a second browser; bind_browser has read    *)
(* that nobody has opened the page ...                                     *)
ShowReads(s, b, q) ==
    /\ show[s] = <<>>
    /\ pending(q) /\ browser_hash[q] = Nobody
    /\ show' = [show EXCEPT ![s] = <<b, q>>]
    /\ raced' = raced \union {p \in {q} : \E r \in Shows : \E c \in Browsers : show[r] = <<c, q>>}
    /\ UNCHANGED <<minute, request, expires, browser_hash, code_hash, cookie, approved, denying,
                   callback, answered, sent, exchanged, refusedRequests>>

(* ... and commits the nonce; the browser gets it as its cookie.  Nothing  *)
(* happens if the row has been deleted meanwhile.                          *)
bind_browser(s) ==
    \E b \in Browsers, q \in Requests :
        /\ show[s] = <<b, q>>
        /\ show' = [show EXCEPT ![s] = <<"done">>]
        /\ \/ /\ present(q)
              /\ browser_hash' = [browser_hash EXCEPT ![q] = s]
              /\ cookie' = [cookie EXCEPT ![b] = s]
           \/ /\ ~present(q)
              /\ UNCHANGED <<browser_hash, cookie>>
        /\ UNCHANGED <<minute, request, expires, code_hash, approved, denying, callback, answered,
                       sent, exchanged, refusedRequests, raced>>

(* ConsentFlow.decide with "approve": on to GitHub, with a signed state.   *)
Approve(b, q) ==
    /\ pending(q) /\ is_bound_to(q, b)
    /\ approved' = [approved EXCEPT ![q] = @ \union {b}]
    /\ UNCHANGED <<minute, request, expires, browser_hash, code_hash, cookie, show, denying,
                   callback, answered, sent, exchanged, refusedRequests, raced>>

(* ConsentFlow.decide with "deny": read ...                                *)
DenyReads(b, q) ==
    /\ pending(q) /\ is_bound_to(q, b)
    /\ q \notin denying
    /\ denying' = denying \union {q}
    /\ UNCHANGED <<minute, request, expires, browser_hash, code_hash, cookie, show, approved,
                   callback, answered, sent, exchanged, refusedRequests, raced>>

discard_request(q) ==
    request' = [request EXCEPT ![q] = IF present(q) THEN "deleted" ELSE @]

(* ... and discarded, whatever has become of it.                           *)
Deny(q) ==
    /\ q \in denying
    /\ discard_request(q)
    /\ denying' = denying \ {q}
    /\ refusedRequests' = refusedRequests \union {q}
    /\ UNCHANGED <<minute, expires, browser_hash, code_hash, cookie, show, approved, callback,
                   answered, sent, exchanged, raced>>

(* complete_github_login, up to the calls of GitHub.  The state tells the  *)
(* request and was given to a browser that approved; the cookie is what    *)
(* ties the return to a browser.                                           *)
ReturnsFromGitHub(k, b, q) ==
    /\ callback[k] = <<>>
    /\ approved[q] # {}
    /\ pending(q) /\ is_bound_to(q, b)
    /\ callback' = [callback EXCEPT ![k] = <<b, q>>]
    /\ UNCHANGED <<minute, request, expires, browser_hash, code_hash, cookie, show, approved,
                   denying, answered, sent, exchanged, refusedRequests, raced>>

(* GitHub refuses the code: the request is discarded.                      *)
LoginFails(k) ==
    \E b \in Browsers, q \in Requests :
        /\ callback[k] = <<b, q>>
        /\ discard_request(q)
        /\ callback' = [callback EXCEPT ![k] = <<"done">>]
        /\ refusedRequests' = refusedRequests \union {q}
        /\ UNCHANGED <<minute, expires, browser_hash, code_hash, cookie, show, approved, denying,
                       answered, sent, exchanged, raced>>

(* The UPDATE by primary key: it fails if the row is gone.                 *)
writable(q) == present(q)

(* complete_request: the user and the code are written over whatever the   *)
(* row holds now, the client gets the code, the browser loses its cookie.  *)
complete_request(k) ==
    \E b \in Browsers, q \in Requests :
        /\ callback[k] = <<b, q>>
        /\ callback' = [callback EXCEPT ![k] = <<"done">>]
        /\ \/ /\ writable(q)
              /\ request' = [request EXCEPT ![q] = "completed"]
              /\ code_hash' = [code_hash EXCEPT ![q] = k]
              /\ expires' = [expires EXCEPT ![q] = minute + CodeTTL]
              /\ answered' = [answered EXCEPT ![k] = <<b, q>>]
              /\ sent' = sent \union {k}
              /\ cookie' = [cookie EXCEPT ![b] = Nobody]
           \/ /\ ~writable(q)
              /\ UNCHANGED <<request, code_hash, expires, answered, sent, cookie>>
        /\ UNCHANGED <<minute, browser_hash, show, approved, denying, exchanged, refusedRequests,
                       raced>>

(* find_by_code and consume_code: one row holds the code, has not expired, *)
(* and is deleted.                                                         *)
CodeExchanged(k) ==
    \E q \in Requests :
        /\ k \in sent
        /\ request[q] = "completed" /\ code_hash[q] = k /\ expires[q] > minute
        /\ request' = [request EXCEPT ![q] = "deleted"]
        /\ exchanged' = exchanged \union {k}
        /\ UNCHANGED <<minute, expires, browser_hash, code_hash, cookie, show, approved, denying,
                       callback, answered, sent, refusedRequests, raced>>

Minute ==
    /\ minute < LastMinute
    /\ minute' = minute + 1
    /\ UNCHANGED <<request, expires, browser_hash, code_hash, cookie, show, approved, denying,
                   callback, answered, sent, exchanged, refusedRequests, raced>>

FlowHorizon == minute = LastMinute /\ UNCHANGED flowVars

OAuthFlowNext ==
    \/ \E q \in Requests : create_request(q) \/ Deny(q)
    \/ \E q \in Requests, b \in Browsers :
         \/ Approve(b, q) \/ DenyReads(b, q)
         \/ \E s \in Shows : ShowReads(s, b, q)
         \/ \E k \in Callbacks : ReturnsFromGitHub(k, b, q)
    \/ \E s \in Shows : bind_browser(s)
    \/ \E k \in Callbacks : LoginFails(k) \/ complete_request(k) \/ CodeExchanged(k)
    \/ Minute \/ FlowHorizon

OAuthFlowSpec == OAuthFlowInit /\ [][OAuthFlowNext]_flowVars

-----------------------------------------------------------------------------
(* A code goes out only for a login in a browser that itself approved the  *)
(* request on its consent page, as long as the page was not being opened   *)
(* by two browsers at the same time (bind_browser reads, then writes).     *)
OnlyTheApproverGetsACode ==
    \A k \in sent : \A b \in Browsers, q \in Requests :
        answered[k] = <<b, q>> => b \in approved[q] \/ q \in raced

OthersUnderWay(k, q) ==
    \/ \E j \in Callbacks \ {k} : \/ callback[j] \in Browsers \X {q}
                                  \/ answered[j] \in Browsers \X {q}
    \/ q \in denying

(* A request ends once.  At most one of its codes is exchanged, none after *)
(* its client has been told access_denied; and a code that was sent can be *)
(* exchanged until it expires, unless a second return from GitHub or a     *)
(* refusal of the same request was under way.                              *)
EndsOnce ==
    /\ \A q \in Requests : Cardinality({k \in exchanged : answered[k] \in Browsers \X {q}}) <= 1
    /\ \A k \in sent \ exchanged : \A q \in Requests :
         answered[k] \in Browsers \X {q} =>
            \/ request[q] = "completed" /\ code_hash[q] = k
            \/ expires[q] <= minute
            \/ OthersUnderWay(k, q) \/ q \in refusedRequests
    /\ \A q \in refusedRequests : request[q] = "deleted"
=============================================================================
