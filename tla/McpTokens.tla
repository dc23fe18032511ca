------------------------------ MODULE McpTokens ------------------------------
(***************************************************************************)
(* The MCP tokens a user issues by hand: the ledger (mcp_token_store.py)   *)
(* with its cap, and the daily notice before a token expires               *)
(* (mcp_token_expiry.py).  One user: no query of the ledger leaves out the *)
(* user's name, except the job's, which goes user by user.                 *)
(***************************************************************************)
EXTENDS Integers, FiniteSets

CONSTANTS Ids,          \* tokens: each is issued by a request of its own
          Lifetimes,    \* ALLOWED_DAYS
          MaxActive,    \* MAX_ACTIVE_TOKENS
          NoticeWindow, \* NOTICE_WINDOW, in days
          IdRetention,  \* _RETENTION
          LastDay,      \* bound: the clock stops here
          MaxMishaps    \* bound: failed notices, failed or stopped jobs

(* A token lives for two days or more, so that the daily notice sees it.   *)
ASSUME McpTokensAssumption ==
    /\ Lifetimes \subseteq Nat \ {0, 1} /\ MaxActive \in Nat
    /\ NoticeWindow \in Nat \ {0} /\ IdRetention \in Nat /\ LastDay \in Nat /\ MaxMishaps \in Nat

VARIABLES
    mday,
    mcp,          \* each token: absent, counted (not yet inserted), active, revoked, purged
    until,        \* its expires_at
    notified,     \* the tokens with expiry_notified_at
    webhook,      \* is a webhook registered and enabled?
    notice,       \* the job: idle, found, sent, or done for the day
    expiring,     \* the tokens it has found
    mishaps,
    notices,      \* ghost: notices sent for each token
    crowded,      \* ghost: requests have passed the cap side by side
    waived        \* ghost: tokens whose notice failed, or had nowhere to go

mcpVars == <<mday, mcp, until, notified, webhook, notice, expiring, mishaps, notices, crowded,
             waived>>

McpTokensTypeOK ==
    /\ mday \in 0..LastDay
    /\ mcp \in [Ids -> {"absent", "counted", "active", "revoked", "purged"}]
    /\ until \in [Ids -> Nat]
    /\ notified \subseteq Ids /\ webhook \in BOOLEAN
    /\ notice \in {"idle", "found", "sent", "done"}
    /\ expiring \subseteq Ids
    /\ mishaps \in 0..MaxMishaps
    /\ notices \in [Ids -> Nat]
    /\ crowded \in BOOLEAN /\ waived \subseteq Ids

McpTokensInit ==
    /\ mday = 0
    /\ mcp = [i \in Ids |-> "absent"]
    /\ until = [i \in Ids |-> 0]
    /\ notified = {}
    /\ webhook \in BOOLEAN
    /\ notice = "idle"
    /\ expiring = {}
    /\ mishaps = 0
    /\ notices = [i \in Ids |-> 0]
    /\ crowded = FALSE
    /\ waived = {}

(* token_status                                                            *)
token_status(i) == IF mcp[i] # "active" THEN mcp[i]
                   ELSE IF until[i] <= mday THEN "expired" ELSE "active"

Valid == {i \in Ids : token_status(i) = "active"}

-----------------------------------------------------------------------------
(* Mutated form, used only to show that the property can fail:             *)
(* marked although the sending failed                                      *)
MarksWhatFailed(ok) == TRUE

(* the row is written with the status that is shown for it                 *)
RevokesAsShown(i) ==
    /\ mcp[i] = "active"
    /\ mcp' = [mcp EXCEPT ![i] = IF token_status(i) = "expired" THEN "expired" ELSE "revoked"]
    /\ UNCHANGED <<mday, until, notified, webhook, notice, expiring, mishaps, notices, crowded,
                   waived>>

-----------------------------------------------------------------------------
below_cap == Cardinality(Valid) < MaxActive

(* issue_token: old rows go and the valid tokens are counted; at the cap   *)
(* all of it is rolled back ...                                            *)
CountTokens(i) ==
    /\ mcp[i] = "absent"
    /\ below_cap
    /\ crowded' = (crowded \/ \E j \in Ids : mcp[j] = "counted")
    /\ mcp' = [mcp EXCEPT ![i] = "counted"]
    /\ UNCHANGED <<mday, until, notified, webhook, notice, expiring, mishaps, notices, waived>>

(* ... below it the row is inserted, and both are committed.               *)
issue_token(i, days) ==
    /\ mcp[i] = "counted"
    /\ mcp' = [j \in Ids |-> IF j = i THEN "active"
                             ELSE IF /\ mcp[j] \in {"active", "revoked"}
                                     /\ until[j] < mday - IdRetention
                             THEN "purged" ELSE mcp[j]]
    /\ until' = [until EXCEPT ![i] = mday + days]
    /\ UNCHANGED <<mday, notified, webhook, notice, expiring, mishaps, notices, crowded, waived>>

(* revoke_token: idempotent.                                               *)
revoke_token(i) ==
    /\ mcp[i] = "active"
    /\ mcp' = [mcp EXCEPT ![i] = "revoked"]
    /\ UNCHANGED <<mday, until, notified, webhook, notice, expiring, mishaps, notices, crowded,
                   waived>>

(* set_slack_webhook, clear_slack_webhook (auth/account_store.py)          *)
SetWebhook ==
    /\ webhook' = ~webhook
    /\ UNCHANGED <<mday, mcp, until, notified, notice, expiring, mishaps, notices, crowded, waived>>

due_notice(i) == /\ mcp[i] = "active" /\ i \notin notified
                 /\ mday < until[i] /\ until[i] <= mday + NoticeWindow

(* find_expiring_tokens                                                    *)
find_expiring_tokens ==
    /\ notice = "idle"
    /\ notice' = "found"
    /\ expiring' = {i \in Ids : due_notice(i)}
    /\ UNCHANGED <<mday, mcp, until, notified, webhook, mishaps, notices, crowded, waived>>

(* Is what was sent, or not, marked as notified?                           *)
marks(ok) == ok

(* send_expiry_notices: nothing to do, or nowhere to send it ...           *)
NoticeSkipped ==
    /\ notice = "found"
    /\ expiring = {} \/ ~webhook
    /\ waived' = waived \union expiring
    /\ notice' = "done"
    /\ expiring' = {}
    /\ UNCHANGED <<mday, mcp, until, notified, webhook, mishaps, notices, crowded>>

(* ... or one message for all of the user's tokens; if it fails, or if it  *)
(* arrives and the answer does not, they stay unmarked for tomorrow ...    *)
Send(arrives, ok) ==
    /\ ok => arrives
    /\ notice = "found" /\ expiring # {} /\ webhook
    /\ IF ok THEN UNCHANGED <<mishaps, waived>>
             ELSE /\ mishaps < MaxMishaps /\ mishaps' = mishaps + 1
                  /\ waived' = waived \union expiring
    /\ notices' = [i \in Ids |-> IF arrives /\ i \in expiring THEN notices[i] + 1 ELSE notices[i]]
    /\ notice' = IF marks(ok) THEN "sent" ELSE "done"
    /\ UNCHANGED <<mday, mcp, until, notified, webhook, expiring, crowded>>

(* ... and when it was sent they are marked, in a commit after it.         *)
MarkNotified ==
    /\ notice = "sent"
    /\ notified' = notified \union expiring
    /\ notice' = "done"
    /\ expiring' = {}
    /\ UNCHANGED <<mday, mcp, until, webhook, mishaps, notices, crowded, waived>>

(* run_mcp_token_expiry_notices swallows what fails; a restart ends it too *)
NoticeJobFails ==
    /\ notice \in {"found", "sent"}
    /\ mishaps < MaxMishaps /\ mishaps' = mishaps + 1
    /\ notice' = "done"
    /\ waived' = waived \union expiring
    /\ expiring' = {}
    /\ UNCHANGED <<mday, mcp, until, notified, webhook, notices, crowded>>

NextDay ==
    /\ mday < LastDay
    /\ notice = "done"
    /\ \A i \in Ids : mcp[i] # "counted"
    /\ mday' = mday + 1
    /\ notice' = "idle"
    /\ expiring' = {}
    /\ UNCHANGED <<mcp, until, notified, webhook, mishaps, notices, crowded, waived>>

McpHorizon == mday = LastDay /\ UNCHANGED mcpVars

McpTokensNext ==
    \/ \E i \in Ids : \/ CountTokens(i) \/ revoke_token(i)
                      \/ \E days \in Lifetimes : issue_token(i, days)
    \/ SetWebhook \/ find_expiring_tokens \/ NoticeSkipped
    \/ \E arrives, ok \in BOOLEAN : Send(arrives, ok)
    \/ MarkNotified \/ NoticeJobFails \/ NextDay \/ McpHorizon

-----------------------------------------------------------------------------
(* A user has at most MaxActive valid tokens, unless two requests counted  *)
(* them side by side (issue_token counts, then inserts).                   *)
CapHolds == crowded \/ Cardinality(Valid) <= MaxActive

(* Whoever has a webhook hears of it before a token expires: what expires  *)
(* unrevoked was announced, unless a notice of it failed or found nowhere  *)
(* to go; what is marked was announced; and it is announced once more only *)
(* after a failure between the sending and the mark, or an answer lost.    *)
ExpiryIsAnnounced ==
    /\ \A i \in Ids : token_status(i) = "expired" => notices[i] > 0 \/ i \in waived
    /\ \A i \in notified : notices[i] > 0
    /\ \A i \in Ids : notices[i] <= 1 + mishaps
=============================================================================
