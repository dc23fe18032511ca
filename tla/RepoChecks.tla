------------------------------ MODULE RepoChecks -------------------------------
(* repo_audit/: from what GitHub answers of a repository's settings to the  *)
(* checks, the score and the snapshot that are stored.                      *)
EXTENDS Integers, FiniteSets, FiniteSetsExt

None == "none"

(* What GitHub answers.  A call is refused (403), not found (404), fails    *)
(* (5xx) or tells.  Without admin rights it tells of no feature, otherwise  *)
(* of those the repository can have; keys and hooks are named for the worst *)
(* among them.                                                              *)
Features == {"secret_scanning", "push_protection", "dependabot_updates"}
Analyses == UNION {[told -> {"on", "off"}] : told \in SUBSET Features}
Absent == [f \in {} |-> "off"]
Answers == [repo : {"hidden", "public", "private", "forkable"}, analysis : {Absent},
            alerts : {204, 403, 404, 500},
            protection : {"full", "unchecked", "not protected", "not found", "upgrade", "refused"},
            keys : {None, "read only", "writable"}, hooks : {None, "https", "http", "unverified"}]
        \cup [repo : {"public", "forkable"}, analysis : Analyses, alerts : {204, 404},
              protection : {"full", "unchecked", "refused"}, keys : {None, "writable"},
              hooks : {None, "https"}]

Fails(a) == a.alerts = 500

(* collector.collect.  That alerts are off cannot be told from a repository *)
(* that is not shown; a missing protection can, by GitHub's message.        *)
vulnerability_alerts(a) == CASE a.alerts = 403 -> None
                             [] a.alerts = 404 -> "off"
                             [] OTHER -> "on"

branch_protection(a) == CASE a.protection = "not protected" -> "off"
                          [] a.protection = "upgrade" -> "not_enforceable"
                          [] a.protection \in {"not found", "refused"} -> None
                          [] OTHER -> a.protection

-----------------------------------------------------------------------------
(* Mutated form, used only to show that the property can fail: a feature    *)
(* that GitHub does not tell of counts as switched off.                     *)
MissingIsOff(a, name) == CASE a.repo = "hidden" -> None
                           [] a.repo # "hidden" /\ name \in DOMAIN a.analysis -> a.analysis[name]
                           [] OTHER -> "off"

-----------------------------------------------------------------------------
(* checks.py: a check is its state and its weight.                         *)
flag(a, name) == IF a.repo = "hidden" \/ name \notin DOMAIN a.analysis THEN None
                 ELSE a.analysis[name]

toggle(enabled, weight) ==
    [status |-> CASE enabled = None -> "unavailable" [] enabled = "on" -> "ok" [] OTHER -> "ng",
     weight |-> weight]

protection_check(p) ==
    [status |-> CASE p = "not_enforceable" -> "not_enforceable"
                  [] p = None -> "unavailable"
                  [] p = "full" -> "ok"
                  [] OTHER -> "ng",
     weight |-> 3]

forking(a) == [status |-> IF a.repo = "forkable" THEN "ng" ELSE "ok", weight |-> 1]

deploy_keys(a) == [status |-> CASE a.keys = None -> "unavailable" [] a.keys = "writable" -> "ng"
                                [] OTHER -> "ok", weight |-> 2]

is_insecure_hook(hook) == hook \in {"http", "unverified"}

webhooks(a) == [status |-> CASE a.hooks = None -> "unavailable" [] is_insecure_hook(a.hooks) -> "ng"
                             [] OTHER -> "ok", weight |-> 2]

Keys(a) == {"secret_scanning", "push_protection", "dependabot_alerts", "dependabot_updates",
            "branch_protection", "deploy_keys", "webhooks"}
           \cup (IF a.repo \in {"private", "forkable"} THEN {"forking"} ELSE {})

evaluate(a) ==
    [k \in Keys(a) |->
        CASE k = "secret_scanning" -> toggle(flag(a, k), 3)
          [] k \in {"push_protection", "dependabot_updates"} -> toggle(flag(a, k), 2)
          [] k = "dependabot_alerts" -> toggle(vulnerability_alerts(a), 3)
          [] k = "branch_protection" -> protection_check(branch_protection(a))
          [] k = "forking" -> forking(a)
          [] k = "deploy_keys" -> deploy_keys(a)
          [] k = "webhooks" -> webhooks(a)]

Weight(checks, states) == SumFunctionOnSet([k \in DOMAIN checks |-> checks[k].weight],
                                           {k \in DOMAIN checks : checks[k].status \in states})

(* round goes to the even neighbour from the middle                        *)
rounded(x, n) == LET q == x \div n
                     r == 2 * (x % n)
                 IN  IF r > n \/ (r = n /\ q % 2 = 1) THEN q + 1 ELSE q

score(checks) == LET total == Weight(checks, {"ok", "ng"})
                 IN  IF total = 0 THEN -1 ELSE rounded(100 * Weight(checks, {"ok"}), total)

NoRow == [checks |-> <<>>, score |-> -2, issues |-> 0]

(* audit_repo: an answer that fails is no row.                             *)
audited(a) ==
    IF Fails(a) THEN NoRow
    ELSE [checks |-> evaluate(a), score |-> score(evaluate(a)),
          issues |-> Cardinality({k \in Keys(a) : evaluate(a)[k].status = "ng"})]

(* get_repo_audit: the lowest score first, what could not be scored last.  *)
listed_before(x, y) == \/ x.score # -1 /\ y.score = -1
                       \/ x.score # -1 /\ x.score < y.score

(* What is told apart stays apart: a setting that cannot be seen neither    *)
(* lowers a score nor is called off (but for the alerts of a repository     *)
(* that is not shown); the full score means that nothing seen is amiss; and *)
(* mending a setting never lowers the score.                                *)
Mended(a) == {[a EXCEPT !.alerts = 204], [a EXCEPT !.protection = "full"],
              [a EXCEPT !.keys = "read only"], [a EXCEPT !.hooks = "https"],
              [a EXCEPT !.repo = IF @ = "forkable" THEN "private" ELSE @]}

AuditedRightly(a, r) ==
    IF Fails(a) THEN r = NoRow
    ELSE /\ r.score = 100 <=> r.issues = 0 /\ \E k \in Keys(a) : r.checks[k].status = "ok"
         /\ r.score = -1 <=> \A k \in Keys(a) : r.checks[k].status \notin {"ok", "ng"}
         /\ r.score \in -1..100
         /\ \A k \in Keys(a) : r.checks[k].status = "ng" =>
              CASE k = "branch_protection" -> a.protection \in {"not protected", "unchecked"}
                [] k = "dependabot_alerts" -> a.alerts = 404
                [] k = "deploy_keys" -> a.keys = "writable"
                [] k = "webhooks" -> a.hooks \in {"http", "unverified"}
                [] k = "forking" -> a.repo = "forkable"
                [] OTHER -> k \in DOMAIN a.analysis /\ a.analysis[k] = "off"
         /\ \A b \in Mended(a) : ~listed_before(audited(b), r) \/ r.score = -1
===============================================================================
