------------------------------- MODULE Posture -------------------------------
(***************************************************************************)
(* Three daily jobs that look at what lies outside and tell the            *)
(* administrator what is new: EXTMON, the problems of public sites         *)
(* (external_monitor/crawler.py); REPOAUDIT, the deploy keys, webhooks and *)
(* collaborators of repositories (repo_audit/crawler.py); GHALERT, GitHub's *)
(* own alerts (github_alerts/crawler.py).  Each compares with the row it   *)
(* wrote the last time, commits target by target and tells at the end.     *)
(*                                                                         *)
(* A target is a site; a repository and a kind of snapshot; or a           *)
(* repository and a kind of alert.  A fact is a problem, an identity or an *)
(* alert's number.  What may be None is a sequence of at most one element. *)
(***************************************************************************)
EXTENDS Integers, FiniteSets

CONSTANTS Targets,
          Facts,
          Unalerted,     \* problems of severity INFO, alerts other than secrets
          MaxLosses      \* bound: lost messages and runs

ASSUME PostureAssumption == MaxLosses \in Nat

VARIABLES
    job,          \* EXTMON, REPOAUDIT or GHALERT
    present,      \* the facts there are
    row,          \* what is stored of each target: SiteCheck.findings, RepoAudit.snapshot,
                  \* the unresolved rows of GithubAlert
    opened,       \* GHALERT: the numbers that have a row, resolved ones included
    look,         \* the run: idle, looking, telling
    unlooked,     \* targets it has still to look at
    reached,      \* has it looked at any?
    news,         \* what it has to tell: <<target, change, fact>>
    losses,
    picture,      \* ghost: what there is, as the administrator was told
    misled        \* ghost: targets of which news was lost

postureVars == <<job, present, row, opened, look, unlooked, reached, news, losses, picture, misled>>

None == <<>>

Jobs == {"EXTMON", "REPOAUDIT", "GHALERT"}

PostureTypeOK ==
    /\ job \in Jobs
    /\ present \in [Targets -> SUBSET Facts]
    /\ row \in [Targets -> {None} \union {<<s>> : s \in SUBSET Facts}]
    /\ opened \in [Targets -> SUBSET Facts]
    /\ look \in {"idle", "looking", "telling"}
    /\ unlooked \subseteq Targets /\ reached \in BOOLEAN
    /\ news \subseteq Targets \X {"added", "removed"} \X Facts
    /\ losses \in 0..MaxLosses
    /\ picture \in [Targets -> {None} \union {<<s>> : s \in SUBSET Facts}]
    /\ misled \subseteq Targets

PostureInit ==
    /\ job \in Jobs
    /\ present \in [Targets -> SUBSET Facts]
    /\ row = [t \in Targets |-> None]
    /\ opened = [t \in Targets |-> {}]
    /\ look = "idle" /\ unlooked = {} /\ reached = FALSE /\ news = {}
    /\ losses = 0
    /\ picture = [t \in Targets |-> None] /\ misled = {}

-----------------------------------------------------------------------------
(* Mutated forms, used only to show that the properties can fail.          *)

(* what could not be fetched is stored as it is                            *)
StoresWhatItGot(old, new) == new

-----------------------------------------------------------------------------
(* merge_snapshots: a kind that could not be fetched keeps what it had.    *)
merge_snapshots(old, new) == IF new = None THEN old ELSE new

(* diff_snapshot: without a before or an after there is no change.         *)
diff_snapshot(t, old, new) ==
    IF None \in {old, new} THEN {}
    ELSE ({t} \X {"added"} \X (new[1] \ old[1])) \union ({t} \X {"removed"} \X (old[1] \ new[1]))

(* _keys: the rules that are alerted                                       *)
alerting(set) == set \ Unalerted

(* The first time a target is stored, its facts are known without a word.  *)
Learned(t, new) == IF picture[t] = None THEN [picture EXCEPT ![t] = new] ELSE picture

-----------------------------------------------------------------------------
(* Sites, settings and alerts change; a resolved alert may be reopened.    *)
Appears(t, f) ==
    /\ f \notin present[t]
    /\ present' = [present EXCEPT ![t] = @ \union {f}]
    /\ UNCHANGED <<job, row, opened, look, unlooked, reached, news, losses, picture, misled>>

Vanishes(t, f) ==
    /\ f \in present[t]
    /\ present' = [present EXCEPT ![t] = @ \ {f}]
    /\ UNCHANGED <<job, row, opened, look, unlooked, reached, news, losses, picture, misled>>

(* CrawlJob.run calls execute, which finds the targets.                    *)
LookAround ==
    /\ look = "idle"
    /\ look' = "looking" /\ unlooked' = Targets /\ reached' = FALSE
    /\ UNCHANGED <<job, present, row, opened, news, losses, picture, misled>>

(* check_target: the findings of the probes that could be made replace the *)
(* row; the rules that it did not have are news, but not the first time.   *)
check_target(t) ==
    /\ job = "EXTMON"
    /\ \E found \in SUBSET present[t] :
        /\ row' = [row EXCEPT ![t] = <<found>>]
        /\ news' = news \union
             (IF row[t] = None THEN {}
              ELSE {t} \X {"added"} \X (alerting(found) \ alerting(row[t][1])))
        /\ picture' = Learned(t, <<found>>)
    /\ UNCHANGED opened

(* audit_repo                                                              *)
audit_repo(t) ==
    /\ job = "REPOAUDIT"
    /\ \E fetched \in {<<present[t]>>, None} :
        LET snapshot == merge_snapshots(row[t], fetched)
        IN  /\ row' = [row EXCEPT ![t] = snapshot]
            /\ news' = news \union diff_snapshot(t, row[t], snapshot)
            /\ picture' = Learned(t, snapshot)
    /\ UNCHANGED opened

(* GithubAlertRepository.sync: a number that never had a row is new; a row *)
(* whose number has come back is open again; the others are resolved.      *)
sync(t) ==
    /\ job = "GHALERT"
    /\ row' = [row EXCEPT ![t] = <<present[t]>>]
    /\ opened' = [opened EXCEPT ![t] = @ \union present[t]]
    /\ news' = news \union {t} \X {"added"} \X alerting(present[t] \ opened[t])
    /\ picture' = Learned(t, <<{}>>)

Look(t) ==
    /\ look = "looking" /\ t \in unlooked
    /\ unlooked' = unlooked \ {t} /\ reached' = TRUE
    /\ check_target(t) \/ audit_repo(t) \/ sync(t)
    /\ UNCHANGED <<job, present, look, losses, misled>>

(* The target cannot be asked, or is not safe to ask: it is passed over.   *)
PassOver(t) ==
    /\ look = "looking" /\ t \in unlooked
    /\ unlooked' = unlooked \ {t}
    /\ UNCHANGED <<job, present, row, opened, look, reached, news, losses, picture, misled>>

(* The end of execute: an audit that reached nothing is an error.          *)
LookedAround ==
    /\ look = "looking" /\ unlooked = {}
    /\ look' = IF job = "REPOAUDIT" /\ ~reached THEN "idle" ELSE "telling"
    /\ UNCHANGED <<job, present, row, opened, unlooked, reached, news, losses, picture, misled>>

(* after_success: one message, not repeated if it fails.                   *)
Tell ==
    /\ look = "telling"
    /\ picture' = [t \in Targets |->
                     IF picture[t] = None THEN None
                     ELSE <<(picture[t][1] \union {f \in Facts : <<t, "added", f>> \in news})
                               \ {f \in Facts : <<t, "removed", f>> \in news}>>]
    /\ look' = "idle" /\ news' = {}
    /\ UNCHANGED <<job, present, row, opened, unlooked, reached, losses, misled>>

(* The message fails, the database does, or the process is restarted.      *)
NewsLost ==
    /\ look # "idle" /\ losses < MaxLosses
    /\ losses' = losses + 1
    /\ misled' = misled \union {n[1] : n \in news}
    /\ look' = "idle" /\ unlooked' = {} /\ news' = {}
    /\ UNCHANGED <<job, present, row, opened, reached, picture>>

PostureNext ==
    \/ \E t \in Targets : \/ Look(t) \/ PassOver(t)
                          \/ \E f \in Facts : Appears(t, f) \/ Vanishes(t, f)
    \/ LookAround \/ LookedAround \/ Tell \/ NewsLost

PostureSpec == PostureInit /\ [][PostureNext]_postureVars

-----------------------------------------------------------------------------
(* What is stored is what was told.  Between runs, every alerting fact of  *)
(* a stored row was told to the administrator or was there when the target *)
(* was first stored, and the keys, webhooks and collaborators stored are   *)
(* exactly those told: no key that came, or went, while GitHub refused to  *)
(* list them is absorbed unseen (merge_snapshots), and none is told twice. *)
(* Only what a lost message was to tell is missing (after_success).        *)
StoredIsTold ==
    look = "idle" =>
        \A t \in Targets \ misled :
            row[t] # None => /\ alerting(row[t][1]) \subseteq picture[t][1]
                             /\ job = "REPOAUDIT" => row[t] = picture[t]
=============================================================================
