------------------------------- MODULE Depscan -------------------------------
(***************************************************************************)
(* DEPSCAN: the daily crawl (depscan/crawler.py), which scans the          *)
(* repositories of the admin's token, and the scan of a logged-in or       *)
(* registered user's repositories (depscan/user_scan.py), both writing the *)
(* one dependency_findings table through DependencyFindingRepository       *)
(* (depscan/repository.py).                                                *)
(*                                                                         *)
(* What a scan finds is any subset of its owner's findings: dependencies   *)
(* are added and updated between scans, and collect_dependencies and       *)
(* FindingBuilder leave out what they fail to fetch.                       *)
(***************************************************************************)
EXTENDS Findings

VARIABLE reports     \* ghost: scans that took a finding for new since it was
                     \* inserted

vars == <<tables, scans, issue, threads, ghosts, reports>>

DepscanTypeOK ==
    /\ FindingsTypeOK
    /\ \A j \in Jobs : pc[j] \in
          {"idle", "commit", "resolve", "drop", "notify",
           "refile", "file", "fileWrite", "close", "closeFind", "closeWrite",
           "done", "failed", "lost"}
    /\ reports \in [Keys -> Nat]

Init ==
    /\ FindingsInit
    /\ reports = [k \in Keys |-> 0]

-----------------------------------------------------------------------------
(* Mutated forms, used only to show that the properties can fail.          *)

(* a user's scan resolves like the daily one                               *)
ResolvesEverywhere(j, k) == row[k] = "open" /\ k \notin found[j]

(* a soft delete that upsert does not know of                              *)
MarksDeleted(j) ==
    /\ j \in Dailies
    /\ pc[j] = "close" /\ todo[j] = {}
    /\ row' = [k \in Keys |-> IF row[k] = "resolved" THEN "deleted" ELSE row[k]]
    /\ Goto(j, "notify")
    /\ UNCHANGED <<excepted, lapsed, issue, todo, at, target, fresh, ghosts,
                   found, plan, reports>>

-----------------------------------------------------------------------------
(* collect_dependencies and build_findings, which take minutes but touch   *)
(* nothing shared, and the queries of upsert.                              *)
Collect(j) ==
    /\ Enter(j, "commit")
    /\ \E keys \in SUBSET {k \in Keys : RepoOf[k] \in Scope[j]} : Read(j, keys)
    /\ UNCHANGED <<tables, issue, todo, at, target, fresh, showing, givenUp,
                   faults, reports>>

UpsertCommit(j) ==
    /\ pc[j] = "commit"
    /\ upsert(j)
    /\ reports' = [k \in Keys |-> reports[k] +
                                  (IF k \in plan[j].insert THEN 1 ELSE 0)]
    /\ plan' = [plan EXCEPT ![j] = NoPlan]
    /\ Goto(j, "resolve")
    /\ UNCHANGED <<excepted, lapsed, found, issue, todo, at, target, ghosts>>

(* The findings a scan resolves: unresolved rows that are not among its    *)
(* records -- of every repository in the daily crawl, of repositories      *)
(* under repo_owner_prefix in a user's scan.                               *)
resolvable(j, k) == /\ row[k] = "open" /\ k \notin found[j]
                    /\ j \in UserScans => RepoOf[k] \in Scope[j]

(* resolve_stale, a transaction of its own; it returns the repositories it *)
(* resolved something in, which only the daily crawl uses.                 *)
ResolveStale(j) ==
    /\ pc[j] = "resolve"
    /\ LET gone == {k \in Keys : resolvable(j, k)}
       IN  /\ resolve(gone)
           /\ todo' = [todo EXCEPT ![j] = IF j \in Dailies THEN ReposOf(gone) ELSE {}]
    /\ found' = [found EXCEPT ![j] = {}]
    /\ Goto(j, IF j \in Dailies THEN "drop" ELSE "notify")
    /\ UNCHANGED <<excepted, lapsed, issue, at, target, fresh, givenUp,
                   overlapped, faults, plan, reports>>

(* An error of the database, a conflict, or an error of the notifier that  *)
(* comes before the filing ends the run; what it had committed as new is   *)
(* never reported.                                                         *)
ExecuteFails(j) ==
    /\ \/ pc[j] = "commit" /\ Conflict(plan[j]) /\ UNCHANGED faults
       \/ pc[j] \in {"commit", "resolve", "drop", "notify"} /\ Fault
    /\ givenUp' = givenUp \union fresh[j]
    /\ End(j, "failed")
    /\ found' = [found EXCEPT ![j] = {}]
    /\ plan' = [plan EXCEPT ![j] = NoPlan]
    /\ UNCHANGED <<tables, issue, showing, overlapped, reports>>

(* drop_excepted, then on to closing the issues of the resolved            *)
(* repositories (CloseCheck ...).                                          *)
DropExcepted(j) ==
    /\ pc[j] = "drop"
    /\ fresh' = [fresh EXCEPT ![j] = drop_excepted(@)]
    /\ givenUp' = givenUp \union (fresh[j] \ drop_excepted(fresh[j]))
    /\ Goto(j, "close")
    /\ UNCHANGED <<tables, issue, todo, at, target, showing, overlapped, faults,
                   found, plan, reports>>

(* An error of the database while closing is swallowed; the session is     *)
(* unusable from here on, so delete_old_resolved fails as well.            *)
ClosingFails(j) ==
    /\ j \in Dailies
    /\ pc[j] = "close" /\ todo[j] # {}
    /\ Fault
    /\ todo' = [todo EXCEPT ![j] = {}]
    /\ Goto(j, "notify")
    /\ UNCHANGED <<tables, issue, at, target, fresh, showing, givenUp,
                   overlapped, found, plan, reports>>

(* delete_old_resolved: any of the resolved rows may be past the           *)
(* retention by now.  A failure is swallowed.                              *)
DeleteOldResolved(j) ==
    /\ j \in Dailies
    /\ pc[j] = "close" /\ todo[j] = {}
    /\ \/ \E old \in SUBSET {k \in Keys : row[k] = "resolved"} :
             /\ row' = [k \in Keys |-> IF k \in old THEN "absent" ELSE row[k]]
             /\ reports' = [k \in Keys |-> IF k \in old THEN 0 ELSE reports[k]]
             /\ UNCHANGED faults
       \/ Fault /\ UNCHANGED <<row, reports>>
    /\ Goto(j, "notify")
    /\ UNCHANGED <<excepted, lapsed, issue, todo, at, target, fresh, showing,
                   givenUp, overlapped, found, plan>>

(* after_success of the crawl (the success row is written by now); a       *)
(* user's scan files only for a user with a registered webhook.            *)
Notify(j) ==
    /\ pc[j] = "notify"
    /\ \/ /\ Goto(j, "file")
          /\ todo' = [todo EXCEPT ![j] = ReposOf(fresh[j])]
          /\ UNCHANGED <<at, target, fresh, givenUp>>
       \/ /\ j \in UserScans
          /\ End(j, "done")
          /\ givenUp' = givenUp \union fresh[j]
    /\ UNCHANGED <<tables, issue, showing, overlapped, faults, found, plan,
                   reports>>

FilingDone(j) ==
    /\ j \in Scans
    /\ pc[j] = "file" /\ todo[j] = {}
    /\ Goto(j, "done")
    /\ UNCHANGED <<tables, issue, todo, at, target, fresh, ghosts, found, plan,
                   reports>>

(* Every scan has been used and no thread is running.                      *)
Terminating ==
    /\ \A j \in Scans : pc[j] # "idle"
    /\ \A j \in Jobs : ~InFlight(j)
    /\ UNCHANGED vars

Next ==
    \/ \E j \in Scans :
          \/ Collect(j) \/ UpsertCommit(j) \/ ResolveStale(j)
          \/ ExecuteFails(j) \/ DropExcepted(j) \/ ClosingFails(j)
          \/ DeleteOldResolved(j) \/ Notify(j) \/ FilingDone(j)
    \/ (ReporterStep \/ Restart) /\ UNCHANGED reports
    \/ Terminating

Spec == Init /\ [][Next]_vars

-----------------------------------------------------------------------------
(* Between two deletions of a finding at most one scan takes it for new,   *)
(* however the scans interleave and however often it is resolved and found *)
(* again: nobody is told of it twice.                                      *)
ReportedOnce == \A k \in Keys : reports[k] <= 1

(* The scan of one user leaves the findings in the repositories of all     *)
(* others as they are (the parameter repo_owner_prefix of sync).           *)
UserScanStaysHome ==
    [][ \A j \in UserScans, k \in Keys :
            pc[j] # pc'[j] /\ row[k] # row'[k] => RepoOf[k] \in Scope[j] ]_vars

(* The same of every scan.                                                 *)
OnlyOwnersResolve ==
    [][ \A j \in Scans, k \in Keys :
            pc[j] # pc'[j] /\ row[k] = "open" /\ row'[k] = "resolved"
                => RepoOf[k] \in Scope[j] ]_vars

(* README.md: once the findings of a repository are seen to be resolved,   *)
(* its issue is closed -- at the latest by the next daily crawl, if no     *)
(* call failed and no two threads ran at the same time.                    *)
ResolvedIssueIsClosed ==
    \A j \in Dailies, n \in DOMAIN issue :
        /\ pc[j] = "notify" /\ ~overlapped /\ faults = 0
        /\ issue[n].open /\ issue[n].repo \in Scope[j]
        => unresolved(issue[n].repo) # {}
=============================================================================
