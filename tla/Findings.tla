------------------------------ MODULE Findings ------------------------------
(***************************************************************************)
(* What DEPSCAN and CODESCAN share: a table of findings with the same      *)
(* upsert and the same retention (depscan/repository.py and, alike,        *)
(* codescan/repository.py), the exceptions people attach to findings       *)
(* (finding_exceptions), and the GitHub issue per repository that shows    *)
(* what is unresolved (core/findings/issue_filing.py,                      *)
(* core/github/repo.py).                                                   *)
(*                                                                         *)
(* Every thread (a scan, a background task of the exceptions API, the      *)
(* exception lifecycle) alternates database transactions with GitHub       *)
(* calls, and nothing keeps two threads apart: each step below is one      *)
(* transaction or one call.  Depscan and Codescan extend this module with  *)
(* their scans.                                                            *)
(***************************************************************************)
EXTENDS Integers, Sequences, FiniteSets, FiniteSetsExt

CONSTANTS Keys,        \* identities of findings (the upsert key)
          Repos,
          RepoOf,      \* the repository of a finding
          ExcKeys,     \* identities of exceptions (kind, repo, finding_key)
          ExcOf,       \* key_of_finding: the exception that covers a finding
          AdminRepos,  \* is_admin_repo: owned by GITHUB_USERNAME
          Dailies,     \* threads: the daily crawls,
          UserScans,   \* the scans of one user's own repositories,
          Accepts,     \* the requests that register an exception
          Ends,        \* and those that end one (revoked, expired, fix out)
          Scope,       \* the repositories of a scan's owner
          MaxParallel, \* bound: threads in flight at a time
          MaxFaults    \* bound: failed calls and restarts

ASSUME KeysAssumption == /\ RepoOf \in [Keys -> Repos]
                         /\ ExcOf \in [Keys -> ExcKeys]
                         /\ AdminRepos \subseteq Repos
ASSUME JobsAssumption == /\ Dailies \intersect UserScans = {}
                         /\ Accepts \intersect Ends = {}
                         /\ (Dailies \union UserScans) \intersect (Accepts \union Ends) = {}
                         /\ Scope \in [Dailies \union UserScans -> SUBSET Repos]
                         /\ MaxParallel \in Nat
                         /\ MaxFaults \in Nat

Scans == Dailies \union UserScans
Tasks == Accepts \union Ends
Jobs == Scans \union Tasks

VARIABLES row,         \* the findings table: no row, unresolved, resolved
          excepted,    \* exceptions that are active
          lapsed,      \* exceptions past expires_at but not yet ended
          issue,       \* the issues of this title: number -> its repository,
                       \* whether it is open, the findings it lists
          found,       \* the records a scan has built
          plan,        \* what its open transaction inserts and reopens
          pc,          \* the stage of each thread
          todo,        \* repositories a thread still has to scan, file or close
          at,          \* the repository, or exception, a thread works on
          target,      \* the issue number a thread has found (0: none)
          fresh,       \* new_snapshots: the findings a thread is yet to file
          showing,     \* ghost: filed, and unresolved and in no exception since
          givenUp,     \* ghost: new findings whose report was lost or waived
          overlapped,  \* ghost: two threads were once in flight together
          faults       \* ghost: how many calls failed, or restarts happened

tables  == <<row, excepted, lapsed>>
scans   == <<found, plan>>
threads == <<pc, todo, at, target, fresh>>
ghosts  == <<showing, givenUp, overlapped, faults>>

Issues == [repo : Repos, open : BOOLEAN, listed : SUBSET Keys]

FindingsTypeOK ==
    /\ row \in [Keys -> {"absent", "open", "resolved"}]
    /\ excepted \in SUBSET ExcKeys
    /\ lapsed \in SUBSET ExcKeys
    /\ issue \in Seq(Issues)
    /\ found \in [Scans -> SUBSET Keys]
    /\ plan \in [Scans -> [insert : SUBSET Keys, reopen : SUBSET Keys]]
    /\ DOMAIN pc = Jobs
    /\ todo \in [Jobs -> SUBSET Repos]
    /\ at \in [Jobs -> Repos \union ExcKeys \union {"none"}]
    /\ target \in [Jobs -> 0..Len(issue)]
    /\ fresh \in [Jobs -> SUBSET Keys]
    /\ showing \in SUBSET Keys
    /\ givenUp \in SUBSET Keys
    /\ overlapped \in BOOLEAN
    /\ faults \in 0..MaxFaults

NoPlan == [insert |-> {}, reopen |-> {}]

FindingsInit ==
    /\ row = [k \in Keys |-> "absent"]
    /\ excepted = {}
    /\ lapsed = {}
    /\ issue = <<>>
    /\ found = [j \in Scans |-> {}]
    /\ plan = [j \in Scans |-> NoPlan]
    /\ pc = [j \in Jobs |-> "idle"]
    /\ todo = [j \in Jobs |-> {}]
    /\ at = [j \in Jobs |-> "none"]
    /\ target = [j \in Jobs |-> 0]
    /\ fresh = [j \in Jobs |-> {}]
    /\ showing = {}
    /\ givenUp = {}
    /\ overlapped = FALSE
    /\ faults = 0

Over == {"idle", "done", "failed", "lost"}
InFlight(j) == pc[j] \notin Over

Goto(j, stage) == pc' = [pc EXCEPT ![j] = stage]

Enter(j, stage) ==
    /\ pc[j] = "idle"
    /\ Goto(j, stage)
    /\ LET others == {i \in Jobs : InFlight(i)}
       IN  /\ Cardinality(others) < MaxParallel
           /\ overlapped' = (overlapped \/ others # {})

Fault == faults < MaxFaults /\ faults' = faults + 1

(* A GitHub call about r fails; a token may lack the permission to write   *)
(* issues of repositories that are not the admin's.                        *)
CallFails(r) == Fault \/ (r \notin AdminRepos /\ UNCHANGED faults)

(* The work on one repository is over: the thread goes on to the others.   *)
NextRepo(j, r) ==
    /\ todo' = [todo EXCEPT ![j] = @ \ {r}]
    /\ at' = [at EXCEPT ![j] = "none"]
    /\ target' = [target EXCEPT ![j] = 0]

(* The thread is over, and its local variables with it.                    *)
End(j, stage) ==
    /\ Goto(j, stage)
    /\ todo' = [todo EXCEPT ![j] = {}]
    /\ at' = [at EXCEPT ![j] = "none"]
    /\ target' = [target EXCEPT ![j] = 0]
    /\ fresh' = [fresh EXCEPT ![j] = {}]

ReposOf(keys) == {RepoOf[k] : k \in keys}
In(r, keys) == {k \in keys : RepoOf[k] = r}
Excepted(k) == ExcOf[k] \in excepted

-----------------------------------------------------------------------------
(* Mutated forms, used only to show that the properties can fail.          *)

(* the exceptions are not taken out of the snapshots                       *)
KeepsExcepted(keys) == keys

(* no unique constraint                                                    *)
NoUniqueKey(p) == \E k \in p.reopen : row[k] = "absent"

(* the new snapshots of the last repository replace those before           *)
KeepsLastOnly(j) ==
    /\ \A k \in plan[j].insert : row[k] = "absent"
    /\ \A k \in plan[j].reopen : row[k] # "absent"
    /\ row' = [k \in Keys |-> IF k \in plan[j].insert \union plan[j].reopen
                              THEN "open" ELSE row[k]]
    /\ fresh' = [fresh EXCEPT ![j] = plan[j].insert]

(* a state the queries do not know                                         *)
ClosesRows(gone) ==
    /\ row' = [k \in Keys |-> IF k \in gone THEN "closed" ELSE row[k]]
    /\ showing' = showing \ gone

(* only what is not new counts as remaining                                *)
CountsOnlyListed(r) ==
    {k \in In(r, Keys) : /\ row[k] = "open" /\ ~Excepted(k)
                         /\ \A n \in DOMAIN issue : k \notin issue[n].listed}

(* the search looks for another title than the one issues are created with *)
OtherTitle(r) == 0

(* an error while closing ends the thread                                  *)
CloseErrorEscapes(j) ==
    /\ pc[j] \in {"closeFind", "closeWrite"}
    /\ CallFails(at[j])
    /\ End(j, "failed")
    /\ UNCHANGED <<tables, scans, issue, showing, givenUp, overlapped>>

-----------------------------------------------------------------------------
(* drop_excepted: new snapshots without those under an active exception.   *)
drop_excepted(keys) == {k \in keys : ~Excepted(k)}

(* unresolved_count > 0: what still needs attention in a repository.       *)
unresolved(r) == {k \in In(r, Keys) : row[k] = "open" /\ ~Excepted(k)}

(* The open issue with this title that GitHub lists first, or 0.           *)
find_open_issue(r) ==
    Max({0} \union {n \in DOMAIN issue : issue[n].repo = r /\ issue[n].open})

-----------------------------------------------------------------------------
(* The findings table.                                                     *)

(* The queries of upsert: which of the records have no row, which have a   *)
(* resolved one.  The rows read as unresolved stay as they are.            *)
Read(j, keys) ==
    /\ found' = [found EXCEPT ![j] = keys]
    /\ plan' = [plan EXCEPT ![j] =
          [insert |-> {k \in keys : row[k] = "absent"},
           reopen |-> {k \in keys : row[k] = "resolved"}]]

(* The flush fails when another transaction has inserted one of the rows   *)
(* (the unique constraint) or deleted one of the rows to update.           *)
Conflict(p) == \/ \E k \in p.insert : row[k] # "absent"
               \/ \E k \in p.reopen : row[k] = "absent"

(* upsert commits; what it inserted are the new snapshots, and a finding   *)
(* that comes back is not among them.                                      *)
upsert(j) ==
    /\ ~Conflict(plan[j])
    /\ row' = [k \in Keys |-> IF k \in plan[j].insert \union plan[j].reopen
                              THEN "open" ELSE row[k]]
    /\ fresh' = [fresh EXCEPT ![j] = @ \union plan[j].insert]

(* resolve_stale: the unresolved rows in scope that are not among the      *)
(* records.                                                                *)
resolve(gone) ==
    /\ row' = [k \in Keys |-> IF k \in gone THEN "resolved" ELSE row[k]]
    /\ showing' = showing \ gone

-----------------------------------------------------------------------------
(* file_or_update_repo_issues: for each repository, look for the open      *)
(* issue, then comment on it or create one.                                *)

FileFind(j, r) ==
    /\ pc[j] = "file" /\ r \in todo[j]
    /\ Goto(j, "fileWrite")
    /\ at' = [at EXCEPT ![j] = r]
    /\ target' = [target EXCEPT ![j] = find_open_issue(r)]
    /\ UNCHANGED <<tables, scans, issue, todo, fresh, ghosts>>

Filed(j) == In(at[j], fresh[j])

FileWrite(j) ==
    /\ pc[j] = "fileWrite"
    /\ IF target[j] = 0
       THEN issue' = Append(issue, [repo |-> at[j], open |-> TRUE,
                                    listed |-> Filed(j)])
       ELSE issue' = [issue EXCEPT ![target[j]].listed = @ \union Filed(j)]
    /\ showing' = showing \union {k \in Filed(j) : row[k] = "open" /\ ~Excepted(k)}
    /\ fresh' = [fresh EXCEPT ![j] = @ \ Filed(j)]
    /\ NextRepo(j, at[j])
    /\ Goto(j, "file")
    /\ UNCHANGED <<tables, scans, givenUp, overlapped, faults>>

(* An HTTP error is swallowed for this repository and the next one goes on.*)
(* (A call whose answer alone is lost has the effect of one that succeeds: *)
(* the only difference is the line in the log.)                            *)
FileFails(j, r) ==
    /\ \/ pc[j] = "file" /\ r \in todo[j]
       \/ pc[j] = "fileWrite" /\ r = at[j]
    /\ CallFails(r)
    /\ givenUp' = givenUp \union In(r, fresh[j])
    /\ fresh' = [fresh EXCEPT ![j] = @ \ In(r, @)]
    /\ NextRepo(j, r)
    /\ Goto(j, "file")
    /\ UNCHANGED <<tables, scans, issue, showing, overlapped>>

(* IssueReporter.close_resolved: for each candidate repository, count what *)
(* is unresolved, look for the open issue, comment and close it.           *)

CloseCheck(j, r) ==
    /\ pc[j] = "close" /\ r \in todo[j]
    /\ IF unresolved(r) = {}
       THEN /\ Goto(j, "closeFind")
            /\ at' = [at EXCEPT ![j] = r]
            /\ UNCHANGED todo
       ELSE /\ todo' = [todo EXCEPT ![j] = @ \ {r}]
            /\ UNCHANGED <<pc, at>>
    /\ UNCHANGED <<tables, scans, issue, target, fresh, ghosts>>

CloseFind(j) ==
    /\ pc[j] = "closeFind"
    /\ IF find_open_issue(at[j]) = 0
       THEN NextRepo(j, at[j]) /\ Goto(j, "close")
       ELSE /\ target' = [target EXCEPT ![j] = find_open_issue(at[j])]
            /\ Goto(j, "closeWrite")
            /\ UNCHANGED <<todo, at>>
    /\ UNCHANGED <<tables, scans, issue, fresh, ghosts>>

CloseWrite(j) ==
    /\ pc[j] = "closeWrite"
    /\ issue' = [issue EXCEPT ![target[j]].open = FALSE]
    /\ NextRepo(j, at[j])
    /\ Goto(j, "close")
    /\ UNCHANGED <<tables, scans, fresh, ghosts>>

CloseFails(j) ==
    /\ pc[j] \in {"closeFind", "closeWrite"}
    /\ CallFails(at[j])
    /\ NextRepo(j, at[j])
    /\ Goto(j, "close")
    /\ UNCHANGED <<tables, scans, issue, fresh, showing, givenUp, overlapped>>

-----------------------------------------------------------------------------
(* Exceptions.  FindingExceptions has the rows and their races; here an    *)
(* exception is active, past its date, or gone.                            *)

(* POST /api/exceptions: the row is committed, then a background task      *)
(* closes the issue if nothing is left (admin's repositories only).        *)
create_exception(j, k) ==
    /\ row[k] # "absent"
    /\ excepted' = excepted \union {ExcOf[k]}
    /\ showing' = {q \in showing : ExcOf[q] # ExcOf[k]}
    /\ Enter(j, IF RepoOf[k] \in AdminRepos THEN "close" ELSE "done")
    /\ todo' = [todo EXCEPT ![j] = {RepoOf[k]} \intersect AdminRepos]
    /\ UNCHANGED <<row, lapsed, scans, issue, at, target, fresh, givenUp, faults>>

(* An exception reaches its expires_at: from now on it excepts nothing.    *)
Lapse(e) ==
    /\ e \in excepted
    /\ excepted' = excepted \ {e}
    /\ lapsed' = lapsed \union {e}
    /\ UNCHANGED <<row, scans, issue, threads, ghosts>>

(* DELETE /api/exceptions, or the daily lifecycle: the end is committed,   *)
(* and the findings are read for filing again in a later transaction.      *)
end_exception(j, e) ==
    /\ \/ e \in lapsed /\ lapsed' = lapsed \ {e} /\ UNCHANGED excepted
       \/ e \in excepted /\ excepted' = excepted \ {e} /\ UNCHANGED lapsed
    /\ \/ /\ \E k \in Keys : ExcOf[k] = e /\ RepoOf[k] \in AdminRepos
          /\ Enter(j, "refile")
          /\ at' = [at EXCEPT ![j] = e]
       \/ /\ \A k \in Keys : ExcOf[k] = e => RepoOf[k] \notin AdminRepos
          /\ Enter(j, "done")
          /\ UNCHANGED at
    /\ UNCHANGED <<row, scans, issue, todo, target, fresh, showing, givenUp, faults>>

(* refile_issues: the unresolved findings of the ended exception.          *)
refile_issues(j) ==
    /\ pc[j] = "refile"
    /\ LET again == {k \in Keys : ExcOf[k] = at[j] /\ row[k] = "open"}
       IN  /\ fresh' = [fresh EXCEPT ![j] = again]
           /\ todo' = [todo EXCEPT ![j] = ReposOf(again)]
    /\ Goto(j, "file")
    /\ at' = [at EXCEPT ![j] = "none"]
    /\ UNCHANGED <<tables, scans, issue, target, ghosts>>

(* A background task of the exceptions API or of the lifecycle is over.    *)
TaskDone(j) ==
    /\ pc[j] \in {"close", "file"} /\ todo[j] = {}
    /\ Goto(j, "done")
    /\ UNCHANGED <<tables, scans, issue, todo, at, target, fresh, ghosts>>

(* An error of the database is swallowed with the rest of the task.        *)
TaskFails(j) ==
    /\ \/ pc[j] = "refile"
       \/ pc[j] = "close" /\ todo[j] # {}
    /\ Fault
    /\ End(j, "failed")
    /\ UNCHANGED <<tables, scans, issue, showing, givenUp, overlapped>>

(* The process restarts: every thread is gone, and with it what it was     *)
(* still to file.                                                          *)
Restart ==
    /\ Fault
    /\ \E j \in Jobs : InFlight(j)
    /\ pc' = [j \in Jobs |-> IF InFlight(j) THEN "lost" ELSE pc[j]]
    /\ givenUp' = givenUp \union UNION {fresh[j] : j \in Jobs}
    /\ todo' = [j \in Jobs |-> {}]
    /\ at' = [j \in Jobs |-> "none"]
    /\ target' = [j \in Jobs |-> 0]
    /\ fresh' = [j \in Jobs |-> {}]
    /\ found' = [j \in Scans |-> {}]
    /\ plan' = [j \in Scans |-> NoPlan]
    /\ UNCHANGED <<tables, issue, showing, overlapped>>

ReporterStep ==
    \/ \E j \in Jobs :
          \/ \E r \in Repos : FileFind(j, r) \/ FileFails(j, r) \/ CloseCheck(j, r)
          \/ FileWrite(j)
          \/ CloseFind(j) \/ CloseWrite(j) \/ CloseFails(j)
    \/ \E j \in Accepts, k \in Keys : create_exception(j, k)
    \/ \E j \in Ends, e \in ExcKeys : end_exception(j, e)
    \/ \E j \in Tasks : refile_issues(j) \/ TaskDone(j) \/ TaskFails(j)
    \/ \E e \in ExcKeys : Lapse(e)

-----------------------------------------------------------------------------
(* What the issue of a repository is for.                                  *)

(* A finding that was put into the issue, and has needed attention ever    *)
(* since, is in an open issue: nothing this code does hides it -- provided *)
(* no two threads ran at the same time.  (The count, the search and the    *)
(* close are three steps: with an overlap a finding filed between them is  *)
(* closed away.)                                                           *)
ShownWhileUnresolved ==
    ~overlapped =>
        \A k \in showing : \E n \in DOMAIN issue :
            issue[n].open /\ k \in issue[n].listed

(* docs/slack-notifications.md: one open issue per repository, always.     *)
(* The search and the creation are two calls: it takes threads that do not *)
(* overlap.                                                                *)
OneOpenIssue ==
    ~overlapped =>
        \A n, m \in DOMAIN issue :
            issue[n].open /\ issue[m].open /\ issue[n].repo = issue[m].repo => n = m

(* Every row of the table has once been listed in an issue, is about to    *)
(* be, or is known to have been given up: by a failed call, a failed or    *)
(* lost scan, an exception, or for want of a webhook.                      *)
NewFindingsAccountedFor ==
    \A k \in Keys : row[k] # "absent" =>
        \/ k \in givenUp
        \/ \E n \in DOMAIN issue : k \in issue[n].listed
        \/ \E j \in Jobs : k \in fresh[j]
=============================================================================
