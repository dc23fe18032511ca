------------------------------ MODULE Codescan ------------------------------
(***************************************************************************)
(* CODESCAN: the daily crawl (codescan/crawler.py) and the scan of a       *)
(* registered user's repositories (codescan/user_scan.py).  Both go        *)
(* through the owner's repositories one by one: fetch the sources, run     *)
(* every tool over them, write what was found, resolve what was not.  New  *)
(* findings are filed, and issues closed, once all are done.               *)
(*                                                                         *)
(* A tool either reports everything it can find in the sources, or fails   *)
(* (time-out, unreadable output, OSError) and is remembered as failed, or  *)
(* -- the tools in SilentTools -- fails and is taken to have found nothing:*)
(* semgrep and gitleaks run with check=False and read no output as [].     *)
(***************************************************************************)
EXTENDS Findings

CONSTANTS Tools, ToolOf,   \* the scanners, and the one that finds a finding
          SilentTools      \* those whose failure may look like no finding

ASSUME ToolsAssumption == /\ ToolOf \in [Keys -> Tools]
                          /\ SilentTools \subseteq Tools

VARIABLES failed,      \* failed_tools of the repository a scan works on
          fullyDone,   \* fully_scanned: no tool failed
          missed       \* ghost: what tools that failed would have found in
                       \* the sources a scan has fetched so far

tools == <<failed, fullyDone, missed>>

vars == <<tables, scans, issue, threads, ghosts, tools>>

CodescanTypeOK ==
    /\ FindingsTypeOK
    /\ \A j \in Jobs : pc[j] \in
          {"idle", "scan", "commit", "resolve", "drop",
           "refile", "file", "fileWrite", "close", "closeFind", "closeWrite",
           "done", "failed", "lost"}
    /\ failed \in [Scans -> SUBSET Tools]
    /\ fullyDone \in [Scans -> SUBSET Repos]
    /\ missed \in [Scans -> SUBSET Keys]

Init ==
    /\ FindingsInit
    /\ failed = [j \in Scans |-> {}]
    /\ fullyDone = [j \in Scans |-> {}]
    /\ missed = [j \in Scans |-> {}]

-----------------------------------------------------------------------------
(* Mutated forms, used only to show that the properties can fail.          *)

(* failed_tools is not passed on to resolve_stale                          *)
ResolvesUnscanned(j, k) ==
    row[k] = "open" /\ RepoOf[k] = at[j] /\ k \notin found[j]

(* every repository that was scanned counts                                *)
CountsPartlyScanned(j) == {at[j]}

-----------------------------------------------------------------------------
(* list_target_repos.                                                      *)
Begin(j) ==
    /\ j \in Scans
    /\ Enter(j, "scan")
    /\ todo' = [todo EXCEPT ![j] = Scope[j]]
    /\ UNCHANGED <<tables, scans, issue, at, target, fresh, showing, givenUp,
                   faults, tools>>

(* scan_repo: the records are what the tools report of the sources, those  *)
(* that fail left out; then the queries of upsert.                         *)
scan_repo(j, r) ==
    /\ pc[j] = "scan" /\ r \in todo[j]
    /\ \E here \in SUBSET In(r, Keys),
          failing \in SUBSET Tools, silent \in SUBSET SilentTools :
          LET lost == {k \in here : ToolOf[k] \in failing \union silent}
          IN  /\ IF failing \union silent = {} THEN UNCHANGED faults ELSE Fault
              /\ Read(j, here \ lost)
              /\ missed' = [missed EXCEPT ![j] = @ \union lost]
              /\ failed' = [failed EXCEPT ![j] = failing]
    /\ at' = [at EXCEPT ![j] = r]
    /\ Goto(j, "commit")
    /\ UNCHANGED <<tables, issue, todo, target, fresh, showing, givenUp,
                   overlapped, fullyDone>>

(* SCAN_ERRORS: the sources cannot be fetched or unpacked; the next        *)
(* repository goes on.                                                     *)
SkipRepo(j, r) ==
    /\ pc[j] = "scan" /\ r \in todo[j]
    /\ Fault
    /\ NextRepo(j, r)
    /\ UNCHANGED <<tables, scans, issue, pc, fresh, showing, givenUp,
                   overlapped, tools>>

UpsertCommit(j) ==
    /\ pc[j] = "commit"
    /\ upsert(j)
    /\ Goto(j, "resolve")
    /\ UNCHANGED <<excepted, lapsed, scans, issue, todo, at, target, ghosts,
                   tools>>

(* resolve_stale looks at one repository, and leaves out the findings of   *)
(* the tools that failed.                                                  *)
resolvable(j, k) == /\ row[k] = "open" /\ RepoOf[k] = at[j]
                    /\ ToolOf[k] \notin failed[j]
                    /\ k \notin found[j]

(* The repository counts as fully scanned if no tool failed.               *)
fully_scanned(j) == IF failed[j] = {} THEN {at[j]} ELSE {}

(* resolve_stale commits.  Only the daily crawl goes on to drop_excepted.  *)
ResolveStale(j) ==
    /\ pc[j] = "resolve"
    /\ resolve({k \in Keys : resolvable(j, k)})
    /\ fullyDone' = [fullyDone EXCEPT ![j] = @ \union fully_scanned(j)]
    /\ found' = [found EXCEPT ![j] = {}]
    /\ failed' = [failed EXCEPT ![j] = {}]
    /\ \/ /\ j \in Dailies
          /\ Goto(j, "drop")
          /\ UNCHANGED <<plan, todo, at, target>>
       \/ /\ j \in UserScans
          /\ Goto(j, "scan")
          /\ plan' = [plan EXCEPT ![j] = NoPlan]
          /\ NextRepo(j, at[j])
    /\ UNCHANGED <<excepted, lapsed, issue, fresh, givenUp, overlapped, faults,
                   missed>>

(* drop_excepted, of the new snapshots of this repository.                 *)
DropExcepted(j) ==
    /\ pc[j] = "drop"
    /\ LET new  == plan[j].insert
           gone == new \ drop_excepted(new)
       IN  /\ fresh' = [fresh EXCEPT ![j] = @ \ gone]
           /\ givenUp' = givenUp \union gone
    /\ plan' = [plan EXCEPT ![j] = NoPlan]
    /\ NextRepo(j, at[j])
    /\ Goto(j, "scan")
    /\ UNCHANGED <<tables, found, issue, showing, overlapped, faults, tools>>

(* An error that is none of SCAN_ERRORS -- a conflict, a lost database --  *)
(* ends the whole run: what earlier repositories brought is not reported.  *)
ExecuteFails(j) ==
    /\ j \in Scans
    /\ \/ pc[j] = "commit" /\ Conflict(plan[j]) /\ UNCHANGED faults
       \/ pc[j] \in {"scan", "commit", "resolve", "drop"} /\ Fault
    /\ givenUp' = givenUp \union fresh[j]
    /\ End(j, "failed")
    /\ found' = [found EXCEPT ![j] = {}]
    /\ plan' = [plan EXCEPT ![j] = NoPlan]
    /\ failed' = [failed EXCEPT ![j] = {}]
    /\ fullyDone' = [fullyDone EXCEPT ![j] = {}]
    /\ missed' = [missed EXCEPT ![j] = {}]
    /\ UNCHANGED <<tables, issue, showing, overlapped>>

(* delete_old_resolved, then the filing.  An error is swallowed, but the   *)
(* session is unusable from here on: counting what is unresolved will fail *)
(* too, and no issue is closed.                                            *)
DeleteOldResolved(j) ==
    /\ j \in Dailies
    /\ pc[j] = "scan" /\ todo[j] = {}
    /\ \/ /\ \E old \in SUBSET {k \in Keys : row[k] = "resolved"} :
                row' = [k \in Keys |-> IF k \in old THEN "absent" ELSE row[k]]
          /\ UNCHANGED <<faults, fullyDone>>
       \/ /\ Fault
          /\ fullyDone' = [fullyDone EXCEPT ![j] = {}]
          /\ UNCHANGED row
    /\ Goto(j, "file")
    /\ todo' = [todo EXCEPT ![j] = ReposOf(fresh[j])]
    /\ UNCHANGED <<excepted, lapsed, scans, issue, at, target, fresh, showing,
                   givenUp, overlapped, failed, missed>>

(* A user's scan goes on only for a user with a registered webhook.        *)
NotifyUser(j) ==
    /\ j \in UserScans
    /\ pc[j] = "scan" /\ todo[j] = {}
    /\ \/ /\ Goto(j, "file")
          /\ todo' = [todo EXCEPT ![j] = ReposOf(fresh[j])]
          /\ UNCHANGED <<at, target, fresh, givenUp, fullyDone, missed>>
       \/ /\ End(j, "done")
          /\ givenUp' = givenUp \union fresh[j]
          /\ fullyDone' = [fullyDone EXCEPT ![j] = {}]
          /\ missed' = [missed EXCEPT ![j] = {}]
    /\ UNCHANGED <<tables, scans, issue, showing, overlapped, faults, failed>>

FilingDone(j) ==
    /\ j \in Scans
    /\ pc[j] = "file" /\ todo[j] = {}
    /\ Goto(j, "close")
    /\ todo' = [todo EXCEPT ![j] = fullyDone[j]]
    /\ UNCHANGED <<tables, scans, issue, at, target, fresh, ghosts, tools>>

(* The closing is over, or an error of the database has ended it.          *)
ClosingDone(j) ==
    /\ j \in Scans
    /\ pc[j] = "close"
    /\ \/ todo[j] = {} /\ UNCHANGED faults
       \/ todo[j] # {} /\ Fault
    /\ End(j, "done")
    /\ fullyDone' = [fullyDone EXCEPT ![j] = {}]
    /\ missed' = [missed EXCEPT ![j] = {}]
    /\ UNCHANGED <<tables, scans, issue, showing, givenUp, overlapped, failed>>

(* Every scan has been used and no thread is running.                      *)
Terminating ==
    /\ \A j \in Scans : pc[j] # "idle"
    /\ \A j \in Jobs : ~InFlight(j)
    /\ UNCHANGED vars

Next ==
    \/ \E j \in Scans :
          \/ Begin(j)
          \/ \E r \in Repos : scan_repo(j, r) \/ SkipRepo(j, r)
          \/ UpsertCommit(j) \/ ResolveStale(j) \/ DropExcepted(j)
          \/ ExecuteFails(j) \/ DeleteOldResolved(j)
          \/ NotifyUser(j) \/ FilingDone(j) \/ ClosingDone(j)
    \/ ReporterStep /\ UNCHANGED tools
    \/ /\ Restart
       /\ failed' = [j \in Scans |-> {}]
       /\ fullyDone' = [j \in Scans |-> {}]
       /\ missed' = [j \in Scans |-> {}]
    \/ Terminating

Spec == Init /\ [][Next]_vars

-----------------------------------------------------------------------------
(* What a scan resolves was not in the sources it fetched: the ScanRecords *)
(* docstring, that the findings of a failed tool "were not inspected" and  *)
(* must not be resolved.                                                   *)
OnlyAbsentIsResolved ==
    [][ \A j \in Scans, k \in Keys :
            pc[j] # pc'[j] /\ row[k] = "open" /\ row'[k] = "resolved"
                => k \notin found[j] \union missed[j] ]_vars

(* A scan that meets no other thread closes the issue of a repository only *)
(* if nothing that a tool failed to report is there, but what is excepted  *)
(* (the comment on fully_scanned).                                         *)
ClosedOnlyWhenClean ==
    [][ \A j \in Scans :
            pc[j] = "close" /\ pc'[j] = "closeFind" /\ ~overlapped
                => \A k \in In(at'[j], missed[j]) : Excepted(k) ]_vars

(* What is excepted is not filed by the daily crawl, even if it is a new   *)
(* finding under an exception given to another line of the same file and   *)
(* rule (the comment on drop_excepted; matching.code_key).                 *)
NothingExceptedIsFiled ==
    [][ \A j \in Dailies :
            pc[j] = "fileWrite" /\ issue' # issue /\ pc'[j] = "file" /\ ~overlapped
                => \A k \in Filed(j) : ~Excepted(k) ]_vars
=============================================================================
