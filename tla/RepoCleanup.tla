------------------------------ MODULE RepoCleanup ------------------------------
(***************************************************************************)
(* What is kept of repositories that left the list (jobs/repo_cleanup.py), *)
(* beside the scan that keeps it: a scan lists the repositories, writes    *)
(* the rows of each and files issues there; the cleanup looks for rows of  *)
(* repositories that are not listed and removes them if the repository is  *)
(* gone, or, if it is excluded from scans, after closing its issues.       *)
(***************************************************************************)
EXTENDS Integers, FiniteSets

CONSTANTS Homes,        \* repositories of the account
          MaxChanges,   \* bound: changes on GitHub and of SCAN_EXCLUDE_REPOS
          MaxRefusals   \* bound: failed calls and commits, crashes

ASSUME CleanupAssumption == MaxChanges \in Nat /\ MaxRefusals \in Nat

Titles == {"CODESCAN", "DEPSCAN"}   \* ISSUE_TITLE of each

VARIABLES
    github,       \* of each: listed, unlisted (archived), renamed or gone
    excluded,     \* SCAN_EXCLUDE_REPOS
    rows,         \* repositories with rows in any of the five tables
    issues,       \* open issues of ours: <<repository, title>>
    scan_left,    \* repositories the scan has listed and not stored
    to_file,      \* those it has stored and not filed issues for
    sweep,        \* where the cleanup is
    current,      \* its current_repo_full_names
    candidates,   \* its candidates, from the one at hand on
    to_close,     \* titles still to be looked for in an excluded one
    changes, refusals,
    faded         \* ghost: repositories whose last row went, other than by the cleanup, while
                  \* an issue was open

scan == <<scan_left, to_file>>
cleanupVars == <<github, excluded, rows, issues, scan, sweep, current, candidates, to_close,
                 changes, refusals, faded>>

CleanupTypeOK ==
    /\ github \in [Homes -> {"listed", "unlisted", "renamed", "gone"}]
    /\ excluded \subseteq Homes /\ rows \subseteq Homes
    /\ issues \subseteq Homes \X Titles
    /\ scan_left \subseteq Homes /\ to_file \subseteq Homes
    /\ sweep \in {"idle", "listed", "checking", "closing", "purging"}
    /\ current \subseteq Homes /\ candidates \subseteq Homes
    /\ to_close \subseteq Titles
    /\ changes \in 0..MaxChanges /\ refusals \in 0..MaxRefusals
    /\ faded \subseteq Homes

CleanupInit ==
    /\ github = [h \in Homes |-> "listed"] /\ excluded = {} /\ rows = {} /\ issues = {}
    /\ scan_left = {} /\ to_file = {} /\ sweep = "idle"
    /\ current = {} /\ candidates = {} /\ to_close = {}
    /\ changes = 0 /\ refusals = 0 /\ faded = {}

list_target_repos == {h \in Homes : github[h] = "listed" /\ h \notin excluded}

(* GitHubRepo.exists: what the redirect of a renamed one means is left     *)
(* open, as is a failed call.                                              *)
exists(h) == CASE github[h] = "gone" -> {"no"}
               [] github[h] = "renamed" -> {"unclear"}
               [] OTHER -> {"yes"}

-----------------------------------------------------------------------------
(* Mutated form, used only to show that the property can fail: the rows of *)
(* an excluded repository go whether or not its issues could be closed.    *)
PurgesAnyway(closed) == "purging"

-----------------------------------------------------------------------------
Changes == changes < MaxChanges /\ changes' = changes + 1
Refused == refusals < MaxRefusals /\ refusals' = refusals + 1

(* The owner archives, renames, deletes: the issues of a deleted           *)
(* repository go with it.                                                  *)
Change(h, state) ==
    /\ github[h] \notin {"gone", state} /\ Changes
    /\ github' = [github EXCEPT ![h] = state]
    /\ issues' = IF state = "gone" THEN {i \in issues : i[1] # h} ELSE issues
    /\ UNCHANGED <<excluded, rows, scan, sweep, current, candidates, to_close, refusals, faded>>

Ends == /\ scan_left' = {} /\ to_file' = {}
        /\ sweep' = "idle" /\ current' = {} /\ candidates' = {} /\ to_close' = {}

(* SCAN_EXCLUDE_REPOS is read at the start of the process.                 *)
Exclude(h) ==
    /\ Changes
    /\ excluded' = IF h \in excluded THEN excluded \ {h} ELSE excluded \union {h}
    /\ Ends
    /\ UNCHANGED <<github, rows, issues, refusals, faded>>

CleanupCrash == Refused /\ Ends /\ UNCHANGED <<github, excluded, rows, issues, changes, faded>>

-----------------------------------------------------------------------------
(* The scan: rows of a repository are committed before issues are filed.   *)
ScanLists ==
    /\ scan_left = {} /\ to_file = {} /\ scan_left' = list_target_repos
    /\ UNCHANGED <<github, excluded, rows, issues, to_file, sweep, current, candidates, to_close,
                   changes, refusals, faded>>

ScanWrites(h, found) ==
    /\ h \in scan_left /\ scan_left' = scan_left \ {h}
    /\ rows' = rows \union found /\ to_file' = to_file \union found
    /\ faded' = faded \ found
    /\ UNCHANGED <<github, excluded, issues, sweep, current, candidates, to_close, changes,
                   refusals>>

(* The last row of a repository goes: resolved findings by retention       *)
(* (delete_old_resolved), requests of Dependabot likewise, dependencies    *)
(* and runtimes as a scan replaces them by nothing.  What is to be filed   *)
(* is unresolved and stays.                                                *)
RowsFade(h) ==
    /\ h \in rows \ to_file /\ rows' = rows \ {h}
    /\ faded' = IF \E i \in issues : i[1] = h THEN faded \union {h} ELSE faded
    /\ UNCHANGED <<github, excluded, issues, scan, sweep, current, candidates, to_close, changes,
                   refusals>>

(* file_issues: nothing is filed where the repository is no more, and a    *)
(* failed call is only logged.                                             *)
ScanFiles(h, titles) ==
    /\ h \in to_file /\ to_file' = to_file \ {h}
    /\ issues' = IF github[h] = "gone" THEN issues ELSE issues \union ({h} \X titles)
    /\ UNCHANGED <<github, excluded, rows, scan_left, sweep, current, candidates, to_close, changes,
                   refusals, faded>>

-----------------------------------------------------------------------------
Sweeps(from, to) == sweep = from /\ sweep' = to

(* run_repo_cleanup, and for registered accounts run_user_crawls_...: the  *)
(* list of repositories comes first,                                       *)
SweepLists ==
    /\ Sweeps("idle", "listed") /\ current' = list_target_repos
    /\ UNCHANGED <<github, excluded, rows, issues, scan, candidates, to_close, changes,
                   refusals, faded>>

(* _find_known_repos next.                                                 *)
FindKnown ==
    /\ Sweeps("listed", "checking") /\ candidates' = rows \ current
    /\ UNCHANGED <<github, excluded, rows, issues, scan, current, to_close, changes, refusals,
                   faded>>

(* The candidates go by name; that is the order of any choice here.        *)
at_hand == CHOOSE h \in candidates : TRUE

Next_one == candidates' = candidates \ {at_hand} /\ sweep' = "checking"

CheckExists(answer) ==
    /\ sweep = "checking" /\ candidates # {} /\ at_hand \notin excluded
    /\ \/ answer \in exists(at_hand) /\ UNCHANGED refusals
       \/ answer = "unclear" /\ Refused
    /\ IF answer = "no" THEN sweep' = "purging" /\ UNCHANGED candidates ELSE Next_one
    /\ UNCHANGED <<github, excluded, rows, issues, scan, current, to_close, changes, faded>>

MeetExcluded ==
    /\ sweep = "checking" /\ candidates # {} /\ at_hand \in excluded
    /\ sweep' = "closing" /\ to_close' = Titles
    /\ UNCHANGED <<github, excluded, rows, issues, scan, current, candidates, changes,
                   refusals, faded>>

after_closing(closed) == IF closed THEN "purging" ELSE "checking"

(* _close_issues_for_excluded_repo, a title at a time, goes through where  *)
(* the repository answers to its name and, archived, needs no change.      *)
answers(h, title) == \/ github[h] = "listed"
                     \/ github[h] = "unlisted" /\ <<h, title>> \notin issues

CloseIssue(title, ok) ==
    /\ sweep = "closing" /\ title \in to_close
    /\ ok => answers(at_hand, title)
    /\ IF ok \/ ~answers(at_hand, title) THEN UNCHANGED refusals ELSE Refused
    /\ issues' = IF ok THEN issues \ {<<at_hand, title>>} ELSE issues
    /\ to_close' = IF ok THEN to_close \ {title} ELSE {}
    /\ IF to_close' # {} THEN UNCHANGED <<sweep, candidates>>
       ELSE /\ sweep' = after_closing(ok)
            /\ candidates' = IF sweep' = "checking" THEN candidates \ {at_hand} ELSE candidates
    /\ UNCHANGED <<github, excluded, rows, scan, current, changes, faded>>

(* _purge_repo_data: the five tables in one commit.                        *)
Purge ==
    /\ sweep = "purging" /\ Next_one
    /\ rows' = rows \ {at_hand}
    /\ UNCHANGED <<github, excluded, issues, scan, current, to_close, changes, refusals, faded>>

SweepEnds ==
    /\ sweep = "checking" /\ candidates = {} /\ sweep' = "idle" /\ current' = {}
    /\ UNCHANGED <<github, excluded, rows, issues, scan, candidates, to_close, changes,
                   refusals, faded>>

(* A call or a commit raises: the error is logged and raised again.        *)
SweepFails ==
    /\ sweep # "idle" /\ Refused
    /\ sweep' = "idle" /\ current' = {} /\ candidates' = {} /\ to_close' = {}
    /\ UNCHANGED <<github, excluded, rows, issues, scan, changes, faded>>

CleanupNext ==
    \/ CleanupCrash \/ ScanLists
    \/ \E h \in Homes :
          \/ Exclude(h) \/ RowsFade(h)
          \/ \E state \in {"listed", "unlisted", "renamed", "gone"} : Change(h, state)
          \/ \E found \in SUBSET {h} : ScanWrites(h, found)
          \/ \E titles \in SUBSET Titles : ScanFiles(h, titles)
    \/ SweepLists \/ FindKnown \/ MeetExcluded \/ Purge \/ SweepEnds \/ SweepFails
    \/ \E answer \in {"yes", "no", "unclear"} : CheckExists(answer)
    \/ \E title \in Titles, ok \in BOOLEAN : CloseIssue(title, ok)

CleanupSpec == CleanupInit /\ [][CleanupNext]_cleanupVars

-----------------------------------------------------------------------------
(* The cleanup orphans no issue.  Where one of ours is open there are rows *)
(* left, by which a later cleanup finds the repository, unless retention   *)
(* or a replacement took the last of them; for what the cleanup purges is  *)
(* gone, or is excluded and has no open issue: issues of an excluded one   *)
(* are closed before its rows go, and its rows stay when one could not be  *)
(* (_close_issues_for_excluded_repo).  The excuse is real: an issue that a *)
(* scan left open over resolved findings (a closing that failed, or never  *)
(* came, as ResolvedIssueIsClosed shows) loses its rows after the          *)
(* retention and is then out of the cleanup's sight.                       *)
NoOrphanIssue ==
    /\ \A i \in issues : i[1] \in rows \union faded
    /\ sweep = "purging" => \/ github[at_hand] = "gone"
                            \/ at_hand \in excluded /\ \A i \in issues : i[1] # at_hand
=============================================================================
