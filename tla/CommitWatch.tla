----------------------------- MODULE CommitWatch -----------------------------
(***************************************************************************)
(* COMMITWATCH (commit_watch/crawler.py): for every repository the job     *)
(* keeps the SHA up to which it has looked, compares it with the head, and *)
(* tells the administrator of commits that are not routine and of history  *)
(* that was rewritten.  The SHA is committed repository by repository; the *)
(* message is sent once, at the end of the run.                            *)
(*                                                                         *)
(* Commits are numbered in the order of their creation and know their      *)
(* parent.  A branch may be pushed to and forced at any moment, and a      *)
(* commit no branch leads to may be deleted by GitHub.                     *)
(***************************************************************************)
EXTENDS Integers, FiniteSets

CONSTANTS WatchedRepos,
          Authored,       \* what a commit may be like; see is_trusted and the next two
          MaxCommits,     \* _MAX_COMMITS
          RequireSignature, \* COMMITWATCH_REQUIRE_SIGNATURE
          MaxPushed,      \* bound: commits
          MaxTroubles     \* bound: failed calls, lost messages and restarts

ASSUME CommitWatchAssumption ==
    /\ Authored \subseteq {"own", "unsigned", "stranger", "risky", "incomplete"}
    /\ MaxCommits \in Nat \ {0} /\ MaxPushed \in Nat /\ MaxTroubles \in Nat
    /\ RequireSignature \in BOOLEAN

VARIABLES
    parent, authored,  \* the commits pushed so far; a root has parent 0
    head,              \* the head of each default branch; 0: an empty repository
    deleted,           \* commits GitHub no longer has
    last_sha,          \* CommitWatchState of each repository; 0: no row
    watch,             \* the run: idle, scanning, sending
    unwatched,         \* repositories it has still to look at
    looking,           \* the repository it is looking at, and the head it read
    alerts,            \* what it has to tell
    troubles,
    told,              \* ghost: what the administrator was told
    untold,            \* ghost: repositories something found was lost of, with a run or a message
    firstSha           \* ghost: the first SHA recorded for each

watchVars == <<parent, authored, head, deleted, last_sha, watch, unwatched, looking, alerts,
               troubles, told, untold, firstSha>>

Pushed == DOMAIN parent
NoLook == [repo |-> "none", sha |-> 0]
AlertKinds == {"commit", "history_rewritten", "truncated"}
AlertsOver(shas) == [kind : AlertKinds, repo : WatchedRepos, sha : shas]

CommitWatchTypeOK ==
    /\ Pushed \subseteq 1..MaxPushed
    /\ authored \in [Pushed -> Authored] /\ \A c \in Pushed : parent[c] \in 0..(c - 1)
    /\ head \in [WatchedRepos -> Pushed \union {0}] /\ deleted \subseteq Pushed
    /\ last_sha \in [WatchedRepos -> Pushed \union {0}]
    /\ watch \in {"idle", "scanning", "sending"}
    /\ unwatched \subseteq WatchedRepos
    /\ looking = NoLook \/ looking \in [repo : WatchedRepos, sha : Pushed]
    /\ alerts \union told \subseteq AlertsOver(Pushed) /\ untold \subseteq WatchedRepos
    /\ troubles \in 0..MaxTroubles
    /\ firstSha \in [WatchedRepos -> Pushed \union {0}]

CommitWatchInit ==
    /\ parent = <<>> /\ authored = <<>>
    /\ head = [r \in WatchedRepos |-> 0] /\ deleted = {}
    /\ last_sha = [r \in WatchedRepos |-> 0]
    /\ watch = "idle" /\ unwatched = {} /\ looking = NoLook /\ alerts = {}
    /\ troubles = 0 /\ told = {} /\ untold = {}
    /\ firstSha = [r \in WatchedRepos |-> 0]

-----------------------------------------------------------------------------
(* What a commit leads to, itself included.                                *)
History(c) ==
    LET up[d \in Pushed \union {0}] == IF d = 0 THEN {} ELSE {d} \union up[parent[d]]
    IN  up[c]

(* is_trusted, find_risky_changes and is_incomplete (analysis.py)          *)
is_trusted(c) == /\ authored[c] # "stranger"
                 /\ RequireSignature => authored[c] # "unsigned"

find_risky_changes(c) == authored[c] = "risky"

is_incomplete(c) == authored[c] = "incomplete"

(* inspect_repo passes over routine commits.                               *)
routine(c) == is_trusted(c) /\ ~find_risky_changes(c) /\ ~is_incomplete(c)

(* The first commits of a comparison, oldest first.                        *)
FirstOf(cs) == {c \in cs : Cardinality({d \in cs : d < c}) < MaxCommits}

(* Mutated form, used only to show that the property can fail: what the    *)
(* limit cuts off is not mentioned.                                        *)
NothingBeyond(since) == FALSE

(* total_commits is larger than the number of commits looked at.           *)
beyond_limit(since) == FirstOf(since) # since

(* compare's status is behind or diverged.                                 *)
rewritten(base, h) == base \notin History(h)

(* inspect_repo: what there is to tell of the way from base to head.       *)
inspect_repo(r, base, h) ==
    LET since == History(h) \ History(base)
        about(kind, cs) == {[kind |-> kind, repo |-> r, sha |-> c] : c \in cs}
    IN  IF rewritten(base, h) THEN about("history_rewritten", {h})
        ELSE about("commit", {c \in FirstOf(since) : ~routine(c)})
             \union about("truncated", {c \in {h} : beyond_limit(since)})

-----------------------------------------------------------------------------
(* GitHub: a commit on top of the branch, or of anything before it.        *)
Push(r, like) ==
    LET new == Cardinality(Pushed) + 1
    IN  /\ new <= MaxPushed
        /\ \E under \in History(head[r]) \union {0} :
             /\ under \notin deleted
             /\ parent' = [c \in 1..new |-> IF c = new THEN under ELSE parent[c]]
        /\ authored' = [c \in 1..new |-> IF c = new THEN like ELSE authored[c]]
        /\ head' = [head EXCEPT ![r] = new]
        /\ UNCHANGED <<deleted, last_sha, watch, unwatched, looking, alerts, troubles, told,
                       untold, firstSha>>

(* ... or back, or across, to a commit that is there already.              *)
Reset(r, c) ==
    /\ c # head[r] /\ History(c) \intersect deleted = {}
    /\ head' = [head EXCEPT ![r] = c]
    /\ UNCHANGED <<parent, authored, deleted, last_sha, watch, unwatched, looking, alerts,
                   troubles, told, untold, firstSha>>

Delete(c) ==
    /\ c \notin deleted
    /\ \A r \in WatchedRepos : c \notin History(head[r])
    /\ deleted' = deleted \union {c}
    /\ UNCHANGED <<parent, authored, head, last_sha, watch, unwatched, looking, alerts, troubles,
                   told, untold, firstSha>>

-----------------------------------------------------------------------------
(* CrawlJob.run calls execute, which lists the repositories.               *)
Watch ==
    /\ watch = "idle"
    /\ watch' = "scanning" /\ unwatched' = WatchedRepos
    /\ UNCHANGED <<parent, authored, head, deleted, last_sha, looking, alerts, troubles, told,
                   untold, firstSha>>

(* _head_sha; an empty repository is passed over: GitHub's 409 makes       *)
(* request_with_retry raise, and the loop goes on.                         *)
head_sha(r) ==
    /\ watch = "scanning" /\ looking = NoLook /\ r \in unwatched
    /\ unwatched' = unwatched \ {r}
    /\ looking' = IF head[r] = 0 THEN NoLook ELSE [repo |-> r, sha |-> head[r]]
    /\ UNCHANGED <<parent, authored, head, deleted, last_sha, watch, alerts, troubles, told,
                   untold, firstSha>>

(* The repository's turn of execute: with no row the head is recorded,     *)
(* with an unchanged one nothing is asked; otherwise what inspect_repo     *)
(* finds is kept, and the row committed.  GitHub answers 404 for a base or *)
(* a head it has deleted; request_with_retry raises it, and the repository *)
(* is passed over as for any other failed call.                            *)
CompareAndCommit ==
    LET r == looking.repo
        h == looking.sha
        base == last_sha[r]
        asks == base # 0 /\ base # h
    IN  /\ looking # NoLook
        /\ looking' = NoLook
        /\ \/ /\ asks => {base, h} \intersect deleted = {}
              /\ alerts' = alerts \union (IF asks THEN inspect_repo(r, base, h) ELSE {})
              /\ last_sha' = [last_sha EXCEPT ![r] = h]
              /\ firstSha' = [firstSha EXCEPT ![r] = IF base = 0 THEN h ELSE @]
           \/ /\ asks /\ {base, h} \intersect deleted # {}
              /\ UNCHANGED <<alerts, last_sha, firstSha>>
        /\ UNCHANGED <<parent, authored, head, deleted, watch, unwatched, troubles, told, untold>>

Trouble == troubles < MaxTroubles /\ troubles' = troubles + 1

(* Another failed call: the repository is passed over.                     *)
CallFails ==
    /\ looking # NoLook
    /\ looking' = NoLook
    /\ Trouble
    /\ UNCHANGED <<parent, authored, head, deleted, last_sha, watch, unwatched, alerts, told,
                   untold, firstSha>>

(* CrawlJob.run has logged the success; after_success comes next.          *)
Scanned ==
    /\ watch = "scanning" /\ unwatched = {} /\ looking = NoLook
    /\ watch' = "sending"
    /\ UNCHANGED <<parent, authored, head, deleted, last_sha, unwatched, looking, alerts,
                   troubles, told, untold, firstSha>>

(* after_success: a message that fails is not sent again.                  *)
SendAlerts(ok) ==
    /\ watch = "sending"
    /\ watch' = "idle" /\ alerts' = {}
    /\ \/ ok /\ told' = told \union alerts /\ UNCHANGED <<untold, troubles>>
       \/ ~ok /\ Trouble /\ untold' = untold \union {a.repo : a \in alerts} /\ UNCHANGED told
    /\ UNCHANGED <<parent, authored, head, deleted, last_sha, unwatched, looking, firstSha>>

(* A database error leaves execute, or the process is restarted.           *)
RunLost ==
    /\ watch # "idle" /\ Trouble
    /\ watch' = "idle" /\ unwatched' = {} /\ looking' = NoLook
    /\ alerts' = {} /\ untold' = untold \union {a.repo : a \in alerts}
    /\ UNCHANGED <<parent, authored, head, deleted, last_sha, told, firstSha>>

CommitWatchHorizon == watch = "idle" /\ UNCHANGED watchVars

CommitWatchNext ==
    \/ \E r \in WatchedRepos : head_sha(r) \/ \E like \in Authored : Push(r, like)
    \/ \E c \in Pushed : Delete(c) \/ \E r \in WatchedRepos : Reset(r, c)
    \/ Watch \/ CompareAndCommit \/ CallFails \/ Scanned
    \/ \E ok \in BOOLEAN : SendAlerts(ok)
    \/ RunLost \/ CommitWatchHorizon

CommitWatchSpec == CommitWatchInit /\ [][CommitWatchNext]_watchVars

-----------------------------------------------------------------------------
(* What the administrator has been told, or will be by the run under way.  *)
Found == alerts \union told

(* A commit is accounted for if it was named, or lies before a head of     *)
(* which it was said that history was rewritten or not all was checked.    *)
Accounted(r, c) == \E a \in Found : /\ a.repo = r
                                    /\ \/ a.kind = "commit" /\ a.sha = c
                                       \/ a.kind # "commit" /\ c \in History(a.sha)

(* The job never passes a commit in silence.  Whatever lies before the SHA *)
(* kept for a repository is routine, or accounted for, or was there before *)
(* the repository was first looked at (execute, inspect_repo): pushes and  *)
(* forced pushes between the calls, skipped repositories and the limit of  *)
(* a comparison do not hide one.  A lost message or run does, for what it  *)
(* was to tell is not found again.  What lies beyond that SHA is said      *)
(* nothing of: where the SHA is one that GitHub has deleted it stays, and  *)
(* the repository is never told of again, which the next property shows.   *)
NothingPassesUnseen ==
    \A r \in WatchedRepos \ untold : \A c \in History(last_sha[r]) :
        routine(c) \/ Accounted(r, c) \/ c \in History(firstSha[r])

(* A repository whose last SHA has vanished is told of as rewritten: that  *)
(* is what _compare and inspect_repo (commit_watch/crawler.py) say of a    *)
(* comparison GitHub answers with 404, and what the test of a rewritten    *)
(* history assumes.  It does not hold, for the call raises instead.        *)
VanishedIsTold ==
    [][LET r == looking.repo
       IN  CompareAndCommit /\ last_sha[r] \in deleted /\ looking.sha \notin deleted
             => \E a \in alerts' : a.repo = r /\ a.kind = "history_rewritten"]_watchVars
=============================================================================
