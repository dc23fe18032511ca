------------------------------- MODULE Depsops -------------------------------
(***************************************************************************)
(* DEPSOPS: the open pull requests of Dependabot are judged; what is safe  *)
(* is merged, the rest flagged for a human (depsops/runner.py,             *)
(* pr_judge.py), and at the end of the run what became of each is recorded *)
(* (pr_log_repository.py) and the records are tidied                       *)
(* (pr_log_retention.py).  A run of the administrator's and one of a       *)
(* registered user's may look at the same repository.                      *)
(***************************************************************************)
EXTENDS Integers, FiniteSets

CONSTANTS OpsRepos, Numbers,   \* repositories, and pull requests in each
          Bumps,          \* what classify_bump may say of a title
          DailyOps, UserOps,   \* runs: of run_dependabot_ops, and of run_dependabot_ops_for_user
          LogRetention,   \* DEPSOPS_RETENTION_DAYS, in the unit of the clock
          LastStart,      \* bound: no run starts later
          MaxSlips        \* bound: failed calls and commits, restarts

ASSUME DepsopsAssumption == /\ DailyOps \intersect UserOps = {}
                            /\ Bumps \subseteq {"minor_or_patch", "major", "unknown"}
                            /\ LogRetention \in Nat /\ LastStart \in Nat /\ MaxSlips \in Nat

Pulls == OpsRepos \X Numbers
Ops == DailyOps \union UserOps

VARIABLES
    bump, ci,         \* classify_bump of each title; repositories with workflows
    pull,             \* each pull request: absent, open, merged or closed
    mergeable,        \* its mergeable_state: clean, dirty or something else
    logged,           \* DependabotPrLog: the rows of each pull request
    opsClock,         \* moves on when a run starts and when a user's run records
    op,               \* where each run is
    began,            \* its started_at
    repos_left,       \* repositories it has still to process
    to_judge,         \* pull requests it has listed and not judged
    to_merge,         \* the one it is about to merge, at most
    merged, flagged, resolved,   \* what it has to record; flagged: <<pull, reason>>
    slips,
    mergedAt,         \* ghost: when the run began that merged it and heard of it; 0: none did
    unrecorded,       \* ghost: those whose run then failed
    sharedPulls,      \* ghost: pull requests one run had in hand while another was under way
    stale             \* ghost: pull requests settled since a run last listed them

opsRun == <<began, repos_left, to_judge, to_merge, merged, flagged, resolved>>
opsVars == <<bump, ci, pull, mergeable, logged, opsClock, op, opsRun, slips, mergedAt, unrecorded,
             sharedPulls, stale>>

Reasons == {"rebase", "no CI", "major", "unknown", "unclear"}
Row(action, reason, at) == [action |-> action, reason |-> reason, processed_at |-> at]
Rows == [action : {"merged", "flagged"}, reason : Reasons \union {""}, processed_at : Nat]

DepsopsTypeOK ==
    /\ bump \in [Pulls -> Bumps] /\ ci \subseteq OpsRepos
    /\ pull \in [Pulls -> {"absent", "open", "merged", "closed"}]
    /\ mergeable \in [Pulls -> {"clean", "dirty", "unclear"}]
    /\ logged \in [Pulls -> SUBSET Rows]
    /\ opsClock \in Nat
    /\ op \in [Ops -> {"idle", "scanning", "recording", "tidying", "telling"}]
    /\ began \in [Ops -> 0..LastStart]
    /\ repos_left \in [Ops -> SUBSET OpsRepos]
    /\ {to_judge, to_merge, merged, resolved} \subseteq [Ops -> SUBSET Pulls]
    /\ flagged \in [Ops -> SUBSET (Pulls \X Reasons)]
    /\ slips \in 0..MaxSlips
    /\ mergedAt \in [Pulls -> 0..LastStart]
    /\ unrecorded \union sharedPulls \union stale \subseteq Pulls

Nothing == [o \in Ops |-> {}]

DepsopsInit ==
    /\ bump \in [Pulls -> Bumps] /\ ci \in SUBSET OpsRepos
    /\ pull = [p \in Pulls |-> "absent"] /\ mergeable = [p \in Pulls |-> "clean"]
    /\ logged = [p \in Pulls |-> {}]
    /\ opsClock = 0
    /\ op = [o \in Ops |-> "idle"] /\ began = [o \in Ops |-> 0]
    /\ repos_left = Nothing /\ to_judge = Nothing /\ to_merge = Nothing
    /\ merged = Nothing /\ flagged = Nothing /\ resolved = Nothing
    /\ slips = 0 /\ mergedAt = [p \in Pulls |-> 0]
    /\ unrecorded = {} /\ sharedPulls = {} /\ stale = {}

Open(p) == pull[p] = "open"

(* The row with the latest processed_at; no two rows have the same.        *)
latest(rows) == CHOOSE i \in rows : \A j \in rows \ {i} : j.processed_at < i.processed_at

latest_action(p) == IF logged[p] = {} THEN "none" ELSE latest(logged[p]).action

-----------------------------------------------------------------------------
(* Mutated form, used only to show that the property can fail: what is no  *)
(* longer open is resolved, whatever its last row says.                    *)
ResolvesMerged(r, open) == {p \in Pulls : p[1] = r /\ p \notin open /\ logged[p] # {}}

-----------------------------------------------------------------------------
(* GitHub: Dependabot opens, rebases and closes; humans merge; checks run. *)
OpenPull(p) ==
    /\ pull[p] = "absent"
    /\ pull' = [pull EXCEPT ![p] = "open"]
    /\ UNCHANGED <<bump, ci, mergeable, logged, opsClock, op, opsRun, slips, mergedAt, unrecorded,
                   sharedPulls, stale>>

SettleOutside(p) ==
    /\ Open(p)
    /\ pull' = [pull EXCEPT ![p] = "closed"] /\ stale' = stale \union {p}
    /\ UNCHANGED <<bump, ci, mergeable, logged, opsClock, op, opsRun, slips, mergedAt, unrecorded,
                   sharedPulls>>

Recheck(p, state) ==
    /\ Open(p) /\ mergeable[p] # state
    /\ mergeable' = [mergeable EXCEPT ![p] = state]
    /\ UNCHANGED <<bump, ci, pull, logged, opsClock, op, opsRun, slips, mergedAt, unrecorded,
                   sharedPulls, stale>>

Slip == slips < MaxSlips /\ slips' = slips + 1

Moves(o, from, to) == op[o] = from /\ op' = [op EXCEPT ![o] = to]

InHand(o) == to_judge[o] \union to_merge[o] \union merged[o] \union resolved[o]
             \union {f[1] : f \in flagged[o]}

StartOps(o) ==
    /\ opsClock < LastStart /\ opsClock' = opsClock + 1
    /\ Moves(o, "idle", "scanning")
    /\ began' = [began EXCEPT ![o] = opsClock + 1]
    /\ repos_left' = [repos_left EXCEPT ![o] = OpsRepos]
    /\ sharedPulls' = sharedPulls \union UNION {InHand(q) : q \in Ops \ {o}}
    /\ UNCHANGED <<bump, ci, pull, mergeable, logged, to_judge, to_merge, merged, flagged,
                   resolved, slips, mergedAt, unrecorded, stale>>

(* find_resolved_flagged                                                   *)
find_resolved_flagged(r, open) ==
    {p \in Pulls : p[1] = r /\ p \notin open /\ latest_action(p) = "flagged"}

(* _process_repo up to its loop, and the loop's end of the one before: the *)
(* open pull requests are listed and the flagged ones that are not among   *)
(* them are found.  A failed list costs the repository.                    *)
ListPulls(o, r, ok) ==
    /\ op[o] = "scanning" /\ to_judge[o] = {} /\ to_merge[o] = {} /\ r \in repos_left[o]
    /\ repos_left' = [repos_left EXCEPT ![o] = @ \ {r}]
    /\ LET open == {p \in Pulls : p[1] = r /\ Open(p)}
           gone == find_resolved_flagged(r, open)
       IN  \/ /\ ok /\ UNCHANGED slips
              /\ to_judge' = [to_judge EXCEPT ![o] = open]
              /\ resolved' = [resolved EXCEPT ![o] = @ \union gone]
              /\ sharedPulls' = sharedPulls \union
                   {p \in open \union gone : \E q \in Ops \ {o} : op[q] # "idle"}
              /\ stale' = stale \ {p \in Pulls : p[1] = r /\ ~\E q \in Ops \ {o} : p \in InHand(q)}
           \/ ~ok /\ Slip /\ UNCHANGED <<to_judge, resolved, sharedPulls, stale>>
    /\ UNCHANGED <<bump, ci, pull, mergeable, logged, opsClock, op, began, to_merge, merged,
                   flagged, mergedAt, unrecorded>>

(* PrJudge.judge: why a pull request is not merged; of a dirty one a       *)
(* rebase is asked for.                                                    *)
reasons(p) ==
    IF mergeable[p] = "dirty" THEN {"rebase"}
    ELSE IF p[1] \notin ci THEN {"no CI"}
    ELSE IF bump[p] # "minor_or_patch" THEN {bump[p]}
    ELSE IF mergeable[p] # "clean" THEN {"unclear"}
    ELSE {}

Judge(o, p, ok) ==
    /\ p \in to_judge[o] /\ to_merge[o] = {}
    /\ to_judge' = [to_judge EXCEPT ![o] = @ \ {p}]
    /\ \/ /\ ok /\ UNCHANGED slips
          /\ flagged' = [flagged EXCEPT ![o] = @ \union ({p} \X reasons(p))]
          /\ to_merge' = [to_merge EXCEPT ![o] = IF reasons(p) = {} THEN {p} ELSE {}]
       \/ ~ok /\ Slip /\ UNCHANGED <<flagged, to_merge>>
    /\ UNCHANGED <<bump, ci, pull, mergeable, logged, opsClock, op, began, repos_left, merged,
                   resolved, mergedAt, unrecorded, sharedPulls, stale>>

(* merge_pull_request: GitHub refuses what is dirty or no longer open; the *)
(* run may not hear of a merge, and tries again in vain: in either case it *)
(* counts an error.                                                        *)
Merge(o, p, heard) ==
    /\ p \in to_merge[o]
    /\ to_merge' = [to_merge EXCEPT ![o] = {}]
    /\ LET merges == Open(p) /\ mergeable[p] # "dirty"
       IN  /\ pull' = IF merges THEN [pull EXCEPT ![p] = "merged"] ELSE pull
           /\ merged' = IF merges /\ heard THEN [merged EXCEPT ![o] = @ \union {p}] ELSE merged
           /\ mergedAt' = IF merges /\ heard THEN [mergedAt EXCEPT ![p] = began[o]] ELSE mergedAt
           /\ stale' = IF merges /\ ~heard THEN stale \union {p} ELSE stale
    /\ IF heard THEN UNCHANGED slips ELSE Slip
    /\ UNCHANGED <<bump, ci, mergeable, logged, opsClock, op, began, repos_left, to_judge, flagged,
                   resolved, unrecorded, sharedPulls>>

OpsScanned(o) ==
    /\ repos_left[o] = {} /\ to_judge[o] = {} /\ to_merge[o] = {}
    /\ Moves(o, "scanning", "recording")
    /\ UNCHANGED <<bump, ci, pull, mergeable, logged, opsClock, opsRun, slips, mergedAt, unrecorded,
                   sharedPulls, stale>>

(* record, for one pull request: a row for a merge; for a flag a row, or a *)
(* new date on the last row if that says the same; no rows once resolved.  *)
recorded(p, o, at) ==
    LET rows == logged[p] \union {Row("merged", "", at) : q \in merged[o] \intersect {p}}
        why  == {f[2] : f \in {f \in flagged[o] : f[1] = p}}
        last == latest(rows)
        same == rows # {} /\ last.action = "flagged" /\ last.reason \in why
    IN  IF p \in resolved[o] THEN {}
        ELSE IF same THEN (rows \ {last}) \union {Row("flagged", last.reason, at)}
        ELSE IF why = {} THEN rows
        ELSE rows \union {Row("flagged", CHOOSE w \in why : TRUE, at)}

(* PrLogRepository.record: one commit.  The administrator's rows have the  *)
(* time the run began, a user's the time they are recorded.  If it fails   *)
(* the run goes on without.                                                *)
RecordLogs(o, ok) ==
    /\ Moves(o, "recording", IF ok THEN "tidying" ELSE "telling")
    /\ opsClock' = IF o \in UserOps THEN opsClock + 1 ELSE opsClock
    /\ \/ /\ ok /\ UNCHANGED <<slips, unrecorded>>
          /\ logged' = [p \in Pulls |->
                          recorded(p, o, IF o \in UserOps THEN opsClock' ELSE began[o])]
       \/ /\ ~ok /\ Slip
          /\ unrecorded' = unrecorded \union merged[o] \union resolved[o]
          /\ UNCHANGED logged
    /\ UNCHANGED <<bump, ci, pull, mergeable, opsRun, mergedAt, sharedPulls, stale>>

(* Of two successive rows that flag for the same reason the later stays.   *)
collapse_duplicate_flagged(rows) ==
    LET before(i) == {j \in rows : j.processed_at < i.processed_at}
        next(i, j) == i \in before(j) /\ before(j) \ before(i) = {i}
    IN  {i \in rows : ~\E j \in rows : /\ next(i, j)
                                       /\ i.action = "flagged" /\ j.action = "flagged"
                                       /\ i.reason = j.reason}

delete_expired(rows) == {i \in rows : i.processed_at >= opsClock - LogRetention}

(* PrLogRetention.cleanup; it too may fail without failing the run.        *)
TidyLogs(o, ok) ==
    /\ Moves(o, "tidying", "telling")
    /\ \/ /\ ok /\ UNCHANGED slips
          /\ logged' = [p \in Pulls |-> delete_expired(collapse_duplicate_flagged(logged[p]))]
       \/ ~ok /\ Slip /\ UNCHANGED logged
    /\ UNCHANGED <<bump, ci, pull, mergeable, opsClock, opsRun, mergedAt, unrecorded,
                   sharedPulls, stale>>

OpsEnd(o) ==
    /\ to_judge' = [to_judge EXCEPT ![o] = {}] /\ to_merge' = [to_merge EXCEPT ![o] = {}]
    /\ merged' = [merged EXCEPT ![o] = {}] /\ flagged' = [flagged EXCEPT ![o] = {}]
    /\ resolved' = [resolved EXCEPT ![o] = {}] /\ repos_left' = [repos_left EXCEPT ![o] = {}]

(* notify_dependabot_ops, and the end.                                     *)
OpsDone(o) ==
    /\ Moves(o, "telling", "idle")
    /\ OpsEnd(o)
    /\ UNCHANGED <<bump, ci, pull, mergeable, logged, opsClock, began, slips, mergedAt, unrecorded,
                   sharedPulls, stale>>

(* has_ci_workflows raises, or the database does, or the process stops:    *)
(* nothing of the run is recorded.                                         *)
OpsFails(o) ==
    /\ op[o] \in {"scanning", "recording"} /\ Slip
    /\ op' = [op EXCEPT ![o] = "idle"]
    /\ unrecorded' = unrecorded \union merged[o] \union resolved[o]
    /\ OpsEnd(o)
    /\ UNCHANGED <<bump, ci, pull, mergeable, logged, opsClock, began, mergedAt, sharedPulls,
                   stale>>

OpsHorizon == opsClock >= LastStart /\ UNCHANGED opsVars

DepsopsNext ==
    \/ \E p \in Pulls : \/ OpenPull(p) \/ SettleOutside(p)
                        \/ \E state \in {"clean", "dirty", "unclear"} : Recheck(p, state)
    \/ \E o \in Ops : \/ StartOps(o) \/ OpsScanned(o) \/ OpsDone(o) \/ OpsFails(o)
                      \/ \E ok \in BOOLEAN :
                           \/ RecordLogs(o, ok) \/ TidyLogs(o, ok)
                           \/ \E r \in OpsRepos : ListPulls(o, r, ok)
                           \/ \E p \in Pulls : Judge(o, p, ok) \/ Merge(o, p, ok)
    \/ OpsHorizon

-----------------------------------------------------------------------------
(* The records agree with GitHub.  A merge that a run made and heard of    *)
(* has its row until it expires, the retention after that run, and is not  *)
(* taken for one that somebody else resolved; and a pull request that is   *)
(* shown as needing attention is open, or was when a run last listed it.   *)
(* Excepted are runs that failed after merging, and pull requests that one *)
(* run had in hand while another was under way (record,                    *)
(* find_resolved_flagged): the administrator's rows have the time the run  *)
(* began, and may come before a user's that are older.                     *)
LogMatchesGitHub ==
    \A p \in Pulls \ (unrecorded \union sharedPulls) :
        (\A o \in Ops : p \notin InHand(o)) =>
            /\ mergedAt[p] # 0 => \/ \E row \in logged[p] : row.action = "merged"
                                  \/ mergedAt[p] < opsClock - LogRetention
            /\ latest_action(p) = "flagged" => Open(p) \/ p \in stale
=============================================================================
