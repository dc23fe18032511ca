----------------------------- MODULE CrawlRunner -----------------------------
(***************************************************************************)
(* The life of one crawler type's runs: CrawlJob.run                       *)
(* (core/runner/crawler_runner.py), the crawler_logs row it leaves         *)
(* (crawler_logs/writer.py), and the two ways a run is started: the daily  *)
(* APScheduler job (jobs/scheduler_jobs.py) and a POST that starts a       *)
(* daemon thread (core/runner/background.py), sent by the GitHub Actions   *)
(* backup cron or by hand.                                                 *)
(*                                                                         *)
(* A run reads the clock and the log table, and only later writes its own  *)
(* row, so runs overlap; the process can be restarted under them.  What a  *)
(* run does to its own tables is the subject of Depscan and Codescan.      *)
(***************************************************************************)
EXTENDS Integers, FiniteSets

CONSTANTS Runs,          \* the calls of CrawlJob.run, one thread each
          Day,           \* time between two firings of the scheduler
          Window,        \* DUPLICATE_RUN_WINDOW
          MaxExec,       \* the longest a run takes from start to log row
          MaxClock,      \* bound: the clock stops here
          MaxPosts,      \* bound: runs started by a POST
          MaxIncidents   \* bound: failures, lost log rows and restarts

ASSUME TimesAssumption == /\ Day \in Nat \ {0}
                          /\ Window \in Nat
                          /\ MaxExec \in Nat
                          /\ MaxClock \in Nat
ASSUME BoundsAssumption == MaxPosts \in Nat /\ MaxIncidents \in Nat

VARIABLES clock,      \* now_utc()
          firedAt,    \* the last time the scheduler fired (or slept through)
          posts,      \* runs started by a POST so far
          stage,      \* where each run stands
          forced,     \* the runs called with force=True
          checkedAt,  \* when a run asked already_succeeded_recently
          startedAt,  \* started_at of a run
          log,        \* status of the run's crawler_logs row
          seen,       \* ghost: the successes recorded when a run asked
          incidents,  \* ghost: how many things went wrong so far
          incidentAt  \* ghost: when something last went wrong

trouble == <<incidents, incidentAt>>

runnerVars == <<clock, firedAt, posts, stage, forced, checkedAt, startedAt, log,
                seen, trouble>>

Stages == {"idle", "asking", "cleared", "executing", "executed", "failing",
           "reporting", "done", "skipped", "failed", "lost"}

InFlight == {"asking", "cleared", "executing", "executed", "failing",
             "reporting"}

Running(r) == stage[r] \in {"executing", "executed", "failing"}

RunnerTypeOK ==
    /\ clock \in Nat
    /\ firedAt \in Nat
    /\ posts \in Nat
    /\ stage \in [Runs -> Stages]
    /\ forced \in SUBSET Runs
    /\ checkedAt \in [Runs -> Nat]
    /\ startedAt \in [Runs -> Nat]
    /\ log \in [Runs -> {"none", "success", "error"}]
    /\ seen \in [Runs -> SUBSET Runs]
    /\ incidents \in Nat
    /\ incidentAt \in Nat

RunnerInit ==
    /\ clock = 1
    /\ firedAt = 0
    /\ posts = 0
    /\ stage = [r \in Runs |-> "idle"]
    /\ forced = {}
    /\ checkedAt = [r \in Runs |-> 0]
    /\ startedAt = [r \in Runs |-> 0]
    /\ log = [r \in Runs |-> "none"]
    /\ seen = [r \in Runs |-> {}]
    /\ incidents = 0
    /\ incidentAt = 0

Successes == {r \in Runs : log[r] = "success"}

-----------------------------------------------------------------------------
(* Mutated forms, used only to show that the properties can fail.          *)

(* an error row counts as a recent run                                     *)
AnyRowIsRecent(t) == \E q \in Runs : log[q] # "none" /\ startedAt[q] >= t - Window

(* the window as long as the interval between two daily runs               *)
WholeDayIsRecent(t) == \E q \in Successes : startedAt[q] >= t - Day

(* the same UTC date instead of the last hours                             *)
SameDateIsRecent(t) == \E q \in Successes : startedAt[q] \div Day = t \div Day

(* a status the readers of the table do not know                           *)
WritesOtherStatus(r, status) ==
    /\ log' = [log EXCEPT ![r] = IF status = "error" THEN "failed" ELSE status]
    /\ UNCHANGED trouble

-----------------------------------------------------------------------------
Incident ==
    /\ incidents < MaxIncidents
    /\ incidents' = incidents + 1
    /\ incidentAt' = clock

(* A success row of this type whose started_at lies within the window.     *)
already_succeeded_recently(t) ==
    \E q \in Successes : startedAt[q] >= t - Window

Due == clock % Day = 0 /\ firedAt # clock

(* The cron trigger: force is always False.                                *)
SchedulerFires(r) ==
    /\ Due
    /\ stage[r] = "idle"
    /\ firedAt' = clock
    /\ stage' = [stage EXCEPT ![r] = "asking"]
    /\ UNCHANGED <<clock, posts, forced, checkedAt, startedAt, log, seen,
                   trouble>>

(* POST /admin/...-crawl: the GitHub Actions cron, whenever GitHub gets to *)
(* it, or an operator, who may pass force=true.                            *)
Post(r, force) ==
    /\ posts < MaxPosts
    /\ stage[r] = "idle"
    /\ posts' = posts + 1
    /\ forced' = IF force THEN forced \union {r} ELSE forced
    /\ stage' = [stage EXCEPT ![r] = "asking"]
    /\ UNCHANGED <<clock, firedAt, checkedAt, startedAt, log, seen, trouble>>

(* The duplicate check at the top of run.                                  *)
Ask(r) ==
    /\ stage[r] = "asking"
    /\ stage' = [stage EXCEPT ![r] =
                IF r \notin forced /\ already_succeeded_recently(clock)
                THEN "skipped" ELSE "cleared"]
    /\ checkedAt' = [checkedAt EXCEPT ![r] = clock]
    /\ seen' = [seen EXCEPT ![r] = Successes]
    /\ UNCHANGED <<clock, firedAt, posts, forced, startedAt, log, trouble>>

(* An error of the database while asking leaves the run without a row.     *)
AskFails(r) ==
    /\ stage[r] = "asking"
    /\ Incident
    /\ stage' = [stage EXCEPT ![r] = "failed"]
    /\ UNCHANGED <<clock, firedAt, posts, forced, checkedAt, startedAt, log,
                   seen>>

Start(r) ==
    /\ stage[r] = "cleared"
    /\ stage' = [stage EXCEPT ![r] = "executing"]
    /\ startedAt' = [startedAt EXCEPT ![r] = clock]
    /\ UNCHANGED <<clock, firedAt, posts, forced, checkedAt, log, seen,
                   trouble>>

ExecuteReturns(r) ==
    /\ stage[r] = "executing"
    /\ stage' = [stage EXCEPT ![r] = "executed"]
    /\ UNCHANGED <<clock, firedAt, posts, forced, checkedAt, startedAt, log,
                   seen, trouble>>

ExecuteRaises(r) ==
    /\ stage[r] = "executing"
    /\ Incident
    /\ stage' = [stage EXCEPT ![r] = "failing"]
    /\ UNCHANGED <<clock, firedAt, posts, forced, checkedAt, startedAt, log,
                   seen>>

(* write_crawler_log in a session of its own; it swallows its exceptions,  *)
(* so the row may be missing and the run goes on all the same.             *)
write_crawler_log(r, status) ==
    \/ /\ log' = [log EXCEPT ![r] = status]
       /\ UNCHANGED trouble
    \/ Incident /\ UNCHANGED log

LogSuccess(r) ==
    /\ stage[r] = "executed"
    /\ write_crawler_log(r, "success")
    /\ stage' = [stage EXCEPT ![r] = "reporting"]
    /\ UNCHANGED <<clock, firedAt, posts, forced, checkedAt, startedAt, seen>>

LogError(r) ==
    /\ stage[r] = "failing"
    /\ write_crawler_log(r, "error")
    /\ stage' = [stage EXCEPT ![r] = "failed"]
    /\ UNCHANGED <<clock, firedAt, posts, forced, checkedAt, startedAt, seen>>

(* after_success runs outside the try: whether it returns or raises, the   *)
(* run is over and its success row stands.                                 *)
AfterSuccess(r) ==
    /\ stage[r] = "reporting"
    /\ stage' = [stage EXCEPT ![r] = "done"]
    /\ UNCHANGED <<clock, firedAt, posts, forced, checkedAt, startedAt, log,
                   seen, trouble>>

(* The process restarts: the threads are gone, a firing due at this very   *)
(* moment is missed (the job store is in memory).                          *)
RestartRuns ==
    /\ Incident
    /\ stage' = [r \in Runs |-> IF stage[r] \in InFlight THEN "lost" ELSE stage[r]]
    /\ firedAt' = clock
    /\ UNCHANGED <<clock, posts, forced, checkedAt, startedAt, log, seen>>

(* Time passes, but not past a firing that is due, not between a trigger   *)
(* and its duplicate check, and not past MaxExec of a run.                 *)
ClockTicks ==
    /\ clock < MaxClock
    /\ ~Due
    /\ \A r \in Runs : /\ stage[r] \notin {"asking", "cleared"}
                       /\ Running(r) => clock - startedAt[r] < MaxExec
    /\ clock' = clock + 1
    /\ UNCHANGED <<firedAt, posts, stage, forced, checkedAt, startedAt, log,
                   seen, trouble>>

(* The horizon of the model: nothing is left to do.                        *)
RunnerTerminates ==
    /\ clock = MaxClock
    /\ \A r \in Runs : stage[r] \notin InFlight
    /\ UNCHANGED runnerVars

RunnerNext ==
    \/ \E r \in Runs :
          \/ SchedulerFires(r)
          \/ \E force \in BOOLEAN : Post(r, force)
          \/ Ask(r) \/ AskFails(r) \/ Start(r)
          \/ ExecuteReturns(r) \/ ExecuteRaises(r)
          \/ LogSuccess(r) \/ LogError(r)
          \/ AfterSuccess(r)
    \/ RestartRuns
    \/ ClockTicks
    \/ RunnerTerminates

RunnerSpec == RunnerInit /\ [][RunnerNext]_runnerVars

-----------------------------------------------------------------------------
(* Two runs of one type, neither of them forced, that the log table kept  *)
(* apart: a run that asked after another's success had been recorded and   *)
(* went on to execute started more than the window after it.               *)
SuccessesSpaced ==
    \A r \in Runs \ forced : \A q \in seen[r] :
        startedAt[r] > 0 => startedAt[r] > startedAt[q] + Window

(* A run that failed, was lost, or lost its log row never makes a later    *)
(* run skip: whatever is skipped, a success started within the window      *)
(* before it stands in the table.                                          *)
SkippedOnlyForSuccess ==
    \A r \in Runs : stage[r] = "skipped" =>
        \E q \in Successes \ {r} : /\ stage[q] \in {"reporting", "done", "lost"}
                                  /\ startedAt[q] + Window >= checkedAt[r]

(* The last firing of the scheduler that has had the time to complete.     *)
LastSettledFiring == ((clock - MaxExec - 1) \div Day) * Day

(* Skipping duplicates never costs a day: every daily firing is covered by *)
(* a success no older than the window before it, unless something went     *)
(* wrong since; and a failed or lost run is made up for by the next        *)
(* firing (the delays the comment on DUPLICATE_RUN_WINDOW worries about).  *)
StaysFresh ==
    LET t == LastSettledFiring
    IN  t > 0 /\ incidentAt < t =>
            \E q \in Successes : startedAt[q] >= t - Window

(* docs/api-reference.md says the automatic triggers never run a crawler   *)
(* twice.  The duplicate check only sees runs that have finished.          *)
NeverRunTwice ==
    \A r, q \in Successes \ forced :
        r # q => \/ startedAt[r] > startedAt[q] + Window
                 \/ startedAt[q] > startedAt[r] + Window
=============================================================================
