------------------------------- MODULE UserScan -------------------------------
(***************************************************************************)
(* The on-demand DEPSCAN of one logged-in user and its row in user_scans   *)
(* (depscan/user_scan.py on the skeleton core/runner/user_scan.py).  A     *)
(* login starts a daemon thread unless the row says there is no need; the  *)
(* daily crawl over registered accounts (jobs/user_crawl_runner.py) does   *)
(* not ask.  Threads die with the process and leave the row as it is.      *)
(* Times are ages, and an age stops growing once nothing asks for more:    *)
(* the behaviours are unbounded and the states finite.                     *)
(***************************************************************************)
EXTENDS Integers

CONSTANTS Threads,
          StaleRunning,   \* STALE_RUNNING_THRESHOLD_MINUTES
          RescanAfter,    \* RESCAN_INTERVAL_HOURS, in the same unit
          MaxLost         \* bound: failed calls and commits, restarts

ASSUME UserScanAssumption == /\ StaleRunning \in Nat /\ RescanAfter \in Nat /\ MaxLost \in Nat
                             /\ StaleRunning < RescanAfter

VARIABLES
    scan_status,   \* of the row, "none" if there is no row
    scan_age,      \* how long ago its started_at is
    thread,        \* what each thread does next
    thread_age,    \* how long ago its own started_at is
    saw_row,       \* whether it found a row to update
    lost           \* failures so far

scanVars == <<scan_status, scan_age, thread, thread_age, saw_row, lost>>

Ages == 0..(RescanAfter + 1)

UserScanTypeOK ==
    /\ scan_status \in {"none", "running", "done", "error"}
    /\ scan_age \in Ages
    /\ thread \in [Threads -> {"idle", "looking", "marking", "scanning", "finishing", "failing"}]
    /\ thread_age \in [Threads -> Ages]
    /\ saw_row \in [Threads -> BOOLEAN]
    /\ lost \in 0..MaxLost

UserScanInit ==
    /\ scan_status = "none" /\ scan_age = 0
    /\ thread = [t \in Threads |-> "idle"] /\ thread_age = [t \in Threads |-> 0]
    /\ saw_row = [t \in Threads |-> FALSE]
    /\ lost = 0

older(age) == IF age <= RescanAfter THEN age + 1 ELSE age

UserScanTick ==
    /\ scan_age' = older(scan_age)
    /\ thread_age' = [t \in Threads |-> older(thread_age[t])]
    /\ UNCHANGED <<scan_status, thread, saw_row, lost>>

-----------------------------------------------------------------------------
(* Mutated form, used only to show that the property can fail: a scan that *)
(* is under way is waited for, however long.                               *)
WaitsForRunning(status, age) == \/ status \in {"none", "error"}
                                \/ status = "done" /\ age > RescanAfter

should_rescan_for_user(status, age) ==
    \/ status \in {"none", "error"}
    \/ status = "running" /\ age > StaleRunning
    \/ status = "done" /\ age > RescanAfter

ThreadGoes(t, from, to) == thread[t] = from /\ thread' = [thread EXCEPT ![t] = to]

Starts(t) ==
    /\ ThreadGoes(t, "idle", "looking")
    /\ thread_age' = [thread_age EXCEPT ![t] = 0]
    /\ UNCHANGED <<scan_status, scan_age, saw_row, lost>>

(* github_callback: asked when the user logs in; the thread then runs.     *)
ScanAtLogin(t) == should_rescan_for_user(scan_status, scan_age) /\ Starts(t)

(* run_user_crawls_for_all_accounts: not asked.                            *)
ScanAtCrawl(t) == Starts(t)

(* _set_user_scan_status("running"): the row is looked for ...             *)
LooksForRow(t) ==
    /\ ThreadGoes(t, "looking", "marking")
    /\ saw_row' = [saw_row EXCEPT ![t] = scan_status # "none"]
    /\ UNCHANGED <<scan_status, scan_age, thread_age, lost>>

SetsRow(t, status) == scan_status' = status /\ scan_age' = thread_age[t]

(* ... and written.  Of two first scans only one can insert: username is   *)
(* unique.  The failed commit leaves a session on which on_error fails in  *)
(* its turn, so the thread ends.                                           *)
MarksRunning(t) ==
    /\ \/ /\ saw_row[t] \/ scan_status = "none"
          /\ ThreadGoes(t, "marking", "scanning") /\ SetsRow(t, "running")
       \/ /\ ~saw_row[t] /\ scan_status # "none"
          /\ ThreadGoes(t, "marking", "idle") /\ UNCHANGED <<scan_status, scan_age>>
    /\ UNCHANGED <<thread_age, saw_row, lost>>

(* Dependencies are collected, findings stored, notices sent.              *)
Scans(t) ==
    /\ ThreadGoes(t, "scanning", "finishing")
    /\ UNCHANGED <<scan_status, scan_age, thread_age, saw_row, lost>>

MarksDone(t) ==
    /\ ThreadGoes(t, "finishing", "idle") /\ SetsRow(t, "done")
    /\ UNCHANGED <<thread_age, saw_row, lost>>

Loses == lost < MaxLost /\ lost' = lost + 1

(* A call to GitHub or OSV raises and on_error runs.                       *)
ScanRaises(t) ==
    /\ ThreadGoes(t, "scanning", "failing") /\ Loses
    /\ UNCHANGED <<scan_status, scan_age, thread_age, saw_row>>

MarksError(t) ==
    /\ ThreadGoes(t, "failing", "idle") /\ SetsRow(t, "error")
    /\ UNCHANGED <<thread_age, saw_row, lost>>

(* A query or a commit fails: on_error, on the same session, fails too.    *)
ScanBreaks(t) ==
    /\ thread[t] # "idle" /\ thread' = [thread EXCEPT ![t] = "idle"] /\ Loses
    /\ UNCHANGED <<scan_status, scan_age, thread_age, saw_row>>

UserScanRestart ==
    /\ thread' = [t \in Threads |-> "idle"] /\ Loses
    /\ UNCHANGED <<scan_status, scan_age, thread_age, saw_row>>

ThreadStep(t) == \/ LooksForRow(t) \/ MarksRunning(t) \/ Scans(t) \/ MarksDone(t)
                 \/ MarksError(t)

UserScanNext ==
    \/ UserScanTick \/ UserScanRestart
    \/ \E t \in Threads : \/ ScanAtLogin(t) \/ ScanAtCrawl(t) \/ ThreadStep(t)
                          \/ ScanRaises(t) \/ ScanBreaks(t)

-----------------------------------------------------------------------------
(* A row never stays running for good.  Its thread finishes, or, if a      *)
(* restart or a broken session took the thread away, the user's next login *)
(* after StaleRunning starts another (should_rescan_for_user; the comment  *)
(* on STALE_RUNNING_THRESHOLD_MINUTES tells of the day it did not).  It is *)
(* assumed that time passes and that the user logs in again.               *)
LostScanIsRetried == (scan_status = "running") ~> (scan_status # "running")
=============================================================================
