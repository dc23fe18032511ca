---------------------------- MODULE DepscanProofs ----------------------------
(***************************************************************************)
(* What is proved of Depscan, for any findings, repositories, scans and    *)
(* exceptions, and any number of threads, faults and restarts: a finding   *)
(* is reported once, none is lost without a reason, a user's scan stays in *)
(* its repositories, and -- of threads that do not overlap -- there is one *)
(* open issue per repository and what needs attention is in it.            *)
(***************************************************************************)
EXTENDS Depscan, FindingsProofs

(* What a scan has found, and is to write, is in its owner's repositories. *)
PlansStayHome ==
    \A j \in Scans : \A k \in found[j] \union plan[j].insert \union plan[j].reopen :
        RepoOf[k] \in Scope[j]

(* A finding without a row has not been reported since it was deleted.     *)
UnknownIsUnreported == \A k \in Keys : row[k] = "absent" => reports[k] = 0

DepscanInv == /\ StoreInv /\ DepscanTypeOK
              /\ PlansStayHome
              /\ UnknownIsUnreported /\ ReportedOnce
-----------------------------------------------------------------------------
(* The actions of a scan that are not those of the reporting.              *)
Scanning(j) == \/ Collect(j) \/ UpsertCommit(j) \/ ResolveStale(j)
               \/ ExecuteFails(j) \/ DropExcepted(j) \/ ClosingFails(j)
               \/ DeleteOldResolved(j) \/ Notify(j) \/ FilingDone(j)

(* They keep every variable in its domain, and go from stage to stage of   *)
(* a scan.                                                                 *)
LEMMA ScanTyped ==
  ASSUME DepscanTypeOK, NEW j \in Scans, Scanning(j)
  PROVE  /\ FindingsTypeOK' /\ reports' \in [Keys -> Nat]
         /\ \A i \in Jobs \ {j} : pc'[i] = pc[i]
         /\ pc'[j] \in {"commit", "resolve", "drop", "notify", "close", "file", "done", "failed"}
<1> DEFINE Goal == /\ FindingsTypeOK' /\ reports' \in [Keys -> Nat]
                   /\ \A i \in Jobs \ {j} : pc'[i] = pc[i]
                   /\ pc'[j] \in {"commit", "resolve", "drop", "notify", "close", "file",
                                  "done", "failed"}
<1>0. j \in Jobs
  BY DEF Jobs
<1>r. \A keys \in SUBSET Keys : ReposOf(keys) \in SUBSET Repos
  BY KeysAssumption DEF ReposOf
<1> USE <1>0, KeysAssumption, JobsAssumption
    DEF DepscanTypeOK, FindingsTypeOK, tables, scans, threads, ghosts, Goto, End, Fault
<1>1. CASE Collect(j)
  <2>1. overlapped' \in BOOLEAN /\ pc' = [pc EXCEPT ![j] = "commit"]
    BY <1>1 DEF Collect, Enter
  <2>2. /\ found' \in [Scans -> SUBSET Keys]
        /\ plan' \in [Scans -> [insert : SUBSET Keys, reopen : SUBSET Keys]]
    BY <1>1 DEF Collect, Read
  <2> QED
    BY <1>1, <2>1, <2>2 DEF Collect
<1>2. CASE UpsertCommit(j)
  BY <1>2 DEF UpsertCommit, upsert, NoPlan
<1>3. CASE ResolveStale(j)
  <2>1. PICK gone \in SUBSET Keys :
          /\ resolve(gone)
          /\ todo' = [todo EXCEPT ![j] = IF j \in Dailies THEN ReposOf(gone) ELSE {}]
    BY <1>3 DEF ResolveStale
  <2>2. todo' \in [Jobs -> SUBSET Repos]
    BY <1>r, <2>1
  <2>3. \E stage \in {"drop", "notify"} : pc' = [pc EXCEPT ![j] = stage]
    BY <1>3 DEF ResolveStale
  <2> QED
    BY <1>3, <2>1, <2>2, <2>3 DEF ResolveStale, resolve
<1>4. CASE ExecuteFails(j)
  BY <1>4 DEF ExecuteFails, NoPlan
<1>5. CASE DropExcepted(j)
  BY <1>5 DEF DropExcepted, drop_excepted
<1>6. CASE ClosingFails(j)
  BY <1>6 DEF ClosingFails
<1>7. CASE DeleteOldResolved(j)
  <2>1. row' \in [Keys -> {"absent", "open", "resolved"}] /\ reports' \in [Keys -> Nat]
    <3>1. CASE UNCHANGED <<row, reports>>
      BY <3>1
    <3>2. ASSUME NEW old \in SUBSET Keys,
                 row' = [k \in Keys |-> IF k \in old THEN "absent" ELSE row[k]],
                 reports' = [k \in Keys |-> IF k \in old THEN 0 ELSE reports[k]]
          PROVE  /\ row' \in [Keys -> {"absent", "open", "resolved"}]
                 /\ reports' \in [Keys -> Nat]
      BY <3>2
    <3> QED
      BY <1>7, <3>1, <3>2 DEF DeleteOldResolved
  <2>2. faults' \in 0..MaxFaults
    BY <1>7 DEF DeleteOldResolved
  <2>3. /\ pc' = [pc EXCEPT ![j] = "notify"]
        /\ UNCHANGED <<excepted, lapsed, issue, todo, at, target, fresh, showing,
                       givenUp, overlapped, found, plan>>
    BY <1>7 DEF DeleteOldResolved
  <2> QED
    BY <2>1, <2>2, <2>3
<1>8. CASE Notify(j)
  <2>1. CASE pc' = [pc EXCEPT ![j] = "file"] /\ UNCHANGED <<at, target, fresh, givenUp>>
    <3>1. todo' = [todo EXCEPT ![j] = ReposOf(fresh[j])] \/ todo' = [todo EXCEPT ![j] = {}]
      BY <1>8 DEF Notify
    <3>2. ReposOf(fresh[j]) \in SUBSET Repos
      BY <1>r
    <3>3. todo' \in [Jobs -> SUBSET Repos]
      BY <3>1, <3>2
    <3> QED
      BY <1>8, <2>1, <3>3 DEF Notify
  <2>2. CASE End(j, "done") /\ givenUp' = givenUp \union fresh[j]
    BY <1>8, <2>2 DEF Notify
  <2> QED
    BY <1>8, <2>1, <2>2 DEF Notify
<1>9. CASE FilingDone(j)
  BY <1>9 DEF FilingDone
<1> QED
  BY <1>1, <1>2, <1>3, <1>4, <1>5, <1>6, <1>7, <1>8, <1>9 DEF Scanning

(* And they do no more than the store allows a scan.                       *)
LEMMA ScansStep ==
  ASSUME DepscanTypeOK, ShownIsUnresolved, NEW j \in Scans, Scanning(j)
  PROVE  ScanStep(j)
<1>0. /\ j \in Jobs /\ DOMAIN pc = Jobs
      /\ row \in [Keys -> {"absent", "open", "resolved"}] /\ showing \in SUBSET Keys
      /\ fresh \in [Jobs -> SUBSET Keys]
      /\ at \in [Jobs -> Repos \union ExcKeys \union {"none"}]
      /\ DOMAIN target = Jobs
  BY DEF Jobs, DepscanTypeOK, FindingsTypeOK
<1>1. /\ \A i \in Jobs \ {j} : pc'[i] = pc[i]
      /\ pc'[j] \notin {"idle", "fileWrite", "closeFind", "closeWrite"}
  BY ScanTyped
<1> USE <1>0 DEF Goto, End, Fault, threads, ghosts, tables
<1>2. \A i \in Jobs \ {j} : at'[i] = at[i] /\ target'[i] = target[i]
  BY DEF Scanning, Collect, UpsertCommit, ResolveStale, ExecuteFails, DropExcepted, ClosingFails,
         DeleteOldResolved, Notify, FilingDone
<1>3. /\ \/ InFlight(j) /\ overlapped' = overlapped
         \/ overlapped' = (overlapped \/ {i \in Jobs : InFlight(i)} # {})
      /\ UNCHANGED <<excepted, issue>>
  <2>1. CASE Collect(j)
    BY <2>1 DEF Collect, Enter
  <2>2. CASE UpsertCommit(j) \/ ResolveStale(j) \/ ExecuteFails(j) \/ DropExcepted(j)
    BY <2>2 DEF UpsertCommit, ResolveStale, ExecuteFails, DropExcepted, InFlight, Over
  <2>3. CASE ClosingFails(j) \/ DeleteOldResolved(j) \/ Notify(j) \/ FilingDone(j)
    BY <2>3 DEF ClosingFails, DeleteOldResolved, Notify, FilingDone, InFlight, Over
  <2> QED
    BY <2>1, <2>2, <2>3 DEF Scanning
<1>4. /\ showing' \subseteq showing /\ \A k \in showing' : row'[k] = row[k]
      /\ \A k \in Keys : row[k] = "absent" /\ row'[k] # "absent" => k \in fresh'[j]
  <2>1. CASE \/ Collect(j) \/ ExecuteFails(j) \/ DropExcepted(j)
             \/ ClosingFails(j) \/ Notify(j) \/ FilingDone(j)
    BY <2>1 DEF Collect, ExecuteFails, DropExcepted, ClosingFails, Notify, FilingDone
  <2>2. CASE UpsertCommit(j)
    <3>1. /\ showing' = showing /\ fresh'[j] = fresh[j] \union plan[j].insert
          /\ \A k \in Keys : row'[k] = IF k \in plan[j].insert \union plan[j].reopen
                                      THEN "open" ELSE row[k]
          /\ \A k \in plan[j].reopen : row[k] # "absent"
      BY <2>2 DEF UpsertCommit, upsert, Conflict
    <3> QED
      BY <3>1 DEF ShownIsUnresolved
  <2>3. CASE ResolveStale(j)
    <3>1. PICK gone \in SUBSET Keys : resolve(gone) /\ \A k \in gone : row[k] = "open"
      BY <2>3 DEF ResolveStale, resolvable
    <3> QED
      BY <3>1 DEF resolve
  <2>4. CASE DeleteOldResolved(j)
    <3>1. /\ showing' = showing
          /\ \A k \in Keys : /\ row[k] = "open" => row'[k] = row[k]
                             /\ row[k] = "absent" => row'[k] = "absent"
      BY <2>4 DEF DeleteOldResolved
    <3> QED
      BY <3>1 DEF ShownIsUnresolved
  <2> QED
    BY <2>1, <2>2, <2>3, <2>4 DEF Scanning
<1>5. /\ givenUp \subseteq givenUp' /\ fresh[j] \subseteq fresh'[j] \union givenUp'
      /\ \A i \in Jobs \ {j} : fresh'[i] = fresh[i]
  <2>1. CASE \/ Collect(j) \/ UpsertCommit(j) \/ ResolveStale(j) \/ ClosingFails(j)
             \/ DeleteOldResolved(j) \/ FilingDone(j)
    BY <2>1 DEF Collect, UpsertCommit, upsert, ResolveStale, ClosingFails, DeleteOldResolved,
                FilingDone
  <2>2. CASE ExecuteFails(j) \/ DropExcepted(j) \/ Notify(j)
    BY <2>2 DEF ExecuteFails, DropExcepted, Notify
  <2> QED
    BY <2>1, <2>2 DEF Scanning
<1> QED
  BY <1>1, <1>2, <1>3, <1>4, <1>5 DEF ScanStep

(* Every step is one of a scan, or of the reporting, a restart, or nothing.*)
LEMMA Steps ==
  ASSUME [Next]_vars
  PROVE  \/ \E j \in Scans : Scanning(j)
         \/ (ReporterStep \/ Restart) /\ UNCHANGED reports
         \/ UNCHANGED vars
BY DEF Next, Scanning, Terminating

(* So every step is one of the store.                                      *)
LEMMA StoreSteps ==
  ASSUME StoreInv, DepscanTypeOK, [Next]_vars
  PROVE  StoreStep
<1>1. ASSUME NEW j \in Scans, Scanning(j) PROVE StoreStep
  BY <1>1, ScanTyped, ScansStep DEF StoreInv, StoreStep, Acts, Jobs
<1>2. ASSUME ReporterStep PROVE StoreStep
  BY <1>2, ReporterSteps DEF StoreStep, Acts
<1>3. ASSUME UNCHANGED vars PROVE StoreStep
  BY <1>3 DEF vars, storeVars, StoreStep
<1> QED
  BY <1>1, <1>2, <1>3, Steps DEF StoreStep

(* Every variable stays in its domain.                                     *)
LEMMA StepDepscanTyped == StoreInv /\ DepscanTypeOK /\ [Next]_vars => DepscanTypeOK'
<1> SUFFICES ASSUME StoreInv, DepscanTypeOK, [Next]_vars PROVE DepscanTypeOK'
  OBVIOUS
<1>1. FindingsTypeOK'
  BY StoreSteps, StepTyped DEF StoreInv, Typed
<1>2. ASSUME NEW j \in Scans, Scanning(j) PROVE DepscanTypeOK'
  BY <1>1, <1>2, ScanTyped DEF DepscanTypeOK
<1>3. CASE ReporterStep /\ UNCHANGED reports
  BY <1>1, <1>3, ReporterStages DEF DepscanTypeOK, Reporting, Filing, Closing
<1>4. CASE Restart /\ UNCHANGED reports
  BY <1>1, <1>4 DEF Restart, DepscanTypeOK
<1>5. CASE UNCHANGED vars
  BY <1>1, <1>5 DEF vars, threads, DepscanTypeOK
<1> QED
  BY <1>2, <1>3, <1>4, <1>5, Steps

-----------------------------------------------------------------------------
(* The rows are written by three actions of a scan.                        *)
LEMMA RowWrites ==
  ASSUME DepscanTypeOK, [Next]_vars
  PROVE  \/ UNCHANGED <<row, reports>>
         \/ \E j \in Scans : UpsertCommit(j) \/ ResolveStale(j) \/ DeleteOldResolved(j)
<1> USE DEF tables, ghosts
<1>1. ASSUME NEW j \in Scans, Scanning(j)
      PROVE  \/ UNCHANGED <<row, reports>>
             \/ UpsertCommit(j) \/ ResolveStale(j) \/ DeleteOldResolved(j)
  BY <1>1 DEF Scanning, Collect, ExecuteFails, DropExcepted, ClosingFails, Notify, FilingDone
<1>2. ASSUME ReporterStep PROVE row' = row
  BY <1>2, ReporterSteps, QuietKeeps DEF FileWrite, CloseWrite, Lapse
<1>3. ASSUME Restart \/ UNCHANGED vars PROVE row' = row
  BY <1>3 DEF Restart, vars
<1> QED
  BY <1>1, <1>2, <1>3, Steps DEF vars

(* A scan finds findings of its owner's repositories, and so what it is to *)
(* insert and reopen is there as well.                                     *)
LEMMA StepHome == DepscanTypeOK /\ PlansStayHome /\ [Next]_vars => PlansStayHome'
<1> SUFFICES ASSUME DepscanTypeOK, PlansStayHome, [Next]_vars PROVE PlansStayHome'
  OBVIOUS
<1>0. /\ found \in [Scans -> SUBSET Keys]
      /\ plan \in [Scans -> [insert : SUBSET Keys, reopen : SUBSET Keys]]
  BY DEF DepscanTypeOK, FindingsTypeOK
<1> USE DEF scans
<1>1. ASSUME UNCHANGED scans PROVE PlansStayHome'
  BY <1>1 DEF PlansStayHome
<1>2. ASSUME NEW j \in Scans, Collect(j) PROVE PlansStayHome'
  <2>1. PICK keys \in SUBSET {k \in Keys : RepoOf[k] \in Scope[j]} : Read(j, keys)
    BY <1>2 DEF Collect
  <2>2. /\ found' = [found EXCEPT ![j] = keys]
        /\ \A i \in Scans \ {j} : plan'[i] = plan[i]
        /\ plan'[j].insert \subseteq keys /\ plan'[j].reopen \subseteq keys
    BY <1>0, <2>1 DEF Read
  <2> QED
    BY <1>0, <2>1, <2>2 DEF PlansStayHome
<1>3. ASSUME NEW j \in Scans, UpsertCommit(j) PROVE PlansStayHome'
  BY <1>0, <1>3 DEF UpsertCommit, PlansStayHome, NoPlan
<1>4. ASSUME NEW j \in Scans, ResolveStale(j) PROVE PlansStayHome'
  BY <1>0, <1>4 DEF ResolveStale, PlansStayHome
<1>5. ASSUME NEW j \in Scans, ExecuteFails(j) PROVE PlansStayHome'
  BY <1>0, <1>5 DEF ExecuteFails, PlansStayHome, NoPlan
<1>6. ASSUME NEW j \in Scans, \/ DropExcepted(j) \/ ClosingFails(j) \/ DeleteOldResolved(j)
                              \/ Notify(j) \/ FilingDone(j)
      PROVE  PlansStayHome'
  BY <1>1, <1>6 DEF DropExcepted, ClosingFails, DeleteOldResolved, Notify, FilingDone
<1>7. CASE ReporterStep
  <2>1. UNCHANGED scans
    BY <1>7, ReporterSteps, QuietKeeps DEF FileWrite, CloseWrite, Lapse
  <2> QED
    BY <1>1, <2>1
<1>8. CASE Restart
  BY <1>8 DEF Restart, PlansStayHome, NoPlan
<1>9. CASE UNCHANGED vars
  BY <1>1, <1>9 DEF vars
<1> QED
  BY <1>2, <1>3, <1>4, <1>5, <1>6, <1>7, <1>8, <1>9, Steps DEF Scanning

(* Only an insert counts as a report, and only what has no row is inserted.*)
LEMMA StepReports ==
  ASSUME DepscanTypeOK, UnknownIsUnreported, ReportedOnce, [Next]_vars
  PROVE  UnknownIsUnreported' /\ ReportedOnce'
<1>0. /\ row \in [Keys -> {"absent", "open", "resolved"}] /\ reports \in [Keys -> Nat]
      /\ plan \in [Scans -> [insert : SUBSET Keys, reopen : SUBSET Keys]]
  BY DEF DepscanTypeOK, FindingsTypeOK
<1> USE <1>0 DEF UnknownIsUnreported, ReportedOnce
<1>1. CASE UNCHANGED <<row, reports>>
  BY <1>1
<1>2. ASSUME NEW j \in Scans, UpsertCommit(j)
      PROVE  UnknownIsUnreported' /\ ReportedOnce'
  <2>1. \A k \in plan[j].insert : row[k] = "absent"
    BY <1>2 DEF UpsertCommit, upsert, Conflict
  <2>2. \A k \in Keys :
          /\ row'[k] = IF k \in plan[j].insert \union plan[j].reopen THEN "open" ELSE row[k]
          /\ reports'[k] = reports[k] + (IF k \in plan[j].insert THEN 1 ELSE 0)
    BY <1>2 DEF UpsertCommit, upsert
  <2> QED
    BY <2>1, <2>2
<1>3. ASSUME NEW j \in Scans, ResolveStale(j)
      PROVE  UnknownIsUnreported' /\ ReportedOnce'
  <2>1. /\ reports' = reports
        /\ \A k \in Keys : row'[k] = "absent" => row[k] = "absent"
    BY <1>3 DEF ResolveStale, resolve, resolvable
  <2> QED
    BY <2>1
<1>4. ASSUME NEW j \in Scans, DeleteOldResolved(j)
      PROVE  UnknownIsUnreported' /\ ReportedOnce'
  BY <1>4 DEF DeleteOldResolved
<1> QED
  BY <1>1, <1>2, <1>3, <1>4, RowWrites

(* A user's scan writes what it has planned, and resolves what is in scope.*)
LEMMA StepScope ==
  ASSUME DepscanTypeOK, PlansStayHome, [Next]_vars,
         NEW j \in UserScans, NEW k \in Keys, pc[j] # pc'[j], row[k] # row'[k]
  PROVE  RepoOf[k] \in Scope[j]
<1>0. /\ row \in [Keys -> {"absent", "open", "resolved"}]
      /\ plan \in [Scans -> [insert : SUBSET Keys, reopen : SUBSET Keys]]
      /\ DOMAIN pc = Jobs /\ j \in Jobs /\ j \in Scans /\ j \notin Dailies
  BY JobsAssumption DEF DepscanTypeOK, FindingsTypeOK, Jobs, Scans
<1>1. PICK i \in Scans : UpsertCommit(i) \/ ResolveStale(i) \/ DeleteOldResolved(i)
  BY RowWrites
<1>2. i = j
  BY <1>0, <1>1 DEF UpsertCommit, ResolveStale, DeleteOldResolved, Goto
<1>3. CASE UpsertCommit(j)
  <2>1. k \in plan[j].insert \union plan[j].reopen
    BY <1>0, <1>3 DEF UpsertCommit, upsert
  <2> QED
    BY <1>0, <2>1 DEF PlansStayHome
<1>4. CASE ResolveStale(j)
  BY <1>0, <1>4 DEF ResolveStale, resolve, resolvable
<1>5. CASE DeleteOldResolved(j)
  BY <1>0, <1>5 DEF DeleteOldResolved
<1> QED
  BY <1>1, <1>2, <1>3, <1>4, <1>5

-----------------------------------------------------------------------------
(* Nothing is known, filed or under way at first.                          *)
LEMMA InitInv == Init => DepscanInv
<1> SUFFICES ASSUME Init PROVE DepscanInv
  OBVIOUS
<1>1. StoreInv
  BY InitStore DEF Init
<1>2. DepscanTypeOK
  BY <1>1 DEF StoreInv, Typed, DepscanTypeOK, Init, FindingsInit
<1>3. PlansStayHome /\ UnknownIsUnreported /\ ReportedOnce
  BY DEF Init, FindingsInit, PlansStayHome, NoPlan, UnknownIsUnreported, ReportedOnce
<1> QED
  BY <1>1, <1>2, <1>3 DEF DepscanInv

(* Every step keeps the invariant.                                         *)
LEMMA StepInv == DepscanInv /\ [Next]_vars => DepscanInv'
<1> SUFFICES ASSUME DepscanInv, [Next]_vars PROVE DepscanInv'
  OBVIOUS
<1> USE DEF DepscanInv
<1>1. StoreInv' /\ DepscanTypeOK'
  BY StoreSteps, StepStore, StepDepscanTyped
<1>2. PlansStayHome' /\ UnknownIsUnreported' /\ ReportedOnce'
  BY StepHome, StepReports
<1> QED
  BY <1>1, <1>2

(* The invariant holds of every run of DEPSCAN, its background tasks and   *)
(* the restarts of the process.                                            *)
THEOREM DepscanInvHolds == Spec => []DepscanInv
<1>1. Init => DepscanInv
  BY InitInv
<1>2. DepscanInv /\ [Next]_vars => DepscanInv'
  BY StepInv
<1> QED
  BY <1>1, <1>2, PTL DEF Spec

(* Every variable stays in its domain.                                     *)
THEOREM DepscanTyped == Spec => []DepscanTypeOK
<1>1. DepscanInv => DepscanTypeOK
  BY DEF DepscanInv
<1> QED
  BY <1>1, DepscanInvHolds, PTL

(* Between two deletions of its row a finding is taken for new by one scan *)
(* at most, however many scans overlap and however often it comes back.    *)
THEOREM NewIsReportedOnce == Spec => []ReportedOnce
<1>1. DepscanInv => ReportedOnce
  BY DEF DepscanInv
<1> QED
  BY <1>1, DepscanInvHolds, PTL

(* A finding in the table has been listed in an issue, is held by a thread *)
(* that is to list it, or was given up for a reason that is known.         *)
THEOREM NothingNewIsForgotten == Spec => []NewFindingsAccountedFor
<1>1. DepscanInv => NewFindingsAccountedFor
  BY DEF DepscanInv, StoreInv
<1> QED
  BY <1>1, DepscanInvHolds, PTL

(* As long as no two threads have overlapped there is at most one open     *)
(* issue of the title per repository.                                      *)
THEOREM OneIssuePerRepo == Spec => []OneOpenIssue
<1>1. DepscanInv => OneOpenIssue
  BY DEF DepscanInv, StoreInv
<1> QED
  BY <1>1, DepscanInvHolds, PTL

(* And a finding that was filed, and has needed attention ever since, is   *)
(* listed in an open issue.                                                *)
THEOREM UnresolvedIsShown == Spec => []ShownWhileUnresolved
<1>1. DepscanInv => ShownWhileUnresolved
  BY DEF DepscanInv, StoreInv
<1> QED
  BY <1>1, DepscanInvHolds, PTL

(* The scan of a user changes no finding in a repository that is not of    *)
(* that user, whatever other threads do.                                   *)
THEOREM ScansStayInScope == Spec => UserScanStaysHome
<1>1. DepscanInv /\ [Next]_vars =>
        \A j \in UserScans, k \in Keys :
            pc[j] # pc'[j] /\ row[k] # row'[k] => RepoOf[k] \in Scope[j]
  BY StepScope DEF DepscanInv
<1>2. DepscanInv /\ [Next]_vars =>
        [ \A j \in UserScans, k \in Keys :
            pc[j] # pc'[j] /\ row[k] # row'[k] => RepoOf[k] \in Scope[j] ]_vars
  BY <1>1
<1> QED
  BY <1>2, DepscanInvHolds, PTL DEF Spec, UserScanStaysHome
=============================================================================
