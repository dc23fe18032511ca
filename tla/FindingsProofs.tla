--------------------------- MODULE FindingsProofs ---------------------------
(***************************************************************************)
(* What is proved of the part DEPSCAN and CODESCAN share, for any          *)
(* findings, repositories, threads and exceptions: the filing and closing  *)
(* of issues, the exceptions and the restarts keep the invariant below,    *)
(* and so does a step of a scan that does no more than ScanStep allows.    *)
(* DepscanProofs and CodescanProofs show that theirs do not.               *)
(***************************************************************************)
EXTENDS Findings, SequenceTheorems, WellFoundedInduction, TLAPS

storeVars == <<tables, scans, issue, threads, ghosts>>

(* A thread that works on a repository, or on an issue of it, knows it.    *)
Placed ==
    \A j \in Jobs :
        /\ pc[j] \in {"fileWrite", "closeFind", "closeWrite"} => at[j] \in Repos
        /\ pc[j] = "closeWrite" => target[j] # 0

Typed == FindingsTypeOK /\ Placed

(* A background task has no findings to file until it has read them.       *)
TasksHoldNothing ==
    \A j \in Tasks :
        pc[j] \in {"idle", "refile", "close", "closeFind", "closeWrite"} => fresh[j] = {}

(* As long as no two threads have overlapped, one is in flight at a time;  *)
(* what it has found about the issues and the findings is then still true. *)
Alone == ~overlapped => \A i, j \in Jobs : InFlight(i) /\ InFlight(j) => i = j

Current ==
    ~overlapped => \A j \in Jobs :
        /\ pc[j] = "fileWrite" /\ target[j] = 0 =>
             \A n \in DOMAIN issue : issue[n].repo = at[j] => ~issue[n].open
        /\ pc[j] = "fileWrite" /\ target[j] # 0 =>
             issue[target[j]].open /\ issue[target[j]].repo = at[j]
        /\ pc[j] = "closeWrite" => issue[target[j]].repo = at[j]
        /\ pc[j] \in {"closeFind", "closeWrite"} =>
             \A k \in showing : RepoOf[k] # at[j]

(* What an issue lists is of its repository; what is shown is unresolved.  *)
ListedAtHome ==
    ~overlapped => \A n \in DOMAIN issue : \A k \in issue[n].listed :
                       RepoOf[k] = issue[n].repo
ShownIsUnresolved == \A k \in showing : row[k] = "open" /\ ~Excepted(k)

StoreInv == /\ Typed
            /\ TasksHoldNothing /\ NewFindingsAccountedFor
            /\ Alone /\ Current /\ OneOpenIssue
            /\ ListedAtHome /\ ShownIsUnresolved /\ ShownWhileUnresolved

(* What a step of a scan, the filing and closing apart, may do: go on with *)
(* thread j to a stage at which nothing has been looked up, alone if it    *)
(* enters; write rows, of which what is new is to be filed by j; take what *)
(* it no longer wants to file into givenUp.  It leaves the issues, the     *)
(* exceptions and the other threads alone.                                 *)
ScanStep(j) ==
    /\ j \in Scans
    /\ \A i \in Jobs \ {j} : /\ pc'[i] = pc[i] /\ at'[i] = at[i]
                              /\ target'[i] = target[i] /\ fresh'[i] = fresh[i]
    /\ pc'[j] \notin {"idle", "fileWrite", "closeFind", "closeWrite"}
    /\ \/ InFlight(j) /\ overlapped' = overlapped
       \/ overlapped' = (overlapped \/ {i \in Jobs : InFlight(i)} # {})
    /\ UNCHANGED <<excepted, issue>>
    /\ showing' \subseteq showing /\ \A k \in showing' : row'[k] = row[k]
    /\ givenUp \subseteq givenUp' /\ fresh[j] \subseteq fresh'[j] \union givenUp'
    /\ \A k \in Keys : row[k] = "absent" /\ row'[k] # "absent" => k \in fresh'[j]

-----------------------------------------------------------------------------
(* A list of issues changed in one place, or extended, is a list.          *)
LEMMA IssueLists ==
  ASSUME NEW s \in Seq(Issues)
  PROVE  /\ DOMAIN s = 1..Len(s) /\ Len(s) \in Nat
         /\ \A n \in DOMAIN s : s[n] \in Issues
         /\ \A e \in Issues : /\ Append(s, e) \in Seq(Issues)
                              /\ DOMAIN Append(s, e) = 1..Len(s) + 1
                              /\ Len(Append(s, e)) = Len(s) + 1
                              /\ \A n \in DOMAIN s : Append(s, e)[n] = s[n]
                              /\ Append(s, e)[Len(s) + 1] = e
         /\ \A n \in DOMAIN s, e \in Issues : /\ [s EXCEPT ![n] = e] \in Seq(Issues)
                                              /\ Len([s EXCEPT ![n] = e]) = Len(s)
<1>1. DOMAIN s = 1..Len(s) /\ Len(s) \in Nat /\ \A n \in DOMAIN s : s[n] \in Issues
  OBVIOUS
<1>2. ASSUME NEW e \in Issues
      PROVE  /\ Append(s, e) \in Seq(Issues)
             /\ DOMAIN Append(s, e) = 1..Len(s) + 1
             /\ Len(Append(s, e)) = Len(s) + 1
             /\ \A n \in DOMAIN s : Append(s, e)[n] = s[n]
             /\ Append(s, e)[Len(s) + 1] = e
  <2>1. /\ Append(s, e) \in Seq(Issues)
        /\ Len(Append(s, e)) = Len(s) + 1
        /\ \A n \in 1..Len(s) : Append(s, e)[n] = s[n]
        /\ Append(s, e)[Len(s) + 1] = e
    BY AppendProperties
  <2>2. DOMAIN Append(s, e) = 1..Len(Append(s, e))
    BY <2>1
  <2> QED
    BY <1>1, <2>1, <2>2
<1>3. ASSUME NEW n \in DOMAIN s, NEW e \in Issues
      PROVE  [s EXCEPT ![n] = e] \in Seq(Issues) /\ Len([s EXCEPT ![n] = e]) = Len(s)
  BY <1>1, ExceptSeq
<1> QED
  BY <1>1, <1>2, <1>3

(* The largest member of a non-empty set of numbers up to a bound.         *)
LEMMA MaxIsMember ==
  ASSUME NEW N \in Nat, NEW S \in SUBSET (0..N), S # {}
  PROVE  Max(S) \in S /\ \A y \in S : Max(S) >= y
<1> DEFINE T == {N - x : x \in S}
<1>1. T \subseteq Nat /\ T # {}
  OBVIOUS
<1>2. IsWellFoundedOn(OpToRel(<, Nat), Nat)
  BY NatLessThanWellFounded
<1>3. PICK t \in T : \A y \in T : ~(<<y, t>> \in OpToRel(<, Nat))
  BY <1>1, <1>2, WFMin
<1>4. \A y \in T : ~(y < t)
  BY <1>1, <1>3 DEF OpToRel
<1>5. PICK x \in S : t = N - x
  OBVIOUS
<1>6. \A y \in S : x >= y
  BY <1>4, <1>5
<1> QED
  BY <1>5, <1>6 DEF Max

(* find_open_issue returns an open issue of the repository, or 0 if there  *)
(* is none.                                                                *)
LEMMA FoundIssue ==
  ASSUME issue \in Seq(Issues), NEW r \in Repos
  PROVE  /\ find_open_issue(r) \in 0..Len(issue)
         /\ find_open_issue(r) = 0 =>
              \A n \in DOMAIN issue : issue[n].repo = r => ~issue[n].open
         /\ find_open_issue(r) # 0 => /\ find_open_issue(r) \in DOMAIN issue
                                      /\ issue[find_open_issue(r)].open
                                      /\ issue[find_open_issue(r)].repo = r
<1> DEFINE S == {0} \union {n \in DOMAIN issue : issue[n].repo = r /\ issue[n].open}
<1>1. DOMAIN issue = 1..Len(issue) /\ Len(issue) \in Nat
  BY IssueLists
<1>2. S \in SUBSET (0..Len(issue)) /\ S # {}
  BY <1>1
<1>3. Max(S) \in S /\ \A y \in S : Max(S) >= y
  BY <1>1, <1>2, MaxIsMember
<1>4. find_open_issue(r) = Max(S)
  BY DEF find_open_issue
<1> QED
  BY <1>1, <1>2, <1>3, <1>4

-----------------------------------------------------------------------------
(* Issues are created and closed, and never disappear, change their        *)
(* repository, or list less than before.                                   *)
IssuesKept ==
    /\ issue' \in Seq(Issues)
    /\ Len(issue) <= Len(issue')
    /\ DOMAIN issue \subseteq DOMAIN issue'
    /\ \A n \in DOMAIN issue : /\ issue'[n].repo = issue[n].repo
                               /\ issue[n].listed \subseteq issue'[n].listed

(* The steps of a thread that reports, but for the two that write an issue.*)
Quiet(j) ==
    \/ \E r \in Repos : FileFind(j, r) \/ FileFails(j, r) \/ CloseCheck(j, r)
    \/ CloseFind(j) \/ CloseFails(j)
    \/ j \in Tasks /\ (refile_issues(j) \/ TaskDone(j) \/ TaskFails(j))
    \/ j \in Accepts /\ \E k \in Keys : create_exception(j, k)
    \/ j \in Ends /\ \E e \in ExcKeys : end_exception(j, e)

(* The steps of all threads.                                               *)
Acts(j) == Quiet(j) \/ FileWrite(j) \/ CloseWrite(j) \/ (ScanStep(j) /\ FindingsTypeOK')

(* The steps the store can take: an action of a thread, an exception that  *)
(* reaches its date, a restart, or nothing.                                *)
StoreStep == \/ \E j \in Jobs : Acts(j)
             \/ \E e \in ExcKeys : Lapse(e)
             \/ Restart
             \/ UNCHANGED storeVars

(* Every step of the reporting is one of them.                             *)
LEMMA ReporterSteps ==
  ASSUME ReporterStep
  PROVE  \/ \E j \in Jobs : Quiet(j) \/ FileWrite(j) \/ CloseWrite(j)
         \/ \E e \in ExcKeys : Lapse(e)
BY DEF ReporterStep, Quiet, Jobs, Tasks

(* The quiet ones write neither rows nor issues, nor the scans' records,   *)
(* and show nothing.                                                       *)
LEMMA QuietKeeps ==
  ASSUME NEW j \in Jobs, Quiet(j)
  PROVE  UNCHANGED <<row, issue, scans>> /\ showing' \subseteq showing
<1> USE DEF tables, ghosts
<1>1. ASSUME NEW r \in Repos, FileFind(j, r) \/ FileFails(j, r) \/ CloseCheck(j, r)
      PROVE  UNCHANGED <<row, issue, scans>> /\ showing' \subseteq showing
  BY <1>1 DEF FileFind, FileFails, CloseCheck
<1>2. ASSUME CloseFind(j) \/ CloseFails(j) \/ refile_issues(j) \/ TaskDone(j) \/ TaskFails(j)
      PROVE  UNCHANGED <<row, issue, scans>> /\ showing' \subseteq showing
  BY <1>2 DEF CloseFind, CloseFails, refile_issues, TaskDone, TaskFails
<1>3. ASSUME NEW k \in Keys, create_exception(j, k)
      PROVE  UNCHANGED <<row, issue, scans>> /\ showing' \subseteq showing
  BY <1>3 DEF create_exception
<1>4. ASSUME NEW e \in ExcKeys, end_exception(j, e)
      PROVE  UNCHANGED <<row, issue, scans>> /\ showing' \subseteq showing
  BY <1>4 DEF end_exception
<1> QED
  BY <1>1, <1>2, <1>3, <1>4 DEF Quiet

(* No step removes an issue, or changes what it is about.                  *)
LEMMA StepIssues == Typed /\ StoreStep => IssuesKept
<1> SUFFICES ASSUME Typed, StoreStep PROVE IssuesKept
  OBVIOUS
<1>0. /\ issue \in Seq(Issues) /\ DOMAIN issue = 1..Len(issue) /\ Len(issue) \in Nat
      /\ \A n \in DOMAIN issue : issue[n] \in Issues
  BY IssueLists DEF Typed, FindingsTypeOK
<1>1. ASSUME issue' = issue PROVE IssuesKept
  BY <1>0, <1>1 DEF IssuesKept
<1>2. ASSUME NEW n \in DOMAIN issue, NEW i \in Issues, issue' = [issue EXCEPT ![n] = i],
             i.repo = issue[n].repo, issue[n].listed \subseteq i.listed
      PROVE  IssuesKept
  <2>1. issue' \in Seq(Issues) /\ Len(issue') = Len(issue) /\ DOMAIN issue' = DOMAIN issue
    BY <1>0, <1>2, IssueLists
  <2> QED
    BY <1>0, <1>2, <2>1 DEF IssuesKept
<1>3. ASSUME NEW i \in Issues, issue' = Append(issue, i) PROVE IssuesKept
  <2>1. /\ issue' \in Seq(Issues) /\ Len(issue') = Len(issue) + 1
        /\ DOMAIN issue' = 1..Len(issue) + 1
        /\ \A n \in DOMAIN issue : issue'[n] = issue[n]
    BY <1>0, <1>3, IssueLists
  <2> QED
    BY <1>0, <2>1 DEF IssuesKept
<1>4. ASSUME NEW j \in Jobs, FileWrite(j) PROVE IssuesKept
  <2>1. at[j] \in Repos /\ target[j] \in 0..Len(issue) /\ Filed(j) \in SUBSET Keys
    BY <1>4 DEF FileWrite, Typed, FindingsTypeOK, Placed, Filed, In
  <2>2. CASE target[j] = 0
    <3>1. [repo |-> at[j], open |-> TRUE, listed |-> Filed(j)] \in Issues
      BY <2>1 DEF Issues
    <3> QED
      BY <1>3, <1>4, <2>2, <3>1 DEF FileWrite
  <2>3. CASE target[j] # 0
    <3> DEFINE n == target[j]
               i == [issue[n] EXCEPT !.listed = @ \union Filed(j)]
    <3>1. n \in DOMAIN issue /\ issue[n] \in Issues
      BY <1>0, <2>1, <2>3
    <3>2. i \in Issues /\ i.repo = issue[n].repo /\ issue[n].listed \subseteq i.listed
      BY <2>1, <3>1 DEF Issues
    <3>3. issue' = [issue EXCEPT ![n] = i]
      BY <1>4, <2>3 DEF FileWrite
    <3> HIDE DEF n, i
    <3> QED
      BY <1>2, <3>1, <3>2, <3>3
  <2> QED
    BY <2>2, <2>3
<1>5. ASSUME NEW j \in Jobs, CloseWrite(j) PROVE IssuesKept
  <2> DEFINE n == target[j]
             i == [issue[n] EXCEPT !.open = FALSE]
  <2>1. n \in DOMAIN issue
    BY <1>0, <1>5 DEF CloseWrite, Typed, FindingsTypeOK, Placed
  <2>2. i \in Issues /\ i.repo = issue[n].repo /\ issue[n].listed \subseteq i.listed
    BY <1>0, <2>1 DEF Issues
  <2>3. issue' = [issue EXCEPT ![n] = i]
    BY <1>5 DEF CloseWrite
  <2> HIDE DEF n, i
  <2> QED
    BY <1>2, <2>1, <2>2, <2>3
<1>6. ASSUME NEW j \in Jobs, Quiet(j) \/ ScanStep(j) PROVE IssuesKept
  BY <1>1, <1>6, QuietKeeps DEF ScanStep
<1>7. ASSUME NEW e \in ExcKeys, Lapse(e) PROVE IssuesKept
  BY <1>1, <1>7 DEF Lapse
<1>8. CASE Restart
  BY <1>1, <1>8 DEF Restart
<1>9. CASE UNCHANGED storeVars
  BY <1>1, <1>9 DEF storeVars
<1> QED
  BY <1>4, <1>5, <1>6, <1>7, <1>8, <1>9 DEF StoreStep, Acts

(* Every step keeps every variable in its domain, and threads placed.      *)
LEMMA StepTyped == Typed /\ StoreStep => Typed'
<1> SUFFICES ASSUME Typed, StoreStep PROVE Typed'
  OBVIOUS
<1>0. /\ issue' \in Seq(Issues)
      /\ Len(issue) \in Nat /\ Len(issue') \in Nat /\ Len(issue) <= Len(issue')
      /\ \A r \in Repos : find_open_issue(r) \in 0..Len(issue)
  BY StepIssues, IssueLists, FoundIssue DEF IssuesKept, Typed, FindingsTypeOK
<1>j. (\A j \in Tasks : j \in Jobs) /\ (\A j \in Scans : j \in Jobs)
  BY DEF Jobs
<1> USE <1>0, KeysAssumption, JobsAssumption
    DEF Typed, FindingsTypeOK, Placed,
        tables, scans, threads, ghosts, Goto, End, Fault, CallFails
<1>1. ASSUME NEW j \in Jobs, NEW r \in Repos,
             FileFind(j, r) \/ FileFails(j, r) \/ CloseCheck(j, r)
      PROVE  Typed'
  <2>1. CASE FileFind(j, r)
    BY <1>1, <2>1 DEF FileFind
  <2>2. CASE FileFails(j, r)
    BY <1>1, <2>2 DEF FileFails, NextRepo, In
  <2>3. CASE CloseCheck(j, r)
    <3>1. CASE unresolved(r) = {}
      <4>1. /\ pc' = [pc EXCEPT ![j] = "closeFind"] /\ at' = [at EXCEPT ![j] = r]
            /\ UNCHANGED <<tables, scans, issue, todo, target, fresh, ghosts>>
        BY <1>1, <2>3, <3>1 DEF CloseCheck
      <4> QED
        BY <4>1
    <3>2. CASE unresolved(r) # {}
      <4>1. /\ todo' = [todo EXCEPT ![j] = @ \ {r}]
            /\ UNCHANGED <<tables, scans, issue, pc, at, target, fresh, ghosts>>
        BY <1>1, <2>3, <3>2 DEF CloseCheck
      <4> QED
        BY <4>1
    <3> QED
      BY <3>1, <3>2
  <2> QED
    BY <1>1, <2>1, <2>2, <2>3
<1>2. ASSUME NEW j \in Jobs, CloseFind(j) \/ CloseFails(j) PROVE Typed'
  <2>1. CASE CloseFind(j)
    <3>1. at[j] \in Repos /\ find_open_issue(at[j]) \in 0..Len(issue)
      BY <2>1 DEF CloseFind
    <3>2. CASE find_open_issue(at[j]) = 0
      <4>1. /\ pc' = [pc EXCEPT ![j] = "close"] /\ NextRepo(j, at[j])
            /\ UNCHANGED <<tables, scans, issue, fresh, ghosts>>
        BY <1>2, <2>1, <3>2 DEF CloseFind
      <4> QED
        BY <4>1 DEF NextRepo
    <3>3. CASE find_open_issue(at[j]) # 0
      <4>1. /\ pc' = [pc EXCEPT ![j] = "closeWrite"]
            /\ target' = [target EXCEPT ![j] = find_open_issue(at[j])]
            /\ UNCHANGED <<tables, scans, issue, todo, at, fresh, ghosts>>
        BY <1>2, <2>1, <3>3 DEF CloseFind
      <4> QED
        BY <3>1, <3>3, <4>1
    <3> QED
      BY <3>2, <3>3
  <2>2. CASE CloseFails(j)
    BY <1>2, <2>2 DEF CloseFails, NextRepo
  <2> QED
    BY <1>2, <2>1, <2>2
<1>3. ASSUME NEW j \in Jobs, FileWrite(j) \/ CloseWrite(j) PROVE Typed'
  <2>1. CASE FileWrite(j)
    <3>1. /\ showing' \in SUBSET Keys
          /\ \E gone \in SUBSET Keys : fresh' = [fresh EXCEPT ![j] = @ \ gone]
      BY <1>3, <2>1 DEF FileWrite, Filed, In
    <3> QED
      BY <1>3, <2>1, <3>1 DEF FileWrite, NextRepo
  <2>2. CASE CloseWrite(j)
    BY <1>3, <2>2 DEF CloseWrite, NextRepo
  <2> QED
    BY <1>3, <2>1, <2>2
<1>4. ASSUME NEW j \in Jobs, refile_issues(j) \/ TaskDone(j) \/ TaskFails(j)
      PROVE  Typed'
  <2>1. CASE refile_issues(j)
    <3>1. \E again \in SUBSET Keys : /\ fresh' = [fresh EXCEPT ![j] = again]
                                     /\ todo' = [todo EXCEPT ![j] = ReposOf(again)]
      BY <2>1 DEF refile_issues
    <3>2. \A again \in SUBSET Keys : ReposOf(again) \in SUBSET Repos
      BY DEF ReposOf
    <3> QED
      BY <1>4, <2>1, <3>1, <3>2 DEF refile_issues
  <2>2. CASE TaskDone(j)
    BY <1>4, <2>2 DEF TaskDone
  <2>3. CASE TaskFails(j)
    BY <1>4, <2>3 DEF TaskFails
  <2> QED
    BY <1>4, <2>1, <2>2, <2>3
<1>5. ASSUME NEW j \in Jobs, NEW k \in Keys, create_exception(j, k)
      PROVE  Typed'
  <2>1. overlapped' \in BOOLEAN /\ pc[j] = "idle"
        /\ \E s \in {"close", "done"} : pc' = [pc EXCEPT ![j] = s]
    BY <1>5 DEF create_exception, Enter
  <2> QED
    BY <1>5, <2>1 DEF create_exception
<1>6. ASSUME NEW j \in Jobs, NEW e \in ExcKeys, end_exception(j, e)
      PROVE  Typed'
  <2>1. overlapped' \in BOOLEAN /\ pc[j] = "idle"
        /\ \E s \in {"refile", "done"} : pc' = [pc EXCEPT ![j] = s]
        /\ (at' = [at EXCEPT ![j] = e] \/ at' = at)
        /\ excepted' \in SUBSET ExcKeys /\ lapsed' \in SUBSET ExcKeys
    BY <1>6 DEF end_exception, Enter
  <2>2. UNCHANGED <<row, scans, issue, todo, target, fresh, showing, givenUp, faults>>
    BY <1>6 DEF end_exception
  <2> QED
    <3>1. at' \in [Jobs -> Repos \union ExcKeys \union {"none"}]
      BY <2>1
    <3>2. /\ DOMAIN pc' = Jobs
          /\ pc'[j] \in {"refile", "done"} /\ \A i \in Jobs \ {j} : pc'[i] = pc[i]
          /\ \A i \in Jobs \ {j} : at'[i] = at[i]
      BY <1>6, <2>1
    <3>3. Placed'
      BY <2>2, <3>2
    <3> QED
      BY <1>6, <2>1, <2>2, <3>1, <3>2, <3>3
<1>7. ASSUME NEW j \in Jobs, ScanStep(j), FindingsTypeOK' PROVE Typed'
  BY <1>7 DEF ScanStep
<1>8. ASSUME NEW e \in ExcKeys, Lapse(e) PROVE Typed'
  BY <1>8 DEF Lapse
<1>9. CASE Restart
  BY <1>9, <1>j DEF Restart, NoPlan, InFlight, Over
<1>10. CASE UNCHANGED storeVars
  BY <1>10 DEF storeVars
<1> QED
  BY <1>1, <1>2, <1>3, <1>4, <1>5, <1>6, <1>7, <1>8, <1>9, <1>10 DEF StoreStep, Acts, Quiet

-----------------------------------------------------------------------------
(* A background task reads its findings after, and closes issues without.  *)
LEMMA StepTasks == Typed /\ TasksHoldNothing /\ StoreStep => TasksHoldNothing'
<1> SUFFICES ASSUME Typed, TasksHoldNothing, StoreStep, NEW t \in Tasks,
                    pc'[t] \in {"idle", "refile", "close", "closeFind", "closeWrite"}
             PROVE  fresh'[t] = {}
  BY DEF TasksHoldNothing
<1>0. /\ DOMAIN pc = Jobs /\ fresh \in [Jobs -> SUBSET Keys]
      /\ t \in Jobs /\ t \notin Scans
      /\ pc[t] \in {"idle", "refile", "close", "closeFind", "closeWrite"} => fresh[t] = {}
  BY JobsAssumption DEF Typed, FindingsTypeOK, Jobs, Scans, Tasks, TasksHoldNothing
<1> USE <1>0 DEF Goto, End, threads, ghosts
<1>1. ASSUME NEW j \in Jobs, NEW r \in Repos,
             FileFind(j, r) \/ FileFails(j, r) \/ CloseCheck(j, r)
      PROVE  fresh'[t] = {}
  BY <1>1 DEF FileFind, FileFails, CloseCheck
<1>2. ASSUME NEW j \in Jobs, FileWrite(j) \/ CloseWrite(j) \/ CloseFind(j) \/ CloseFails(j)
      PROVE  fresh'[t] = {}
  <2>1. CASE CloseFind(j)
    <3>1. fresh' = fresh /\ pc[j] = "closeFind" /\ \A i \in Jobs \ {j} : pc'[i] = pc[i]
      BY <2>1 DEF CloseFind
    <3> QED
      BY <3>1
  <2> QED
    BY <1>2, <2>1 DEF FileWrite, CloseWrite, CloseFails
<1>3. ASSUME NEW j \in Jobs, refile_issues(j) \/ TaskDone(j) \/ TaskFails(j)
      PROVE  fresh'[t] = {}
  BY <1>3 DEF refile_issues, TaskDone, TaskFails
<1>4. ASSUME NEW j \in Jobs, \/ \E k \in Keys : create_exception(j, k)
                             \/ \E e \in ExcKeys : end_exception(j, e)
      PROVE  fresh'[t] = {}
  <2>1. fresh' = fresh /\ pc[j] = "idle" /\ \A i \in Jobs \ {j} : pc'[i] = pc[i]
    BY <1>4 DEF create_exception, end_exception, Enter
  <2> QED
    BY <2>1
<1>5. ASSUME NEW j \in Jobs, ScanStep(j) PROVE fresh'[t] = {}
  <2>1. t # j /\ pc'[t] = pc[t] /\ fresh'[t] = fresh[t]
    BY <1>5 DEF ScanStep
  <2> QED
    BY <2>1
<1>6. ASSUME NEW e \in ExcKeys, Lapse(e) PROVE fresh'[t] = {}
  BY <1>6 DEF Lapse
<1>7. CASE Restart
  BY <1>7 DEF Restart
<1>8. CASE UNCHANGED storeVars
  BY <1>8 DEF storeVars
<1> QED
  BY <1>1, <1>2, <1>3, <1>4, <1>5, <1>6, <1>7, <1>8 DEF StoreStep, Acts, Quiet

(* A new finding is to be filed, has been filed, or was given up.          *)
Accounted(k) == \/ k \in givenUp
                \/ \E n \in DOMAIN issue : k \in issue[n].listed
                \/ \E j \in Jobs : k \in fresh[j]

(* No step loses one; what a thread drops is filed or given up.            *)
LEMMA StepAccounted ==
  ASSUME Typed, TasksHoldNothing, StoreStep, NEW k \in Keys, Accounted(k)
  PROVE  Accounted(k)'
<1>0. /\ IssuesKept /\ fresh \in [Jobs -> SUBSET Keys] /\ DOMAIN pc = Jobs
      /\ issue \in Seq(Issues) /\ DOMAIN issue = 1..Len(issue) /\ Len(issue) \in Nat
      /\ \A n \in DOMAIN issue : issue[n] \in Issues
      /\ target \in [Jobs -> 0..Len(issue)] /\ \A j \in Tasks : j \in Jobs
  BY StepIssues, IssueLists DEF Typed, FindingsTypeOK, Jobs, Tasks
<1> USE DEF ghosts, threads
<1>1. ASSUME givenUp \subseteq givenUp',
             \A j \in Jobs : k \in fresh[j] => k \in fresh'[j] \/ k \in givenUp'
      PROVE  Accounted(k)'
  BY <1>0, <1>1 DEF IssuesKept, Accounted
<1>2. ASSUME NEW j \in Jobs, NEW r \in Repos,
             FileFind(j, r) \/ FileFails(j, r) \/ CloseCheck(j, r)
      PROVE  Accounted(k)'
  BY <1>0, <1>1, <1>2 DEF FileFind, FileFails, CloseCheck
<1>3. ASSUME NEW j \in Jobs, FileWrite(j) PROVE Accounted(k)'
  <2>1. /\ givenUp' = givenUp
        /\ \A i \in Jobs : fresh[i] \ fresh'[i] \subseteq Filed(j)
    BY <1>0, <1>3 DEF FileWrite
  <2>2. \E n \in DOMAIN issue' : Filed(j) \subseteq issue'[n].listed
    <3>1. CASE target[j] = 0
      <4> DEFINE new == [repo |-> at[j], open |-> TRUE, listed |-> Filed(j)]
      <4>1. new \in Issues
        BY <1>3 DEF FileWrite, Issues, Filed, In, Typed, FindingsTypeOK, Placed
      <4>2. issue' = Append(issue, new)
        BY <1>3, <3>1 DEF FileWrite
      <4>3. new.listed = Filed(j)
        OBVIOUS
      <4> HIDE DEF new
      <4>4. Len(issue) + 1 \in DOMAIN issue' /\ issue'[Len(issue) + 1] = new
        BY <1>0, <4>1, <4>2, IssueLists
      <4> QED
        BY <4>3, <4>4
    <3>2. CASE target[j] # 0
      <4>1. target[j] \in DOMAIN issue
        BY <1>0, <3>2
      <4>2. issue' = [issue EXCEPT ![target[j]].listed = @ \union Filed(j)]
        BY <1>3, <3>2 DEF FileWrite
      <4>3. issue'[target[j]].listed = issue[target[j]].listed \union Filed(j)
        BY <1>0, <4>1, <4>2 DEF Issues
      <4> QED
        BY <4>1, <4>2, <4>3
    <3> QED
      BY <3>1, <3>2
  <2>3. CASE \E i \in Jobs : k \in fresh[i] /\ k \in Filed(j)
    BY <2>2, <2>3 DEF Accounted
  <2>4. CASE \A i \in Jobs : k \in fresh[i] => k \notin Filed(j)
    BY <1>0, <1>1, <2>1, <2>4
  <2> QED
    BY <2>3, <2>4
<1>4. ASSUME NEW j \in Jobs, CloseWrite(j) \/ CloseFind(j) \/ CloseFails(j)
      PROVE  Accounted(k)'
  BY <1>0, <1>1, <1>4 DEF CloseWrite, CloseFind, CloseFails
<1>5. ASSUME NEW j \in Tasks, refile_issues(j) \/ TaskDone(j) \/ TaskFails(j)
      PROVE  Accounted(k)'
  <2>1. CASE TaskDone(j)
    BY <1>1, <2>1 DEF TaskDone
  <2>2. CASE refile_issues(j) \/ TaskFails(j)
    <3>1. fresh[j] = {}
      BY <1>5, <2>2 DEF TasksHoldNothing, refile_issues, TaskFails
    <3>2. givenUp' = givenUp /\ \A i \in Jobs \ {j} : fresh'[i] = fresh[i]
      BY <1>0, <2>2 DEF refile_issues, TaskFails, End
    <3> QED
      BY <1>1, <3>1, <3>2
  <2> QED
    BY <1>5, <2>1, <2>2
<1>6. ASSUME NEW j \in Jobs, \/ \E q \in Keys : create_exception(j, q)
                             \/ \E e \in ExcKeys : end_exception(j, e)
      PROVE  Accounted(k)'
  BY <1>1, <1>6 DEF create_exception, end_exception
<1>7. ASSUME NEW j \in Jobs, ScanStep(j) PROVE Accounted(k)'
  BY <1>1, <1>7 DEF ScanStep
<1>8. ASSUME NEW e \in ExcKeys, Lapse(e) PROVE Accounted(k)'
  BY <1>1, <1>8 DEF Lapse
<1>9. CASE Restart
  BY <1>1, <1>9 DEF Restart
<1>10. CASE UNCHANGED storeVars
  BY <1>1, <1>10 DEF storeVars
<1> QED
  BY <1>2, <1>3, <1>4, <1>5, <1>6, <1>7, <1>8, <1>9, <1>10 DEF StoreStep, Acts, Quiet

(* The rows are written by steps of a scan alone.                          *)
LEMMA RowSteps ==
  ASSUME StoreStep
  PROVE  row' = row \/ \E j \in Scans : ScanStep(j)
<1> USE DEF tables, ghosts
<1>1. ASSUME NEW j \in Jobs, Acts(j)
      PROVE  row' = row \/ ScanStep(j)
  BY <1>1, QuietKeeps DEF Acts, FileWrite, CloseWrite
<1>2. ASSUME NEW e \in ExcKeys, Lapse(e) PROVE row' = row
  BY <1>2 DEF Lapse
<1>3. ASSUME Restart \/ UNCHANGED storeVars PROVE row' = row
  BY <1>3 DEF Restart, storeVars
<1> QED
  BY <1>1, <1>2, <1>3 DEF StoreStep, ScanStep

(* A row comes into being with an insert, which is a new finding.          *)
LEMMA StepNew ==
  ASSUME Typed, TasksHoldNothing, NewFindingsAccountedFor, StoreStep
  PROVE  NewFindingsAccountedFor'
<1> SUFFICES ASSUME NEW k \in Keys, row'[k] # "absent" PROVE Accounted(k)'
  BY DEF NewFindingsAccountedFor, Accounted
<1>1. CASE row[k] # "absent"
  BY <1>1, StepAccounted DEF NewFindingsAccountedFor, Accounted
<1>2. CASE row[k] = "absent"
  BY <1>2, RowSteps DEF ScanStep, Accounted, Jobs
<1> QED
  BY <1>1, <1>2

-----------------------------------------------------------------------------
(* While no two threads have overlapped, the one that acts is alone.       *)
ActsAlone(j) == /\ ~overlapped
                /\ \A i \in Jobs \ {j} : pc'[i] = pc[i] /\ ~InFlight(i)

LEMMA OneActs ==
  ASSUME Typed, Alone, NEW j \in Jobs, Acts(j), ~overlapped'
  PROVE  ActsAlone(j)
<1>0. DOMAIN pc = Jobs
  BY DEF Typed, FindingsTypeOK
<1> USE <1>0 DEF Goto, End, threads, ghosts
<1>1. ASSUME UNCHANGED overlapped, InFlight(j), \A i \in Jobs \ {j} : pc'[i] = pc[i]
      PROVE  ActsAlone(j)
  BY <1>1 DEF Alone, ActsAlone
<1>2. ASSUME NEW stage, Enter(j, stage) PROVE ActsAlone(j)
  <2>1. overlapped' = (overlapped \/ {i \in Jobs : InFlight(i)} # {})
    BY <1>2 DEF Enter
  <2>2. \A i \in Jobs \ {j} : pc'[i] = pc[i]
    BY <1>2 DEF Enter
  <2> QED
    BY <2>1, <2>2 DEF ActsAlone
<1>3. ASSUME NEW r \in Repos, FileFind(j, r) \/ FileFails(j, r) \/ CloseCheck(j, r)
      PROVE  ActsAlone(j)
  BY <1>1, <1>3 DEF FileFind, FileFails, CloseCheck, InFlight, Over
<1>4. ASSUME FileWrite(j) \/ CloseWrite(j) \/ CloseFails(j) PROVE ActsAlone(j)
  BY <1>1, <1>4 DEF FileWrite, CloseWrite, CloseFails, InFlight, Over
<1>5. ASSUME CloseFind(j) PROVE ActsAlone(j)
  <2>1. pc[j] = "closeFind" /\ \A i \in Jobs \ {j} : pc'[i] = pc[i]
    BY <1>5 DEF CloseFind
  <2> QED
    BY <1>1, <1>5, <2>1 DEF CloseFind, InFlight, Over
<1>6. ASSUME refile_issues(j) \/ TaskDone(j) \/ TaskFails(j) PROVE ActsAlone(j)
  BY <1>1, <1>6 DEF refile_issues, TaskDone, TaskFails, InFlight, Over
<1>7. ASSUME \/ \E k \in Keys : create_exception(j, k)
             \/ \E e \in ExcKeys : end_exception(j, e)
      PROVE  ActsAlone(j)
  <2>1. \E stage \in {"close", "done", "refile"} : Enter(j, stage)
    BY <1>7 DEF create_exception, end_exception
  <2> QED
    BY <1>2, <2>1
<1>8. ASSUME ScanStep(j) PROVE ActsAlone(j)
  BY <1>1, <1>8 DEF ScanStep, ActsAlone
<1> QED
  BY <1>3, <1>4, <1>5, <1>6, <1>7, <1>8 DEF Acts, Quiet

(* A thread moves no other.                                                *)
LEMMA OneMoves ==
  ASSUME DOMAIN pc = Jobs, NEW j \in Jobs, Acts(j), NEW i \in Jobs \ {j}
  PROVE  pc'[i] = pc[i]
<1> USE DEF Goto, End, threads
<1>1. ASSUME NEW r \in Repos, FileFind(j, r) \/ FileFails(j, r) \/ CloseCheck(j, r)
      PROVE  pc'[i] = pc[i]
  BY <1>1 DEF FileFind, FileFails, CloseCheck
<1>2. ASSUME CloseFind(j) \/ FileWrite(j) \/ CloseWrite(j) \/ CloseFails(j)
      PROVE  pc'[i] = pc[i]
  BY <1>2 DEF CloseFind, FileWrite, CloseWrite, CloseFails
<1>3. ASSUME \/ refile_issues(j) \/ TaskDone(j) \/ TaskFails(j)
             \/ \E k \in Keys : create_exception(j, k)
             \/ \E e \in ExcKeys : end_exception(j, e)
      PROVE  pc'[i] = pc[i]
  BY <1>3 DEF refile_issues, TaskDone, TaskFails, create_exception, end_exception, Enter
<1> QED
  BY <1>1, <1>2, <1>3 DEF Acts, Quiet, ScanStep

(* So it stays, and a thread that enters finds none under way.             *)
LEMMA StepAlone == Typed /\ Alone /\ StoreStep => Alone'
<1> SUFFICES ASSUME Typed, Alone, StoreStep PROVE Alone'
  OBVIOUS
<1>1. ASSUME NEW j \in Jobs, Acts(j) PROVE Alone'
  BY <1>1, OneActs DEF ActsAlone, Alone, InFlight
<1>2. ASSUME NEW e \in ExcKeys, Lapse(e) PROVE Alone'
  BY <1>2 DEF Lapse, threads, ghosts, Alone, InFlight
<1>3. CASE Restart
  BY <1>3 DEF Restart, Alone, InFlight, Over
<1>4. CASE UNCHANGED storeVars
  BY <1>4 DEF storeVars, threads, ghosts, Alone, InFlight
<1> QED
  BY <1>1, <1>2, <1>3, <1>4 DEF StoreStep

(* What is shown is unresolved and not excepted: what is resolved, or      *)
(* excepted, is not meant to be shown any longer.                          *)
LEMMA StepShownIsUnresolved ==
  ASSUME Typed, ShownIsUnresolved, StoreStep
  PROVE  ShownIsUnresolved'
<1>0. /\ row \in [Keys -> {"absent", "open", "resolved"}] /\ showing \in SUBSET Keys
      /\ fresh \in [Jobs -> SUBSET Keys]
  BY DEF Typed, FindingsTypeOK
<1> USE DEF tables, ghosts
<1>1. ASSUME showing' \subseteq showing, excepted' \subseteq excepted,
             \A k \in showing' : row'[k] = row[k]
      PROVE  ShownIsUnresolved'
  BY <1>1 DEF ShownIsUnresolved, Excepted
<1>2. ASSUME NEW j \in Jobs, NEW r \in Repos,
             FileFind(j, r) \/ FileFails(j, r) \/ CloseCheck(j, r)
      PROVE  ShownIsUnresolved'
  BY <1>1, <1>2 DEF FileFind, FileFails, CloseCheck
<1>3. ASSUME NEW j \in Jobs, \/ CloseWrite(j) \/ CloseFind(j) \/ CloseFails(j)
                             \/ refile_issues(j) \/ TaskDone(j) \/ TaskFails(j)
      PROVE  ShownIsUnresolved'
  BY <1>1, <1>3 DEF CloseWrite, CloseFind, CloseFails, refile_issues, TaskDone, TaskFails
<1>4. ASSUME NEW j \in Jobs, FileWrite(j) PROVE ShownIsUnresolved'
  BY <1>4 DEF FileWrite, Filed, In, ShownIsUnresolved, Excepted
<1>5. ASSUME NEW j \in Jobs, NEW k \in Keys, create_exception(j, k)
      PROVE  ShownIsUnresolved'
  BY <1>5 DEF create_exception, ShownIsUnresolved, Excepted
<1>6. ASSUME NEW j \in Jobs, NEW e \in ExcKeys, end_exception(j, e) PROVE ShownIsUnresolved'
  <2>1. excepted' \subseteq excepted /\ row' = row /\ showing' = showing
    BY <1>6 DEF end_exception
  <2> QED
    BY <1>1, <2>1
<1>7. ASSUME NEW j \in Jobs, ScanStep(j) PROVE ShownIsUnresolved'
  BY <1>1, <1>7 DEF ScanStep
<1>8. ASSUME NEW e \in ExcKeys, Lapse(e) PROVE ShownIsUnresolved'
  BY <1>1, <1>8 DEF Lapse
<1>9. CASE Restart
  BY <1>1, <1>9 DEF Restart
<1>10. CASE UNCHANGED storeVars
  BY <1>1, <1>10 DEF storeVars
<1> QED
  BY <1>2, <1>3, <1>4, <1>5, <1>6, <1>7, <1>8, <1>9, <1>10 DEF StoreStep, Acts, Quiet

(* The stages in which a thread relies on what it has found are entered    *)
(* by the three actions that look.                                         *)
LEMMA Looks ==
  ASSUME Typed, NEW j \in Jobs, Acts(j),
         pc'[j] \in {"fileWrite", "closeFind", "closeWrite"}
  PROVE  (\E r \in Repos : FileFind(j, r) \/ CloseCheck(j, r)) \/ CloseFind(j)
<1>0. DOMAIN pc = Jobs
  BY DEF Typed, FindingsTypeOK
<1> USE <1>0 DEF Goto, End, threads
<1>1. ASSUME NEW r \in Repos, FileFails(j, r) PROVE FALSE
  BY <1>1 DEF FileFails
<1>2. ASSUME \/ CloseFails(j) \/ FileWrite(j) \/ CloseWrite(j)
             \/ refile_issues(j) \/ TaskDone(j) \/ TaskFails(j)
      PROVE  FALSE
  BY <1>2 DEF CloseFails, FileWrite, CloseWrite, refile_issues, TaskDone, TaskFails
<1>3. ASSUME \/ \E k \in Keys : create_exception(j, k)
             \/ \E e \in ExcKeys : end_exception(j, e)
      PROVE  FALSE
  <2>1. \E stage \in {"close", "done", "refile"} : Enter(j, stage)
    BY <1>3 DEF create_exception, end_exception
  <2>2. pc'[j] \in {"close", "done", "refile"}
    BY <2>1 DEF Enter
  <2> QED
    BY <2>2
<1>4. ASSUME ScanStep(j) PROVE FALSE
  BY <1>4 DEF ScanStep
<1> QED
  BY <1>1, <1>2, <1>3, <1>4 DEF Acts, Quiet

(* What the thread that acts alone has looked at has not changed since.    *)
LEMMA StepCurrent ==
  ASSUME Typed, Alone, Current, ShownIsUnresolved, StoreStep
  PROVE  Current'
<1>0. /\ DOMAIN pc = Jobs /\ issue \in Seq(Issues) /\ showing \in SUBSET Keys
      /\ at \in [Jobs -> Repos \union ExcKeys \union {"none"}]
      /\ target \in [Jobs -> 0..Len(issue)]
  BY DEF Typed, FindingsTypeOK
<1> USE DEF Goto, threads, ghosts, tables
<1>1. ASSUME NEW j \in Jobs, Acts(j) PROVE Current'
  <2> SUFFICES ASSUME ~overlapped',
                      pc'[j] \in {"fileWrite", "closeFind", "closeWrite"}
               PROVE  Current'
    <3>1. ASSUME ~overlapped', pc'[j] \notin {"fileWrite", "closeFind", "closeWrite"}
          PROVE  Current'
      <4>1. \A i \in Jobs : pc'[i] \notin {"fileWrite", "closeFind", "closeWrite"}
        BY <1>1, <3>1, OneActs DEF ActsAlone, InFlight, Over
      <4> QED
        BY <4>1 DEF Current
    <3> QED
      BY <3>1 DEF Current
  <2>1. /\ ~overlapped
        /\ \A i \in Jobs \ {j} : pc'[i] \notin {"fileWrite", "closeFind", "closeWrite"}
    BY <1>1, OneActs DEF ActsAlone, InFlight, Over
  <2>2. ASSUME NEW r \in Repos, FileFind(j, r) PROVE Current'
    <3>1. /\ pc'[j] = "fileWrite" /\ at'[j] = r /\ target'[j] = find_open_issue(r)
          /\ issue' = issue
      BY <1>0, <2>2 DEF FileFind
    <3> QED
      BY <1>0, <2>1, <3>1, FoundIssue DEF Current
  <2>3. ASSUME NEW r \in Repos, CloseCheck(j, r) PROVE Current'
    <3>1. unresolved(r) = {}
      <4>1. CASE unresolved(r) # {}
        BY <2>3, <4>1 DEF CloseCheck
      <4> QED
        BY <4>1
    <3>2. /\ pc'[j] = "closeFind" /\ at'[j] = r /\ showing' = showing
      BY <1>0, <2>3, <3>1 DEF CloseCheck
    <3>3. \A k \in showing : RepoOf[k] # r
      BY <1>0, <3>1 DEF unresolved, In, ShownIsUnresolved
    <3> QED
      BY <2>1, <3>2, <3>3 DEF Current
  <2>4. CASE CloseFind(j)
    <3>1. at[j] \in Repos /\ pc[j] = "closeFind"
      BY <2>4 DEF CloseFind, Typed, Placed
    <3>2. find_open_issue(at[j]) # 0
      <4>1. CASE find_open_issue(at[j]) = 0
        BY <1>0, <2>4, <4>1 DEF CloseFind
      <4> QED
        BY <4>1
    <3>3. /\ pc'[j] = "closeWrite" /\ at' = at /\ target'[j] = find_open_issue(at[j])
          /\ issue' = issue /\ showing' = showing
      BY <1>0, <2>4, <3>2 DEF CloseFind
    <3>4. \A k \in showing : RepoOf[k] # at[j]
      BY <2>1, <3>1 DEF Current
    <3> QED
      BY <1>0, <2>1, <3>1, <3>2, <3>3, <3>4, FoundIssue DEF Current
  <2> QED
    BY <1>1, <2>2, <2>3, <2>4, Looks
<1>2. ASSUME NEW e \in ExcKeys, Lapse(e) PROVE Current'
  BY <1>2 DEF Lapse, Current
<1>3. CASE Restart
  BY <1>3 DEF Restart, Current, InFlight, Over
<1>4. CASE UNCHANGED storeVars
  BY <1>4 DEF storeVars, Current
<1> QED
  BY <1>1, <1>2, <1>3, <1>4 DEF StoreStep

-----------------------------------------------------------------------------
(* A thread that acts alone files findings in the one open issue of the    *)
(* repository, be it new or not.                                           *)
LEMMA FilesAlone ==
  ASSUME Typed, Alone, Current, NEW j \in Jobs, FileWrite(j), ~overlapped'
  PROVE  \E n \in DOMAIN issue' :
            /\ issue'[n].open /\ issue'[n].repo = at[j]
            /\ Filed(j) \subseteq issue'[n].listed
            /\ n \in DOMAIN issue => /\ issue[n].open
                                     /\ issue'[n].listed = issue[n].listed \union Filed(j)
            /\ n \notin DOMAIN issue =>
                  /\ issue'[n].listed = Filed(j)
                  /\ \A m \in DOMAIN issue : issue[m].repo = at[j] => ~issue[m].open
            /\ \A m \in DOMAIN issue' : m # n => m \in DOMAIN issue /\ issue'[m] = issue[m]
<1>0. /\ issue \in Seq(Issues) /\ DOMAIN issue = 1..Len(issue) /\ Len(issue) \in Nat
      /\ \A n \in DOMAIN issue : issue[n] \in Issues
      /\ at[j] \in Repos /\ target[j] \in 0..Len(issue) /\ Filed(j) \in SUBSET Keys
      /\ pc[j] = "fileWrite" /\ ~overlapped
  BY IssueLists DEF FileWrite, Typed, FindingsTypeOK, Placed, Filed, In
<1>1. CASE target[j] = 0
  <2> DEFINE new == [repo |-> at[j], open |-> TRUE, listed |-> Filed(j)]
  <2>1. new \in Issues /\ new.open /\ new.repo = at[j] /\ new.listed = Filed(j)
    BY <1>0 DEF Issues
  <2>2. issue' = Append(issue, new)
    BY <1>1 DEF FileWrite
  <2>3. \A m \in DOMAIN issue : issue[m].repo = at[j] => ~issue[m].open
    BY <1>0, <1>1 DEF Current
  <2> HIDE DEF new
  <2>4. /\ DOMAIN issue' = 1..Len(issue) + 1 /\ issue'[Len(issue) + 1] = new
        /\ \A m \in DOMAIN issue : issue'[m] = issue[m]
    BY <1>0, <2>1, <2>2, IssueLists
  <2>5. /\ Len(issue) + 1 \in DOMAIN issue' /\ Len(issue) + 1 \notin DOMAIN issue
        /\ \A m \in DOMAIN issue' : m # Len(issue) + 1 => m \in DOMAIN issue
    BY <1>0, <2>4
  <2> QED
    BY <2>1, <2>3, <2>4, <2>5
<1>2. CASE target[j] # 0
  <2> DEFINE n == target[j]
  <2>1. n \in DOMAIN issue /\ issue[n] \in Issues
    BY <1>0, <1>2
  <2>2. issue' = [issue EXCEPT ![n].listed = @ \union Filed(j)]
    BY <1>2 DEF FileWrite
  <2>3. /\ DOMAIN issue' = DOMAIN issue
        /\ issue'[n] = [issue[n] EXCEPT !.listed = @ \union Filed(j)]
        /\ \A m \in DOMAIN issue : m # n => issue'[m] = issue[m]
    BY <2>1, <2>2
  <2>4. /\ issue'[n].listed = issue[n].listed \union Filed(j)
        /\ issue'[n].open = issue[n].open /\ issue'[n].repo = issue[n].repo
    BY <2>1, <2>3 DEF Issues
  <2>5. issue[n].open /\ issue[n].repo = at[j]
    BY <1>0, <1>2 DEF Current
  <2> QED
    BY <2>1, <2>3, <2>4, <2>5
<1> QED
  BY <1>1, <1>2

(* And it closes an issue only of a repository that has nothing to show.   *)
LEMMA ClosesAlone ==
  ASSUME Typed, Alone, Current, NEW j \in Jobs, CloseWrite(j), ~overlapped'
  PROVE  \E n \in DOMAIN issue :
            /\ DOMAIN issue' = DOMAIN issue
            /\ issue[n].repo = at[j] /\ \A k \in showing : RepoOf[k] # at[j]
            /\ ~issue'[n].open /\ issue'[n].listed = issue[n].listed
            /\ issue'[n].repo = issue[n].repo
            /\ \A m \in DOMAIN issue : m # n => issue'[m] = issue[m]
            /\ showing' = showing
<1>0. /\ issue \in Seq(Issues) /\ DOMAIN issue = 1..Len(issue) /\ Len(issue) \in Nat
      /\ \A n \in DOMAIN issue : issue[n] \in Issues
      /\ target[j] \in DOMAIN issue /\ pc[j] = "closeWrite" /\ ~overlapped
      /\ showing' = showing
  BY IssueLists DEF CloseWrite, Typed, FindingsTypeOK, Placed, ghosts
<1> DEFINE n == target[j]
<1>1. issue' = [issue EXCEPT ![n].open = FALSE]
  BY DEF CloseWrite
<1>2. /\ DOMAIN issue' = DOMAIN issue
      /\ issue'[n] = [issue[n] EXCEPT !.open = FALSE]
      /\ \A m \in DOMAIN issue : m # n => issue'[m] = issue[m]
  BY <1>0, <1>1
<1>3. ~issue'[n].open /\ issue'[n].listed = issue[n].listed /\ issue'[n].repo = issue[n].repo
  BY <1>0, <1>2 DEF Issues
<1>4. issue[n].repo = at[j] /\ \A k \in showing : RepoOf[k] # at[j]
  BY <1>0 DEF Current
<1> QED
  BY <1>0, <1>2, <1>3, <1>4

(* So there is one open issue per repository, what it lists is of that     *)
(* repository, and what is shown is in it.                                 *)
LEMMA StepOneOpenIssue ==
  ASSUME Typed, Alone, Current, OneOpenIssue, ListedAtHome, ShownWhileUnresolved,
         StoreStep
  PROVE  OneOpenIssue' /\ ListedAtHome' /\ ShownWhileUnresolved'
<1> DEFINE Goal == OneOpenIssue' /\ ListedAtHome' /\ ShownWhileUnresolved'
<1> SUFFICES ASSUME ~overlapped' PROVE Goal
  BY DEF OneOpenIssue, ListedAtHome, ShownWhileUnresolved
<1>1. ASSUME ~overlapped, issue' = issue, showing' \subseteq showing PROVE Goal
  BY <1>1 DEF OneOpenIssue, ListedAtHome, ShownWhileUnresolved
<1>2. ASSUME NEW j \in Jobs, FileWrite(j) PROVE Goal
  <2>0. ~overlapped
    BY <1>2 DEF FileWrite
  <2>1. PICK n \in DOMAIN issue' :
            /\ issue'[n].open /\ issue'[n].repo = at[j]
            /\ Filed(j) \subseteq issue'[n].listed
            /\ n \in DOMAIN issue => /\ issue[n].open
                                     /\ issue'[n].listed = issue[n].listed \union Filed(j)
            /\ n \notin DOMAIN issue =>
                  /\ issue'[n].listed = Filed(j)
                  /\ \A m \in DOMAIN issue : issue[m].repo = at[j] => ~issue[m].open
            /\ \A m \in DOMAIN issue' : m # n => m \in DOMAIN issue /\ issue'[m] = issue[m]
    BY <1>2, FilesAlone
  <2>2. IssuesKept
    BY StepIssues
  <2>3. OneOpenIssue'
    BY <2>0, <2>1, <2>2 DEF OneOpenIssue, IssuesKept
  <2>4. \A k \in Filed(j) : RepoOf[k] = at[j]
    BY DEF Filed, In
  <2>5. ListedAtHome'
    BY <2>0, <2>1, <2>2, <2>4 DEF ListedAtHome, IssuesKept
  <2>6. showing' \subseteq showing \union Filed(j)
    BY <1>2 DEF FileWrite
  <2>7. \A m \in DOMAIN issue : /\ m \in DOMAIN issue' /\ issue[m].listed \subseteq issue'[m].listed
                                /\ issue[m].open => issue'[m].open
    BY <2>1, <2>2 DEF IssuesKept
  <2>8. ShownWhileUnresolved'
    BY <2>0, <2>1, <2>6, <2>7 DEF ShownWhileUnresolved
  <2> QED
    BY <2>3, <2>5, <2>8
<1>3. ASSUME NEW j \in Jobs, CloseWrite(j) PROVE Goal
  <2>0. ~overlapped
    BY <1>3 DEF CloseWrite, ghosts
  <2>1. PICK n \in DOMAIN issue :
            /\ DOMAIN issue' = DOMAIN issue
            /\ issue[n].repo = at[j] /\ \A k \in showing : RepoOf[k] # at[j]
            /\ ~issue'[n].open /\ issue'[n].listed = issue[n].listed
            /\ issue'[n].repo = issue[n].repo
            /\ \A m \in DOMAIN issue : m # n => issue'[m] = issue[m]
            /\ showing' = showing
    BY <1>3, ClosesAlone
  <2>2. OneOpenIssue' /\ ListedAtHome'
    BY <2>0, <2>1 DEF OneOpenIssue, ListedAtHome
  <2>3. \A k \in showing : k \notin issue[n].listed
    BY <2>0, <2>1 DEF ListedAtHome
  <2>4. ShownWhileUnresolved'
    BY <2>0, <2>1, <2>3 DEF ShownWhileUnresolved
  <2> QED
    BY <2>2, <2>4
<1>4. ASSUME NEW j \in Jobs, Quiet(j) \/ (ScanStep(j) /\ FindingsTypeOK') PROVE Goal
  <2>1. ~overlapped
    BY <1>4, OneActs DEF Acts, ActsAlone
  <2>2. issue' = issue /\ showing' \subseteq showing
    BY <1>4, QuietKeeps DEF ScanStep
  <2> QED
    BY <1>1, <2>1, <2>2
<1>5. ASSUME NEW e \in ExcKeys, Lapse(e) PROVE Goal
  BY <1>1, <1>5 DEF Lapse, ghosts
<1>6. CASE Restart
  BY <1>1, <1>6 DEF Restart
<1>7. CASE UNCHANGED storeVars
  BY <1>1, <1>7 DEF storeVars, ghosts
<1> QED
  BY <1>2, <1>3, <1>4, <1>5, <1>6, <1>7 DEF StoreStep, Acts

-----------------------------------------------------------------------------
(* Nothing is known, filed or under way at first.                          *)
LEMMA InitStore == FindingsInit => StoreInv
<1> SUFFICES ASSUME FindingsInit PROVE StoreInv
  OBVIOUS
<1> USE DEF FindingsInit
<1>0. issue \in Seq(Issues) /\ DOMAIN issue = {} /\ Len(issue) = 0
  BY EmptySeq
<1>1. \A j \in Jobs : pc[j] = "idle" /\ fresh[j] = {}
  OBVIOUS
<1>2. Typed
  <2>1. DOMAIN pc = Jobs /\ target \in [Jobs -> 0..Len(issue)] /\ faults \in 0..MaxFaults
    BY <1>0, JobsAssumption
  <2>2. FindingsTypeOK
    BY <1>0, <2>1 DEF FindingsTypeOK, NoPlan
  <2> QED
    BY <1>1, <2>2 DEF Typed, Placed
<1>3. TasksHoldNothing /\ NewFindingsAccountedFor
  BY <1>1 DEF TasksHoldNothing, NewFindingsAccountedFor, Jobs
<1>4. Alone /\ Current /\ OneOpenIssue
  BY <1>0, <1>1 DEF Alone, InFlight, Over, Current, OneOpenIssue
<1>5. ListedAtHome /\ ShownIsUnresolved /\ ShownWhileUnresolved
  BY <1>0 DEF ListedAtHome, ShownIsUnresolved, ShownWhileUnresolved
<1> QED
  BY <1>2, <1>3, <1>4, <1>5 DEF StoreInv

(* Every step of the store keeps its invariant.                            *)
LEMMA StepStore == StoreInv /\ StoreStep => StoreInv'
<1> SUFFICES ASSUME StoreInv, StoreStep PROVE StoreInv'
  OBVIOUS
<1> USE DEF StoreInv
<1>1. Typed' /\ TasksHoldNothing' /\ NewFindingsAccountedFor'
  BY StepTyped, StepTasks, StepNew
<1>2. Alone' /\ Current' /\ ShownIsUnresolved'
  BY StepAlone, StepCurrent, StepShownIsUnresolved
<1>3. OneOpenIssue' /\ ListedAtHome' /\ ShownWhileUnresolved'
  BY StepOneOpenIssue
<1> QED
  BY <1>1, <1>2, <1>3

-----------------------------------------------------------------------------
(* The stages of the filing and the closing.                               *)
Filing == {"file", "fileWrite"}
Closing == {"close", "closeFind", "closeWrite"}
Reporting == Filing \union Closing

(* What a thread is to file is in repositories it still has to go through. *)
ToBeFiled(i) == \A k \in fresh[i] : RepoOf[k] \in todo[i]

(* The reporting leads threads to its own stages, or ends them.            *)
LEMMA ReporterStages ==
  ASSUME FindingsTypeOK, ReporterStep, NEW i \in Jobs
  PROVE  pc'[i] = pc[i] \/ pc'[i] \in Reporting \union {"refile", "done", "failed"}
<1>0. DOMAIN pc = Jobs
  BY DEF FindingsTypeOK
<1> USE <1>0 DEF Goto, End, threads, Reporting, Filing, Closing
<1>1. ASSUME NEW j \in Jobs, NEW r \in Repos,
             FileFind(j, r) \/ FileFails(j, r) \/ CloseCheck(j, r)
      PROVE  pc'[i] = pc[i] \/ pc'[i] \in Reporting
  BY <1>1 DEF FileFind, FileFails, CloseCheck
<1>2. ASSUME NEW j \in Jobs, CloseFind(j)
      PROVE  pc'[i] = pc[i] \/ pc'[i] \in Reporting
  <2>1. \E stage \in {"close", "closeWrite"} : pc' = [pc EXCEPT ![j] = stage]
    BY <1>2 DEF CloseFind
  <2> QED
    BY <2>1
<1>3. ASSUME NEW j \in Jobs, FileWrite(j) \/ CloseWrite(j) \/ CloseFails(j)
      PROVE  pc'[i] = pc[i] \/ pc'[i] \in Reporting
  BY <1>3 DEF FileWrite, CloseWrite, CloseFails
<1>4. ASSUME NEW j \in Jobs, refile_issues(j) \/ TaskDone(j) \/ TaskFails(j)
      PROVE  pc'[i] = pc[i] \/ pc'[i] \in {"file", "done", "failed"}
  BY <1>4 DEF refile_issues, TaskDone, TaskFails
<1>5. ASSUME NEW j \in Jobs, \/ \E k \in Keys : create_exception(j, k)
                             \/ \E e \in ExcKeys : end_exception(j, e)
      PROVE  pc'[i] = pc[i] \/ pc'[i] \in {"close", "done", "refile"}
  <2>1. \E stage \in {"close", "done", "refile"} : pc' = [pc EXCEPT ![j] = stage]
    BY <1>5 DEF create_exception, end_exception, Enter
  <2> QED
    BY <2>1
<1>6. ASSUME NEW e \in ExcKeys, Lapse(e) PROVE pc'[i] = pc[i]
  BY <1>6 DEF Lapse
<1> QED
  BY <1>1, <1>2, <1>3, <1>4, <1>5, <1>6, ReporterSteps DEF Quiet

(* It leaves a scan alone that is not reporting, the records and rows of   *)
(* every scan, and what a scan has to file or to go through grows no more. *)
LEMMA ReporterScans ==
  ASSUME FindingsTypeOK, ReporterStep, NEW i \in Scans
  PROVE  /\ UNCHANGED <<row, scans>>
         /\ pc[i] \in Filing => pc'[i] \in Filing /\ (ToBeFiled(i) => ToBeFiled(i)')
         /\ pc[i] \in Closing => pc'[i] \in Closing
         /\ pc[i] \notin Reporting => /\ pc'[i] = pc[i] /\ at'[i] = at[i]
                                      /\ todo'[i] = todo[i] /\ fresh'[i] = fresh[i]
         /\ fresh'[i] \subseteq fresh[i] /\ todo'[i] \subseteq todo[i]
<1>0. /\ DOMAIN pc = Jobs /\ i \in Jobs /\ i \notin Tasks
      /\ todo \in [Jobs -> SUBSET Repos] /\ fresh \in [Jobs -> SUBSET Keys]
      /\ at \in [Jobs -> Repos \union ExcKeys \union {"none"}]
  BY JobsAssumption DEF FindingsTypeOK, Jobs, Scans, Tasks
<1> DEFINE Goal == /\ UNCHANGED <<row, scans>>
                   /\ pc[i] \in Filing => pc'[i] \in Filing /\ (ToBeFiled(i) => ToBeFiled(i)')
                   /\ pc[i] \in Closing => pc'[i] \in Closing
                   /\ pc[i] \notin Reporting => /\ pc'[i] = pc[i] /\ at'[i] = at[i]
                                                /\ todo'[i] = todo[i] /\ fresh'[i] = fresh[i]
                   /\ fresh'[i] \subseteq fresh[i] /\ todo'[i] \subseteq todo[i]
<1> USE <1>0 DEF Goto, End, threads, tables, Reporting, Filing, Closing, ToBeFiled
<1>1. ASSUME NEW j \in Jobs, NEW r \in Repos,
             FileFind(j, r) \/ FileFails(j, r) \/ CloseCheck(j, r)
      PROVE  Goal
  <2>1. CASE FileFind(j, r)
    BY <2>1 DEF FileFind
  <2>2. CASE FileFails(j, r)
    BY <2>2 DEF FileFails, NextRepo, In
  <2>3. CASE CloseCheck(j, r) /\ unresolved(r) = {}
    <3>1. /\ pc[j] = "close" /\ pc' = [pc EXCEPT ![j] = "closeFind"]
          /\ at' = [at EXCEPT ![j] = r] /\ UNCHANGED <<tables, scans, todo, fresh>>
      BY <2>3 DEF CloseCheck
    <3> QED
      BY <3>1
  <2>4. CASE CloseCheck(j, r) /\ unresolved(r) # {}
    <3>1. /\ pc[j] = "close" /\ todo' = [todo EXCEPT ![j] = @ \ {r}]
          /\ UNCHANGED <<tables, scans, pc, at, fresh>>
      BY <2>4 DEF CloseCheck
    <3> QED
      BY <3>1
  <2> QED
    BY <1>1, <2>1, <2>2, <2>3, <2>4
<1>2. ASSUME NEW j \in Jobs, CloseFind(j) PROVE Goal
  <2>1. CASE find_open_issue(at[j]) = 0
    <3>1. /\ pc[j] = "closeFind" /\ pc' = [pc EXCEPT ![j] = "close"] /\ NextRepo(j, at[j])
          /\ UNCHANGED <<tables, scans, fresh>>
      BY <1>2, <2>1 DEF CloseFind
    <3> QED
      BY <3>1 DEF NextRepo
  <2>2. CASE find_open_issue(at[j]) # 0
    <3>1. /\ pc[j] = "closeFind" /\ pc' = [pc EXCEPT ![j] = "closeWrite"]
          /\ UNCHANGED <<tables, scans, fresh, todo, at>>
      BY <1>2, <2>2 DEF CloseFind
    <3> QED
      BY <3>1
  <2> QED
    BY <2>1, <2>2
<1>3. ASSUME NEW j \in Jobs, FileWrite(j) \/ CloseWrite(j) \/ CloseFails(j) PROVE Goal
  <2>1. CASE FileWrite(j)
    <3>1. fresh' = [fresh EXCEPT ![j] = @ \ Filed(j)]
      BY <2>1 DEF FileWrite
    <3> QED
      BY <2>1, <3>1 DEF FileWrite, NextRepo, Filed, In
  <2> QED
    BY <1>3, <2>1 DEF CloseWrite, CloseFails, NextRepo
<1>4. ASSUME NEW j \in Tasks, refile_issues(j) \/ TaskDone(j) \/ TaskFails(j) PROVE Goal
  BY <1>4 DEF refile_issues, TaskDone, TaskFails
<1>5. ASSUME NEW j \in Tasks, \/ \E k \in Keys : create_exception(j, k)
                              \/ \E e \in ExcKeys : end_exception(j, e)
      PROVE  Goal
  BY <1>5 DEF create_exception, end_exception, Enter
<1>6. ASSUME NEW e \in ExcKeys, Lapse(e) PROVE Goal
  BY <1>6 DEF Lapse
<1> QED
  BY <1>1, <1>2, <1>3, <1>4, <1>5, <1>6, ReporterSteps DEF Quiet, Tasks
=============================================================================
