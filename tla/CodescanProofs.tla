--------------------------- MODULE CodescanProofs ---------------------------
(***************************************************************************)
(* What is proved of Codescan, for any findings, repositories, tools,      *)
(* scans and exceptions, and any number of threads, faults and restarts:   *)
(* what a tool that was seen to fail did not report is not resolved, and   *)
(* no issue is closed over it; and -- of threads that do not overlap --    *)
(* what is excepted is not filed.                                          *)
(***************************************************************************)
EXTENDS Codescan, FindingsProofs

(* A scan works on a repository it still has to go through.                *)
Working(j) == pc[j] \in {"commit", "resolve", "drop"} => at[j] \in todo[j]

(* It has nothing to file once it closes or is over, and files findings of *)
(* the repositories it goes through.                                       *)
FreshIsHeld(j) == /\ pc[j] \in Over \union Closing => fresh[j] = {}
                  /\ pc[j] \in Filing => ToBeFiled(j)

(* What its tools missed, and what it takes for fully scanned, is not of   *)
(* repositories that are still to come; of the one it works on, the tool   *)
(* is among those seen to fail, or fails silently.                         *)
MissedIsBehind(j) ==
    /\ pc[j] = "idle" => missed[j] = {} /\ fullyDone[j] = {}
    /\ pc[j] = "scan" => \A r \in todo[j] : r \notin fullyDone[j] /\ In(r, missed[j]) = {}
    /\ pc[j] \in {"commit", "resolve", "drop"} =>
         \A r \in todo[j] \ {at[j]} : r \notin fullyDone[j] /\ In(r, missed[j]) = {}
    /\ pc[j] \in {"commit", "resolve"} =>
         \A k \in In(at[j], missed[j]) : ToolOf[k] \in failed[j] \union SilentTools

(* What was missed of a repository that counts as fully scanned was missed *)
(* by a tool that fails silently; and only such repositories are closed.   *)
DoneIsInspected(j) ==
    /\ \A r \in fullyDone[j] : \A k \in In(r, missed[j]) : ToolOf[k] \in SilentTools
    /\ pc[j] \in Closing => todo[j] \subseteq fullyDone[j]

ScanOK(j) == Working(j) /\ FreshIsHeld(j) /\ MissedIsBehind(j) /\ DoneIsInspected(j)

(* As long as no two threads have overlapped, what a daily crawl holds is  *)
(* not excepted, but for what it has just inserted.                        *)
HeldIsWanted ==
    ~overlapped => \A j \in Dailies : \A k \in fresh[j] :
        Excepted(k) => pc[j] \in {"resolve", "drop"} /\ k \in plan[j].insert

CodescanInv == /\ StoreInv /\ CodescanTypeOK
               /\ \A j \in Scans : ScanOK(j)
               /\ HeldIsWanted

-----------------------------------------------------------------------------
(* The actions of a scan that are not those of the reporting.              *)
Scanning(j) == \/ Begin(j)
               \/ \E r \in Repos : scan_repo(j, r) \/ SkipRepo(j, r)
               \/ UpsertCommit(j) \/ ResolveStale(j) \/ DropExcepted(j)
               \/ ExecuteFails(j) \/ DeleteOldResolved(j)
               \/ NotifyUser(j) \/ FilingDone(j) \/ ClosingDone(j)

(* The stages they lead to.                                                *)
ScanStages == {"scan", "commit", "resolve", "drop", "file", "close", "done", "failed"}

(* Every step is one of a scan, or of the reporting, a restart, or nothing.*)
LEMMA Steps ==
  ASSUME [Next]_vars
  PROVE  \/ \E j \in Scans : Scanning(j)
         \/ ReporterStep /\ UNCHANGED tools
         \/ /\ Restart
            /\ failed' = [j \in Scans |-> {}]
            /\ fullyDone' = [j \in Scans |-> {}]
            /\ missed' = [j \in Scans |-> {}]
         \/ UNCHANGED vars
BY DEF Next, Scanning, Terminating

(* A scan changes no other thread.                                         *)
LEMMA Local ==
  ASSUME CodescanTypeOK, NEW j \in Scans, Scanning(j)
  PROVE  /\ \A i \in Jobs \ {j} : /\ pc'[i] = pc[i] /\ todo'[i] = todo[i] /\ at'[i] = at[i]
                                  /\ target'[i] = target[i] /\ fresh'[i] = fresh[i]
         /\ \A i \in Scans \ {j} : /\ found'[i] = found[i] /\ plan'[i] = plan[i]
                                   /\ failed'[i] = failed[i] /\ fullyDone'[i] = fullyDone[i]
                                   /\ missed'[i] = missed[i]
<1>0. /\ DOMAIN pc = Jobs /\ DOMAIN todo = Jobs /\ DOMAIN at = Jobs
      /\ DOMAIN target = Jobs /\ DOMAIN fresh = Jobs
      /\ DOMAIN found = Scans /\ DOMAIN plan = Scans
      /\ DOMAIN failed = Scans /\ DOMAIN fullyDone = Scans /\ DOMAIN missed = Scans
  BY DEF CodescanTypeOK, FindingsTypeOK
<1> DEFINE Goal == /\ \A i \in Jobs \ {j} : /\ pc'[i] = pc[i] /\ todo'[i] = todo[i]
                                            /\ at'[i] = at[i] /\ target'[i] = target[i]
                                            /\ fresh'[i] = fresh[i]
                   /\ \A i \in Scans \ {j} : /\ found'[i] = found[i] /\ plan'[i] = plan[i]
                                             /\ failed'[i] = failed[i]
                                             /\ fullyDone'[i] = fullyDone[i]
                                             /\ missed'[i] = missed[i]
<1> USE <1>0 DEF Goto, End, NextRepo, threads, scans, tools, ghosts, tables
<1>1. CASE Begin(j)
  BY <1>1 DEF Begin, Enter
<1>2. ASSUME NEW r \in Repos, scan_repo(j, r) PROVE Goal
  BY <1>2 DEF scan_repo, Read
<1>3. ASSUME NEW r \in Repos, SkipRepo(j, r) PROVE Goal
  BY <1>3 DEF SkipRepo
<1>4. CASE UpsertCommit(j)
  BY <1>4 DEF UpsertCommit, upsert
<1>5. CASE ResolveStale(j)
  BY <1>5 DEF ResolveStale
<1>6. CASE DropExcepted(j)
  BY <1>6 DEF DropExcepted
<1>7. CASE ExecuteFails(j)
  BY <1>7 DEF ExecuteFails
<1>8. CASE DeleteOldResolved(j)
  BY <1>8 DEF DeleteOldResolved
<1>9. CASE NotifyUser(j)
  BY <1>9 DEF NotifyUser
<1>10. CASE FilingDone(j) \/ ClosingDone(j)
  BY <1>10 DEF FilingDone, ClosingDone
<1> QED
  BY <1>1, <1>2, <1>3, <1>4, <1>5, <1>6, <1>7, <1>8, <1>9, <1>10 DEF Scanning

(* It keeps every variable in its domain.                                  *)
LEMMA ScanTyped ==
  ASSUME CodescanTypeOK, NEW j \in Scans, Working(j), Scanning(j)
  PROVE  /\ FindingsTypeOK'
         /\ failed' \in [Scans -> SUBSET Tools]
         /\ fullyDone' \in [Scans -> SUBSET Repos]
         /\ missed' \in [Scans -> SUBSET Keys]
         /\ pc'[j] \in ScanStages
<1> DEFINE Goal == /\ FindingsTypeOK'
                   /\ failed' \in [Scans -> SUBSET Tools]
                   /\ fullyDone' \in [Scans -> SUBSET Repos]
                   /\ missed' \in [Scans -> SUBSET Keys]
                   /\ pc'[j] \in ScanStages
<1>0. j \in Jobs
  BY DEF Jobs
<1>r. \A keys \in SUBSET Keys : ReposOf(keys) \in SUBSET Repos
  BY KeysAssumption DEF ReposOf
<1> USE <1>0, KeysAssumption, JobsAssumption, ToolsAssumption
    DEF CodescanTypeOK, FindingsTypeOK, tables, scans, threads, ghosts, tools, Goto, End,
        NextRepo, Fault, ScanStages
<1>1. CASE Begin(j)
  <2>1. overlapped' \in BOOLEAN /\ pc' = [pc EXCEPT ![j] = "scan"]
    BY <1>1 DEF Begin, Enter
  <2>2. todo' \in [Jobs -> SUBSET Repos]
    BY <1>1 DEF Begin, Scans
  <2> QED
    BY <1>1, <2>1, <2>2 DEF Begin
<1>2. ASSUME NEW r \in Repos, scan_repo(j, r) PROVE Goal
  <2>0. PICK here \in SUBSET In(r, Keys), failing \in SUBSET Tools, silent \in SUBSET SilentTools :
          LET lost == {k \in here : ToolOf[k] \in failing \union silent}
          IN  /\ IF failing \union silent = {} THEN UNCHANGED faults ELSE Fault
              /\ Read(j, here \ lost)
              /\ missed' = [missed EXCEPT ![j] = @ \union lost]
              /\ failed' = [failed EXCEPT ![j] = failing]
    BY <1>2 DEF scan_repo
  <2> DEFINE lost == {k \in here : ToolOf[k] \in failing \union silent}
  <2>1. /\ faults' = faults \/ Fault
        /\ Read(j, here \ lost)
        /\ missed' = [missed EXCEPT ![j] = @ \union lost]
        /\ failed' = [failed EXCEPT ![j] = failing]
    BY <2>0
  <2>2. here \ lost \in SUBSET Keys /\ lost \in SUBSET Keys
    BY DEF In
  <2> HIDE DEF lost
  <2>3. /\ found' \in [Scans -> SUBSET Keys]
        /\ plan' \in [Scans -> [insert : SUBSET Keys, reopen : SUBSET Keys]]
    BY <2>1, <2>2 DEF Read
  <2>4. faults' \in 0..MaxFaults
    BY <2>1
  <2>5. /\ at' = [at EXCEPT ![j] = r] /\ pc' = [pc EXCEPT ![j] = "commit"]
        /\ UNCHANGED <<tables, issue, todo, target, fresh, showing, givenUp, overlapped,
                       fullyDone>>
    BY <1>2 DEF scan_repo
  <2>6. missed' \in [Scans -> SUBSET Keys] /\ failed' \in [Scans -> SUBSET Tools]
    BY <2>1, <2>2
  <2> QED
    BY <2>3, <2>4, <2>5, <2>6
<1>3. ASSUME NEW r \in Repos, SkipRepo(j, r) PROVE Goal
  BY <1>3 DEF SkipRepo
<1>4. CASE UpsertCommit(j)
  BY <1>4 DEF UpsertCommit, upsert
<1>5. CASE ResolveStale(j)
  <2>1. /\ row' \in [Keys -> {"absent", "open", "resolved"}]
        /\ showing' \in SUBSET Keys
    BY <1>5 DEF ResolveStale, resolve
  <2>2. fully_scanned(j) \in SUBSET Repos
    BY <1>5 DEF ResolveStale, fully_scanned, Working
  <2>3. /\ fullyDone' \in [Scans -> SUBSET Repos] /\ found' \in [Scans -> SUBSET Keys]
        /\ failed' \in [Scans -> SUBSET Tools]
    BY <1>5, <2>2 DEF ResolveStale
  <2>4. /\ todo' \in [Jobs -> SUBSET Repos]
        /\ at' \in [Jobs -> Repos \union ExcKeys \union {"none"}]
        /\ target' \in [Jobs -> 0..Len(issue)]
        /\ plan' \in [Scans -> [insert : SUBSET Keys, reopen : SUBSET Keys]]
        /\ DOMAIN pc' = Jobs /\ pc'[j] \in {"drop", "scan"}
    <3>1. CASE Goto(j, "drop") /\ UNCHANGED <<plan, todo, at, target>>
      BY <3>1
    <3>2. CASE Goto(j, "scan") /\ plan' = [plan EXCEPT ![j] = NoPlan] /\ NextRepo(j, at[j])
      BY <3>2 DEF NoPlan
    <3> QED
      BY <1>5, <3>1, <3>2 DEF ResolveStale
  <2> QED
    BY <1>5, <2>1, <2>3, <2>4 DEF ResolveStale
<1>6. CASE DropExcepted(j)
  BY <1>6 DEF DropExcepted, drop_excepted, NoPlan
<1>7. CASE ExecuteFails(j)
  BY <1>7 DEF ExecuteFails, NoPlan
<1>8. CASE DeleteOldResolved(j)
  <2>1. /\ row' \in [Keys -> {"absent", "open", "resolved"}] /\ faults' \in 0..MaxFaults
        /\ fullyDone' \in [Scans -> SUBSET Repos]
    BY <1>8 DEF DeleteOldResolved
  <2>2. todo' \in [Jobs -> SUBSET Repos]
    BY <1>8, <1>r DEF DeleteOldResolved
  <2> QED
    BY <1>8, <2>1, <2>2 DEF DeleteOldResolved
<1>9. CASE NotifyUser(j)
  <2>1. CASE /\ Goto(j, "file") /\ todo' = [todo EXCEPT ![j] = ReposOf(fresh[j])]
             /\ UNCHANGED <<at, target, fresh, givenUp, fullyDone, missed>>
    <3>1. todo' \in [Jobs -> SUBSET Repos]
      BY <1>r, <2>1
    <3> QED
      BY <1>9, <2>1, <3>1 DEF NotifyUser
  <2>2. CASE /\ End(j, "done") /\ givenUp' = givenUp \union fresh[j]
             /\ fullyDone' = [fullyDone EXCEPT ![j] = {}]
             /\ missed' = [missed EXCEPT ![j] = {}]
    BY <1>9, <2>2 DEF NotifyUser
  <2> QED
    BY <1>9, <2>1, <2>2 DEF NotifyUser
<1>10. CASE FilingDone(j)
  BY <1>10 DEF FilingDone
<1>11. CASE ClosingDone(j)
  BY <1>11 DEF ClosingDone
<1> QED
  BY <1>1, <1>2, <1>3, <1>4, <1>5, <1>6, <1>7, <1>8, <1>9, <1>10, <1>11 DEF Scanning

(* And it does no more than the store allows a scan.                       *)
LEMMA ScansStep ==
  ASSUME CodescanTypeOK, ShownIsUnresolved,
         NEW j \in Scans, Working(j), FreshIsHeld(j), Scanning(j)
  PROVE  ScanStep(j)
<1>0. /\ j \in Jobs /\ DOMAIN pc = Jobs
      /\ row \in [Keys -> {"absent", "open", "resolved"}] /\ showing \in SUBSET Keys
      /\ fresh \in [Jobs -> SUBSET Keys]
  BY DEF Jobs, CodescanTypeOK, FindingsTypeOK
<1>1. /\ \A i \in Jobs \ {j} : /\ pc'[i] = pc[i] /\ at'[i] = at[i]
                               /\ target'[i] = target[i] /\ fresh'[i] = fresh[i]
      /\ pc'[j] \notin {"idle", "fileWrite", "closeFind", "closeWrite"}
  BY Local, ScanTyped DEF ScanStages
<1> USE <1>0 DEF Goto, End, NextRepo, Fault, threads, ghosts, tables
<1>2. /\ \/ InFlight(j) /\ overlapped' = overlapped
         \/ overlapped' = (overlapped \/ {i \in Jobs : InFlight(i)} # {})
      /\ UNCHANGED <<excepted, issue>>
  <2>1. CASE Begin(j)
    BY <2>1 DEF Begin, Enter
  <2>2. CASE \/ \E r \in Repos : scan_repo(j, r) \/ SkipRepo(j, r)
             \/ UpsertCommit(j) \/ ResolveStale(j) \/ DropExcepted(j)
    BY <2>2 DEF scan_repo, SkipRepo, UpsertCommit, ResolveStale, DropExcepted, InFlight, Over
  <2>3. CASE ExecuteFails(j) \/ DeleteOldResolved(j) \/ NotifyUser(j)
    BY <2>3 DEF ExecuteFails, DeleteOldResolved, NotifyUser, InFlight, Over
  <2>4. CASE FilingDone(j) \/ ClosingDone(j)
    BY <2>4 DEF FilingDone, ClosingDone, InFlight, Over
  <2> QED
    BY <2>1, <2>2, <2>3, <2>4 DEF Scanning
<1>3. /\ showing' \subseteq showing /\ \A k \in showing' : row'[k] = row[k]
      /\ \A k \in Keys : row[k] = "absent" /\ row'[k] # "absent" => k \in fresh'[j]
  <2>1. CASE \/ Begin(j) \/ \E r \in Repos : scan_repo(j, r) \/ SkipRepo(j, r)
             \/ DropExcepted(j) \/ ExecuteFails(j) \/ NotifyUser(j)
             \/ FilingDone(j) \/ ClosingDone(j)
    <3>1. UNCHANGED <<row, showing>>
      BY <2>1 DEF Begin, scan_repo, SkipRepo, DropExcepted, ExecuteFails, NotifyUser, FilingDone,
                  ClosingDone
    <3> QED
      BY <3>1
  <2>2. CASE UpsertCommit(j)
    <3>1. /\ showing' = showing /\ fresh'[j] = fresh[j] \union plan[j].insert
          /\ \A k \in Keys : row'[k] = IF k \in plan[j].insert \union plan[j].reopen
                                      THEN "open" ELSE row[k]
          /\ \A k \in plan[j].reopen : row[k] # "absent"
      BY <2>2 DEF UpsertCommit, upsert, Conflict
    <3> QED
      BY <3>1 DEF ShownIsUnresolved
  <2>3. CASE ResolveStale(j)
    <3>1. PICK gone \in SUBSET Keys : resolve(gone) /\ \A k \in gone : row[k] = "open"
      BY <2>3 DEF ResolveStale, resolvable
    <3> QED
      BY <3>1 DEF resolve
  <2>4. CASE DeleteOldResolved(j)
    <3>1. /\ showing' = showing
          /\ \A k \in Keys : /\ row[k] = "open" => row'[k] = row[k]
                             /\ row[k] = "absent" => row'[k] = "absent"
      BY <2>4 DEF DeleteOldResolved
    <3> QED
      BY <3>1 DEF ShownIsUnresolved
  <2> QED
    BY <2>1, <2>2, <2>3, <2>4 DEF Scanning
<1>4. givenUp \subseteq givenUp' /\ fresh[j] \subseteq fresh'[j] \union givenUp'
  <2>1. CASE \/ Begin(j) \/ \E r \in Repos : scan_repo(j, r) \/ SkipRepo(j, r)
             \/ UpsertCommit(j) \/ ResolveStale(j) \/ DeleteOldResolved(j) \/ FilingDone(j)
    BY <2>1 DEF Begin, scan_repo, SkipRepo, UpsertCommit, upsert, ResolveStale,
                DeleteOldResolved, FilingDone
  <2>2. CASE ExecuteFails(j) \/ DropExcepted(j) \/ NotifyUser(j)
    BY <2>2 DEF ExecuteFails, DropExcepted, NotifyUser
  <2>3. CASE ClosingDone(j)
    BY <2>3 DEF ClosingDone, FreshIsHeld, Closing
  <2> QED
    BY <2>1, <2>2, <2>3 DEF Scanning
<1> QED
  BY <1>1, <1>2, <1>3, <1>4 DEF ScanStep

(* So every step is one of the store.                                      *)
LEMMA StoreSteps ==
  ASSUME CodescanInv, [Next]_vars
  PROVE  StoreStep
<1>1. ASSUME NEW j \in Scans, Scanning(j) PROVE StoreStep
  BY <1>1, ScanTyped, ScansStep DEF CodescanInv, StoreInv, ScanOK, StoreStep, Acts, Jobs
<1>2. ASSUME ReporterStep PROVE StoreStep
  BY <1>2, ReporterSteps DEF StoreStep, Acts
<1>3. ASSUME UNCHANGED vars PROVE StoreStep
  BY <1>3 DEF vars, storeVars, StoreStep
<1> QED
  BY <1>1, <1>2, <1>3, Steps DEF StoreStep

(* Every variable stays in its domain.                                     *)
LEMMA StepCodescanTyped == CodescanInv /\ [Next]_vars => CodescanTypeOK'
<1> SUFFICES ASSUME CodescanInv, [Next]_vars PROVE CodescanTypeOK'
  OBVIOUS
<1>0. CodescanTypeOK
  BY DEF CodescanInv
<1>1. FindingsTypeOK'
  BY StoreSteps, StepTyped DEF CodescanInv, StoreInv, Typed
<1>2. ASSUME NEW j \in Scans, Scanning(j) PROVE CodescanTypeOK'
  <2>1. Working(j)
    BY DEF CodescanInv, ScanOK
  <2>2. \A i \in Jobs \ {j} : pc'[i] = pc[i]
    BY <1>0, <1>2, Local
  <2> QED
    BY <1>0, <1>2, <2>1, <2>2, ScanTyped DEF CodescanTypeOK, ScanStages
<1>3. CASE ReporterStep /\ UNCHANGED tools
  <2>1. FindingsTypeOK
    BY <1>0 DEF CodescanTypeOK
  <2> QED
    BY <1>0, <1>1, <1>3, <2>1, ReporterStages
    DEF CodescanTypeOK, Reporting, Filing, Closing, tools
<1>4. CASE /\ Restart
           /\ failed' = [j \in Scans |-> {}]
           /\ fullyDone' = [j \in Scans |-> {}]
           /\ missed' = [j \in Scans |-> {}]
  BY <1>0, <1>1, <1>4 DEF Restart, CodescanTypeOK
<1>5. CASE UNCHANGED vars
  BY <1>0, <1>1, <1>5 DEF vars, threads, tools, CodescanTypeOK
<1> QED
  BY <1>2, <1>3, <1>4, <1>5, Steps

-----------------------------------------------------------------------------
(* A scan goes through repositories one by one, and takes for fully        *)
(* scanned only what no tool was seen to fail on.                          *)
LEMMA OwnStep ==
  ASSUME CodescanInv, NEW j \in Scans, Scanning(j)
  PROVE  ScanOK(j)'
<1>0. /\ j \in Jobs /\ DOMAIN pc = Jobs
      /\ todo \in [Jobs -> SUBSET Repos] /\ fresh \in [Jobs -> SUBSET Keys]
      /\ at \in [Jobs -> Repos \union ExcKeys \union {"none"}]
      /\ failed \in [Scans -> SUBSET Tools] /\ fullyDone \in [Scans -> SUBSET Repos]
      /\ missed \in [Scans -> SUBSET Keys]
  BY DEF Jobs, CodescanInv, CodescanTypeOK, FindingsTypeOK
<1>a. ScanOK(j)
  BY DEF CodescanInv
<1> USE <1>0, <1>a DEF ScanOK, Goto, End, NextRepo, threads, scans, tools, ghosts, tables,
                       Over, Filing, Closing
<1>1. CASE Begin(j)
  <2>1. /\ pc[j] = "idle" /\ pc' = [pc EXCEPT ![j] = "scan"]
        /\ UNCHANGED <<fresh, tools>>
    BY <1>1 DEF Begin, Enter
  <2> QED
    BY <2>1 DEF Working, FreshIsHeld, MissedIsBehind, DoneIsInspected, In
<1>2. ASSUME NEW r \in Repos, scan_repo(j, r) PROVE ScanOK(j)'
  <2>0. PICK here \in SUBSET In(r, Keys), failing \in SUBSET Tools, silent \in SUBSET SilentTools :
          LET lost == {k \in here : ToolOf[k] \in failing \union silent}
          IN  /\ missed' = [missed EXCEPT ![j] = @ \union lost]
              /\ failed' = [failed EXCEPT ![j] = failing]
    BY <1>2 DEF scan_repo
  <2> DEFINE lost == {k \in here : ToolOf[k] \in failing \union silent}
  <2>1. /\ missed'[j] = missed[j] \union lost /\ failed'[j] = failing
        /\ pc[j] = "scan" /\ r \in todo[j] /\ at'[j] = r /\ pc'[j] = "commit"
        /\ UNCHANGED <<todo, fresh, fullyDone>>
    BY <1>2, <2>0 DEF scan_repo
  <2>2. \A k \in lost : RepoOf[k] = r /\ ToolOf[k] \in failing \union SilentTools
    BY DEF In
  <2>3. \A q : q # r => In(q, missed'[j]) = In(q, missed[j])
    BY <2>1, <2>2 DEF In
  <2>4. In(r, missed'[j]) \subseteq lost /\ \A q \in todo[j] : q \notin fullyDone[j]
    BY <2>1, <2>2 DEF In, MissedIsBehind
  <2> HIDE DEF lost
  <2>5. Working(j)' /\ FreshIsHeld(j)'
    BY <2>1 DEF Working, FreshIsHeld
  <2>6. MissedIsBehind(j)'
    BY <2>1, <2>2, <2>3, <2>4 DEF MissedIsBehind
  <2>7. DoneIsInspected(j)'
    BY <2>1, <2>3, <2>4 DEF DoneIsInspected
  <2> QED
    BY <2>5, <2>6, <2>7
<1>3. ASSUME NEW r \in Repos, SkipRepo(j, r) PROVE ScanOK(j)'
  <2>1. /\ pc[j] = "scan" /\ todo' = [todo EXCEPT ![j] = @ \ {r}]
        /\ UNCHANGED <<pc, fresh, tools>>
    BY <1>3 DEF SkipRepo
  <2> QED
    BY <2>1 DEF Working, FreshIsHeld, MissedIsBehind, DoneIsInspected, In
<1>4. CASE UpsertCommit(j)
  <2>1. /\ pc[j] = "commit" /\ pc' = [pc EXCEPT ![j] = "resolve"]
        /\ UNCHANGED <<todo, at, tools>>
    BY <1>4 DEF UpsertCommit
  <2> QED
    BY <2>1 DEF Working, FreshIsHeld, MissedIsBehind, DoneIsInspected
<1>5. CASE ResolveStale(j)
  <2>1. /\ pc[j] = "resolve"
        /\ fullyDone'[j] = fullyDone[j] \union fully_scanned(j)
        /\ UNCHANGED <<fresh, missed>>
        /\ \/ pc'[j] = "drop" /\ UNCHANGED <<todo, at>>
           \/ pc'[j] = "scan" /\ todo' = [todo EXCEPT ![j] = @ \ {at[j]}]
    BY <1>5 DEF ResolveStale
  <2>2. \A r \in fully_scanned(j) :
          r = at[j] /\ \A k \in In(r, missed[j]) : ToolOf[k] \in SilentTools
    BY <2>1 DEF fully_scanned, MissedIsBehind
  <2>3. \A r \in todo[j] \ {at[j]} : r \notin fullyDone'[j] /\ In(r, missed[j]) = {}
    BY <2>1, <2>2 DEF MissedIsBehind
  <2>4. Working(j)' /\ FreshIsHeld(j)'
    BY <2>1 DEF Working, FreshIsHeld
  <2>5. MissedIsBehind(j)'
    BY <2>1, <2>3 DEF MissedIsBehind
  <2>6. DoneIsInspected(j)'
    BY <2>1, <2>2 DEF DoneIsInspected
  <2> QED
    BY <2>4, <2>5, <2>6
<1>6. CASE DropExcepted(j)
  <2>1. /\ pc[j] = "drop" /\ pc' = [pc EXCEPT ![j] = "scan"]
        /\ todo' = [todo EXCEPT ![j] = @ \ {at[j]}]
        /\ UNCHANGED tools
    BY <1>6 DEF DropExcepted
  <2> QED
    BY <2>1 DEF Working, FreshIsHeld, MissedIsBehind, DoneIsInspected
<1>7. CASE ExecuteFails(j)
  <2>1. /\ pc'[j] = "failed" /\ fresh'[j] = {} /\ fullyDone'[j] = {}
    BY <1>7 DEF ExecuteFails
  <2> QED
    BY <2>1 DEF Working, FreshIsHeld, MissedIsBehind, DoneIsInspected
<1>8. CASE DeleteOldResolved(j)
  <2>1. /\ pc'[j] = "file" /\ todo'[j] = ReposOf(fresh[j])
        /\ fullyDone'[j] \subseteq fullyDone[j]
        /\ UNCHANGED <<fresh, missed>>
    BY <1>8 DEF DeleteOldResolved
  <2> QED
    BY <2>1 DEF Working, FreshIsHeld, ToBeFiled, ReposOf, MissedIsBehind, DoneIsInspected
<1>9. CASE NotifyUser(j)
  <2>1. CASE /\ Goto(j, "file") /\ todo' = [todo EXCEPT ![j] = ReposOf(fresh[j])]
             /\ UNCHANGED <<at, target, fresh, givenUp, fullyDone, missed>>
    BY <2>1 DEF Working, FreshIsHeld, ToBeFiled, ReposOf, MissedIsBehind, DoneIsInspected
  <2>2. CASE End(j, "done") /\ fullyDone' = [fullyDone EXCEPT ![j] = {}]
    BY <2>2 DEF Working, FreshIsHeld, MissedIsBehind, DoneIsInspected
  <2> QED
    BY <1>9, <2>1, <2>2 DEF NotifyUser
<1>10. CASE FilingDone(j)
  <2>1. /\ pc[j] = "file" /\ todo[j] = {} /\ pc'[j] = "close" /\ todo'[j] = fullyDone[j]
        /\ UNCHANGED <<fresh, tools>>
    BY <1>10 DEF FilingDone
  <2>2. fresh[j] = {}
    BY <2>1 DEF FreshIsHeld, ToBeFiled
  <2> QED
    BY <2>1, <2>2 DEF Working, FreshIsHeld, MissedIsBehind, DoneIsInspected
<1>11. CASE ClosingDone(j)
  <2>1. pc'[j] = "done" /\ fresh'[j] = {} /\ fullyDone'[j] = {}
    BY <1>11 DEF ClosingDone
  <2> QED
    BY <2>1 DEF Working, FreshIsHeld, MissedIsBehind, DoneIsInspected
<1> QED
  BY <1>1, <1>2, <1>3, <1>4, <1>5, <1>6, <1>7, <1>8, <1>9, <1>10, <1>11 DEF Scanning

(* And so does every scan, whatever the others and the reporting do.       *)
LEMMA StepScanOK ==
  ASSUME CodescanInv, [Next]_vars, NEW i \in Scans
  PROVE  ScanOK(i)'
<1>0. ScanOK(i) /\ CodescanTypeOK /\ FindingsTypeOK /\ i \in Jobs
  BY DEF CodescanInv, CodescanTypeOK, Jobs
<1>1. ASSUME NEW j \in Scans, Scanning(j) PROVE ScanOK(i)'
  <2>1. CASE i = j
    BY <1>1, <2>1, OwnStep
  <2>2. CASE i # j
    <3>1. /\ pc'[i] = pc[i] /\ todo'[i] = todo[i] /\ at'[i] = at[i] /\ fresh'[i] = fresh[i]
          /\ failed'[i] = failed[i] /\ fullyDone'[i] = fullyDone[i] /\ missed'[i] = missed[i]
      BY <1>0, <1>1, <2>2, Local
    <3> QED
      BY <1>0, <3>1 DEF ScanOK, Working, FreshIsHeld, ToBeFiled, MissedIsBehind, DoneIsInspected
  <2> QED
    BY <2>1, <2>2
<1>2. CASE ReporterStep /\ UNCHANGED tools
  <2> USE <1>0 DEF ScanOK, Reporting, Filing, Closing, Over
  <2>1. /\ failed'[i] = failed[i] /\ fullyDone'[i] = fullyDone[i] /\ missed'[i] = missed[i]
        /\ todo'[i] \subseteq todo[i] /\ fresh'[i] \subseteq fresh[i]
    BY <1>2, ReporterScans DEF tools
  <2>2. CASE pc[i] \notin Reporting
    <3>1. pc'[i] = pc[i] /\ at'[i] = at[i] /\ todo'[i] = todo[i] /\ fresh'[i] = fresh[i]
      BY <1>2, <2>2, ReporterScans
    <3> QED
      BY <2>1, <2>2, <3>1 DEF Working, FreshIsHeld, MissedIsBehind, DoneIsInspected
  <2>3. CASE pc[i] \in Filing
    <3>1. pc'[i] \in Filing /\ (ToBeFiled(i) => ToBeFiled(i)')
      BY <1>2, <2>3, ReporterScans
    <3> QED
      BY <2>1, <2>3, <3>1 DEF Working, FreshIsHeld, MissedIsBehind, DoneIsInspected
  <2>4. CASE pc[i] \in Closing
    <3>1. pc'[i] \in Closing
      BY <1>2, <2>4, ReporterScans
    <3> QED
      BY <2>1, <2>4, <3>1 DEF Working, FreshIsHeld, MissedIsBehind, DoneIsInspected
  <2> QED
    BY <2>2, <2>3, <2>4
<1>3. CASE /\ Restart
           /\ failed' = [j \in Scans |-> {}]
           /\ fullyDone' = [j \in Scans |-> {}]
           /\ missed' = [j \in Scans |-> {}]
  <2>1. /\ pc'[i] \in Over /\ fresh'[i] = {} /\ fullyDone'[i] = {} /\ missed'[i] = {}
    BY <1>0, <1>3 DEF Restart, InFlight, Over
  <2> QED
    BY <2>1 DEF ScanOK, Working, FreshIsHeld, MissedIsBehind, DoneIsInspected, In, Over, Filing,
                Closing
<1>4. CASE UNCHANGED vars
  BY <1>0, <1>4 DEF vars, threads, tools, ScanOK, Working, FreshIsHeld, ToBeFiled,
                    MissedIsBehind, DoneIsInspected
<1> QED
  BY <1>1, <1>2, <1>3, <1>4, Steps

-----------------------------------------------------------------------------
(* Exceptions are added by a request that meets no thread in flight, or    *)
(* overlaps it.                                                            *)
LEMMA ExceptionsAreAlone ==
  ASSUME CodescanInv, ReporterStep, ~overlapped'
  PROVE  /\ ~overlapped
         /\ \/ \A k \in Keys : Excepted(k)' => Excepted(k)
            \/ \A i \in Jobs : ~InFlight(i)
<1> DEFINE Goal == /\ ~overlapped
                   /\ \/ \A k \in Keys : Excepted(k)' => Excepted(k)
                      \/ \A i \in Jobs : ~InFlight(i)
<1> USE DEF tables, ghosts
<1>1. ASSUME NEW j \in Jobs, NEW r \in Repos,
             FileFind(j, r) \/ FileFails(j, r) \/ CloseCheck(j, r)
      PROVE  UNCHANGED <<excepted, overlapped>>
  BY <1>1 DEF FileFind, FileFails, CloseCheck
<1>2. ASSUME NEW j \in Jobs, CloseFind(j) \/ FileWrite(j) \/ CloseWrite(j) \/ CloseFails(j)
      PROVE  UNCHANGED <<excepted, overlapped>>
  BY <1>2 DEF CloseFind, FileWrite, CloseWrite, CloseFails
<1>3. ASSUME NEW j \in Jobs, refile_issues(j) \/ TaskDone(j) \/ TaskFails(j)
      PROVE  UNCHANGED <<excepted, overlapped>>
  BY <1>3 DEF refile_issues, TaskDone, TaskFails
<1>4. ASSUME NEW j \in Jobs, NEW k \in Keys, create_exception(j, k) PROVE Goal
  BY <1>4 DEF create_exception, Enter
<1>5. ASSUME NEW j \in Jobs, NEW e \in ExcKeys, end_exception(j, e) PROVE Goal
  <2>1. excepted' \subseteq excepted /\ ~overlapped
    BY <1>5 DEF end_exception, Enter
  <2> QED
    BY <2>1 DEF Excepted
<1>6. ASSUME NEW e \in ExcKeys, Lapse(e) PROVE Goal
  BY <1>6 DEF Lapse, Excepted
<1>7. ASSUME UNCHANGED <<excepted, overlapped>> PROVE Goal
  BY <1>7 DEF Excepted
<1> QED
  BY <1>1, <1>2, <1>3, <1>4, <1>5, <1>6, <1>7, ReporterSteps DEF Quiet

(* So what a daily crawl goes on to file has passed drop_excepted.         *)
LEMMA StepHeldIsWanted == CodescanInv /\ [Next]_vars => HeldIsWanted'
<1> SUFFICES ASSUME CodescanInv, [Next]_vars, ~overlapped',
                    NEW i \in Dailies, NEW k \in fresh'[i], Excepted(k)'
             PROVE  pc'[i] \in {"resolve", "drop"} /\ k \in plan'[i].insert
  BY DEF HeldIsWanted
<1> DEFINE Goal == pc'[i] \in {"resolve", "drop"} /\ k \in plan'[i].insert
<1>p. fresh' \in [Jobs -> SUBSET Keys]
  BY StepCodescanTyped DEF CodescanTypeOK, FindingsTypeOK
<1>0. /\ i \in Scans /\ i \in Jobs /\ i \notin UserScans
      /\ fresh \in [Jobs -> SUBSET Keys] /\ fresh' \in [Jobs -> SUBSET Keys]
      /\ DOMAIN pc = Jobs /\ DOMAIN plan = Scans /\ k \in Keys
  BY <1>p, JobsAssumption DEF Jobs, Scans, CodescanInv, CodescanTypeOK, FindingsTypeOK
<1>a. /\ ~overlapped => /\ k \in fresh[i] /\ Excepted(k) => pc[i] \in {"resolve", "drop"}
                        /\ k \in fresh[i] /\ Excepted(k) => k \in plan[i].insert
      /\ pc[i] \in Over \union Closing => fresh[i] = {}
  BY <1>0 DEF CodescanInv, HeldIsWanted, ScanOK, FreshIsHeld
<1> USE <1>0 DEF Goto, End, NextRepo, threads, scans, tools, ghosts, tables
<1>1. ASSUME NEW j \in Scans, Scanning(j) PROVE Goal
  <2>1. ScanStep(j)
    BY <1>1, ScansStep DEF CodescanInv, StoreInv, ScanOK
  <2>a. excepted' = excepted
    BY <2>1 DEF ScanStep
  <2>b. \/ overlapped' = overlapped
        \/ overlapped' = (overlapped \/ {q \in Jobs : InFlight(q)} # {})
    BY <2>1 DEF ScanStep
  <2>c. ~overlapped
    BY <2>b
  <2>2. ~overlapped /\ Excepted(k)
    BY <2>a, <2>c DEF Excepted
  <2>3. CASE i # j
    <3>1. fresh'[i] = fresh[i] /\ pc'[i] = pc[i] /\ plan'[i] = plan[i]
      BY <1>1, <2>3, Local DEF CodescanInv
    <3> QED
      BY <1>a, <2>2, <3>1
  <2>4. CASE i = j
    <3>1. CASE Begin(j)
      BY <1>a, <2>2, <2>4, <3>1 DEF Begin, Enter
    <3>2. ASSUME NEW r \in Repos, scan_repo(j, r) \/ SkipRepo(j, r) PROVE Goal
      BY <1>a, <2>2, <2>4, <3>2 DEF scan_repo, SkipRepo
    <3>3. CASE UpsertCommit(j)
      <4>1. /\ pc[j] = "commit" /\ pc'[j] = "resolve" /\ plan' = plan
            /\ fresh'[j] = fresh[j] \union plan[j].insert
        BY <3>3 DEF UpsertCommit, upsert
      <4> QED
        BY <1>a, <2>2, <2>4, <4>1
    <3>4. CASE ResolveStale(j)
      BY <1>a, <2>2, <2>4, <3>4 DEF ResolveStale
    <3>5. CASE DropExcepted(j)
      <4>1. /\ pc[j] = "drop"
            /\ fresh'[j] = fresh[j] \ (plan[j].insert \ drop_excepted(plan[j].insert))
        BY <3>5 DEF DropExcepted
      <4> QED
        BY <1>a, <2>2, <2>4, <4>1 DEF drop_excepted
    <3>6. CASE ExecuteFails(j)
      BY <2>4, <3>6 DEF ExecuteFails
    <3>7. CASE DeleteOldResolved(j)
      BY <1>a, <2>2, <2>4, <3>7 DEF DeleteOldResolved
    <3>8. CASE NotifyUser(j)
      BY <2>4, <3>8 DEF NotifyUser
    <3>9. CASE FilingDone(j) \/ ClosingDone(j)
      BY <1>a, <2>2, <2>4, <3>9 DEF FilingDone, ClosingDone
    <3> QED
      BY <1>1, <3>1, <3>2, <3>3, <3>4, <3>5, <3>6, <3>7, <3>8, <3>9 DEF Scanning
  <2> QED
    BY <2>3, <2>4
<1>2. CASE ReporterStep
  <2>0. FindingsTypeOK
    BY DEF CodescanInv, CodescanTypeOK
  <2>1. /\ ~overlapped
        /\ (Excepted(k)' => Excepted(k)) \/ ~InFlight(i)
    BY <1>2, ExceptionsAreAlone
  <2>2. k \in fresh[i] /\ plan' = plan
    BY <1>2, <2>0, ReporterScans
  <2>3. pc[i] \notin Over
    BY <1>a, <2>2
  <2>4. pc[i] \in {"resolve", "drop"} /\ k \in plan[i].insert
    BY <1>a, <2>1, <2>2, <2>3 DEF InFlight
  <2>5. pc'[i] = pc[i]
    BY <1>2, <2>0, <2>4, ReporterScans DEF Reporting, Filing, Closing
  <2> QED
    BY <2>2, <2>4, <2>5
<1>3. CASE Restart
  BY <1>3 DEF Restart
<1>4. CASE UNCHANGED vars
  BY <1>4, <1>a DEF vars, Excepted
<1> QED
  BY <1>1, <1>2, <1>3, <1>4, Steps

-----------------------------------------------------------------------------
(* Nothing has been scanned at first.                                      *)
LEMMA InitInv == Init => CodescanInv
<1> SUFFICES ASSUME Init PROVE CodescanInv
  OBVIOUS
<1>1. StoreInv
  BY InitStore DEF Init
<1>2. CodescanTypeOK
  BY <1>1, ToolsAssumption DEF StoreInv, Typed, CodescanTypeOK, Init, FindingsInit
<1>3. ASSUME NEW j \in Scans PROVE ScanOK(j)
  <2>1. j \in Jobs
    BY DEF Jobs
  <2> QED
    BY <2>1 DEF Init, FindingsInit, ScanOK, Working, FreshIsHeld, ToBeFiled, MissedIsBehind,
                DoneIsInspected, Filing, Closing
<1>4. HeldIsWanted
  BY DEF Init, FindingsInit, HeldIsWanted, Jobs, Scans
<1> QED
  BY <1>1, <1>2, <1>3, <1>4 DEF CodescanInv

(* Every step keeps the invariant.                                         *)
LEMMA StepInv == CodescanInv /\ [Next]_vars => CodescanInv'
<1> SUFFICES ASSUME CodescanInv, [Next]_vars PROVE CodescanInv'
  OBVIOUS
<1>1. StoreInv'
  BY StoreSteps, StepStore DEF CodescanInv
<1>2. CodescanTypeOK' /\ HeldIsWanted'
  BY StepCodescanTyped, StepHeldIsWanted
<1>3. \A j \in Scans : ScanOK(j)'
  BY StepScanOK
<1> QED
  BY <1>1, <1>2, <1>3 DEF CodescanInv

(* The invariant holds of every run of CODESCAN, its background tasks and  *)
(* the restarts of the process.                                            *)
THEOREM CodescanInvHolds == Spec => []CodescanInv
<1>1. Init => CodescanInv
  BY InitInv
<1>2. CodescanInv /\ [Next]_vars => CodescanInv'
  BY StepInv
<1> QED
  BY <1>1, <1>2, PTL DEF Spec

(* Every variable stays in its domain.                                     *)
THEOREM CodescanTyped == Spec => []CodescanTypeOK
<1>1. CodescanInv => CodescanTypeOK
  BY DEF CodescanInv
<1> QED
  BY <1>1, CodescanInvHolds, PTL

(* A finding in the table has been listed in an issue, is held by a thread *)
(* that is to list it, or was given up for a reason that is known.         *)
THEOREM NothingFoundIsForgotten == Spec => []NewFindingsAccountedFor
<1>1. CodescanInv => NewFindingsAccountedFor
  BY DEF CodescanInv, StoreInv
<1> QED
  BY <1>1, CodescanInvHolds, PTL

(* As long as no two threads have overlapped there is at most one open     *)
(* issue of the title per repository.                                      *)
THEOREM OneCodescanIssuePerRepo == Spec => []OneOpenIssue
<1>1. CodescanInv => OneOpenIssue
  BY DEF CodescanInv, StoreInv
<1> QED
  BY <1>1, CodescanInvHolds, PTL

(* And a finding that was filed, and has needed attention ever since, is   *)
(* listed in an open issue.                                                *)
THEOREM WhatNeedsAttentionIsShown == Spec => []ShownWhileUnresolved
<1>1. CodescanInv => ShownWhileUnresolved
  BY DEF CodescanInv, StoreInv
<1> QED
  BY <1>1, CodescanInvHolds, PTL

-----------------------------------------------------------------------------
(* What a scan resolves it has not found, and if a tool missed it, that    *)
(* tool failed silently.                                                   *)
LEMMA Resolved ==
  ASSUME CodescanInv, [Next]_vars, NEW j \in Scans, NEW k \in Keys,
         pc[j] # pc'[j], row[k] = "open", row'[k] = "resolved"
  PROVE  k \notin found[j] /\ (k \in missed[j] => ToolOf[k] \in SilentTools)
<1>0. j \in Jobs /\ DOMAIN pc = Jobs /\ CodescanTypeOK /\ FindingsTypeOK
  BY DEF Jobs, CodescanInv, CodescanTypeOK, FindingsTypeOK
<1> USE DEF tables
<1>1. PICK i \in Scans : Scanning(i)
  <2>1. ASSUME ReporterStep PROVE FALSE
    <3>1. row' = row
      BY <1>0, <2>1, ReporterScans
    <3> QED
      BY <3>1
  <2>2. ASSUME Restart \/ UNCHANGED vars PROVE FALSE
    BY <2>2 DEF Restart, vars
  <2> QED
    BY <2>1, <2>2, Steps
<1>2. i = j
  BY <1>0, <1>1, Local
<1>3. ResolveStale(j)
  <2>1. CASE \/ Begin(j) \/ \E r \in Repos : scan_repo(j, r) \/ SkipRepo(j, r)
             \/ DropExcepted(j) \/ ExecuteFails(j) \/ NotifyUser(j)
             \/ FilingDone(j) \/ ClosingDone(j)
    BY <2>1 DEF Begin, scan_repo, SkipRepo, DropExcepted, ExecuteFails, NotifyUser, FilingDone,
                ClosingDone
  <2>2. CASE UpsertCommit(j)
    BY <2>2 DEF UpsertCommit, upsert
  <2>3. CASE DeleteOldResolved(j)
    BY <2>3 DEF DeleteOldResolved
  <2> QED
    BY <1>1, <1>2, <2>1, <2>2, <2>3 DEF Scanning
<1>4. pc[j] = "resolve" /\ resolvable(j, k)
  BY <1>3 DEF ResolveStale, resolve
<1> QED
  BY <1>4 DEF resolvable, CodescanInv, ScanOK, MissedIsBehind, In

(* CodescanInv of a thread that begins to close an issue: the repository   *)
(* counts as fully scanned, and nothing unresolved is known of it.         *)
LEMMA Closes ==
  ASSUME CodescanInv, [Next]_vars, NEW j \in Scans,
         pc[j] = "close", pc'[j] = "closeFind"
  PROVE  /\ \A k \in In(at'[j], missed[j]) : ToolOf[k] \in SilentTools
         /\ unresolved(at'[j]) = {}
<1>0. /\ j \in Jobs /\ DOMAIN pc = Jobs /\ CodescanTypeOK
      /\ at \in [Jobs -> Repos \union ExcKeys \union {"none"}]
  BY DEF Jobs, CodescanInv, CodescanTypeOK, FindingsTypeOK
<1>1. \A i \in Scans : ~Scanning(i)
  <2> SUFFICES ASSUME NEW i \in Scans, Scanning(i) PROVE FALSE
    OBVIOUS
  <2>1. CASE i = j
    BY <2>1, ScanTyped DEF CodescanInv, ScanOK, ScanStages
  <2>2. CASE i # j
    BY <1>0, <2>2, Local
  <2> QED
    BY <2>1, <2>2
<1>2. ReporterStep
  BY <1>0, <1>1, Steps DEF Restart, InFlight, Over, vars, threads
<1>3. PICK i \in Jobs : Quiet(i) \/ FileWrite(i) \/ CloseWrite(i)
  BY <1>0, <1>2, ReporterSteps DEF Lapse, threads
<1>4. Acts(i) /\ Typed
  BY <1>3 DEF Acts, CodescanInv, StoreInv
<1>5. i = j
  BY <1>0, <1>4, OneMoves
<1>6. PICK r \in Repos : CloseCheck(j, r)
  <2>1. (\E r \in Repos : FileFind(j, r) \/ CloseCheck(j, r)) \/ CloseFind(j)
    BY <1>4, <1>5, Looks
  <2> QED
    BY <2>1 DEF FileFind, CloseFind
<1>7. r \in todo[j] /\ at'[j] = r /\ unresolved(r) = {}
  BY <1>0, <1>6 DEF CloseCheck, Goto, threads
<1> QED
  BY <1>7 DEF CodescanInv, ScanOK, DoneIsInspected, Closing

(* Both as action properties, whatever tools fail silently.                *)
SilentlyMissedOnlyIsResolved ==
    [][ \A j \in Scans, k \in Keys :
            pc[j] # pc'[j] /\ row[k] = "open" /\ row'[k] = "resolved"
                => k \notin found[j] /\ (k \in missed[j] => ToolOf[k] \in SilentTools) ]_vars

ClosedOverSilentlyMissedOnly ==
    [][ \A j \in Scans :
            pc[j] = "close" /\ pc'[j] = "closeFind"
                => \A k \in In(at'[j], missed[j]) : ToolOf[k] \in SilentTools ]_vars

(* A finding a scan resolves was not among its records, and a tool that    *)
(* would have found it was not seen to fail.                               *)
THEOREM WhatFailedToolsMissedStays == Spec => SilentlyMissedOnlyIsResolved
<1>1. CodescanInv /\ [Next]_vars =>
        [ \A j \in Scans, k \in Keys :
            pc[j] # pc'[j] /\ row[k] = "open" /\ row'[k] = "resolved"
                => k \notin found[j] /\ (k \in missed[j] => ToolOf[k] \in SilentTools) ]_vars
  BY Resolved
<1> QED
  BY <1>1, CodescanInvHolds, PTL DEF Spec, SilentlyMissedOnlyIsResolved

(* No issue is closed over what a tool that was seen to fail would have    *)
(* reported, even if threads overlap.                                      *)
THEOREM NoIssueClosedOverFailedTools == Spec => ClosedOverSilentlyMissedOnly
<1>1. CodescanInv /\ [Next]_vars =>
        [ \A j \in Scans :
            pc[j] = "close" /\ pc'[j] = "closeFind"
                => \A k \in In(at'[j], missed[j]) : ToolOf[k] \in SilentTools ]_vars
  BY Closes
<1> QED
  BY <1>1, CodescanInvHolds, PTL DEF Spec, ClosedOverSilentlyMissedOnly

(* As long as no two threads have overlapped, a daily crawl files nothing  *)
(* that is under an active exception.                                      *)
THEOREM ExceptedStaysUnfiled == Spec => NothingExceptedIsFiled
<1>1. CodescanInv =>
        [ \A j \in Dailies :
            pc[j] = "fileWrite" /\ issue' # issue /\ pc'[j] = "file" /\ ~overlapped
                => \A k \in Filed(j) : ~Excepted(k) ]_vars
  BY DEF CodescanInv, HeldIsWanted, Filed, In
<1> QED
  BY <1>1, CodescanInvHolds, PTL DEF NothingExceptedIsFiled
=============================================================================
