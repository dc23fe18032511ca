-------------------------------- MODULE MCJobs --------------------------------
(* The daily jobs beside the scans of findings, one to a behaviour: they   *)
(* share no rows, so the one that runs is chosen at the start and the      *)
(* others stay where they begin.  A rule of the program is such a part too:*)
(* it is asked at the start and answers.                                   *)
EXTENDS CommitWatch, Posture, RuntimeAlerts, Depsops, UserScan, RepoCleanup, Feeds, Rules

CONSTANT Parts

VARIABLE part

vars == <<part, watchVars, postureVars, runtimeVars, opsVars, scanVars, cleanupVars, feedVars,
          ruleVars>>

(* Outside its own part a module keeps one initial state.                  *)
Init == /\ part \in Parts
        /\ CommitWatchInit /\ PostureInit /\ RuntimeInit /\ DepsopsInit
        /\ UserScanInit /\ CleanupInit /\ FeedsInit
        /\ part # "posture" => /\ job = "EXTMON"
                               /\ present = [t \in Targets |-> {}]
        /\ part # "runtimes" => \A a \in Apps : uses[a][2]
        /\ part # "depsops" => ci = {}
        /\ asked \in IF part \in RuleNames THEN Asks(part) ELSE {NoAnswer}
        /\ answer = NoAnswer

Next == /\ part' = part
        /\ \/ /\ part = "commits" /\ CommitWatchNext
              /\ UNCHANGED <<postureVars, runtimeVars, opsVars, scanVars,
                             cleanupVars, feedVars, ruleVars>>
           \/ /\ part = "posture" /\ PostureNext
              /\ UNCHANGED <<watchVars, runtimeVars, opsVars, scanVars,
                             cleanupVars, feedVars, ruleVars>>
           \/ /\ part = "runtimes" /\ RuntimeNext
              /\ UNCHANGED <<watchVars, postureVars, opsVars, scanVars,
                             cleanupVars, feedVars, ruleVars>>
           \/ /\ part = "depsops" /\ DepsopsNext
              /\ UNCHANGED <<watchVars, postureVars, runtimeVars, scanVars,
                             cleanupVars, feedVars, ruleVars>>
           \/ /\ part = "userscan" /\ UserScanNext
              /\ UNCHANGED <<watchVars, postureVars, runtimeVars, opsVars,
                             cleanupVars, feedVars, ruleVars>>
           \/ /\ part = "cleanup" /\ CleanupNext
              /\ UNCHANGED <<watchVars, postureVars, runtimeVars, opsVars,
                             scanVars, feedVars, ruleVars>>
           \/ /\ part \in {"kev", "osv"} /\ FeedsNext
              /\ part = "kev" => UNCHANGED osvVars
              /\ part = "osv" => UNCHANGED kevVars
              /\ UNCHANGED <<watchVars, postureVars, runtimeVars, opsVars,
                             scanVars, cleanupVars, ruleVars>>
           \/ /\ part \in RuleNames
              /\ answer' = IF answer = NoAnswer THEN <<Reply(part, asked)>> ELSE answer
              /\ UNCHANGED <<asked, watchVars, postureVars, runtimeVars, opsVars, scanVars,
                             cleanupVars, feedVars>>

(* Runs are started every day and threads are scheduled; users come back.  *)
Fairness ==
    /\ \A t \in RuntimeRuns : WF_runtimeVars(part = "runtimes" /\ RuntimeStep(t))
    /\ WF_scanVars(part = "userscan" /\ UserScanTick)
    /\ \A t \in Threads : WF_scanVars(part = "userscan" /\ ThreadStep(t))
    /\ WF_scanVars(part = "userscan" /\ \E t \in Threads : ScanAtLogin(t))

Spec == Init /\ [][Next]_vars

LiveSpec == Spec /\ Fairness

(* Every variable stays in its domain.                                     *)
JobsTypeOK == /\ part = "commits" => CommitWatchTypeOK
              /\ part = "posture" => PostureTypeOK
              /\ part = "runtimes" => RuntimeTypeOK
              /\ part = "depsops" => DepsopsTypeOK
              /\ part = "userscan" => UserScanTypeOK
              /\ part = "cleanup" => CleanupTypeOK
              /\ part \in {"kev", "osv"} => FeedsTypeOK

(* Whatever a rule is asked, its answer is the one promised.               *)
Agree(rules) == part \in rules /\ answer # NoAnswer => Rightly(part, asked, answer[1])

(* What is read, shown, counted and sent is what the documents say: lists  *)
(* show their owner's rows and nothing else, a page tells where the next   *)
(* one begins, reports count each finding once, retries wait as the server *)
(* says and stop, board items follow what is open.                         *)
ReadersAgree == Agree(Readers)

(* Audits, probes and runtimes: what could not be seen is not judged, a    *)
(* name is asked only while it is public, an end of life is judged by the  *)
(* dates that are known.                                                   *)
ChecksAgree == Agree(Checks)

(* Scanning one repository: what is read of the advisories, of the         *)
(* Dockerfiles and of the tools is told, and what failed is not told clean.*)
ScansAgree == Agree(ScanRules)
===============================================================================
