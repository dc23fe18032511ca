----------------------------- MODULE MCScheduled -----------------------------
(* What the scheduler starts and what requests do beside it: the runs of a *)
(* crawler, and the exceptions with the job that ends them.  The two share *)
(* neither rows nor memory, so the one that runs is chosen at the start    *)
(* and the other stays where it begins.  A tick of the runs is six hours,  *)
(* the day four ticks and the window two, as 24h and DUPLICATE_RUN_WINDOW  *)
(* = 12h.                                                                  *)
EXTENDS CrawlRunner, FindingExceptions, TLC

VARIABLE part

vars == <<part, runnerVars, exceptionVars>>

Init == /\ part \in {"runs", "exceptions"}
        /\ RunnerInit
        /\ ExceptionsInit

Next == /\ part' = part
        /\ \/ /\ part = "runs" /\ RunnerNext
              /\ UNCHANGED exceptionVars
           \/ /\ part = "exceptions" /\ ExceptionsNext
              /\ UNCHANGED runnerVars

Spec == Init /\ [][Next]_vars

(* Every variable of the part that runs stays in its domain.               *)
ScheduledTypeOK == /\ part = "runs" => RunnerTypeOK
                   /\ part = "exceptions" => ExceptionsTypeOK

(* The requests to create are interchangeable.                             *)
MCSymmetry == Permutations(Creates)

(* The runs are interchangeable too: it is enough to take them in order.   *)
RunsInOrder == \A r, q \in Runs : q < r /\ stage[r] # "idle" => stage[q] # "idle"
=============================================================================
