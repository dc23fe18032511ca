-------------------------- MODULE CrawlRunnerProofs --------------------------
(* Proofs about CrawlRunner for any set of runs, any window and any day.   *)
EXTENDS CrawlRunner, TLAPS

(* Where the ghost seen and the times of a run stand in relation to its    *)
(* stage and to the log.                                                   *)
BeforeStart == {"idle", "asking", "cleared", "skipped"}

Times ==
    /\ clock > 0
    /\ \A r \in Runs : startedAt[r] <= clock /\ checkedAt[r] <= clock

StartedIsPastCheck ==
    \A r \in Runs : stage[r] \in BeforeStart => startedAt[r] = 0 /\ log[r] = "none"

SeenAreSuccesses == \A r \in Runs : seen[r] \subseteq Successes

ClearedIsApart ==
    \A r \in Runs \ forced : stage[r] = "cleared" =>
        \A q \in seen[r] : startedAt[q] + Window < checkedAt[r]

SuccessIsOver == \A q \in Successes : stage[q] \in {"reporting", "done", "lost"}

(* The inductive invariant: SuccessesSpaced holds because a cleared run is *)
(* apart from every success it saw, and a success's start never changes.   *)
IInv ==
    /\ RunnerTypeOK
    /\ Times
    /\ StartedIsPastCheck
    /\ SeenAreSuccesses
    /\ SuccessIsOver
    /\ ClearedIsApart
    /\ SuccessesSpaced
    /\ SkippedOnlyForSuccess

-----------------------------------------------------------------------------

(* No action takes a variable out of its type.                             *)
LEMMA TypeStep == RunnerTypeOK /\ [RunnerNext]_runnerVars => RunnerTypeOK'
<1> SUFFICES ASSUME RunnerTypeOK, [RunnerNext]_runnerVars PROVE RunnerTypeOK'
  OBVIOUS
<1> USE DEF RunnerTypeOK, Stages, Incident, trouble
<1>1. ASSUME NEW r \in Runs, SchedulerFires(r) PROVE RunnerTypeOK'
  BY <1>1 DEF SchedulerFires
<1>2. ASSUME NEW r \in Runs, NEW f \in BOOLEAN, Post(r, f) PROVE RunnerTypeOK'
  BY <1>2, BoundsAssumption DEF Post
<1>3. ASSUME NEW r \in Runs, Ask(r) PROVE RunnerTypeOK'
  BY <1>3 DEF Ask, Successes
<1>4. ASSUME NEW r \in Runs, Start(r) PROVE RunnerTypeOK'
  BY <1>4 DEF Start
<1>5. ASSUME NEW r \in Runs, AskFails(r) \/ ExecuteReturns(r) \/ ExecuteRaises(r)
      PROVE RunnerTypeOK'
  BY <1>5 DEF AskFails, ExecuteReturns, ExecuteRaises
<1>6. ASSUME NEW r \in Runs, LogSuccess(r) \/ LogError(r) PROVE RunnerTypeOK'
  BY <1>6 DEF LogSuccess, LogError, write_crawler_log
<1>7. ASSUME NEW r \in Runs, AfterSuccess(r) PROVE RunnerTypeOK'
  BY <1>7 DEF AfterSuccess
<1>8. CASE RestartRuns
  BY <1>8 DEF RestartRuns
<1>9. CASE ClockTicks
  BY <1>9 DEF ClockTicks
<1>10. CASE RunnerTerminates \/ UNCHANGED runnerVars
  BY <1>10 DEF RunnerTerminates, runnerVars
<1> QED
  BY <1>1, <1>2, <1>3, <1>4, <1>5, <1>6, <1>7, <1>8, <1>9, <1>10 DEF RunnerNext

(* Every variable keeps its type.                                          *)
THEOREM TypeCorrect == RunnerSpec => []RunnerTypeOK
<1>1. RunnerInit => RunnerTypeOK
  BY DEF RunnerInit, RunnerTypeOK, Stages
<1> QED
  BY <1>1, TypeStep, PTL DEF RunnerSpec

(* The proof of one action only needs the parts of IInv that talk about    *)
(* what the action changes; the others carry over.                         *)
LEMMA InitIInv == RunnerInit => IInv
BY DEF RunnerInit, IInv, RunnerTypeOK, Stages, Times, StartedIsPastCheck, BeforeStart,
       SeenAreSuccesses, SuccessIsOver, Successes, ClearedIsApart,
       SuccessesSpaced, SkippedOnlyForSuccess

(* Asking is the step the window is about: a run that is not forced is     *)
(* cleared only when every recorded success is older than the window, and  *)
(* skipped only when one is not.                                           *)
LEMMA AskKeepsIInv ==
  ASSUME IInv, RunnerTypeOK', NEW r \in Runs, Ask(r)
  PROVE  IInv'
<1> USE DEF IInv, RunnerTypeOK, Ask
<1>1. Times' /\ StartedIsPastCheck'
  BY TimesAssumption DEF Times, StartedIsPastCheck, BeforeStart
<1>2. SeenAreSuccesses' /\ SuccessIsOver'
  BY DEF SeenAreSuccesses, SuccessIsOver, Successes
<1>3. ClearedIsApart'
  BY TimesAssumption
  DEF ClearedIsApart, already_succeeded_recently, Successes
<1>4. SuccessesSpaced'
  BY DEF SuccessesSpaced, StartedIsPastCheck, BeforeStart
<1>5. SkippedOnlyForSuccess'
  BY TimesAssumption
  DEF SkippedOnlyForSuccess, already_succeeded_recently, Successes,
      SuccessIsOver
<1> QED
  BY <1>1, <1>2, <1>3, <1>4, <1>5

(* Starting turns the distance of a cleared run into the distance of its   *)
(* start.                                                                  *)
LEMMA StartKeepsIInv ==
  ASSUME IInv, RunnerTypeOK', NEW r \in Runs, Start(r)
  PROVE  IInv'
<1> USE DEF IInv, RunnerTypeOK, Start
<1>0. r \notin Successes /\ \A p \in Runs : r \notin seen[p]
  BY DEF SuccessIsOver, SeenAreSuccesses
<1>1. Times' /\ StartedIsPastCheck'
  BY DEF Times, StartedIsPastCheck, BeforeStart
<1>2. SeenAreSuccesses' /\ SuccessIsOver'
  BY DEF SeenAreSuccesses, SuccessIsOver, Successes
<1>3. ClearedIsApart'
  BY <1>0 DEF ClearedIsApart
<1>4. SuccessesSpaced'
  <2> SUFFICES ASSUME NEW p \in Runs \ forced, NEW q \in seen[p],
                      startedAt'[p] > 0
               PROVE  startedAt'[p] > startedAt'[q] + Window
    BY DEF SuccessesSpaced
  <2>1. q \in Runs /\ q # r /\ startedAt'[q] = startedAt[q]
    BY <1>0
  <2>2. CASE p = r
    <3>1. startedAt[q] + Window < checkedAt[r] /\ checkedAt[r] <= clock
      BY <2>1, <2>2 DEF ClearedIsApart, Times
    <3> QED
      BY <2>1, <2>2, <3>1, TimesAssumption
  <2>3. CASE p # r
    BY <2>1, <2>3 DEF SuccessesSpaced
  <2> QED
    BY <2>2, <2>3
<1>5. SkippedOnlyForSuccess'
  BY <1>0 DEF SkippedOnlyForSuccess, Successes
<1> QED
  BY <1>1, <1>2, <1>3, <1>4, <1>5

(* Writing the row only adds a success, and only of a run that is over.    *)
LEMMA LogKeepsIInv ==
  ASSUME IInv, RunnerTypeOK', NEW r \in Runs, LogSuccess(r) \/ LogError(r)
  PROVE  IInv'
<1> USE DEF IInv, RunnerTypeOK, LogSuccess, LogError, write_crawler_log, Incident
<1>0. stage[r] \in {"executed", "failing"} /\ r \notin Successes
  BY DEF SuccessIsOver
<1>1. Times' /\ StartedIsPastCheck'
  BY DEF Times, StartedIsPastCheck, BeforeStart
<1>2. Successes \subseteq Successes' /\ SuccessIsOver'
  BY <1>0 DEF SuccessIsOver, Successes
<1>3. SeenAreSuccesses' /\ ClearedIsApart' /\ SuccessesSpaced'
  BY <1>2 DEF SeenAreSuccesses, ClearedIsApart, SuccessesSpaced
<1>4. SkippedOnlyForSuccess'
  BY <1>0, <1>2 DEF SkippedOnlyForSuccess, Successes
<1> QED
  BY <1>1, <1>2, <1>3, <1>4

(* The remaining steps move a run on, or lose it, without touching a time, *)
(* a row or what anyone saw.                                               *)
LEMMA OtherStepsKeepIInv ==
  ASSUME IInv, RunnerTypeOK',
         \/ \E r \in Runs : \/ SchedulerFires(r)
                            \/ \E f \in BOOLEAN : Post(r, f)
                            \/ AskFails(r)
                            \/ ExecuteReturns(r) \/ ExecuteRaises(r)
                            \/ AfterSuccess(r)
         \/ RestartRuns \/ ClockTicks \/ RunnerTerminates \/ UNCHANGED runnerVars
  PROVE  IInv'
<1> USE DEF IInv, RunnerTypeOK, SchedulerFires, Post, AskFails, ExecuteReturns,
            ExecuteRaises, AfterSuccess, RestartRuns, ClockTicks, RunnerTerminates, runnerVars
<1>1. /\ UNCHANGED <<checkedAt, startedAt, log, seen>>
      /\ forced \subseteq forced'
      /\ clock' >= clock
  OBVIOUS
<1>2. \A p \in Runs :
         /\ stage'[p] = "cleared" => stage[p] = "cleared"
         /\ stage'[p] = "skipped" => stage[p] = "skipped"
         /\ stage'[p] \in BeforeStart => stage[p] \in BeforeStart
         /\ stage[p] \in {"reporting", "done", "lost"} =>
                stage'[p] \in {"reporting", "done", "lost"}
  BY DEF BeforeStart, InFlight
<1>3. Times' /\ StartedIsPastCheck'
  BY <1>1, <1>2 DEF Times, StartedIsPastCheck
<1>4. SeenAreSuccesses' /\ SuccessIsOver'
  BY <1>1, <1>2 DEF SeenAreSuccesses, SuccessIsOver, Successes
<1>5. ClearedIsApart' /\ SuccessesSpaced'
  BY <1>1, <1>2 DEF ClearedIsApart, SuccessesSpaced
<1>6. SkippedOnlyForSuccess'
  BY <1>1, <1>2 DEF SkippedOnlyForSuccess, Successes
<1> QED
  BY <1>3, <1>4, <1>5, <1>6

(* The inductive invariant holds throughout.                               *)
THEOREM IInvHolds == RunnerSpec => []IInv
<1>1. IInv /\ [RunnerNext]_runnerVars => IInv'
  <2> SUFFICES ASSUME IInv, [RunnerNext]_runnerVars PROVE IInv'
    OBVIOUS
  <2>1. RunnerTypeOK'
    BY TypeStep DEF IInv
  <2>2. ASSUME NEW r \in Runs, Ask(r) PROVE IInv'
    BY <2>1, <2>2, AskKeepsIInv
  <2>3. ASSUME NEW r \in Runs, Start(r) PROVE IInv'
    BY <2>1, <2>3, StartKeepsIInv
  <2>4. ASSUME NEW r \in Runs, LogSuccess(r) \/ LogError(r) PROVE IInv'
    BY <2>1, <2>4, LogKeepsIInv
  <2>5. CASE \/ \E r \in Runs : \/ SchedulerFires(r)
                               \/ \E f \in BOOLEAN : Post(r, f)
                               \/ AskFails(r)
                               \/ ExecuteReturns(r) \/ ExecuteRaises(r)
                               \/ AfterSuccess(r)
            \/ RestartRuns \/ ClockTicks \/ RunnerTerminates \/ UNCHANGED runnerVars
    BY <2>1, <2>5, OtherStepsKeepIInv
  <2> QED
    BY <2>2, <2>3, <2>4, <2>5 DEF RunnerNext
<1> QED
  BY InitIInv, <1>1, PTL DEF RunnerSpec

(* Two runs that were not forced, one having asked after the other's       *)
(* success was recorded, start more than the window apart.                 *)
THEOREM RunsAreSpaced == RunnerSpec => []SuccessesSpaced
BY IInvHolds, PTL DEF IInv

(* A run is skipped only because a recorded success started within the     *)
(* window before it.                                                       *)
THEOREM SkipsAreJustified == RunnerSpec => []SkippedOnlyForSuccess
BY IInvHolds, PTL DEF IInv

-----------------------------------------------------------------------------
(* A day's firing is covered by a success recent enough, or by the run it  *)
(* started, which is on its way to one.                                    *)
Covered(t) ==
    \/ \E q \in Successes : startedAt[q] >= t - Window
    \/ \E r \in Runs : stage[r] \in {"asking", "cleared"} /\ clock = t
    \/ \E r \in Runs : stage[r] \in {"executing", "executed"} /\ startedAt[r] = t

FiringsCovered ==
    \A t \in Nat : /\ 0 < t /\ t % Day = 0 /\ (t < clock \/ (t = clock /\ firedAt = t))
                   /\ incidentAt < t
                   => Covered(t)

(* The clock has not passed a firing that is due, nor a run's time.        *)
ClocksInStep ==
    /\ firedAt <= clock /\ incidentAt <= clock
    /\ \A r \in Runs : Running(r) => clock - startedAt[r] <= MaxExec

(* What is executing when the clock moves has been given its time.         *)
LEMMA StepClocks ==
  ASSUME IInv, ClocksInStep, [RunnerNext]_runnerVars
  PROVE  ClocksInStep'
<1> USE DEF IInv, RunnerTypeOK, Times, ClocksInStep, Running, Incident, trouble
<1>1. ASSUME NEW r \in Runs, Start(r) PROVE ClocksInStep'
  BY <1>1, TimesAssumption DEF Start
<1>2. CASE ClockTicks
  BY <1>2, TimesAssumption DEF ClockTicks
<1>3. ASSUME NEW r \in Runs,
             SchedulerFires(r) \/ \E f \in BOOLEAN : Post(r, f)
      PROVE  ClocksInStep'
  BY <1>3 DEF SchedulerFires, Post
<1>4. ASSUME NEW r \in Runs, Ask(r) \/ AskFails(r) \/ AfterSuccess(r)
      PROVE  ClocksInStep'
  BY <1>4 DEF Ask, AskFails, AfterSuccess
<1>5. ASSUME NEW r \in Runs,
             ExecuteReturns(r) \/ ExecuteRaises(r) \/ LogSuccess(r) \/ LogError(r)
      PROVE  ClocksInStep'
  BY <1>5 DEF ExecuteReturns, ExecuteRaises, LogSuccess, LogError, write_crawler_log
<1>6. CASE RestartRuns
  BY <1>6 DEF RestartRuns, InFlight
<1>7. CASE RunnerTerminates \/ UNCHANGED runnerVars
  BY <1>7 DEF RunnerTerminates, runnerVars
<1> QED
  BY <1>1, <1>2, <1>3, <1>4, <1>5, <1>6, <1>7 DEF RunnerNext

(* A run goes on from the firing that started it to its success, or        *)
(* something goes wrong at that moment or later.                           *)
LEMMA StepCovered ==
  ASSUME IInv, ClocksInStep, FiringsCovered, [RunnerNext]_runnerVars
  PROVE  FiringsCovered'
<1> SUFFICES ASSUME NEW t \in Nat, 0 < t, t % Day = 0, t < clock' \/ (t = clock' /\ firedAt' = t),
                    incidentAt' < t
             PROVE  Covered(t)'
  BY DEF FiringsCovered
<1>0. /\ stage \in [Runs -> Stages] /\ log \in [Runs -> {"none", "success", "error"}]
      /\ startedAt \in [Runs -> Nat] /\ clock \in Nat /\ firedAt \in Nat /\ incidentAt \in Nat
      /\ firedAt <= clock /\ incidentAt <= clock /\ Window \in Nat /\ Day \in Nat \ {0}
  BY TimesAssumption DEF IInv, RunnerTypeOK, ClocksInStep
<1>1. ASSUME NEW r \in Runs, SchedulerFires(r) PROVE Covered(t)'
  <2>1. /\ clock' = clock /\ UNCHANGED <<log, startedAt, incidentAt>> /\ stage[r] = "idle"
        /\ stage' = [stage EXCEPT ![r] = "asking"]
    BY <1>1 DEF SchedulerFires, trouble
  <2>2. CASE t = clock
    BY <1>0, <2>1, <2>2 DEF Covered
  <2>3. CASE t < clock
    <3>1. Covered(t)
      BY <1>0, <2>1, <2>3 DEF FiringsCovered
    <3> QED
      BY <1>0, <2>1, <3>1 DEF Covered, Successes
  <2> QED
    BY <2>1, <2>2, <2>3
<1>2. ASSUME UNCHANGED <<clock, firedAt, incidentAt>> PROVE Covered(t)
  BY <1>0, <1>2 DEF FiringsCovered
<1>3. ASSUME NEW r \in Runs, NEW f \in BOOLEAN, Post(r, f) PROVE Covered(t)'
  <2>1. /\ UNCHANGED <<clock, firedAt, log, startedAt, incidentAt>> /\ stage[r] = "idle"
        /\ stage' = [stage EXCEPT ![r] = "asking"]
    BY <1>3 DEF Post, trouble
  <2> QED
    BY <1>0, <1>2, <2>1 DEF Covered, Successes
<1>4. ASSUME NEW r \in Runs, Ask(r) PROVE Covered(t)'
  <2>1. /\ UNCHANGED <<clock, firedAt, log, startedAt, incidentAt>> /\ stage[r] = "asking"
        /\ \/ stage' = [stage EXCEPT ![r] = "cleared"]
           \/ /\ stage' = [stage EXCEPT ![r] = "skipped"]
              /\ \E q \in Successes : startedAt[q] >= clock - Window
    BY <1>4 DEF Ask, trouble, already_succeeded_recently
  <2>2. CASE \E q \in Successes : startedAt[q] >= t - Window
    BY <2>1, <2>2 DEF Covered, Successes
  <2>3. CASE \E p \in Runs : stage[p] \in {"executing", "executed"} /\ startedAt[p] = t
    BY <1>0, <2>1, <2>3 DEF Covered
  <2>4. CASE \E p \in Runs : stage[p] \in {"asking", "cleared"} /\ clock = t
    <3>1. PICK p \in Runs : stage[p] \in {"asking", "cleared"} /\ clock = t
      BY <2>4
    <3>2. CASE stage' = [stage EXCEPT ![r] = "cleared"]
      <4>1. stage'[p] \in {"asking", "cleared"} /\ clock' = t
        BY <1>0, <2>1, <3>1, <3>2
      <4> QED
        BY <4>1 DEF Covered
    <3>3. CASE \E q \in Successes : startedAt[q] >= clock - Window
      BY <2>1, <3>1, <3>3 DEF Covered, Successes
    <3> QED
      BY <2>1, <3>2, <3>3
  <2> QED
    BY <1>2, <2>1, <2>2, <2>3, <2>4 DEF Covered
<1>5. ASSUME NEW r \in Runs, Start(r) PROVE Covered(t)'
  <2>1. /\ UNCHANGED <<clock, firedAt, log, incidentAt>> /\ stage[r] = "cleared"
        /\ stage' = [stage EXCEPT ![r] = "executing"]
        /\ startedAt' = [startedAt EXCEPT ![r] = clock]
    BY <1>5 DEF Start, trouble
  <2>2. r \notin Successes
    BY <2>1 DEF IInv, SuccessIsOver
  <2>3. CASE \E q \in Successes : startedAt[q] >= t - Window
    BY <1>0, <2>1, <2>2, <2>3 DEF Covered, Successes
  <2>4. CASE \E p \in Runs : stage[p] \in {"executing", "executed"} /\ startedAt[p] = t
    BY <1>0, <2>1, <2>4 DEF Covered
  <2>5. CASE \E p \in Runs : stage[p] \in {"asking", "cleared"} /\ clock = t
    <3>1. stage'[r] = "executing" /\ startedAt'[r] = t
      BY <1>0, <2>1, <2>5
    <3> QED
      BY <3>1 DEF Covered
  <2> QED
    BY <1>2, <2>1, <2>3, <2>4, <2>5 DEF Covered
<1>6. ASSUME NEW r \in Runs, ExecuteReturns(r) PROVE Covered(t)'
  <2>1. /\ UNCHANGED <<clock, firedAt, log, startedAt, incidentAt>> /\ stage[r] = "executing"
        /\ stage' = [stage EXCEPT ![r] = "executed"]
    BY <1>6 DEF ExecuteReturns, trouble
  <2> QED
    BY <1>0, <1>2, <2>1 DEF Covered, Successes
<1>7. ASSUME NEW r \in Runs, AfterSuccess(r) PROVE Covered(t)'
  <2>1. /\ UNCHANGED <<clock, firedAt, log, startedAt, incidentAt>> /\ stage[r] = "reporting"
        /\ stage' = [stage EXCEPT ![r] = "done"]
    BY <1>7 DEF AfterSuccess, trouble
  <2> QED
    BY <1>0, <1>2, <2>1 DEF Covered, Successes
<1>8. ASSUME NEW r \in Runs, LogSuccess(r), UNCHANGED trouble PROVE Covered(t)'
  <2>1. /\ UNCHANGED <<clock, firedAt, startedAt, incidentAt>> /\ stage[r] = "executed"
        /\ stage' = [stage EXCEPT ![r] = "reporting"]
        /\ log' = [log EXCEPT ![r] = "success"] \/ incidents' = incidents + 1
        /\ incidents \in Nat
    BY <1>8 DEF LogSuccess, write_crawler_log, Incident, trouble, IInv, RunnerTypeOK
  <2>2. log' = [log EXCEPT ![r] = "success"] /\ r \in Successes'
    BY <1>0, <1>8, <2>1 DEF trouble, Successes
  <2>3. Successes \subseteq Successes'
    BY <1>0, <2>2 DEF Successes
  <2>4. CASE \E q \in Successes : startedAt[q] >= t - Window
    BY <2>1, <2>3, <2>4 DEF Covered
  <2>5. CASE \E p \in Runs : stage[p] \in {"executing", "executed"} /\ startedAt[p] = t
    <3>1. PICK p \in Runs : stage[p] \in {"executing", "executed"} /\ startedAt[p] = t
      BY <2>5
    <3>2. CASE p = r
      BY <1>0, <2>1, <2>2, <3>1, <3>2 DEF Covered
    <3>3. CASE p # r
      BY <1>0, <2>1, <3>1, <3>3 DEF Covered
    <3> QED
      BY <3>2, <3>3
  <2>6. CASE \E p \in Runs : stage[p] \in {"asking", "cleared"} /\ clock = t
    BY <1>0, <2>1, <2>6 DEF Covered
  <2> QED
    BY <1>2, <2>1, <2>4, <2>5, <2>6 DEF Covered
<1>9. ASSUME NEW r \in Runs, LogError(r), UNCHANGED trouble PROVE Covered(t)'
  <2>1. /\ UNCHANGED <<clock, firedAt, startedAt, incidentAt>> /\ stage[r] = "failing"
        /\ stage' = [stage EXCEPT ![r] = "failed"]
        /\ log' = [log EXCEPT ![r] = "error"] \/ log' = log
    BY <1>9 DEF LogError, write_crawler_log, trouble
  <2>2. r \notin Successes
    BY <2>1 DEF IInv, SuccessIsOver
  <2>3. Successes \subseteq Successes'
    BY <1>0, <2>1, <2>2 DEF Successes
  <2> QED
    BY <1>0, <1>2, <2>1, <2>3 DEF Covered
<1>10. CASE incidentAt' = clock /\ clock' = clock
  BY <1>0, <1>10
<1>11. CASE ClockTicks
  <2>1. /\ clock' = clock + 1 /\ ~Due /\ UNCHANGED <<firedAt, stage, startedAt, log, incidentAt>>
        /\ \A r \in Runs : stage[r] \notin {"asking", "cleared"}
    BY <1>11 DEF ClockTicks, trouble
  <2>2. t < clock \/ (t = clock /\ firedAt = t)
    BY <1>0, <2>1 DEF Due
  <2>3. Covered(t)
    BY <1>0, <2>1, <2>2 DEF FiringsCovered
  <2> QED
    BY <2>1, <2>3 DEF Covered, Successes
<1>12. CASE RunnerTerminates \/ UNCHANGED runnerVars
  BY <1>2, <1>12 DEF RunnerTerminates, runnerVars, trouble, Covered, Successes
<1>13. ASSUME NEW r \in Runs,
              AskFails(r) \/ ExecuteRaises(r) \/ ((LogSuccess(r) \/ LogError(r)) /\ Incident)
       PROVE  Covered(t)'
  BY <1>10, <1>13 DEF AskFails, ExecuteRaises, LogSuccess, LogError, Incident
<1>14. CASE RestartRuns
  BY <1>10, <1>14 DEF RestartRuns, Incident
<1>15. ASSUME NEW r \in Runs, LogSuccess(r) \/ LogError(r) PROVE Covered(t)'
  BY <1>8, <1>9, <1>13, <1>15 DEF LogSuccess, LogError, write_crawler_log
<1> QED
  BY <1>1, <1>3, <1>4, <1>5, <1>6, <1>7, <1>11, <1>12, <1>13, <1>14, <1>15 DEF RunnerNext

(* The last settled firing is a firing, and long enough ago.               *)
LEMMA SettledFiring ==
  ASSUME clock \in Nat
  PROVE  /\ LastSettledFiring \in Int /\ LastSettledFiring % Day = 0
         /\ LastSettledFiring + MaxExec < clock
<1> DEFINE x == clock - MaxExec - 1
<1>1. x \in Int /\ Day \in Nat \ {0} /\ MaxExec \in Nat
  BY TimesAssumption
<1>2. LastSettledFiring = (x \div Day) * Day
  BY DEF LastSettledFiring
<1> HIDE DEF x
<1>3. x \div Day \in Int /\ (x \div Day) * Day <= x
  BY <1>1
<1>4. \A k \in Int : (k * Day) % Day = 0 /\ k * Day \in Int
  BY <1>1
<1>5. LastSettledFiring <= x /\ LastSettledFiring \in Int /\ LastSettledFiring % Day = 0
  BY <1>2, <1>3, <1>4
<1> QED
  BY <1>1, <1>5 DEF x

(* Skipping duplicates never costs a day: a run that a firing started has  *)
(* had its time and left its success, or was skipped for a recent one.     *)
THEOREM DaysAreCovered == RunnerSpec => []StaysFresh
<1>1. RunnerInit => ClocksInStep /\ FiringsCovered
  <2> SUFFICES ASSUME RunnerInit PROVE ClocksInStep /\ FiringsCovered
    OBVIOUS
  <2>1. clock = 1 /\ firedAt = 0 /\ incidentAt = 0 /\ \A r \in Runs : stage[r] = "idle"
    BY DEF RunnerInit
  <2> QED
    BY <2>1 DEF ClocksInStep, FiringsCovered, Running
<1>2. IInv /\ ClocksInStep /\ FiringsCovered /\ [RunnerNext]_runnerVars
      => ClocksInStep' /\ FiringsCovered'
  BY StepClocks, StepCovered
<1>3. IInv /\ ClocksInStep /\ FiringsCovered => StaysFresh
  <2> SUFFICES ASSUME IInv, ClocksInStep, FiringsCovered, NEW t \in Int, t = LastSettledFiring,
                      t > 0, incidentAt < t
               PROVE  \E q \in Successes : startedAt[q] >= t - Window
    BY SettledFiring DEF StaysFresh, IInv, RunnerTypeOK
  <2>1. /\ t \in Nat /\ t % Day = 0 /\ t + MaxExec < clock /\ clock \in Nat /\ MaxExec \in Nat
        /\ Day \in Nat \ {0}
    BY SettledFiring, TimesAssumption DEF IInv, RunnerTypeOK
  <2>2. Covered(t)
    BY <2>1 DEF FiringsCovered
  <2>3. \A r \in Runs : Running(r) => startedAt[r] # t
    BY <2>1 DEF ClocksInStep
  <2> QED
    BY <2>1, <2>2, <2>3 DEF Covered, Running
<1> QED
  BY <1>1, <1>2, <1>3, IInvHolds, PTL DEF RunnerSpec
=============================================================================
