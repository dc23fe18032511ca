---------------------------- MODULE RuntimeAlerts ----------------------------
(***************************************************************************)
(* RUNTIME (runtimes/crawler.py, repository.py, alerts.py): which releases *)
(* of a language there are, which of them the applications use, and the    *)
(* messages that one has come out, will lose or has lost its support.  A   *)
(* message is sent first and recorded after; what is recorded is not sent  *)
(* again.  The first run records what it finds and sends nothing.          *)
(*                                                                         *)
(* A cycle is a series of releases; all are of one language.  Days are     *)
(* told apart only by the phase each cycle is in.                          *)
(***************************************************************************)
EXTENDS Integers, FiniteSets

CONSTANTS Cycles,
          Old,            \* cycles that were out, and not new, before the first run
          Apps,           \* repositories that are in operation
          RuntimeRuns,    \* threads: the daily run and one started by a POST
          MaxHitches      \* bound: failed fetches, messages, commits; restarts

ASSUME RuntimeAssumption == Old \subseteq Cycles /\ MaxHitches \in Nat

VARIABLES
    phase,        \* of each cycle; it follows from its dates and the day
    uses,         \* the cycle each application uses, and whether it is pinned
    runtime_releases,   \* the cycles with a row
    repo_runtimes,      \* each application's rows
    runtime_alerts,     \* the recorded keys; Initialized among them
    at,           \* where each run is
    unsent,       \* the keys it has to send and record
    hitches,
    delivered,    \* ghost: keys sent, and those sent more than once
    again,
    silenced,     \* ghost: keys the first run recorded
    excused       \* ghost: keys whose record or answer was lost, or sent by two runs at once

runtimeVars == <<phase, uses, runtime_releases, repo_runtimes, runtime_alerts, at, unsent,
                 hitches, delivered, again, silenced, excused>>

Phases == <<"unreleased", "new", "settled", "eol_soon", "eol">>
Uses == Cycles \X BOOLEAN
Keys == {"new_release", "eol_soon", "eol"} \X Cycles
Initialized == <<"initialized">>

RuntimeTypeOK ==
    /\ phase \in [Cycles -> 1..5]
    /\ uses \in [Apps -> Uses] /\ repo_runtimes \in [Apps -> SUBSET Uses]
    /\ runtime_releases \subseteq Cycles
    /\ runtime_alerts \subseteq Keys \union {Initialized}
    /\ at \in [RuntimeRuns -> {"idle", "scan", "find", "first", "send", "record"}]
    /\ unsent \in [RuntimeRuns -> SUBSET Keys]
    /\ hitches \in 0..MaxHitches
    /\ again \subseteq delivered /\ delivered \union silenced \union excused \subseteq Keys

RuntimeInit ==
    /\ phase = [c \in Cycles |-> IF c \in Old THEN 3 ELSE 1]
    /\ uses \in [Apps -> Old \X BOOLEAN] /\ repo_runtimes = [a \in Apps |-> {}]
    /\ runtime_releases = {} /\ runtime_alerts = {}
    /\ at = [t \in RuntimeRuns |-> "idle"] /\ unsent = [t \in RuntimeRuns |-> {}]
    /\ hitches = 0
    /\ delivered = {} /\ again = {} /\ silenced = {} /\ excused = {}

PhaseOf(c) == Phases[phase[c]]

(* status.evaluate, of what find_alerts needs: the state of a pinned use.  *)
state(c) == IF c \notin runtime_releases THEN "unknown" ELSE PhaseOf(c)

(* find_alerts: ends of support of pinned cycles, and new cycles of a      *)
(* language that is used at all.                                           *)
find_alerts ==
    LET rows == UNION {repo_runtimes[a] : a \in Apps}
    IN  {k \in Keys : \/ /\ k[1] \in {"eol", "eol_soon"}
                         /\ <<k[2], TRUE>> \in rows /\ state(k[2]) = k[1]
                      \/ k[1] = "new_release" /\ rows # {} /\ state(k[2]) = "new"}

-----------------------------------------------------------------------------
(* Mutated forms, used only to show that the properties can fail.          *)

(* recorded although the message failed                                    *)
RecordsAnyway(ok) == "record"

(* a cycle that was once told of is not told of again                      *)
KnowsCycle(keys) == {k \in keys : \A r \in runtime_alerts \ {Initialized} : r[2] # k[2]}

(* a failed run stays at what it failed in                                 *)
StaysFailed(ok) == IF ok THEN "record" ELSE "failed"

-----------------------------------------------------------------------------
(* A cycle that comes out is followed no further than to its being new.    *)
Age(c) ==
    /\ phase[c] < (IF c \in Old THEN 5 ELSE 2)
    /\ phase' = [phase EXCEPT ![c] = @ + 1]
    /\ UNCHANGED <<uses, runtime_releases, repo_runtimes, runtime_alerts, at, unsent, hitches,
                   delivered, again, silenced, excused>>

Upgrade(a, c) ==
    /\ PhaseOf(c) \notin {"unreleased", "eol"} /\ phase[c] < phase[uses[a][1]]
    /\ uses' = [uses EXCEPT ![a] = <<c, TRUE>>]
    /\ UNCHANGED <<phase, runtime_releases, repo_runtimes, runtime_alerts, at, unsent, hitches,
                   delivered, again, silenced, excused>>

Hitch == hitches < MaxHitches /\ hitches' = hitches + 1

Goes(t, from, to) == at[t] = from /\ at' = [at EXCEPT ![t] = to]

(* A run starts, with fetch_all_releases and upsert: cycles are added,     *)
(* none is ever deleted; if this source fails the rows stay and the run    *)
(* goes on ...                                                             *)
FetchReleases(t, ok) ==
    /\ Goes(t, "idle", "scan")
    /\ \/ /\ ok
          /\ runtime_releases' = runtime_releases \union {c \in Cycles : PhaseOf(c) # "unreleased"}
          /\ UNCHANGED hitches
       \/ ~ok /\ Hitch /\ UNCHANGED runtime_releases
    /\ UNCHANGED <<phase, uses, repo_runtimes, runtime_alerts, unsent, delivered, again, silenced,
                   excused>>

(* ... if all sources do, or the database, or the process stops, it ends.  *)
RunEnds(t) ==
    /\ at[t] # "idle" /\ Hitch
    /\ at' = [at EXCEPT ![t] = "idle"]
    /\ unsent' = [unsent EXCEPT ![t] = {}]
    /\ excused' = IF at[t] = "record" THEN excused \union unsent[t] ELSE excused
    /\ UNCHANGED <<phase, uses, runtime_releases, repo_runtimes, runtime_alerts, delivered, again,
                   silenced>>

(* detect_repo_runtimes and the loop of execute: without the tree, or when *)
(* saving fails, a repository's rows stay; a file that could not be read   *)
(* leaves what it would have shown out.                                    *)
ScanApps(t, ok) ==
    /\ Goes(t, "scan", "find")
    /\ \/ /\ ok /\ UNCHANGED hitches
          /\ repo_runtimes' = [a \in Apps |-> {uses[a]}]
       \/ /\ ~ok /\ Hitch
          /\ \E a \in Apps, saved \in BOOLEAN :
               repo_runtimes' = [b \in Apps |->
                   IF b # a THEN {uses[b]}
                   ELSE IF saved THEN {} ELSE repo_runtimes[b]]
    /\ UNCHANGED <<phase, uses, runtime_releases, runtime_alerts, unsent, delivered, again,
                   silenced, excused>>

not_sent(keys) == keys \ runtime_alerts

(* send_runtime_alerts, up to the message                                  *)
FindAlerts(t) ==
    LET first == Initialized \notin runtime_alerts
        due == IF first THEN find_alerts ELSE not_sent(find_alerts)
    IN  /\ Goes(t, "find", IF first THEN "first" ELSE IF due = {} THEN "idle" ELSE "send")
        /\ unsent' = [unsent EXCEPT ![t] = due]
        /\ excused' = excused \union {k \in due : \E s \in RuntimeRuns \ {t} : k \in unsent[s]}
        /\ UNCHANGED <<phase, uses, runtime_releases, repo_runtimes, runtime_alerts, hitches,
                       delivered, again, silenced>>

next_after(ok) == IF ok THEN "record" ELSE "idle"

(* notify_runtime_alerts: one message; if it fails nothing is recorded.    *)
(* It may have arrived and only the answer have timed out.                 *)
SendAll(t, arrives, ok) ==
    /\ ok => arrives
    /\ Goes(t, "send", next_after(ok))
    /\ IF ok THEN UNCHANGED hitches ELSE Hitch
    /\ delivered' = IF arrives THEN delivered \union unsent[t] ELSE delivered
    /\ again' = IF arrives THEN again \union (delivered \intersect unsent[t]) ELSE again
    /\ excused' = IF arrives /\ ~ok THEN excused \union unsent[t] ELSE excused
    /\ unsent' = IF next_after(ok) = "idle" THEN [unsent EXCEPT ![t] = {}] ELSE unsent
    /\ UNCHANGED <<phase, uses, runtime_releases, repo_runtimes, runtime_alerts, silenced>>

(* _record: one commit; alert_key is unique, and a key another run has     *)
(* recorded undoes all of it, which after_success swallows.                *)
RecordSent(t) ==
    LET keys == unsent[t] \union (IF at[t] = "first" THEN {Initialized} ELSE {})
        unique == keys \intersect runtime_alerts = {}
    IN  /\ at[t] \in {"first", "record"}
        /\ at' = [at EXCEPT ![t] = "idle"]
        /\ unsent' = [unsent EXCEPT ![t] = {}]
        /\ runtime_alerts' = IF unique THEN runtime_alerts \union keys ELSE runtime_alerts
        /\ silenced' = IF unique /\ at[t] = "first" THEN silenced \union unsent[t] ELSE silenced
        /\ excused' = IF unique THEN excused ELSE excused \union unsent[t]
        /\ UNCHANGED <<phase, uses, runtime_releases, repo_runtimes, hitches, delivered, again>>

RuntimeStep(t) ==
    \/ FindAlerts(t) \/ RecordSent(t)
    \/ \E ok \in BOOLEAN : \/ FetchReleases(t, ok) \/ ScanApps(t, ok)
                          \/ \E arrives \in BOOLEAN : SendAll(t, arrives, ok)

RuntimeNext ==
    \/ \E c \in Cycles : Age(c) \/ \E a \in Apps : Upgrade(a, c)
    \/ \E t \in RuntimeRuns : RuntimeStep(t) \/ RunEnds(t)

RuntimeSpec == RuntimeInit /\ [][RuntimeNext]_runtimeVars

-----------------------------------------------------------------------------
(* A message is recorded only if it was sent, except by the first run, and *)
(* sent twice only if its record was lost, or the answer that it arrived,  *)
(* or two runs sent it at the same time (send_runtime_alerts).             *)
RecordedWasSent ==
    /\ runtime_alerts \ {Initialized} \subseteq delivered \union silenced
    /\ again \subseteq excused

(* As long as an application is pinned to an old cycle without support, the *)
(* administrator will be told, however many runs fail or undo each other's *)
(* records; unless it was so on the day of the first run.                  *)
EolIsTold ==
    \A c \in Old :
        (PhaseOf(c) = "eol" /\ \E a \in Apps : uses[a] = <<c, TRUE>>)
            ~> \/ <<"eol", c>> \in delivered \union silenced
               \/ \A a \in Apps : uses[a] # <<c, TRUE>>
=============================================================================
