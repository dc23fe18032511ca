-------------------------- MODULE FindingExceptions --------------------------
(***************************************************************************)
(* The exceptions of one finding of an admin's repository: the rows of     *)
(* finding_exceptions, the requests that register and revoke one           *)
(* (finding_exceptions/router.py, repository.py), and the daily job that   *)
(* ends and announces them (finding_exceptions/lifecycle.py).  The issue   *)
(* they hide the finding from is the subject of Findings.                  *)
(*                                                                         *)
(* A transaction reads first and writes when it commits, and an object of  *)
(* the ORM writes only the columns it changed: two threads on one row mix  *)
(* their columns.  Reading and committing are separate steps here.  Time   *)
(* is in days; a request never straddles midnight, the job may.            *)
(***************************************************************************)
EXTENDS Integers, Sequences, FiniteSets

CONSTANTS Creates,     \* threads: POST /api/exceptions
          Revokes,     \* DELETE /api/exceptions/{id}
          Notice,      \* EXCEPTION_EXPIRY_NOTICE_DAYS
          MaxDays,     \* EXCEPTION_MAX_DAYS
          MaxTime,     \* bound: the clock stops here
          MaxFaults    \* bound: failed calls and restarts

ASSUME ThreadsAssumption == Creates \intersect Revokes = {}
ASSUME DaysAssumption == /\ Notice \in Nat
                         /\ MaxDays \in Nat \ {0}
                         /\ MaxTime \in Nat \ {0}
                         /\ MaxFaults \in Nat

Requests == Creates \union Revokes

VARIABLES now,
          finding,     \* the finding: unresolved, fix published, or resolved
          rows,        \* the finding_exceptions rows, by id
          pc,          \* the stage of each request
          want,        \* what a request to create writes
          got, loaded, \* the row it found (0: none), and as it was then
          job,         \* the stage of the daily job
          when, ranAt, \* now as it was when the job started; its last day
          ending,      \* the rows the job has read for the stage it is in
          again,       \* the ended rows it will show again
          crossed,     \* ghost: what a request to create has overlapped with
          noticed,     \* ghost: expiry notices per row since it was approved
          shown,       \* ghost: rows whose finding was shown again at their end
          excused,     \* ghost: rows for which that failed, or was not needed
          faults       \* ghost: how many calls failed, or restarts happened

requests == <<pc, want, got, loaded>>
lifecycle == <<job, when, ranAt, ending, again>>
ghosts == <<crossed, noticed, shown, excused, faults>>
exceptionVars == <<now, finding, rows, requests, lifecycle, ghosts>>

Never == 0      \* expires_at is NULL

Row == [status : {"accepted", "dismissed"}, expires : Nat, notified : BOOLEAN,
        ended : {"no", "revoked", "expired", "fix_available"}]

ExceptionsTypeOK ==
    /\ now \in 1..MaxTime
    /\ finding \in {"open", "fixable", "resolved"}
    /\ rows \in Seq(Row)
    /\ DOMAIN pc = Requests
    /\ \A c \in Requests : pc[c] \in {"idle", "commit", "refile", "done", "lost"}
    /\ DOMAIN got = Requests
    /\ \A c \in Requests : got[c] \in 0..Len(rows)
    /\ job \in {"idle", "fix", "expire", "expiring", "soon", "noticing", "refile"}
    /\ when \in 0..now /\ ranAt \in 0..now
    /\ ending \subseteq DOMAIN rows
    /\ again \subseteq DOMAIN rows
    /\ DOMAIN noticed = DOMAIN rows
    /\ shown \union excused \subseteq DOMAIN rows
    /\ crossed \subseteq {"create", "notice"}
    /\ faults \in 0..MaxFaults

ExceptionsInit ==
    /\ now = 1
    /\ finding = "open"
    /\ rows = <<>>
    /\ pc = [c \in Requests |-> "idle"]
    /\ want = [c \in Creates |-> <<>>]
    /\ got = [c \in Requests |-> 0]
    /\ loaded = [c \in Creates |-> <<>>]
    /\ job = "idle"
    /\ when = 0
    /\ ranAt = 0
    /\ ending = {}
    /\ again = {}
    /\ crossed = {}
    /\ noticed = <<>>
    /\ shown = {}
    /\ excused = {}
    /\ faults = 0

Fault == faults < MaxFaults /\ faults' = faults + 1

Goto(c, to) == pc' = [pc EXCEPT ![c] = to]

NeedsAttention == finding # "resolved"      \* findings_for is not empty

Lapsed(i, t) == rows[i].expires # Never /\ rows[i].expires <= t

-----------------------------------------------------------------------------
(* Mutated forms, used only to show that the properties can fail.          *)

(* only an active acceptance is updated                                    *)
AcceptedOnly == {i \in DOMAIN rows : /\ rows[i].ended = "no" /\ ~Lapsed(i, now)
                                     /\ rows[i].status = "accepted"}

(* due the day after the date                                              *)
DueTheDayAfter(t) == {i \in DOMAIN rows : rows[i].ended = "no" /\ Lapsed(i, t - 1)}

(* due_soon does not look at expiry_notified_at                            *)
SoonEveryDay(t) ==
    {i \in DOMAIN rows : /\ rows[i].ended = "no" /\ rows[i].status = "accepted"
                         /\ rows[i].expires \in t + 1 .. t + Notice}

(* refile_issues is not given what the fix has ended                       *)
ForgetsFixed(set) ==
    IF NeedsAttention THEN {i \in set : rows[i].ended # "fix_available"} ELSE {}

(* a renewal leaves expiry_notified_at alone                               *)
KeepsNotified(row, old, new) ==
    [row EXCEPT !.status  = IF new.status # old.status THEN new.status ELSE @,
                !.expires = IF new.expires # old.expires THEN new.expires ELSE @]

-----------------------------------------------------------------------------
(* _is_active                                                              *)
active(i, t) == rows[i].ended = "no" /\ ~Lapsed(i, t)

Active == {i \in DOMAIN rows : active(i, now)}

(* _validate_expiry: required of an acceptance, in the future, and not too *)
(* far.                                                                    *)
valid_expiry(body) ==
    \/ body.expires = Never /\ body.status # "accepted"
    \/ body.expires \in now + 1 .. now + MaxDays

(* the row that upsert_active updates                                      *)
existing == Active

(* What it writes of the row it loaded as old: the columns that change.    *)
renewed(row, old, new) ==
    [row EXCEPT !.status   = IF new.status # old.status THEN new.status ELSE @,
                !.expires  = IF new.expires # old.expires THEN new.expires ELSE @,
                !.notified = IF old.notified THEN FALSE ELSE @]

(* create_exception: the date is checked and an active row looked up.      *)
Lookup(c, body) ==
    /\ pc[c] = "idle"
    /\ valid_expiry(body)
    /\ want' = [want EXCEPT ![c] = body]
    /\ \/ /\ existing = {}
          /\ UNCHANGED <<got, loaded>>
       \/ \E i \in existing : /\ got' = [got EXCEPT ![c] = i]
                              /\ loaded' = [loaded EXCEPT ![c] = rows[i]]
    /\ crossed' = crossed \union {"create" : d \in {d \in Creates : pc[d] = "commit"}}
    /\ Goto(c, "commit")
    /\ UNCHANGED <<now, finding, rows, lifecycle, noticed, shown, excused, faults>>

(* upsert_active commits: a new row, or the columns that change of the row *)
(* it had loaded.  The issue is then closed if nothing is left (Findings). *)
upsert_active(c) ==
    /\ c \in Creates /\ pc[c] = "commit"
    /\ LET new == want[c]
           old == loaded[c]
           i   == got[c]
       IN  IF i = 0
           THEN /\ rows' = Append(rows, [status |-> new.status, expires |-> new.expires,
                                         notified |-> FALSE, ended |-> "no"])
                /\ noticed' = Append(noticed, 0)
           ELSE /\ rows' = [rows EXCEPT ![i] = renewed(@, old, new)]
                /\ noticed' = [noticed EXCEPT ![i] = 0]
    /\ Goto(c, "done")
    /\ got' = [got EXCEPT ![c] = 0]
    /\ want' = [want EXCEPT ![c] = <<>>]
    /\ loaded' = [loaded EXCEPT ![c] = <<>>]
    /\ UNCHANGED <<now, finding, lifecycle, crossed, shown, excused, faults>>

end(i, reason) == rows' = [rows EXCEPT ![i].ended = reason]

(* revoke_exception: refused of a row that has ended ...                   *)
Revoke(c, i) ==
    /\ pc[c] = "idle"
    /\ rows[i].ended = "no"
    /\ got' = [got EXCEPT ![c] = i]
    /\ Goto(c, "commit")
    /\ UNCHANGED <<now, finding, rows, want, loaded, lifecycle, ghosts>>

(* ... and otherwise ended, without another look.                          *)
RevokeCommit(c) ==
    /\ c \in Revokes /\ pc[c] = "commit"
    /\ end(got[c], "revoked")
    /\ Goto(c, "refile")
    /\ UNCHANGED <<now, finding, want, got, loaded, lifecycle, ghosts>>

(* refile_issues shows the finding again if it is unresolved (findings_for *)
(* is not empty); it swallows its errors.                                  *)
to_refile(set) == IF NeedsAttention THEN set ELSE {}

Refile(set) ==
    \/ /\ shown' = shown \union to_refile(set)
       /\ excused' = excused \union (IF NeedsAttention THEN {} ELSE set)
       /\ UNCHANGED faults
    \/ /\ Fault
       /\ excused' = excused \union set
       /\ UNCHANGED shown

(* The background task shows the finding again, if it is unresolved.  It   *)
(* does not look at the exceptions.                                        *)
RevokeRefile(c) ==
    /\ pc[c] = "refile"
    /\ Refile({got[c]})
    /\ Goto(c, "done")
    /\ got' = [got EXCEPT ![c] = 0]
    /\ UNCHANGED <<now, finding, rows, want, loaded, lifecycle, crossed, noticed>>

-----------------------------------------------------------------------------
(* run_exception_lifecycle                                                 *)

fixed == {i \in Active : rows[i].status = "accepted" /\ finding = "fixable"}

expire_due(t) == {i \in DOMAIN rows : rows[i].ended = "no" /\ Lapsed(i, t)}

due_soon(t) ==
    {i \in DOMAIN rows : /\ rows[i].ended = "no" /\ rows[i].status = "accepted"
                         /\ ~rows[i].notified
                         /\ rows[i].expires \in t + 1 .. t + Notice}

(* The scheduler starts the job once a day.                                *)
JobStarts ==
    /\ job = "idle" /\ ranAt < now
    /\ when' = now
    /\ ranAt' = now
    /\ ending' = fixed
    /\ job' = "fix"
    /\ UNCHANGED <<now, finding, rows, requests, again, ghosts>>

(* The acceptances whose fix is out are ended, one transaction each.       *)
EndFixed(i) ==
    /\ job = "fix" /\ i \in ending
    /\ end(i, "fix_available")
    /\ ending' = ending \ {i}
    /\ again' = again \union {i}
    /\ UNCHANGED <<now, finding, requests, job, when, ranAt, ghosts>>

ReadDue ==
    /\ job = "fix" /\ ending = {}
    /\ ending' = expire_due(when)
    /\ job' = "expiring"
    /\ UNCHANGED <<now, finding, rows, requests, when, ranAt, again, ghosts>>

EndDue ==
    /\ job = "expiring"
    /\ rows' = [i \in DOMAIN rows |->
                  IF i \in ending THEN [rows[i] EXCEPT !.ended = "expired"] ELSE rows[i]]
    /\ again' = again \union ending
    /\ ending' = {}
    /\ job' = "soon"
    /\ UNCHANGED <<now, finding, requests, when, ranAt, ghosts>>

ReadSoon ==
    /\ job = "soon"
    /\ ending' = due_soon(when)
    /\ job' = "noticing"
    /\ UNCHANGED <<now, finding, rows, requests, when, ranAt, again, ghosts>>

(* expiry_notified_at is committed before the notice is sent: what counts  *)
(* here is that the job means to send it.                                  *)
MarkSoon ==
    /\ job = "noticing"
    /\ rows' = [i \in DOMAIN rows |->
                  IF i \in ending THEN [rows[i] EXCEPT !.notified = TRUE] ELSE rows[i]]
    /\ noticed' = [i \in DOMAIN rows |-> noticed[i] + (IF i \in ending THEN 1 ELSE 0)]
    /\ crossed' = crossed \union {"notice" : c \in {c \in Creates : pc[c] = "commit"}}
    /\ ending' = {}
    /\ job' = "refile"
    /\ UNCHANGED <<now, finding, requests, when, ranAt, again, shown, excused, faults>>

JobRefiles ==
    /\ job = "refile"
    /\ Refile(again)
    /\ again' = {}
    /\ job' = "idle"
    /\ UNCHANGED <<now, finding, rows, requests, when, ranAt, ending, crossed, noticed>>

(* The process restarts, or the job meets an error of the database.        *)
Restart ==
    /\ Fault
    /\ job # "idle" \/ \E c \in Requests : pc[c] \in {"commit", "refile"}
    /\ pc' = [c \in Requests |-> IF pc[c] \in {"commit", "refile"} THEN "lost" ELSE pc[c]]
    /\ excused' = excused \union again
                    \union {got[c] : c \in {d \in Requests : pc[d] = "refile"}}
    /\ want' = [c \in Creates |-> <<>>]
    /\ got' = [c \in Requests |-> 0]
    /\ loaded' = [c \in Creates |-> <<>>]
    /\ job' = "idle"
    /\ ending' = {}
    /\ again' = {}
    /\ UNCHANGED <<now, finding, rows, when, ranAt, crossed, noticed, shown>>

-----------------------------------------------------------------------------
(* DEPSCAN learns that a fix is out, that the finding is gone, or that it  *)
(* is back.                                                                *)
FindingChanges ==
    /\ \/ finding = "open" /\ finding' \in {"fixable", "resolved"}
       \/ finding = "fixable" /\ finding' = "resolved"
       \/ finding = "resolved" /\ finding' = "open"
    /\ UNCHANGED <<now, rows, requests, lifecycle, ghosts>>

Tick ==
    /\ now < MaxTime
    /\ \A c \in Requests : pc[c] # "commit"
    /\ now' = now + 1
    /\ UNCHANGED <<finding, rows, requests, lifecycle, ghosts>>

(* The horizon of the model.                                               *)
Terminating ==
    /\ now = MaxTime /\ job = "idle"
    /\ \A c \in Requests : pc[c] \notin {"commit", "refile"}
    /\ UNCHANGED exceptionVars

Bodies == [status : {"accepted", "dismissed"}, expires : 0..MaxTime + 1]

ExceptionsNext ==
    \/ \E c \in Creates : \/ \E body \in Bodies : Lookup(c, body)
                          \/ upsert_active(c)
    \/ \E c \in Revokes : \/ \E i \in DOMAIN rows : Revoke(c, i)
                          \/ RevokeCommit(c) \/ RevokeRefile(c)
    \/ JobStarts \/ ReadDue \/ EndDue \/ ReadSoon \/ MarkSoon \/ JobRefiles
    \/ \E i \in DOMAIN rows : EndFixed(i)
    \/ Restart \/ FindingChanges \/ Tick \/ Terminating

ExceptionsSpec == ExceptionsInit /\ [][ExceptionsNext]_exceptionVars

-----------------------------------------------------------------------------
(* As long as no two requests to create overlap, a finding never has two   *)
(* active exceptions (upsert_active: "if there is an active one, update    *)
(* it"), whatever is revoked, renewed, expired or ended in between.        *)
OneActive == "create" \notin crossed => Cardinality(Active) <= 1

(* Once the job has expired what is due, no exception is left un-ended     *)
(* that had expired when it started, whatever was registered meanwhile.    *)
ExpiredAreEnded ==
    job \in {"soon", "noticing", "refile"} =>
        \A i \in DOMAIN rows : Lapsed(i, when) => rows[i].ended # "no"

(* An approval is announced to expire at most once (lifecycle.py), even if *)
(* it is renewed while the job runs.                                       *)
SoonOnce == \A i \in DOMAIN rows : noticed[i] <= 1

(* A renewal makes the notice due again (the comment in upsert_active): a  *)
(* row marked as announced was announced since its last approval.  This    *)
(* needs that no request to renew was under way while the job marked.      *)
RenewalIsAnnounced ==
    "notice" \notin crossed =>
        \A i \in DOMAIN rows : rows[i].notified => noticed[i] = 1

(* The finding of an exception that has ended does not stay hidden: it has *)
(* been shown again, or is about to be, or it was resolved at the time, or *)
(* a call or the process failed.                                           *)
EndedIsShown ==
    \A i \in DOMAIN rows : rows[i].ended # "no" =>
        \/ i \in shown \union excused \union again
        \/ \E c \in Revokes : pc[c] = "refile" /\ got[c] = i

(* docs/api-reference.md and the comment on drop_excepted: what has an     *)
(* active exception is not shown as a new finding.                         *)
ExceptedIsNotShown ==
    [][ shown' # shown => Active = {} ]_exceptionVars
=============================================================================
