------------------------------ MODULE SlaRules ---------------------------------
(* sla/: the report on deadlines, from the findings of DEPSCAN as they are  *)
(* stored, the exceptions in force and the policy.  Times are in ticks.     *)
(* A mean is kept as the sum and the number it is the quotient of.          *)
EXTENDS Integers, FiniteSets, FiniteSetsExt

None == -1
Day == 2  \* ticks of a day: a time of day matters at the deadline
Now == 12

Policies == {[CRITICAL |-> 2, MEDIUM |-> 4, kev |-> k] : k \in {1, 3}}

(* A stored finding: "excepted" says that an exception in force matches it. *)
Finding == [repo : {"a", "b"}, severity : {"CRITICAL", "MEDIUM", "N/A"}, kev : BOOLEAN,
            detected : {0, 7}, resolved : {None, 8, Now}, excepted : BOOLEAN]

(* Two findings, the policy and the days the mean looks back.               *)
Reports == {[rows |-> {<<1, f>>, <<2, g>>}, policy |-> p, window |-> w] :
              f \in {x \in Finding : x.repo = "a" /\ (x.excepted => x.kev)},
              g \in {x \in Finding : x.excepted => ~x.kev}, p \in Policies, w \in {1}}

days_for_severity(policy, s) == IF s = "N/A" THEN None ELSE policy[s]

deadline_days(policy, s, kev) ==
    LET own == days_for_severity(policy, s)
    IN  CASE ~kev -> own
          [] kev /\ own = None -> policy.kev
          [] OTHER -> Min({own, policy.kev})

(* build_report: what is open, and what was resolved within the window.     *)
selected(q) == {r \in q.rows : r[2].resolved = None \/ r[2].resolved >= Now - q.window * Day}

to_items(q) ==
    {<<r[1], [repo |-> r[2].repo, severity |-> r[2].severity, detected |-> r[2].detected,
              resolved |-> r[2].resolved,
              deadline |-> deadline_days(q.policy, r[2].severity, r[2].kev)]>> :
        r \in {x \in selected(q) : ~(x[2].resolved = None /\ x[2].excepted)}}

due_at(i) == IF i.deadline = None THEN None ELSE i.detected + i.deadline * Day

is_overdue(i, now) == i.resolved = None /\ due_at(i) # None /\ now > due_at(i)

overdue_days(i, now) == IF is_overdue(i, now) THEN (now - due_at(i)) \div Day ELSE 0

NoMean == <<0, 0>>

mttr(items) == LET done == {x \in items : x[2].resolved # None}
               IN  IF done = {} THEN NoMean
                   ELSE <<SumFunction([x \in done |-> x[2].resolved - x[2].detected]),
                          Cardinality(done)>>

counts(items, now) ==
    [open     |-> Cardinality({x \in items : x[2].resolved = None}),
     overdue  |-> Cardinality({x \in items : is_overdue(x[2], now)}),
     resolved |-> Cardinality({x \in items : x[2].resolved # None}),
     mttr     |-> mttr(items)]

severity_stats(items, now) ==
    [s \in {x[2].severity : x \in items} |-> counts({x \in items : x[2].severity = s}, now)]

repo_stats(items, now) ==
    [r \in {x[2].repo : x \in items} |-> counts({x \in items : x[2].repo = r}, now)]

(* The longest overdue first.                                              *)
overdue_items(items, now) ==
    LET late == {x \in items : is_overdue(x[2], now)}
        before(x, y) == \/ overdue_days(x[2], now) > overdue_days(y[2], now)
                        \/ /\ overdue_days(x[2], now) = overdue_days(y[2], now)
                           /\ x[1] < y[1]
    IN  CHOOSE f \in [1..Cardinality(late) -> late] :
            \A i, j \in 1..Cardinality(late) : i < j => before(f[i], f[j])

excepted_osv_ids(q) == {r[1] : r \in {x \in q.rows : x[2].resolved = None /\ x[2].excepted}}

build_report(q) ==
    LET items == to_items(q)
    IN  [summary |-> [with_deadline |-> Cardinality({x \in items : /\ x[2].resolved = None
                                                                   /\ x[2].deadline # None}),
                      counts |-> counts(items, Now)],
         by_severity |-> severity_stats(items, Now), by_repo |-> repo_stats(items, Now),
         overdue |-> overdue_items(items, Now), excluded |-> excepted_osv_ids(q)]

(* run_sla_digest: the first MaxShown of the list, the rest as a number.    *)
MaxShown == 1  \* _MAX_OVERDUE_ITEMS, 10 in the code

digest(q) == LET n == Cardinality(DOMAIN build_report(q).overdue)
             IN  [shown |-> Min({n, MaxShown}), more |-> IF n > MaxShown THEN n - MaxShown ELSE 0]

SumOver(stats, field) == SumFunction([k \in DOMAIN stats |-> stats[k][field]])

(* The three views of a report count the same findings; what is excepted is *)
(* in none of them while it is open; being in KEV and the passing of time   *)
(* never make a finding less urgent; an excepted finding leaves, once       *)
(* resolved, the days it took.                                              *)
ReportedRightly(q, r) ==
    LET total == r.summary.counts
        dates == {x[2] : x \in q.rows}
    IN  /\ \A field \in {"open", "overdue", "resolved"} :
              /\ SumOver(r.by_severity, field) = total[field]
              /\ SumOver(r.by_repo, field) = total[field]
        /\ Cardinality(DOMAIN r.overdue) = total.overdue
        /\ total.overdue <= r.summary.with_deadline /\ r.summary.with_deadline <= total.open
        /\ {r.overdue[i][1] : i \in DOMAIN r.overdue} \cap r.excluded = {}
        /\ Cardinality(r.excluded) + total.open
             = Cardinality({x \in q.rows : x[2].resolved = None})
        /\ total.mttr # NoMean => total.mttr[2] = Cardinality(
             {x \in q.rows : x[2].resolved # None /\ x[2].resolved + q.window * Day >= Now})
        /\ \A f \in dates :
              LET listed == \E i \in DOMAIN r.overdue : r.overdue[i][2].detected = f.detected
              IN  f.kev /\ f.resolved = None /\ ~f.excepted
                    /\ Now > f.detected + q.policy.kev * Day => listed
        /\ \A f \in dates : f.severity # "N/A" /\ f.resolved = None /\ ~f.excepted
                              /\ Now > f.detected + q.policy[f.severity] * Day =>
              \E i \in DOMAIN r.overdue : r.overdue[i][2].detected = f.detected
        /\ digest(q).shown + digest(q).more = total.overdue
===============================================================================
