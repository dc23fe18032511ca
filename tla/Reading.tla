-------------------------------- MODULE Reading --------------------------------
(* What a reader of the findings is shown: the lists of DEPSCAN and         *)
(* CODESCAN page by page, their statistics and the export.  A question is   *)
(* the stored rows, who reads and what is asked for.  Some rows carry the   *)
(* same time: the order the lists are sorted by does not tell them apart.   *)
EXTENDS Integers, FiniteSets, FiniteSetsExt

Any == "any"
Forbidden == "forbidden"

Owner == [mine |-> "me", stopped |-> "me", others |-> "you"]
Repos == DOMAIN Owner
Inactive == {"stopped"}  \* INACTIVE_REPOS

Row == [repo : Repos, resolved : BOOLEAN, excepted : BOOLEAN, at : 1..2]

(* The credential: API_KEY sees all; a session, or an access token by which *)
(* the MCP server acts, sees what its user owns.                            *)
Readings ==
    {[rows |-> {<<1, x>>, <<2, y>>, <<3, [repo |-> "mine", resolved |-> FALSE,
                                         excepted |-> FALSE, at |-> 1]>>},
      by |-> b, repo |-> r, resolved |-> s, operating |-> o, excepted |-> e, per_page |-> 2] :
        x \in Row, y \in {z \in Row : ~z.resolved}, b \in {"key", "session", "none"},
        r \in {Any, "others"}, s \in {"yes", "no", Any}, o \in {"active", Any},
        e \in BOOLEAN}

(* require_api_key_or_session: the owner the reader is held to.             *)
require_api_key_or_session(q) == CASE q.by = "key" -> Any [] q.by = "session" -> "me"
                                   [] OTHER -> Forbidden

restrict_to_owner(rows, owner) == {r \in rows : owner = Any \/ Owner[r[2].repo] = owner}

apply_operating_status(rows, operating) ==
    {r \in rows : operating # Any => (r[2].repo \in Inactive <=> operating = "inactive")}

not_excepted(rows) == {r \in rows : ~r[2].excepted}

(* DepscanListFilter.apply on top of RepoFindingFilter.apply                *)
matching(q) ==
    LET named == {r \in q.rows : q.repo = Any \/ r[2].repo = q.repo}
        held == restrict_to_owner(named, require_api_key_or_session(q))
        state == {r \in apply_operating_status(held, q.operating) :
                    q.resolved # Any => (r[2].resolved <=> q.resolved = "yes")}
    IN  IF q.excepted THEN state ELSE not_excepted(state)

(* RepoFindingFilter.restrict_to_owner: another's repository may not even   *)
(* be named.                                                                *)
forbidden(q) == \/ require_api_key_or_session(q) = Forbidden
                \/ q.by = "session" /\ q.repo # Any /\ Owner[q.repo] # "me"

(* paginate: the newest first; rows of one time come in any order, another  *)
(* one for every page.                                                      *)
before(rows, r) == Cardinality({x \in rows : x[2].at > r[2].at})
tied(rows, r) == Cardinality({x \in rows : x[2].at = r[2].at})

paginate(rows, page, per_page) ==
    LET first == (page - 1) * per_page + 1
        last == page * per_page
        span(r) == before(rows, r) + 1 .. before(rows, r) + tied(rows, r)
    IN  [sure  |-> {r \in rows : span(r) \subseteq first..last},
         maybe |-> {r \in rows : span(r) \cap first..last # {}}]

pages(q) == LET rows == matching(q) IN
            [p \in 1..2 |-> paginate(rows, p, q.per_page)]

counted(rows) == [repo \in {r[2].repo : r \in rows} |->
                    Cardinality({r \in rows : r[2].repo = repo})]

(* get_depscan_stats, get_codescan_stats: what is open and not excepted, in *)
(* all and by repository; for code also how many exceptions hide.           *)
open_rows(q) == apply_operating_status(
                  restrict_to_owner({r \in q.rows : ~r[2].resolved},
                                    require_api_key_or_session(q)), q.operating)

stats(q) == LET all == open_rows(q)
                due == not_excepted(all)
            IN  [total |-> Cardinality(due), repos |-> counted(due),
                 excepted_total |-> Cardinality(all) - Cardinality(due)]

(* export_depscan_sbom: one repository, what is excepted included and       *)
(* marked as such.                                                          *)
export(q) == {[row |-> r, analysis |-> r[2].excepted] :
                r \in {x \in q.rows :
                         /\ x[2].repo = q.repo
                         /\ q.resolved # Any => (x[2].resolved <=> q.resolved = "yes")}}

read(q) == IF forbidden(q) THEN [shown |-> FALSE, total |-> 0, pages |-> <<>>, stats |-> <<>>,
                                 export |-> {}]
           ELSE [shown |-> TRUE, total |-> Cardinality(matching(q)), pages |-> pages(q),
                 stats |-> stats(q), export |-> export(q)]

(* A session is shown its own rows only, in every view; the statistics      *)
(* count what the list shows when it is asked for what is due; a row that   *)
(* shares its time with no other is on one page, and so is every row that   *)
(* does not straddle the edge of a page; the pages hold as many as there    *)
(* are.                                                                     *)
ReadRightly(q, r) ==
    LET p == r.pages
        due == [q EXCEPT !.repo = Any, !.resolved = "no", !.excepted = FALSE]
        seen == UNION ({p[i].maybe : i \in DOMAIN p} \cup {{x.row : x \in r.export}})
    IN  /\ q.by = "none" => ~r.shown
        /\ q.by = "session" => \A x \in seen : Owner[x[2].repo] = "me"
        /\ q.by = "session" /\ r.shown => DOMAIN r.stats.repos \subseteq {"mine", "stopped"}
        /\ q.by = "key" => r.shown
        /\ r.shown =>
             /\ r.stats.total = read(due).total
             /\ r.stats.total = SumFunction(r.stats.repos)
             /\ r.stats.total + r.stats.excepted_total
                  = read([due EXCEPT !.excepted = TRUE]).total
             /\ p[1].maybe \cup p[2].maybe = matching(q)
             /\ p[1].sure \cap p[2].maybe = {} /\ p[2].sure \cap p[1].maybe = {}
             /\ \A x \in matching(q) : tied(matching(q), x) = 1 => x \in p[1].sure \cup p[2].sure
             /\ r.total <= q.per_page => p[1].sure = matching(q)

-----------------------------------------------------------------------------
(* depsops/router.py: the log has a row for every judgement of a pull       *)
(* request; what is open is told by the last one.                           *)
Logs == UNION {[1..n -> [repo : {"mine", "stopped"}, number : 1..2,
                         action : {"flagged", "merged"}]] : n \in 0..3}

latest(log) == {i \in DOMAIN log : ~\E j \in DOMAIN log : /\ j > i /\ log[j].repo = log[i].repo
                                                          /\ log[j].number = log[i].number}

get_depsops_stats(log) ==
    [repo \in {log[i].repo : i \in {j \in latest(log) : log[j].action = "flagged"}} |->
        Cardinality({i \in latest(log) : log[i].repo = repo /\ log[i].action = "flagged"})]

(* A request is open or not, never both: a repository has as many as its    *)
(* requests that were flagged and not merged since.        *)
CountedRightly(log, r) ==
    \A repo \in {"mine", "stopped"} :
        (IF repo \in DOMAIN r THEN r[repo] ELSE 0) = Cardinality(
            {n \in 1..2 : \E i \in DOMAIN log :
                /\ log[i] = [repo |-> repo, number |-> n, action |-> "flagged"]
                /\ \A j \in DOMAIN log : j > i /\ log[j].repo = repo /\ log[j].number = n =>
                      log[j].action = "flagged"})
===============================================================================
