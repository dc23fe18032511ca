------------------------------ MODULE SiteProbes -------------------------------
(* external_monitor/probes.py: what one look at a public site finds.  A     *)
(* question is what the look would meet: the addresses of the name, the     *)
(* certificate, the answer of the top page, of each path and of Firestore,  *)
(* and the number of paths asked before the time for the site is over.      *)
EXTENDS Integers, FiniteSets, FiniteSetsExt, Sequences

None == "none"
TLS_ERROR_DAYS == 7
TLS_WARN_DAYS == 30

ExposurePaths == <<<<"/.env", "exposed-env">>, <<"/.git/HEAD", "exposed-git">>,
                   <<"/.git/config", "exposed-git">>, <<"/firebase.json", "exposed-firebase-json">>,
                   <<"/backup.zip", "exposed-backup">>>>

Paths == DOMAIN ExposurePaths

(* Of a path: it is not there or does not answer, the page an application   *)
(* shows for whatever is asked, the file itself, or the file in a content   *)
(* encoding, which is not read.                                             *)
Contents == {"absent", "page", "file", "encoded"}
Headers == {"csp", "frame-ancestors", "hsts", "nosniff", "x-frame-options", "referrer-policy"}
Never == 5

Nothing == [i \in Paths |-> "absent"]
Plain == [at |-> "url", first |-> {"public"}, second |-> {"public"}, cert |-> "90", top |-> "200",
          headers |-> Headers, paths |-> Nothing, stops |-> Never, firestore |-> None]
Days == [d \in {"-1", "0", "7", "8", "30", "31", "90"} |->
           CASE d = "-1" -> -1 [] d = "0" -> 0 [] d = "7" -> 7 [] d = "8" -> 8
             [] d = "30" -> 30 [] d = "31" -> 31 [] d = "90" -> 90]

Looks == {[Plain EXCEPT !.cert = c, !.top = t, !.headers = h, !.firestore = f] :
            c \in DOMAIN Days \cup {"invalid", "unreachable"},
            t \in {"200", "unclaimed", "unclaimed 500", "down"},
            h \in {{}, {"csp", "hsts"}}, f \in {None, "open", "closed"}}
    \cup {[Plain EXCEPT !.headers = h] : h \in SUBSET Headers}
    \cup {[Plain EXCEPT !.paths = p, !.stops = s] : p \in [Paths -> Contents], s \in {0, 3, Never}}
    \cup {[Plain EXCEPT !.at = a, !.first = x, !.second = y] :
            a \in {"url", "http", "address"}, x, y \in SUBSET {"public", "internal"}}

Found(rule, severity, at) == [rule |-> rule, severity |-> severity, at |-> at]

is_safe_target(q) == q.at = "url" /\ q.first # {} /\ q.first \subseteq {"public"}

evaluate_tls(days) ==
    CASE days < 0 -> {Found("tls-expired", "ERROR", None)}
      [] days \in 0..TLS_ERROR_DAYS -> {Found("tls-expiring", "ERROR", None)}
      [] days \in TLS_ERROR_DAYS + 1..TLS_WARN_DAYS -> {Found("tls-expiring", "WARNING", None)}
      [] OTHER -> {}

check_tls(q) == CASE q.cert = "invalid" -> {Found("tls-invalid", "ERROR", None)}
                  [] q.cert = "unreachable" -> {Found("tls-unreachable", "WARNING", None)}
                  [] OTHER -> evaluate_tls(Days[q.cert])

(* A policy can only name its frame ancestors where there is a policy.      *)
evaluate_headers(h) ==
    {Found(f[2], f[3], None) :
        f \in {x \in {<<{"csp"}, "missing-csp", "WARNING">>,
                      <<{"hsts"}, "missing-hsts", "WARNING">>,
                      <<{"nosniff"}, "missing-nosniff", "INFO">>,
                      <<{"x-frame-options"} \cup ({"frame-ancestors"} \cap
                           (IF "csp" \in h THEN h ELSE {})), "missing-frame-protection", "INFO">>,
                      <<{"referrer-policy"}, "missing-referrer-policy", "INFO">>} :
                 x[1] \cap h = {}}}

(* The backup is known by its type; of the rest the content is looked at.   *)
looks_like_exposure(rule, content) ==
    content = "file" \/ (content = "encoded" /\ rule = "exposed-backup")

(* probe_exposure: in order, a rule once, until the time is over.           *)
probe_exposure(q) ==
    {Found(ExposurePaths[i][2], "ERROR", ExposurePaths[i][1]) :
        i \in {j \in Paths :
                /\ j <= q.stops
                /\ looks_like_exposure(ExposurePaths[j][2], q.paths[j])
                /\ ~\E k \in 1..j - 1 : /\ ExposurePaths[k][2] = ExposurePaths[j][2]
                                        /\ looks_like_exposure(ExposurePaths[k][2], q.paths[k])}}

probe_firestore(q) == IF q.firestore = "open" THEN {Found("firestore-public-read", "WARNING", None)}
                      ELSE {}

evaluate_takeover(q) ==
    CASE q.second = {} -> {Found("dangling-dns", "ERROR", None)}
      [] q.second # {} /\ q.top = "unclaimed" -> {Found("subdomain-takeover", "ERROR", None)}
      [] OTHER -> {}

(* probe_site, as check_target calls it: the name is resolved once to see   *)
(* that it may be asked, and once more to be asked; what it leads to then   *)
(* is visited unseen.                                                       *)
probe_site(q) ==
    CASE ~is_safe_target(q) -> [asked |-> FALSE, visited |-> {}, findings |-> {}]
      [] is_safe_target(q) /\ q.second = {} ->
           [asked |-> TRUE, visited |-> {}, findings |-> evaluate_takeover(q)]
      [] OTHER ->
           [asked |-> TRUE, visited |-> q.second,
            findings |-> check_tls(q) \cup probe_exposure(q) \cup probe_firestore(q)
                         \cup evaluate_takeover(q)
                         \cup (IF q.top = "down" THEN {Found("unreachable", "WARNING", None)}
                               ELSE evaluate_headers(q.headers))]

(* What a later look is compared by, the rule, names one finding; a         *)
(* certificate that runs out never looks better; what is exposed within the *)
(* time is found, and no page of an application is taken for a file; the    *)
(* site that is down is still looked at.  An internal address is visited    *)
(* only where the name led to public ones when it was checked and leads     *)
(* elsewhere when it is asked, which the comment at the head of the code    *)
(* does not allow for.                                                      *)
Gravity(findings) == CASE \E f \in findings : f.severity = "ERROR" -> 2
                       [] (\E f \in findings : f.severity = "WARNING")
                            /\ ~(\E f \in findings : f.severity = "ERROR") -> 1
                       [] OTHER -> 0

ProbedRightly(q, r) ==
    /\ \A f, g \in r.findings : f.rule = g.rule => f = g
    /\ \A c \in DOMAIN Days : q.cert \in DOMAIN Days /\ Days[c] <= Days[q.cert] /\ r.asked =>
         Gravity(probe_site([q EXCEPT !.cert = c]).findings) >= Gravity(r.findings)
    /\ r.asked /\ q.second # {} =>
         \A i \in Paths : q.paths[i] = "file" /\ i <= q.stops =>
            \E f \in r.findings : f.rule = ExposurePaths[i][2]
    /\ \A f \in r.findings : f.at # None =>
         \E i \in Paths : ExposurePaths[i][1] = f.at /\ q.paths[i] \in {"file", "encoded"}
    /\ q.top = "down" /\ q.second # {} => \A f \in check_tls(q) : r.asked => f \in r.findings
    /\ \A h \in Headers : r.asked /\ q.top # "down" =>
         Cardinality(probe_site([q EXCEPT !.headers = @ \cup {h}]).findings)
           <= Cardinality(r.findings)
    /\ ~r.asked => r.findings = {}
    /\ "internal" \in r.visited => q.at = "url" /\ q.first = {"public"} /\ q.second # q.first

-----------------------------------------------------------------------------
(* targets.py: the sites are gathered repository by repository, then from   *)
(* the settings; a URL is taken once, as it was first met.                  *)
Sites == {"site", "pages", "app"}
Repo == [homepage : {None, "http", "site", "app"}, has_pages : BOOLEAN, project : BOOLEAN]
Gatherings == [repos : Repo \X Repo, configured : SUBSET {"site", "http"}]

Met(url, source, firebase) == [url |-> url, source |-> source, firebase |-> firebase]

of_repo(r) == (IF r.homepage = None THEN <<>> ELSE <<Met(r.homepage, "homepage", FALSE)>>)
              \o (IF r.has_pages THEN <<Met("pages", "github_pages", FALSE)>> ELSE <<>>)
              \o (IF r.project THEN <<Met("app", "firebase", TRUE)>> ELSE <<>>)

of_settings(q) == (IF "http" \in q.configured THEN <<Met("http", "config", FALSE)>> ELSE <<>>)
                  \o (IF "site" \in q.configured THEN <<Met("site", "config", FALSE)>> ELSE <<>>)

(* discover_targets; normalize_url has nothing for what is not https.       *)
discover_targets(q) ==
    LET met == of_repo(q.repos[1]) \o of_repo(q.repos[2]) \o of_settings(q)
        https == {i \in DOMAIN met : met[i].url # "http"}
    IN  {met[Min({i \in https : met[i].url = u})] : u \in {met[i].url : i \in https}}

(* Every https site there is is looked at, once.  Firestore is asked about  *)
(* only if no repository gave the address of the project as its homepage    *)
(* before: the target that was met first has no project.                    *)
GatheredRightly(q, r) ==
    /\ \A s, t \in r : s.url = t.url => s = t
    /\ {s.url : s \in r} = {u \in Sites :
          \/ \E i \in 1..2 : \/ q.repos[i].homepage = u
                             \/ u = "pages" /\ q.repos[i].has_pages
                             \/ u = "app" /\ q.repos[i].project
          \/ u \in q.configured}
    /\ q.repos[1].project /\ q.repos[1].homepage # "app" => \E s \in r : s.firebase
    /\ q.repos[1].homepage = "app" => ~\E s \in r : s.firebase
===============================================================================
