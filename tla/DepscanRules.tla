----------------------------- MODULE DepscanRules ------------------------------
(* depscan/: from the lock files of the repositories, OSV, the registry and *)
(* the sources to the records of findings, the inventory and the reasons a  *)
(* reader is given.  One package at version 1, in both repositories; OSV    *)
(* has an ordinary advisory for it, and perhaps a malicious one.            *)
EXTENDS Integers, FiniteSets

Repos == {"r1", "r2"}
Used == 1  \* the version in use
None == 0

(* What a scan meets: whether r1's tree and file can be had (r2's can), the *)
(* ordinary advisory and what the registry calls the latest version, and    *)
(* r1's sources.                                                            *)
Advisory == [detail : BOOLEAN, fixed : SUBSET {2}, last : SUBSET {1, 3}, others : SUBSET {9},
             kev : {"no", "listed", "likely"}]
Scans == [tree : BOOLEAN, file : BOOLEAN, advisory : Advisory, malicious : BOOLEAN,
          latest : {None, 2, 4}, source : {"imports", "silent", "empty", "refused"}]

(* collect_dependencies: what could not be read is left out without a word. *)
discover_manifests(q, repo) == IF repo = "r1" /\ ~q.tree THEN {} ELSE {"lock"}

locations(q) == {repo \in Repos : /\ discover_manifests(q, repo) # {}
                                  /\ repo = "r1" => q.file}

(* RepoDependencyRepository.replace: what the scan saw is the inventory of  *)
(* every repository it went over, those it could not read included.         *)
inventory(q) == locations(q)

(* query_versions_batch: a version nobody uses is not asked about.          *)
hits(q) == IF locations(q) = {} THEN {}
           ELSE {"GHSA"} \cup (IF q.malicious THEN {"MAL"} ELSE {})

get_vuln(q, id) == id = "MAL" \/ q.advisory.detail

is_newer_version(a, b) == a > b

(* _infer_fixed_versions: the latest version mends only what ends before it. *)
infer_fixed_versions(q) ==
    IF /\ q.advisory.last # {} /\ q.latest # None
       /\ \A v \in q.advisory.last : is_newer_version(q.latest, v)
    THEN {q.latest} ELSE {}

(* _fixed_versions: of every package the advisory names, not of this alone. *)
fixed_versions(q, id) ==
    IF id = "MAL" THEN {}
    ELSE LET told == q.advisory.fixed \cup q.advisory.others
         IN  IF told # {} THEN told ELSE infer_fixed_versions(q)

severity(id) == IF id = "MAL" THEN "CRITICAL" ELSE "HIGH"

(* apply_reachability and check_reachability                                *)
reachability(q, repo) ==
    CASE repo = "r2" \/ q.source \in {"refused", "empty"} -> "unknown"
      [] repo = "r1" /\ q.source = "imports" -> "reachable"
      [] repo = "r1" /\ q.source = "silent" -> "unreachable"

build(q) == {[repo |-> repo, id |-> id, severity |-> severity(id),
              fixed |-> fixed_versions(q, id), reachability |-> reachability(q, repo)] :
               repo \in locations(q), id \in {i \in hits(q) : get_vuln(q, i)}}

(* compute_priority_reasons, with r2 public and an asset on the internet    *)
compute_priority_reasons(q, f) ==
    (IF f.id = "MAL" THEN {"malicious_package"} ELSE {})
    \cup (IF f.id # "MAL" /\ q.advisory.kev # "no" THEN {"kev_listed"} ELSE {})
    \cup (IF f.id # "MAL" /\ q.advisory.kev = "likely" THEN {"epss_high"} ELSE {})
    \cup (IF f.reachability = "reachable" THEN {"reachable"} ELSE {})
    \cup (IF f.repo = "r2" THEN {"public_repo", "internet_facing_asset"} ELSE {})

scan(q) == [findings |-> build(q), inventory |-> inventory(q),
            reasons |-> [f \in build(q) |-> compute_priority_reasons(q, f)]]

(* has_open_finding, search_dependencies: a dependency with what is found in *)
(* the same version of it.                                                  *)
search_dependencies(s) == [repo \in s.inventory |->
                             Cardinality({f \in s.findings : f.repo = repo})]

(* What was read is reported wherever it is used, once, and what was not    *)
(* read nowhere: a repository that could not be read has neither findings   *)
(* nor an inventory.  The registry never names a version as mended that the *)
(* advisory calls affected.  That a package is not used is only said of     *)
(* sources that were seen.  Malice is told whatever else is known.          *)
ScannedRightly(q, s) ==
    LET of(repo, id) == {f \in s.findings : f.repo = repo /\ f.id = id}
    IN  /\ \A repo \in Repos, id \in {"GHSA", "MAL"} :
              Cardinality(of(repo, id)) =
                IF /\ repo = "r1" => q.tree /\ q.file
                   /\ IF id = "MAL" THEN q.malicious ELSE q.advisory.detail
                THEN 1 ELSE 0
        /\ {f.repo : f \in s.findings} \subseteq s.inventory
        /\ \A f \in s.findings :
             /\ \A v \in f.fixed : q.advisory.others = {} /\ q.advisory.fixed = {} =>
                   v > Used /\ \A w \in q.advisory.last : v > w
             /\ f.reachability = "unreachable" => f.repo = "r1" /\ q.source = "silent"
             /\ f.id = "MAL" => f.severity = "CRITICAL" /\ "malicious_package" \in s.reasons[f]
             /\ "epss_high" \in s.reasons[f] => "kev_listed" \in s.reasons[f]
        /\ \A repo \in s.inventory : (search_dependencies(s)[repo] = 0) <=>
              ~\E f \in s.findings : f.repo = repo
===============================================================================
