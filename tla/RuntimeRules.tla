----------------------------- MODULE RuntimeRules ------------------------------
(* runtimes/: which versions of a language a repository uses, what there is *)
(* of the language, and what the one means for the other.  A version is     *)
(* <<major, minor>>, a cycle the same or, for Node.js, <<major>>.           *)
EXTENDS Integers, FiniteSets, FiniteSetsExt, Sequences

None == -1

-----------------------------------------------------------------------------
(* detector.py: what each kind of file tells: of which languages, by its    *)
(* first line only or by all, and whether the version is the one that runs. *)
Told(languages, first, pinned) == [languages |-> languages, first |-> first, pinned |-> pinned]

Tells == [k \in {"Dockerfile", ".python-version", ".nvmrc", ".node-version", ".tool-versions",
                 ".fvmrc", "workflow", "firebase.json", "package.json", "pubspec.yaml",
                 "pyproject.toml"} |->
    CASE k \in {"Dockerfile", "firebase.json"} -> Told({"python", "nodejs"}, FALSE, TRUE)
      [] k = ".python-version" -> Told({"python"}, TRUE, TRUE)
      [] k \in {".nvmrc", ".node-version"} -> Told({"nodejs"}, TRUE, TRUE)
      [] k = ".tool-versions" -> Told({"python", "nodejs", "flutter", "dart"}, FALSE, TRUE)
      [] k = "workflow" -> Told({"python", "nodejs", "flutter"}, FALSE, TRUE)
      [] k = "package.json" -> Told({"nodejs"}, TRUE, FALSE)
      [] k = "pubspec.yaml" -> Told({"dart", "flutter"}, FALSE, FALSE)
      [] k = "pyproject.toml" -> Told({"python"}, TRUE, FALSE)
      [] k = ".fvmrc" -> Told({"flutter"}, TRUE, TRUE)]

is_candidate(f) == f.kind \in DOMAIN Tells

(* A line names a language and a version: both numbers, the first, or none. *)
Line == {"python", "nodejs", "flutter"} \X {<<3, 13>>, <<3>>, <<>>}
File == [kind : DOMAIN Tells \cup {"README"}, had : {"read", "failed", "huge"},
         vendored : BOOLEAN,
         lines : {<<x>> : x \in Line} \cup {<<x, y>> : x, y \in Line}]
Plain(kind, x) == [kind |-> kind, had |-> "read", vendored |-> FALSE, lines |-> <<x>>]
Dockerfile == Plain("Dockerfile", <<"python", <<3, 13>>>>)

(* A file that holds nothing but a version names no language; what is not   *)
(* read may hold anything.                                                  *)
Written(f) ==
    IF f.had = "read" /\ ~f.vendored
    THEN f.kind \in {".python-version", ".nvmrc", ".node-version"} =>
           \A n \in DOMAIN f.lines : f.lines[n][1] \in Tells[f.kind].languages
    ELSE f.lines = <<<<"nodejs", <<3>>>>>>

Trees == {[seen |-> s, files |-> <<f, Plain(k, <<"nodejs", <<3>>>>), Dockerfile>>] :
            s \in BOOLEAN, f \in {g \in File : Written(g)}, k \in {"README", ".nvmrc"}}

(* Only Node.js is told by its major version alone.                         *)
to_cycle(language, version) ==
    CASE version = <<>> -> <<>>
      [] version # <<>> /\ language = "nodejs" -> <<version[1]>>
      [] OTHER -> IF Len(version) = 2 THEN version ELSE <<>>

detect_runtimes(tree, i) ==
    LET f == tree.files[i]
        rule == Tells[f.kind]
        told == {n \in DOMAIN f.lines : f.lines[n][1] \in rule.languages}
        read == IF rule.first /\ told # {} THEN {Min(told)} ELSE told
    IN  {d \in {[language |-> f.lines[n][1], cycle |-> to_cycle(f.lines[n][1], f.lines[n][2]),
                 source |-> i, pinned |-> rule.pinned] : n \in read} : d.cycle # <<>>}

(* detect_repo_runtimes: without the tree nothing is stored; of the         *)
(* candidates outside vendored directories the first so many are fetched;   *)
(* one that cannot be had or is too large is left out.                      *)
MAX_FILES_PER_REPO == 2 \* 40 in the code

candidates(tree) == {i \in DOMAIN tree.files :
                       is_candidate(tree.files[i]) /\ ~tree.files[i].vendored}

fetched(tree) == {i \in candidates(tree) :
                    Cardinality({k \in candidates(tree) : k < i}) < MAX_FILES_PER_REPO}

detect_repo_runtimes(tree) ==
    [stored |-> tree.seen,
     found |-> IF ~tree.seen THEN {}
               ELSE UNION {detect_runtimes(tree, i) :
                             i \in {j \in fetched(tree) : tree.files[j].had = "read"}}]

(* One row for a language, cycle and file, as the table demands; the last   *)
(* file, which can be read, is found whatever becomes of the others unless  *)
(* they use the limit up; no more files than the limit and none that is     *)
(* vendored is told of; a cycle has the form the releases are stored by.    *)
DetectedRightly(tree, r) ==
    /\ \A d, e \in r.found : d.language = e.language /\ d.cycle = e.cycle /\ d.source = e.source
                               => d = e
    /\ (\E d \in r.found : d.source = Len(tree.files))
         <=> /\ tree.seen
             /\ Cardinality(candidates(tree) \ {Len(tree.files)}) < MAX_FILES_PER_REPO
    /\ Cardinality({d.source : d \in r.found}) <= MAX_FILES_PER_REPO
    /\ \A d \in r.found : tree.files[d.source].had = "read" /\ ~tree.files[d.source].vendored
    /\ \A d \in r.found : Len(d.cycle) = IF d.language = "nodejs" THEN 1 ELSE 2
    /\ \A d \in r.found : ~d.pinned =>
         tree.files[d.source].kind \in {"package.json", "pubspec.yaml", "pyproject.toml"}

-----------------------------------------------------------------------------
(* fetch_flutter_and_dart: release by release, the latest version of a      *)
(* cycle and the day the cycle first came out.  <<minor, patch>> tells the  *)
(* versions of one major apart.                                             *)
Release == [stable : BOOLEAN, minor : 1..2, patch : 0..1, day : {None, 1, 2}]
Histories == [1..3 -> Release]

Unseen == [patch |-> None, day |-> None]

earliest(a, b) == CASE a = None -> b [] a # None /\ b = None -> a [] OTHER -> Min({a, b})

fetch_flutter_and_dart(history) ==
    LET after[n \in 0..Len(history)] ==
            IF n = 0 THEN [minor \in 1..2 |-> Unseen]
            ELSE LET r == history[n]
                     known == after[n - 1]
                 IN  IF ~r.stable THEN known
                     ELSE [known EXCEPT ![r.minor] =
                            [patch |-> Max({@.patch, r.patch}), day |-> earliest(@.day, r.day)]]
    IN  after[Len(history)]

(* The order in which the releases are listed makes no difference.          *)
GatheredRightly(history, r) ==
    \A minor \in 1..2 :
        LET of == {history[n] : n \in {m \in DOMAIN history :
                                          history[m].stable /\ history[m].minor = minor}}
            days == {x.day : x \in of} \ {None}
        IN  /\ r[minor].patch = IF of = {} THEN None ELSE Max({x.patch : x \in of})
            /\ r[minor].day = IF days = {} THEN None ELSE Min(days)

-----------------------------------------------------------------------------
(* status.py.  A release: the day it came out, the day its support ends and *)
(* whether that has been declared.                                          *)
EOL_SOON_DAYS == 2          \* 180 in the code
RECOMMEND_MIN_AGE_DAYS == 2 \* 180 in the code
Today == 10
Later == 0..3

Cycle == [released : {None, 5, 9}, ends : {None, 9, 11, 14}, is_eol : BOOLEAN, is_lts : BOOLEAN]
Uses == [language : {"nodejs", "python"}, cycle : 1..3, pinned : BOOLEAN,
         releases : {<<a, b>> : a \in Cycle, b \in {c \in Cycle : c.is_lts}}]

(* the greatest cycle of those, 0 of none                                   *)
greatest(cycles) == IF cycles = {} THEN 0 ELSE Max(cycles)

recommended_release(u, today) ==
    LET supported == {c \in 1..2 : /\ ~u.releases[c].is_eol
                                   /\ u.releases[c].is_lts \/ u.language # "nodejs"}
        settled == {c \in supported : \/ u.releases[c].released = None
                                      \/ today - u.releases[c].released >= RECOMMEND_MIN_AGE_DAYS}
    IN  greatest(IF settled # {} THEN settled ELSE supported)

evaluate(u, today) ==
    LET known == u.cycle \in 1..2
        ends == IF known THEN u.releases[u.cycle].ends ELSE None
    IN  CASE ~u.pinned -> "reference"
          [] u.pinned /\ ~known -> "unknown"
          [] /\ u.pinned
             /\ known
             /\ u.releases[u.cycle].is_eol \/ (ends # None /\ ends < today) -> "eol"
          [] /\ u.pinned
             /\ known
             /\ ~u.releases[u.cycle].is_eol
             /\ ends # None
             /\ ends - today \in 0..EOL_SOON_DAYS -> "eol_soon"
          [] OTHER -> IF recommended_release(u, today) > u.cycle THEN "update_available"
                      ELSE "latest"

NeedsAction == {"eol", "eol_soon", "update_available"}

(* list_runtimes over the days to come, with what is recommended each day   *)
outlook(u) == [d \in Later |-> [state |-> evaluate(u, Today + d),
                                recommended |-> recommended_release(u, Today + d)]]

(* A cycle that has ended or is about to never looks better on a later day; *)
(* what is recommended is not declared ended, and who follows it is not     *)
(* told to update further; only a newer cycle is an update; what is a lower *)
(* bound only never calls for action.                                       *)
JudgedRightly(u, r) ==
    /\ \A d, e \in Later : d < e =>
         /\ r[d].state = "eol" => r[e].state = "eol"
         /\ r[d].state = "eol_soon" => r[e].state \in {"eol_soon", "eol"}
    /\ \A d \in Later :
         LET c == r[d].recommended IN
         /\ c # 0 => /\ ~u.releases[c].is_eol
                     /\ evaluate([u EXCEPT !.cycle = c, !.pinned = TRUE], Today + d)
                          # "update_available"
         /\ r[d].state = "update_available" => c > u.cycle
         /\ u.cycle = 3 \/ ~u.pinned => r[d].state \notin NeedsAction
===============================================================================
