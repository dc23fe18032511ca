------------------------------- MODULE Scanners --------------------------------
(* codescan/scanners/: what one look of the tools at the sources of a       *)
(* repository comes to, and the diagnosis of a Dockerfile.                  *)
EXTENDS Naturals, FiniteSets, Sequences

Binaries == {"semgrep", "gitleaks", "zizmor"}

(* How the process of a tool may end: it takes too long, is not installed,  *)
(* writes what is no JSON, dies without a word, finds no input (zizmor says *)
(* so), or tells what it found.                                             *)
Ends == {"timeout", "absent", "garbage", "silent", "no inputs", "told"}

(* A remark of zizmor, and a configuration file as it is met.               *)
Remark == [ignored : BOOLEAN, persona : {"regular", "auditor", "pedantic"},
           ident : {"self-hosted-runner", "unpinned-uses"}, local : BOOLEAN,
           severity : {"High", "Medium", "Low"}]
File == {"config", "too big", "unreadable", "source"}
MaxFiles == 2  \* _IAC_MAX_FILES, 200 in the code

Plain == [ends |-> [t \in Binaries |-> "told"], files |-> <<"config">>,
          remark |-> [ignored |-> FALSE, persona |-> "regular", ident |-> "unpinned-uses",
                      local |-> TRUE, severity |-> "High"]]
Trees == {[Plain EXCEPT !.ends = e, !.remark.ignored = i] :
            e \in {x \in [Binaries -> Ends] : \A t \in Binaries \ {"zizmor"} : x[t] # "no inputs"},
            i \in BOOLEAN}
    \cup {[Plain EXCEPT !.remark = r, !.files = f] :
            r \in Remark, f \in UNION {[1..n -> File] : n \in 0..3}}

(* A plausible slip: what ends without output has nothing to report.        *)
RaisesOnOutput(q, t) == q.ends[t] \in {"timeout", "absent", "garbage"}

(* run: a tool fails by raising.  Without output only zizmor does; semgrep  *)
(* and gitleaks are taken to have found nothing.                            *)
raises(q, t) == \/ q.ends[t] \in {"timeout", "absent", "garbage"}
                \/ t = "zizmor" /\ q.ends[t] = "silent"

Record(tool, severity, at) == [tool |-> tool, severity |-> severity, at |-> at]

(* parse of zizmor: what is not local has no place in the repository        *)
kept(r) == /\ ~r.ignored /\ r.local
           /\ r.persona = "regular" \/ r.ident = "self-hosted-runner"

severity_of(r) == CASE r.severity = "High" -> "ERROR" [] r.severity = "Medium" -> "WARNING"
                    [] OTHER -> "INFO"

zizmor(q) == IF q.ends["zizmor"] = "told" /\ kept(q.remark)
             THEN {Record("zizmor", severity_of(q.remark), 1)} ELSE {}

(* parse of semgrep takes the severity it is told, of gitleaks has but one. *)
semgrep(q) == IF q.ends["semgrep"] = "told" THEN {Record("semgrep", "INFO", 1)} ELSE {}
gitleaks(q) == IF q.ends["gitleaks"] = "told" THEN {Record("gitleaks", "ERROR", 1)} ELSE {}

(* InfraScanner.run: the files that are read, up to the limit.              *)
iac_read(q) == LET readable == {i \in DOMAIN q.files : q.files[i] = "config"}
               IN  {i \in readable : Cardinality({k \in readable : k < i}) < MaxFiles}

iac(q) == {Record("iac", "WARNING", i) : i \in iac_read(q)}

(* scan_repo: the tools one by one; what one raises leaves out its own.     *)
scan_repo(q) ==
    LET failed == {t \in Binaries : raises(q, t)}
    IN  [failed |-> failed,
         records |-> {r \in semgrep(q) \cup gitleaks(q) \cup zizmor(q) : r.tool \notin failed}
                     \cup iac(q)]

(* A tool that could tell what it found is believed, one that could not is  *)
(* called failed, so that its earlier findings stay: but for semgrep and    *)
(* gitleaks ending without a word, and for configuration beyond the limit   *)
(* or too big to be read.  The failure of one costs no other its records.   *)
ToolsHeardRightly(q, r) ==
    LET heard == {t \in Binaries : q.ends[t] \in {"told", "no inputs"}}
        configs == {i \in DOMAIN q.files : q.files[i] = "config"}
    IN  /\ r.failed \cap heard = {}
        /\ (Binaries \ heard) \ r.failed \subseteq
             {t \in {"semgrep", "gitleaks"} : q.ends[t] = "silent"}
        /\ {x.tool : x \in r.records} \cap r.failed = {}
        /\ \A t \in {"semgrep", "gitleaks"} : q.ends[t] = "told" =>
             \E x \in r.records : x.tool = t
        /\ (\E x \in r.records : x.tool = "zizmor") =>
             ~q.remark.ignored /\ q.ends["zizmor"] = "told"
        /\ LET seen == {x.at : x \in {y \in r.records : y.tool = "iac"}}
           IN  /\ seen \subseteq configs
               /\ Cardinality(configs) <= MaxFiles => seen = configs
               /\ \A i \in configs \ seen : Cardinality({k \in seen : k < i}) = MaxFiles

-----------------------------------------------------------------------------
(* iac_rules/dockerfile.py, line by line (continued lines are one).         *)
(* TOKEN stands for a name that tells a secret, value for a literal one.    *)
StageLine == {"FROM image:1", "FROM image:1 AS base", "FROM base", "USER app", "USER root"}
Line == StageLine
    \cup {"FROM image", "FROM image:latest", "FROM image@sha256", "FROM scratch", "FROM $IMAGE",
          "COPY .env", "ENV TOKEN=value", "ENV TOKEN=$VALUE", "RUN curl | sh", "RUN make"}
Dockerfiles == (UNION {[1..n -> Line] : n \in 0..3}) \cup [1..4 -> StageLine]

IsFrom(l) == l \in {"FROM image:1", "FROM image:1 AS base", "FROM base", "FROM image",
                    "FROM image:latest", "FROM image@sha256", "FROM scratch", "FROM $IMAGE"}

Start == [aliases |-> {}, from |-> 0, user |-> FALSE, root |-> FALSE, issues |-> {}]

(* The image has no tag or the latest, and is neither the name of an        *)
(* earlier stage nor a variable, a digest or nothing at all.                *)
unpinned(s, l) == \/ l \in {"FROM image", "FROM image:latest"}
                  \/ l = "FROM base" /\ "base" \notin s.aliases

check_line(s, l, n) ==
    CASE IsFrom(l) ->
           [s EXCEPT !.from = n, !.user = FALSE, !.root = FALSE,
                     !.aliases = IF l = "FROM image:1 AS base" THEN @ \cup {"base"} ELSE @,
                     !.issues = IF unpinned(s, l) THEN @ \cup {<<"latest-tag", n>>} ELSE @]
      [] l \in {"USER app", "USER root"} -> [s EXCEPT !.user = TRUE, !.root = l = "USER root"]
      [] l = "COPY .env" -> [s EXCEPT !.issues = @ \cup {<<"secret-copy", n>>}]
      [] l = "ENV TOKEN=value" -> [s EXCEPT !.issues = @ \cup {<<"secret-env", n>>}]
      [] l = "RUN curl | sh" -> [s EXCEPT !.issues = @ \cup {<<"pipe-to-shell", n>>}]
      [] OTHER -> s

check_dockerfile(f) ==
    LET after[n \in 0..Len(f)] == IF n = 0 THEN Start ELSE check_line(after[n - 1], f[n], n)
        last == after[Len(f)]
    IN  last.issues \cup (IF last.from # 0 /\ (~last.user \/ last.root)
                          THEN {<<"root-user", last.from>>} ELSE {})

(* Only the last stage decides who the container runs as, and there the     *)
(* last word on the user, wherever the issue is shown: at the line that     *)
(* begins the stage.  What a stage copies, sets or pipes is told in every   *)
(* stage.  The name of an earlier stage needs no tag.                       *)
DiagnosedRightly(f, issues) ==
    LET froms == {n \in DOMAIN f : IsFrom(f[n])}
        stage == {n \in froms : \A k \in froms : k <= n}
        said == {n \in DOMAIN f : f[n] \in {"USER app", "USER root"}
                                    /\ \A k \in stage : n > k}
    IN  /\ \A n \in DOMAIN f :
             /\ <<"root-user", n>> \in issues <=>
                  /\ n \in stage
                  /\ \A k \in said : (\A m \in said : m <= k) => f[k] = "USER root"
             /\ <<"secret-copy", n>> \in issues <=> f[n] = "COPY .env"
             /\ <<"secret-env", n>> \in issues <=> f[n] = "ENV TOKEN=value"
             /\ <<"pipe-to-shell", n>> \in issues <=> f[n] = "RUN curl | sh"
             /\ <<"latest-tag", n>> \in issues <=>
                  \/ f[n] \in {"FROM image", "FROM image:latest"}
                  \/ f[n] = "FROM base" /\ \A k \in 1..n - 1 : f[k] # "FROM image:1 AS base"
        /\ \A i \in issues : i[2] \in DOMAIN f
===============================================================================
