-------------------------------- MODULE Rules ----------------------------------
(* The rules of the program that keep no state of their own.  One is asked  *)
(* at the start, answers, and stays with its answer.                        *)
R == INSTANCE Retry
S == INSTANCE SlaRules
C == INSTANCE RepoChecks
P == INSTANCE SiteProbes
L == INSTANCE Reading
D == INSTANCE DepscanRules
V == INSTANCE RuntimeRules
N == INSTANCE Scanners
X == INSTANCE Taxii
B == INSTANCE ProjectSync

VARIABLES asked, answer

ruleVars == <<asked, answer>>

NoAnswer == <<>>

Readers == {"retry", "sla", "reading", "log", "taxii", "board"}
Checks == {"checks", "probes", "targets", "detect", "releases", "eol"}
ScanRules == {"scan", "tools", "dockerfile"}

RuleNames == Readers \union Checks \union ScanRules

Asks(rule) == CASE rule = "retry" -> R!Calls
                [] rule = "sla" -> S!Reports
                [] rule = "checks" -> C!Answers
                [] rule = "probes" -> P!Looks
                [] rule = "targets" -> P!Gatherings
                [] rule = "reading" -> L!Readings
                [] rule = "log" -> L!Logs
                [] rule = "scan" -> D!Scans
                [] rule = "detect" -> V!Trees
                [] rule = "releases" -> V!Histories
                [] rule = "eol" -> V!Uses
                [] rule = "tools" -> N!Trees
                [] rule = "dockerfile" -> N!Dockerfiles
                [] rule = "taxii" -> X!Readings
                [] rule = "board" -> B!Runs

Reply(rule, q) == CASE rule = "retry" -> R!request_with_retry(q)
                    [] rule = "sla" -> S!build_report(q)
                    [] rule = "checks" -> C!audited(q)
                    [] rule = "probes" -> P!probe_site(q)
                    [] rule = "targets" -> P!discover_targets(q)
                    [] rule = "reading" -> L!read(q)
                    [] rule = "log" -> L!get_depsops_stats(q)
                    [] rule = "scan" -> D!scan(q)
                    [] rule = "detect" -> V!detect_repo_runtimes(q)
                    [] rule = "releases" -> V!fetch_flutter_and_dart(q)
                    [] rule = "eol" -> V!outlook(q)
                    [] rule = "tools" -> N!scan_repo(q)
                    [] rule = "dockerfile" -> N!check_dockerfile(q)
                    [] rule = "taxii" -> X!served(q)
                    [] rule = "board" -> B!execute(q)

Rightly(rule, q, a) == CASE rule = "retry" -> R!RetriedRightly(q, a)
                         [] rule = "sla" -> S!ReportedRightly(q, a)
                         [] rule = "checks" -> C!AuditedRightly(q, a)
                         [] rule = "probes" -> P!ProbedRightly(q, a)
                         [] rule = "targets" -> P!GatheredRightly(q, a)
                         [] rule = "reading" -> L!ReadRightly(q, a)
                         [] rule = "log" -> L!CountedRightly(q, a)
                         [] rule = "scan" -> D!ScannedRightly(q, a)
                         [] rule = "detect" -> V!DetectedRightly(q, a)
                         [] rule = "releases" -> V!GatheredRightly(q, a)
                         [] rule = "eol" -> V!JudgedRightly(q, a)
                         [] rule = "tools" -> N!ToolsHeardRightly(q, a)
                         [] rule = "dockerfile" -> N!DiagnosedRightly(q, a)
                         [] rule = "taxii" -> X!ServedRightly(q, a)
                         [] rule = "board" -> B!SyncedRightly(q, a)
===============================================================================
