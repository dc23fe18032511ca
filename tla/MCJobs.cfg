CONSTANTS
 Parts = {"commits", "posture", "runtimes", "depsops", "userscan", "cleanup", "kev", "osv",
          "retry", "sla", "checks", "probes", "targets", "reading", "log", "scan", "detect",
          "releases", "eol", "tools", "dockerfile", "taxii", "board"}
 WatchedRepos = {"r1"}
 Authored = {"risky"}
 MaxCommits = 1
 RequireSignature = FALSE
 MaxPushed = 3
 MaxTroubles = 1
 Targets = {"t1", "t2"}
 Facts = {"f1"}
 Unalerted = {}
 MaxLosses = 1
 Cycles = {"c1", "c2"}
 Old = {"c1"}
 Apps = {"a1"}
 RuntimeRuns = {"u1", "u2"}
 MaxHitches = 1
 OpsRepos = {"r1"}
 Numbers = {1}
 Bumps = {"minor_or_patch"}
 DailyOps = {"d"}
 UserOps = {"u"}
 LogRetention = 2
 LastStart = 3
 MaxSlips = 1
 Threads = {"t", "u"}
 StaleRunning = 1
 RescanAfter = 2
 MaxLost = 2
 Homes = {"h1", "h2"}
 MaxChanges = 2
 MaxRefusals = 1
 Cves = {"c1", "c2"}
 Ecosystems = {"npm"}
 Vulns = {"v1"}
 FeedRuns = {"f1", "f2"}
 Window = 1
 FeedRetention = 2
 LastDay = 3
 MaxOutages = 1
SPECIFICATION LiveSpec
INVARIANTS JobsTypeOK NothingPassesUnseen StoredIsTold RecordedWasSent LogMatchesGitHub
 NoOrphanIssue FeedsHold   ScansAgree
PROPERTIES EolIsTold LostScanIsRetried
