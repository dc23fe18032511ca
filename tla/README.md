# A TLA+ model of cyberattack_info_api

The repository is a FastAPI service that crawls vulnerability feeds, scans the
GitHub repositories of an administrator and of registered users, keeps what it
finds in a database, files it as GitHub issues, and watches repositories, sites,
runtimes and pull requests. An OAuth server and hand-made tokens give MCP clients
access to what it knows. This directory holds TLA+ modules translated from its
Python code (`src/app`), the TLC configurations that check them, and proofs
checked by TLAPS.

- [Inventory](#inventory): the system's parts and what makes each correct
- [Modules](#modules): which module models which code, and how
- [Runs](#runs): what TLC checks, the bounds, fairness, what came out
- [Proofs](#proofs): what is proved, from which assumptions, along which argument
- [What is abstracted](#what-is-abstracted) and [not modelled](#not-modelled)
- [Observations](#observations): what the modelling showed besides
- [Plan](#plan): what is left

## Inventory

One process serves the API, runs APScheduler's jobs in its thread pool, and
starts daemon threads for `POST /admin/...-crawl` and for the scan that follows a
login. All of them share one database (each thread has a session of its own; no
row is ever locked) and talk to GitHub. There is no queue, no lock between
threads (but for the rate limiter's tables) and no table of running jobs: what
keeps two threads apart is the time of day at which they are scheduled.

| Component | State it keeps | Operations | Correct if | Modules |
|---|---|---|---|---|
| Crawl runner (`core/runner`) | the run's `started_at`, its session | `CrawlJob.run`: duplicate check, execute, log row, after_success | a duplicate that could be seen is not run; a skip is justified; skipping never costs a day | CrawlRunner, proved |
| Crawler log, scheduler, triggers | one row per finished run; jobs in memory | `write_crawler_log`; a firing a day; POSTs | a lost row leads to one run more at most | CrawlRunner |
| Findings store (`depscan/`, `codescan/repository.py`) | a row per finding | `upsert`, `resolve_stale`, `delete_old_resolved` | reported once; only what is gone, and only one's own, is resolved | Findings, proved |
| Issue filing (`core/findings`, `core/github`) | the open issue per repository, on GitHub | `file_or_update_repo_issues`, `close_resolved` | what needs attention is in an open issue; one per repository | Findings, proved |
| DEPSCAN (`depscan`) | `dependency_findings` | daily crawl; scan of one user | a user's scan stays at home; issues are closed in the end; what is reported was read | Depscan, DepscanRules, proved |
| CODESCAN (`codescan`) | `code_findings` | as above, repository by repository, several tools | a failed tool resolves nothing and closes nothing | Codescan, Scanners, proved |
| Finding exceptions | `finding_exceptions` rows | register/renew, revoke, daily lifecycle | one active row per finding; one notice per approval; what ends is shown again | FindingExceptions, proved |
| User scan (`core/runner/user_scan.py`, `depscan/user_scan.py`) | `user_scans` status | at login, and in the daily crawl over accounts | a lost scan is retried | UserScan, its types proved |
| Repository cleanup (`jobs/repo_cleanup.py`) | - | purge rows of repositories that left | only of those gone or excluded; it orphans no issue | RepoCleanup, proved |
| OAuth server (`mcp_server/oauth`) | authorization requests, codes, refresh-token families, clients | authorize, consent, exchange, rotate, revoke, disconnect, clean up | a code goes to who approved; a grant is one chain; revoked stays revoked | OAuthFlow, OAuthTokens, GrantChain, OAuthClients, proved |
| MCP tokens (`mcp_server`) | the ledger | issue with a cap, revoke, notice before expiry | the cap holds; expiry is announced | McpTokens, proved |
| Login, sessions (`auth`) | codes in memory, session tokens | login, exchange, prolong | a code is used once; a session is renewed within its limit only | Login, proved |
| Rate limiter (`core/net/rate_limit.py`) | windows and locks, bounded | `check`, `record_failure` | at most the limit a window; a lock lasts | RateLimiter, proved |
| Retry (`core/net/retry.py`) | - | `request_with_retry` | waits as told, stops, no retry of permanent errors | Retry, proved |
| RUNTIME (`runtimes`) | releases, uses, recorded alerts | scan, find, send, record | recorded means sent; an end of support is told | RuntimeAlerts, RuntimeRules, proved |
| DEPSOPS (`depsops`) | a log row per judged pull request | list, judge, merge, flag, record, tidy | the log agrees with GitHub | Depsops, proved |
| COMMITWATCH (`commit_watch`) | last SHA per repository | compare, judge, tell | no commit passes unseen | CommitWatch, proved |
| EXTMON, REPOAUDIT, GHALERT | a row per site, repository, alert | look, compare, store, tell | what is stored was told | Posture, RepoChecks, SiteProbes, proved |
| KEV, OSV | feed rows | fetch, upsert, delete | what is listed stays stored | Feeds, proved |
| SLA, project sync | -; a board | report; add up to a limit | each finding counted once; added once | SlaRules, ProjectSync, proved |
| TAXII (`taxii`) | - | collections, pages | paging loses no object but those that share a page's last time | Taxii, proved |
| Lists, exports, operating status | - | filters, pages, statistics | a reader sees the owner's rows and no others | Reading, proved |

How they interact: scheduler or POST -> `CrawlJob.run` -> a job's `execute` ->
its tables -> (DEPSCAN, CODESCAN) exceptions -> issue filing -> GitHub, or a
message to the administrator after success. The exceptions API and the exception
lifecycle write their own table and then close or refile the same issues. A
user's scan writes the same findings table as the daily crawl; the repository
cleanup deletes from it. The OAuth server writes its access tokens into the
ledger of the hand-made ones, which the daily cleanup purges.

What is hard here, and hard to test: check-then-act across a transaction or a
call to GitHub; rows committed long before what they announce, or messages sent
before they are recorded; errors swallowed at several levels (a repository, a
phase, a run); restarts between two commits; column-wise updates of one row by
two sessions; rows read before GitHub is asked and written after; the boundaries
of windows, expiry and notice. `PROJECT.json` lists each as a hazard at its line,
with the properties that would notice it going wrong.

## Modules

Names follow the code wherever TLA+ allows it. One action is one transaction, one
call, or one request. "ghost" marks variables that only the properties read.
Bounds are the constants named `Max...` and `Last...`.

### CrawlRunner

`stage[r]` is where a call of `CrawlJob.run` stands. `SchedulerFires`/`Post` start
it, `Ask` is `already_succeeded_recently` (`AskFails`: the query raised),
`Start` sets `started_at`, `ExecuteReturns`/`ExecuteRaises` stand for
`execute`, `LogSuccess`/`LogError` for `write_crawler_log` (which may lose the
row), `AfterSuccess` for the notifications outside the try. `RestartRuns` loses
all runs in flight. `seen` (ghost) remembers the successes a run saw when it asked.

Time: `ClockTicks` does not pass between a trigger and the check (milliseconds), nor
past a firing that is due, nor past `MaxExec` of a run. `StaysFresh` depends on
`MaxExec`: a run that takes longer than the model allows may make the next
firing's success late.

### Findings, extended by Depscan and Codescan

Findings has what the two scanners share. `row[k]` is the state of a finding's
row, `issue` the sequence of issues with the scanner's title, each with the
findings that were listed in it. Each thread `j` has `pc`, the repositories it
still has to go through (`todo`), the one it works on (`at`), the issue number it
found (`target`) and its `new_snapshots` (`fresh`).

| Code | Actions |
|---|---|
| `upsert`: queries / commit | `Read` / `upsert`, `Conflict` (unique constraint, row deleted) |
| `resolve_stale` | `resolve` of `resolvable(j, k)` |
| `file_or_update_repo_issues` | `FileFind`, `FileWrite`, `FileFails` |
| `IssueReporter.close_resolved` | `CloseCheck`, `CloseFind`, `CloseWrite`, `CloseFails` |
| `create_exception`, `revoke_exception` and their background task | `create_exception`, `end_exception`, `refile_issues`, `TaskDone`, `TaskFails` |
| an exception reaching `expires_at` | `Lapse` |

Depscan adds the daily crawl (`_DepscanJob`: `Collect`, `UpsertCommit`,
`ResolveStale`, `DropExcepted`, the closing, `DeleteOldResolved`, `Notify`, the
filing) and the user's scan (the same without exceptions, closing and
retention). Codescan adds the loop over repositories (`Begin`, `scan_repo`,
`SkipRepo`, per-repository sync) with tools that fail (`failed`) or fail without
saying so (`SilentTools`), the filing and then the closing of `fully_scanned`
repositories.

Ghosts: `showing` (findings that were filed and have needed attention ever
since), `givenUp` (new findings whose report was lost or waived), `overlapped`
(two threads were once in flight together), `missed` (what failed tools would
have found), `reports` (how often a finding was new).

### FindingExceptions

One finding, its exception rows, concurrent requests and the daily job. A
request's lookup and commit are two steps, and a commit writes only the columns
that differ from the row as it was loaded (`renewed`), as SQLAlchemy does. The
job is `run_exception_lifecycle` step by step: `JobStarts` (reads the fixed
ones), `EndFixed`, `ReadDue`/`EndDue` (`expire_due`), `ReadSoon`/`MarkSoon`
(`due_soon`), `JobRefiles`. "False positive" and "not affected" are one status,
`dismissed`: the code treats them alike.

### OAuthFlow, OAuthTokens, GrantChain, OAuthClients

OAuthFlow goes from `/authorize` to the code. `create_request` inserts a row,
`ShowReads`/`bind_browser` are the consent page (which reads the row, then writes
the nonce of the browser's cookie into it), `Approve` sends the browser to
GitHub, `ReturnsFromGitHub`/`LoginFails`/`complete_request` its return,
`DenyReads`/`discard_request`/`Deny` the refusal. Between the two halves of each
any other request may run, and only an UPDATE by primary key looks at what
happened meanwhile (`writable`).

OAuthTokens goes from the code on. A family is one authorization. An exchange
`x` is a `/token` request: `load_code`/`consume_code` or `find_usable`/`rotate`,
then `issue_oauth_token` in a commit of its own (`issue`); a token that was used
before revokes its family. `revoke_oauth_tokens`, `revoke_client_grants` with
`SelectAccess` (disconnect) and the daily cleanup (`CleanupLists`) run beside.
`Stop` loses the requests under way; `Midnight` is the clock.

GrantChain is the abstract specification: each grant is offered, turned, held,
turned again ... and ended; there is one holder at a time. OAuthTokens
instantiates it with the stage of each family (a function of its codes, refresh
tokens and exchanges under way) and `EachGrantIsAChain` is its specification.

OAuthClients is dynamic registration: `CountClients` (purges what is old and
unused, then counts) and `save_client` (inserts) are two steps.

### McpTokens, Login, RateLimiter

McpTokens: `CountTokens`/`issue_token` (the cap is counted, then the row
inserted), `revoke_token`, and the job: `find_expiring_tokens`, `Send`,
`MarkNotified` or `NoticeSkipped`, `NoticeJobFails`; what is sent may arrive
though its answer does not (`arrives`, `ok`). Login: `github_login`,
`github_callback`, `exchange` of the code in memory, `refresh` of a session as
long as `MaxSession` after the login has not passed, `LoginRestart`. RateLimiter: `check` and `record_failure` with the
two bounded tables; between them a request is in flight (`Answered`: it ended
without a failure).

### The daily jobs

| Module | Code | Step by step |
|---|---|---|
| CommitWatch | `commit_watch/crawler.py`, `analysis.py` | `head_sha`, `CompareAndCommit` (compare, files, commit of the SHA), `SendAlerts`, with `Push`, `Reset` (forced) and `Delete` (GitHub forgets a commit, and comparing with it fails) in between |
| Posture | `external_monitor`, `repo_audit`, `github_alerts` crawlers | `Look` at a target (compare, store, commit), `PassOver` what failed, `Tell`; facts `Appears`, `Vanishes`; REPOAUDIT merges what could not be fetched (`merge_snapshots`) |
| RuntimeAlerts | `runtimes/crawler.py`, `alerts.py` | `FetchReleases`, `ScanApps`, `FindAlerts` (`not_sent`), `SendAll` (a message may arrive and count as failed), `RecordSent` by two runs; cycles `Age`, applications `Upgrade` |
| Depsops | `depsops/runner.py`, `pr_judge.py`, `pr_log_*.py` | `ListPulls`, `Judge`, `Merge`, `RecordLogs`, `TidyLogs`, `OpsFails`, beside another run and people (`SettleOutside`) |
| UserScan | `core/runner/user_scan.py`, `depscan/user_scan.py` | `ScanAtLogin`, `ScanAtCrawl`, `LooksForRow`, `MarksRunning`, `Scans`, `MarksDone`/`MarksError`/`ScanBreaks`, `UserScanRestart` |
| RepoCleanup | `jobs/repo_cleanup.py` beside a scan | `SweepLists`, `FindKnown`, `CheckExists`, `MeetExcluded`, `CloseIssue`, `Purge` with `ScanLists`, `ScanWrites`, `ScanFiles`; rows taken by retention or by a replaced inventory (`RowsFade`) |
| Feeds | `kev/crawler.py`, `osv/crawler.py` | `FetchKev`, `UpsertKev`, `DeleteStaleKev`; `StartOsv`, `FetchRefs`, `FetchVuln`, `UpsertOsv`, `DeleteOldOsv`, by two runs |

### Rules

Fifteen rules keep no state of their own. Each is an operator or recursive
function translated from the code (`Reply`), asked everything within small sets
(`Asks`), and its answer is compared with a definition of what documents and
docstrings promise, written in another way (`Rightly`). RulesProofs proves the
same of questions of any size (see Proofs). Three properties group them:
`ReadersAgree` (Retry, SlaRules, Reading, Taxii, ProjectSync), `ChecksAgree`
(RepoChecks, SiteProbes, RuntimeRules), `ScansAgree` (DepscanRules, Scanners):

| Module | Rules |
|---|---|
| Retry | one call of `request_with_retry` against any sequence of answers |
| SlaRules | `build_report` and `digest` from findings, exceptions and policy |
| RepoChecks | the checks and the score of a repository whose settings may be unreadable, in part or whole |
| SiteProbes | `probe_site`, with the two resolutions of a name: when it is looked at and when it is asked; `discover_targets` |
| Reading | whose rows a credential shows, page by page; the count of open pull requests |
| DepscanRules | manifests -> inventory -> vulnerabilities -> findings, fixed version, reachability, with fetches that fail |
| RuntimeRules | runtimes in files, of which a limited number within a limited size is fetched; Flutter and Dart releases; the judgement of a use |
| Scanners | how each tool's end is heard; the Dockerfile rules (`FROM`, `USER`, `ADD`, pipes to a shell, secrets in `ENV` and `ARG`) |
| Taxii | a client's paged reading, and what `added_after` leaves out |
| ProjectSync | a run that adds open findings to a board |

### The instances

MCAccess, MCJobs and MCScheduled (CrawlRunner and FindingExceptions) put the
access control, the jobs, and the two machines that the scheduler drives into one
specification each. The parts share no rows, so a behaviour chooses its part at
the start and the others stay in one initial state: the state space is the sum of
the parts', not the product, and nothing is lost, since an interleaving of parts
that share nothing projects onto each. MCDepscan and MCCodescan instantiate one
module each; the violations of CrawlRunner, FindingExceptions, Login and
CommitWatch are shown on the module itself.

## Runs

`tlc -workers 2 -config X.cfg M` for each row; the state counts are distinct
states.

| Run | Config | Bounds | Checks | Outcome |
|---|---|---|---|---|
| `scheduled` | MCScheduled | runs: 4; Day 4, Window 2, MaxExec 1; two and a half days; 2 POSTs; 1 incident. Exceptions: 2 creates, 1 revoke, 3 days, notice 1 day, at most 2 days ahead, 1 fault | `ScheduledTypeOK`, `SuccessesSpaced`, `SkippedOnlyForSuccess`, `StaysFresh`, `OneActive`, `ExpiredAreEnded`, `SoonOnce`, `RenewalIsAnnounced`, `EndedIsShown` | hold, 3.6M states |
| `crawl_overlap` | CrawlRunnerOverlap | 2 runs, no incident | `NeverRunTwice` | violated |
| `depscan` | MCDepscan | 3 findings in 2 repositories (admin's, other user's); 2 daily crawls, 1 user scan, 1 exception; 2 threads at a time; 1 fault | `DepscanTypeOK`, `ShownWhileUnresolved`, `OneOpenIssue`, `NewFindingsAccountedFor`, `ReportedOnce`, `UserScanStaysHome` | hold |
| `depscan_foreign` | MCDepscanForeign | 1 user scan, 1 daily crawl, serial, no fault | `OnlyOwnersResolve` | violated |
| `depscan_unclosed` | MCDepscanUnclosed | 2 daily crawls, the admin's own on-demand scan, serial, no fault | `ResolvedIssueIsClosed` | violated |
| `codescan` | MCCodescan | 4 findings, 3 repositories, 2 tools; 2 daily crawls, 1 user scan, an exception registered and ended; serial; 1 fault | `CodescanTypeOK`, `NewFindingsAccountedFor`, `OnlyAbsentIsResolved`, `ClosedOnlyWhenClean`, `NothingExceptedIsFiled` | hold |
| `codescan_silent` | MCCodescanSilent | 2 daily crawls, semgrep may fail silently | `OnlyAbsentIsResolved` | violated |
| `exceptions_renewed` | FindingExceptionsRenewed | 2 creates, no fault | `ExceptedIsNotShown` | violated |
| `access` | MCAccess | see below | `AccessTypeOK`, `RevokedStaysRevoked`, `OnlyTheApproverGetsACode`, `EndsOnce`, `LimitsHold`, `ExpiryIsAnnounced`, `EachGrantIsAChain`, `UsedIsKept` | hold, 0.8M states |
| `session_limit` | LoginLimit | 2 logins, no restart | `SessionsWithinLimit` | violated |
| `jobs` | MCJobs | see below | `JobsTypeOK`, `NothingPassesUnseen`, `StoredIsTold`, `RecordedWasSent`, `LogMatchesGitHub`, `NoOrphanIssue`, `FeedsHold`, `ReadersAgree`, `ChecksAgree`, `ScansAgree`, `EolIsTold`, `LostScanIsRetried` | hold, 0.9M states |
| `commit_vanished` | CommitWatchVanished | 1 repository, 3 commits, no trouble | `VanishedIsTold` | violated |

Why the bounds are enough for these questions:

- CrawlRunner: the window is half a day, as 12 h is of 24 h. Four runs are two
  firings and two POSTs, so that a POST can precede, overlap and follow each
  firing; the clock goes on for half a day after the second firing so that
  `StaysFresh` is evaluated for both. One incident at any moment covers "failed,
  then made up for".
- Depscan: two threads at a time is where every race of the code happens (count
  against filing, search against creation, upsert against upsert); two daily
  crawls show resolve-and-return, a third would only repeat; two findings share a
  repository (the count of what remains) and one is elsewhere (scope).
- Codescan is run one thread after another: its issue filing is the same code as
  Depscan's, whose run has the overlaps. Here the interest is in the sequence
  scan - failing tool - exception - later scan. `k1` and `k2` are two lines under
  one exception.
- FindingExceptions: two creates can overlap and a third row can only repeat; one
  day of notice and two days of life make create, notice, renew, expire possible
  within three days.
- `access`, tokens: two families of one connection (a disconnect meets both),
  three tokens of a chain (used, its successor, one more), three exchanges (two
  that race and one that replays), a thread that disconnects, two midnights, one
  stop. Flow: one request, two browsers with two page views, three returns from
  GitHub, so that approval, refusal and a second return all overlap. MCP tokens:
  a cap of two and three tokens, so that it is reached and passed by two requests
  side by side. Clients: as many, with a limit an hour. Rate limiter: two peers
  and a table of one, so that a peer is forgotten; windows of two ticks, so that
  a request may be inside, on and outside the edge. Logins: two, with a session
  that is prolonged until no renewal is allowed.
- `jobs`: three commits with a limit of one (more than fit a comparison, a
  rewritten history); two targets and one fact, which comes and goes; two cycles
  and two runs of RUNTIME; one pull request and two runs of DEPSOPS, with three
  starts and rows kept for two ticks, so that the first expire; two threads of a
  user's scan and two losses; two repositories for the cleanup; two CVEs, one OSV
  entry and two runs for the feeds, so that each kind of overlap and of loss
  happens once.
- Runs, scans and requests are used once each, or the clock stops: `...Horizon`
  and `...Terminates`, `Terminating` mark where, so deadlock is checked in every run. RUNTIME,
  UserScan and the cleanup need no horizon; their states recur.

Symmetry: in `depscan` and `codescan` findings of a repository and daily crawls
are interchangeable. In `scheduled` the requests to create are; the runs are
numbers and not permuted, but the constraint `RunsInOrder` starts them in order,
which loses nothing, for a run that has not been triggered is like any other. In `access` the same three model values stand for exchanges,
callbacks, issued tokens and clients; no definition compares one with another but
for equality and none is used in two parts of a behaviour, so permuting them is
sound. Temporal properties under symmetry: `EachGrantIsAChain` and `UsedIsKept`
are safety properties that mention no exchange, so a permutation of exchanges
leaves them as they are.

Properties that hold only of threads which do not overlap say so in their
antecedent (`~overlapped`, `"create" \notin crossed`, `raced`, `side_by_side`,
`crowded`). That is not a precondition nobody meets: it is how the service runs on
an ordinary day. What happens with overlaps is described with each property and
in the hazards.

Fairness is assumed in `jobs` only, for its two liveness properties. Each of RUNTIME's runs goes on
(`RuntimeStep`): it is started by the scheduler every day. Time passes
(`UserScanTick`), threads are scheduled (`ThreadStep`), and a user logs in again
(`ScanAtLogin`), for nothing else takes a lost scan over; `LostScanIsRetried`
says this in its comment. None is assumed of failures, restarts, releases or
people: failures are bounded and then stop, which is what "in the end" means
here, and the properties hold however often the others act.

The seven violations (each a finding in `PROJECT.json`, with the text it
contradicts):

1. `NeverRunTwice`: the API reference says automatic triggers never run a
   crawler twice; a scheduled run and a POST that overlap do.
2. `OnlyOwnersResolve`: the daily DEPSCAN resolves findings of registered users'
   repositories it did not scan (`sync(records)` without `repo_owner_prefix`).
3. `ResolvedIssueIsClosed`: a finding resolved by an on-demand scan leaves its
   issue open, and no later crawl closes it.
4. `OnlyAbsentIsResolved` with a silent tool: semgrep or gitleaks failing without
   output counts as "nothing found", against the ScanRecords docstring.
5. `ExceptedIsNotShown`: refiling after an exception has ended does not look
   whether the finding has been excepted anew.
6. `SessionsWithinLimit`: a session renewed on the last day of the limit that
   `auth/session.py:21-22` calls absolute is valid past it: with the code's
   numbers for 37 days and not 30. What does hold is in `LimitsHold`: no token is
   made out after the limit.
7. `VanishedIsTold`: if GitHub no longer has the commit that COMMITWATCH recorded,
   the retrying client raises on the 404 before `_compare` can take it for a
   rewritten history. Nobody is told, and the repository is passed over from then
   on, as its recorded SHA stays (`commit_watch/crawler.py:56`).
   `NothingPassesUnseen` is about what is recorded, and stands beside it.

Every property of a passing run has a mutant in `PROJECT.json`: a definition of
the code changed the way a plausible bug would change it, under which TLC finds
the property violated. The changed forms stand in a section of their own, before
the definitions they replace.

## Proofs

Eight modules; `tlapm <M>.tla` checks one. FindingsProofs holds the lemmas on the
store and the issues that DepscanProofs and CodescanProofs both use; JobsProofs
has a section for each job, AccessProofs one for each part of the access control,
and RulesProofs one for each rule. The theorems hold for every value of the constants
that meets the named ASSUMEs of the modelled module: times and bounds are natural
numbers, sets of threads are disjoint, and what the code's own constants settle
(`Day > 0` for CrawlRunner, `MaxTime >= 1` for FindingExceptions; a table of one
client at least for RateLimiter; for McpTokens a notice at least a day ahead and
lifetimes of two days or more -- `ALLOWED_DAYS` is 7, 30, 90, and a token of one
day could be issued after the daily job and expire before the next).

| Module | Theorem | Says |
|---|---|---|
| CrawlRunnerProofs | `TypeCorrect`, `IInvHolds` | `RunnerSpec => []RunnerTypeOK`, `RunnerSpec => []IInv` |
| | `RunsAreSpaced`, `SkipsAreJustified` | `RunnerSpec => []SuccessesSpaced`, `[]SkippedOnlyForSuccess` |
| | `DaysAreCovered` | `RunnerSpec => []StaysFresh` |
| FindingsProofs | lemmas only | `StepStore`: every step of the reporting keeps `StoreInv` |
| DepscanProofs | `DepscanInvHolds`, `DepscanTyped` | `Spec => []DepscanInv`, `[]DepscanTypeOK` |
| | `NewIsReportedOnce`, `NothingNewIsForgotten` | `[]ReportedOnce`, `[]NewFindingsAccountedFor` |
| | `OneIssuePerRepo`, `UnresolvedIsShown` | `[]OneOpenIssue`, `[]ShownWhileUnresolved` |
| | `ScansStayInScope` | `Spec => UserScanStaysHome` |
| CodescanProofs | `CodescanInvHolds`, `CodescanTyped` | `Spec => []CodescanInv`, `[]CodescanTypeOK` |
| | `NothingFoundIsForgotten`, `OneCodescanIssuePerRepo`, `WhatNeedsAttentionIsShown` | `[]NewFindingsAccountedFor`, `[]OneOpenIssue`, `[]ShownWhileUnresolved` |
| | `WhatFailedToolsMissedStays`, `NoIssueClosedOverFailedTools` | action properties: nothing that a tool seen to fail missed is resolved, or has its issue closed |
| | `ExceptedStaysUnfiled` | `Spec => NothingExceptedIsFiled` |
| FindingExceptionsProofs | `ExceptionsInvHolds`, `ExceptionsTyped` | `ExceptionsSpec => []ExceptionsInv`, `[]ExceptionsTypeOK` |
| | `OneIsActive`, `ExpiredEnd`, `AnnouncedOnce`, `RenewalsAreAnnounced`, `EndedAreShown` | `[]OneActive`, `[]ExpiredAreEnded`, `[]SoonOnce`, `[]RenewalIsAnnounced`, `[]EndedIsShown` |
| AccessProofs | `RevokedInvHolds`, `RevocationIsFinal` | `OAuthTokensSpec => [](RevokedInv /\ UseInv)`, `[]RevokedStaysRevoked` |
| | `CleanupSparesTheUsed`, `GrantsAreChains` | `OAuthTokensSpec => UsedIsKept`, `=> EachGrantIsAChain` |
| | `FlowInvHolds`, `CodesGoToTheApprover`, `RequestsEndOnce` | `OAuthFlowSpec => []FlowInv`, `[]OnlyTheApproverGetsACode`, `[]EndsOnce` |
| | `LimitersInvHold`, `AccessTyped` | `Spec => [](LoginInv /\ RegistrationsInv /\ McpInv /\ RateInv)`, `[]AccessTypeOK` |
| | `LimitsAreKept`, `ExpiryAnnounced` | `Spec => []LimitsHold`, `[]ExpiryIsAnnounced` |
| JobsProofs | `CommitsAreSeen`, `FeedsAreKept` | `CommitWatchSpec => []NothingPassesUnseen`, `FeedsSpec => []FeedsHold` |
| | `WhatIsStoredIsTold`, `RecordsAreTrue` | `PostureSpec => []StoredIsTold`, `RuntimeSpec => []RecordedWasSent` |
| | `NoIssueIsOrphaned`, `RecordsMatchGitHub` | `CleanupSpec => []NoOrphanIssue`, `DepsopsSpec => []LogMatchesGitHub` |
| | `JobsTyped`, `JobsAreSafe` | `Spec => []JobsTypeOK`, and `[]` of the six above |
| | `ReadersAreRight`, `ChecksAreRight`, `ScansAreRight` | `Spec => []ReadersAgree`, `[]ChecksAgree`, `[]ScansAgree` |
| RulesProofs | `RulesAnswerRightly` | each of the fifteen rules, whatever the runs ask it, answers as it should |
| | `RetriesAreRight`, `FindingsAreReported`, `RepositoriesAreAudited`, `SitesAreProbed`, `SitesAreGathered`, `ReadersAreShownTheirOwn`, `OpenRequestsAreCounted`, `DependenciesAreReported`, `RuntimesAreDetected`, `ReleasesAreGathered`, `UsesAreJudged`, `ToolsAreHeard`, `DockerfilesAreDiagnosed`, `CollectionsAreServed`, `BoardsAreSynced` | the same of one rule each, for questions of any size |

The specifications named after a part are of that part alone. `EachPart`
(AccessProofs) and `EachJob` (JobsProofs) prove that the `Spec` of MCAccess and of
MCJobs implies each of them: the other parts leave its variables alone, and `Init`
there only restricts its initial states further. So `AccessTyped`, `LimitsAreKept`,
`ExpiryAnnounced`, `JobsTyped`, `JobsAreSafe` and the three theorems on the rules
are about the very specifications TLC runs.

Hardly a property is inductive. What each invariant adds, and why:

- **CrawlRunner.** `SuccessesSpaced` relates the start of a run to successes it
  saw earlier, so the invariant carries what the check established through the
  steps in between. `ClearedIsApart`: a run that is not forced and was cleared
  asked more than the window after every success it saw. `SeenAreSuccesses`,
  `SuccessIsOver`: what it saw are success rows, and a run with a success row is
  past the step that sets `started_at`. `StartedIsPastCheck`, `Times`: a start is
  not before the check, no time is in the future. `Ask` establishes the distance,
  `Start` turns it from the check's time to the start's, `LogSuccess` adds a row
  without touching older ones; each has a lemma. For `StaysFresh`,
  `FiringsCovered` speaks of every firing so far and not of the last settled one:
  it has its success, or the run it started is asking at this very time, or is
  executing since then. `ClocksInStep` says that this run has had its time when
  the firing counts as settled, so that only the first case is left. An incident
  takes a firing out of the claim for good, for it is at or after it.
- **Findings**, for both scanners (`StoreInv`). For the two properties about
  issues: `Alone` says that as long as no two threads have overlapped, at most one
  is in flight; `Current`, that then what it looked up (the newest open issue, the
  absence of unresolved findings) still holds, since nobody else can have moved;
  `ListedAtHome`, that an issue lists findings of its repository only;
  `ShownIsUnresolved`, that what counts as showing needs attention. Filing then
  writes to the only open issue or opens the first, and closing closes only what
  has nothing left. `TasksHoldNothing`: a background task holds no snapshot before
  it has read any, nor while it closes, so its start and its end lose no report.
  The induction needs that a nonempty set of issue numbers has a largest one
  (`MaxIsMember`, from the well-foundedness of `<`). The lemmas speak of a
  `StoreStep`; each scanner shows that its steps are such.
- **Depscan.** `UnknownIsUnreported`: a finding without a row has not been
  reported since the last deletion; with the unique constraint (`Conflict`
  undoes the second insert) this gives `ReportedOnce` for scans that overlap in
  any way. `PlansStayHome`: what a scan holds, in every stage, is of its owner's
  repositories.
- **Codescan.** A scan goes through its repositories one by one, so the invariant
  says for each whether it is behind, at hand or ahead. `MissedIsBehind`: what its
  tools missed is not of repositories ahead, and in the one at hand was missed by
  a tool that is in `failed` or fails silently -- which is what `resolvable` looks
  at. `DoneIsInspected`: what was missed in a repository counted as fully scanned
  was missed silently, and only such are closed. `HeldIsWanted`: alone, a daily
  crawl holds nothing excepted but what it has inserted and is about to drop; no
  exception begins in between, since nobody else is in flight
  (`ExceptionsAreAlone`). What the proofs say of tools is the two properties
  of the runs with the exception the code makes: unless a tool that fails without
  saying so missed it. `codescan` checks them without such a tool, and
  `codescan_silent` shows what one does.
- **FindingExceptions.** `Held` says what a request may hold between its lookup
  and its commit; `DueIsSelected`, that what had expired when the job began is
  selected or over; `MarksAreNotices`, that a row without `expiry_notified_at` has
  had no notice since its approval, and that a request knows of a mark unless it
  crossed the notice; `OneAtATime`, that without crossing requests a create in
  flight has found the only row that may be active.
- **OAuthTokens.** `OneHolder` is the heart: of one family there are never two
  usable tokens, two exchanges about to issue one (`Moving`: past the conditional
  UPDATE of `rotate` or `consume_code`), or one of each. `FreshIsEmpty`,
  `LoadedExists` and `LoadedWasGranted` tie an exchange to what it read. Above it,
  `CutIsOver` (a family cut while nobody was moving has no token and no exchange
  that will bring one), `ClosingIsCut` and `ClosedIsDead` (disconnect selects every
  access token still valid, and then revokes them) give `RevokedStaysRevoked`.
  `UseIsRecorded` relates the last use of a connection to the ledger rows that
  remain. For the refinement each family is mapped to its stage (`grantOf`, from
  whether it *has* a token and whether an exchange *moves* it), and every action
  is shown to leave the stage or to take it along one of GrantChain's moves.
- **OAuthFlow.** `NoncesAreNew`: a nonce is in a cookie or a row only once its
  page has been opened, and in one cookie at most; `OneBrowser`: of a request that
  was not raced, one thread opens the page or the row holds its nonce for good;
  `LoginsApproved`: a login goes on in a browser that approved. `CodesOfRows`: the
  code of a row is of a login for that row, and a row whose code was exchanged is
  gone; `SentIsStored`: a code that was sent is stored until it expires, or
  another login or a refusal of the request came in between.
- **McpTokens, OAuthClients.** The caps are counted in one step and the row
  inserted in another: the invariant says that, unless two requests counted side
  by side, at most one is in between and there is room for its row. `NoticeInv`:
  what expires tomorrow was announced once today's job is over, and while the job
  runs it has it in hand; so on the day it expires nothing is left to say. That
  needs a token to be in the notice window on one day at least before it ends,
  hence the assumption on lifetimes. A second notice needs a stop between sending
  and marking, which the bound `1 + mishaps` counts.
- **RateLimiter.** The windows are emptied only when a request comes, so what is
  remembered is not what happened, but what of it lies in the window is:
  `Remembers` relates the deque to the whole history of admitted requests (ghost)
  by their last `Window` ticks, for clients the bounded table has not dropped.
  `Popped`, `After` and `AfterAfter` are the lemmas on deques (emptied twice, they
  are as if emptied once, further). `LocksOut`: the end stored for a lock is that
  of the last lockout, and nothing was admitted during it.
- **Login.** A state is in the cookie only before its code exists; who has a
  session has exchanged the code; and a token's life starts within the limit.
- **CommitWatch.** The property is inductive once commits are numbered without
  gaps (`Numbered`); the work is in `History`, which is recursive. Induction over
  it is not available as a theorem of the library, so `HistoryStep` shows that the
  least set of commits closed under parents is what it computes, and further facts
  take the least commit for which they would fail (`FirstCommit`). `Inspected`:
  what lies between the base and the head is named or before a head reported as
  rewritten or too long for one comparison.
- **Posture.** `Told(t)` is the picture the administrator has of a target plus the
  news of this run; `Pictured` says that it covers what the row says, in every
  moment of a run, and `NewsInOrder`, that there is no news of what is still to be
  looked at.
- **RuntimeAlerts.** `SendsThenRecords`: what a run is about to record has been
  sent, and what it is about to send has not, or its record was lost;
  `SharedIsExcused`: two runs have the same key to send only at the same time;
  `SentIsRecorded`: what was sent is recorded, about to be, or excused.
- **RepoCleanup.** `IssuesHaveRows` (or they faded, ghost `faded`) needs what the threads know: `GoneHasNoIssue`
  (a deleted repository takes its issues along), `ScanKnows` (where the scan is
  going to file it has committed rows, and it passes over what is excluded),
  `SweepKnows` (what is about to be purged has no open issue).
- **Depsops.** `HandsAreApart`: what a run has in hand and does not share, it has
  alone in the strong sense that no other run is under way. `ListsAreApart`: it
  has it in one of its lists, and only in repositories it has been through.
  `SettledStays`, `HandsAreOpen`: a merge or a closing is for good, and what was
  listed was open. `TimesAreApart`: the rows of a pull request have each a time of
  their own, before that of every run still to record -- so the row just recorded
  is the latest. `FlagsAreOpen` and `MergesAreLogged` are the property, said of
  every moment: until a run records, it has the pull request in hand. A merge has
  the time of its run (`mergedAt`), from which its row's retention counts.
- **Feeds.** `FirmIsKnown`: no run under way would delete a firm row, because it
  has fetched the feed with it in, or fetched nothing.

### What the rules are proved of

A run asks a rule everything within small sets (`Asks`). The theorems of
RulesProofs quantify over wider ones, and a lemma for each rule (`CallsAreAny`,
`ReportsAreAny`, ...) says that what the runs ask is among these; so
`RulesAnswerRightly`, and with it the three theorems of JobsProofs, are the small
end of what is proved. The answers a rule may get from outside stay enumerations, as the code
distinguishes them, and so do the few repositories, release cycles, objects and
items of the modules; what becomes arbitrary is this:

| Rule | Asked in the runs | Proved of |
|---|---|---|
| `request_with_retry` | chosen statuses and headers | any status, any `Retry-After` and reset time |
| `build_report`, `digest` | two findings | any finite set of findings, any days, policy and window |
| `audited` | four statuses of the alerts, and not every combination | any status in every combination |
| `probe_site` | one part of the look varied at a time | all parts at once, any stop |
| `discover_targets` | two repositories and the settings | the same |
| `read` | three rows, two to a page | any finite rows at any times, page sizes of which two pages hold all rows |
| `get_depsops_stats` | logs of up to three rows | logs of any length |
| `scan` | chosen versions | any last affected and other versions of an advisory, any latest version |
| `detect_repo_runtimes` | short files | a file of any number of lines beside the Dockerfile |
| `fetch_flutter_and_dart` | three releases | lists of any length, any patch and day |
| `outlook` | chosen days | two releases with any days, before and after today |
| `scan_repo` (tools) | up to three files | any number of files |
| `check_dockerfile` | up to four lines | any number of lines |
| `served` | pages of chosen sizes | pages of any size, of the model's objects |
| `execute` (board) | short lists | lists of any length of the model's items |

How: a recursive function over a list is met by a predicate on what it has
computed after n elements (`CycleKnown` for releases, `Grown` for the board),
and the first n for which that would fail is refuted. `LeastOf`, from the
well-foundedness of `<` on the natural numbers, gives that first n; an induction
theorem with an operator as parameter is not needed. Sums and cardinalities are
related by lemmas on `SumFunctionOnSet` and on images of finite sets
(`Picture`): an SLA report groups findings by two keys and counts each group, so
its totals agree because every finding has one severity and one repository. Pages
are argued by rank: a row has as many rows before it as its place in the order,
and rows of one time may swap places, which is why `ReadersAreShownTheirOwn`
speaks of rows that share their time with none.

Three properties were adapted to the wider questions where they said less or
more than the code does only because of the small sets: releases are merged to
the end of the list and not up to the third, sums are written with the community
modules' folds over functions, and the probe of a site whose name resolves no
more the second time is not expected to report its certificate -- it was not
looked at.

### Only model-checked

- `EolIsTold` and `LostScanIsRetried`: liveness under fairness, which is out of
  the prover's reach (`ENABLED`).
- The seven violations, which have no proof.
- `ClosedOnlyWhenClean` and `OnlyAbsentIsResolved` as the run states them: they
  hold where no tool fails silently, which the code does not ensure.

No module with a theorem reaches a RECURSIVE operator.

## What is abstracted

- A finding, an exception or a repository is a model value; columns other than
  the ones that decide control (`resolved_at`, `status`, `expires_at`,
  `expiry_notified_at`, `ended_at`) are left out.
- A scan finds any subset of its owner's findings. In Depscan the network phase
  and the upsert's queries are one step (`Collect`); that something could not be
  fetched is not told apart there from its being gone (DepscanRules has what
  failed fetches do to the records).
- `resolve_stale` reads and commits in one step. Retention deletes any subset of
  the resolved rows: which are old enough depends on dates not modelled.
- `find_open_issue` takes the newest open issue of the title. The 100 issues it
  looks at, and people closing or reopening issues, are left out.
- A call to GitHub whose answer alone is lost counts as a success (the effect is
  the same), and a failed one has no effect; a message to Slack may arrive and
  count as failed (RuntimeAlerts, McpTokens), for it is then sent again. `GITHUB_TOKEN` may lack permission outside the
  admin's repositories, so calls there may fail any number of times.
- After a database error a session is unusable: later phases of the run that need
  it fail too.
- Codescan: `MaxParallel = 1` in its runs. `end_exception`, `refile_issues` and
  the end of a lapsed exception are exercised there and not in Depscan's run.
- FindingExceptions: the scheduled job only. `POST /admin/exception-lifecycle`
  while the job runs is excluded; a request does not straddle midnight. Sending
  the notice is the decision to send it.
- Clocks are whole days (OAuthTokens, McpTokens), minutes (OAuthFlow), hours
  (OAuthClients) or phases (the support of a runtime), one unit standing for what
  the code compares, and compared as the code does.
- Secrets and their hashes are the identities of what they stand for: a hash is
  never that of two codes. Signatures of session tokens are taken as unforgeable.
- In the rules, versions are small numbers with the order the code gives them,
  and texts (files, messages, output of tools) are the facts that the code reads
  from them; the regular expressions that read them are not modelled.
- Depsops: the rows of a pull request are a set, as their times differ: the clock
  moves on when a run starts and when a user's scan records, the only times that
  rows have, and a run writes at most one row of a pull request.
- Failures, restarts, changes on GitHub and requests are bounded by `Max...`.

## Not modelled

- **Parsers** of lock files, workflow files, advisories, STIX fields, CVSS
  vectors, the SBOM format and the IaC rules other than those of Dockerfiles: each
  turns one text into one list; nothing that happens around it depends on how.
- **Messages**: formatting for Slack and mail, digests' wording. That a message
  is sent, lost or sent twice is part of the modules that decide it.
- **Secret expiry, domain metrics, zapscan**: a daily message about configured
  dates that remembers nothing, gauges of row counts, and a report stored and
  shown as posted.
- **Audit log**: rows appended by a middleware that no other component reads.
- **The MCP tools**: read-only queries. Whose rows a credential shows is in
  Reading; that a token is valid, in OAuthTokens and McpTokens.
- **Exports of exceptions (VEX), account settings** other than the webhook, the
  log's read API and its retention: queries and single assignments.
- **Configuration, database session, migrations, deployment, dashboard**: settings,
  DDL, compose files and a TypeScript front end over the read APIs. The workflow
  that posts crawls appears as `Post` in CrawlRunner.

## Observations

What the modelling showed besides the findings, each read in the code. None is
contradicted by a text of the repository strongly enough to count as a finding.

- Revoking while an exchange is between `rotate` and `issue` leaves a live access
  token and refresh token; a stop at that point loses the pair, and the client's
  retry then looks like a replay and revokes the family
  (`mcp_server/oauth/services.py:149`). `RevokedStaysRevoked` therefore speaks of
  families nobody was exchanging.
- A disconnect revokes tokens, but a code that has been sent and not exchanged
  yet still opens a new family.
- With `MAX_CLIENTS` clients that have all been used, nothing is ever purged and
  registration stops for good.
- EXTMON resolves a name when it decides whether to look at it
  (`probes.py:80`), and the client resolves it again when it asks. The second
  answer is not looked at: a name that is public first and internal then is asked,
  though the module's text says such a target is not inspected (`probes.py:7-9`).
  `ChecksAgree` says that this is the only way.
- EXTMON's `dangling-dns` is reached only if the name stops resolving between two
  lookups: `is_safe_target` turns unresolvable names away first
  (`external_monitor/crawler.py:33`).
- A certificate that goes from "30 days" to "7 days" keeps the rule's name, so the
  higher severity is not told as a change.
- The rows of a repository that is both excluded and deleted stay, since closing
  its issues fails (`jobs/repo_cleanup.py:140-150`); so do those of a renamed one.
- KEV and OSV rows get a new `updated_at` with every crawl. Of two overlapping KEV
  runs the slower deletes what the faster has just added; the next crawl restores
  it.
- TAXII's paging skips objects that share the time at which a page ended, and
  `added_after`, described as "at or after" (`taxii/router.py:245`), excludes the
  time itself; `ReadersAgree` states exactly what a client misses. List
  pages have no tie-breaker in their order, so equal rows may appear twice or not
  at all.
- CODESCAN's own infrastructure scanner leaves out files it cannot fetch without
  counting them as failed.
- Project sync counts additions, not attempts, against its limit.
- DEPSOPS dates the rows of the administrator's daily run with the time it began
  (`depsops/runner.py:154,167`), those of a user's scan with the time they are
  written. A merge by a daily run that overlaps a user's scan may therefore be
  logged as older than that scan's "flagged" row: the merged pull request is shown
  as needing attention, and the next run, which finds it no longer open, deletes
  all its rows, the merge among them, where the comment at
  `depsops/pr_log_repository.py:79-81` means to keep merges. The first attempt to
  prove `LogMatchesGitHub` failed on this; `sharedPulls` now counts as shared what
  one run has in hand when another starts, not only what both have listed.

## Plan

Done, in this order: CrawlRunner, Findings with Depscan and Codescan,
FindingExceptions; the access control (OAuthTokens with GrantChain, OAuthFlow,
OAuthClients, McpTokens, RateLimiter, Login); the daily jobs (UserScan,
RepoCleanup, RuntimeAlerts, Depsops, CommitWatch, Posture, Feeds); the rules;
liveness of two jobs; proofs of the safety properties that the runs check, but
for the two named above.

What is left, most important first:

1. An abstract issue (hidden, shown) that Findings implements while threads do
   not overlap, proved from `Current`.
2. The safety half of the two liveness properties: what is lost stays due (an
   unannounced end of support is found again by the next run, a lost scan's row
   ages until it may be taken over), so that only fairness is left to TLC.
3. Codescan with threads that overlap, Depscan with two exceptions: larger
   instances, of which the present ones are the quick part.
4. The parsers, as rules with small alphabets, where a document promises what
   they recognise.
