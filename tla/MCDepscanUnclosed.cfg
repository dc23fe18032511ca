\* Two daily crawls, and between them the admin logs in to the dashboard.
SPECIFICATION Spec
CONSTANTS
    k1 = k1 k2 = k2 k3 = k3
    app = app lib = lib
    d1 = d1 d2 = d2 u1 = u1 a1 = a1 e1 = e1
    Keys = {k1}
    Repos = {app, lib}
    RepoOf <- MCRepoOf
    ExcKeys = {k1}
    ExcOf <- MCExcOf
    AdminRepos = {app}
    Accepts = {}
    Ends = {}
    Dailies = {d1, d2}
    UserScans = {u1}
    Scope <- AdminAsUser
    MaxParallel = 1
    MaxFaults = 0
INVARIANT ResolvedIssueIsClosed
