\* A scan of the other user, then the daily crawl.
SPECIFICATION Spec
CONSTANTS
    k1 = k1 k2 = k2 k3 = k3
    app = app lib = lib
    d1 = d1 d2 = d2 u1 = u1 a1 = a1 e1 = e1
    Keys = {k1, k3}
    Repos = {app, lib}
    RepoOf <- MCRepoOf
    ExcKeys = {k1, k3}
    ExcOf <- MCExcOf
    AdminRepos = {app}
    Accepts = {}
    Ends = {}
    Dailies = {d1}
    UserScans = {u1}
    Scope <- OtherUser
    MaxParallel = 1
    MaxFaults = 0
PROPERTY OnlyOwnersResolve
