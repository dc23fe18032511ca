\* Two daily crawls, a scan of the other user and one exception, two at a
\* time, with one failure.
SPECIFICATION Spec
CONSTANTS
    k1 = k1 k2 = k2 k3 = k3
    app = app lib = lib
    d1 = d1 d2 = d2 u1 = u1 a1 = a1 e1 = e1
    Keys = {k1, k2, k3}
    Repos = {app, lib}
    RepoOf <- MCRepoOf
    ExcKeys = {k1, k2, k3}
    ExcOf <- MCExcOf
    AdminRepos = {app}
    Accepts = {a1}
    Ends = {}
    Dailies = {d1, d2}
    UserScans = {u1}
    Scope <- OtherUser
    MaxParallel = 2
    MaxFaults = 1
SYMMETRY MCSymmetry
INVARIANTS
    DepscanTypeOK
    ShownWhileUnresolved
    OneOpenIssue
    NewFindingsAccountedFor
    ReportedOnce
PROPERTY UserScanStaysHome
