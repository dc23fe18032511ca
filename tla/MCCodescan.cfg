\* Two daily crawls and a user's scan, an exception registered and ended,
\* one after the other, one failure; no tool fails silently.
SPECIFICATION Spec
CONSTANTS
    k1 = k1 k2 = k2 k3 = k3 k4 = k4
    app = app web = web lib = lib
    x12 = x12 x3 = x3 x4 = x4 semgrep = semgrep zizmor = zizmor
    d1 = d1 d2 = d2 u1 = u1 a1 = a1 e1 = e1
    Keys = {k1, k2, k3, k4}
    Repos = {app, web, lib}
    RepoOf <- MCRepoOf
    ExcKeys = {x12, x3, x4}
    ExcOf <- MCExcOf
    AdminRepos = {app, web}
    Dailies = {d1, d2}
    UserScans = {u1}
    Accepts = {a1}
    Ends = {e1}
    Scope <- MCScope
    Tools = {semgrep, zizmor}
    ToolOf <- MCToolOf
    SilentTools = {}
    MaxParallel = 1
    MaxFaults = 1
SYMMETRY MCSymmetry
INVARIANTS
    CodescanTypeOK
    NewFindingsAccountedFor
PROPERTIES
    OnlyAbsentIsResolved
    ClosedOnlyWhenClean
    NothingExceptedIsFiled
