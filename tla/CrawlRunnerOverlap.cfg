\* One firing and one POST in the same hours, nothing going wrong.
SPECIFICATION RunnerSpec
CONSTANTS
    Runs = {r1, r2}
    Day = 6
    Window = 3
    MaxExec = 1
    MaxClock = 8
    MaxPosts = 1
    MaxIncidents = 0
INVARIANT NeverRunTwice
