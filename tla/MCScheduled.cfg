\* The runs of a crawler: two firings of the scheduler and two POSTs over two
\* and a half days, with one incident; four runs are never exhausted.
\* The exceptions: two requests to create and one to revoke, over three days
\* with the daily job, and one failure.
SPECIFICATION Spec
CONSTANTS
    Runs = {1, 2, 3, 4}
    Day = 4
    Window = 2
    MaxExec = 1
    MaxClock = 10
    MaxPosts = 2
    MaxIncidents = 1
    Creates = {c1, c2}
    Revokes = {v1}
    Notice = 1
    MaxDays = 2
    MaxTime = 3
    MaxFaults = 1
SYMMETRY MCSymmetry
CONSTRAINT RunsInOrder
INVARIANTS
    ScheduledTypeOK
    SuccessesSpaced
    SkippedOnlyForSuccess
    StaysFresh
    OneActive
    ExpiredAreEnded
    SoonOnce
    RenewalIsAnnounced
    EndedIsShown
