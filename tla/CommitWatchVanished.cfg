\* A branch is forced back, and GitHub deletes the commit that was recorded.
SPECIFICATION CommitWatchSpec
CONSTANTS
    WatchedRepos = {"r1"}
    Authored = {"own"}
    MaxCommits = 1
    RequireSignature = FALSE
    MaxPushed = 3
    MaxTroubles = 0
PROPERTY VanishedIsTold
