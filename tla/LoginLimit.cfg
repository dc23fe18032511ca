\* A session renewed on the last day on which it may be.
SPECIFICATION LoginSpec
CONSTANTS
    Logins = {l1, l2}
    CodeLife = 1
    SessionLife = 2
    MaxSession = 3
    LastInstant = 6
    MaxRestarts = 0
INVARIANT SessionsWithinLimit
