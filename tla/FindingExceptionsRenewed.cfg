\* A request registers a new exception in place of one that has expired and
\* is not ended yet: the job shows the finding although it is excepted again.
SPECIFICATION ExceptionsSpec
CONSTANTS
    Creates = {c1, c2}
    Revokes = {}
    Notice = 1
    MaxDays = 2
    MaxTime = 3
    MaxFaults = 0
PROPERTY ExceptedIsNotShown
