SPECIFICATION FairDownloadSpec
CONSTANTS
    Versions = {good, bad}
    Wanted = good
    Full = 2
    Nothing = Nothing
    MaxAttempts = 1
    MaxStarts = 1
    MaxFaults = 1
    MaxRestarts = 1
    MaxEnds = 1
    good = good
    bad = bad
 
INVARIANT FinalIsWanted
 
CHECK_DEADLOCK FALSE
