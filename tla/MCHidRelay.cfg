SPECIFICATION FairSpec
CONSTANTS
    ChanCap = 1
    WatchPeriod = 3
    MaxLeftover = 1
    MaxFailures = 1
CHECK_DEADLOCK FALSE
INVARIANTS CrashOnlyAfterFailure
PROPERTIES LiveClosedOnlyByLeftover Replaced
