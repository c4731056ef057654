SPECIFICATION FairSpec
CONSTANTS
    Bitrates = {2000, 40000}
    Default = 6000
    Accepted = {2000}
    MaxRequests = 1
    MaxRestarts = 2
    MaxReports = 1
CHECK_DEADLOCK FALSE
INVARIANTS RestartKeepsBitrate CrashExplained
PROPERTIES FrozenRecovers
