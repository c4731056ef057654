SPECIFICATION FairSpec
CONSTANTS
    Capacity <- MCCapacity
    Bursts <- MCBursts
    MaxPipes = 3
    MaxRestarts = 2
CHECK_DEADLOCK FALSE
INVARIANTS PacketizerWhileSampling OneSource
PROPERTIES StopGetsThrough RestartResumes
