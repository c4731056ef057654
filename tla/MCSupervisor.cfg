SPECIFICATION FairSupervisorSpec
CONSTANTS
    MaxSpawns = 5
    MaxStarts = 3
CHECK_DEADLOCK FALSE
INVARIANTS OneChild
PROPERTIES EndedIsReplaced
