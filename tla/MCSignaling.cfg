SPECIFICATION Spec
CONSTANTS
    c1 = c1
    c2 = c2
    c3 = c3
    x = x
    None = None
    Conn = {c1, c2, c3}
    Ids = {1, 2}
    Recipients = {x}
    Verdicts <- MCVerdicts
    MaxPackets = 1
    MaxDrops = 1
CHECK_DEADLOCK FALSE
INVARIANTS Isolation StrandedOnlyByRace ArrivalPairsOnce
PROPERTIES LiveWaiterKept UntrackedOnlyWhenEnded ImplementsRendezvous
