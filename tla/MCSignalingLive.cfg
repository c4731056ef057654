SPECIFICATION FairSpec
CONSTANTS
    c1 = c1
    c2 = c2
    c3 = c3
    x = x
    None = None
    Conn = {c1, c2, c3}
    Ids = {1}
    Recipients = {x}
    Verdicts <- MCLiveVerdicts
    MaxPackets = 0
    MaxDrops = 1
CHECK_DEADLOCK FALSE
PROPERTIES PairEndsTogether
