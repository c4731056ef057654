SPECIFICATION FairSpec
CONSTANTS
    MaxStarts = 1
    MaxAnswers = 2
    MaxIce = 3
CHECK_DEADLOCK FALSE
INVARIANTS SelectionFirst IceLostOnlyWhenOvertaking ExitClosesMedia
PROPERTIES RecvUnblocks StreamLossExits
