SPECIFICATION FairSpec
CONSTANTS
    FloodSize = 3
    Window = 1
    MaxSends = 1
    MaxWrites = 0
PROPERTY StatusAnswered
CHECK_DEADLOCK FALSE
