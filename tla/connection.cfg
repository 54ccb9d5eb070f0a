SPECIFICATION FairSpec
CONSTANTS
    FloodSize = 3
    Window = 1
    MaxSends = 2
    MaxWrites = 1
INVARIANTS TypeOK OneWriter
PROPERTIES ChannelSpec GoodbyeIsFinal NothingStays DeadAreRemoved
CHECK_DEADLOCK FALSE
