SPECIFICATION FairSpec
CONSTANTS
    NoFile = NoFile
    Old = Old
    Sizes <- MixedSizes
    SendSize = 2
    OldSizes = {1, 4, 5}
    MaxBreaks = 1
    MaxFsErrors = 1
    MaxRestarts = 2
CHECK_DEADLOCK FALSE
INVARIANTS TypeOK NeverTorn ReadyIsComplete InStep
PROPERTIES Settles
