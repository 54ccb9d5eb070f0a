SPECIFICATION Spec
CONSTANTS
    NoFile = NoFile
    Old = Old
    Sizes <- EvenSizes
    SendSize = 2
    OldSizes = {1}
    MaxBreaks = 0
    MaxFsErrors = 0
    MaxRestarts = 0
CHECK_DEADLOCK FALSE
INVARIANTS NoWrongCall
