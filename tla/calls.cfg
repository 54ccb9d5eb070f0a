SPECIFICATION FairSpec
CONSTANTS
    NoRecord = NoRecord
    Torn = Torn
    Delays = {0, 410}
    Moments = {400, 21106920}
    StartTime <- Onward
    Times <- JustBack
    Word = 20591920
    MaxAdds = 2
    MaxResets = 1
    MaxStarts = 1
    MaxSnaps = 1
INVARIANTS TypeOK SavedMatch
PROPERTIES  DateAdvances DueRuns PassEnds
CHECK_DEADLOCK FALSE
