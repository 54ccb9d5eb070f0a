SPECIFICATION FairSpec
CONSTANTS
    a = a
    b = b
    k1 = k1
    k2 = k2
    v1 = v1
    Absent = Absent
    NoDoc = NoDoc
    Torn = Torn
    Ids = {a, b}
    Keys = {k1, k2}
    Vals = {v1}
    InsertDocs <- FirstKeyOnly
    Updates <- SecondKey
    MaxCommitJobs = 1
    MaxBatches = 1
    MaxFaults = 1
    MaxCrashes = 1
INVARIANTS TypeOK NeverRefused
PROPERTIES StoreSpec FlushSaves CallsReturn
