SPECIFICATION FairSpec
CONSTANTS
    c1 = c1
    c2 = c2
    t1 = t1
    t2 = t2
    Clients = {c1, c2, t1, t2}
    Timed = {t1, t2}
INVARIANTS TypeOK HolderSafe
PROPERTIES LockGranted UnlockResumes
