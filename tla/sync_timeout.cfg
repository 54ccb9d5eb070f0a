SPECIFICATION FairSpec
CONSTANTS
    c1 = c1
    Clients = {c1}
    Timed = {c1}
PROPERTIES WorkerResumes
