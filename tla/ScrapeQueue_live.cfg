SPECIFICATION FairSpec
CONSTANTS
    w1 = w1  w2 = w2  f = f
    j1 = j1  j2 = j2  j3 = j3 
    qA = qA  qB = qB
    ann = ann  bob = bob
    NoJob = NoJob  NoPod = NoPod
    Pods = {w1, f}
    Workers = {w1}
    Jobs = {j1, j2}
    Profiles = {qA}
    Users = {ann}
    ProfileOf <- MCProfileOf2
    UserOf <- MCUserOf2
    MaxConcurrent = 2
    Statuses = {}
    MayDie = {w1}
    MaxFaults = 1
    MaxSweeps = 0
    LeaseMayLapse = FALSE
    SlowReplies = FALSE
INVARIANTS
    ReapedIsFinal
PROPERTIES
    OrphansReaped
    LocksFreed
    JobsEnd
