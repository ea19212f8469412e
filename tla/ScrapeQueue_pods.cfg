SPECIFICATION Spec
CONSTANTS
    w1 = w1  w2 = w2  f = f
    j1 = j1  j2 = j2  j3 = j3 
    qA = qA  qB = qB
    ann = ann  bob = bob
    NoJob = NoJob  NoPod = NoPod
    Pods = {w1, w2}
    Workers = {w1, w2}
    Jobs = {j1, j2, j3}
    Profiles = {qA, qB}
    Users = {ann, bob}
    ProfileOf <- MCProfileOf
    UserOf <- MCUserOf
    MaxConcurrent = 2
    Statuses = {}
    MayDie = {w1}
    MaxFaults = 0
    MaxSweeps = 0
    LeaseMayLapse = FALSE
    SlowReplies = FALSE
INVARIANTS
    ClaimedOnce
    PodCap
    AccountsCounted
