SPECIFICATION FairSpec
CONSTANTS
    j1 = j1  j2 = j2  j3 = j3  j4 = j4
    qA = qA  qB = qB  qC = qC
    ann = ann  bob = bob
    Jobs = {j1, j2, j3, j4}
    Profiles = {qA, qB, qC}
    Users = {ann, bob}
    ProfileOf <- MCProfileOf
    UserOf <- MCUserOf
    MaxConcurrent = 2
    MaxBatch = 2
INVARIANTS
    NoIdleSlot
PROPERTIES
    ProfileFIFO
    RateLimitCascades
    ImplementsProfileQueue
    JobsEnd
CHECK_DEADLOCK FALSE
