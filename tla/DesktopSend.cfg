SPECIFICATION Spec
CONSTANTS
    w1 = w1  w2 = w2  a1 = a1  a2 = a2  l1 = l1  l2 = l2
    NoAccount = NoAccount  NoLead = NoLead
    Workers = {w1, w2}
    Accounts = {a1, a2}
    Leads = {l1, l2}
    BatchSize = 1
    MaxRetries = 1
    DailyLimit = 1
    MaxBrowsers = 2
    MaxStalls = 1
    Borrowed = FALSE
    MaxTrouble = 1
    MaxOps = 2
CHECK_DEADLOCK FALSE
SYMMETRY MCSymmetry
INVARIANTS
    LeadOnce
    DailyCap
    SheetAgrees
    SlotsMatch
    NoAccountLost
