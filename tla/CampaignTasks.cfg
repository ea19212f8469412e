SPECIFICATION Spec
CONSTANTS
    pod1 = pod1  pod2 = pod2  acc1 = acc1  acc2 = acc2  l1 = l1  l2 = l2
    NoPod = NoPod  NoAccount = NoAccount  NoLead = NoLead  NoTask = NoTask
    Frontend = Frontend
    Pods = {pod1, pod2}
    Accounts = {acc1, acc2}
    CampaignAccounts = {acc1}
    Primary = acc2
    Leads = {l1}
    AccountOf <- MCAccountOf
    FollowUps = TRUE
    TracksReplies = FALSE
    AutoAccept = FALSE
    OthersActive = FALSE
    SlowFollowUps = FALSE
    MaxLapses = 1
    MaxOps = 2
    MaxTurns = 1
    MaxFaults = 1
    MaxEvents = 2
CHECK_DEADLOCK FALSE
SYMMETRY MCSymmetry
INVARIANTS
    AccountExclusive
    IntroBudget
    FollowUpBudget
    OneSweepAfterStop
