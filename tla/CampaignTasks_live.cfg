SPECIFICATION FairSpec
CONSTANTS
    pod1 = pod1  pod2 = pod2  acc1 = acc1  acc2 = acc2  l1 = l1  l2 = l2
    NoPod = NoPod  NoAccount = NoAccount  NoLead = NoLead  NoTask = NoTask
    Frontend = Frontend
    Pods = {pod1}
    Accounts = {acc1, acc2}
    CampaignAccounts = {acc1}
    Primary = acc2
    Leads = {l1}
    AccountOf <- MCAccountOf
    FollowUps = TRUE
    TracksReplies = TRUE
    AutoAccept = TRUE
    OthersActive = TRUE
    SlowFollowUps = FALSE
    MaxLapses = 1
    MaxOps = 0
    MaxTurns = 1
    MaxFaults = 1
    MaxEvents = 1
CHECK_DEADLOCK FALSE
PROPERTIES
    TasksFinish
