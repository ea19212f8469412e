SPECIFICATION Spec
CONSTANTS
    p = p  q = q  x1 = x1  x2 = x2   camp = camp
    l1 = l1  l2 = l2  acc1 = acc1  acc2 = acc2  ann = ann  bob = bob
    NoPod = NoPod  NoCampaign = NoCampaign  NoLead = NoLead  NoAccount = NoAccount
    Pods = {p, q}
    Passes = {x1, x2}
    Campaigns = {camp}
    Leads = {l1, l2}
    Accounts = {acc1, acc2}
    Persons = {ann, bob}
    PodOf <- MCPodOf2
    CampaignOf <- MCCampaignOf
    PersonOf <- MCPersonOf2
    RouteOf <- MCRouteOf
    AccountsOf <- MCAccountsOf
    LimitOf <- MCLimitOf
    Elsewhere = {}
    Monitored = {}
    BatchSize = 2
    Concurrency = 1
    MaxOps = 2
    MaxFaults = 0
CHECK_DEADLOCK FALSE
SYMMETRY MCSymmetry
INVARIANTS
    LeadInHand
    StopsAfterLead
