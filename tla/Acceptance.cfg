SPECIFICATION FairSpec
CONSTANTS
    acc1 = acc1  acc2 = acc2
    p = p
    u1 = u1  u2 = u2
    k1 = k1  k2 = k2
    NoAccount = NoAccount  NoRow = NoRow
    N = 3
    Persons = {p}
    Accounts = {acc1, acc2}
    Urls = {u1, u2}
    Keys = {k1, k2}
    PersonOf <- MCPersonOf
    UrlOf <- MCUrlOf
    KeysOf <- MCKeysOf
    SenderOf <- MCSenderOf
    Invited = {1}
    Known = {3}
    MaxMishaps = 1
    MaxPosted = 2
INVARIANTS RowIntroducedOnce IntroFromConnected
PROPERTIES OutcomeKept RowsSettled
