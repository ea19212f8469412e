SPECIFICATION Spec
CONSTANTS
    t1 = t1  t2 = t2
    Tasks = {t1, t2}
    NoTask = NoTask
    MaxAttempts = 2
    MaxTrouble = 1
    MaxOps = 2
SYMMETRY Symmetry
INVARIANTS FollowUpBudget InProgressInHand
PROPERTIES DiscardedStays
