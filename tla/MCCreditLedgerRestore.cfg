CONSTANTS
    LastDay = 3
    Lookback = 3
    Amounts = {1, 2}
    Spends = {0, 2}
    OperatorKeys = {k1, k2}
    References = {r1}
    NoReference = NoReference
    Settlers = {s1, s2}
    MaxRevisions = 2
    MaxCrashes = 1
    None = None
SPECIFICATION Spec
SYMMETRY MCSymmetry
PROPERTY RestoreLiftsTheBan
CHECK_DEADLOCK FALSE
