CONSTANTS
    LastDay = 3
    Lookback = 3
    Amounts = {1}
    Spends = {0, 2}
    OperatorKeys = {k1, k2}
    References = {r1}
    NoReference = NoReference
    Settlers = {s1, s2}
    MaxRevisions = 2
    MaxCrashes = 1
    None = None
SPECIFICATION FairSpec
INVARIANTS
    TypeOK
    AccountIdentity
    SettledDaysAreCharged
    NothingBilledBeforeCredit
    ReferenceUsedOnce
    ProjectionIsCurrent
    IneligibleIsSwept
PROPERTIES
    SettlementConverges
    ImplementsEligibility
CHECK_DEADLOCK FALSE
