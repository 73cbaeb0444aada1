CONSTANTS
    Jobs <- TokenJobs
    Tokens = {t1}
    MemberBound = {}
    Requests = {r1, r2}
    MaxKeys = 1
    NoKey = NoKey
    AliasesUnique = TRUE
    MaxSweeps = 1
    Workers = {w1}
    MaxAttempts = 1
    BatchLimit = 2
    Stalls = FALSE
SPECIFICATION Spec
SYMMETRY MCSymmetry
VIEW MCView
PROPERTY CleanUpSparesActiveTokens
