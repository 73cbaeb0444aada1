CONSTANTS
    Jobs <- TokenJobs
    Tokens = {t1}
    MemberBound = {}
    Requests = {r1}
    MaxKeys = 1
    NoKey = NoKey
    AliasesUnique = FALSE
    MaxSweeps = 1
    Workers = {w1}
    MaxAttempts = 2
    BatchLimit = 1
    Stalls = FALSE
SPECIFICATION FairSpec
VIEW MCView
INVARIANT LiveTokensAreQueued
PROPERTIES RevokedIsFinal RevocationIsDelivered
