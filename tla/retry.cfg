SPECIFICATION FairSpec
CONSTANTS
    Jobs = {j1, j2, j3}
    Drainers = {d1, d2}
    QueueCapacity = 2
    MaxAttempts = 2
INVARIANTS TypeOK Custody RetriesAreBounded
PROPERTIES LossNeedsOverflow DrainReturns
