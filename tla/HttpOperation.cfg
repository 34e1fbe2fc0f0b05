\* Three reads under a small budget and a deadline.
SPECIFICATION OperationFairSpec
CONSTANTS
    t1 = t1  t2 = t2  t3 = t3
    Task = {t1, t2, t3}
    MaxRequests = 3
    MaxBytes = 2
    Sizes = {1, 2}
    Attempts = 2
    Redirects = 1
    HasDeadline = TRUE
INVARIANTS WithinLimits OutcomeSaysWhy
PROPERTIES SilentOnceClosed OperationEnds
CHECK_DEADLOCK FALSE
