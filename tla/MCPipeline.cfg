CONSTANTS
    t1 = t1
    t2 = t2
    w1 = w1
    w2 = w2
    r1 = r1
    r2 = r2
    Tasks = {t1, t2}
    Breakdown = {t1}
    Workers = {w1, w2}
    Requests = {r1, r2}
    MaxMessages = 2
    None = None
    Situations <- Settling
SPECIFICATION FairSpec
INVARIANTS
    OneExecutionPerTask
    AckedHasVerdict
    AckedApprovalIsComplete
    ApprovalIsAudited
    PublishedIsApproved
PROPERTIES
    CanonicalAdvances
    MessageSettles
CHECK_DEADLOCK FALSE
