SPECIFICATION FairSpec
CONSTANT NR_KEYS = 2
INVARIANTS ReportedOnce ReleaseIsKept
PROPERTY HeldIsReported
