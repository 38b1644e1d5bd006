SPECIFICATION FairSpec
CONSTANTS
    t1 = t1
    t2 = t2
    t3 = t3
    s1 = s1
    s2 = s2
    s3 = s3
    r1 = r1
    r2 = r2
    User = {1, 2}
    Tx = {t1, t2, t3}
    Owner <- MCOwner
    Sheet = {s1, s2, s3}
    Holder <- MCHolder
    Broken = {s1}
    Runner = {r1}
    BatchSize = 2
    MaxEvents = 3
    MaxFailures = 1
    MaxReconfigs = 1
INVARIANTS
    ExportTypeOK
    LeftBehindForAReason
    OneRowPerTransaction
    RowsAreOwnAndCommitted
PROPERTIES
    RowsNeverGoBack
    ProjectionCatchesUp
