SPECIFICATION Spec
CONSTANTS
    t1 = t1
    t2 = t2
    t3 = t3
    s1 = s1
    s2 = s2
    s3 = s3
    r1 = r1
    r2 = r2
    User = {2}
    Tx = {t2, t3}
    Owner <- MCOwner
    Sheet = {s2, s3}
    Holder <- MCHolder
    Broken = {}
    Runner = {r1}
    BatchSize = 1
    MaxEvents = 3
    MaxFailures = 0
    MaxReconfigs = 0
INVARIANTS
    BehindCursorIsShown
