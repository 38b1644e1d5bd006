SPECIFICATION FairSpec
CONSTANTS
    m1 = m1
    m2 = m2
    m3 = m3
    w1 = w1
    w2 = w2
    shop = shop
    branch = branch
    Message = {m1, m2, m3}
    Worker = {w1, w2}
    Storage = {"postgres", "sheets"}
    Bill = {"lunch", "dinner"}
    Currency = {"SGD", "CNY"}
    Description = {shop, branch}
    Similar <- MCSimilar
    Answer <- MCAnswer
    Sent <- MCSent
    Window = 0
    MaxFailures = 1
    MaxClock = 1
INVARIANTS
    LegacyTypeOK
    RecordedOnce
    OneEffectPerMessage
    AuditChain
PROPERTIES
    MessageAnswered
CHECK_DEADLOCK FALSE
