SPECIFICATION Spec
CONSTANTS
    m1 = m1
    m2 = m2
    w1 = w1
    w2 = w2
    Message = {m1}
    Worker = {w1, w2}
    Proposal <- JustRecord
    Legacy = {m1}
    UpdateAccepted = FALSE
    MaxFailures = 2
    MaxClock = 6
INVARIANTS
    OneRecordingPerDelivery
