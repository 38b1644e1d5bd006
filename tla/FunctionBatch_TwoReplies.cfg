SPECIFICATION Spec
CONSTANTS
    m1 = m1
    m2 = m2
    w1 = w1
    w2 = w2
    Message = {m1}
    Worker = {w1, w2}
    Proposal <- ReadAndRecord
    Legacy = {}
    UpdateAccepted = FALSE
    MaxFailures = 0
    MaxClock = 6
INVARIANTS
    OneReply
