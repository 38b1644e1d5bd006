SPECIFICATION Spec
CONSTANTS
    m1 = m1
    m2 = m2
    w1 = w1
    w2 = w2
    Message = {m1, m2}
    Worker = {w1, w2}
    Proposal <- UpdateProposals
    Legacy = {m1}
    UpdateAccepted = TRUE
    MaxFailures = 1
    MaxClock = 6
INVARIANTS
    OneWritePerCall
    AllOrNothing
    UpdatesHitRows
    AskedMeansPending
SYMMETRY Symmetry
