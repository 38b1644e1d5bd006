SPECIFICATION Spec
CONSTANTS
    m1 = m1
    m2 = m2
    Message <- MCMessage
    NoMessage = NoMessage
    UserOf <- MCUserOf
    Content <- MCContent
    Said <- MCSaid
    Start <- MCStart
    Quantum = 2
    Runner = {r1, r2}
    Job = {j1, j2}
    Versions = 3
    NeededVersion = 3
    MaxWrites = 1
INVARIANTS
    BackfillTypeOK
    OneRowPerMessage
    CompleteMeansThere
    RefusedForAReason
    SchemaAsRecorded
PROPERTIES
    VerifiedMeansCopied
SYMMETRY MCSymmetry
CHECK_DEADLOCK FALSE
