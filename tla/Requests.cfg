\* A host that follows the API: the fin, the final flag and send_state.
CONSTANTS
    Users = {u1, u2}
    NoUser = NoUser
    BidiIds <- MCBidiIds
    MaxOpenRequests = 2
    PackLimit = 3
    HdrLen = 1
    DataLens <- MCDataLens
    SubmitFinal = TRUE
    FeedAfterFinal = FALSE
    MaxOps = 7
SYMMETRY MCSymmetry
SPECIFICATION Spec
INVARIANTS
    TypeOK
    FinAfterAllData
    FinalHonoured
PROPERTIES
    SendStateMonotone
    StreamsRefined
CHECK_DEADLOCK FALSE
