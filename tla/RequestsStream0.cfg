\* The request on stream 0 closes: the next nghq_session_send dereferences a missing stream 0.
CONSTANTS
    Users = {u1, u2}
    NoUser = NoUser
    BidiIds <- MCBidiIds
    MaxOpenRequests = 2
    PackLimit = 2
    HdrLen = 1
    DataLens <- MCDataLens
    SubmitFinal = FALSE
    FeedAfterFinal = FALSE
    MaxOps = 7
SPECIFICATION Spec
INVARIANT
    NoUndefinedBehaviour
CHECK_DEADLOCK FALSE
