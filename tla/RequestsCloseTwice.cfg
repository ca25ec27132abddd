\* A request that ends normally: on_request_close at the fin and again at stream close.
CONSTANTS
    Users = {u1, u2}
    NoUser = NoUser
    BidiIds <- MCBidiIds
    MaxOpenRequests = 2
    PackLimit = 2
    HdrLen = 1
    DataLens <- MCDataLens
    SubmitFinal = FALSE
    FeedAfterFinal = FALSE
    MaxOps = 7
SPECIFICATION Spec
INVARIANT
    CloseAtMostOnce
CHECK_DEADLOCK FALSE
