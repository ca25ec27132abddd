\* nghq_session_close on a multicast server, after a push or none.
CONSTANTS
    Users = {u1, u2}
    NoUser = NoUser
    UniIds <- MCUniIds
    MaxPushPromise = 3
    ClientMaxPush = 3
    MaxOpenPushes = 1
    CrossStreamReorder = FALSE
    MaxOps = 4
SYMMETRY MCSymmetry
SPECIFICATION SessionSpec
INVARIANT
    NoUndefinedBehaviour
CHECK_DEADLOCK FALSE
