\* Two pushes with one push stream open at a time, a promise refused at
\* max_push_promise, and a client reading the frames in the order written.
\* Server and client share NGHQ_MULTICAST_MAX_UNI_STREAM_ID as their
\* max_push_promise (src/lib/nghq.c:245).
CONSTANTS
    Users = {u1, u2}
    NoUser = NoUser
    UniIds <- MCUniIds
    MaxPushPromise = 3
    ClientMaxPush = 3
    MaxOpenPushes = 1
    CrossStreamReorder = FALSE
    MaxOps = 12
SYMMETRY MCSymmetry
SPECIFICATION SessionSpec
INVARIANTS
    SessionTypeOK
    PromiseFulfilledOnce
    ClientToldOnce
    ClientPromiseFirst
CHECK_DEADLOCK FALSE
