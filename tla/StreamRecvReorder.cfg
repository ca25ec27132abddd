CONSTANTS
    Layout <- LayoutHDDT
    Delivery = "reorder"
    FinAlone = FALSE
    MaxSegs = 10
SPECIFICATION Spec
INVARIANT TypeOK
INVARIANT NoUndefinedBehaviour
INVARIANT RecvBufWellFormed
INVARIANT RecvBufContentIntact
INVARIANT CallbacksCarryStreamBytes
INVARIANT NoBodyByteTwice
INVARIANT AllDeliveredOnceReceived
INVARIANT EndOfStreamSignalled
CHECK_DEADLOCK FALSE
