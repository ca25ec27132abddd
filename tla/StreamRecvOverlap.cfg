CONSTANTS
    Layout <- LayoutHDD
    Delivery = "overlap"
    FinAlone = FALSE
    MaxSegs = 3
SPECIFICATION Spec
INVARIANT NoUndefinedBehaviour
CHECK_DEADLOCK FALSE
