CONSTANTS
    Layout <- LayoutHDT
    Delivery = "reorder"
    FinAlone = FALSE
    MaxSegs = 3
SPECIFICATION Spec
PROPERTY RecvReturns
CHECK_DEADLOCK FALSE
