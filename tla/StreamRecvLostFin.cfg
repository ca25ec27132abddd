CONSTANTS
    Layout <- LayoutHDT
    Delivery = "inorder"
    FinAlone = TRUE
    MaxSegs = 4
SPECIFICATION Spec
INVARIANT EndOfStreamSignalled
CHECK_DEADLOCK FALSE
