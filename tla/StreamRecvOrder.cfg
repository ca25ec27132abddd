\* Reordered segments: the application sees body bytes out of order and
\* trailers before the body is complete.
CONSTANTS
    Layout <- LayoutHDDT
    Delivery = "reorder"
    FinAlone = FALSE
    MaxSegs = 10
SPECIFICATION Spec
INVARIANT DeliveredInStreamOrder
CHECK_DEADLOCK FALSE
