\* The orphaned host timer later runs ngtcp2's handler with nothing due.
CONSTANTS
    MaxTime = 2
    MaxCalls = 1
    MaxSent = 2
    ImmediateFire = FALSE
    McastServer = TRUE
    PnBase = 255
SPECIFICATION SessionSpec
INVARIANT
    TimeoutNotEarly
CHECK_DEADLOCK FALSE
