\* A multicast server whose host's set_timer may fire at once: the armed
\* timer fires at the tstamp nghq records, and every packet sent is acknowledged to
\* ngtcp2 once, in order.
CONSTANTS
    MaxTime = 2
    MaxCalls = 1
    MaxSent = 2
    ImmediateFire = TRUE
    McastServer = TRUE
    PnBase = 255
SPECIFICATION SessionSpec
INVARIANTS
    SessionTypeOK
    HeldTimerMatchesTstamp
    FakeAcksInSendOrder
CHECK_DEADLOCK FALSE
