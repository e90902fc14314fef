CONSTANTS
  m1 = m1
  d1 = d1
  Monitors <- OneMonitor
  Drainers <- OneDrainer
  Limit <- LimitTwo
  MaxEvents = 7
SPECIFICATION FairSpec
CHECK_DEADLOCK FALSE
INVARIANTS StreamIntact SquashBound NoLostWakeup WakeOnce NoOrphanWire
PROPERTIES EventuallyDelivered ImplementsStream
