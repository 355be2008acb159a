CONSTANTS
  Hwirqs <- MCHwirqs
  LogEps <- MCLogEps
  DeviceEps <- MCDeviceEps
  QLen = 64
  NBufs = 1
  Irq = 7
  Wired = TRUE
  GuestStartAck = "0xa4"
  MaxRecvs = 1
SPECIFICATION Spec
INVARIANT RecvReadsOwnRing
CHECK_DEADLOCK FALSE
