CONSTANTS
  Hwirqs <- MCHwirqs
  LogEps <- MCLogEps
  DeviceEps <- MCDeviceEps
  QLen = 64
  NBufs = 1
  Irq = 7
  Wired = TRUE
  GuestStartAck = "0x86"
  MaxRecvs = 0
SPECIFICATION FairSpec
PROPERTY StartIsAcknowledged
CHECK_DEADLOCK FALSE
