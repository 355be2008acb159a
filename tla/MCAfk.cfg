CONSTANTS
  Hwirqs <- MCHwirqs
  LogEps <- MCLogEps
  DeviceEps <- MCDeviceEps
  QLen = 4
  NBufs = 1
  Irq = 7
  Wired = TRUE
  GuestStartAck = "0xa4"
  MaxRecvs = 2
SPECIFICATION FairSpec
INVARIANT TypeOK
INVARIANT HandshakeInOrder
INVARIANT UpHasBuffer
PROPERTY OpenedComesUp
CHECK_DEADLOCK FALSE
