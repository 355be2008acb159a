CONSTANTS
  Hwirqs <- MCHwirqs
  LogEps <- MCLogEps
  DeviceEps <- MCDeviceEps
  QLen = 3
  NBufs = 1
  Irq = 7
  Wired = TRUE
  MaxPings = 2
  AicConfigs = {TRUE, FALSE}
SPECIFICATION FairSpec
INVARIANT TypeOK
INVARIANT NoLostInterrupt
INVARIANT NoTornReceive
INVARIANT HelloExactlyOnce
INVARIANT BuffersRecorded
PROPERTY HandshakeImplemented
PROPERTY HandshakeCompletes
