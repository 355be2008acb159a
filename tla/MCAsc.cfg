CONSTANTS
  Hwirqs <- MCHwirqs
  Mailboxes <- MCMailboxes
  Ans <- MCAns
  HwirqOf <- MCHwirqOf
  QSize = 2
  MaxPings = 2
SPECIFICATION FairSpec
INVARIANT TypeOK
INVARIANT NoLostInterrupt
INVARIANT RunningSaidHello
PROPERTY BothHandshakesFinish
