CONSTANTS
  Hwirqs <- MCHwirqs
  Mailboxes <- MCMailboxes
  Ans <- MCAns
  HwirqOf <- MCHwirqOf
  QSize = 2
  MaxPings = 0
SPECIFICATION Spec
INVARIANT DcpOffersDisplay
