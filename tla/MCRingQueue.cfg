CONSTANTS
  m1 = m1
  m2 = m2
  m3 = m3
  Zero = Zero
  Messages <- MCMessages
  Size = 3
SPECIFICATION Spec
INVARIANT TypeOK
PROPERTY RingIsFifo
