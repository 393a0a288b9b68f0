CONSTANTS
  Conn = {c1, c2}
  None = none
  MaxEvents = 2
  Idle = 2
  MaxWait = 2
  BufMax = 2
  MaxBytes = 1
  WireMax = 1
  MaxLate = 0
SPECIFICATION InterruptedSpec
PROPERTIES ExpiryEnds
