CONSTANTS
  Conn = {c1, c2, c3}
  None = none
  MaxEvents = 2
  Idle = 2
  MaxWait = 2
  BufMax = 2
  MaxBytes = 2
  WireMax = 1
  MaxLate = 1
SPECIFICATION ReactorSpec
SYMMETRY ClientSymmetry
INVARIANTS ReactorTypeOK SlotsAgree WakesForTimers EchoInOrder
PROPERTIES IdleAreClosed
