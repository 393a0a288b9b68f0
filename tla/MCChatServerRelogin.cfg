\* A user who logs in on a second connection, then leaves the first.
CONSTANTS
  Conn = {c1, c2}
  Uid = {u1}
  None = none
  MaxFrames = 1
  Period = 2
  Limit = 7
SPECIFICATION Spec
INVARIANTS LatestIsOnline
