\* Units of five seconds: a heartbeat every 10 s, a limit of 35 s.
CONSTANTS
  Conn = {c1, c2}
  Uid = {u1, u2}
  None = none
  MaxFrames = 2
  Period = 2
  Limit = 7
SPECIFICATION Spec
INVARIANTS TypeOK TablesFollowConnections SilentAreClosed
