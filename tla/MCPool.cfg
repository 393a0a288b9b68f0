\* Two IO threads, and everybody who may quit a loop.
CONSTANTS
  NumThreads = 2
  MaxTurns = 2
  Quitters = {"owner", "loop"}
SPECIFICATION PoolSpec
INVARIANTS PoolTypeOK CalledLoopsExist
PROPERTIES OwnerReturns
\* the pool is gone at the end
CHECK_DEADLOCK FALSE
