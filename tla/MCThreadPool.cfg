SPECIFICATION Spec
CONSTANTS
  Adder = {p1, p2}
  MaxTasks = 1
  MinThreads = 1
  MaxThreads = 3
  QueueMax = 1
  MinWait = 1
  Vary = 1
INVARIANTS TypeOK
PROPERTIES TaskRuns CallersReturn
