SPECIFICATION Spec
CONSTANTS
  MaxTimers = 2
  MaxClock = 4
  MaxDelay = 2
  Interval = 2
  MaxShift = 1
INVARIANTS TypeOK TimerfdArmed NoTimerLost
PROPERTIES RunsInOrder DueTimerRuns
