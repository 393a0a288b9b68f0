\* Two threads and the loop's own user code, each with one call; the proofs
\* cover the safety properties for any number of both.
CONSTANTS
  Threads = {t1, t2}
  Self = self
  MaxCalls = 1
SPECIFICATION Spec
INVARIANTS TypeOK NoLostWakeup
PROPERTIES ImplementsTaskQueue RequestsAreServed
\* loop() returns after quit() and the threads run out of calls
CHECK_DEADLOCK FALSE
