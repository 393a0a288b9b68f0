\* Two connections on at most two descriptors, and one client more.
CONSTANTS
  Conn = {c1, c2}
  Clients = 3
  Fds = {f1, f2}
  Base = base
  IoLoops = {io}
  Accept = accept
  None = none
SPECIFICATION Spec
INVARIANTS TypeOK ReachedConnectionsExist OneTeardown
PROPERTIES ClosedIsDestroyed
