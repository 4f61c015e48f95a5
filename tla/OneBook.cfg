CONSTANTS
  Requests = {1}
  Work <- OwnWork
  MaxAttempts = 1
  MaxDockFiles = 2
  Releases = {h1}
  NoRelease = none
  Handlers = {t1, t2}
  ImportWorkers = {w}
  Operations = {"automate", "lost_add", "grab", "monitor", "watchdog", "client",
    "client_fails", "import", "collide", "verify", "discard", "decide", "cancel",
    "stop", "dock", "restart"}
SPECIFICATION Spec
SYMMETRY Symmetry
CHECK_DEADLOCK FALSE
INVARIANTS OneBookPerAttempt AvailableIsFiled
