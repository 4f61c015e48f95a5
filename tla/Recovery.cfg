CONSTANTS
  Requests = {1}
  Work <- OwnWork
  MaxAttempts = 1
  MaxDockFiles = 2
  Releases = {h1}
  NoRelease = none
  Handlers = {t1, t2}
  ImportWorkers = {w}
  Operations = {"grab", "monitor", "watchdog", "client", "client_fails", "import",
    "verify", "collide", "restart", "shutdown"}
SPECIFICATION FairSpec
CHECK_DEADLOCK FALSE
PROPERTIES FinishedDownloadsAreSettled
