CONSTANTS
  Requests = {1, 2}
  Work <- SameWork
  MaxAttempts = 1
  MaxDockFiles = 1
  Releases = {h1}
  NoRelease = none
  Handlers = {t1, t2}
  ImportWorkers = {w}
  Operations = {"grab", "automate", "abandon", "adopt", "monitor", "client",
    "client_fails", "import", "verify", "decide", "cancel"}
SPECIFICATION Spec
SYMMETRY Symmetry
CHECK_DEADLOCK FALSE
INVARIANTS OneClaimPerWork
PROPERTIES ImplementsLifecycle
