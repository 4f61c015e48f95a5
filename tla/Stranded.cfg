CONSTANTS
  Requests = {1}
  Work <- OwnWork
  MaxAttempts = 1
  MaxDockFiles = 2
  Releases = {h1}
  NoRelease = none
  Handlers = {t1, t2}
  ImportWorkers = {w}
  Operations = {"automate", "grab", "monitor", "client", "client_fails", "import",
    "collide", "verify", "discard", "decide", "cancel", "fulfil", "remove", "abandon", "shutdown"}
SPECIFICATION Spec
SYMMETRY Symmetry
CHECK_DEADLOCK FALSE
INVARIANTS NoRequestIsStranded DockFilesAreOwned
