CONSTANTS
  Requests = {1}
  Work <- OwnWork
  MaxAttempts = 1
  MaxDockFiles = 1
  Releases = {h1}
  NoRelease = none
  Handlers = {t1, t2}
  ImportWorkers = {w}
  Operations = {"grab", "lost_add", "monitor", "watchdog", "client", "client_fails",
    "import", "collide", "choose", "verify", "refetch", "force_file", "discard",
    "decide", "cancel", "fulfil", "fulfil_gone", "stop", "remove", "dock", "restart"}
SPECIFICATION Spec
SYMMETRY Symmetry
CHECK_DEADLOCK FALSE
INVARIANTS TypeOK OneImportPerAttempt ImportedIsFiled
PROPERTIES DecisionsStand SettledAttemptsAreNotRevived
