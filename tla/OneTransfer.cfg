CONSTANTS
  Requests = {1}
  Work <- OwnWork
  MaxAttempts = 3
  MaxDockFiles = 1
  Releases = {h1, h2}
  NoRelease = none
  Handlers = {t1, t2}
  ImportWorkers = {w}
  Operations = {"grab", "automate", "abandon", "adopt", "monitor", "client", "decide",
    "cancel", "fulfil"}
SPECIFICATION Spec
SYMMETRY Symmetry
CHECK_DEADLOCK FALSE
INVARIANTS OneTransferPerRequest LiveTransferIsShown
PROPERTIES AbandonmentSparesTransfers
