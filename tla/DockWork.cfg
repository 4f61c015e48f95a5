CONSTANTS
  Files = {u, m}
  Units = {u}
  Managed = {m}
  NoFile = none
  Callers = {c}
  Operations = {"pause", "restart", "import", "retry", "rescan"}
SPECIFICATION Spec
CHECK_DEADLOCK FALSE
INVARIANTS TypeOK QueuesFollow NoFileIsForgotten
