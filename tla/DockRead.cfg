CONSTANTS
  Files = {f, m}
  Units = {}
  Managed = {m}
  NoFile = none
  Callers = {c}
  Operations = {"pause", "restart", "import", "discard", "upload"}
SPECIFICATION FairSpec
CHECK_DEADLOCK FALSE
PROPERTIES EveryFileIsRead
