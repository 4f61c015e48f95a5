CONSTANTS
  Users = {asker, u1, u2}
  NoUser = nobody
  SelfFulfillers = {u1, u2}
  AutoApproved = {}
  Descriptions <- TwoDescriptions
  MaxRequests = 2
  MaxSubmissions = 3
  MaxLive = 1
  InsertAttempts = 2
  Handlers = {t1, t2}
  Operations = {"decide", "work", "revive", "remove"}
SPECIFICATION Spec
SYMMETRY Symmetry
CHECK_DEADLOCK FALSE
INVARIANTS TypeOK SelfServeCap ConflictsAreExplained FulfillersFollow RemovalStopsNothingLive
PROPERTIES TakenOnOnce
