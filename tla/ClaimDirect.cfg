CONSTANTS
  MaxAttempts = 2
  MaxFiles = 3
  Transfers = {x}
  NoTransfer = none
  Size <- Sizes
  Operations = {"disk_fails", "same_again"}
SPECIFICATION Spec
CHECK_DEADLOCK FALSE
INVARIANTS BooksAreOfOnePiece
