CONSTANTS
  MaxAttempts = 2
  MaxFiles = 3
  Transfers = {x}
  NoTransfer = none
  Size <- Sizes
  Operations = {"stop", "restart", "source_changes", "import_fails", "disk_fails"}
SPECIFICATION FairSpec
CHECK_DEADLOCK FALSE
INVARIANTS TypeOK BooksAreOfOnePiece NoFetchForNobody
PROPERTIES FinishedFilesStay DownloadsEnd
