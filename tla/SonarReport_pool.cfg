\* Up to three accepted issues on pages of two, looked up by two workers.
SPECIFICATION Spec
CONSTANTS
  Killed = Killed
  ScanCodes = {0, 1}
  PageSize = 2
  Concurrency = 2
  MaxIssues = 3
CHECK_DEADLOCK FALSE
INVARIANTS
  FlaggedExactly
  ExitTellsWhatWasRead
