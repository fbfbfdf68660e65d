\* Both scripts over several pages while emails are sent and delivered and calls fail.
SPECIFICATION Spec
CONSTANTS
  a = a  b = b  t1 = t1  t2 = t2  None = None
  PageSize = 2
  DayLength = 1
  UtcOffset = 0
  FromDay = 1
  ToDay = 1
  Status = "sending"
  Template = t1
  References <- TwoReferences
  Names = {a, b}
  Emails <- SomeEmails
  MaxTime = 2
  MaxList = 4
CHECK_DEADLOCK FALSE
INVARIANTS
  SearchComplete
  SearchSound
  ReferencesReported
PROPERTIES
  SearchEnds
