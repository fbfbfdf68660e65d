\* Notify answers sendEmail with a 5xx error.
SPECIFICATION RequestSpec
CONSTANTS
  m1 = m1  u1 = u1  u2 = u2  ahwp = ahwp
  None = None  p1 = p1  p2 = p2
  Uuids = {m1, u1}
  Sources = {ahwp}
  Requests <- OneRequest
  RetryDelay = 1
  TemporaryFailureTimeout = 3
  MaxSqsDelay = 1
  Faults = {}
  UniqueIndex = TRUE
  Processes = {p1}
  MaxTime = 1
  MaxEvents = 4
  MaxTechnical = 1
  BatchSize = 1
INVARIANTS
  RetryHasId
