\* Without faults every request is settled.
SPECIFICATION FairServiceSpec
CONSTANTS
  m1 = m1  u1 = u1  u2 = u2  u3 = u3  ahwp = ahwp
  p1 = p1  r1 = r1  None = None
  Uuids = {m1, u1, u2, u3}
  Sources = {ahwp}
  Requests <- OneRequest
  Tracked <- NothingTracked
  RetryDelay = 1
  TemporaryFailureTimeout = 2
  MaxSqsDelay = 1
  Faults = {}
  UniqueIndex = TRUE
  Processes = {p1}
  Runs = {r1}
  MaxTime = 0
  MaxEvents = 4
  MaxTechnical = 1
  BatchSize = 1
PROPERTIES
  EveryRequestSettled
