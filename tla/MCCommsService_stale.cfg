\* One request and its retries while reads lag behind and SQS redelivers.
SPECIFICATION ServiceSpec
CONSTANTS
  m1 = m1  u1 = u1  u2 = u2  u3 = u3  ahwp = ahwp
  p1 = p1  r1 = r1  None = None
  Uuids = {m1, u1, u2, u3}
  Sources = {ahwp}
  Requests <- OneRequest
  Tracked <- NothingTracked
  RetryDelay = 1
  TemporaryFailureTimeout = 2
  MaxSqsDelay = 1
  Faults = {"lag", "redelivery"}
  UniqueIndex = TRUE
  Processes = {p1}
  Runs = {r1}
  MaxTime = 1
  MaxEvents = 3
  MaxTechnical = 0
  BatchSize = 1
SYMMETRY FreshIdSymmetry
INVARIANTS
  OneLiveEmailPerRequest
  OneOutcomeTold
PROPERTIES
  FinishedIsFinal
  RefinesLifecycle
