\* A request and an unparseable message while deletes fail and the process ends and is started again.
SPECIFICATION FairLifetimeSpec
CONSTANTS
  m1 = m1  u1 = u1  ahwp = ahwp
  p1 = p1  r1 = r1  None = None
  Uuids = {m1, u1}
  Sources = {ahwp}
  Requests <- WithPoison
  Tracked <- NothingTracked
  RetryDelay = 1
  TemporaryFailureTimeout = 1
  MaxSqsDelay = 1
  Faults = {"sqs"}
  UniqueIndex = TRUE
  Processes = {p1}
  Runs = {r1}
  MaxTime = 0
  MaxEvents = 2
  MaxTechnical = 0
  BatchSize = 2
  MaxReceives = 2
  MaxMishaps = 2
INVARIANTS
  LifetimeTypeOK
  DeadLettersNeedMishaps
PROPERTIES
  KeptAcrossRestarts
  AnsweredForAcrossRestarts
  FollowedUpAcrossRestarts
