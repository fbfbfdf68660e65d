\* A retry on the way: the database, SQS and Notify fail, reads lag, the process crashes.
SPECIFICATION FairStatusSpec
CONSTANTS
  a = a  u1 = u1  u2 = u2  flow = flow  ahwp = ahwp
  p1 = p1  p2 = p2  r1 = r1  r2 = r2  None = None
  Uuids = {a, u1, u2}
  Sources = {ahwp}
  Requests <- NoRequests
  Tracked <- RetryUnderWay
  RetryDelay = 1
  TemporaryFailureTimeout = 3
  MaxSqsDelay = 1
  Faults = {"db", "lag", "sqs", "notify", "crash"}
  UniqueIndex = TRUE
  Processes = {p1}
  Runs = {r1, r2}
  MaxTime = 3
  MaxEvents = 5
  MaxTechnical = 1
INVARIANTS
  StatusTypeOK
  OneRunAtATime
  TruthfulOutcome
  RetryOnlyAfterFailure
  FailureAnswered
PROPERTIES
  ExpiryIsFinal
  MutexReleased
  WindowFromFirstRequest
