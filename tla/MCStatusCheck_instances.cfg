\* One notification on the way, two instances of the service, reads lag behind.
SPECIFICATION FairStatusSpec
CONSTANTS
  a = a  u1 = u1  u2 = u2  flow = flow  ahwp = ahwp
  p1 = p1  p2 = p2  r1 = r1  r2 = r2  None = None
  Uuids = {a, u1}
  Sources = {ahwp}
  Requests <- NoRequests
  Tracked <- OneUnderWay
  RetryDelay = 1
  TemporaryFailureTimeout = 2
  MaxSqsDelay = 1
  Faults = {"lag"}
  UniqueIndex = TRUE
  Processes = {p1, p2}
  Runs = {r1}
  MaxTime = 0
  MaxEvents = 2
  MaxTechnical = 1
PROPERTIES
  OutcomeSettles
