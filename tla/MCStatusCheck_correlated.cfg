\* A request correlated with a workflow of its publisher fails.
SPECIFICATION StatusSpec
CONSTANTS
  a = a  u1 = u1  u2 = u2  flow = flow  ahwp = ahwp
  p1 = p1  p2 = p2  r1 = r1  r2 = r2  None = None
  Uuids = {a, u1, flow}
  Sources = {ahwp}
  Requests <- NoRequests
  Tracked <- Correlated
  RetryDelay = 1
  TemporaryFailureTimeout = 2
  MaxSqsDelay = 1
  Faults = {}
  UniqueIndex = TRUE
  Processes = {p1}
  Runs = {r1, r2}
  MaxTime = 1
  MaxEvents = 2
  MaxTechnical = 1
INVARIANTS
  FailureAnswered
