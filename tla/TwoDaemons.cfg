CONSTANTS
  scan = scan
  vector = vector
  blank = blank
  Nobody = Nobody
  DeadSession = DeadSession
  NoClaim = NoClaim
  Key = {scan, vector, blank}
  KindOf <- MCKindOf
  BlankKey = {blank}
  Payload = {p1}
  Priority = {0}
  MaxJobs = 2
  Daemon = {d1, d2}
  Workers = 1
  EmbedClaim = 2
  MaxAttempts = 2
  MaxParks = 1
  MaxBoots = 2
SPECIFICATION Spec
SYMMETRY DaemonSymmetry
INVARIANTS TypeOK ClaimExclusive HeldIsRunning LadderBounded
PROPERTIES ImplementsBacklog
CHECK_DEADLOCK FALSE
