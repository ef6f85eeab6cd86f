CONSTANTS
  r1 = r1
  d1 = d1
  a1 = a1
  b1 = b1
  c1 = c1
  Dir = {r1, d1}
  Under <- MCUnder
  Root = {r1}
  Window = 2
  MaxAge = 3
  Cadence = 2
  MaxEvents = 3
  MaxUnwatch = 1
  Horizon = 7
  Blob = {b1}
  Search = {a1, c1}
  NoSearch = NoSearch
  MaxXid = 2
  MaxBoots = 1
  Request = {a1, b1}
  Query = {c1}
  Cost = {3}
  Budget = 2
  Ceiling = 2
  Floor = 1
  Recovery = 1
  DefaultPause = 1
  Advice = {2}
  NoAdvice = NoAdvice
  Attempts = 2
  Base = 1
  Cap = 2
  MaxLimits = 4
  MaxQueries = 1
  Paths <- MCPaths
  Identity <- MCOne
  Clone <- MCOne
  Inside <- MCInside
  MaxChanges = 2
  MaxFaults = 1
  MaxFailedPasses = 1
  MaxReboots = 1
  Daemon = d1
  Person = r1
  MaxVersion = 2
  MaxReleases = 1
  MaxTampers = 1
  MaxUpgrades = 1
  MaxCrashes = 1
  MaxMishaps = 2
  Vectors = 2
  Value = {a1, b1}
  NoValue = NoValue
  Batch = 1
  MaxWrites = 2
  MaxAround = 1
  MaxBuilds = 1
  Shape <- MCShape
  BackfillWindow = 2
  MaxTurns = 3
  MaxStored = 3
  MaxTogether = 2
  MaxStumbles = 1
SPECIFICATION MCSpec
INVARIANTS ServicesTypeOK ServedInTime NeverMissing WithinBudget AbsentTwice CompactIsExact ClassedTruly
PROPERTIES NoAdmissionInPause BackgroundGoesOn WorktreesFollowGit KeepsCurrent TellsTruth TurnsSettle
CHECK_DEADLOCK FALSE
