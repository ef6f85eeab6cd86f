CONSTANTS
  File <- MCMain
  Later = {}
  Bare = {}
  Cold = {}
  Wordless = {}
  Mislaid = {}
  Nothing = Nothing
  Found = Found
  Cap = 1
  StallPasses = 2
  Changes = {"line"}
  MaxWrites = 1
  MaxIds = 2
  MishapBudget <- MCJobFault
  MaxMishaps = 1
SPECIFICATION PollerSpec
INVARIANTS FailureIsOfItsRevision
CHECK_DEADLOCK FALSE
