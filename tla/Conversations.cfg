CONSTANTS
  native = native
  seat = seat
  Address = {native, seat}
  Polled = native
  Nobody = Nobody
  NoCursor = NoCursor
  NoStamp = NoStamp
  MaxRecords = 2
  MaxFiles = 2
  Budget <- MCAnyFault
  MaxFaults = 1
  SweepLimit = 1
  File <- MCTwoMains
  Later = {}
  Bare = {}
  Cold <- MCOld
  Wordless = {}
  Mislaid = {2}
  Cap = 1
  StallPasses = 3
  Changes = {"line"}
  MaxWrites = 1
  MaxIds = 3
  MishapBudget <- MCPassOrRetry
  MaxMishaps = 1
  Nothing = Nothing
  Found = Found
SPECIFICATION MCSpec
INVARIANTS InOrderOnce CursorTrails LedgerTrue EnrichedAtRest BacklogHasItsTurn
PROPERTIES DoneMeansRead DeltaArrives StallIsEarned EveryFileSettles
CHECK_DEADLOCK FALSE
