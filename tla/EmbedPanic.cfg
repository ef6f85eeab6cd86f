CONSTANTS
  wide = wide
  narrow = narrow
  elsewhere = elsewhere
  blank = blank
  garbled = garbled
  g1 = g1
  g2 = g2
  p1 = p1
  Key = {wide, narrow, elsewhere, blank, garbled}
  Payload = {wide, narrow, elsewhere, blank, garbled}
  KindOf <- MCKindOf
  BlankKey = {blank}
  Priority = {0}
  MaxJobs = 2
  Daemon = {d1}
  Nobody = Nobody
  DeadSession = DeadSession
  NoClaim = NoClaim
  Workers = 1
  EmbedClaim = 2
  MaxAttempts = 2
  MaxParks = 1
  MaxBoots = 2
  Item <- MCItem
  Cost <- MCCost
  Unheld = {"e1"}
  ItemsOf <- MCItemsOf
  Unreadable = {garbled}
  Group = {g1, g2}
  GroupOf <- MCGroupOf
  Provider = {p1}
  ProviderOf <- MCProviderOf
  Width <- MCWidth
  TokenBudget = 3
  SoloFromAttempt = 2
  NoBatch = NoBatch
SPECIFICATION PanickySpec
INVARIANTS DoneMeansBought
CHECK_DEADLOCK FALSE
