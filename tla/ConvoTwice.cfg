CONSTANTS
  native = native
  seat = seat
  Address = {native, seat}
  Polled = native
  Nobody = Nobody
  NoCursor = NoCursor
  NoStamp = NoStamp
  MaxRecords = 2
  MaxFiles = 2
  Budget <- MCErrorOnly
  MaxFaults = 1
  SweepLimit = 1
SPECIFICATION Spec
INVARIANTS StoredOnce
CHECK_DEADLOCK FALSE
