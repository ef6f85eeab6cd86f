CONSTANTS
  f1 = f1
  f2 = f2
  x1 = x1
  x2 = x2
  Path = {f1, f2}
  Content = {x1, x2}
  NoFile = NoFile
  Reparser = Reparser
  w1 = w1
  w2 = w2
  Walker = {w1, Reparser}
  Watcher = Watcher
  Nobody = Nobody
  First <- MCFirst
  MaxEdits = 1
  MaxRoots = 2
  MaxWalks = 2
  Budget <- MCNone
  MaxFaults = 1
SPECIFICATION IndexSpec
INVARIANTS TreeIsItsBlob
CHECK_DEADLOCK FALSE
