CONSTANTS
  f1 = f1
  f2 = f2
  x1 = x1
  x2 = x2
  Path = {f1, f2}
  Content = {x1, x2}
  NoFile = NoFile
  Reparser = Reparser
  w1 = w1
  w2 = w2
  Walker = {w1, w2, Reparser}
  Watcher = Watcher
  Nobody = Nobody
  First <- MCFirst
  MaxEdits = 1
  MaxRoots = 2
  MaxWalks = 2
  Budget <- MCEach
  MaxFaults = 1
  b1 = b1
  b2 = b2
  t1 = t1
  Blob = {b1, b2}
  Text = {t1}
  Carries <- MCCarries
  Marked = {t1}
  FirstHeld = {b1}
  Workers = 1
  MaxVersion = 2
  VectorSweep = 1
  SummarySweep = 1
  Budgets <- MCBudgets
SPECIFICATION MCSpec
INVARIANTS ContentTypeOK StaleIsNoticed MappedIsParsed NothingStranded
PROPERTIES IndexConverges GarbageGoes
CHECK_DEADLOCK FALSE
