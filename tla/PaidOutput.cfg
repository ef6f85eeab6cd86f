CONSTANTS
  b1 = b1
  b2 = b2
  t1 = t1
  Blob = {b1, b2}
  Text = {t1}
  Carries <- MCCarries
  Marked = {t1}
  FirstHeld = {b1}
  Workers = 1
  MaxVersion = 2
  VectorSweep = 1
  SummarySweep = 1
  Budgets <- MCOneChange
SPECIFICATION EnrichmentSpec
PROPERTIES PaidOutputSurvives
CHECK_DEADLOCK FALSE
