SPECIFICATION Spec
CONSTANTS
  Entry = {e1, e2}
  t1 = t1
  t2 = t2
  Table <- MCTable
  NPaths = 2
  TableOf <- MCTableOf2
  BatchSize = 2
  InitialDelay = 2
  MaxDelay = 3
  TLSEnabled = TRUE
INVARIANT FinalFlushComplete
