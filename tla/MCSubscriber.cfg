SPECIFICATION FairSpec
CONSTANTS
  Entry = {e1, e2}
  t1 = t1
  t2 = t2
  Table <- MCTable
  NPaths = 3
  TableOf <- MCTableOf
  BatchSize = 2
  InitialDelay = 2
  MaxDelay = 5
  TLSEnabled = TRUE
INVARIANTS OnePlace BatchBounded QuiescentReturn EarlyEntriesFlushed IdleReturnFlushesAll BackoffExponential
PROPERTIES LedgerSpec ShutdownCompletes EntrySettles KeepsConnecting
