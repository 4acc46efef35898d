SPECIFICATION FairSpec
CONSTANTS
  t1 = t1
  t2 = t2
  NPaths = 3
  Table <- MCTable
  TableOf <- MCTableOf
  Settings <- Setting
INVARIANTS CycleAccounted StoredPerKey OnceStatus GracefulExitComplete
PROPERTIES ExitsAfterSignal KeepsPolling
