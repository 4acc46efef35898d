SPECIFICATION Spec
CONSTANTS
  Tool = {"client", "library", "lldp", "phyeth"}
  MaxLines = 4
INVARIANTS StatsAddUp ExitTellsTruth TestPredicts
