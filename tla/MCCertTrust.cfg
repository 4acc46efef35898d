SPECIFICATION FairSpec
CONSTANTS
  c1 = c1
  c2 = c2
  c3 = c3
  Cert <- MCCert
  Verifiable <- MCExpired
  CaFiles <- MCBoth
  InitialFiles <- MCAnyFile
  ReadMayFail = TRUE
  MaxRotations = 3
  MaxCrashes <- MCTwoCrashes
  MaxEdits = 1
  MaxUnread = 1
  MaxStrikes = 4
INVARIANTS StrikesBounded
PROPERTIES FileIntact RepinHasCause Recovers
