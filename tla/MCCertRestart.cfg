SPECIFICATION FairSpec
CONSTANTS
  c1 = c1
  c2 = c2
  c3 = c3
  Cert <- MCCert
  Verifiable <- MCCert
  CaFiles <- MCWithFile
  InitialFiles <- MCNoFile
  ReadMayFail = FALSE
  MaxRotations = 1
  MaxCrashes <- MCNoCrash
  MaxEdits = 0
  MaxUnread = 1
  MaxStrikes = 4
PROPERTY RestartRecovers
