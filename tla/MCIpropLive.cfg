SPECIFICATION FairSpec
CONSTANTS
  Setups <- KlmdbOne
  Entries = 2
  MaxSno = 4
  NoUpdate = NoUpdate
  Keys = {k1, k2}
  k1 = k1
  k2 = k2
  a1 = a1
  a2 = a2
  t1 = t1
  t2 = t2
  Attrs = {a1}
  NoEntry = NoEntry
  NoFile = NoFile
  Tasks = {t1}
  MaxVer <- Writes
  MaxFaults = 1
  RepStamp = 99
INVARIANT SyncedIsEqual
CHECK_DEADLOCK FALSE
PROPERTY CatchesUp
