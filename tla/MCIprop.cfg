SPECIFICATION Spec
CONSTANTS
  Setups <- FileAndKlmdb
  Entries = 2
  MaxSno = 4
  NoUpdate = NoUpdate
  Keys = {k1, k2}
  k1 = k1
  k2 = k2
  a1 = a1
  a2 = a2
  t1 = t1
  t2 = t2
  Attrs = {a1}
  NoEntry = NoEntry
  NoFile = NoFile
  Tasks = {t1, t2}
  MaxVer <- Writes
  MaxFaults = 1
  RepStamp = 99
INVARIANTS RingConsecutive SyncedIsEqual
CHECK_DEADLOCK FALSE
