SPECIFICATION Spec
CONSTANTS
  Princ = {p1}
  Tools = {t1}
  Threads = {k1}
  MaxKey = 2
  MaxTime = 1
  Backends = {"file", "klmdb"}
CONSTRAINT UpToClash
SYMMETRY Symmetry
INVARIANTS EntriesReadable KeysAgree
CHECK_DEADLOCK FALSE
