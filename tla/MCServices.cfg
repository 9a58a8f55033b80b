SPECIFICATION SSpec
CONSTANTS
  Configs <- MCRealms
  MaxPass = 3
  ApConfigs <- MCContexts
  ByteBits = 2
  Skew = 1
  MaxReads = 3
  MaxApClock = 2
  KHosts = {"r1", "r2"}
  HungHosts = {"r2"}
  KRecords <- MCRecords
  KModes = {"standalone"}
  KConns = {1, 2}
  KInodes = {1, 2, 3}
  MaxKFaults = 1
  PolicyMods <- MCPolicy
  AuditMods <- MCAudit
  UdpReqs = {"u"}
  TcpReqs = {"t1", "t2"}
  MaxOpen = 1
  DConfigs <- MCDaemons
  MaxDFaults = 1
  CProcs = {"p", "q"}
  CNames = {"tkt", "c1"}
  CFirst = "tkt"
  CServers = {"s", "t"}
  CEnds = {1, 2}
  CConfigs <- MCCollections
  MaxSerial = 4
  MaxCFaults = 1
  Callers = {"w", "r"}
  Readers = {"r"}
  Connections = {1, 2}
  MaxRetries = 2
  MarkerFinal = TRUE
  MaxTxFaults = 3
INVARIANTS NoAnswerLost ChannelExact ReplicaWhole FailsClosed AuditedOnce NoLostWakeup ListedOnce WholeCache AppliedOnce PoolClean
CHECK_DEADLOCK FALSE
PROPERTIES ExchangeEnds ReplicasRefilled
