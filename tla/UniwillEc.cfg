SPECIFICATION MCSpec
CONSTANTS
  Threads = {t1, t2}
  None = None
  Addrs <- MCAddrs
  Bytes = {0, 1}
  WaitCycles = 2
INVARIANTS
  TypeOK
  RequestIsOwners
  QuietWhenUnlocked
PROPERTIES
  RamSpec
  CallsReturn
