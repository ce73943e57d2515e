SPECIFICATION MCSpec
CONSTANTS
  Threads = {t1, t2}
  None = None
  Addrs <- MCOneAddr
  Bytes = {0}
  WaitCycles = 2
PROPERTIES
  SeenReadyIsSuccess
