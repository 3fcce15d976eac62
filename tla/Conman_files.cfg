SPECIFICATION Spec
CONSTANTS
  Faulty = TRUE
  Bands <- OneBand
  Command = {c1, c2}
  SsidOf <- SameSsid
  Bss = {}
  Retry = 1
  Patience = 0
  UpdatePeriod = 2
  Restarts = TRUE
  MaxEvents = 3
INVARIANTS Inv WantedAPRuns
