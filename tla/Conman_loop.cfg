SPECIFICATION FairSpec
CONSTANTS
  Faulty = FALSE
  Bands <- OneBand
  Command = {c1}
  SsidOf <- SameSsid
  Bss = {bss1}
  Retry = 1
  Patience = 2
  UpdatePeriod = 1
  Restarts = FALSE
  MaxEvents = 1
INVARIANTS FailedNetworkDropped
PROPERTIES BadNetworkForgotten WlanRetried
