SPECIFICATION FairSpec
CONSTANTS
  Rates = {1, 2}
  ClientRate = 1
  MaxId = 4
  MaxInFlight = 2
  MaxEchoes = 2
  MaxFaults = 2
  MaxStrays = 1
INVARIANTS Inv SameRate LossNotOverstated
PROPERTY Reconnects
CHECK_DEADLOCK FALSE
