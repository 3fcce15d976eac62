SPECIFICATION CyclerFairSpec
CONSTANTS
  Item <- Observations
  Priority = {1, 2}
  PriorityOf <- PriorityOfObservation
  CycleLength = 1
  MaxGap = 1
  MaxAge = 6
PROPERTIES NoneMeansNoneEligible CycleRespected Served
