SPECIFICATION FairSpec
CONSTANTS
  N = 3
  Timeout <- ThreeTimeouts
  Touch = {3}
  Mtimes = {1, 2}
  MaxStart = 2
  Late = 0
  MaxTime = 7
INVARIANTS StepsInOrder DoneMeansTouched
PROPERTIES TimeoutIsFinal Settles
