SPECIFICATION Spec
CONSTANTS
  x = x
  serial = serial
  v1 = v1
  v2 = v2
  Names <- TwoNames
  Values <- TwoValues
  ReadOnly <- FactoryVars
  Unset = Unset
  Bad = Bad
  None = None
  Faults = {"read", "erase", "write"}
INVARIANTS Inv Redundant
PROPERTY ImplementsSysvarSpec
