SPECIFICATION Spec
CONSTANTS
  gw1 = gw1
  gw2 = gw2
  net1 = net1
  net2 = net2
  IsBridge = TRUE
  Link = {"ethernet"}
  Station = {node1, node2}
  Subnet = {net1, net2}
  Gateway = {gw1, gw2}
  NetOf <- MCNetOf
  BaseMetric = 10
  Faults = {"refuse", "drop", "list"}
INVARIANTS NoStaleRoutes AutoprovJustified RoutesRepaired
SYMMETRY MCSymmetry
CONSTRAINT MCBound
