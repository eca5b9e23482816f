SPECIFICATION MapSpec
CONSTANTS
  k1 = k1
  k2 = k2
  k3 = k3
  k4 = k4
  o1 = o1
  o2 = o2
  Keys <- FourKeys
  Octants <- TwoOctants
  Capacity = 3
  MaxPoints = 2
  MaxCloud = 2
  MaxTouches = 7
  Maps <- MapsAround
  Queries = {0, 5}
SYMMETRY Symmetry
INVARIANTS GridMatchesList RecentVoxelsKept SearchFindsNearest
CHECK_DEADLOCK FALSE
