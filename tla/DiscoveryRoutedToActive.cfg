SPECIFICATION Spec
CONSTANTS
  p1 = p1
  p2 = p2
  Peers = {p1, p2}
  Self = self
  MaxManagers = 2
  MaxLaunched = 1
  MaxPending = 2
SYMMETRY Symmetry
PROPERTY RoutedToActive
