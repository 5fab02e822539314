SPECIFICATION FairSpec
CONSTANTS
  p1 = p1
  Peers = {p1}
  Self = self
  MaxManagers = 2
  MaxLaunched = 2
  MaxPending = 2
INVARIANT TypeOK
INVARIANT OneBackend
INVARIANT FreshList
INVARIANT ShownIsCurrent
INVARIANT DiscoveryInv
 
 
