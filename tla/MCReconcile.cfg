SPECIFICATION FairSpec
CONSTANTS
  None = None
  This = 2
  Indices = {2, 3}
  a4 = a4
  b4 = b4
  a6 = a6
  ll = ll
  gw = gw
  r1 = r1
  r2 = r2
  default4 = default4
  default6 = default6
  V4 <- MCV4
  V6 <- MCV6
  LinkLocals <- MCLinkLocals
  Prefixes <- MCPrefixes
  LinkLocalPrefix = 64
  Gateways <- MCGateways
  OnLink <- MCOnLink
  Destinations <- MCDestinations
  Default4 = default4
  Default6 = default6
  Desireds <- MCDesireds
  ForeignAddresses <- MCForeignAddresses
  ForeignRoutes <- MCForeignRoutes
  Mtus = {1500}
  MAX_PASSES = 4
  MAX_DISTURBANCES = 2
INVARIANTS
  NothingForeignPlanned
  FullPassSettles
  IdleMeansConverged
PROPERTIES
  Quiesces
  StandingAddressesKept
CHECK_DEADLOCK FALSE
