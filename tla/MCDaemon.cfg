SPECIFICATION Spec
CONSTANTS
  None = None
  Ignore = Ignore
  Down = Down
  Tie = Tie
  Broken = Broken
  home = home
  office = office
  net_home = net_home
  net_office = net_office
  ra_office = ra_office
  a1 = a1
  a2 = a2
  b1 = b1
  trusted = trusted
  unlabelled = unlabelled
  roam = roam
  desk = desk
  Static = Static
  LinkLocal4 = LinkLocal4
  Slaac = Slaac
  Networks4 = {net_home, net_office}
  Networks6 = {ra_office}
  Labels = {trusted, unlabelled}
  ProfileNames = {roam, desk}
  Leasable = {a1, a2, b1}
  Lans = {home, office}
  LeasesOf <- MCLeasesOf
  RouterOf <- MCRouterOf
  Asks6 = {office}
  Policies <- MCPolicies
  StartPolicies <- MCPolicies
  StartLabels <- MCLabels
  SocketsFail = TRUE
  MAX_PASSES = 4
  MAX_INDEX = 2
  MAX_DISTURBANCES = 2
INVARIANTS
  HeldIsTheClients
  ClientsBelong
  AsleepMeansSettled
  NetworkIsHere
PROPERTIES
  LeasedAddressKept
CHECK_DEADLOCK FALSE
