SPECIFICATION FairSpec
CONSTANTS
  None = None
  Ignore = Ignore
  Down = Down
  Tie = Tie
  Broken = Broken
  home = home
  office = office
  net_home = net_home
  net_office = net_office
  ra_office = ra_office
  a1 = a1
  a2 = a2
  b1 = b1
  trusted = trusted
  unlabelled = unlabelled
  roam = roam
  desk = desk
  Static = Static
  LinkLocal4 = LinkLocal4
  Slaac = Slaac
  Networks4 = {net_home, net_office}
  Networks6 = {ra_office}
  Labels = {trusted, unlabelled}
  ProfileNames = {roam, desk}
  Leasable = {a1, a2, b1}
  Lans = {home, office}
  LeasesOf <- MCSingleLeasesOf
  RouterOf <- MCRouterOf
  Asks6 = {office}
  Policies <- MCLivePolicies
  StartPolicies <- MCLivePolicies
  StartLabels <- MCLabels
  SocketsFail = FALSE
  MAX_PASSES = 4
  MAX_INDEX = 1
  MAX_DISTURBANCES = 2
PROPERTIES
  StopsSwitching
  EventuallyAddressed
CHECK_DEADLOCK FALSE
