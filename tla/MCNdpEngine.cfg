SPECIFICATION FairSpec
CONSTANTS
  None = None
  Forever = Forever
  Stable = Stable
  p1 = p1
  i1 = i1
  i2 = i2
  i3 = i3
  d1 = d1
  Routers = {1, 2}
  Prefixes = {p1}
  Resolvers = {d1}
  Mtus = {1280}
  Iids = {i1, i2, i3}
  Adverts <- MCAdverts
  SOLICIT_INTERVAL = 1
  SOLICITS_BEFORE_BACKOFF = 2
  MAX_SOLICIT_INTERVAL = 2
  TWO_HOURS = 2
  TEMP_PREFERRED = 2
  TEMP_VALID = 3
  MAX_DESYNC = 1
  MAX_TEMPS = 2
INVARIANTS
  NothingMissed
  OneFreshTemporary
PROPERTIES
  TwoHourRule
  KeepsAsking
