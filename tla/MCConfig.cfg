SPECIFICATION Spec
CONSTANTS
  None = None
  Err = Err
  IpText <- MCIpText
  CidrText <- MCCidrText
  NumberText <- MCNumberText
  JoinText <- MCJoinText
  HexText <- MCHexText
  BadTexts <- MCBadTexts
  U32_MAX = 2000
  Registries <- MCRegistries
  Edits <- MCEdits
  Links = {"eth0"}
  MAX_DEPTH = 2
  MAX_WRITES = 3
  MAX_FAULTS = 1
INVARIANTS
  ConfigIsRegistry
  
  JoinsEnabled
PROPERTIES
  TakenWhole
