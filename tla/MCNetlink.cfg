SPECIFICATION Spec
CONSTANTS
  None = None
  Universe <- MCUniverse
  Requests <- MCRequests
  SEQ_MAX = 4
  EventBuffer = 1
  MAX_PASSES = 2
  MAX_FAULTS = 2
INVARIANTS
  NeverStuck
  AsleepMeansSeen
  ReadBack
PROPERTIES
  AnswersAreOwn
