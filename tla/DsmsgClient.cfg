CONSTANTS
  MaxSent = 7
  MaxQueue = 2
  Signals = {1, 2}
SPECIFICATION FairSpec
INVARIANTS
  OwnAnswer
  RestsBetweenTools
  SignalsAgree
PROPERTY QuietToolsReturn
CHECK_DEADLOCK FALSE
