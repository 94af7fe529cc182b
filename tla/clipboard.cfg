SPECIFICATION MCSpec
CONSTANTS
  t1 = t1
  t2 = t2
  none = none
  Texts <- MCTexts
  NoText = none
  TextNo <- MCTextNo
  IndexEntries = 1
  MaxEntries = 2
  Retention = 2
  MaxClock = 3
  MaxRows = 3
  MaxIncidents = 1
INVARIANTS
  HalvesAgree
  ListedIsPastable
  ClearedStaysCleared
  StaleIdIsSafe
