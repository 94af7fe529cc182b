SPECIFICATION MCSpec
CONSTANTS
  Chords = {"AltSpace", "CtrlSpace", "F12"}
  Bad = {"F12"}
  Defaults <- MCDefaults
  MaxEdits = 3
  MaxOpens = 2
  MaxFails = 1
  MaxTakes = 1
  MaxQueue = 2
  MaxConnections = 2
  MaxAsked = 3
  FetchBatch = 3
  MaxHits = 4
  MaxRows = 4
INVARIANTS
  HotkeyHonest
  ChoicesAreKept
  ConsentHolds
  TrayIsHonest
  FallbackIsHonest
CHECK_DEADLOCK FALSE
