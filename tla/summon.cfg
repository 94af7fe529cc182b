SPECIFICATION Spec
CONSTANTS
  Windows = {a, b}
  Views <- MCViews
  Height <- MCHeight
  MaxSummons = 3
  MaxMoves = 2
  MaxQueue = 2
  Areas <- MCAreas
  Dpi <- MCDpi
  Heights = {1, 4, 9}
  LogicalWidth = 7
  Handles <- MCHandles
INVARIANTS
  
  FocusGoesBack
  PasteIsAimed
  SurfaceAgrees
  ShowsWhatWasAsked
CHECK_DEADLOCK FALSE
