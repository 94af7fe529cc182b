CONSTANTS
  f1 = f1
  f2 = f2
  f3 = f3
  root = root
  a = a
  ab = ab
  a_a = a_a
  baa = baa
  bad = bad
  Absent = Absent
  Frn <- MCFrn
  DirFrn = {}
  Parent = {root}
  Name <- MCName
  BadName = {bad}
  MaxSlots = 2
  Orig <- MCOrig
  Folded <- MCFolded
  Initials <- MCInitials
  OwnerBlock = 2
  LaneWidth = 2
  TriMin = 6
  MaxArena = 14
  PollChunk = 2
  Query <- MCQuery
  SlotCount = 4
  Profiles <- MCProfiles
  ArenaOrder <- MCOrder
  Pen <- MCPen
  DepthTop = 1
  FUZZY_CAP = 1
  Searches <- MCSearches
  Chars <- MCChars
  MaxName = 4
  Seps = {"_"}
  MaxQuery = 3
  Stride = 3
SPECIFICATION MCSpec
INVARIANTS
  ArenaExact
  PageIsExhaustive
  RangesMatch
SYMMETRY MCSymmetry
