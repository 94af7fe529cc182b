SPECIFICATION Spec
CONSTANTS
  E = E
  A = A
  Empty = E
  Queries <- MCQueries
  KindCap <- MCKindCap
  InlineCap = 2
  ShellRows <- MCShell
  FileBatches <- MCFiles
  FallbackRows <- MCFallback
  MaxGen = 3
  MaxMoves = 2
  MaxRuns = 1
  Alphabets <- MCAlphabets
  Units = {"in", "to", "cm"}
  FirstYear = 1896
  LastYear = 2005
  Names <- MCNames
  Typed <- MCTyped
  Lower <- MCLower
  Separators = {"-"}
  WideLetters = {"w"}
  PageSize = 1
  Pool = 2
  Habits <- MCHabits
  MaxCount = 3
  KindExts <- MCKindExts
  Exts <- MCExts
  Folder <- MCFolder
  StaleAfter = 2
  CacheTtl = 1
  MaxEvents = 5
INVARIANTS
  OwnRowsAreRight
PROPERTIES
  SelectionIsKept
  ListIsWhole
CHECK_DEADLOCK FALSE
