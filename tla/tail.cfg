CONSTANTS
  root = root
  a = a
  b = b
  x = x
  Absent = Absent
  MaxFrn = 2
  Parent = {root}
  Name = {a, b, x}
  BadName = {x}
  Given = {a, b}
  MaxChanges = 4
  Volumes <- MCVolumes
  MaxRecs = 2
  MaxJournals = 2
  MaxEpoch = 1
  Header = 60
  Alignment = 8
  Records <- MCRecords
  MaxRecords = 3
  FirstUser = 2
  Numbers = {0, 1, 2, 3, 5}
  Batch = 2
  Nodes = {1, 2, 3}
SPECIFICATION FairTailSpec
INVARIANTS
  FoundWhole
  BadNamesAreLocal
  NothingLost
  StatusHonest
PROPERTY CatchesUp
