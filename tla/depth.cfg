CONSTANTS
    d1 = d1
    d2 = d2
    f1 = f1
    f2 = f2
    root = root
    a = a
    Files4 = FALSE
    Admits <- MCAll
    Frn <- MCFrn
    DirFrn <- MCDirs
    Parent <- MCParent
    Name <- MCName
    BadName = {}
    MaxSlots = 4
    Absent = Absent
    MaxDepth = 2
    SliceSize = 1
SPECIFICATION MCFairSpec
INVARIANTS
    TableExact
    RepairedDepths
PROPERTIES
    ImplementsFileSet
    RepairCompletes
