SPECIFICATION FairSpec
CONSTANTS
    MaxSends = 3
    MaxReloads = 1
    PipeRoom = 1
    GenTop = 6
INVARIANTS
  AnswersExact
  ShownIsCurrent
PROPERTIES
  SessionProgress
CHECK_DEADLOCK FALSE
