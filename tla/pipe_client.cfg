SPECIFICATION Spec
CONSTANTS
  MaxTyped = 2
  MaxEpochs = 2
  OutRoom = 1
  InRoom = 1
INVARIANTS
  NoReplay
  OutcomesAreOwn
PROPERTIES
  ClientGetsOn
CHECK_DEADLOCK FALSE
