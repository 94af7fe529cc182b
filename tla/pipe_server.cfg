SPECIFICATION FairSpec
CONSTANTS
  Clients = {c1, c2, c3}
  Shells = {c1}
  MAX_CONNECTIONS = 2
INVARIANTS
  CountsExact
PROPERTIES
  CompactsWhenAllowed
  RefusedGetsIn
