CONSTANTS
  p1 = p1
  p2 = p2
  c1 = c1
  c2 = c2
  v1 = v1
  v2 = v2
  NoValue = NoValue
  Producers <- TwoProducers
  Consumers <- TwoConsumers
  Values <- TwoValues
  SIZE = 2
  POS_MOD <- MCPosMod
  MaxPush = 3
  StaleLoads = TRUE
  Clients <- BothClients
  AllowReset = TRUE
  Runners <- Everyone
SYMMETRY Symmetry
SPECIFICATION Spec
INVARIANTS TypeOK PositionsBounded ClaimsExclusive IInv
PROPERTY FifoIfPhased
