CONSTANTS
  p1 = p1
  p2 = p2
  c1 = c1
  c2 = c2
  v1 = v1
  v2 = v2
  NoValue = NoValue
  Producers <- TwoProducers
  Consumers <- OneConsumer
  Values <- OneValue
  SIZE = 2
  POS_MOD <- MCPosMod
  MaxPush = 3
  StaleLoads = FALSE
  Clients <- FreeClients
  AllowReset = FALSE
  Runners <- Everyone
SPECIFICATION Spec
PROPERTY RefusedOnlyWhenFull
