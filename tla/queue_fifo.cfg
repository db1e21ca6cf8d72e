CONSTANTS
  p1 = p1
  p2 = p2
  c1 = c1
  c2 = c2
  m1 = m1
  m2 = m2
  NoValue = NoValue
  Null = Null
  Producers <- TwoProducers
  Consumers <- TwoConsumers
  Values <- TwoMessages
  POOL_SIZE = 2
  MaxEnqueue = 4
  Disciplined = FALSE
  AllowDestroy = FALSE
  Runners <- Everyone
SYMMETRY Symmetry
SPECIFICATION Spec
INVARIANT DeliveredInOrder
