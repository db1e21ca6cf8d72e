CONSTANTS
  p1 = p1
  p2 = p2
  c1 = c1
  c2 = c2
  m1 = m1
  m2 = m2
  NoValue = NoValue
  Null = Null
  Producers <- OneProducer
  Consumers <- TwoConsumers
  Values <- TwoMessages
  POOL_SIZE = 2
  MaxEnqueue = 4
  Disciplined = TRUE
  AllowDestroy = TRUE
  Runners <- TwoConsumers
SPECIFICATION RunnersSpec
INVARIANTS TypeOK NodesPartitioned
PROPERTIES FifoSpec LinkedIsDelivered AllDelivered
CHECK_DEADLOCK FALSE
