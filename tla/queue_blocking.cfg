CONSTANTS
  p1 = p1
  p2 = p2
  c1 = c1
  c2 = c2
  m1 = m1
  m2 = m2
  NoValue = NoValue
  Null = Null
  Producers <- TwoProducers
  Consumers <- OneConsumer
  Values <- OneMessage
  POOL_SIZE = 2
  MaxEnqueue = 3
  Disciplined = FALSE
  AllowDestroy = FALSE
  Runners <- OneProducer
SPECIFICATION RunnersSpec
PROPERTY EnqueueReturns
