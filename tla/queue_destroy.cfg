CONSTANTS
  p1 = p1
  p2 = p2
  c1 = c1
  c2 = c2
  m1 = m1
  m2 = m2
  NoValue = NoValue
  Null = Null
  Producers <- OneProducer
  Consumers <- OneConsumer
  Values <- OneMessage
  POOL_SIZE = 2
  MaxEnqueue = 2
  Disciplined = FALSE
  AllowDestroy = TRUE
  Runners <- Everyone
SPECIFICATION Spec
INVARIANT DeletedIsSentinel
CHECK_DEADLOCK FALSE
