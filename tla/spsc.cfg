CONSTANTS
  v1 = v1
  v2 = v2
  NoValue = NoValue
  Values <- MCValues
  SIZE = 2
  POS_MOD <- MCPosMod
  MaxPush = 6
  AllowReset = TRUE
SPECIFICATION StalledProducerSpec
INVARIANTS TypeOK NoDataRace ApproxSizeConservative IInv
PROPERTIES FifoSpec PublishedIsDelivered AllDelivered
