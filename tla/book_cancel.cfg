CONSTANTS
  o1 = o1
  o2 = o2
  o3 = o3
  NoId = NoId
  OrderIds <- TwoIds
  MIN_PRICE = 100
  PRICE_LEVELS = 2
  MAX_ORDERS_PER_LEVEL = 2
  Prices <- InsidePrices
  Quantities = {1}
  MarketQuantities = {1}
  MaxOrders = 2
SYMMETRY Symmetry
SPECIFICATION Spec
INVARIANT NotFoundMeansNotResting
