CONSTANTS
  o1 = o1
  o2 = o2
  o3 = o3
  NoId = NoId
  OrderIds <- ThreeIds
  MIN_PRICE = 100
  PRICE_LEVELS = 3
  MAX_ORDERS_PER_LEVEL = 2
  Prices <- AllPrices
  Quantities = {0, 2}
  MarketQuantities = {3}
  MaxOrders = 3
SYMMETRY Symmetry
SPECIFICATION Spec
INVARIANTS TypeOK QuantityConserved IndexAgrees
PROPERTIES ExecutesAtBest MatchProgresses BookSpec
