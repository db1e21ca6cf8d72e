---------------------------- MODULE MC_OrderBook ----------------------------
(***************************************************************************)
(* Instances of OrderBook for TLC: two or three price levels that are full *)
(* with two orders, prices inside and beyond both ends of the range.  Two  *)
(* orders in a level are what it takes for a removal to move another       *)
(* order, three levels for a walk that has to pass an empty one.           *)
(***************************************************************************)
EXTENDS OrderBook, TLC

CONSTANTS o1, o2, o3

TwoIds   == {o1, o2}
ThreeIds == {o1, o2, o3}

InsidePrices == MIN_PRICE..(MIN_PRICE + PRICE_LEVELS - 1)
AllPrices    == (MIN_PRICE - 1)..(MIN_PRICE + PRICE_LEVELS)

Symmetry == Permutations(OrderIds)
=============================================================================
