--------------------------- MODULE OrderBookProofs ---------------------------
(***************************************************************************)
(* Proofs about the order book, for every price range, every number of     *)
(* orders in a level, all quantities, and callers that may use an id again.*)
(*                                                                         *)
(* The methods change the levels in three ways only: an order is appended  *)
(* to a level, taken out of it by swap-and-pop, or reduced in place.  For  *)
(* each there is a lemma that says what it does to the set of places where *)
(* orders rest and to the order at each of them; the proofs about the      *)
(* actions use these lemmas and never look at a level again.               *)
(***************************************************************************)
EXTENDS OrderBook, SumTheorems

LEMMA Constants ==
  /\ MIN_PRICE \in Nat /\ PRICE_LEVELS \in Nat /\ MAX_ORDERS_PER_LEVEL \in Nat
  /\ PRICE_LEVELS > 0 /\ MAX_ORDERS_PER_LEVEL > 0
  /\ Prices \subseteq Int /\ Quantities \subseteq Nat /\ MarketQuantities \subseteq Nat
  /\ NoId \notin OrderIds /\ MaxOrders \in Nat
  BY RangeAssumption, ArgumentAssumption, BoundAssumption

LEMMA SwapAndPopResult ==
  ASSUME NEW S, NEW seq \in Seq(S), NEW k \in 1..Len(seq)
  PROVE  /\ SwapAndPop(seq, k) \in Seq(S)
         /\ Len(SwapAndPop(seq, k)) = Len(seq) - 1
         /\ \A j \in 1..(Len(seq) - 1) :
              SwapAndPop(seq, k)[j] = IF j = k THEN seq[Len(seq)] ELSE seq[j]
<1> DEFINE n == Len(seq) - 1
<1>1. n \in Nat /\ n + 1 \in 1..Len(seq)
  OBVIOUS
<1>2. \A j \in 1..n : (IF j = k THEN seq[Len(seq)] ELSE seq[j]) \in S
  OBVIOUS
<1>3. SwapAndPop(seq, k) \in [1..n -> S]
  BY <1>2 DEF SwapAndPop
<1>4. SwapAndPop(seq, k) \in Seq(S) /\ Len(SwapAndPop(seq, k)) = n
  BY <1>1, <1>3
<1>5. QED
  BY <1>4 DEF SwapAndPop

-----------------------------------------------------------------------------
(* The levels, and the places where orders rest.                            *)

LevelsOK ==
  /\ levels \in [Sides -> [Levels -> Seq(Order)]]
  /\ \A s \in Sides, l \in Levels : Len(levels[s][l]) <= MAX_ORDERS_PER_LEVEL

LEMMA TypeOKLevels == TypeOK => LevelsOK
  BY DEF TypeOK, LevelsOK

Places ==
  /\ \A s \in Sides, l \in Levels, k \in Nat :
       <<s, l, k>> \in Resting <=> k \in 1..Len(levels[s][l])
  /\ \A r \in Resting :
       \E s \in Sides, l \in Levels : \E k \in 1..Len(levels[s][l]) : r = <<s, l, k>>

LEMMA RestingPlace == LevelsOK => Places
<1> SUFFICES ASSUME LevelsOK PROVE Places
  OBVIOUS
<1>1. \A s \in Sides, l \in Levels :
        Len(levels[s][l]) \in Nat /\ Len(levels[s][l]) <= MAX_ORDERS_PER_LEVEL
  BY DEF LevelsOK
<1>2. ASSUME NEW s \in Sides, NEW l \in Levels, NEW k \in Nat
      PROVE  <<s, l, k>> \in Resting <=> k \in 1..Len(levels[s][l])
  BY <1>1, Constants DEF Resting
<1>3. ASSUME NEW r \in Resting
      PROVE  \E s \in Sides, l \in Levels : \E k \in 1..Len(levels[s][l]) : r = <<s, l, k>>
  <2>1. PICK s \in Sides, l \in Levels, k \in 1..MAX_ORDERS_PER_LEVEL : r = <<s, l, k>>
    BY DEF Resting
  <2>2. k \in 1..Len(levels[s][l])
    BY <1>1, <2>1, Constants DEF Resting
  <2>3. QED
    BY <2>1, <2>2
<1>4. QED
  BY <1>2, <1>3 DEF Places

LEMMA RestingPlaceNext == LevelsOK' => Places'
  BY RestingPlace, PTL

LEMMA RestingOrder ==
  ASSUME LevelsOK, NEW r \in Resting
  PROVE  /\ OrderAt(r) \in Order
         /\ r[1] \in Sides /\ r[2] \in Levels /\ r[3] \in 1..Len(levels[r[1]][r[2]])
         /\ r = <<r[1], r[2], r[3]>>
<1>1. PICK s \in Sides, l \in Levels : \E k \in 1..Len(levels[s][l]) : r = <<s, l, k>>
  BY RestingPlace DEF Places
<1>2. PICK k \in 1..Len(levels[s][l]) : r = <<s, l, k>>
  BY <1>1
<1>3. levels[s][l] \in Seq(Order)
  BY DEF LevelsOK
<1>4. levels[s][l][k] \in Order
  BY <1>3
<1>5. QED
  BY <1>2, <1>4 DEF OrderAt

LEMMA RestingFinite == IsFiniteSet(Resting)
<1>1. IsFiniteSet(Sides)
  <2>1. Sides = {"BUY"} \cup {"SELL"}
    BY DEF Sides
  <2>2. QED
    BY <2>1, FS_Singleton, FS_Union
<1>2. IsFiniteSet(Levels) /\ IsFiniteSet(1..MAX_ORDERS_PER_LEVEL)
  BY Constants, FS_Interval DEF Levels
<1>3. IsFiniteSet(Sides \X Levels \X (1..MAX_ORDERS_PER_LEVEL))
  <2> DEFINE T == Sides \X Levels \X (1..MAX_ORDERS_PER_LEVEL)
             P == (Sides \X Levels) \X (1..MAX_ORDERS_PER_LEVEL)
             f == [x \in P |-> <<x[1][1], x[1][2], x[2]>>]
  <2>1. IsFiniteSet(P)
    BY <1>1, <1>2, FS_Product
  <2>2. f \in Surjection(P, T)
    <3>1. f \in [P -> T]
      OBVIOUS
    <3>2. ASSUME NEW t \in T PROVE \E x \in P : f[x] = t
      <4>1. PICK s \in Sides, l \in Levels, k \in 1..MAX_ORDERS_PER_LEVEL : t = <<s, l, k>>
        OBVIOUS
      <4>2. <<<<s, l>>, k>> \in P /\ f[<<<<s, l>>, k>>] = t
        BY <4>1
      <4>3. QED
        BY <4>2
    <3>3. QED
      BY <3>1, <3>2 DEF Surjection
  <2> HIDE DEF P, T, f
  <2>3. IsFiniteSet(T)
    BY <2>1, <2>2, FS_Surjection
  <2>4. QED
    BY <2>3 DEF T
<1>4. Resting \in SUBSET (Sides \X Levels \X (1..MAX_ORDERS_PER_LEVEL))
  BY DEF Resting
<1>5. QED
  BY <1>3, <1>4, FS_Subset

-----------------------------------------------------------------------------
(* The three ways in which the levels change.                               *)

LEMMA LevelChanged ==
  ASSUME LevelsOK, NEW s \in Sides, NEW l \in Levels, NEW new \in Seq(Order),
         Len(new) <= MAX_ORDERS_PER_LEVEL,
         levels' = [levels EXCEPT ![s][l] = new]
  PROVE  /\ LevelsOK'
         /\ levels'[s][l] = new
         /\ \A t \in Sides, m \in Levels : <<t, m>> # <<s, l>> => levels'[t][m] = levels[t][m]
<1>1. levels'[s][l] = new
  BY DEF LevelsOK
<1>2. \A t \in Sides, m \in Levels : <<t, m>> # <<s, l>> => levels'[t][m] = levels[t][m]
  BY DEF LevelsOK
<1>3. levels' \in [Sides -> [Levels -> Seq(Order)]]
  BY DEF LevelsOK
<1>4. \A t \in Sides, m \in Levels : Len(levels'[t][m]) <= MAX_ORDERS_PER_LEVEL
  BY <1>1, <1>2 DEF LevelsOK
<1>5. QED
  BY <1>1, <1>2, <1>3, <1>4 DEF LevelsOK

\* An order o is appended to the level.
Appended(new, o) ==
  /\ new \notin Resting
  /\ Resting' = Resting \cup {new}
  /\ OrderAt(new)' = o
  /\ \A r \in Resting : OrderAt(r)' = OrderAt(r)

LEMMA AppendResult ==
  ASSUME LevelsOK, NEW s \in Sides, NEW l \in Levels, NEW o \in Order,
         Len(levels[s][l]) < MAX_ORDERS_PER_LEVEL,
         levels' = [levels EXCEPT ![s][l] = Append(@, o)]
  PROVE  /\ LevelsOK'
         /\ \E new : new[1] = s /\ new[2] = l /\ Appended(new, o)
<1> DEFINE old == levels[s][l]
<1>0. PICK n : n = Len(old) + 1
  OBVIOUS
<1> DEFINE new == <<s, l, n>>
<1>1. old \in Seq(Order) /\ n \in Nat /\ n <= MAX_ORDERS_PER_LEVEL
  BY <1>0, Constants DEF LevelsOK
<1>2. /\ Append(old, o) \in Seq(Order) /\ Len(Append(old, o)) = n
      /\ Append(old, o)[n] = o /\ \A k \in 1..Len(old) : Append(old, o)[k] = old[k]
  BY <1>0, <1>1
<1>3. levels' = [levels EXCEPT ![s][l] = Append(old, o)]
  OBVIOUS
<1>4. /\ LevelsOK'
      /\ levels'[s][l] = Append(old, o)
      /\ \A t \in Sides, m \in Levels : <<t, m>> # <<s, l>> => levels'[t][m] = levels[t][m]
  <2> HIDE DEF old
  <2>1. QED
    BY <1>1, <1>2, <1>3, LevelChanged
<1>5. \A r : r \in Resting' <=> r \in Resting \/ r = new
  <2>1. ASSUME NEW t \in Sides, NEW m \in Levels, NEW k \in Nat
        PROVE  <<t, m, k>> \in Resting' <=> <<t, m, k>> \in Resting \/ <<t, m, k>> = new
    <3>1. <<t, m, k>> \in Resting' <=> k \in 1..Len(levels'[t][m])
      BY <1>4, RestingPlaceNext DEF Places
    <3>2. <<t, m, k>> \in Resting <=> k \in 1..Len(levels[t][m])
      BY RestingPlace DEF Places
    <3>3. CASE <<t, m>> = <<s, l>>
      BY <1>0, <1>1, <1>2, <1>4, <3>1, <3>2, <3>3
    <3>4. CASE <<t, m>> # <<s, l>>
      BY <1>4, <3>1, <3>2, <3>4
    <3>5. QED
      BY <3>3, <3>4
  <2>2. \A r \in Resting' : \E t \in Sides, m \in Levels, k \in Nat : r = <<t, m, k>>
    BY Constants DEF Resting
  <2>3. \A r \in Resting : \E t \in Sides, m \in Levels, k \in Nat : r = <<t, m, k>>
    BY Constants DEF Resting
  <2>4. QED
    BY <1>1, <2>1, <2>2, <2>3
<1>6. new \notin Resting
  BY <1>0, <1>1, RestingPlace DEF Places
<1>7. OrderAt(new)' = o
  BY <1>2, <1>4 DEF OrderAt
<1>8. ASSUME NEW r \in Resting PROVE OrderAt(r)' = OrderAt(r)
  <2>1. PICK t \in Sides, m \in Levels : \E k \in 1..Len(levels[t][m]) : r = <<t, m, k>>
    BY RestingPlace DEF Places
  <2>2. PICK k \in 1..Len(levels[t][m]) : r = <<t, m, k>>
    BY <2>1
  <2>3. QED
    BY <1>2, <1>4, <2>2 DEF OrderAt
<1>9. QED
  <2>1. new[1] = s /\ new[2] = l
    OBVIOUS
  <2>2. Appended(new, o)
    BY <1>5, <1>6, <1>7, <1>8 DEF Appended
  <2>3. QED
    BY <1>4, <2>1, <2>2

\* The order at r is taken out: the last one of its level moves there.
LastOf(r) == <<r[1], r[2], Len(levels[r[1]][r[2]])>>

Removed(r) ==
  /\ LastOf(r) \in Resting
  /\ Resting' = Resting \ {LastOf(r)}
  /\ \A t \in Resting' : OrderAt(t)' = IF t = r THEN OrderAt(LastOf(r)) ELSE OrderAt(t)

LEMMA RemoveResult ==
  ASSUME LevelsOK, NEW r \in Resting,
         levels' = [levels EXCEPT ![r[1]][r[2]] = SwapAndPop(@, r[3])]
  PROVE  LevelsOK' /\ Removed(r)
<1>0. PICK s \in Sides, l \in Levels : \E k \in 1..Len(levels[s][l]) : r = <<s, l, k>>
  BY RestingPlace DEF Places
<1>1. PICK k \in 1..Len(levels[s][l]) : r = <<s, l, k>>
  BY <1>0
<1> DEFINE old == levels[s][l]
           n == Len(old)
<1>r. PICK rest : rest = SwapAndPop(old, k)
  OBVIOUS
<1>2. /\ old \in Seq(Order) /\ n \in Nat /\ n <= MAX_ORDERS_PER_LEVEL /\ k \in 1..n
      /\ LastOf(r) = <<s, l, n>>
  BY <1>1, Constants DEF LevelsOK, LastOf
<1>3. /\ rest \in Seq(Order) /\ Len(rest) = n - 1
      /\ \A j \in 1..(n - 1) : rest[j] = IF j = k THEN old[n] ELSE old[j]
  <2> HIDE DEF old
  <2>1. QED
    BY <1>r, <1>2, SwapAndPopResult
<1>4. /\ LevelsOK'
      /\ levels'[s][l] = rest
      /\ \A t \in Sides, m \in Levels : <<t, m>> # <<s, l>> => levels'[t][m] = levels[t][m]
  <2>1. levels' = [levels EXCEPT ![s][l] = rest]
    BY <1>r, <1>1
  <2>2. rest \in Seq(Order) /\ Len(rest) <= MAX_ORDERS_PER_LEVEL
    BY <1>2, <1>3, Constants
  <2>3. QED
    BY <2>1, <2>2, LevelChanged, ZenonT(80)
<1>5. \A t : t \in Resting' <=> t \in Resting /\ t # <<s, l, n>>
  <2>1. ASSUME NEW t \in Sides, NEW m \in Levels, NEW j \in Nat
        PROVE  <<t, m, j>> \in Resting' <=> <<t, m, j>> \in Resting /\ <<t, m, j>> # <<s, l, n>>
    <3>1. <<t, m, j>> \in Resting' <=> j \in 1..Len(levels'[t][m])
      BY <1>4, RestingPlaceNext DEF Places
    <3>2. <<t, m, j>> \in Resting <=> j \in 1..Len(levels[t][m])
      BY RestingPlace DEF Places
    <3>3. CASE <<t, m>> = <<s, l>>
      BY <1>2, <1>3, <1>4, <3>1, <3>2, <3>3
    <3>4. CASE <<t, m>> # <<s, l>>
      BY <1>4, <3>1, <3>2, <3>4
    <3>5. QED
      BY <3>3, <3>4
  <2>2. \A t \in Resting' : \E u \in Sides, m \in Levels, j \in Nat : t = <<u, m, j>>
    BY Constants DEF Resting
  <2>3. \A t \in Resting : \E u \in Sides, m \in Levels, j \in Nat : t = <<u, m, j>>
    BY Constants DEF Resting
  <2>4. QED
    BY <2>1, <2>2, <2>3
<1>6. <<s, l, n>> \in Resting
  BY <1>2, RestingPlace DEF Places
<1>7. ASSUME NEW t \in Resting'
      PROVE  OrderAt(t)' = IF t = r THEN OrderAt(<<s, l, n>>) ELSE OrderAt(t)
  <2>1. PICK u \in Sides, m \in Levels : \E j \in 1..Len(levels'[u][m]) : t = <<u, m, j>>
    BY <1>4, RestingPlaceNext DEF Places
  <2>2. PICK j \in 1..Len(levels'[u][m]) : t = <<u, m, j>>
    BY <2>1
  <2>3. CASE <<u, m>> = <<s, l>>
    <3>1. j \in 1..(n - 1) /\ t = <<s, l, j>>
      BY <1>3, <1>4, <2>2, <2>3
    <3>2. levels'[s][l][j] = IF j = k THEN old[n] ELSE old[j]
      BY <1>3, <1>4, <3>1
    <3>3. QED
      BY <1>1, <3>1, <3>2 DEF OrderAt
  <2>4. CASE <<u, m>> # <<s, l>>
    BY <1>1, <1>4, <2>2, <2>4 DEF OrderAt
  <2>5. QED
    BY <2>3, <2>4
<1>8. QED
  BY <1>2, <1>4, <1>5, <1>6, <1>7 DEF Removed

\* The order at r becomes o.
Replaced(r, o) ==
  /\ Resting' = Resting
  /\ \A t \in Resting : OrderAt(t)' = IF t = r THEN o ELSE OrderAt(t)

LEMMA ReplaceResult ==
  ASSUME LevelsOK, NEW r \in Resting, NEW o \in Order,
         levels' = [levels EXCEPT ![r[1]][r[2]] = [@ EXCEPT ![r[3]] = o]]
  PROVE  LevelsOK' /\ Replaced(r, o)
<1>0. PICK s \in Sides, l \in Levels : \E k \in 1..Len(levels[s][l]) : r = <<s, l, k>>
  BY RestingPlace DEF Places
<1>1. PICK k \in 1..Len(levels[s][l]) : r = <<s, l, k>>
  BY <1>0
<1> DEFINE old == levels[s][l]
<1>r. PICK rest : rest = [old EXCEPT ![k] = o]
  OBVIOUS
<1>2. old \in Seq(Order) /\ Len(old) \in Nat /\ Len(old) <= MAX_ORDERS_PER_LEVEL
  BY DEF LevelsOK
<1>3. /\ rest \in Seq(Order) /\ Len(rest) = Len(old)
      /\ \A j \in 1..Len(old) : rest[j] = IF j = k THEN o ELSE old[j]
  BY <1>r, <1>2
<1>4. /\ LevelsOK'
      /\ levels'[s][l] = rest
      /\ \A t \in Sides, m \in Levels : <<t, m>> # <<s, l>> => levels'[t][m] = levels[t][m]
  <2>1. levels' = [levels EXCEPT ![s][l] = rest]
    BY <1>r, <1>1
  <2>2. rest \in Seq(Order) /\ Len(rest) <= MAX_ORDERS_PER_LEVEL
    BY <1>2, <1>3
  <2>3. QED
    BY <2>1, <2>2, LevelChanged, ZenonT(80)
<1>5. \A t \in Sides, m \in Levels : Len(levels'[t][m]) = Len(levels[t][m])
  BY <1>3, <1>4
<1>6. Resting' = Resting
  BY <1>5 DEF Resting
<1>7. ASSUME NEW t \in Resting PROVE OrderAt(t)' = IF t = r THEN o ELSE OrderAt(t)
  <2>1. PICK u \in Sides, m \in Levels : \E j \in 1..Len(levels[u][m]) : t = <<u, m, j>>
    BY RestingPlace DEF Places
  <2>2. PICK j \in 1..Len(levels[u][m]) : t = <<u, m, j>>
    BY <2>1
  <2>3. CASE <<u, m>> = <<s, l>>
    BY <1>1, <1>3, <1>4, <2>2, <2>3 DEF OrderAt
  <2>4. CASE <<u, m>> # <<s, l>>
    BY <1>1, <1>4, <2>2, <2>4 DEF OrderAt
  <2>5. QED
    BY <2>3, <2>4
<1>8. QED
  BY <1>4, <1>6, <1>7 DEF Replaced

-----------------------------------------------------------------------------
(* What the actions of match_market_order do to the places.                 *)

\* The place of the order the inner loop is at.
AtFirst == <<Opposite(side), i, 1>>

Matching == ~NoCall /\ LoopRuns /\ Level # << >>

LEMMA FirstRests ==
  ASSUME TypeOK, Matching
  PROVE  /\ side \in Sides /\ Opposite(side) \in Sides /\ i \in Levels
         /\ AtFirst \in Resting
         /\ OrderAt(AtFirst) = Level[1] /\ Level[1] \in Order
         /\ Level \in Seq(Order) /\ Len(Level) \in Nat /\ Len(Level) > 0
<1>1. side \in Sides /\ Opposite(side) \in Sides /\ i \in Levels
  BY DEF Matching, NoCall, LoopRuns, TypeOK, Opposite, Sides
<1>2. Level \in Seq(Order) /\ Len(Level) \in Nat /\ Len(Level) > 0
  BY <1>1 DEF Matching, Level, TypeOK
<1>3. Level[1] \in Order
  BY <1>2
<1>4. AtFirst \in Resting
  BY <1>1, <1>2, RestingPlace, TypeOKLevels DEF Places, AtFirst, Level
<1>5. QED
  BY <1>1, <1>2, <1>3, <1>4 DEF OrderAt, AtFirst, Level

LEMMA TradeType ==
  ASSUME TypeOK, Matching
  PROVE  /\ TheTrade \in Trade
         /\ TheTrade.qty = MatchQty(qty, Level[1])
         /\ TheTrade.qty \in Nat /\ TheTrade.qty <= qty /\ TheTrade.qty <= Level[1].qty
         /\ {TheTrade.buy_id, TheTrade.sell_id} = {NoId, Level[1].id}
         /\ TheTrade.price_cents = i + MIN_PRICE
<1>1. Level[1] \in Order /\ side \in Sides /\ i \in Int /\ qty \in Nat
  BY FirstRests DEF TypeOK
<1>2. Level[1].qty \in Nat /\ Level[1].id \in OrderIds
  BY <1>1 DEF Order
<1>3. MatchQty(qty, Level[1]) \in Nat /\ MatchQty(qty, Level[1]) <= qty
      /\ MatchQty(qty, Level[1]) <= Level[1].qty
  BY <1>1, <1>2 DEF MatchQty
<1>4. i + MIN_PRICE \in Int
  BY <1>1, Constants
<1>5. TheTrade \in Trade
  BY <1>2, <1>3, <1>4 DEF TheTrade, Trade
<1>6. {TheTrade.buy_id, TheTrade.sell_id} = {NoId, Level[1].id}
  BY DEF TheTrade
<1>7. QED
  BY <1>3, <1>5, <1>6 DEF TheTrade

LEMMA FillsResult ==
  ASSUME TypeOK, MatchFillsOrder
  PROVE  /\ Matching /\ LevelsOK' /\ Removed(AtFirst)
         /\ order_index' = [order_index EXCEPT ![IdAt(LastOf(AtFirst))] = NoEntry]
         /\ TheTrade.qty = OrderAt(AtFirst).qty
<1>1. Matching
  BY DEF MatchFillsOrder, Matching
<1> DEFINE rest == SwapAndPop(Level, 1)
           n == Len(Level)
<1>2. Level \in Seq(Order) /\ n \in Nat /\ n > 0
  BY <1>1, FirstRests
<1>3. /\ rest \in Seq(Order) /\ Len(rest) = n - 1
      /\ \A j \in 1..(n - 1) : rest[j] = IF j = 1 THEN Level[n] ELSE Level[j]
  <2>1. PICK level : level = Level
    OBVIOUS
  <2>2. level \in Seq(Order) /\ 1 \in 1..Len(level)
    BY <1>2, <2>1
  <2>3. /\ SwapAndPop(level, 1) \in Seq(Order)
        /\ Len(SwapAndPop(level, 1)) = Len(level) - 1
        /\ \A j \in 1..(Len(level) - 1) :
             SwapAndPop(level, 1)[j] = IF j = 1 THEN level[Len(level)] ELSE level[j]
    BY <2>2, SwapAndPopResult
  <2>4. QED
    BY <2>1, <2>3
<1>4. LevelsOK' /\ Removed(AtFirst)
  <2>1. PICK r : r = AtFirst
    OBVIOUS
  <2>2. levels' = [levels EXCEPT ![r[1]][r[2]] = SwapAndPop(@, r[3])]
    BY <2>1 DEF MatchFillsOrder, AtFirst, Level
  <2>3. LevelsOK' /\ Removed(r)
    BY <1>1, <2>1, <2>2, FirstRests, TypeOKLevels, RemoveResult
  <2>4. Removed(r) = Removed(AtFirst)
    BY <2>1 DEF Removed
  <2>5. QED
    BY <2>3, <2>4
<1>5. (IF rest = << >> THEN Level[1].id ELSE rest[1].id) = IdAt(LastOf(AtFirst))
  <2>1. IdAt(LastOf(AtFirst)) = Level[n].id
    BY DEF IdAt, OrderAt, LastOf, AtFirst, Level
  <2>2. CASE n = 1
    BY <1>2, <1>3, <2>1, <2>2
  <2>3. CASE n # 1
    <3>1. rest # << >> /\ rest[1] = Level[n]
      BY <1>2, <1>3, <2>3
    <3>2. QED
      BY <2>1, <3>1
  <2>4. QED
    BY <2>2, <2>3
<1>6. order_index' = [order_index EXCEPT ![IdAt(LastOf(AtFirst))] = NoEntry]
  BY <1>5 DEF MatchFillsOrder
<1>7. TheTrade.qty = OrderAt(AtFirst).qty
  BY <1>1, FirstRests DEF MatchFillsOrder, TheTrade
<1>8. QED
  BY <1>1, <1>4, <1>6, <1>7

LEMMA ReducesResult ==
  ASSUME TypeOK, MatchReducesOrder
  PROVE  /\ Matching /\ LevelsOK'
         /\ Replaced(AtFirst, [Level[1] EXCEPT !.qty = @ - TheTrade.qty])
         /\ [Level[1] EXCEPT !.qty = @ - TheTrade.qty] \in Order
         /\ TheTrade.qty = qty /\ qty < Level[1].qty
<1>1. Matching
  BY DEF MatchReducesOrder, Matching
<1>2. PICK o : o = [Level[1] EXCEPT !.qty = @ - TheTrade.qty]
  OBVIOUS
<1>3. PICK r : r = AtFirst
  OBVIOUS
<1>4. Level[1] \in Order /\ qty \in Nat
  BY <1>1, FirstRests DEF TypeOK
<1>5. o \in Order
  BY <1>1, <1>2, <1>4, TradeType DEF Order
<1>6. levels' = [levels EXCEPT ![r[1]][r[2]] = [@ EXCEPT ![r[3]] = o]]
  BY <1>2, <1>3 DEF MatchReducesOrder, AtFirst, Level
<1>7. LevelsOK' /\ Replaced(r, o)
  BY <1>1, <1>3, <1>5, <1>6, FirstRests, TypeOKLevels, ReplaceResult
<1>8. TheTrade.qty = qty /\ qty < Level[1].qty
  <2>1. Level[1].qty \in Nat
    BY <1>4 DEF Order
  <2>2. QED
    BY <1>1, <1>4, <2>1, TradeType DEF MatchReducesOrder, MatchQty
<1>9. Replaced(AtFirst, [Level[1] EXCEPT !.qty = @ - TheTrade.qty])
  BY <1>2, <1>3, <1>7 DEF Replaced
<1>10. QED
  BY <1>1, <1>2, <1>5, <1>7, <1>8, <1>9

-----------------------------------------------------------------------------
(* What the three changes do to the quantity that rests for an id, and what *)
(* a further trade does to the quantities that were traded.                 *)

LEMMA RestingQtyIsSum ==
  ASSUME LevelsOK, NEW id
  PROVE  \E f : /\ \A r \in Resting : f[r] = IF IdAt(r) = id THEN OrderAt(r).qty ELSE 0
                /\ \A r \in Resting : f[r] \in Nat
                /\ RestingQty(id) = SumFunctionOnSet(f, Resting)
<1> DEFINE f == [r \in Resting |-> IF IdAt(r) = id THEN OrderAt(r).qty ELSE 0]
<1>1. \A r \in Resting : f[r] \in Nat
  BY RestingOrder DEF Order
<1>2. RestingQty(id) = SumFunctionOnSet(f, Resting)
  BY DEF RestingQty, SumFunction
<1>3. QED
  BY <1>1, <1>2

LEMMA RestingQtyNat ==
  ASSUME LevelsOK, NEW id
  PROVE  /\ RestingQty(id) \in Nat
         /\ \A r \in Resting : IdAt(r) = id => OrderAt(r).qty <= RestingQty(id)
<1>1. PICK f : /\ \A r \in Resting : f[r] = IF IdAt(r) = id THEN OrderAt(r).qty ELSE 0
               /\ \A r \in Resting : f[r] \in Nat
               /\ RestingQty(id) = SumFunctionOnSet(f, Resting)
  BY RestingQtyIsSum
<1>2. PICK S : S = Resting
  OBVIOUS
<1>3. IsFiniteSet(S) /\ \A r \in S : f[r] \in Nat
  BY <1>1, <1>2, RestingFinite
<1>4. SumFunctionOnSet(f, S) \in Nat /\ \A r \in S : f[r] <= SumFunctionOnSet(f, S)
  BY <1>3, SumNat
<1>5. QED
  BY <1>1, <1>2, <1>4

LEMMA RestingOrderNext ==
  LevelsOK' => \A r \in Resting' : OrderAt(r)' \in Order
<1>1. LevelsOK => \A r \in Resting : OrderAt(r) \in Order
  BY RestingOrder
<1>2. (LevelsOK => \A r \in Resting : OrderAt(r) \in Order)'
  BY <1>1, PTL
<1>3. QED
  BY <1>2

LEMMA RestingQtyIsSumNext ==
  ASSUME LevelsOK', NEW id
  PROVE  \E f : /\ \A r \in Resting' : f[r] = IF OrderAt(r)'.id = id THEN OrderAt(r)'.qty ELSE 0
                /\ \A r \in Resting' : f[r] \in Nat
                /\ RestingQty(id)' = SumFunctionOnSet(f, Resting')
<1> DEFINE f == [r \in Resting |-> IF IdAt(r) = id THEN OrderAt(r).qty ELSE 0]'
<1>2. \A r \in Resting' : OrderAt(r)' \in Order
  BY RestingOrderNext
<1>3. \A r \in Resting' : f[r] = IF OrderAt(r)'.id = id THEN OrderAt(r)'.qty ELSE 0
  BY DEF IdAt
<1>4. \A r \in Resting' : f[r] \in Nat
  BY <1>2, <1>3 DEF Order
<1>5. RestingQty(id)' = SumFunctionOnSet(f, Resting')
  BY DEF RestingQty, SumFunction
<1>6. QED
  BY <1>3, <1>4, <1>5

LEMMA QtyAfterAppend ==
  ASSUME LevelsOK, LevelsOK', NEW id, NEW new, NEW o \in Order, Appended(new, o)
  PROVE  RestingQty(id)' = RestingQty(id) + (IF o.id = id THEN o.qty ELSE 0)
<1>1. PICK f : /\ \A r \in Resting : f[r] = IF IdAt(r) = id THEN OrderAt(r).qty ELSE 0
               /\ \A r \in Resting : f[r] \in Nat
               /\ RestingQty(id) = SumFunctionOnSet(f, Resting)
  BY RestingQtyIsSum
<1>2. PICK g : /\ \A r \in Resting' : g[r] = IF OrderAt(r)'.id = id THEN OrderAt(r)'.qty ELSE 0
               /\ \A r \in Resting' : g[r] \in Nat
               /\ RestingQty(id)' = SumFunctionOnSet(g, Resting')
  BY RestingQtyIsSumNext
<1>3. PICK S : S = Resting
  OBVIOUS
<1>4. /\ IsFiniteSet(S) /\ new \notin S /\ Resting' = S \cup {new}
      /\ \A r \in S : f[r] \in Int /\ g[r] = f[r]
      /\ g[new] \in Int /\ g[new] = IF o.id = id THEN o.qty ELSE 0
  BY <1>1, <1>2, <1>3, RestingFinite DEF Appended, IdAt
<1>5. SumFunctionOnSet(g, S \cup {new}) = SumFunctionOnSet(f, S) + g[new]
  BY <1>4, SumAdd
<1>6. QED
  BY <1>1, <1>2, <1>3, <1>4, <1>5

LEMMA QtyAfterRemove ==
  ASSUME LevelsOK, LevelsOK', NEW id, NEW r \in Resting, Removed(r)
  PROVE  RestingQty(id)' = RestingQty(id) - (IF IdAt(r) = id THEN OrderAt(r).qty ELSE 0)
<1>1. PICK f : /\ \A t \in Resting : f[t] = IF IdAt(t) = id THEN OrderAt(t).qty ELSE 0
               /\ \A t \in Resting : f[t] \in Nat
               /\ RestingQty(id) = SumFunctionOnSet(f, Resting)
  BY RestingQtyIsSum
<1>2. PICK g : /\ \A t \in Resting' : g[t] = IF OrderAt(t)'.id = id THEN OrderAt(t)'.qty ELSE 0
               /\ \A t \in Resting' : g[t] \in Nat
               /\ RestingQty(id)' = SumFunctionOnSet(g, Resting')
  BY RestingQtyIsSumNext
<1>3. PICK S : S = Resting
  OBVIOUS
<1>4. PICK last : last = LastOf(r)
  OBVIOUS
<1>5. /\ IsFiniteSet(S) /\ last \in S /\ r \in S /\ Resting' = S \ {last}
      /\ \A t \in S : f[t] \in Int
      /\ \A t \in S \ {last} : g[t] \in Int /\ g[t] = IF t = r THEN f[last] ELSE f[t]
  BY <1>1, <1>2, <1>3, <1>4, RestingFinite DEF Removed, IdAt
<1>6. SumFunctionOnSet(g, S \ {last}) = SumFunctionOnSet(f, S) - f[r]
  <2>1. \A t \in S : f[t] \in Int
    BY <1>5
  <2>2. \A t \in S \ {last} : g[t] = IF t = r THEN f[last] ELSE f[t]
    BY <1>5
  <2>3. QED
    BY <1>5, <2>1, <2>2, SumMove
<1>7. QED
  BY <1>1, <1>2, <1>3, <1>5, <1>6

LEMMA QtyAfterReplace ==
  ASSUME LevelsOK, LevelsOK', NEW id, NEW r \in Resting, NEW o \in Order, Replaced(r, o),
         o.id = IdAt(r)
  PROVE  RestingQty(id)' =
           RestingQty(id) + (IF IdAt(r) = id THEN o.qty - OrderAt(r).qty ELSE 0)
<1>1. PICK f : /\ \A t \in Resting : f[t] = IF IdAt(t) = id THEN OrderAt(t).qty ELSE 0
               /\ \A t \in Resting : f[t] \in Nat
               /\ RestingQty(id) = SumFunctionOnSet(f, Resting)
  BY RestingQtyIsSum
<1>2. PICK g : /\ \A t \in Resting' : g[t] = IF OrderAt(t)'.id = id THEN OrderAt(t)'.qty ELSE 0
               /\ \A t \in Resting' : g[t] \in Nat
               /\ RestingQty(id)' = SumFunctionOnSet(g, Resting')
  BY RestingQtyIsSumNext
<1>3. PICK S : S = Resting
  OBVIOUS
<1>4. /\ IsFiniteSet(S) /\ r \in S /\ g[r] \in Int
      /\ \A t \in S : f[t] \in Int
      /\ \A t \in S : t # r => g[t] = f[t]
      /\ g[r] = IF IdAt(r) = id THEN o.qty ELSE 0
  BY <1>1, <1>2, <1>3, RestingFinite DEF Replaced, IdAt
<1>5. SumFunctionOnSet(g, S) = SumFunctionOnSet(f, S) - f[r] + g[r]
  BY <1>4, SumUpdate
<1>6. SumFunctionOnSet(f, S) \in Int /\ o.qty \in Nat /\ OrderAt(r).qty \in Nat
  BY <1>4, SumElement, RestingOrder DEF Order
<1>7. Resting' = S
  BY <1>3 DEF Replaced
<1>8. QED
  BY <1>1, <1>2, <1>3, <1>4, <1>5, <1>6, <1>7

LEMMA QtyUnchanged ==
  ASSUME NEW id, UNCHANGED levels
  PROVE  RestingQty(id)' = RestingQty(id)
  BY DEF RestingQty, Resting, IdAt, OrderAt

LEMMA QtyOfAppend ==
  ASSUME NEW seq \in Seq(Trade), NEW t \in Trade
  PROVE  /\ QtyOf(Append(seq, t)) = QtyOf(seq) + t.qty
         /\ QtyOf(seq) \in Nat
<1>n. PICK n : n = Len(seq)
  OBVIOUS
<1>1. PICK f : f = [k \in DOMAIN seq |-> seq[k].qty]
  OBVIOUS
<1>2. PICK g : g = [k \in DOMAIN Append(seq, t) |-> Append(seq, t)[k].qty]
  OBVIOUS
<1>a. /\ n \in Nat /\ DOMAIN seq = 1..n /\ DOMAIN Append(seq, t) = 1..(n + 1)
      /\ \A k \in 1..n : seq[k] \in Trade /\ Append(seq, t)[k] = seq[k]
      /\ Append(seq, t)[n + 1] = t
  BY <1>n
<1>b. \A u \in Trade : u.qty \in Nat
  BY DEF Trade
<1>3. /\ n \in Nat /\ DOMAIN f = 1..n /\ DOMAIN g = 1..(n + 1)
      /\ \A k \in 1..n : f[k] \in Nat /\ g[k] = f[k]
      /\ g[n + 1] = t.qty /\ t.qty \in Nat
  BY <1>1, <1>2, <1>a, <1>b
<1>4. QtyOf(seq) = SumFunctionOnSet(f, 1..n)
  BY <1>1, <1>3 DEF QtyOf, SumFunction
<1>5. QtyOf(Append(seq, t)) = SumFunctionOnSet(g, 1..(n + 1))
  BY <1>2, <1>3 DEF QtyOf, SumFunction
<1>6. SumFunctionOnSet(g, 1..(n + 1)) = SumFunctionOnSet(f, 1..n) + g[n + 1]
  <2>1. (\A k \in 1..n : f[k] \in Int /\ g[k] = f[k]) /\ g[n + 1] \in Int
    BY <1>3
  <2>2. QED
    BY <1>a, <2>1, SumAppend
<1>7. SumFunctionOnSet(f, 1..n) \in Nat
  <2>1. n \in Int
    BY <1>a
  <2>2. IsFiniteSet(1..n)
    BY <2>1, FS_Interval
  <2>3. \A k \in 1..n : f[k] \in Nat
    BY <1>3
  <2>4. QED
    BY <2>2, <2>3, SumNat
<1>8. QED
  BY <1>3, <1>4, <1>5, <1>6, <1>7

\* The quantity traded in a log for id.
TradedIn(log, id) ==
  SumFunction([k \in DOMAIN log |->
                 IF id \in {log[k].buy_id, log[k].sell_id} THEN log[k].qty ELSE 0])

LEMMA TradedInAppend ==
  ASSUME NEW log \in Seq(Trade), NEW t \in Trade, NEW id
  PROVE  /\ TradedIn(Append(log, t), id) =
              TradedIn(log, id) + (IF id \in {t.buy_id, t.sell_id} THEN t.qty ELSE 0)
         /\ TradedIn(log, id) \in Nat
<1>n. PICK n : n = Len(log)
  OBVIOUS
<1> DEFINE W(u) == IF id \in {u.buy_id, u.sell_id} THEN u.qty ELSE 0
<1>1. PICK f : f = [k \in DOMAIN log |-> W(log[k])]
  OBVIOUS
<1>2. PICK g : g = [k \in DOMAIN Append(log, t) |-> W(Append(log, t)[k])]
  OBVIOUS
<1>a. /\ n \in Nat /\ DOMAIN log = 1..n /\ DOMAIN Append(log, t) = 1..(n + 1)
      /\ \A k \in 1..n : log[k] \in Trade /\ Append(log, t)[k] = log[k]
      /\ Append(log, t)[n + 1] = t
  BY <1>n
<1>b. \A u \in Trade : W(u) \in Nat
  BY DEF Trade
<1>3. /\ n \in Nat /\ DOMAIN f = 1..n /\ DOMAIN g = 1..(n + 1)
      /\ \A k \in 1..n : f[k] \in Nat /\ g[k] = f[k]
      /\ g[n + 1] = W(t) /\ W(t) \in Nat
  <2> HIDE DEF W
  <2>1. QED
    BY <1>1, <1>2, <1>a, <1>b
<1>4. TradedIn(log, id) = SumFunctionOnSet(f, 1..n)
  BY <1>1, <1>3 DEF TradedIn, SumFunction
<1>5. TradedIn(Append(log, t), id) = SumFunctionOnSet(g, 1..(n + 1))
  BY <1>2, <1>3 DEF TradedIn, SumFunction
<1>6. SumFunctionOnSet(g, 1..(n + 1)) = SumFunctionOnSet(f, 1..n) + g[n + 1]
  <2>1. (\A k \in 1..n : f[k] \in Int /\ g[k] = f[k]) /\ g[n + 1] \in Int
    BY <1>3
  <2>2. QED
    BY <1>a, <2>1, SumAppend
<1>7. SumFunctionOnSet(f, 1..n) \in Nat
  <2>1. n \in Int
    BY <1>a
  <2>2. IsFiniteSet(1..n)
    BY <2>1, FS_Interval
  <2>3. \A k \in 1..n : f[k] \in Nat
    BY <1>3
  <2>4. QED
    BY <2>2, <2>3, SumNat
<1>8. QED
  BY <1>3, <1>4, <1>5, <1>6, <1>7

LEMMA TradedQtyIs ==
  ASSUME NEW id
  PROVE  TradedQty(id) = TradedIn(trade_log \o trades, id)
  BY DEF TradedQty, TradedIn

LEMMA TradedQtyNext ==
  ASSUME NEW id
  PROVE  TradedQty(id)' = TradedIn(trade_log' \o trades', id)
  BY DEF TradedQty, TradedIn

LEMMA TradedInNat ==
  ASSUME NEW log \in Seq(Trade), NEW id
  PROVE  TradedIn(log, id) \in Nat
<1>1. PICK t : t = [buy_id |-> NoId, sell_id |-> NoId, price_cents |-> 0, qty |-> 0]
  OBVIOUS
<1>2. t \in Trade
  BY <1>1 DEF Trade
<1>3. QED
  BY <1>2, TradedInAppend

LEMMA TradedQtyNat ==
  ASSUME TypeOK, NEW id
  PROVE  TradedQty(id) \in Nat
<1>1. trade_log \o trades \in Seq(Trade)
  BY DEF TypeOK
<1>2. PICK log \in Seq(Trade) : log = trade_log \o trades
  BY <1>1
<1>3. QED
  BY <1>2, TradedInNat, TradedQtyIs

LEMMA NothingTraded ==
  QtyOf(<< >>) = 0 /\ \A id : TradedIn(<< >>, id) = 0
  BY SumEmpty DEF QtyOf, TradedIn, SumFunction

\* What a step that makes the trade t of match_market_order does to the sums.
LEMMA QtyAfterTrade ==
  ASSUME TypeOK, NEW t \in Trade, trades' = Append(trades, t), UNCHANGED trade_log
  PROVE  /\ trades' \in Seq(Trade)
         /\ QtyOf(trades') = QtyOf(trades) + t.qty /\ QtyOf(trades) \in Nat
         /\ \A id : /\ TradedQty(id)' =
                         TradedQty(id) + (IF id \in {t.buy_id, t.sell_id} THEN t.qty ELSE 0)
                    /\ TradedQty(id) \in Nat
<1>1. trades \in Seq(Trade) /\ trade_log \in Seq(Trade)
  BY DEF TypeOK
<1>2. PICK old : old = trades
  OBVIOUS
<1>3. QtyOf(trades') = QtyOf(trades) + t.qty /\ QtyOf(trades) \in Nat
  BY <1>1, <1>2, QtyOfAppend
<1>4. PICK log : log = trade_log \o trades
  OBVIOUS
<1>5. log \in Seq(Trade) /\ trade_log' \o trades' = Append(log, t)
  BY <1>1, <1>4
<1>6. ASSUME NEW id
      PROVE  /\ TradedQty(id)' =
                  TradedQty(id) + (IF id \in {t.buy_id, t.sell_id} THEN t.qty ELSE 0)
             /\ TradedQty(id) \in Nat
  <2>1. TradedQty(id) = TradedIn(log, id)
    BY <1>4, TradedQtyIs
  <2>2. TradedQty(id)' = TradedIn(Append(log, t), id)
    BY <1>5, TradedQtyNext
  <2>3. QED
    BY <1>5, <2>1, <2>2, TradedInAppend
<1>7. QED
  BY <1>1, <1>3, <1>6

-----------------------------------------------------------------------------
(* The parts of the invariant, for each way the places change.              *)

\* Where the order now at t was before the order at r was taken out.
Source(r, t) == IF t = r THEN LastOf(r) ELSE t

LEMMA RemovedSource ==
  ASSUME LevelsOK, NEW r \in Resting, Removed(r)
  PROVE  /\ \A t \in Resting' : /\ Source(r, t) \in Resting
                                /\ OrderAt(t)' = OrderAt(Source(r, t))
                                /\ Source(r, t)[1] = t[1] /\ Source(r, t)[2] = t[2]
         /\ \A t, u \in Resting' : Source(r, t) = Source(r, u) => t = u
  BY DEF Removed, Source, LastOf

LEMMA RestingInvRemoved ==
  ASSUME LevelsOK, RestingInv, NEW r \in Resting, Removed(r),
         UNCHANGED <<used, timestamp_counter>>
  PROVE  RestingInv'
<1>1. ASSUME NEW t \in Resting'
      PROVE  /\ IdAt(t)' \in used' /\ MIN_PRICE + t[2] \in Prices
             /\ OrderAt(t)'.timestamp < timestamp_counter'
  <2>1. PICK u \in Resting : OrderAt(t)' = OrderAt(u) /\ u[2] = t[2]
    BY RemovedSource
  <2>2. QED
    BY <2>1 DEF RestingInv, IdAt
<1>2. ASSUME NEW t \in Resting', NEW u \in Resting',
             OrderAt(t)'.timestamp = OrderAt(u)'.timestamp
      PROVE  t = u
  BY <1>2, RemovedSource DEF RestingInv
<1>3. QED
  BY <1>1, <1>2 DEF RestingInv

\* A trade of the log or of the call in progress stays one of them.
TradesKept == \A s, l : TradedAt(s, l) => TradedAt(s, l)'

LEMMA SameTrades ==
  ASSUME trade_log' \o trades' = trade_log \o trades
  PROVE  TradesKept
  BY DEF TradesKept, TradedAt

LEMMA OneMoreTrade ==
  ASSUME TypeOK, NEW t \in Trade, trades' = Append(trades, t), UNCHANGED trade_log
  PROVE  /\ TradesKept
         /\ \A s, l : /\ t.price_cents = MIN_PRICE + l
                      /\ (IF s = "BUY" THEN t.buy_id ELSE t.sell_id) # NoId
                      => TradedAt(s, l)'
<1>1. PICK log : log = trade_log \o trades
  OBVIOUS
<1>2. log \in Seq(Trade) /\ trade_log' \o trades' = Append(log, t)
  BY <1>1 DEF TypeOK
<1>3. PICK new : new = Append(log, t)
  OBVIOUS
<1>4. /\ \A k \in DOMAIN log : k \in DOMAIN new /\ new[k] = log[k]
      /\ \E k \in DOMAIN new : new[k] = t
  <2>1. Len(log) + 1 \in DOMAIN new /\ new[Len(log) + 1] = t
    BY <1>2, <1>3
  <2>2. QED
    BY <1>2, <1>3, <2>1
<1>5. ASSUME NEW s, NEW l, TradedAt(s, l)
      PROVE  TradedAt(s, l)'
  <2>1. PICK k \in DOMAIN log :
          /\ log[k].price_cents = MIN_PRICE + l
          /\ (IF s = "BUY" THEN log[k].buy_id ELSE log[k].sell_id) # NoId
    BY <1>1, <1>5 DEF TradedAt
  <2>2. k \in DOMAIN new /\ new[k] = log[k]
    BY <1>4
  <2>3. QED
    BY <1>2, <1>3, <2>1, <2>2 DEF TradedAt
<1>6. ASSUME NEW s, NEW l, t.price_cents = MIN_PRICE + l,
             (IF s = "BUY" THEN t.buy_id ELSE t.sell_id) # NoId
      PROVE  TradedAt(s, l)'
  BY <1>2, <1>3, <1>4, <1>6 DEF TradedAt
<1>7. QED
  BY <1>5, <1>6 DEF TradesKept

\* The index when entries stay as they are, or when one is erased whose order
\* does not rest any more or rests beside a fill.
LEMMA IndexAgreesSame ==
  ASSUME IndexAgrees, TradesKept, UNCHANGED reused, Resting' = Resting,
         \A r \in Resting : IdAt(r)' = IdAt(r) /\ order_index'[IdAt(r)] = order_index[IdAt(r)]
  PROVE  IndexAgrees'
<1> SUFFICES ASSUME ~reused
             PROVE  /\ \A r \in Resting :
                         \/ order_index'[IdAt(r)'] = <<r[1], r[2]>>
                         \/ order_index'[IdAt(r)'] = NoEntry /\ TradedAt(r[1], r[2])'
                    /\ \A r, t \in Resting : IdAt(r)' = IdAt(t)' => r = t
  BY DEF IndexAgrees
<1>1. ASSUME NEW r \in Resting
      PROVE  \/ order_index'[IdAt(r)'] = <<r[1], r[2]>>
             \/ order_index'[IdAt(r)'] = NoEntry /\ TradedAt(r[1], r[2])'
  <2>1. \/ order_index[IdAt(r)] = <<r[1], r[2]>>
        \/ order_index[IdAt(r)] = NoEntry /\ TradedAt(r[1], r[2])
    BY DEF IndexAgrees
  <2>2. TradedAt(r[1], r[2]) => TradedAt(r[1], r[2])'
    BY DEF TradesKept
  <2>3. QED
    BY <2>1, <2>2
<1>2. QED
  BY <1>1 DEF IndexAgrees

LEMMA IndexAgreesRemoved ==
  ASSUME LevelsOK, IndexAgrees, NEW r \in Resting, Removed(r), NEW id,
         order_index \in [OrderIds -> (Sides \X Levels) \cup {NoEntry}],
         order_index' = [order_index EXCEPT ![id] = NoEntry],
         UNCHANGED reused, TradesKept,
         ~reused => \A t \in Resting' : IdAt(t)' = id => TradedAt(t[1], t[2])'
  PROVE  IndexAgrees'
<1> SUFFICES ASSUME ~reused
             PROVE  /\ \A t \in Resting' :
                         \/ order_index'[IdAt(t)'] = <<t[1], t[2]>>
                         \/ order_index'[IdAt(t)'] = NoEntry /\ TradedAt(t[1], t[2])'
                    /\ \A t, u \in Resting' : IdAt(t)' = IdAt(u)' => t = u
  BY DEF IndexAgrees
<1>1. ASSUME NEW t \in Resting'
      PROVE  \/ order_index'[IdAt(t)'] = <<t[1], t[2]>>
             \/ order_index'[IdAt(t)'] = NoEntry /\ TradedAt(t[1], t[2])'
  <2>1. PICK u \in Resting : OrderAt(t)' = OrderAt(u) /\ u[1] = t[1] /\ u[2] = t[2]
    BY RemovedSource
  <2>2. IdAt(t)' = IdAt(u) /\ IdAt(u) \in OrderIds
    BY <2>1, RestingOrder DEF IdAt, Order
  <2>3. \/ order_index[IdAt(u)] = <<t[1], t[2]>>
        \/ order_index[IdAt(u)] = NoEntry /\ TradedAt(t[1], t[2])
    BY <2>1 DEF IndexAgrees
  <2>4. CASE IdAt(u) = id
    <3>1. order_index'[IdAt(u)] = NoEntry
      BY <2>2, <2>4
    <3>2. TradedAt(t[1], t[2])'
      BY <2>2, <2>4
    <3>3. QED
      BY <2>2, <3>1, <3>2
  <2>5. CASE IdAt(u) # id
    <3>1. order_index'[IdAt(u)] = order_index[IdAt(u)]
      BY <2>2, <2>5
    <3>2. TradedAt(t[1], t[2]) => TradedAt(t[1], t[2])'
      BY DEF TradesKept
    <3>3. QED
      BY <2>2, <2>3, <3>1, <3>2
  <2>6. QED
    BY <2>4, <2>5
<1>2. ASSUME NEW t \in Resting', NEW u \in Resting', IdAt(t)' = IdAt(u)'
      PROVE  t = u
  BY <1>2, RemovedSource DEF IndexAgrees, IdAt
<1>3. QED
  BY <1>1, <1>2

\* The new order is the youngest.
LEMMA RestingInvAppended ==
  ASSUME LevelsOK, RestingInv, NEW new, NEW o \in Order, Appended(new, o),
         o.id \in used', MIN_PRICE + new[2] \in Prices, o.timestamp = timestamp_counter,
         timestamp_counter \in Nat, timestamp_counter' = timestamp_counter + 1,
         used \subseteq used'
  PROVE  RestingInv'
<1>0. \A r \in Resting : OrderAt(r).timestamp \in Nat
  BY RestingOrder DEF Order
<1>1. ASSUME NEW t \in Resting'
      PROVE  /\ IdAt(t)' \in used' /\ MIN_PRICE + t[2] \in Prices
             /\ OrderAt(t)'.timestamp < timestamp_counter'
  <2>1. CASE t = new
    BY <2>1 DEF Appended, IdAt
  <2>2. CASE t # new
    <3>1. t \in Resting /\ OrderAt(t)' = OrderAt(t)
      BY <2>2 DEF Appended
    <3>2. QED
      BY <1>0, <3>1 DEF RestingInv, IdAt
  <2>3. QED
    BY <2>1, <2>2
<1>2. ASSUME NEW t \in Resting', NEW u \in Resting',
             OrderAt(t)'.timestamp = OrderAt(u)'.timestamp
      PROVE  t = u
  <2>1. \A r \in Resting : OrderAt(r)'.timestamp < o.timestamp
    BY <1>0 DEF Appended, RestingInv
  <2>2. OrderAt(new)' = o /\ \A r \in Resting' : r \in Resting \/ r = new
    BY DEF Appended
  <2>3. CASE t \in Resting /\ u \in Resting
    BY <1>2, <2>3 DEF Appended, RestingInv
  <2>4. CASE t = new /\ u \in Resting
    BY <1>0, <1>2, <2>1, <2>2, <2>4 DEF Appended
  <2>5. CASE t \in Resting /\ u = new
    BY <1>0, <1>2, <2>1, <2>2, <2>5 DEF Appended
  <2>6. QED
    BY <2>2, <2>3, <2>4, <2>5
<1>3. QED
  BY <1>1, <1>2 DEF RestingInv

\* The state after the constructor and after clear().
Fresh ==
  /\ levels = Empty
  /\ order_index = [id \in OrderIds |-> NoEntry]
  /\ trade_log = << >>
  /\ timestamp_counter = 0
  /\ NoCall /\ qty \in Nat /\ i \in -1..PRICE_LEVELS /\ trades = << >> /\ asked = qty
  /\ NoHistory

LEMMA FreshOK == Fresh => IInv
<1> SUFFICES ASSUME Fresh PROVE IInv
  OBVIOUS
<1>1. LevelsOK /\ Resting = {}
  <2>1. levels = Empty
    BY DEF Fresh
  <2>2. << >> \in Seq(Order) /\ Len(<< >>) = 0
    OBVIOUS
  <2>3. LevelsOK
    BY <2>1, <2>2, Constants DEF LevelsOK, Empty
  <2>4. \A s \in Sides, l \in Levels : Len(levels[s][l]) = 0
    BY <2>1, <2>2 DEF Empty
  <2>5. Resting = {}
    BY <2>3, <2>4, RestingPlace DEF Places
  <2>6. QED
    BY <2>3, <2>5
<1>2. TypeOK
  <2>1. side \in Sides \cup {"none"} /\ qty \in Nat /\ i \in -1..PRICE_LEVELS /\ asked \in Nat
    BY DEF Fresh, NoCall
  <2>2. timestamp_counter \in 0..MaxOrders
    BY Constants DEF Fresh
  <2>3. trade_log \in Seq(Trade) /\ trades \in Seq(Trade)
    BY DEF Fresh
  <2>4. /\ order_index \in [OrderIds -> (Sides \X Levels) \cup {NoEntry}]
        /\ placed \in [OrderIds -> Nat] /\ cancelled \in [OrderIds -> Nat]
    BY DEF Fresh, NoHistory
  <2>5. used \subseteq OrderIds /\ reused \in BOOLEAN
    BY Zenon DEF Fresh, NoHistory
  <2>6. QED
    BY <1>1, <2>1, <2>2, <2>3, <2>4, <2>5 DEF TypeOK, LevelsOK
<1>3. RestingInv /\ IndexAgrees
  BY <1>1 DEF RestingInv, IndexAgrees
<1>4. MatchInv
  BY DEF MatchInv, Fresh
<1>5. QuantityConserved
  <2>1. \A id \in OrderIds : RestingQty(id) = 0
    BY <1>1, SumEmpty DEF RestingQty, SumFunction
  <2>2. \A id \in OrderIds : TradedQty(id) = 0
    BY NothingTraded, TradedQtyIs DEF Fresh
  <2>3. QED
    BY <2>1, <2>2, NothingTraded DEF QuantityConserved, Fresh, NoHistory
<1>6. QED
  BY <1>2, <1>3, <1>4, <1>5 DEF IInv

-----------------------------------------------------------------------------
(* The invariant is kept, action by action.                                 *)

LEMMA AddOK ==
  ASSUME IInv, NEW id \in OrderIds, NEW p \in Prices, NEW q \in Quantities, NEW s \in Sides,
         AddOrder(id, p, q, s)
  PROVE  IInv'
<1>1. PICK l : l = p - MIN_PRICE
  OBVIOUS
<1>2. PICK o : o = [id |-> id, qty |-> q, timestamp |-> timestamp_counter]
  OBVIOUS
<1>3. TypeOK /\ RestingInv /\ MatchInv /\ IndexAgrees /\ QuantityConserved /\ LevelsOK
  BY TypeOKLevels DEF IInv
<1>4. l \in Levels /\ MIN_PRICE + l = p
  BY <1>1, Constants DEF AddOrder, InRange, Levels
<1>5. o \in Order /\ o.id = id /\ o.qty = q /\ o.timestamp = timestamp_counter /\ q \in Nat
  BY <1>2, <1>3, Constants DEF TypeOK, Order
<1>6. /\ levels' = [levels EXCEPT ![s][l] = Append(@, o)]
      /\ order_index' = [order_index EXCEPT ![id] = <<s, l>>]
      /\ ~(Len(levels[s][l]) >= MAX_ORDERS_PER_LEVEL)
  BY <1>1, <1>2 DEF AddOrder, IndexEntry, LevelFull
<1>7. Len(levels[s][l]) < MAX_ORDERS_PER_LEVEL
  BY <1>3, <1>4, <1>6, Constants DEF LevelsOK
<1>8. LevelsOK' /\ \E new : new[1] = s /\ new[2] = l /\ Appended(new, o)
  BY <1>3, <1>4, <1>5, <1>6, <1>7, AppendResult
<1>9. PICK new : new[1] = s /\ new[2] = l /\ Appended(new, o)
  BY <1>8
<1>10. TypeOK'
  <2>1. timestamp_counter' \in 0..MaxOrders
    BY <1>3, Constants DEF AddOrder, TypeOK
  <2>2. order_index' \in [OrderIds -> (Sides \X Levels) \cup {NoEntry}]
    BY <1>3, <1>4, <1>6 DEF TypeOK
  <2>3. placed' \in [OrderIds -> Nat]
    BY <1>3, <1>5 DEF AddOrder, TypeOK
  <2>4. used' \subseteq OrderIds
    BY <1>3 DEF AddOrder, TypeOK
  <2>5. reused' \in BOOLEAN
    BY Zenon DEF AddOrder
  <2>6. QED
    BY <1>3, <1>8, <2>1, <2>2, <2>3, <2>4, <2>5 DEF AddOrder, match, TypeOK, LevelsOK
<1>11. RestingInv'
  <2>1. /\ o.id \in used' /\ used \subseteq used' /\ MIN_PRICE + new[2] \in Prices
        /\ timestamp_counter \in Nat /\ timestamp_counter' = timestamp_counter + 1
    BY <1>3, <1>4, <1>5, <1>9 DEF AddOrder, TypeOK
  <2>2. QED
    BY <1>3, <1>5, <1>9, <2>1, RestingInvAppended
<1>12. MatchInv'
  BY <1>3 DEF AddOrder, MatchInv, NoCall, match
<1>13. IndexAgrees'
  <2> SUFFICES ASSUME ~reused'
               PROVE  /\ \A r \in Resting' :
                           \/ order_index'[IdAt(r)'] = <<r[1], r[2]>>
                           \/ order_index'[IdAt(r)'] = NoEntry /\ TradedAt(r[1], r[2])'
                      /\ \A r, t \in Resting' : IdAt(r)' = IdAt(t)' => r = t
    BY DEF IndexAgrees
  <2>1. ~reused /\ id \notin used
    BY Zenon DEF AddOrder
  <2>2. \A r \in Resting : IdAt(r)' = IdAt(r) /\ IdAt(r) # id /\ IdAt(r) \in OrderIds
    BY <1>3, <1>9, <2>1, RestingOrder DEF Appended, RestingInv, IdAt, Order
  <2>3. IdAt(new)' = id /\ \A r \in Resting' : r \in Resting \/ r = new
    BY <1>5, <1>9 DEF Appended, IdAt
  <2>4. TradesKept
    BY SameTrades DEF AddOrder, match
  <2>5. ASSUME NEW r \in Resting
        PROVE  \/ order_index'[IdAt(r)'] = <<r[1], r[2]>>
               \/ order_index'[IdAt(r)'] = NoEntry /\ TradedAt(r[1], r[2])'
    <3>1. order_index'[IdAt(r)'] = order_index[IdAt(r)]
      BY <1>3, <1>6, <2>2 DEF TypeOK
    <3>2. \/ order_index[IdAt(r)] = <<r[1], r[2]>>
          \/ order_index[IdAt(r)] = NoEntry /\ TradedAt(r[1], r[2])
      BY <1>3, <2>1 DEF IndexAgrees
    <3>3. QED
      BY <2>4, <3>1, <3>2 DEF TradesKept
  <2>6. order_index'[id] = <<new[1], new[2]>>
    BY <1>3, <1>6, <1>9 DEF TypeOK
  <2>7. \A r, t \in Resting : IdAt(r) = IdAt(t) => r = t
    BY <1>3, <2>1 DEF IndexAgrees
  <2>8. \A r \in Resting' :
          \/ order_index'[IdAt(r)'] = <<r[1], r[2]>>
          \/ order_index'[IdAt(r)'] = NoEntry /\ TradedAt(r[1], r[2])'
    BY <2>3, <2>5, <2>6
  <2>9. \A r, t \in Resting' : IdAt(r)' = IdAt(t)' => r = t
    BY <2>2, <2>3, <2>7
  <2>10. QED
    BY <2>8, <2>9
<1>14. QuantityConserved'
  <2>1. ASSUME NEW x \in OrderIds
        PROVE  placed'[x] = RestingQty(x)' + TradedQty(x)' + cancelled'[x]
    <3>1. RestingQty(x)' = RestingQty(x) + (IF id = x THEN q ELSE 0)
      BY <1>3, <1>5, <1>8, <1>9, QtyAfterAppend
    <3>2. TradedQty(x)' = TradedQty(x) /\ cancelled' = cancelled
      BY TradedQtyIs, TradedQtyNext DEF AddOrder, match
    <3>3. placed'[x] = placed[x] + (IF id = x THEN q ELSE 0)
      BY <1>3, <1>5 DEF AddOrder, TypeOK
    <3>4. RestingQty(x) \in Nat /\ TradedQty(x) \in Int /\ cancelled[x] \in Nat
      BY <1>3, RestingQtyNat, TradedQtyNat DEF TypeOK
    <3>5. placed[x] = RestingQty(x) + TradedQty(x) + cancelled[x]
      BY <1>3 DEF QuantityConserved
    <3>6. QED
      BY <1>5, <3>1, <3>2, <3>3, <3>4, <3>5
  <2>2. asked' = qty' + QtyOf(trades')
    BY <1>3 DEF AddOrder, match, QuantityConserved
  <2>3. QED
    BY <2>1, <2>2 DEF QuantityConserved
<1>15. QED
  BY <1>10, <1>11, <1>12, <1>13, <1>14 DEF IInv

\* The order a cancel takes out, and what that does to the index.
LEMMA CancelResult ==
  ASSUME TypeOK, NEW id \in OrderIds, CancelOrder(id)
  PROVE  \E r \in Resting :
           /\ LevelsOK' /\ Removed(r) /\ IdAt(r) = id
           /\ cancelled' = [cancelled EXCEPT ![id] = @ + OrderAt(r).qty]
           /\ r[1] = order_index[id][1] /\ r[2] = order_index[id][2]
           /\ levels' = [levels EXCEPT ![r[1]][r[2]] = SwapAndPop(@, r[3])]
<1>1. PICK s : s = order_index[id][1]
  OBVIOUS
<1>2. PICK l : l = order_index[id][2]
  OBVIOUS
<1>3. s \in Sides /\ l \in Levels
  BY <1>1, <1>2 DEF CancelOrder, TypeOK
<1>4. PICK k \in Found(id) :
        /\ levels' = [levels EXCEPT ![s][l] = SwapAndPop(@, k)]
        /\ cancelled' = [cancelled EXCEPT ![id] = @ + levels[s][l][k].qty]
  BY <1>1, <1>2 DEF CancelOrder
<1>5. k \in 1..Len(levels[s][l]) /\ levels[s][l][k].id = id
  BY <1>1, <1>2, <1>4 DEF Found
<1>6. PICK r : r = <<s, l, k>>
  OBVIOUS
<1>7. r \in Resting /\ OrderAt(r) = levels[s][l][k] /\ r[1] = s /\ r[2] = l /\ r[3] = k
  <2>1. k \in Nat
    BY <1>5
  <2>2. QED
    BY <1>3, <1>5, <1>6, <2>1, TypeOKLevels, RestingPlace DEF Places, OrderAt
<1>8. levels' = [levels EXCEPT ![r[1]][r[2]] = SwapAndPop(@, r[3])]
  BY <1>4, <1>7
<1>9. LevelsOK' /\ Removed(r)
  BY <1>7, <1>8, TypeOKLevels, RemoveResult
<1>10. QED
  BY <1>1, <1>2, <1>4, <1>5, <1>7, <1>8, <1>9 DEF IdAt

LEMMA CancelOK ==
  ASSUME IInv, NEW id \in OrderIds, CancelOrder(id)
  PROVE  IInv'
<1>1. TypeOK /\ RestingInv /\ MatchInv /\ IndexAgrees /\ QuantityConserved /\ LevelsOK
  BY TypeOKLevels DEF IInv
<1>2. PICK r \in Resting :
        /\ LevelsOK' /\ Removed(r) /\ IdAt(r) = id
        /\ cancelled' = [cancelled EXCEPT ![id] = @ + OrderAt(r).qty]
  BY <1>1, CancelResult
<1>3. OrderAt(r).qty \in Nat
  BY <1>1, RestingOrder DEF Order
<1>4. TypeOK'
  <2>1. order_index' \in [OrderIds -> (Sides \X Levels) \cup {NoEntry}]
    BY <1>1 DEF CancelOrder, TypeOK
  <2>2. cancelled' \in [OrderIds -> Nat]
    BY <1>1, <1>2, <1>3 DEF TypeOK
  <2>3. used' \subseteq OrderIds /\ reused' \in BOOLEAN
    BY <1>1, Zenon DEF CancelOrder, TypeOK
  <2>4. QED
    BY <1>1, <1>2, <2>1, <2>2, <2>3 DEF CancelOrder, match, TypeOK, LevelsOK
<1>5. RestingInv'
  <2>1. UNCHANGED <<used, timestamp_counter>>
    BY DEF CancelOrder
  <2>2. QED
    BY <1>1, <1>2, <2>1, RestingInvRemoved
<1>6. MatchInv'
  BY <1>1 DEF CancelOrder, MatchInv, NoCall, match
<1>7. IndexAgrees'
  <2>1. /\ order_index \in [OrderIds -> (Sides \X Levels) \cup {NoEntry}]
        /\ order_index' = [order_index EXCEPT ![id] = NoEntry]
        /\ UNCHANGED reused
    BY <1>1 DEF CancelOrder, TypeOK
  <2>2. TradesKept
    BY SameTrades DEF CancelOrder, match
  <2>3. ASSUME ~reused, NEW t \in Resting' PROVE IdAt(t)' # id
    <3>1. /\ Source(r, t) \in Resting /\ IdAt(t)' = IdAt(Source(r, t))
          /\ t # LastOf(r)
      BY <1>1, <1>2, RemovedSource DEF IdAt, Removed
    <3>2. Source(r, t) # r
      BY <3>1 DEF Source
    <3>3. QED
      BY <1>1, <1>2, <2>3, <3>1, <3>2 DEF IndexAgrees
  <2>4. QED
    BY <1>1, <1>2, <2>1, <2>2, <2>3, IndexAgreesRemoved
<1>8. QuantityConserved'
  <2>1. ASSUME NEW x \in OrderIds
        PROVE  placed'[x] = RestingQty(x)' + TradedQty(x)' + cancelled'[x]
    <3>1. RestingQty(x)' = RestingQty(x) - (IF id = x THEN OrderAt(r).qty ELSE 0)
      BY <1>1, <1>2, QtyAfterRemove
    <3>2. TradedQty(x)' = TradedQty(x) /\ placed' = placed
      BY TradedQtyIs, TradedQtyNext DEF CancelOrder, match
    <3>3. cancelled'[x] = cancelled[x] + (IF id = x THEN OrderAt(r).qty ELSE 0)
      BY <1>1, <1>2, <1>3 DEF TypeOK
    <3>4. RestingQty(x) \in Nat /\ TradedQty(x) \in Nat /\ cancelled[x] \in Nat
      BY <1>1, RestingQtyNat, TradedQtyNat DEF TypeOK
    <3>5. placed[x] = RestingQty(x) + TradedQty(x) + cancelled[x]
      BY <1>1 DEF QuantityConserved
    <3>6. QED
      BY <1>3, <3>1, <3>2, <3>3, <3>4, <3>5
  <2>2. asked' = qty' + QtyOf(trades')
    BY <1>1 DEF CancelOrder, match, QuantityConserved
  <2>3. QED
    BY <2>1, <2>2 DEF QuantityConserved
<1>9. QED
  BY <1>4, <1>5, <1>6, <1>7, <1>8 DEF IInv

\* A step that leaves the levels, the history and the orders' clock alone.
LEMMA SameLevels ==
  ASSUME UNCHANGED <<levels, timestamp_counter, history>>
  PROVE  /\ Resting' = Resting
         /\ \A r : OrderAt(r)' = OrderAt(r)
         /\ RestingInv => RestingInv'
         /\ \A x : RestingQty(x)' = RestingQty(x)
<1>1. Resting' = Resting /\ \A r : OrderAt(r)' = OrderAt(r)
  BY DEF Resting, OrderAt
<1>2. RestingInv => RestingInv'
  BY <1>1 DEF RestingInv, IdAt, history
<1>3. QED
  BY <1>1, <1>2, QtyUnchanged

LEMMA StaleEntryOK ==
  ASSUME IInv, NEW id \in OrderIds, CancelStaleEntry(id)
  PROVE  IInv'
<1>1. TypeOK /\ RestingInv /\ MatchInv /\ IndexAgrees /\ QuantityConserved /\ LevelsOK
  BY TypeOKLevels DEF IInv
<1>2. UNCHANGED <<levels, timestamp_counter, history>>
  BY DEF CancelStaleEntry
<1>3. TypeOK'
  <2>1. order_index' \in [OrderIds -> (Sides \X Levels) \cup {NoEntry}]
    BY <1>1 DEF CancelStaleEntry, TypeOK
  <2>2. used' \subseteq OrderIds /\ reused' \in BOOLEAN
    BY <1>1, Zenon DEF CancelStaleEntry, TypeOK, history
  <2>3. QED
    BY <1>1, <2>1, <2>2 DEF CancelStaleEntry, match, history, TypeOK
<1>4. RestingInv'
  BY <1>1, <1>2, SameLevels
<1>5. MatchInv'
  BY <1>1 DEF CancelStaleEntry, MatchInv, NoCall, match
<1>6. IndexAgrees'
  <2>1. \A r \in Resting : IdAt(r) \in OrderIds /\ IdAt(r)' = IdAt(r)
    BY <1>1, <1>2, RestingOrder, SameLevels DEF IdAt, Order
  <2>2. reused' = reused /\ Resting' = Resting /\ TradesKept
    BY <1>2, SameLevels, SameTrades DEF CancelStaleEntry, match, history
  <2>3. CASE reused
    BY <2>2, <2>3 DEF IndexAgrees
  <2>4. CASE ~reused
    <3>1. ASSUME NEW r \in Resting PROVE IdAt(r) # id
      <4>1. SUFFICES ASSUME IdAt(r) = id PROVE FALSE
        OBVIOUS
      <4>2. order_index[id] # NoEntry /\ Found(id) = {}
        BY DEF CancelStaleEntry
      <4>3. order_index[id] = <<r[1], r[2]>>
        BY <1>1, <2>4, <4>1, <4>2 DEF IndexAgrees
      <4>4. r[3] \in 1..Len(levels[r[1]][r[2]]) /\ levels[r[1]][r[2]][r[3]].id = id
        BY <1>1, <4>1, RestingOrder DEF IdAt, OrderAt
      <4>5. r[3] \in Found(id)
        BY <4>3, <4>4 DEF Found
      <4>6. QED
        BY <4>2, <4>5
    <3>2. \A r \in Resting : order_index'[IdAt(r)] = order_index[IdAt(r)]
      BY <1>1, <2>1, <3>1 DEF CancelStaleEntry, TypeOK
    <3>3. QED
      BY <1>1, <2>1, <2>2, <3>2, IndexAgreesSame
  <2>5. QED
    BY <2>3, <2>4
<1>7. QuantityConserved'
  <2>1. \A x : TradedQty(x)' = TradedQty(x)
    BY TradedQtyIs, TradedQtyNext DEF CancelStaleEntry, match
  <2>2. QED
    BY <1>1, <1>2, <2>1, SameLevels DEF QuantityConserved, CancelStaleEntry, match, history
<1>8. QED
  BY <1>3, <1>4, <1>5, <1>6, <1>7 DEF IInv

LEMMA MatchMarketOrderOK ==
  ASSUME IInv, NEW q \in MarketQuantities, NEW s \in Sides, MatchMarketOrder(q, s)
  PROVE  IInv'
<1>1. TypeOK /\ RestingInv /\ MatchInv /\ IndexAgrees /\ QuantityConserved /\ LevelsOK
  BY TypeOKLevels DEF IInv
<1>2. UNCHANGED <<levels, timestamp_counter, history>>
  BY DEF MatchMarketOrder
<1>3. q \in Nat /\ trades = << >> /\ trades' = << >> /\ s # "none"
  BY <1>1, Constants DEF MatchMarketOrder, MatchInv, Sides
<1>4. TypeOK'
  <2>1. i' \in -1..PRICE_LEVELS
    BY Constants DEF MatchMarketOrder, FirstLevel
  <2>2. used' \subseteq OrderIds /\ reused' \in BOOLEAN
    BY <1>1, Zenon DEF MatchMarketOrder, TypeOK, history
  <2>3. QED
    BY <1>1, <1>3, <2>1, <2>2 DEF MatchMarketOrder, history, TypeOK
<1>5. RestingInv'
  BY <1>1, <1>2, SameLevels
<1>6. MatchInv'
  <2>1. ~NoCall' /\ side' = s
    BY <1>3 DEF MatchMarketOrder, NoCall
  <2>2. i' \in IF s = "BUY" THEN 0..PRICE_LEVELS ELSE -1..(PRICE_LEVELS - 1)
    BY Constants DEF MatchMarketOrder, FirstLevel
  <2>3. \A l \in Levels : ~Passed(l)'
    BY Constants, <2>1 DEF MatchMarketOrder, FirstLevel, Passed, Levels
  <2>4. QED
    BY <2>1, <2>2, <2>3 DEF MatchInv
<1>7. IndexAgrees'
  <2>1. UNCHANGED <<order_index, reused>> /\ Resting' = Resting /\ \A r : OrderAt(r)' = OrderAt(r)
    BY <1>2, SameLevels DEF MatchMarketOrder, history
  <2>2. TradesKept
    BY <1>3, SameTrades DEF MatchMarketOrder
  <2>3. QED
    BY <1>1, <2>1, <2>2, IndexAgreesSame DEF IdAt
<1>8. QuantityConserved'
  <2>1. \A x : TradedQty(x)' = TradedQty(x)
    BY <1>3, TradedQtyIs, TradedQtyNext DEF MatchMarketOrder
  <2>2. asked' = qty' + QtyOf(trades')
    BY <1>3, NothingTraded DEF MatchMarketOrder
  <2>3. QED
    BY <1>1, <1>2, <2>1, <2>2, SameLevels DEF QuantityConserved, history
<1>9. QED
  BY <1>4, <1>5, <1>6, <1>7, <1>8 DEF IInv

\* What both steps of the inner loop leave of MatchInv and of the sums.
LEMMA PassedStayEmpty ==
  ASSUME TypeOK, MatchInv, Matching, UNCHANGED <<side, i>>,
         \A l \in Levels : l # i => levels'[Opposite(side)][l] = levels[Opposite(side)][l]
  PROVE  MatchInv'
<1>1. ~NoCall /\ ~NoCall'
  BY DEF Matching, NoCall
<1>2. i' \in IF side' = "BUY" THEN 0..PRICE_LEVELS ELSE -1..(PRICE_LEVELS - 1)
  BY <1>1 DEF MatchInv
<1>3. ASSUME NEW l \in Levels, Passed(l)'
      PROVE  levels'[Opposite(side')][l] = << >>
  <2>1. Passed(l) /\ l # i
    BY <1>3, FirstRests DEF Passed, Levels
  <2>2. levels[Opposite(side)][l] = << >>
    BY <1>1, <2>1 DEF MatchInv
  <2>3. QED
    BY <2>1, <2>2
<1>4. QED
  BY <1>1, <1>2, <1>3 DEF MatchInv

LEMMA TradeConserves ==
  ASSUME IInv, Matching, LevelsOK, trades' = Append(trades, TheTrade),
         qty' = qty - TheTrade.qty,
         UNCHANGED <<trade_log, asked, placed, cancelled>>,
         \A x \in OrderIds :
           RestingQty(x)' = RestingQty(x) - (IF Level[1].id = x THEN TheTrade.qty ELSE 0)
  PROVE  trades' \in Seq(Trade) /\ qty' \in Nat /\ QuantityConserved'
<1>1. TypeOK /\ QuantityConserved
  BY DEF IInv
<1>2. PICK t : t = TheTrade
  OBVIOUS
<1>3. /\ t \in Trade /\ t.qty \in Nat /\ t.qty <= qty /\ qty \in Nat
      /\ {t.buy_id, t.sell_id} = {NoId, Level[1].id}
  BY <1>1, <1>2, TradeType DEF TypeOK
<1>4. trades' = Append(trades, t) /\ UNCHANGED trade_log
  BY <1>2
<1>5. /\ trades' \in Seq(Trade)
      /\ QtyOf(trades') = QtyOf(trades) + t.qty /\ QtyOf(trades) \in Nat
      /\ \A x : /\ TradedQty(x)' =
                     TradedQty(x) + (IF x \in {t.buy_id, t.sell_id} THEN t.qty ELSE 0)
                /\ TradedQty(x) \in Nat
  BY <1>1, <1>3, <1>4, QtyAfterTrade
<1>6. qty' \in Nat /\ qty' = qty - t.qty
  BY <1>2, <1>3
<1>7. ASSUME NEW x \in OrderIds
      PROVE  placed'[x] = RestingQty(x)' + TradedQty(x)' + cancelled'[x]
  <2>1. RestingQty(x)' = RestingQty(x) - (IF Level[1].id = x THEN t.qty ELSE 0)
    BY <1>2
  <2>2. TradedQty(x)' = TradedQty(x) + (IF Level[1].id = x THEN t.qty ELSE 0)
    <3>1. x \in {t.buy_id, t.sell_id} <=> Level[1].id = x
      BY <1>3, Constants
    <3>2. QED
      BY <1>5, <3>1
  <2>3. RestingQty(x) \in Nat /\ TradedQty(x) \in Nat /\ cancelled[x] \in Nat
    BY <1>1, <1>5, RestingQtyNat DEF TypeOK
  <2>4. placed[x] = RestingQty(x) + TradedQty(x) + cancelled[x]
    BY <1>1 DEF QuantityConserved
  <2>5. QED
    BY <1>3, <2>1, <2>2, <2>3, <2>4
<1>8. asked' = qty' + QtyOf(trades')
  BY <1>1, <1>3, <1>5, <1>6 DEF QuantityConserved
<1>9. QED
  BY <1>5, <1>6, <1>7, <1>8 DEF QuantityConserved

LEMMA TradeAtLevel ==
  ASSUME TypeOK, Matching, trades' = Append(trades, TheTrade), UNCHANGED trade_log
  PROVE  /\ TradesKept
         /\ \A s, l : s = Opposite(side) /\ l = i => TradedAt(s, l)'
<1>1. PICK t : t = TheTrade
  OBVIOUS
<1>2. t \in Trade /\ t.price_cents = i + MIN_PRICE /\ i \in Int
  BY <1>1, FirstRests, TradeType DEF Levels
<1>3. Level[1].id # NoId
  BY FirstRests, Constants DEF Order
<1>4. (IF Opposite(side) = "BUY" THEN t.buy_id ELSE t.sell_id) # NoId
  BY <1>1, <1>3, FirstRests DEF TheTrade, Opposite, Sides
<1>5. trades' = Append(trades, t)
  BY <1>1
<1>6. /\ TradesKept
      /\ \A s, l : /\ t.price_cents = MIN_PRICE + l
                   /\ (IF s = "BUY" THEN t.buy_id ELSE t.sell_id) # NoId
                   => TradedAt(s, l)'
  BY <1>2, <1>5, OneMoreTrade
<1>7. t.price_cents = MIN_PRICE + i
  BY <1>2, Constants
<1>8. QED
  BY <1>4, <1>6, <1>7

LEMMA MatchFillsOK ==
  ASSUME IInv, MatchFillsOrder
  PROVE  IInv'
<1>1. TypeOK /\ RestingInv /\ MatchInv /\ IndexAgrees /\ QuantityConserved /\ LevelsOK
  BY TypeOKLevels DEF IInv
<1>2. PICK r : r = AtFirst
  OBVIOUS
<1>3. /\ Matching /\ LevelsOK' /\ Removed(AtFirst)
      /\ order_index' = [order_index EXCEPT ![IdAt(LastOf(AtFirst))] = NoEntry]
      /\ TheTrade.qty = OrderAt(AtFirst).qty
  BY <1>1, FillsResult
<1>4. r \in Resting /\ OrderAt(r) = Level[1] /\ OrderAt(r) \in Order
  BY <1>1, <1>2, <1>3, FirstRests
<1>5. Removed(r)
  BY <1>2, <1>3 DEF Removed
<1>6. trades' \in Seq(Trade) /\ qty' \in Nat /\ QuantityConserved'
  <2>1. ASSUME NEW x \in OrderIds
        PROVE  RestingQty(x)' = RestingQty(x) - (IF Level[1].id = x THEN TheTrade.qty ELSE 0)
    <3>1. RestingQty(x)' = RestingQty(x) - (IF IdAt(r) = x THEN OrderAt(r).qty ELSE 0)
      BY <1>1, <1>3, <1>4, <1>5, QtyAfterRemove
    <3>2. QED
      BY <1>2, <1>3, <1>4, <3>1 DEF IdAt
  <2>2. /\ trades' = Append(trades, TheTrade) /\ qty' = qty - TheTrade.qty
        /\ UNCHANGED <<trade_log, asked, placed, cancelled>>
    BY DEF MatchFillsOrder, history
  <2>3. QED
    BY <1>1, <1>3, <2>1, <2>2, TradeConserves
<1>7. TypeOK'
  <2>1. order_index' \in [OrderIds -> (Sides \X Levels) \cup {NoEntry}]
    BY <1>1, <1>3 DEF TypeOK
  <2>2. used' \subseteq OrderIds /\ reused' \in BOOLEAN
    BY <1>1, Zenon DEF MatchFillsOrder, TypeOK, history
  <2>3. QED
    BY <1>1, <1>3, <1>6, <2>1, <2>2 DEF MatchFillsOrder, history, TypeOK, LevelsOK
<1>8. RestingInv'
  <2>1. UNCHANGED <<used, timestamp_counter>>
    BY DEF MatchFillsOrder, history
  <2>2. QED
    BY <1>1, <1>4, <1>5, <2>1, RestingInvRemoved
<1>9. MatchInv'
  <2>1. \A l \in Levels : l # i => levels'[Opposite(side)][l] = levels[Opposite(side)][l]
    <3>1. PICK s : s = Opposite(side)
      OBVIOUS
    <3>2. PICK m : m = i
      OBVIOUS
    <3>3. s \in Sides /\ m \in Levels
      BY <1>1, <1>3, <3>1, <3>2, FirstRests
    <3>4. \E rest : levels' = [levels EXCEPT ![s][m] = rest]
      BY <3>1, <3>2 DEF MatchFillsOrder
    <3>5. PICK rest : levels' = [levels EXCEPT ![s][m] = rest]
      BY <3>4
    <3>6. QED
      BY <1>1, <3>1, <3>2, <3>3, <3>5 DEF LevelsOK
  <2>2. UNCHANGED <<side, i>>
    BY DEF MatchFillsOrder
  <2>3. QED
    BY <1>1, <1>3, <2>1, <2>2, PassedStayEmpty
<1>10. IndexAgrees'
  <2>1. PICK id : id = IdAt(LastOf(AtFirst))
    OBVIOUS
  <2>2. /\ order_index \in [OrderIds -> (Sides \X Levels) \cup {NoEntry}]
        /\ order_index' = [order_index EXCEPT ![id] = NoEntry]
        /\ UNCHANGED reused
    BY <1>1, <1>3, <2>1 DEF MatchFillsOrder, TypeOK, history
  <2>3. TradesKept /\ \A s, l : s = Opposite(side) /\ l = i => TradedAt(s, l)'
    BY <1>1, <1>3, TradeAtLevel DEF MatchFillsOrder
  <2>4. ASSUME ~reused, NEW t \in Resting', IdAt(t)' = id
        PROVE  TradedAt(t[1], t[2])'
    <3>1. /\ Source(r, t) \in Resting /\ IdAt(t)' = IdAt(Source(r, t))
          /\ Source(r, t)[1] = t[1] /\ Source(r, t)[2] = t[2]
      BY <1>1, <1>4, <1>5, RemovedSource DEF IdAt
    <3>2. LastOf(r) \in Resting /\ id = IdAt(LastOf(r))
      BY <1>2, <1>5, <2>1 DEF Removed
    <3>3. Source(r, t) = LastOf(r)
      BY <1>1, <2>4, <3>1, <3>2 DEF IndexAgrees
    <3>4. t[1] = Opposite(side) /\ t[2] = i
      BY <1>2, <3>1, <3>3 DEF LastOf, AtFirst
    <3>5. QED
      BY <2>3, <3>4
  <2>5. QED
    BY <1>1, <1>4, <1>5, <2>2, <2>3, <2>4, IndexAgreesRemoved
<1>11. QED
  BY <1>6, <1>7, <1>8, <1>9, <1>10 DEF IInv

LEMMA MatchReducesOK ==
  ASSUME IInv, MatchReducesOrder
  PROVE  IInv'
<1>1. TypeOK /\ RestingInv /\ MatchInv /\ IndexAgrees /\ QuantityConserved /\ LevelsOK
  BY TypeOKLevels DEF IInv
<1>2. PICK r : r = AtFirst
  OBVIOUS
<1>3. PICK o : o = [Level[1] EXCEPT !.qty = @ - TheTrade.qty]
  OBVIOUS
<1>4. /\ Matching /\ LevelsOK' /\ Replaced(r, o) /\ o \in Order
      /\ TheTrade.qty = qty /\ qty < Level[1].qty
  <2>1. /\ Matching /\ LevelsOK'
        /\ Replaced(AtFirst, [Level[1] EXCEPT !.qty = @ - TheTrade.qty])
        /\ [Level[1] EXCEPT !.qty = @ - TheTrade.qty] \in Order
        /\ TheTrade.qty = qty /\ qty < Level[1].qty
    BY <1>1, ReducesResult
  <2>2. QED
    BY <1>2, <1>3, <2>1 DEF Replaced
<1>5. r \in Resting /\ OrderAt(r) = Level[1] /\ OrderAt(r) \in Order
  BY <1>1, <1>2, <1>4, FirstRests
<1>6. o.id = OrderAt(r).id /\ o.timestamp = OrderAt(r).timestamp
      /\ o.qty = OrderAt(r).qty - TheTrade.qty
  BY <1>3, <1>5 DEF Order
<1>7. /\ Resting' = Resting
      /\ \A t \in Resting : OrderAt(t)'.id = OrderAt(t).id
                            /\ OrderAt(t)'.timestamp = OrderAt(t).timestamp
  BY <1>4, <1>5, <1>6 DEF Replaced
<1>8. trades' \in Seq(Trade) /\ qty' \in Nat /\ QuantityConserved'
  <2>1. ASSUME NEW x \in OrderIds
        PROVE  RestingQty(x)' = RestingQty(x) - (IF Level[1].id = x THEN TheTrade.qty ELSE 0)
    <3>1. RestingQty(x)' =
            RestingQty(x) + (IF IdAt(r) = x THEN o.qty - OrderAt(r).qty ELSE 0)
      <4>1. o.id = IdAt(r)
        BY <1>6 DEF IdAt
      <4>2. QED
        BY <1>1, <1>4, <1>5, <4>1, QtyAfterReplace
    <3>2. OrderAt(r).qty \in Nat /\ TheTrade.qty \in Nat /\ RestingQty(x) \in Nat
      BY <1>1, <1>4, <1>5, RestingQtyNat DEF Order, TypeOK
    <3>3. IdAt(r) = Level[1].id
      BY <1>5 DEF IdAt
    <3>4. QED
      BY <1>6, <3>1, <3>2, <3>3
  <2>2. /\ trades' = Append(trades, TheTrade) /\ qty' = qty - TheTrade.qty
        /\ UNCHANGED <<trade_log, asked, placed, cancelled>>
    BY DEF MatchReducesOrder, history
  <2>3. QED
    BY <1>1, <1>4, <2>1, <2>2, TradeConserves
<1>9. TypeOK'
  <2>1. used' \subseteq OrderIds /\ reused' \in BOOLEAN
    BY <1>1, Zenon DEF MatchReducesOrder, TypeOK, history
  <2>2. QED
    BY <1>1, <1>4, <1>8, <2>1 DEF MatchReducesOrder, history, TypeOK, LevelsOK
<1>10. RestingInv'
  <2>1. UNCHANGED <<used, timestamp_counter>>
    BY DEF MatchReducesOrder, history
  <2>2. QED
    BY <1>1, <1>7, <2>1 DEF RestingInv, IdAt
<1>11. MatchInv'
  <2>1. \A l \in Levels : l # i => levels'[Opposite(side)][l] = levels[Opposite(side)][l]
    <3>1. PICK s : s = Opposite(side)
      OBVIOUS
    <3>2. PICK m : m = i
      OBVIOUS
    <3>3. s \in Sides /\ m \in Levels
      BY <1>1, <1>4, <3>1, <3>2, FirstRests
    <3>4. levels' = [levels EXCEPT ![s][m] = [@ EXCEPT ![1] = o]]
      BY <1>3, <3>1, <3>2 DEF MatchReducesOrder, Level
    <3>5. QED
      BY <1>1, <3>1, <3>2, <3>3, <3>4 DEF LevelsOK
  <2>2. UNCHANGED <<side, i>>
    BY DEF MatchReducesOrder
  <2>3. QED
    BY <1>1, <1>4, <2>1, <2>2, PassedStayEmpty
<1>12. IndexAgrees'
  <2>1. UNCHANGED <<order_index, reused>>
    BY DEF MatchReducesOrder, history
  <2>2. TradesKept
    BY <1>1, <1>4, TradeAtLevel DEF MatchReducesOrder
  <2>3. \A t \in Resting : IdAt(t)' = IdAt(t)
    BY <1>7 DEF IdAt
  <2>4. QED
    BY <1>1, <1>7, <2>1, <2>2, <2>3, IndexAgreesSame
<1>13. QED
  BY <1>8, <1>9, <1>10, <1>11, <1>12 DEF IInv

LEMMA MatchNextLevelOK ==
  ASSUME IInv, MatchNextLevel
  PROVE  IInv'
<1>1. TypeOK /\ RestingInv /\ MatchInv /\ IndexAgrees /\ QuantityConserved /\ LevelsOK
  BY TypeOKLevels DEF IInv
<1>2. UNCHANGED <<levels, timestamp_counter, history>>
  BY DEF MatchNextLevel
<1>3. i \in Levels /\ side \in Sides /\ ~NoCall
  BY <1>1 DEF MatchNextLevel, LoopRuns, TypeOK, NoCall
<1>4. i' \in IF side = "BUY" THEN 0..PRICE_LEVELS ELSE -1..(PRICE_LEVELS - 1)
  BY <1>3, Constants DEF MatchNextLevel, NextLevel, Levels
<1>5. TypeOK'
  <2>1. i' \in -1..PRICE_LEVELS
    BY <1>4, Constants
  <2>2. used' \subseteq OrderIds /\ reused' \in BOOLEAN
    BY <1>1, Zenon DEF MatchNextLevel, TypeOK, history
  <2>3. QED
    BY <1>1, <2>1, <2>2 DEF MatchNextLevel, history, TypeOK
<1>6. RestingInv'
  BY <1>1, <1>2, SameLevels
<1>7. MatchInv'
  <2>1. UNCHANGED <<levels, side>> /\ ~NoCall'
    BY <1>3 DEF MatchNextLevel, NoCall
  <2>2. \A l \in Levels : Passed(l)' => Passed(l) \/ l = i
    BY <1>3, <2>1, Constants DEF Passed, MatchNextLevel, NextLevel, Levels
  <2>3. levels[Opposite(side)][i] = << >>
    BY DEF MatchNextLevel, Level
  <2>4. QED
    BY <1>1, <1>3, <1>4, <2>1, <2>2, <2>3 DEF MatchInv
<1>8. IndexAgrees'
  <2>1. UNCHANGED <<order_index, reused>> /\ Resting' = Resting /\ \A r : OrderAt(r)' = OrderAt(r)
    BY <1>2, SameLevels DEF MatchNextLevel, history
  <2>2. TradesKept
    BY SameTrades DEF MatchNextLevel
  <2>3. QED
    BY <1>1, <2>1, <2>2, IndexAgreesSame DEF IdAt
<1>9. QuantityConserved'
  <2>1. \A x : TradedQty(x)' = TradedQty(x)
    BY TradedQtyIs, TradedQtyNext DEF MatchNextLevel
  <2>2. QED
    BY <1>1, <1>2, <2>1, SameLevels DEF QuantityConserved, MatchNextLevel, history
<1>10. QED
  BY <1>5, <1>6, <1>7, <1>8, <1>9 DEF IInv

LEMMA MatchReturnOK ==
  ASSUME IInv, MatchReturn
  PROVE  IInv'
<1>1. TypeOK /\ RestingInv /\ MatchInv /\ IndexAgrees /\ QuantityConserved /\ LevelsOK
  BY TypeOKLevels DEF IInv
<1>2. UNCHANGED <<levels, timestamp_counter, history>>
  BY DEF MatchReturn
<1>3. trade_log \in Seq(Trade) /\ trades \in Seq(Trade)
  BY <1>1 DEF TypeOK
<1>4. TypeOK'
  <2>1. i' \in -1..PRICE_LEVELS
    BY Constants DEF MatchReturn
  <2>2. used' \subseteq OrderIds /\ reused' \in BOOLEAN
    BY <1>1, Zenon DEF MatchReturn, TypeOK, history
  <2>3. trade_log' \in Seq(Trade) /\ trades' \in Seq(Trade)
    BY <1>3 DEF MatchReturn
  <2>4. QED
    BY <1>1, <2>1, <2>2, <2>3 DEF MatchReturn, history, TypeOK
<1>5. RestingInv'
  BY <1>1, <1>2, SameLevels
<1>6. MatchInv'
  BY DEF MatchReturn, MatchInv, NoCall
<1>7. IndexAgrees'
  <2>1. UNCHANGED <<order_index, reused>> /\ Resting' = Resting /\ \A r : OrderAt(r)' = OrderAt(r)
    BY <1>2, SameLevels DEF MatchReturn, history
  <2>2. TradesKept
    <3>1. trade_log' \o trades' = trade_log \o trades
      BY <1>3 DEF MatchReturn
    <3>2. QED
      BY <3>1, SameTrades
  <2>3. QED
    BY <1>1, <2>1, <2>2, IndexAgreesSame DEF IdAt
<1>8. QuantityConserved'
  <2>1. trade_log' \o trades' = trade_log \o trades
    BY <1>3 DEF MatchReturn
  <2>2. \A x : TradedQty(x)' = TradedQty(x)
    BY <2>1, TradedQtyIs, TradedQtyNext
  <2>3. asked' = qty' + QtyOf(trades')
    BY NothingTraded DEF MatchReturn
  <2>4. QED
    BY <1>1, <1>2, <2>2, <2>3, SameLevels DEF QuantityConserved, history
<1>9. QED
  BY <1>4, <1>5, <1>6, <1>7, <1>8 DEF IInv

LEMMA ClearOK ==
  ASSUME IInv, Clear
  PROVE  Fresh'
<1>1. trades = << >> /\ qty \in Nat /\ i \in -1..PRICE_LEVELS
  BY DEF IInv, TypeOK, MatchInv, Clear
<1>2. asked = qty
  BY <1>1, NothingTraded DEF IInv, QuantityConserved
<1>3. QED
  BY <1>1, <1>2 DEF Fresh, Clear, match, NoCall, NoHistory

LEMMA StutterOK ==
  ASSUME IInv, UNCHANGED vars
  PROVE  IInv'
<1>1. UNCHANGED <<levels, timestamp_counter, history, order_index, match, trade_log>>
  BY DEF vars
<1>2. TypeOK' /\ MatchInv'
  <2>1. used' \subseteq OrderIds /\ reused' \in BOOLEAN
    BY <1>1, Zenon DEF IInv, TypeOK, history
  <2>2. TypeOK'
    BY <1>1, <2>1 DEF IInv, TypeOK, match, history
  <2>3. MatchInv'
    BY <1>1 DEF IInv, MatchInv, NoCall, Passed, match
  <2>4. QED
    BY <2>2, <2>3
<1>3. RestingInv'
  BY <1>1, SameLevels DEF IInv
<1>4. IndexAgrees'
  <2>1. UNCHANGED <<order_index, reused>> /\ Resting' = Resting /\ \A r : OrderAt(r)' = OrderAt(r)
    BY <1>1, SameLevels DEF history
  <2>2. TradesKept
    BY <1>1, SameTrades DEF match
  <2>3. QED
    BY <2>1, <2>2, IndexAgreesSame DEF IdAt, IInv
<1>5. QuantityConserved'
  <2>1. \A x : TradedQty(x)' = TradedQty(x)
    BY <1>1, TradedQtyIs, TradedQtyNext DEF match
  <2>2. QED
    BY <1>1, <2>1, SameLevels DEF IInv, QuantityConserved, match, history
<1>6. QED
  BY <1>2, <1>3, <1>4, <1>5 DEF IInv

LEMMA NextOK ==
  ASSUME IInv, [Next]_vars
  PROVE  IInv'
<1>1. ASSUME NEW p \in Prices, NEW s \in Sides, AddRefused(p, s) PROVE IInv'
  BY <1>1, StutterOK DEF AddRefused
<1>2. ASSUME NEW id \in OrderIds, NEW p \in Prices, NEW q \in Quantities, NEW s \in Sides,
             AddOrder(id, p, q, s)
      PROVE  IInv'
  BY <1>2, AddOK
<1>3. ASSUME NEW id \in OrderIds, CancelNotFound(id) PROVE IInv'
  BY <1>3, StutterOK DEF CancelNotFound
<1>4. ASSUME NEW id \in OrderIds, CancelOrder(id) PROVE IInv'
  BY <1>4, CancelOK
<1>5. ASSUME NEW id \in OrderIds, CancelStaleEntry(id) PROVE IInv'
  BY <1>5, StaleEntryOK
<1>6. ASSUME NEW q \in MarketQuantities, NEW s \in Sides, MatchMarketOrder(q, s) PROVE IInv'
  BY <1>6, MatchMarketOrderOK
<1>7. CASE MatchStep
  BY <1>7, MatchFillsOK, MatchReducesOK, MatchNextLevelOK, MatchReturnOK DEF MatchStep
<1>8. CASE Clear
  <2>1. Fresh' => IInv'
    BY FreshOK, PTL
  <2>2. QED
    BY <1>8, <2>1, ClearOK
<1>9. CASE UNCHANGED vars
  BY <1>9, StutterOK
<1>10. QED
  BY <1>1, <1>2, <1>3, <1>4, <1>5, <1>6, <1>7, <1>8, <1>9 DEF Next

-----------------------------------------------------------------------------
(* The invariant holds in every reachable state, for every price range, any *)
(* number of levels and orders, all quantities and all calls.               *)
THEOREM Invariance == Spec => []IInv
<1>1. Init => IInv
  <2>1. Init => Fresh
    BY Constants DEF Init, Fresh, NoCall
  <2>2. QED
    BY <2>1, FreshOK
<1>2. IInv /\ [Next]_vars => IInv'
  BY NextOK
<1>3. QED
  BY <1>1, <1>2, PTL DEF Spec

(* Type correctness: no level holds more than MAX_ORDERS_PER_LEVEL orders,  *)
(* and the index names levels that exist.                                   *)
THEOREM TypeCorrect == Spec => []TypeOK
<1>1. IInv => TypeOK
  BY DEF IInv
<1>2. QED
  BY <1>1, Invariance, PTL

(* Of every id, what was added is what rests, was traded or was cancelled,  *)
(* whatever swap-and-pop moved and however often an id was used.            *)
THEOREM QuantityIsConserved == Spec => []QuantityConserved
<1>1. IInv => QuantityConserved
  BY DEF IInv
<1>2. QED
  BY <1>1, Invariance, PTL

(* Unless an id was used twice: no id rests twice, and the index entry of a *)
(* resting order names its level, or it was lost to a fill at its place.    *)
THEOREM IndexAgreement == Spec => []IndexAgrees
<1>1. IInv => IndexAgrees
  BY DEF IInv
<1>2. QED
  BY <1>1, Invariance, PTL

-----------------------------------------------------------------------------
(* Executions are at the best price.                                        *)

\* What a level's total loses when its first order is filled or reduced.
LEMMA LevelQty ==
  ASSUME NEW seq \in Seq(Order), Len(seq) > 0
  PROVE  /\ QtyOf(seq) \in Nat
         /\ QtyOf(SwapAndPop(seq, 1)) = QtyOf(seq) - seq[1].qty
         /\ \A o \in Order :
              QtyOf([seq EXCEPT ![1] = o]) = QtyOf(seq) - seq[1].qty + o.qty
<1>1. PICK n : n = Len(seq)
  OBVIOUS
<1>2. /\ n \in Nat /\ n > 0 /\ 1 \in 1..n /\ DOMAIN seq = 1..n
      /\ \A k \in 1..n : seq[k] \in Order
  BY <1>1
<1>3. \A o \in Order : o.qty \in Nat
  BY DEF Order
<1>4. PICK f : f = [k \in DOMAIN seq |-> seq[k].qty]
  OBVIOUS
<1>5. PICK S : S = 1..n
  OBVIOUS
<1>6. /\ IsFiniteSet(S) /\ 1 \in S /\ n \in S /\ S \ {n} = 1..(n - 1)
      /\ \A k \in S : f[k] \in Int
      /\ f[1] = seq[1].qty
  <2>1. IsFiniteSet(S)
    <3>1. n \in Int
      BY <1>2
    <3>2. QED
      BY <1>5, <3>1, FS_Interval
  <2>2. 1 \in S /\ n \in S /\ S \ {n} = 1..(n - 1)
    BY <1>2, <1>5
  <2>3. \A k \in S : f[k] \in Nat
    BY <1>2, <1>3, <1>4, <1>5
  <2>4. f[1] = seq[1].qty
    BY <1>2, <1>4
  <2>5. QED
    BY <2>1, <2>2, <2>3, <2>4
<1>7. QtyOf(seq) = SumFunctionOnSet(f, S)
  BY <1>2, <1>4, <1>5 DEF QtyOf, SumFunction
<1>8. QtyOf(seq) \in Nat
  <2>1. \A k \in S : f[k] \in Nat
    BY <1>2, <1>3, <1>4, <1>5
  <2>2. QED
    BY <1>6, <1>7, <2>1, SumNat
<1>9. QtyOf(SwapAndPop(seq, 1)) = QtyOf(seq) - seq[1].qty
  <2>1. PICK rest : rest = SwapAndPop(seq, 1)
    OBVIOUS
  <2>2. /\ rest \in Seq(Order) /\ Len(rest) = n - 1
        /\ \A k \in 1..(n - 1) : rest[k] = IF k = 1 THEN seq[n] ELSE seq[k]
    BY <1>1, <1>2, <2>1, SwapAndPopResult
  <2>3. PICK g : g = [k \in DOMAIN rest |-> rest[k].qty]
    OBVIOUS
  <2>4. DOMAIN rest = S \ {n}
    BY <1>6, <2>2
  <2>5. \A k \in S \ {n} : g[k] = IF k = 1 THEN f[n] ELSE f[k]
    BY <1>2, <1>4, <1>6, <2>2, <2>3, <2>4
  <2>6. SumFunctionOnSet(g, S \ {n}) = SumFunctionOnSet(f, S) - f[1]
    <3>1. IsFiniteSet(S) /\ 1 \in S /\ n \in S /\ \A k \in S : f[k] \in Int
      BY <1>6
    <3>2. QED
      BY <2>5, <3>1, SumMove
  <2>7. QtyOf(rest) = SumFunctionOnSet(g, S \ {n})
    BY <2>3, <2>4 DEF QtyOf, SumFunction
  <2>8. QED
    BY <1>6, <1>7, <2>1, <2>6, <2>7
<1>10. ASSUME NEW o \in Order
       PROVE  QtyOf([seq EXCEPT ![1] = o]) = QtyOf(seq) - seq[1].qty + o.qty
  <2>1. PICK rest : rest = [seq EXCEPT ![1] = o]
    OBVIOUS
  <2>2. DOMAIN rest = S /\ \A k \in S : rest[k] = IF k = 1 THEN o ELSE seq[k]
    BY <1>2, <1>5, <2>1
  <2>3. PICK g : g = [k \in DOMAIN rest |-> rest[k].qty]
    OBVIOUS
  <2>4. g[1] = o.qty /\ g[1] \in Int /\ \A k \in S : k # 1 => g[k] = f[k]
    BY <1>2, <1>3, <1>4, <1>5, <1>6, <2>2, <2>3
  <2>5. SumFunctionOnSet(g, S) = SumFunctionOnSet(f, S) - f[1] + g[1]
    BY <1>6, <2>4, SumUpdate
  <2>6. QtyOf(rest) = SumFunctionOnSet(g, S)
    BY <2>2, <2>3 DEF QtyOf, SumFunction
  <2>7. QED
    BY <1>6, <1>7, <2>1, <2>4, <2>5, <2>6
<1>11. QED
  BY <1>8, <1>9, <1>10

\* The loop is at the best level of the other side.
LEMMA AtBest ==
  ASSUME IInv, Matching
  PROVE  /\ MIN_PRICE + i = BestPrice(Opposite(side))
         /\ MIN_PRICE + i \in Prices
         /\ \A r \in Resting : r[1] = Opposite(side) =>
              IF side = "BUY" THEN i <= r[2] ELSE r[2] <= i
<1>1. /\ TypeOK /\ LevelsOK /\ RestingInv /\ MatchInv
      /\ side \in Sides /\ i \in Levels /\ ~NoCall
      /\ AtFirst \in Resting
      /\ Level \in Seq(Order) /\ Len(Level) > 0
  BY TypeOKLevels, FirstRests DEF IInv, Matching
<1>2. PICK o : o = Occupied(Opposite(side))
  OBVIOUS
<1>3. i \in o
  BY <1>1, <1>2 DEF Occupied, Level
<1>4. \A l \in o : IF side = "BUY" THEN i <= l ELSE l <= i
  <2>1. \A l \in o : l \in Levels /\ levels[Opposite(side)][l] # << >>
    BY <1>2 DEF Occupied
  <2>2. \A l \in o : ~Passed(l)
    BY <1>1, <2>1 DEF MatchInv
  <2>3. QED
    BY <1>1, <2>1, <2>2 DEF Passed, Levels
<1>5. MIN_PRICE + i = BestPrice(Opposite(side))
  <2>1. \A l \in o : l \in Int
    BY <1>2 DEF Occupied, Levels
  <2>2. CASE side = "BUY"
    <3>1. (CHOOSE l \in o : \A m \in o : l <= m) = i
      BY <1>3, <1>4, <2>1, <2>2
    <3>2. BestPrice(Opposite(side)) = best_ask /\ o = Occupied("SELL")
      BY <1>2, <2>2 DEF BestPrice, Opposite
    <3>3. QED
      BY <1>3, <3>1, <3>2 DEF best_ask
  <2>3. CASE side # "BUY"
    <3>1. (CHOOSE l \in o : \A m \in o : m <= l) = i
      BY <1>3, <1>4, <2>1, <2>3
    <3>2. BestPrice(Opposite(side)) = best_bid /\ o = Occupied("BUY")
      BY <1>1, <1>2, <2>3 DEF BestPrice, Opposite, Sides
    <3>3. QED
      BY <1>3, <3>1, <3>2 DEF best_bid
  <2>4. QED
    BY <2>2, <2>3
<1>6. MIN_PRICE + i \in Prices
  BY <1>1 DEF RestingInv, AtFirst
<1>7. ASSUME NEW r \in Resting, r[1] = Opposite(side)
      PROVE  IF side = "BUY" THEN i <= r[2] ELSE r[2] <= i
  <2>1. r[2] \in Levels /\ levels[Opposite(side)][r[2]] # << >>
    BY <1>1, <1>7, RestingOrder DEF LevelsOK
  <2>2. ~Passed(r[2])
    BY <1>1, <2>1 DEF MatchInv
  <2>3. QED
    BY <1>1, <2>1, <2>2 DEF Passed, Levels
<1>8. QED
  BY <1>5, <1>6, <1>7

\* The level the loop is at loses the quantity of the trade.
LEMMA TakesFromLevel ==
  ASSUME IInv, MatchFillsOrder \/ MatchReducesOrder,
         NEW s, s = Opposite(side), NEW p, p = MIN_PRICE + i
  PROVE  TheTrade.qty = SizeAt(s, p) - SizeAt(s, p)'
<1>1. TypeOK /\ LevelsOK /\ Matching
  BY TypeOKLevels DEF IInv, Matching, MatchFillsOrder, MatchReducesOrder
<1>2. PICK l : l = i
  OBVIOUS
<1>3. PICK level : level = levels[s][l]
  OBVIOUS
<1>4. /\ s \in Sides /\ l \in Levels /\ level = Level
      /\ level \in Seq(Order) /\ Len(level) > 0 /\ level[1] \in Order
  BY <1>1, <1>2, <1>3, FirstRests DEF Level
<1>5. InRange(p) /\ p - MIN_PRICE = l
  BY <1>2, <1>4, Constants DEF InRange, Levels
<1>6. SizeAt(s, p) = QtyOf(level)
  BY <1>3, <1>5 DEF SizeAt
<1>7. SizeAt(s, p)' = QtyOf(levels'[s][l])
  BY <1>5 DEF SizeAt
<1>8. level[1].qty \in Nat /\ TheTrade.qty \in Nat /\ QtyOf(level) \in Nat
  BY <1>1, <1>4, TradeType, LevelQty DEF Order
<1>9. CASE MatchFillsOrder
  <2>1. levels' = [levels EXCEPT ![s][l] = SwapAndPop(level, 1)]
    BY <1>2, <1>4, <1>9 DEF MatchFillsOrder
  <2>2. levels'[s][l] = SwapAndPop(level, 1)
    BY <1>1, <1>4, <2>1 DEF LevelsOK
  <2>3. TheTrade.qty = level[1].qty
    BY <1>1, <1>4, <1>9, TradeType DEF MatchFillsOrder
  <2>4. QtyOf(SwapAndPop(level, 1)) = QtyOf(level) - level[1].qty
    BY <1>4, LevelQty
  <2>5. QED
    BY <1>6, <1>7, <1>8, <2>2, <2>3, <2>4
<1>10. CASE MatchReducesOrder
  <2>1. PICK o : o = [Level[1] EXCEPT !.qty = @ - TheTrade.qty]
    OBVIOUS
  <2>2. o \in Order
    BY <1>1, <1>10, <2>1, ReducesResult
  <2>3. levels' = [levels EXCEPT ![s][l] = [@ EXCEPT ![1] = o]]
    BY <1>2, <2>1, <1>10 DEF MatchReducesOrder, Level
  <2>4. levels'[s][l] = [level EXCEPT ![1] = o]
    BY <1>1, <1>3, <1>4, <2>3 DEF LevelsOK
  <2>5. o.qty = level[1].qty - TheTrade.qty
    BY <1>4, <2>1 DEF Order
  <2>6. QtyOf([level EXCEPT ![1] = o]) = QtyOf(level) - level[1].qty + o.qty
    BY <1>4, <2>2, LevelQty
  <2>7. QED
    BY <1>6, <1>7, <1>8, <2>4, <2>5, <2>6
<1>11. QED
  BY <1>9, <1>10

\* No other step makes a trade.
LEMMA OnlyMatchingTrades ==
  ASSUME IInv, [Next]_vars, Len(trades') > Len(trades)
  PROVE  (MatchFillsOrder \/ MatchReducesOrder) /\ trades' = Append(trades, TheTrade)
<1>1. Len(trades) \in Nat
  BY DEF IInv, TypeOK
<1>2. trades' # trades /\ trades' # << >>
  BY <1>1
<1>3. ~UNCHANGED vars
  BY <1>2 DEF vars, match
<1>4. ASSUME NEW p \in Prices, NEW s \in Sides PROVE ~AddRefused(p, s)
  BY <1>3 DEF AddRefused
<1>5. ASSUME NEW id \in OrderIds, NEW p \in Prices, NEW q \in Quantities, NEW s \in Sides
      PROVE  ~AddOrder(id, p, q, s)
  BY <1>2 DEF AddOrder, match
<1>6. ASSUME NEW id \in OrderIds
      PROVE  ~(CancelNotFound(id) \/ CancelOrder(id) \/ CancelStaleEntry(id))
  BY <1>2, <1>3 DEF CancelNotFound, CancelOrder, CancelStaleEntry, match
<1>7. ASSUME NEW q \in MarketQuantities, NEW s \in Sides PROVE ~MatchMarketOrder(q, s)
  BY <1>2 DEF MatchMarketOrder
<1>8. ~MatchNextLevel /\ ~MatchReturn /\ ~Clear
  BY <1>2 DEF MatchNextLevel, MatchReturn, Clear, match
<1>9. MatchFillsOrder \/ MatchReducesOrder
  BY <1>3, <1>4, <1>5, <1>6, <1>7, <1>8 DEF Next, MatchStep
<1>10. QED
  BY <1>9 DEF MatchFillsOrder, MatchReducesOrder

(* Every trade of match_market_order is at the best price of the other      *)
(* side, and that price loses exactly the quantity of the trade.            *)
THEOREM BestExecution == Spec => ExecutesAtBest
<1>1. ASSUME IInv, [Next]_vars, Len(trades') > Len(trades)
      PROVE  \E s \in Sides, p \in Prices :
               /\ s = Opposite(side) /\ p = BestPrice(s)
               /\ trades'[Len(trades')].price_cents = p
               /\ trades'[Len(trades')].qty = SizeAt(s, p) - SizeAt(s, p)'
  <2>1. (MatchFillsOrder \/ MatchReducesOrder) /\ trades' = Append(trades, TheTrade)
    BY <1>1, OnlyMatchingTrades
  <2>2. TypeOK /\ Matching
    BY <1>1, <2>1 DEF IInv, Matching, MatchFillsOrder, MatchReducesOrder
  <2>3. PICK s : s = Opposite(side)
    OBVIOUS
  <2>4. PICK p : p = MIN_PRICE + i
    OBVIOUS
  <2>5. s \in Sides /\ p \in Prices /\ p = BestPrice(s)
    BY <1>1, <2>2, <2>3, <2>4, FirstRests, AtBest
  <2>6. trades'[Len(trades')] = TheTrade
    BY <2>1, <2>2, TradeType DEF TypeOK
  <2>7. TheTrade.price_cents = p
    BY <2>2, <2>4, FirstRests, TradeType, Constants DEF Levels
  <2>8. TheTrade.qty = SizeAt(s, p) - SizeAt(s, p)'
    BY <1>1, <2>1, <2>3, <2>4, TakesFromLevel
  <2>9. QED
    BY <2>3, <2>5, <2>6, <2>7, <2>8
<1>2. QED
  BY <1>1, Invariance, PTL DEF Spec, ExecutesAtBest

-----------------------------------------------------------------------------
(* The loops of match_market_order end.                                     *)

Facing == {r \in Resting : r[1] = Opposite(side)}

LEMMA FacingFinite == IsFiniteSet(Facing) /\ Cardinality(Facing) \in Nat
<1>1. Facing \subseteq Resting
  BY DEF Facing
<1>2. IsFiniteSet(Facing)
  BY <1>1, RestingFinite, FS_Subset
<1>3. QED
  BY <1>2, FS_CardinalityType

LEMMA RemainingIs == Remaining = qty + LevelsAhead + Cardinality(Facing)
  BY DEF Remaining, Facing

LEMMA RemainingNat ==
  ASSUME IInv, ~NoCall
  PROVE  Remaining \in Nat /\ LevelsAhead \in Nat
<1>1. i \in IF side = "BUY" THEN 0..PRICE_LEVELS ELSE -1..(PRICE_LEVELS - 1)
  BY DEF IInv, MatchInv
<1>2. LevelsAhead \in Nat
  BY <1>1, Constants DEF LevelsAhead
<1>3. qty \in Nat
  BY DEF IInv, TypeOK
<1>4. QED
  BY <1>2, <1>3, FacingFinite, RemainingIs

LEMMA LoopDecreases ==
  ASSUME IInv, MatchFillsOrder \/ MatchReducesOrder \/ MatchNextLevel
  PROVE  Remaining' < Remaining
<1>1. /\ TypeOK /\ LevelsOK /\ ~NoCall /\ qty > 0 /\ i \in Levels
      /\ qty \in Nat /\ LevelsAhead \in Nat
  BY TypeOKLevels, RemainingNat
     DEF IInv, MatchFillsOrder, MatchReducesOrder, MatchNextLevel, LoopRuns, TypeOK
<1>2. Remaining' = qty' + LevelsAhead' + Cardinality(Facing')
  BY DEF Remaining, Facing
<1>3. CASE MatchFillsOrder
  <2>1. PICK r : r = AtFirst
    OBVIOUS
  <2>2. PICK last : last = LastOf(AtFirst)
    OBVIOUS
  <2>3. /\ Matching /\ last \in Resting /\ last[1] = Opposite(side)
        /\ Resting' = Resting \ {last} /\ side' = side
    BY <1>1, <1>3, <2>2, FillsResult DEF Removed, LastOf, AtFirst, MatchFillsOrder
  <2>4. PICK S : S = Facing
    OBVIOUS
  <2>5. Facing' = S \ {last} /\ last \in S
    BY <2>3, <2>4 DEF Facing
  <2>6. Cardinality(S \ {last}) = Cardinality(S) - 1 /\ Cardinality(S) \in Nat
    BY <2>4, <2>5, FacingFinite, FS_RemoveElement
  <2>7. LevelsAhead' = LevelsAhead
    BY <1>3 DEF LevelsAhead, MatchFillsOrder
  <2>8. qty' = qty - TheTrade.qty /\ TheTrade.qty \in Nat
    BY <1>1, <1>3, <2>3, TradeType DEF MatchFillsOrder
  <2>9. QED
    BY <1>1, <1>2, <2>4, <2>5, <2>6, <2>7, <2>8, RemainingIs
<1>4. CASE MatchReducesOrder
  <2>1. Matching /\ TheTrade.qty = qty /\ Resting' = Resting
    BY <1>1, <1>4, ReducesResult DEF Replaced
  <2>2. qty' = 0 /\ side' = side /\ i' = i
    BY <1>1, <1>4, <2>1 DEF MatchReducesOrder
  <2>3. Facing' = Facing /\ LevelsAhead' = LevelsAhead
    BY <2>1, <2>2 DEF Facing, LevelsAhead
  <2>4. QED
    BY <1>1, <1>2, <2>2, <2>3, FacingFinite, RemainingIs
<1>5. CASE MatchNextLevel
  <2>1. UNCHANGED <<levels, side, qty>> /\ i' = NextLevel(side, i)
    BY <1>5 DEF MatchNextLevel
  <2>2. Facing' = Facing
    BY <2>1 DEF Facing, Resting
  <2>3. LevelsAhead' = LevelsAhead - 1
    BY <1>1, <2>1, Constants DEF LevelsAhead, NextLevel, Levels
  <2>4. QED
    BY <1>1, <1>2, <2>1, <2>2, <2>3, FacingFinite, RemainingIs
<1>6. QED
  BY <1>3, <1>4, <1>5

(* While a market order is matched, every step fills an order, uses up the  *)
(* quantity or passes a level, so that a natural number decreases: the two  *)
(* loops end, also if orders of quantity 0 rest.                            *)
THEOREM MatchingEnds == Spec => MatchProgresses
<1>1. IInv => (~NoCall => Remaining \in Nat)
  BY RemainingNat
<1>2. ASSUME IInv, [Next]_vars PROVE [~NoCall /\ ~NoCall' => Remaining' < Remaining]_vars
  <2> SUFFICES ASSUME ~NoCall, ~NoCall', ~UNCHANGED vars PROVE Remaining' < Remaining
    OBVIOUS
  <2>1. MatchFillsOrder \/ MatchReducesOrder \/ MatchNextLevel
    <3>1. ASSUME NEW p \in Prices, NEW s \in Sides PROVE ~AddRefused(p, s)
      BY DEF AddRefused
    <3>2. ASSUME NEW id \in OrderIds, NEW p \in Prices, NEW q \in Quantities, NEW s \in Sides
          PROVE  ~AddOrder(id, p, q, s)
      BY DEF AddOrder
    <3>3. ASSUME NEW id \in OrderIds
          PROVE  ~(CancelNotFound(id) \/ CancelOrder(id) \/ CancelStaleEntry(id))
      BY DEF CancelNotFound, CancelOrder, CancelStaleEntry
    <3>4. ASSUME NEW q \in MarketQuantities, NEW s \in Sides PROVE ~MatchMarketOrder(q, s)
      BY DEF MatchMarketOrder
    <3>5. ~MatchReturn /\ ~Clear
      BY DEF MatchReturn, Clear, NoCall
    <3>6. QED
      BY <1>2, <3>1, <3>2, <3>3, <3>4, <3>5 DEF Next, MatchStep
  <2>2. QED
    BY <1>2, <2>1, LoopDecreases
<1>3. QED
  BY <1>1, <1>2, Invariance, PTL DEF Spec, MatchProgresses

-----------------------------------------------------------------------------
(* The book implements PriceBook.                                           *)

\* The order of the abstract book that the order at r is.
AsOrder(r) ==
  [id |-> IdAt(r), side |-> r[1], price |-> MIN_PRICE + r[2],
   qty |-> OrderAt(r).qty, timestamp |-> OrderAt(r).timestamp]

LEMMA RestingOrdersAre ==
  /\ RestingOrders = {AsOrder(r) : r \in Resting}
  /\ RestingOrders' = {AsOrder(r)' : r \in Resting'}
  BY DEF RestingOrders, AsOrder

LEMMA AsOrderInjective ==
  ASSUME RestingInv, NEW r \in Resting, NEW t \in Resting, AsOrder(r) = AsOrder(t)
  PROVE  r = t
<1>1. AsOrder(r).timestamp = AsOrder(t).timestamp
  OBVIOUS
<1>2. OrderAt(r).timestamp = OrderAt(t).timestamp
  BY <1>1 DEF AsOrder
<1>3. QED
  BY <1>2 DEF RestingInv

LEMMA OrdersAppended ==
  ASSUME NEW new, NEW o, Appended(new, o)
  PROVE  RestingOrders' = RestingOrders \cup
           {[id |-> o.id, side |-> new[1], price |-> MIN_PRICE + new[2],
             qty |-> o.qty, timestamp |-> o.timestamp]}
<1>1. Resting' = Resting \cup {new}
  BY DEF Appended
<1>2. \A r \in Resting : AsOrder(r)' = AsOrder(r)
  BY DEF Appended, AsOrder, IdAt
<1>3. AsOrder(new)' = [id |-> o.id, side |-> new[1], price |-> MIN_PRICE + new[2],
                       qty |-> o.qty, timestamp |-> o.timestamp]
  BY DEF Appended, AsOrder, IdAt
<1>4. QED
  BY <1>1, <1>2, <1>3, RestingOrdersAre

LEMMA OrdersRemoved ==
  ASSUME LevelsOK, RestingInv, NEW r \in Resting, Removed(r)
  PROVE  RestingOrders' = RestingOrders \ {AsOrder(r)}
<1>1. \A t \in Resting' : /\ Source(r, t) \in Resting
                          /\ AsOrder(t)' = AsOrder(Source(r, t))
  BY RemovedSource DEF AsOrder, IdAt
<1>2. \A t \in Resting' : Source(r, t) # r
  BY DEF Removed, Source
<1>3. \A u \in Resting : u # r => \E t \in Resting' : Source(r, t) = u
  <2> SUFFICES ASSUME NEW u \in Resting, u # r
               PROVE  \E t \in Resting' : Source(r, t) = u
    OBVIOUS
  <2>1. CASE u = LastOf(r)
    BY <2>1 DEF Removed, Source
  <2>2. CASE u # LastOf(r)
    BY <2>2 DEF Removed, Source
  <2>3. QED
    BY <2>1, <2>2
<1>4. \A u \in Resting : AsOrder(u) = AsOrder(r) => u = r
  BY AsOrderInjective
<1>5. QED
  BY <1>1, <1>2, <1>3, <1>4, RestingOrdersAre

LEMMA OrdersReplaced ==
  ASSUME RestingInv, NEW r \in Resting, NEW o, Replaced(r, o)
  PROVE  RestingOrders' = (RestingOrders \ {AsOrder(r)}) \cup
           {[id |-> o.id, side |-> r[1], price |-> MIN_PRICE + r[2],
             qty |-> o.qty, timestamp |-> o.timestamp]}
<1>1. Resting' = Resting
  BY DEF Replaced
<1>2. \A t \in Resting : t # r => AsOrder(t)' = AsOrder(t)
  BY DEF Replaced, AsOrder, IdAt
<1>3. AsOrder(r)' = [id |-> o.id, side |-> r[1], price |-> MIN_PRICE + r[2],
                     qty |-> o.qty, timestamp |-> o.timestamp]
  BY DEF Replaced, AsOrder, IdAt
<1>4. \A u \in Resting : AsOrder(u) = AsOrder(r) => u = r
  BY AsOrderInjective
<1>5. QED
  BY <1>1, <1>2, <1>3, <1>4, RestingOrdersAre

LEMMA OrdersUnchanged ==
  ASSUME UNCHANGED levels
  PROVE  RestingOrders' = RestingOrders
  BY DEF RestingOrders, Resting, IdAt, OrderAt

LEMMA AddIsAdd ==
  ASSUME IInv, NEW id \in OrderIds, NEW p \in Prices, NEW q \in Quantities, NEW s \in Sides,
         AddOrder(id, p, q, s)
  PROVE  Book!Next
<1>1. PICK l : l = p - MIN_PRICE
  OBVIOUS
<1>2. PICK o : o = [id |-> id, qty |-> q, timestamp |-> timestamp_counter]
  OBVIOUS
<1>3. TypeOK /\ RestingInv /\ LevelsOK
  BY TypeOKLevels DEF IInv
<1>4. l \in Levels /\ MIN_PRICE + l = p /\ p \in MIN_PRICE..(MIN_PRICE + PRICE_LEVELS - 1)
  BY <1>1, Constants DEF AddOrder, InRange, Levels
<1>5. o \in Order /\ o.id = id /\ o.qty = q /\ o.timestamp = timestamp_counter /\ q \in Nat
      /\ timestamp_counter \in Nat
  BY <1>2, <1>3, Constants DEF TypeOK, Order
<1>6. /\ levels' = [levels EXCEPT ![s][l] = Append(@, o)]
      /\ Len(levels[s][l]) < MAX_ORDERS_PER_LEVEL
  BY <1>1, <1>2, <1>3, <1>4, Constants DEF AddOrder, LevelFull, LevelsOK
<1>7. PICK new : new[1] = s /\ new[2] = l /\ Appended(new, o)
  BY <1>3, <1>4, <1>5, <1>6, AppendResult
<1>8. PICK x : x = [id |-> id, side |-> s, price |-> p, qty |-> q, timestamp |-> timestamp_counter]
  OBVIOUS
<1>9. RestingOrders' = RestingOrders \cup {x}
  <2>1. RestingOrders' = RestingOrders \cup
           {[id |-> o.id, side |-> new[1], price |-> MIN_PRICE + new[2],
             qty |-> o.qty, timestamp |-> o.timestamp]}
    BY <1>7, OrdersAppended
  <2>2. QED
    BY <1>4, <1>5, <1>7, <1>8, <2>1
<1>10. \A y \in RestingOrders : y.timestamp # x.timestamp
  <2>1. ASSUME NEW r \in Resting PROVE AsOrder(r).timestamp # x.timestamp
    <3>1. OrderAt(r).timestamp \in Nat /\ OrderAt(r).timestamp < timestamp_counter
      BY <1>3, RestingOrder DEF RestingInv, Order
    <3>2. QED
      BY <1>5, <1>8, <3>1 DEF AsOrder
  <2>2. QED
    BY <2>1, RestingOrdersAre
<1>11. x \notin RestingOrders
  BY <1>10
<1>12. x \in [id : OrderIds, side : {"BUY", "SELL"},
              price : MIN_PRICE..(MIN_PRICE + PRICE_LEVELS - 1), qty : Int, timestamp : Nat]
  BY <1>4, <1>5, <1>8 DEF Sides
<1>13. side = "none" /\ UNCHANGED <<side, qty>>
  BY DEF AddOrder, NoCall, match
<1>14. Book!Add(x)
  BY <1>8, <1>9, <1>10, <1>12, <1>13 DEF Book!Add, Book!Orders
<1>15. QED
  BY <1>9, <1>11, <1>14 DEF Book!Next

LEMMA CancelIsCancel ==
  ASSUME IInv, NEW id \in OrderIds, CancelOrder(id)
  PROVE  Book!Next
<1>1. TypeOK /\ RestingInv /\ LevelsOK
  BY TypeOKLevels DEF IInv
<1>2. PICK r \in Resting : Removed(r)
  BY <1>1, CancelResult
<1>3. PICK o : o = AsOrder(r)
  OBVIOUS
<1>4. o \in RestingOrders /\ RestingOrders' = RestingOrders \ {o}
  BY <1>1, <1>2, <1>3, OrdersRemoved, RestingOrdersAre
<1>5. Book!Cancel(o)
  BY <1>4 DEF Book!Cancel, CancelOrder, NoCall, match
<1>6. QED
  BY <1>4, <1>5 DEF Book!Next

\* The first order of the level is a best-priced one of those the market order meets.
LEMMA FirstIsBest ==
  ASSUME IInv, Matching, NEW o, o = AsOrder(AtFirst)
  PROVE  /\ o \in RestingOrders /\ Book!IsBest(o)
         /\ o.qty = Level[1].qty /\ o.qty \in Nat
<1>1. /\ TypeOK /\ LevelsOK /\ AtFirst \in Resting /\ OrderAt(AtFirst) = Level[1]
      /\ Level[1] \in Order /\ side \in Sides /\ i \in Levels
  BY TypeOKLevels, FirstRests DEF IInv
<1>2. PICK r : r = AtFirst
  OBVIOUS
<1>3. r \in Resting /\ o = AsOrder(r) /\ r[1] = Opposite(side) /\ r[2] = i
  BY <1>1, <1>2 DEF AtFirst
<1>4. o \in RestingOrders
  BY <1>3, RestingOrdersAre
<1>5. o.side = Opposite(side) /\ o.price = MIN_PRICE + i
  BY <1>3 DEF AsOrder
<1>6. o.qty = Level[1].qty /\ o.qty \in Nat
  BY <1>1, <1>2, <1>3 DEF AsOrder, Order
<1>7. o \in Book!Makers
  BY <1>1, <1>4, <1>5 DEF Book!Makers, Opposite, Sides
<1>8. ASSUME NEW t \in Resting, AsOrder(t).side # side
      PROVE  Book!AtLeastAsGood(o.side, o.price, AsOrder(t).price)
  <2>1. t[1] \in Sides /\ t[2] \in Levels /\ t[1] # side
    BY <1>1, <1>8, RestingOrder DEF AsOrder
  <2>2. t[1] = Opposite(side)
    BY <1>1, <2>1 DEF Opposite, Sides
  <2>3. IF side = "BUY" THEN i <= t[2] ELSE t[2] <= i
    BY <2>2, AtBest
  <2>4. AsOrder(t).price = MIN_PRICE + t[2]
    BY DEF AsOrder
  <2>5. QED
    BY <1>1, <1>5, <2>1, <2>3, <2>4, Constants DEF Book!AtLeastAsGood, Opposite, Sides, Levels
<1>9. \A x \in Book!Makers : Book!AtLeastAsGood(o.side, o.price, x.price)
  BY <1>8, RestingOrdersAre DEF Book!Makers
<1>10. QED
  BY <1>4, <1>6, <1>7, <1>9 DEF Book!IsBest

LEMMA FillIsExecute ==
  ASSUME IInv, MatchFillsOrder
  PROVE  Book!Next
<1>1. TypeOK /\ RestingInv /\ LevelsOK
  BY TypeOKLevels DEF IInv
<1>2. Matching /\ Removed(AtFirst) /\ TheTrade.qty = OrderAt(AtFirst).qty
  BY <1>1, FillsResult
<1>3. PICK r : r = AtFirst
  OBVIOUS
<1>4. r \in Resting /\ Removed(r) /\ OrderAt(r) = Level[1]
  BY <1>1, <1>2, <1>3, FirstRests DEF Removed
<1>5. PICK o : o = AsOrder(r)
  OBVIOUS
<1>6. RestingOrders' = RestingOrders \ {o}
  BY <1>1, <1>4, <1>5, OrdersRemoved
<1>7. o \in RestingOrders /\ Book!IsBest(o) /\ o.qty = Level[1].qty /\ o.qty \in Nat
  BY <1>2, <1>3, <1>5, FirstIsBest
<1>8. qty \in Nat /\ o.qty <= qty /\ qty' = qty - o.qty
  BY <1>1, <1>2, <1>3, <1>4, <1>7, TradeType DEF MatchFillsOrder, TypeOK
<1>9. side # "none" /\ qty > 0 /\ side' = side
  BY DEF MatchFillsOrder, NoCall, LoopRuns
<1>10. Book!Execute(o)
  BY <1>6, <1>7, <1>8, <1>9 DEF Book!Execute
<1>11. QED
  BY <1>7, <1>10 DEF Book!Next

LEMMA ReduceIsExecute ==
  ASSUME IInv, MatchReducesOrder
  PROVE  Book!Next
<1>1. TypeOK /\ RestingInv /\ LevelsOK
  BY TypeOKLevels DEF IInv
<1>2. PICK r : r = AtFirst
  OBVIOUS
<1>3. PICK x : x = [Level[1] EXCEPT !.qty = @ - TheTrade.qty]
  OBVIOUS
<1>4. Matching /\ Replaced(r, x) /\ TheTrade.qty = qty /\ qty < Level[1].qty
  <2>1. /\ Matching
        /\ Replaced(AtFirst, [Level[1] EXCEPT !.qty = @ - TheTrade.qty])
        /\ TheTrade.qty = qty /\ qty < Level[1].qty
    BY <1>1, ReducesResult
  <2>2. QED
    BY <1>2, <1>3, <2>1 DEF Replaced
<1>5. r \in Resting /\ OrderAt(r) = Level[1] /\ Level[1] \in Order
  BY <1>1, <1>2, <1>4, FirstRests
<1>6. PICK o : o = AsOrder(r)
  OBVIOUS
<1>7. o \in RestingOrders /\ Book!IsBest(o) /\ o.qty = Level[1].qty /\ o.qty \in Nat
  BY <1>2, <1>4, <1>6, FirstIsBest
<1>8. RestingOrders' = (RestingOrders \ {o}) \cup {[o EXCEPT !.qty = @ - qty]}
  <2>1. RestingOrders' = (RestingOrders \ {AsOrder(r)}) \cup
           {[id |-> x.id, side |-> r[1], price |-> MIN_PRICE + r[2],
             qty |-> x.qty, timestamp |-> x.timestamp]}
    BY <1>1, <1>4, <1>5, OrdersReplaced
  <2>2. x.id = IdAt(r) /\ x.timestamp = OrderAt(r).timestamp /\ x.qty = OrderAt(r).qty - qty
    BY <1>3, <1>4, <1>5 DEF IdAt, Order
  <2>3. [o EXCEPT !.qty = @ - qty] =
           [id |-> x.id, side |-> r[1], price |-> MIN_PRICE + r[2],
            qty |-> x.qty, timestamp |-> x.timestamp]
    BY <1>6, <2>2 DEF AsOrder
  <2>4. QED
    BY <1>6, <2>1, <2>3
<1>9. qty \in Nat /\ o.qty > qty /\ qty' = 0
  BY <1>1, <1>4, <1>7 DEF MatchReducesOrder, TypeOK
<1>10. side # "none" /\ qty > 0 /\ side' = side
  BY DEF MatchReducesOrder, NoCall, LoopRuns
<1>11. Book!Execute(o)
  BY <1>7, <1>8, <1>9, <1>10 DEF Book!Execute
<1>12. QED
  BY <1>7, <1>11 DEF Book!Next

\* When the loops have ended, the quantity is used up or nothing is left.
LEMMA ReturnIsEnd ==
  ASSUME IInv, MatchReturn
  PROVE  Book!Next
<1>1. TypeOK /\ MatchInv /\ LevelsOK /\ ~NoCall /\ ~LoopRuns /\ side \in Sides
  BY TypeOKLevels DEF IInv, MatchReturn, TypeOK, NoCall
<1>2. ASSUME qty # 0 PROVE Book!Makers = {}
  <2>1. i \notin Levels
    BY <1>1, <1>2 DEF LoopRuns, TypeOK
  <2>2. \A l \in Levels : Passed(l)
    BY <1>1, <2>1, Constants DEF MatchInv, Passed, Levels, TypeOK
  <2>3. \A l \in Levels : levels[Opposite(side)][l] = << >>
    BY <1>1, <2>2 DEF MatchInv
  <2>4. ASSUME NEW r \in Resting PROVE r[1] = side
    <3>1. r[1] \in Sides /\ r[2] \in Levels /\ levels[r[1]][r[2]] # << >>
      BY <1>1, RestingOrder DEF LevelsOK
    <3>2. QED
      BY <1>1, <2>3, <3>1 DEF Opposite, Sides
  <2>5. QED
    BY <2>4, RestingOrdersAre DEF Book!Makers, AsOrder
<1>3. RestingOrders' = RestingOrders
  BY OrdersUnchanged DEF MatchReturn
<1>4. Book!End
  BY <1>2, <1>3 DEF Book!End, MatchReturn, NoCall
<1>5. QED
  BY <1>4 DEF Book!Next

(* Whatever the calls, what the arrays, the swaps and the walk over the     *)
(* levels do is what the abstract book does with a set of orders.           *)
THEOREM ImplementsPriceBook == Spec => BookSpec
<1>1. Init => Book!Init
  <2> SUFFICES ASSUME Init PROVE Book!Init
    OBVIOUS
  <2>1. Resting = {}
    <3>1. \A s \in Sides, l \in Levels : levels[s][l] = << >>
      BY DEF Init, Empty
    <3>2. Init => LevelsOK
      BY FreshOK, TypeOKLevels, Constants DEF Init, Fresh, NoCall, IInv
    <3>3. QED
      BY <3>1, <3>2, RestingPlace DEF Places
  <2>2. QED
    BY <2>1, RestingOrdersAre DEF Book!Init, Init
<1>2. ASSUME IInv, [Next]_vars PROVE [Book!Next]_Book!book
  <2>1. CASE UNCHANGED levels /\ UNCHANGED <<side, qty>>
    BY <2>1, OrdersUnchanged DEF Book!book
  <2>2. ASSUME NEW p \in Prices, NEW s \in Sides, AddRefused(p, s) PROVE [Book!Next]_Book!book
    BY <2>1, <2>2 DEF AddRefused, vars, match
  <2>3. ASSUME NEW id \in OrderIds, NEW p \in Prices, NEW q \in Quantities, NEW s \in Sides,
               AddOrder(id, p, q, s)
        PROVE  [Book!Next]_Book!book
    BY <1>2, <2>3, AddIsAdd
  <2>4. ASSUME NEW id \in OrderIds, CancelNotFound(id) \/ CancelStaleEntry(id)
        PROVE  [Book!Next]_Book!book
    BY <2>1, <2>4 DEF CancelNotFound, CancelStaleEntry, vars, match
  <2>5. ASSUME NEW id \in OrderIds, CancelOrder(id) PROVE [Book!Next]_Book!book
    BY <1>2, <2>5, CancelIsCancel
  <2>6. ASSUME NEW q \in MarketQuantities, NEW s \in Sides, MatchMarketOrder(q, s)
        PROVE  [Book!Next]_Book!book
    <3>1. RestingOrders' = RestingOrders
      BY <2>6, OrdersUnchanged DEF MatchMarketOrder
    <3>2. Book!Begin(qty', side')
      BY <2>6, <3>1 DEF Book!Begin, MatchMarketOrder, NoCall
    <3>3. QED
      BY <3>2 DEF Book!Next
  <2>7. CASE MatchFillsOrder
    BY <1>2, <2>7, FillIsExecute
  <2>8. CASE MatchReducesOrder
    BY <1>2, <2>8, ReduceIsExecute
  <2>9. CASE MatchNextLevel
    BY <2>1, <2>9 DEF MatchNextLevel
  <2>10. CASE MatchReturn
    BY <1>2, <2>10, ReturnIsEnd
  <2>11. CASE Clear
    <3>1. Resting' = {}
      <4>1. \A s \in Sides, l \in Levels : levels'[s][l] = << >>
        BY <2>11 DEF Clear, Empty
      <4>2. LevelsOK'
        <5>1. Fresh' => TypeOK'
          BY FreshOK, PTL DEF IInv
        <5>2. TypeOK' => LevelsOK'
          BY TypeOKLevels, PTL
        <5>3. QED
          BY <1>2, <2>11, <5>1, <5>2, ClearOK
      <4>3. QED
        BY <4>1, <4>2, RestingPlaceNext DEF Places
    <3>2. RestingOrders' = {}
      BY <3>1, RestingOrdersAre
    <3>3. Book!Clear
      BY <2>11, <3>2 DEF Book!Clear, Clear, NoCall, match
    <3>4. QED
      BY <3>3 DEF Book!Next
  <2>12. CASE UNCHANGED vars
    BY <2>1, <2>12 DEF vars, match
  <2>13. QED
    BY <1>2, <2>2, <2>3, <2>4, <2>5, <2>6, <2>7, <2>8, <2>9, <2>10, <2>11, <2>12 DEF Next, MatchStep
<1>3. QED
  BY <1>1, <1>2, Invariance, PTL DEF Spec, BookSpec, Book!Spec
=============================================================================
