----------------------------- MODULE OrderBook -----------------------------
(***************************************************************************)
(* CacheOptimizedOrderBook: per side an array of price levels, each a      *)
(* compact array of orders from which an order is removed by swapping it   *)
(* with the last one; an index from order id to side and level; the log of *)
(* all trades.  It is used by one thread.                                  *)
(*                                                                         *)
(* A public method is one action, except match_market_order, whose loops   *)
(* are taken one iteration at a time; no other call starts meanwhile.      *)
(*                                                                         *)
(* levels["BUY"] is bids and levels["SELL"] is asks.  Of a level's array   *)
(* only the first count entries are kept: the others are never read.       *)
(***************************************************************************)
EXTENDS Integers, Sequences, FiniteSets, Functions

CONSTANTS OrderIds,
          NoId,                 \* the -1 of the aggressor's side of a trade
          MIN_PRICE,
          PRICE_LEVELS,         \* number of price levels
          MAX_ORDERS_PER_LEVEL,
          Prices,               \* price_cents arguments, also outside the range
          Quantities,           \* qty arguments of add_order
          MarketQuantities,     \* qty arguments of match_market_order
          MaxOrders             \* bound: orders accepted since clear()

ASSUME RangeAssumption == /\ MIN_PRICE \in Nat \ {0}
                          /\ PRICE_LEVELS \in Nat \ {0}
                          /\ MAX_ORDERS_PER_LEVEL \in Nat \ {0}
ASSUME ArgumentAssumption == /\ Prices \subseteq Int
                             /\ Quantities \subseteq Nat
                             /\ MarketQuantities \subseteq Nat
                             /\ NoId \notin OrderIds
ASSUME BoundAssumption == MaxOrders \in Nat

VARIABLES
  levels,             \* bids and asks
  order_index,        \* id -> side and level, or NoEntry
  trade_log,
  timestamp_counter,
  side, qty, i,       \* match_market_order: its arguments and loop variable
  trades,             \* the trades of the call in progress
  asked,              \* history: the qty the call in progress began with
  placed, cancelled,  \* history: quantity accepted and cancelled per id
  used, reused        \* history: ids accepted since clear(), any id twice?

match   == <<side, qty, i, trades, asked>>
history == <<placed, cancelled, used, reused>>
vars    == <<levels, order_index, trade_log, timestamp_counter, match, history>>

Sides   == {"BUY", "SELL"}
Levels  == 0..(PRICE_LEVELS - 1)
NoEntry == <<"none", 0>>
Order   == [id : OrderIds, qty : Nat, timestamp : Nat]
Trade   == [buy_id : OrderIds \cup {NoId}, sell_id : OrderIds \cup {NoId},
            price_cents : Int, qty : Nat]

-----------------------------------------------------------------------------
(* Slips somebody could make in this code, used only to show that the       *)
(* properties notice them.                                                  *)

\* The last order is dropped instead of being moved into the gap.
Fault_SwapAndPop(level, k) == SubSeq(level, 1, Len(level) - 1)

\* Both sides are walked upwards from the lowest price.
Fault_FirstLevel(s) == 0

\* The walk skips every other level.
Fault_NextLevel(s, l) == IF s = "BUY" THEN l + 2 ELSE l - 2

\* The walk starts again at the other end.
Fault_Wraps(s, l) == (IF s = "BUY" THEN l + 1 ELSE l - 1) % PRICE_LEVELS

\* Bids and asks share one index.
Fault_IndexEntry(s, l) == <<"BUY", l>>

\* "Level full" is tested with > instead of >=.
Fault_LevelFull(level) == Len(level) > MAX_ORDERS_PER_LEVEL

-----------------------------------------------------------------------------
InRange(price_cents) ==
  MIN_PRICE <= price_cents /\ price_cents <= MIN_PRICE + PRICE_LEVELS - 1

LevelFull(level) == Len(level) >= MAX_ORDERS_PER_LEVEL

\* std::swap(orders[k], orders[--count])
SwapAndPop(level, k) ==
  [j \in 1..(Len(level) - 1) |-> IF j = k THEN level[Len(level)] ELSE level[j]]

IndexEntry(s, l) == <<s, l>>

Opposite(s) == IF s = "BUY" THEN "SELL" ELSE "BUY"

\* A buy meets the cheapest ask first, a sell the dearest bid.
FirstLevel(s) == IF s = "BUY" THEN 0 ELSE PRICE_LEVELS - 1

NextLevel(s, l) == IF s = "BUY" THEN l + 1 ELSE l - 1

MatchQty(q, order) == IF q < order.qty THEN q ELSE order.qty

\* The price of the best non-empty level, or -1; a market order of side
\* Opposite(s) starts there.
Occupied(s) == {l \in Levels : Len(levels[s][l]) > 0}

best_bid ==
  IF Occupied("BUY") = {} THEN -1
  ELSE MIN_PRICE + (CHOOSE l \in Occupied("BUY") : \A m \in Occupied("BUY") : m <= l)

best_ask ==
  IF Occupied("SELL") = {} THEN -1
  ELSE MIN_PRICE + (CHOOSE l \in Occupied("SELL") : \A m \in Occupied("SELL") : l <= m)

\* Where orders rest: side, level and position; and the order there.
Resting ==
  {r \in Sides \X Levels \X (1..MAX_ORDERS_PER_LEVEL) : r[3] <= Len(levels[r[1]][r[2]])}

OrderAt(r) == levels[r[1]][r[2]][r[3]]
IdAt(r)    == OrderAt(r).id

QtyOf(seq) == SumFunction([k \in DOMAIN seq |-> seq[k].qty])

\* get_bid_size_at and get_ask_size_at
SizeAt(s, price_cents) ==
  IF InRange(price_cents) THEN QtyOf(levels[s][price_cents - MIN_PRICE]) ELSE 0

-----------------------------------------------------------------------------
Empty == [s \in Sides |-> [l \in Levels |-> << >>]]

NoHistory ==
  /\ placed = [id \in OrderIds |-> 0]
  /\ cancelled = [id \in OrderIds |-> 0]
  /\ used = {} /\ reused = FALSE

Init ==
  /\ levels = Empty
  /\ order_index = [id \in OrderIds |-> NoEntry]
  /\ trade_log = << >>
  /\ timestamp_counter = 0
  /\ side = "none" /\ qty = 0 /\ i = 0 /\ trades = << >> /\ asked = 0
  /\ NoHistory

NoCall == side = "none"

AddRefused(price_cents, s) ==
  /\ NoCall
  /\ InRange(price_cents) => LevelFull(levels[s][price_cents - MIN_PRICE])
  /\ UNCHANGED vars

AddOrder(id, price_cents, q, s) ==
  LET l == price_cents - MIN_PRICE
      order == [id |-> id, qty |-> q, timestamp |-> timestamp_counter]
  IN /\ NoCall
     /\ timestamp_counter < MaxOrders
     /\ InRange(price_cents)
     /\ ~LevelFull(levels[s][l])
     /\ levels' = [levels EXCEPT ![s][l] = Append(@, order)]
     /\ timestamp_counter' = timestamp_counter + 1
     /\ order_index' = [order_index EXCEPT ![id] = IndexEntry(s, l)]
     /\ placed' = [placed EXCEPT ![id] = @ + q]
     /\ used' = used \cup {id}
     /\ reused' = (reused \/ id \in used)
     /\ UNCHANGED <<trade_log, match, cancelled>>

CancelNotFound(id) ==
  /\ NoCall
  /\ order_index[id] = NoEntry
  /\ UNCHANGED vars

\* The positions of id in the level the index names for it.
Found(id) ==
  LET level == levels[order_index[id][1]][order_index[id][2]]
  IN {k \in 1..Len(level) : level[k].id = id}

CancelOrder(id) ==
  LET s == order_index[id][1]
      l == order_index[id][2]
  IN /\ NoCall
     /\ order_index[id] # NoEntry
     /\ \E k \in Found(id) :
          /\ \A j \in Found(id) : k <= j
          /\ levels' = [levels EXCEPT ![s][l] = SwapAndPop(@, k)]
          /\ cancelled' = [cancelled EXCEPT ![id] = @ + levels[s][l][k].qty]
     /\ order_index' = [order_index EXCEPT ![id] = NoEntry]
     /\ UNCHANGED <<trade_log, timestamp_counter, match, placed, used, reused>>

\* The index names a level that does not hold the order any more.
CancelStaleEntry(id) ==
  /\ NoCall
  /\ order_index[id] # NoEntry
  /\ Found(id) = {}
  /\ order_index' = [order_index EXCEPT ![id] = NoEntry]
  /\ UNCHANGED <<levels, trade_log, timestamp_counter, match, history>>

(* match_market_order(q, s) *)

MatchMarketOrder(q, s) ==
  /\ NoCall
  /\ side' = s
  /\ qty' = q
  /\ i' = FirstLevel(s)
  /\ trades' = << >>
  /\ asked' = q
  /\ UNCHANGED <<levels, order_index, trade_log, timestamp_counter, history>>

LoopRuns == qty > 0 /\ i \in Levels

\* The level the loop is at.
Level == levels[Opposite(side)][i]

\* The trade the inner loop makes with the first order of the level.
TheTrade ==
  [buy_id      |-> IF side = "BUY" THEN NoId ELSE Level[1].id,
   sell_id     |-> IF side = "BUY" THEN Level[1].id ELSE NoId,
   price_cents |-> i + MIN_PRICE,
   qty         |-> MatchQty(qty, Level[1])]

\* The order is filled.  The index entry erased is that of the order the
\* reference order.id denotes after the swap: the one moved into the gap.
MatchFillsOrder ==
  LET rest == SwapAndPop(Level, 1)
      erased == IF rest = << >> THEN Level[1].id ELSE rest[1].id
  IN /\ ~NoCall
     /\ LoopRuns
     /\ Level # << >>
     /\ MatchQty(qty, Level[1]) = Level[1].qty
     /\ trades' = Append(trades, TheTrade)
     /\ qty' = qty - TheTrade.qty
     /\ levels' = [levels EXCEPT ![Opposite(side)][i] = rest]
     /\ order_index' = [order_index EXCEPT ![erased] = NoEntry]
     /\ UNCHANGED <<trade_log, timestamp_counter, side, i, asked, history>>

MatchReducesOrder ==
  /\ ~NoCall
  /\ LoopRuns
  /\ Level # << >>
  /\ MatchQty(qty, Level[1]) # Level[1].qty
  /\ trades' = Append(trades, TheTrade)
  /\ qty' = qty - TheTrade.qty
  /\ levels' = [levels EXCEPT ![Opposite(side)][i][1].qty = @ - TheTrade.qty]
  /\ UNCHANGED <<order_index, trade_log, timestamp_counter, side, i, asked, history>>

MatchNextLevel ==
  /\ ~NoCall
  /\ LoopRuns
  /\ Level = << >>
  /\ i' = NextLevel(side, i)
  /\ UNCHANGED <<levels, order_index, trade_log, timestamp_counter,
                 side, qty, trades, asked, history>>

MatchReturn ==
  /\ ~NoCall
  /\ ~LoopRuns
  /\ trade_log' = trade_log \o trades
  /\ side' = "none" /\ qty' = 0 /\ i' = 0 /\ trades' = << >> /\ asked' = 0
  /\ UNCHANGED <<levels, order_index, timestamp_counter, history>>

MatchStep == MatchFillsOrder \/ MatchReducesOrder \/ MatchNextLevel \/ MatchReturn

Clear ==
  /\ NoCall
  /\ levels' = Empty
  /\ order_index' = [id \in OrderIds |-> NoEntry]
  /\ trade_log' = << >>
  /\ timestamp_counter' = 0
  /\ placed' = [id \in OrderIds |-> 0]
  /\ cancelled' = [id \in OrderIds |-> 0]
  /\ used' = {} /\ reused' = FALSE
  /\ UNCHANGED match

Next ==
  \/ \E p \in Prices, s \in Sides : AddRefused(p, s)
  \/ \E id \in OrderIds, p \in Prices, q \in Quantities, s \in Sides : AddOrder(id, p, q, s)
  \/ \E id \in OrderIds : CancelNotFound(id) \/ CancelOrder(id) \/ CancelStaleEntry(id)
  \/ \E q \in MarketQuantities, s \in Sides : MatchMarketOrder(q, s)
  \/ MatchStep
  \/ Clear

Spec == Init /\ [][Next]_vars

-----------------------------------------------------------------------------
(* The types of the variables; a level never holds more than its array.     *)
TypeOK ==
  /\ levels \in [Sides -> [Levels -> Seq(Order)]]
  /\ \A s \in Sides, l \in Levels : Len(levels[s][l]) <= MAX_ORDERS_PER_LEVEL
  /\ order_index \in [OrderIds -> (Sides \X Levels) \cup {NoEntry}]
  /\ trade_log \in Seq(Trade)
  /\ timestamp_counter \in 0..MaxOrders
  /\ side \in Sides \cup {"none"}
  /\ qty \in Nat
  /\ i \in -1..PRICE_LEVELS
  /\ trades \in Seq(Trade)
  /\ asked \in Nat
  /\ placed \in [OrderIds -> Nat]
  /\ cancelled \in [OrderIds -> Nat]
  /\ used \subseteq OrderIds /\ reused \in BOOLEAN

(* No share is created or lost: for every id, what was accepted is what     *)
(* rests, plus what was traded, plus what was cancelled; and a market order *)
(* trades what it was asked to, less what is still open.  This holds for    *)
(* callers that reuse ids as well.                                          *)
RestingQty(id) ==
  SumFunction([r \in Resting |-> IF IdAt(r) = id THEN OrderAt(r).qty ELSE 0])

TradedQty(id) ==
  LET log == trade_log \o trades
  IN SumFunction([k \in DOMAIN log |->
                    IF id \in {log[k].buy_id, log[k].sell_id} THEN log[k].qty ELSE 0])

QuantityConserved ==
  /\ \A id \in OrderIds : placed[id] = RestingQty(id) + TradedQty(id) + cancelled[id]
  /\ asked = qty + QtyOf(trades)

(* Every execution is at the price best_ask() or best_bid() showed just     *)
(* before it and takes from that price exactly the quantity of the trade,   *)
(* although the loop walks the levels without asking for the best price.    *)
BestPrice(s) == IF s = "SELL" THEN best_ask ELSE best_bid

ExecutesAtBest ==
  [][Len(trades') > Len(trades) =>
       \E s \in Sides, p \in Prices :
         /\ s = Opposite(side) /\ p = BestPrice(s)
         /\ trades'[Len(trades')].price_cents = p
         /\ trades'[Len(trades')].qty = SizeAt(s, p) - SizeAt(s, p)']_vars

(* If no id is used twice, no id rests twice, and the index entry of a      *)
(* resting order names the level it is in, so that a cancel removes that    *)
(* order; unless the entry was lost, which happens only where a market      *)
(* order filled another one: there is a trade of that side and price.       *)
TradedAt(s, l) ==
  LET log == trade_log \o trades
  IN \E k \in DOMAIN log :
       /\ log[k].price_cents = MIN_PRICE + l
       /\ (IF s = "BUY" THEN log[k].buy_id ELSE log[k].sell_id) # NoId

IndexAgrees ==
  ~reused =>
    /\ \A r \in Resting :
         \/ order_index[IdAt(r)] = <<r[1], r[2]>>
         \/ order_index[IdAt(r)] = NoEntry /\ TradedAt(r[1], r[2])
    /\ \A r, t \in Resting : IdAt(r) = IdAt(t) => r = t

(* The levels implement a set of orders: swap-and-pop removes the order it  *)
(* is meant to remove and no other, and a market order takes from the best  *)
(* price, order by order, until it is used up or the other side is empty.   *)
RestingOrders ==
  {[id |-> IdAt(r), side |-> r[1], price |-> MIN_PRICE + r[2],
    qty |-> OrderAt(r).qty, timestamp |-> OrderAt(r).timestamp] : r \in Resting}

Book == INSTANCE PriceBook
          WITH Ids <- OrderIds,
               Prices <- MIN_PRICE..(MIN_PRICE + PRICE_LEVELS - 1),
               resting <- RestingOrders, taker <- side, open <- qty
BookSpec == Book!Spec

(* The two loops of match_market_order end, also if orders of quantity 0    *)
(* rest: every iteration fills an order, uses up the quantity or passes a   *)
(* level, so that a natural number decreases.                               *)
LevelsAhead == IF side = "BUY" THEN PRICE_LEVELS - i ELSE i + 1

Remaining ==
  qty + LevelsAhead + Cardinality({r \in Resting : r[1] = Opposite(side)})

MatchProgresses ==
  /\ [](~NoCall => Remaining \in Nat)
  /\ [][~NoCall /\ ~NoCall' => Remaining' < Remaining]_vars

(* As long as no id is used twice, cancel_order returns early only for an   *)
(* order that is not in the book, as its comment "Order not found" says.    *)
(* It is violated: a fill erases the index entry of the order moved into    *)
(* the gap, which still rests.                                              *)
NotFoundMeansNotResting ==
  \A id \in OrderIds :
    NoCall /\ ~reused /\ order_index[id] = NoEntry => \A r \in Resting : IdAt(r) # id

-----------------------------------------------------------------------------
(* What the properties above rest on.                                       *)

\* What can be said of any resting order, and of any two.
RestingInv ==
  /\ \A r \in Resting : /\ IdAt(r) \in used
                        /\ MIN_PRICE + r[2] \in Prices
                        /\ OrderAt(r).timestamp < timestamp_counter
  /\ \A r, t \in Resting : OrderAt(r).timestamp = OrderAt(t).timestamp => r = t

\* The levels the loop has passed are empty, and no trade waits for the log
\* when no call is under way.
Passed(l) == IF side = "BUY" THEN l < i ELSE i < l

MatchInv ==
  IF NoCall THEN trades = << >>
  ELSE /\ i \in IF side = "BUY" THEN 0..PRICE_LEVELS ELSE -1..(PRICE_LEVELS - 1)
       /\ \A l \in Levels : Passed(l) => levels[Opposite(side)][l] = << >>

IInv == TypeOK /\ RestingInv /\ MatchInv /\ IndexAgrees /\ QuantityConserved
=============================================================================
