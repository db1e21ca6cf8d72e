----------------------------- MODULE PriceBook -----------------------------
(***************************************************************************)
(* What an order book promises its callers, without saying how the orders  *)
(* are stored: a set of resting orders, to which whole orders are added,   *)
(* from which whole orders are cancelled, and against which a market order *)
(* executes, always with a best-priced order of the other side, until it   *)
(* is used up or no order is left there.  Orders of one price execute in   *)
(* any order.                                                              *)
(***************************************************************************)
EXTENDS Integers

CONSTANTS Ids, Prices, Quantities

VARIABLES resting,  \* set of [id, side, price, qty, timestamp]
          taker,    \* side of the market order in progress, or "none"
          open      \* what is left of its quantity

book == <<resting, taker, open>>

Orders == [id : Ids, side : {"BUY", "SELL"}, price : Prices, qty : Int, timestamp : Nat]

\* Is price a at least as good as b for a market order that meets side s?
AtLeastAsGood(s, a, b) == IF s = "SELL" THEN a <= b ELSE a >= b

Makers == {r \in resting : r.side # taker}

IsBest(o) == o \in Makers /\ \A r \in Makers : AtLeastAsGood(o.side, o.price, r.price)

Init == resting = {} /\ taker = "none" /\ open = 0

\* An order is identified by its timestamp.
Add(o) ==
  /\ taker = "none"
  /\ o \in Orders /\ o.qty \in Quantities
  /\ \A r \in resting : r.timestamp # o.timestamp
  /\ resting' = resting \cup {o}
  /\ UNCHANGED <<taker, open>>

Cancel(o) ==
  /\ taker = "none"
  /\ resting' = resting \ {o}
  /\ UNCHANGED <<taker, open>>

Clear ==
  /\ taker = "none"
  /\ resting' = {}
  /\ UNCHANGED <<taker, open>>

Begin(q, s) ==
  /\ taker = "none"
  /\ taker' = s /\ open' = q
  /\ UNCHANGED resting

Execute(o) ==
  /\ taker # "none" /\ open > 0
  /\ IsBest(o)
  /\ resting' = (resting \ {o}) \cup
                (IF o.qty > open THEN {[o EXCEPT !.qty = @ - open]} ELSE {})
  /\ open' = IF o.qty > open THEN 0 ELSE open - o.qty
  /\ UNCHANGED taker

End ==
  /\ taker # "none"
  /\ open = 0 \/ Makers = {}
  /\ taker' = "none" /\ open' = 0
  /\ UNCHANGED resting

Next ==
  \/ \E o \in resting' \ resting : Add(o)
  \/ \E o \in resting : Cancel(o) \/ Execute(o)
  \/ Clear
  \/ Begin(open', taker')
  \/ End

Spec == Init /\ [][Next]_book
=============================================================================
