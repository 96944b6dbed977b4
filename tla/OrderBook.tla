------------------------------ MODULE OrderBook ------------------------------
(***************************************************************************)
(* The golden model driven as one ticker's book: any sequence of orders    *)
(* and cancels, as the replay loop feeds them to it.                       *)
(***************************************************************************)
EXTENDS GoldenModel

CONSTANTS Prices, Quantities, MaxOrders

ASSUME BookBounds ==
    /\ Prices \subseteq Nat \ {0}
    /\ Quantities \subseteq Nat \ {0}
    /\ MaxOrders \in Nat

VARIABLES book,     \* the golden order book
          request,  \* the last event fed to it
          trades,   \* the trades that event produced
          count     \* orders submitted so far, the id of the last one

vars == <<book, request, trades, count>>

Init == book = NewBook /\ request = <<>> /\ trades = <<>> /\ count = 0

(* A BUY or SELL event of the replay loop.  A market order's price is 0.   *)
SubmitOrder(side, otype, limit, qty) ==
    /\ count < MaxOrders
    /\ request' = <<side, otype, limit, qty>>
    /\ LET r == Submit(book, count + 1, side, otype, limit, qty)
       IN  book' = r.book /\ trades' = r.trades
    /\ count' = count + 1

(* A CANCEL event of the replay loop: its target may be filled already.    *)
CancelOrder(id) ==
    /\ request' = <<"CANCEL", id>>
    /\ book' = Cancel(book, id)
    /\ trades' = <<>>
    /\ UNCHANGED count

Next ==
    \/ \E side \in Sides, q \in Quantities :
        \/ \E t \in OrderTypes \ {"MARKET"}, p \in Prices : SubmitOrder(side, t, p, q)
        \/ SubmitOrder(side, "MARKET", 0, q)
    \/ \E id \in 1..count : CancelOrder(id)

Spec == Init /\ [][Next]_vars
-----------------------------------------------------------------------------
SideOf(name) == IF name = "BUY" THEN book.bids ELSE book.asks

(* The live index that cancel trusts holds exactly the resting orders, at  *)
(* the side and price they rest at: a stale entry would make a cancel of a *)
(* filled order look successful, a missing one would leave it in the book. *)
LiveIndexExact ==
    /\ \A side \in Sides : \A i \in DOMAIN SideOf(side) :
        \A j \in DOMAIN SideOf(side)[i].orders :
            /\ SideOf(side)[i].orders[j].id \in DOMAIN book.live
            /\ book.live[SideOf(side)[i].orders[j].id]
                 = [side |-> side, price |-> SideOf(side)[i].price]
    /\ DOMAIN book.live = IdsOf(book.bids) \cup IdsOf(book.asks)

(* No resting bid meets a resting ask after a match loop has ended: every  *)
(* order the book keeps was unable to trade.                               *)
NeverCrossed ==
    (book.bids # <<>> /\ book.asks # <<>>)
        => Head(book.bids).price < Head(book.asks).price

(* Both sides stay in strict price order with no empty level, and a level  *)
(* holds orders with something left to trade, in arrival order: the match  *)
(* loop reads only the front of the front level and relies on it.          *)
LevelsInPriorityOrder ==
    /\ IsSorted(book.bids, LAMBDA a, b : a.price > b.price)
    /\ IsSorted(book.asks, LAMBDA a, b : a.price < b.price)
    /\ \A side \in Sides : \A i \in DOMAIN SideOf(side) :
        /\ SideOf(side)[i].orders # <<>>
        /\ IsSorted(SideOf(side)[i].orders, LAMBDA a, b : a.id < b.id)
        /\ \A o \in ToSet(SideOf(side)[i].orders) : o.qty > 0

(* The set of resting orders and of trades that the book stands for.       *)
RestingOrders ==
    UNION {{[id |-> m.id, side |-> side, price |-> m.price, qty |-> m.qty] :
                m \in Makers(SideOf(side))} : side \in Sides}
TradeSet == {[maker |-> t.maker, qty |-> t.qty, price |-> t.makerPrice,
              band |-> t.aggLimit] : t \in ToSet(trades)}

Contract == INSTANCE PriceTime WITH resting <- RestingOrders, fills <- TradeSet

(* The level-by-level loops of submit, match, canFullyFill and cancel      *)
(* implement the closed-form price-time contract: same counterparties,     *)
(* quantities, price bands and remaining book after every operation.       *)
ImplementsPriceTime == Contract!PTSpec
=============================================================================
