------------------------------ MODULE PriceTime ------------------------------
(***************************************************************************)
(* The abstract matching engine: a set of resting orders that the          *)
(* price-time rule moves.  OrderBook implements it.                        *)
(***************************************************************************)
EXTENDS PriceTimeRule

CONSTANTS Prices,      \* limit prices, in ticks
          Quantities,  \* order quantities
          MaxOrders    \* bound on the orders submitted

VARIABLES resting,     \* set of [id, side, price, qty]
          request,     \* the last request: an order, or the cancel of one
          fills,       \* the trades it caused: set of [maker, qty, price, band]
          count        \* orders submitted so far

ptVars == <<resting, request, fills, count>>

PTInit == resting = {} /\ request = <<>> /\ fills = {} /\ count = 0

PTSubmit(side, otype, limit, qty) ==
    /\ count < MaxOrders
    /\ count' = count + 1
    /\ request' = <<side, otype, limit, qty>>
    /\ fills' = FillsOf(resting, side, otype, limit, qty)
    /\ resting' = RestingAfter(resting, fills', count', side, otype, limit, qty)

PTCancel(id) ==
    /\ request' = <<"CANCEL", id>>
    /\ resting' = {o \in resting : o.id # id}
    /\ fills' = {}
    /\ UNCHANGED count

PTNext ==
    \/ \E side \in {"BUY", "SELL"}, q \in Quantities :
        \/ \E t \in {"LIMIT", "GFD", "FAK", "FOK"}, p \in Prices : PTSubmit(side, t, p, q)
        \/ PTSubmit(side, "MARKET", 0, q)
    \/ \E id \in 1..count : PTCancel(id)

PTSpec == PTInit /\ [][PTNext]_ptVars
=============================================================================
