---------------------------- MODULE GoldenModel ----------------------------
(***************************************************************************)
(* The reference matching engine of the artifact checker                   *)
(* (artifact-checker/internal/replayengine/engine.go, "Golden model").     *)
(*                                                                         *)
(* A book is a record: bids and asks are sequences of price levels, best   *)
(* level first, a level holding its resting orders in arrival order; live  *)
(* maps the id of every resting order to the side and price it rests at.   *)
(* Prices are integer ticks.                                               *)
(***************************************************************************)
EXTENDS Integers, SequencesExt

Sides == {"BUY", "SELL"}
OrderTypes == {"LIMIT", "GFD", "MARKET", "FAK", "FOK"}

NewBook == [bids |-> <<>>, asks |-> <<>>, live |-> <<>>]

(* The levels an aggressor of this side matches against, best first.       *)
Opposing(book, side) == IF side = "BUY" THEN book.asks ELSE book.bids

(* Mutant of Crosses: an equal price does not trade.                       *)
CrossesStrictly(side, market, limit, price) ==
    market \/ IF side = "BUY" THEN price < limit ELSE price > limit

(* The match loop goes on past its break test at this level price.         *)
Crosses(side, market, limit, price) ==
    market \/ IF side = "BUY" THEN price <= limit ELSE price >= limit

(* The levels in front of the one at which the loop breaks.                *)
Matchable(levels, side, market, limit) ==
    LET stop == SelectInSeq(levels,
                    LAMBDA l : ~Crosses(side, market, limit, l.price))
    IN  IF stop = 0 THEN levels ELSE SubSeq(levels, 1, stop - 1)

(* The resting orders of some levels, each with the price of its level.    *)
Makers(levels) ==
    UNION {{[id |-> o.id, qty |-> o.qty, price |-> l.price] : o \in ToSet(l.orders)} :
                l \in ToSet(levels)}

IdsOf(levels) == {m.id : m \in Makers(levels)}

(* A market order's price band ends at the worst opposing price at arrival.*)
AggBand(levels, market, limit) ==
    IF market /\ levels # <<>> THEN Last(levels).price ELSE limit

(* Mutant of LiveAfter: filled makers stay in the live index.              *)
LiveKept(live, id) == live

(* The live index once order id has left the book.                         *)
LiveAfter(live, id) == [x \in DOMAIN live \ {id} |-> live[x]]

(* The match loop goes on: some quantity is left and the best level crosses.*)
Matching(m, side, market, limit) ==
    /\ m.remaining > 0 /\ m.levels # <<>>
    /\ Crosses(side, market, limit, Head(m.levels).price)

(* One iteration of the loop: trade with the first order of the best level, *)
(* drop that order once it is filled, and the level that leaves empty.      *)
FillFront(m, band) ==
    LET level == Head(m.levels)
        maker == Head(level.orders)
        filled == m.remaining >= maker.qty
        q == IF filled THEN maker.qty ELSE m.remaining
    IN  [remaining |-> m.remaining - q,
         trades |-> Append(m.trades, [maker |-> maker.id, qty |-> q,
                                      makerPrice |-> level.price, aggLimit |-> band]),
         levels |-> CASE ~filled -> [m.levels EXCEPT ![1].orders[1].qty = @ - q]
                      [] filled /\ Len(level.orders) > 1 ->
                             [m.levels EXCEPT ![1].orders = Tail(@)]
                      [] OTHER -> Tail(m.levels),
         live |-> IF filled THEN LiveAfter(m.live, maker.id) ELSE m.live]

(* The loop's state after 0, 1, ... iterations.  Each one trades at least   *)
(* one unit, so that it has ended after qty of them.                        *)
MatchLoop(start, side, market, limit, band, qty) ==
    LET loop[n \in 0..qty] ==
            IF n = 0 THEN start
            ELSE LET m == loop[n - 1]
                 IN  IF Matching(m, side, market, limit) THEN FillFront(m, band) ELSE m
    IN  loop

(* orderBook.match: the trades, what is left, and the book after.       *)
Match(book, side, market, limit, qty) ==
    LET levels == Opposing(book, side)
        start == [remaining |-> qty, trades |-> <<>>, levels |-> levels, live |-> book.live]
        end == MatchLoop(start, side, market, limit, AggBand(levels, market, limit), qty)[qty]
    IN  [trades |-> end.trades, remaining |-> end.remaining,
         book |-> IF side = "BUY"
                  THEN [book EXCEPT !.asks = end.levels, !.live = end.live]
                  ELSE [book EXCEPT !.bids = end.levels, !.live = end.live]]

(* The quantity some levels hold (no two resting orders share an id).      *)
Liquidity(levels) == MapThenSumSet(LAMBDA m : m.qty, Makers(levels))

(* Mutant of CanFullyFill: counts liquidity beyond the limit.              *)
CanFillAtAnyPrice(book, side, market, limit, qty) ==
    Liquidity(Opposing(book, side)) >= qty

(* orderBook.canFullyFill: enough crossing liquidity for a FOK.         *)
CanFullyFill(book, side, market, limit, qty) ==
    Liquidity(Matchable(Opposing(book, side), side, market, limit)) >= qty

(* Mutant of InsertLevel: a new worse-or-better level always goes last.    *)
InsertLast(levels, price, ord, desc) ==
    LET i == SelectInSeq(levels, LAMBDA l : l.price = price)
        new == [price |-> price, orders |-> <<ord>>]
    IN  IF i # 0 THEN [levels EXCEPT ![i].orders = Append(@, ord)]
        ELSE Append(levels, new)

(* insertLevel: join the level of that price, or open one in price order.  *)
InsertLevel(levels, price, ord, desc) ==
    LET worse(p) == IF desc THEN p < price ELSE p > price
        i == SelectInSeq(levels, LAMBDA l : l.price = price \/ worse(l.price))
        new == [price |-> price, orders |-> <<ord>>]
    IN  CASE i = 0 -> Append(levels, new)
          [] i # 0 /\ levels[i].price = price ->
                 [levels EXCEPT ![i].orders = Append(@, ord)]
          [] OTHER -> InsertAt(levels, i, new)

(* orderBook.rest: index the remainder and queue it at its price.       *)
Rest(book, id, side, price, qty) ==
    LET ord == [id |-> id, qty |-> qty]
        live == [x \in DOMAIN book.live \cup {id} |->
                    IF x = id THEN [side |-> side, price |-> price]
                    ELSE book.live[x]]
    IN  IF side = "BUY"
        THEN [book EXCEPT !.live = live, !.bids = InsertLevel(@, price, ord, TRUE)]
        ELSE [book EXCEPT !.live = live, !.asks = InsertLevel(@, price, ord, FALSE)]

(* Order types whose unfilled remainder rests in the book.                 *)
RestsRemainder(otype) == otype \notin {"MARKET", "FAK"}

(* orderBook.submit: the trades produced and the book after.            *)
Submit(book, id, side, otype, limit, qty) ==
    LET market == otype = "MARKET"
        killed == otype = "FOK" /\ ~CanFullyFill(book, side, market, limit, qty)
        m == Match(book, side, market, limit, qty)
    IN  IF killed THEN [trades |-> <<>>, book |-> book]
        ELSE [trades |-> m.trades,
              book |-> IF m.remaining > 0 /\ RestsRemainder(otype)
                       THEN Rest(m.book, id, side, limit, m.remaining)
                       ELSE m.book]

(* The levels without an order that rests at a price, and without the level *)
(* it leaves empty.                                                        *)
Without(levels, id, price) ==
    LET i == SelectInSeq(levels, LAMBDA l : l.price = price /\ \E o \in ToSet(l.orders) : o.id = id)
        j == SelectInSeq(levels[i].orders, LAMBDA o : o.id = id)
    IN  CASE i = 0 -> levels
          [] i # 0 /\ Len(levels[i].orders) > 1 ->
                 [levels EXCEPT ![i].orders = RemoveAt(@, j)]
          [] OTHER -> RemoveAt(levels, i)

(* orderBook.cancel: drop an order the live index knows.                   *)
Cancel(book, id) ==
    IF id \notin DOMAIN book.live THEN book
    ELSE LET ref == book.live[id]
             live == LiveAfter(book.live, id)
         IN  IF ref.side = "BUY"
             THEN [book EXCEPT !.live = live, !.bids = Without(@, id, ref.price)]
             ELSE [book EXCEPT !.live = live, !.asks = Without(@, id, ref.price)]
=============================================================================
