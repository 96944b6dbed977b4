---------------------------- MODULE PriceTimeRule ----------------------------
(***************************************************************************)
(* The matching contract of docs/matching-spec.md, stated without a book:  *)
(* the resting orders are a set of [id, side, price, qty], and price-time  *)
(* priority gives each of them, in closed form, its share of an incoming   *)
(* order.  Ids number the arrivals: a smaller id is an earlier order.      *)
(***************************************************************************)
EXTENDS Integers, FiniteSetsExt

Willing(side, market, limit, o) ==
    /\ o.side # side
    /\ market \/ IF side = "BUY" THEN o.price <= limit ELSE o.price >= limit

(* p is served before o.                                                   *)
Ahead(p, o) ==
    \/ p.price = o.price /\ p.id < o.id
    \/ IF o.side = "SELL" THEN p.price < o.price ELSE p.price > o.price

Total(S) == MapThenSumSet(LAMBDA o : o.qty, S)

(* What is left of an incoming quantity when o's turn comes, capped by o.  *)
Share(willing, qty, o) ==
    Max({0, Min({o.qty, qty - Total({p \in willing : Ahead(p, o)})})})

(* The worst opposing price, the bound a market order's fills may reach.   *)
WorstOpposing(R, side, limit) ==
    LET opposing == {o.price : o \in {r \in R : r.side # side}}
    IN  CASE opposing = {} -> limit
          [] opposing # {} /\ side = "BUY" -> Max(opposing)
          [] OTHER -> Min(opposing)

(* The makers a new order trades with, and the quantity of each trade.     *)
FillsOf(R, side, otype, limit, qty) ==
    LET market == otype = "MARKET"
        willing == {o \in R : Willing(side, market, limit, o)}
        band == IF market THEN WorstOpposing(R, side, limit) ELSE limit
        served == {o \in willing : Share(willing, qty, o) > 0}
    IN  IF otype = "FOK" /\ Total(willing) < qty THEN {}
        ELSE {[maker |-> o.id, qty |-> Share(willing, qty, o),
               price |-> o.price, band |-> band] : o \in served}

(* The resting orders once a new order has traded and its rest is placed.  *)
RestingAfter(R, F, id, side, otype, limit, qty) ==
    LET taken(o) == Total({f \in F : f.maker = o.id})
        left == qty - Total(F)
    IN  {[o EXCEPT !.qty = @ - taken(o)] : o \in {r \in R : r.qty > taken(r)}}
        \cup IF left > 0 /\ otype \in {"LIMIT", "GFD"}
             THEN {[id |-> id, side |-> side, price |-> limit, qty |-> left]}
             ELSE {}
=============================================================================
