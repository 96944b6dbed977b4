-------------------------- MODULE MCCorrectnessRun --------------------------
(* CorrectnessRun for TLC: requests chosen so that orders rest, cross, fill *)
(* partly, compete at one price and at two prices, and stay on two tickers. *)
EXTENDS CorrectnessRun
Req(t, s, o, p, q) == [ticker |-> t, side |-> s, otype |-> o, price |-> p, qty |-> q]
MCTickers == {"A", "B"}
MCRequests ==
    {Req("A", "SELL", "LIMIT", 2, 1), Req("A", "SELL", "GFD", 1, 2),
     Req("A", "BUY", "LIMIT", 2, 2),
     Req("B", "SELL", "LIMIT", 1, 1)}
=============================================================================
