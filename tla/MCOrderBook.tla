---------------------------- MODULE MCOrderBook ----------------------------
(* OrderBook for TLC: three price ticks, quantities that split and combine. *)
EXTENDS OrderBook
MCPrices == 1..3
MCQuantities == 1..2
=============================================================================
