----------------------------- MODULE MCOrderBook ----------------------------
(* Small instances of OrderBook for TLC. *)
EXTENDS Mirror

MCOrderIds == 1 .. 3
MCSizes == {1, 2}
MCBudgets == {3}
MCPrices == {1, 2}
MCPricesFromZero == {0, 1, 2}
=============================================================================
