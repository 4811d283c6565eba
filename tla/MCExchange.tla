----------------------------- MODULE MCExchange -----------------------------
(* Exchange for TLC: one seller and one buyer with funds for only some of   *)
(* the buyer's orders.                                                      *)
EXTENDS Exchange

Limited(i, s, z, p) ==
    [id |-> i, side |-> s, type |-> "limit", size |-> z, price |-> p, funds |-> z * p]
Market(i, f) ==
    [id |-> i, side |-> "buy", type |-> "market", size |-> 0, price |-> 0, funds |-> f]

MCPlaced ==
    << [user |-> "s", order |-> Limited(1, "sell", 2, 1)],
       [user |-> "b", order |-> Limited(2, "buy", 1, 2)],
       [user |-> "b", order |-> Market(3, 2)] >>

MCBalances ==
    [a \in Accounts |->
       IF a = <<"s", "base">> THEN 2 ELSE IF a = <<"b", "quote">> THEN 3 ELSE 0]

=============================================================================
