------------------------------ MODULE MCEngine ------------------------------
(* Small instances of Engine for TLC: what the order topic holds. *)
EXTENDS Engine

Limit(i, s, z, p) ==
    [id |-> i, side |-> s, type |-> "limit", size |-> z, price |-> p, funds |-> z * p]

MarketBuy(i, f) ==
    [id |-> i, side |-> "buy", type |-> "market", size |-> 0, price |-> 0, funds |-> f]

Put(order) == [order |-> order, cancel |-> FALSE]

Withdraw(order) == [order |-> order, cancel |-> TRUE]

Ask(i) == Limit(i, "sell", 2, 1)
Bid(i) == Limit(i, "buy", 1, 2)

\* Orders numbered from n on.  A maker that is hit and then cancelled, after a
\* cancellation that comes too late; a message that comes twice; a market buy
\* that empties the book.
TopicsFrom(n) ==
    { <<Put(Ask(n)), Put(Bid(n + 1)), Withdraw(Bid(n + 1)), Withdraw(Ask(n))>>,
      <<Put(Ask(n)), Put(Ask(n)), Put(Bid(n + 1))>>,
      <<Put(Bid(n)), Put(Ask(n + 1)), Put(MarketBuy(n + 2, 3)),
        Withdraw(Ask(n + 1))>> }

\* The last one without its last message, for the runs with more faults.
ShortTopicsFrom(n) ==
    { SubSeq(topics, 1, IF topics[1] = Put(Bid(n)) THEN 3 ELSE Len(topics)) :
      topics \in TopicsFrom(n) }

\* With WindowCap = 3, ids within the window, and ids beyond it.
MCTopicsWithin == TopicsFrom(1)
MCTopicsReplay == ShortTopicsFrom(1)
MCTopicsBeyond == ShortTopicsFrom(4)

MCIdsWithin == 1 .. 3
MCIdsBeyond == 4 .. 6
MCPrices == {1, 2}
MCSizes == {1, 2}
MCBudgets == {3}
=============================================================================
