------------------------------ MODULE Matching ------------------------------
(***************************************************************************)
(* The matching rules of one product's order book, as pure operators:      *)
(* the data they are about, the price-time priority of a depth, the        *)
(* de-duplication window, and what a whole call of ApplyOrder or           *)
(* CancelOrder computes.  OrderBook.tla walks through the same call one    *)
(* iteration at a time; Engine.tla uses the whole call as one step of the  *)
(* applier goroutine, which is the only caller.                            *)
(*                                                                         *)
(* Amounts are integers: a size counts units of 10^-BaseScale, a price is  *)
(* the funds one such unit costs.                                          *)
(***************************************************************************)
EXTENDS Integers, Sequences, FiniteSets, FiniteSetsExt, SequencesExt

CONSTANTS
    OrderIds,   \* primary keys of the orders of this product
    Prices,     \* limit prices
    Sizes,      \* sizes of limit orders and of market sells
    Budgets,    \* funds of market buys
    InfPrice,   \* the price a market buy is given, above every limit price
    WindowCap   \* capacity of the de-duplication window

ASSUME OrderIdsAssumption == OrderIds \subseteq Nat \ {0}
ASSUME PricesAssumption == Prices \subseteq Nat
ASSUME SizesAssumption == Sizes \subseteq Nat \ {0}
ASSUME BudgetsAssumption == Budgets \subseteq Nat \ {0}
ASSUME InfPriceAssumption == InfPrice \in Nat /\ \A p \in Prices : p < InfPrice
ASSUME WindowCapAssumption == WindowCap \in Nat \ {0}

-----------------------------------------------------------------------------
(* Orders.  What service.PlaceOrder lets through: a limit buy at price zero *)
(* asks to hold zero funds and is refused, a limit sell at price zero is    *)
(* not.                                                                     *)

Sides == {"buy", "sell"}

Opposite(side) == IF side = "buy" THEN "sell" ELSE "buy"

LimitOrders ==
    { o \in [id : OrderIds, side : Sides, type : {"limit"}, size : Sizes,
             price : Prices,
             funds : {z * p : z \in Sizes, p \in Prices}] :
        /\ o.funds = o.size * o.price
        /\ o.side = "buy" => o.price > 0 }

MarketBuys ==
    [id : OrderIds, side : {"buy"}, type : {"market"}, size : {0},
     price : {0}, funds : Budgets]

MarketSells ==
    [id : OrderIds, side : {"sell"}, type : {"market"}, size : Sizes,
     price : {0}, funds : {0}]

Orders == LimitOrders \cup MarketBuys \cup MarketSells

NoOrder == [id |-> 0]

\* A limit order as it rests on the book, its size possibly reduced.
RestingOrders ==
    [id : OrderIds, side : Sides, type : {"limit"}, size : Nat \ {0},
     price : Prices, funds : Nat]

\* Variant: no price is set on market orders.
TakerOfUnpriced(order) == order

\* newBookOrder, and the price a market order is given so that it crosses.
TakerOf(order) ==
    IF order.type = "market"
    THEN [order EXCEPT !.price = IF order.side = "buy" THEN InfPrice ELSE 0]
    ELSE order

BuysByFunds(taker) == taker.type = "market" /\ taker.side = "buy"

-----------------------------------------------------------------------------
(* The de-duplication window.  put has a value receiver: it sets a bit of   *)
(* the shared bitmap, but its updates of Min and Max are lost, so Min stays *)
(* 0 and Max stays WindowCap, and the bits are all its state.               *)

Slot(id) == id % WindowCap

WindowRefuses(bits, id) == id <= WindowCap /\ Slot(id) \in bits

\* Variant: the bit is lost like Min and Max are.
WindowPutLost(bits, id) == bits

WindowPut(bits, id) == bits \cup {Slot(id)}

-----------------------------------------------------------------------------
(* Price-time priority within a depth, and price crossing. *)

\* Variant: one comparator for both depths.
PrecedesAscending(m, n) ==
    m.price < n.price \/ (m.price = n.price /\ m.id < n.id)

Precedes(m, n) ==
    \/ m.side = "sell" /\ m.price < n.price
    \/ m.side = "buy" /\ m.price > n.price
    \/ m.price = n.price /\ m.id < n.id

\* What the iterator of the depth's queue visits first.
First(depth) == CHOOSE m \in depth : \A n \in depth \ {m} : Precedes(m, n)

\* Variant: equal prices do not cross.
CrossesStrictly(taker, maker) ==
    IF taker.side = "buy" THEN taker.price > maker.price
                          ELSE taker.price < maker.price

Crosses(taker, maker) ==
    IF taker.side = "buy" THEN taker.price >= maker.price
                          ELSE taker.price <= maker.price

\* add: the entry of an order already there is overwritten.
Add(depth, order) == {m \in depth : m.id # order.id} \cup {order}

\* Variant: an emptied order stays on the depth.
DecrSizeKeeps(depth, maker, size) ==
    (depth \ {maker}) \cup {[maker EXCEPT !.size = @ - size]}

\* decrSize: an order whose size reaches zero leaves the depth.
DecrSize(depth, maker, size) ==
    (depth \ {maker}) \cup
        (IF size = maker.size THEN {} ELSE {[maker EXCEPT !.size = @ - size]})

-----------------------------------------------------------------------------
(* Logs. *)

MatchLog(seq, tradeSeq, taker, maker, size) ==
    [kind |-> "match", seq |-> seq, tradeSeq |-> tradeSeq, taker |-> taker.id,
     maker |-> maker.id, side |-> maker.side, price |-> maker.price,
     size |-> size]

OpenLog(seq, order) ==
    [kind |-> "open", seq |-> seq, id |-> order.id, side |-> order.side,
     price |-> order.price, remaining |-> order.size]

DoneLog(seq, order, remaining, reason) ==
    [kind |-> "done", seq |-> seq, id |-> order.id, side |-> order.side,
     price |-> order.price, remaining |-> remaining, reason |-> reason]

\* What a log may say, each of the three structs of matching/log.go.
Logs ==
    [kind : {"match"}, seq : Nat, tradeSeq : Nat, taker : OrderIds,
     maker : OrderIds, side : Sides, price : Prices, size : Nat]
    \cup
    [kind : {"open"}, seq : Nat, id : OrderIds, side : Sides, price : Prices,
     remaining : Nat]
    \cup
    [kind : {"done"}, seq : Nat, id : OrderIds, side : Sides,
     price : Prices \cup {0}, remaining : Nat,
     reason : {"filled", "cancelled"}]

\* The last log of a call of ApplyOrder: the taker rests, or is done.
Rests(taker) == taker.type = "limit" /\ taker.size > 0

\* Variant: the leftover funds of a market buy are not looked at.
DoneReasonBySize(taker) ==
    IF taker.type = "market" /\ taker.size > 0 THEN "cancelled" ELSE "filled"

DoneReason(taker) ==
    IF taker.type = "market" /\ (IF taker.side = "buy" THEN taker.funds > 0
                                                       ELSE taker.size > 0)
    THEN "cancelled" ELSE "filled"

ClosingLog(seq, taker) ==
    IF Rests(taker) THEN OpenLog(seq, taker)
    ELSE IF taker.type = "market"
         THEN DoneLog(seq, [taker EXCEPT !.price = 0], 0, DoneReason(taker))
         ELSE DoneLog(seq, taker, taker.size, DoneReason(taker))

-----------------------------------------------------------------------------
(* What a whole call computes, stated without the loop: the makers that     *)
(* cross stand in line by priority, and each gets what the taker still      *)
(* wants once everyone ahead of it has been bought out.                     *)

Ahead(makers, m) == {n \in makers : Precedes(n, m)}

Volume(makers) == SumFunction([m \in makers |-> m.size])

Cost(makers) == SumFunction([m \in makers |-> m.size * m.price])

Clip(n, top) == IF n < 0 THEN 0 ELSE IF n > top THEN top ELSE n

\* How much of maker m the taker takes.
Take(taker, makers, m) ==
    IF ~BuysByFunds(taker)
    THEN Clip(taker.size - Volume(Ahead(makers, m)), m.size)
    ELSE IF m.price = 0 THEN m.size
    ELSE Clip((taker.funds - Cost(Ahead(makers, m))) \div m.price, m.size)

Makers(book, taker) ==
    {m \in book.depths[Opposite(taker.side)] : Crosses(taker, m)}

Takes(book, taker) ==
    [m \in Makers(book, taker) |-> Take(taker, Makers(book, taker), m)]

\* The makers the taker trades with, and those it buys out.
Hit(book, taker) == {m \in Makers(book, taker) : Takes(book, taker)[m] > 0}
Emptied(book, taker) == {m \in Makers(book, taker) : Takes(book, taker)[m] = m.size}

\* What is left of the taker.
Left(book, taker) ==
    LET take == Takes(book, taker)
        hit  == Hit(book, taker)
    IN  IF BuysByFunds(taker)
        THEN [taker EXCEPT !.funds = @ - SumFunction([m \in hit |-> take[m] * m.price])]
        ELSE [taker EXCEPT !.size = @ - SumFunction([m \in hit |-> take[m]])]

\* Some makers in the order of their priority.
InLine(makers) ==
    [k \in 1 .. Cardinality(makers) |->
       CHOOSE m \in makers : Cardinality(Ahead(makers, m)) = k - 1]

\* The rest of a call of ApplyOrder whose loop has yet to run for taker.
Complete(book, taker) ==
    LET other   == Opposite(taker.side)
        take    == Takes(book, taker)
        hit     == Hit(book, taker)
        emptied == Emptied(book, taker)
        line    == InLine(hit)
        left    == Left(book, taker)
        closing == Cardinality(hit) + Cardinality(emptied) + 1
        cut     == (book.depths[other] \ hit) \cup
                   {[m EXCEPT !.size = @ - take[m]] : m \in hit \ emptied}
        own     == book.depths[taker.side]
    IN  [book |->
           [depths   |-> [book.depths EXCEPT
                            ![other] = cut,
                            ![taker.side] =
                               IF Rests(left) THEN Add(own, left) ELSE own],
            logSeq   |-> book.logSeq + closing,
            tradeSeq |-> book.tradeSeq + Cardinality(hit)],
         logs |->
           [i \in 1 .. closing |->
              IF i = closing THEN ClosingLog(book.logSeq + i, left)
              ELSE LET k == (i + 1) \div 2
                       m == line[k]
                   IN  IF i % 2 = 1
                       THEN MatchLog(book.logSeq + i, book.tradeSeq + k,
                                     taker, m, take[m])
                       ELSE DoneLog(book.logSeq + i,
                                    [m EXCEPT !.size = 0], 0, "filled")]]

\* A whole call of ApplyOrder for an order the window has let in.
ApplyOrder(book, order) == Complete(book, TakerOf(order))

\* The entry of an order on its side of the book, as a set.
Entry(book, order) == {m \in book.depths[order.side] : m.id = order.id}

\* Variant: the order stays on the book.
CancelOrderKeeps(book, order) ==
    LET entry == Entry(book, order)
    IN  IF entry = {} THEN [book |-> book, logs |-> << >>]
        ELSE LET m == CHOOSE e \in entry : TRUE
             IN  [book |-> [book EXCEPT !.logSeq = @ + 1],
                  logs |-> <<DoneLog(book.logSeq + 1, m, m.size, "cancelled")>>]

\* Variant: the order is removed without a log.
CancelOrderSilently(book, order) ==
    [book |-> [book EXCEPT !.depths[order.side] = @ \ Entry(book, order)],
     logs |-> << >>]

\* A whole call of CancelOrder.
CancelOrder(book, order) ==
    LET entry == Entry(book, order)
    IN  IF entry = {} THEN [book |-> book, logs |-> << >>]
        ELSE LET m == CHOOSE e \in entry : TRUE
             IN  [book |->
                    [book EXCEPT !.depths[order.side] = @ \ entry,
                                 !.logSeq = @ + 1],
                  logs |-> <<DoneLog(book.logSeq + 1, m, m.size, "cancelled")>>]

-----------------------------------------------------------------------------
(* The order topic. *)

Messages == [order : Orders, cancel : BOOLEAN]

\* One message handed to the book, in one step: the book, the bits of the
\* window and the logs after it.
Handle(book, bits, message) ==
    LET refused == WindowRefuses(bits, message.order.id)
        result  == IF message.cancel THEN CancelOrder(book, message.order)
                   ELSE IF refused THEN [book |-> book, logs |-> << >>]
                   ELSE ApplyOrder(book, message.order)
    IN  [book |-> result.book, logs |-> result.logs,
         window |-> IF refused THEN bits ELSE WindowPut(bits, message.order.id)]

\* What the book of the engine keeps between two calls.
Books ==
    [depths : [Sides -> SUBSET RestingOrders], logSeq : Nat, tradeSeq : Nat]

EmptyBook ==
    [depths |-> [side \in Sides |-> {}], logSeq |-> 0, tradeSeq |-> 0]

=============================================================================
