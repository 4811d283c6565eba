----------------------------- MODULE OrderBook ------------------------------
(***************************************************************************)
(* matching/order_book.go: the order book of one product, one iteration of *)
(* the matching loop per step.  Its caller, the applier goroutine, hands   *)
(* it the messages of the order topic one after the other: orders and      *)
(* cancellations, which may come more than once (a redelivered message)    *)
(* and in any order of ids (concurrent requests commit and submit in their *)
(* own order).                                                             *)
(***************************************************************************)
EXTENDS Matching

CONSTANT MaxMessages    \* bound: messages handed to the order book

ASSUME MaxMessagesAssumption == MaxMessages \in Nat

VARIABLES
    rows,       \* the orders as stored by PlaceOrder; NoOrder: not placed yet
    messages,   \* how many messages have been handed over
    depths,     \* asks and bids
    logSeq,
    tradeSeq,
    window,     \* bits set in the de-duplication window
    taker,      \* takerOrder of the call in progress; NoOrder between calls
    panicked,   \* the process has died on a panic
    logs,       \* every log returned so far
    accepts,    \* auxiliary: how often the window let each order in
    traded,     \* auxiliary: size each order traded, by the match logs
    spent       \* auxiliary: funds each order traded for, by the match logs

bookVars == <<depths, logSeq, tradeSeq, window>>
auxVars == <<accepts, traded, spent>>
vars == <<rows, messages, bookVars, taker, panicked, logs, auxVars>>

Idle == taker = NoOrder /\ ~panicked

MakerDepth == depths[Opposite(taker.side)]

\* Variant: the queue is read from its far end.
WorstMaker ==
    CHOOSE m \in MakerDepth : \A n \in MakerDepth \ {m} : Precedes(n, m)

BestMaker == First(MakerDepth)

-----------------------------------------------------------------------------
Init ==
    /\ rows = [id \in OrderIds |-> NoOrder]
    /\ messages = 0
    /\ depths = EmptyBook.depths
    /\ logSeq = 0
    /\ tradeSeq = 0
    /\ window = {}
    /\ taker = NoOrder
    /\ panicked = FALSE
    /\ logs = << >>
    /\ accepts = [id \in OrderIds |-> 0]
    /\ traded = [id \in OrderIds |-> 0]
    /\ spent = [id \in OrderIds |-> 0]

\* The applier hands over a message about order, whose row never changes in
\* the fields the book reads.
Receive(order) ==
    /\ Idle
    /\ messages < MaxMessages
    /\ rows[order.id] \in {NoOrder, order}
    /\ rows' = [rows EXCEPT ![order.id] = order]
    /\ messages' = messages + 1

\* ApplyOrder up to its loop.
StartOrder(order) ==
    /\ Receive(order)
    /\ ~WindowRefuses(window, order.id)
    /\ window' = WindowPut(window, order.id)
    /\ taker' = TakerOf(order)
    /\ accepts' = [accepts EXCEPT ![order.id] = @ + 1]
    /\ UNCHANGED <<depths, logSeq, tradeSeq, panicked, logs, traded, spent>>

\* ApplyOrder of an order the window refuses returns no logs.
RefuseOrder(order) ==
    /\ Receive(order)
    /\ WindowRefuses(window, order.id)
    /\ UNCHANGED <<bookVars, taker, panicked, logs, auxVars>>

-----------------------------------------------------------------------------
(* The loop.  A maker that is not emptied leaves the taker with nothing to  *)
(* spend on the next one, so the iterator stands on the first maker left.   *)

\* The taker has something left to trade with.
Eager == IF BuysByFunds(taker) THEN taker.funds > 0 ELSE taker.size > 0

\* What the taker asks of the best maker.
Wanted ==
    IF BuysByFunds(taker) THEN taker.funds \div BestMaker.price ELSE taker.size

\* The loop reaches the point where it asks for a size.
MeetsMaker ==
    /\ taker # NoOrder
    /\ ~panicked
    /\ MakerDepth # {}
    /\ Crosses(taker, BestMaker)
    /\ Eager

\* A market buy meets a maker at price zero: Funds.Div(price) panics.
DividesByZero ==
    BuysByFunds(taker) /\ BestMaker.price = 0

\* Variant: the taker is not charged.
PayNothing(maker, size) == taker

Pay(maker, size) ==
    IF BuysByFunds(taker)
    THEN [taker EXCEPT !.funds = @ - size * maker.price]
    ELSE [taker EXCEPT !.size = @ - size]

\* Variant: the logs tell the whole size of the maker.
TradeLogsWholeMaker(maker, size) ==
    <<MatchLog(logSeq + 1, tradeSeq + 1, taker, maker, maker.size)>>

\* Variant: both logs are given one number.
TradeLogsOneNumber(maker, size) ==
    LET match == MatchLog(logSeq + 1, tradeSeq + 1, taker, maker, size)
    IN  IF size = maker.size
        THEN <<match, DoneLog(logSeq + 1, [maker EXCEPT !.size = 0], 0, "filled")>>
        ELSE <<match>>

\* The match log, and the done log of a maker that is now filled.
TradeLogs(maker, size) ==
    LET match == MatchLog(logSeq + 1, tradeSeq + 1, taker, maker, size)
    IN  IF size = maker.size
        THEN <<match, DoneLog(logSeq + 2, [maker EXCEPT !.size = 0], 0, "filled")>>
        ELSE <<match>>

MatchMaker ==
    /\ MeetsMaker
    /\ ~DividesByZero
    /\ Wanted > 0
    /\ LET maker == BestMaker
           size  == Min({Wanted, maker.size})
           new   == TradeLogs(maker, size)
       IN  /\ taker' = Pay(maker, size)
           /\ depths' = [depths EXCEPT ![maker.side] = DecrSize(@, maker, size)]
           /\ logSeq' = logSeq + Len(new)
           /\ tradeSeq' = tradeSeq + 1
           /\ logs' = logs \o new
           /\ traded' = [id \in OrderIds |->
                 IF id \in {new[1].taker, new[1].maker}
                 THEN traded[id] + new[1].size ELSE traded[id]]
           /\ spent' = [id \in OrderIds |->
                 IF id \in {new[1].taker, new[1].maker}
                 THEN spent[id] + new[1].size * new[1].price ELSE spent[id]]
    /\ UNCHANGED <<rows, messages, window, panicked, accepts>>

DivideByZero ==
    /\ MeetsMaker
    /\ DividesByZero
    /\ panicked' = TRUE
    /\ UNCHANGED <<rows, messages, bookVars, taker, logs, auxVars>>

\* The loop has broken, or has run out of makers.
LoopOver ==
    /\ taker # NoOrder
    /\ ~panicked
    /\ MeetsMaker => ~DividesByZero /\ Wanted = 0

Rest ==
    /\ LoopOver
    /\ Rests(taker)
    /\ depths' = [depths EXCEPT ![taker.side] = Add(@, taker)]
    /\ logSeq' = logSeq + 1
    /\ logs' = Append(logs, ClosingLog(logSeq + 1, taker))
    /\ taker' = NoOrder
    /\ UNCHANGED <<rows, messages, tradeSeq, window, panicked, auxVars>>

Finish ==
    /\ LoopOver
    /\ ~Rests(taker)
    /\ logSeq' = logSeq + 1
    /\ logs' = Append(logs, ClosingLog(logSeq + 1, taker))
    /\ taker' = NoOrder
    /\ UNCHANGED <<rows, messages, depths, tradeSeq, window, panicked, auxVars>>

-----------------------------------------------------------------------------
\* CancelOrder marks the id whatever it finds, and ignores that the id was
\* marked already.
Cancel(order) ==
    /\ Receive(order)
    /\ window' = IF WindowRefuses(window, order.id) THEN window
                 ELSE WindowPut(window, order.id)
    /\ LET book == [depths |-> depths, logSeq |-> logSeq, tradeSeq |-> tradeSeq]
           result == CancelOrder(book, order)
       IN  /\ depths' = result.book.depths
           /\ logSeq' = result.book.logSeq
           /\ logs' = logs \o result.logs
    /\ UNCHANGED <<tradeSeq, taker, panicked, auxVars>>

\* The bounded environment has nothing left to hand over, or the process died.
Over ==
    /\ panicked \/ (Idle /\ messages = MaxMessages)
    /\ UNCHANGED vars

CallStep == MatchMaker \/ DivideByZero \/ Rest \/ Finish

Next ==
    \/ \E order \in Orders :
          StartOrder(order) \/ RefuseOrder(order) \/ Cancel(order)
    \/ CallStep
    \/ Over

Spec == Init /\ [][Next]_vars

-----------------------------------------------------------------------------
(* Properties.  They are stated over the rows of the orders, the logs and   *)
(* the depths, and not with the operators the loop is built from.           *)

Takers ==
    [id : OrderIds, side : Sides, type : {"limit", "market"}, size : Nat,
     price : Prices \cup {0, InfPrice}, funds : Nat]

VariablesTyped ==
    /\ rows \in [OrderIds -> Orders \cup {NoOrder}]
    /\ messages \in 0 .. MaxMessages
    /\ depths \in [Sides -> SUBSET RestingOrders]
    /\ logSeq \in Nat
    /\ tradeSeq \in Nat
    /\ window \in SUBSET (0 .. WindowCap - 1)
    /\ taker \in Takers \cup {NoOrder}
    /\ panicked \in BOOLEAN
    /\ logs \in Seq(Logs)
    /\ accepts \in [OrderIds -> Nat]
    /\ traded \in [OrderIds -> Nat]
    /\ spent \in [OrderIds -> Nat]

DepthsKeepIdsApart ==
    \A side \in Sides : \A m, n \in depths[side] :
        /\ m.side = side
        /\ m.id = n.id => m = n

\* Every variable has its type, and a depth holds limit orders of its side,
\* each with something left and each once (add, decrSize).
TypeOK == VariablesTyped /\ DepthsKeepIdsApart

\* The book never rests crossed, not even in the middle of a call: the best
\* bid is below the best ask.  A taker rests only after the loop has run out
\* of makers it crosses.
Uncrossed ==
    \A bid \in depths["buy"], ask \in depths["sell"] : bid.price < ask.price

\* No order trades more than its owner asked for and had put on hold: a size,
\* or, for a buy, the funds of the order.
NoOverfill ==
    \A id \in OrderIds : rows[id] # NoOrder =>
        /\ ~BuysByFunds(rows[id]) => traded[id] <= rows[id].size
        /\ rows[id].side = "buy" => spent[id] <= rows[id].funds

\* Size is neither lost nor made: what an order has on the book is what it
\* asked for less what the match logs say it traded.
RestingSizesAddUp ==
    \A side \in Sides : \A m \in depths[side] :
        m.size + traded[m.id] = rows[m.id].size

\* The window lets every order in at most once, however often its message is
\* delivered.
AcceptedOnce == \A id \in OrderIds : accepts[id] <= 1

\* The ids a log is about.
Parties(log) == IF log.kind = "match" THEN {log.taker, log.maker} ELSE {log.id}

\* The logs of an order are open at most once, then matches, then one done:
\* only an open order is a maker, and nothing is logged of an order that is
\* done.  FillMaker and the mirror of the book rely on it.
LogLifecycle ==
    \A i \in DOMAIN logs :
        /\ logs[i].kind = "done" =>
              \A j \in DOMAIN logs : j > i => logs[i].id \notin Parties(logs[j])
        /\ logs[i].kind = "open" =>
              \A j \in DOMAIN logs :
                 /\ logs[j].kind = "open" /\ logs[j].id = logs[i].id => j = i
                 /\ logs[j].kind = "match" /\ logs[j].taker = logs[i].id => j < i
        /\ logs[i].kind = "match" =>
              \E j \in 1 .. i - 1 :
                 logs[j].kind = "open" /\ logs[j].id = logs[i].maker

\* A done log tells the whole story of its order: what remains plus what was
\* traded is what was asked for, and a market order is "filled" exactly when
\* it traded all it came with.
DoneTellsAll ==
    \A i \in DOMAIN logs : logs[i].kind = "done" =>
        LET order  == rows[logs[i].id]
            filled == IF order.side = "buy" THEN spent[order.id] = order.funds
                                            ELSE traded[order.id] = order.size
        IN  IF order.type = "limit"
            THEN /\ logs[i].remaining + traded[order.id] = order.size
                 /\ logs[i].reason = "filled" <=> logs[i].remaining = 0
            ELSE logs[i].reason = "filled" <=> filled

\* Every call that lets an order in ends with the order open or done, so that
\* nobody waits for an order the book has forgotten.
NothingForgotten ==
    Idle => \A id \in OrderIds : accepts[id] > 0 =>
        \/ \E i \in DOMAIN logs : logs[i].kind = "done" /\ logs[i].id = id
        \/ \E m \in depths["buy"] \cup depths["sell"] : m.id = id

\* Nobody trades at a price worse than the limit of the order.
PriceProtection ==
    \A i \in DOMAIN logs : logs[i].kind = "match" =>
        \A id \in Parties(logs[i]) : rows[id].type = "limit" =>
            IF rows[id].side = "buy" THEN logs[i].price <= rows[id].price
                                     ELSE logs[i].price >= rows[id].price

\* Log and trade numbers leave no gap and repeat none: readers of the log
\* stop at a gap (KafkaLogReader), and trade ids are primary keys.
NumbersContiguous ==
    /\ logSeq = Len(logs)
    /\ \A i \in DOMAIN logs :
          /\ logs[i].seq = i
          /\ logs[i].kind = "match" =>
                logs[i].tradeSeq =
                   Cardinality({j \in 1 .. i : logs[j].kind = "match"})

\* A trade is made with the resting order of the best price, and of the lowest
\* id at that price: no step trades with one maker past a better one.
BestPriceFirst ==
    [][\A i \in DOMAIN logs' \ DOMAIN logs : logs'[i].kind = "match" =>
          \A m \in depths[logs'[i].side] : m.id # logs'[i].maker =>
             \/ IF m.side = "sell" THEN m.price > logs'[i].price
                                   ELSE m.price < logs'[i].price
             \/ m.price = logs'[i].price /\ m.id > logs'[i].maker]_vars

\* A market order is given up only when it can buy or sell nothing more.
MarketOrdersTryAll ==
    [][taker # NoOrder /\ taker' = NoOrder /\ taker.type = "market" =>
          \/ MakerDepth = {}
          \/ taker.size = 0 /\ taker.funds = 0
          \/ /\ taker.side = "buy"
             /\ \A m \in MakerDepth : taker.funds < m.price]_vars

\* What the callers see: mid-call, the book and the logs are already those of
\* the finished call.
Now == [depths |-> depths, logSeq |-> logSeq, tradeSeq |-> tradeSeq]

Seen == IF taker = NoOrder THEN [book |-> Now, logs |-> << >>]
                           ELSE Complete(Now, taker)

Atomic == INSTANCE AtomicBook
            WITH book <- Seen.book, logs <- logs \o Seen.logs,
                 accepted <- {rows[id] : id \in {i \in OrderIds : accepts[i] > 0}}

\* The loop implements price-time priority: one step per order.
ImplementsAtomicBook == Atomic!Spec

=============================================================================
