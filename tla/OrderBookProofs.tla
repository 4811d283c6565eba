-------------------------- MODULE OrderBookProofs ---------------------------
(***************************************************************************)
(* Proofs about OrderBook for every set of orders, every capacity of the   *)
(* window and every number of messages, redelivered ones and ids beyond    *)
(* the window included where nothing else is said: the messages let in and *)
(* the book they make; the numbers of the logs, the prices and the makers  *)
(* of the trades, and the life of each order; and that the loop implements *)
(* the atomic book.                                                        *)
(***************************************************************************)
EXTENDS OrderBook, MatchingProofs

-----------------------------------------------------------------------------
(* Orders, takers and depths. *)

\* What PlaceOrder lets through, field by field.
LEMMA OrderFields ==
    ASSUME NEW order \in Orders
    PROVE  /\ order.id \in OrderIds
           /\ order.side \in Sides
           /\ order.type \in {"limit", "market"}
           /\ order.size \in Nat
           /\ order.funds \in Nat
           /\ order.type = "limit" =>
                 /\ order.price \in Prices
                 /\ order.size > 0
                 /\ order.funds = order.size * order.price
           /\ TakerOf(order) \in Takers
           /\ TakerOf(order).id = order.id
           /\ TakerOf(order).side = order.side
           /\ TakerOf(order).type = order.type
           /\ TakerOf(order).size = order.size
           /\ TakerOf(order).funds = order.funds
           /\ order.type = "limit" => TakerOf(order) = order
<1>1. CASE order \in LimitOrders
  BY <1>1, SizesAssumption, PricesAssumption
     DEF LimitOrders, TakerOf, Takers
<1>2. CASE order \in MarketBuys
  BY <1>2, BudgetsAssumption DEF MarketBuys, TakerOf, Takers, Sides
<1>3. CASE order \in MarketSells
  BY <1>3, SizesAssumption DEF MarketSells, TakerOf, Takers, Sides
<1> QED
  BY <1>1, <1>2, <1>3 DEF Orders

\* An idle book has no taker to be mistaken for one.
LEMMA NoOrderIsNoTaker == NoOrder \notin Takers /\ NoOrder \notin Orders
<1>1. 0 \notin OrderIds
  BY OrderIdsAssumption
<1> QED
  BY <1>1, OrderFields DEF NoOrder, Takers

\* The two sides, and their depths.
DepthsOK == \A side \in Sides : IsDepth(depths[side], side)

\* A taker that is not a market order came with a limit price.
TakerOK == taker # NoOrder /\ taker.type = "limit" => taker.price \in Prices

Structure == VariablesTyped /\ DepthsOK /\ TakerOK

\* Adding an order to a depth.
LEMMA AddIsDepth ==
    ASSUME NEW side \in Sides, NEW depth, IsDepth(depth, side),
           NEW order \in RestingOrders, order.side = side
    PROVE  IsDepth(Add(depth, order), side)
  BY DEF IsDepth, Add

\* Taking a size off an order of a depth.
LEMMA DecrSizeIsDepth ==
    ASSUME NEW side \in Sides, NEW depth, IsDepth(depth, side),
           NEW maker \in depth, NEW size \in Nat, size <= maker.size
    PROVE  IsDepth(DecrSize(depth, maker, size), side)
<1> DEFINE less == [maker EXCEPT !.size = @ - size]
<1>1. CASE size = maker.size
  BY <1>1 DEF IsDepth, DecrSize
<1>2. CASE size # maker.size
  <2>1. maker \in RestingOrders
    BY DEF IsDepth
  <2>2. less \in RestingOrders /\ less.side = maker.side /\ less.id = maker.id
    BY <1>2, <2>1 DEF RestingOrders
  <2>3. DecrSize(depth, maker, size) = (depth \ {maker}) \cup {less}
    BY <1>2 DEF DecrSize
  <2> QED
    BY <2>2, <2>3 DEF IsDepth
<1> QED
  BY <1>1, <1>2

-----------------------------------------------------------------------------
(* An iteration of the loop. *)

\* The maker the loop stands on, and the size of the trade.
LEMMA TradeFacts ==
    ASSUME Structure, MatchMaker
    PROVE  LET maker == BestMaker
               size  == Min({Wanted, maker.size})
           IN  /\ taker \in Takers
               /\ maker \in MakerDepth
               /\ maker \in RestingOrders
               /\ maker.side = Opposite(taker.side)
               /\ maker.side \in Sides
               /\ IsDepth(MakerDepth, maker.side)
               /\ size \in Nat \ {0}
               /\ size <= maker.size
               /\ size <= Wanted
               /\ Pay(maker, size) \in Takers
<1> DEFINE maker == BestMaker
           size  == Min({Wanted, maker.size})
<1>1. taker \in Takers /\ taker.side \in Sides
  BY DEF Structure, VariablesTyped, MatchMaker, MeetsMaker, Takers
<1>2. Opposite(taker.side) \in Sides
  BY DEF Opposite, Sides
<1>3. IsDepth(MakerDepth, Opposite(taker.side)) /\ MakerDepth # {}
  BY <1>2 DEF Structure, DepthsOK, MakerDepth, MatchMaker, MeetsMaker
<1>4. maker \in MakerDepth /\ maker \in RestingOrders
      /\ maker.side = Opposite(taker.side)
  <2>1. First(MakerDepth) \in MakerDepth
    BY <1>2, <1>3, FirstIsFirst
  <2> QED
    BY <2>1, <1>3 DEF BestMaker, IsDepth
<1>5. maker.size \in Nat \ {0} /\ maker.price \in Nat
  BY <1>4, PricesAssumption DEF RestingOrders
<1>6. BuysByFunds(taker) => maker.price \in Nat \ {0}
  BY <1>5 DEF MatchMaker, DividesByZero
<1>7. Wanted \in Nat \ {0}
  <2>1. taker.size \in Nat /\ taker.funds \in Nat
    BY <1>1 DEF Takers
  <2>2. BuysByFunds(taker) => taker.funds \div maker.price \in Nat
    BY <2>1, <1>6
  <2> QED
    BY <2>1, <2>2, <1>5 DEF Wanted, MatchMaker
<1>8. size \in Nat \ {0} /\ size <= maker.size /\ size <= Wanted
  BY <1>5, <1>7, LeastOfTwo
<1>9. Pay(maker, size) \in Takers
  <2>1. CASE BuysByFunds(taker)
    <3>1. size * maker.price <= taker.funds
      BY <2>1, <1>1, <1>6, <1>8, SpendsWithinFunds DEF Wanted, Takers
    <3>2. taker.funds - size * maker.price \in Nat
      BY <3>1, <1>1, <1>5, <1>8 DEF Takers
    <3> QED
      BY <2>1, <3>2, <1>1 DEF Pay, Takers
  <2>2. CASE ~BuysByFunds(taker)
    <3>1. taker.size - size \in Nat
      BY <2>2, <1>1, <1>8 DEF Wanted, Takers
    <3> QED
      BY <2>2, <3>1, <1>1 DEF Pay, Takers
  <2> QED
    BY <2>1, <2>2
<1> QED
  BY <1>1, <1>2, <1>3, <1>4, <1>8, <1>9

\* The logs of an iteration are logs.
LEMMA TradeLogsTyped ==
    ASSUME Structure, MatchMaker,
           NEW maker, maker = BestMaker,
           NEW size, size = Min({Wanted, maker.size})
    PROVE  /\ TradeLogs(maker, size) \in Seq(Logs)
           /\ Len(TradeLogs(maker, size)) \in Nat
           /\ TradeLogs(maker, size)[1] =
                 MatchLog(logSeq + 1, tradeSeq + 1, taker, maker, size)
<1> DEFINE match == MatchLog(logSeq + 1, tradeSeq + 1, taker, maker, size)
           done  == DoneLog(logSeq + 2, [maker EXCEPT !.size = 0], 0, "filled")
<1>1. taker \in Takers /\ maker \in RestingOrders /\ size \in Nat
  BY TradeFacts
<1>2. logSeq \in Nat /\ tradeSeq \in Nat
  BY DEF Structure, VariablesTyped
<1>3. match \in Logs
  BY <1>1, <1>2 DEF MatchLog, Logs, Takers, RestingOrders
<1>4. done \in Logs
  BY <1>1, <1>2 DEF DoneLog, Logs, RestingOrders
<1>5. CASE size = maker.size
  <2>1. TradeLogs(maker, size) = <<match, done>>
    BY <1>5 DEF TradeLogs
  <2>2. <<match, done>> \in Seq(Logs)
    BY <1>3, <1>4
  <2>3. <<match, done>>[1] = match /\ Len(<<match, done>>) = 2
    OBVIOUS
  <2> QED
    BY <2>1, <2>2, <2>3
<1>6. CASE size # maker.size
  <2>1. TradeLogs(maker, size) = <<match>>
    BY <1>6 DEF TradeLogs
  <2>2. <<match>> \in Seq(Logs)
    BY <1>3
  <2>3. <<match>>[1] = match /\ Len(<<match>>) = 1
    OBVIOUS
  <2> QED
    BY <2>1, <2>2, <2>3
<1> QED
  BY <1>5, <1>6

\* The closing log is a log.
LEMMA ClosingLogTyped ==
    ASSUME Structure, taker # NoOrder
    PROVE  ClosingLog(logSeq + 1, taker) \in Logs
<1>1. taker \in Takers /\ logSeq \in Nat
  BY DEF Structure, VariablesTyped
<1>2. taker.type = "limit" => taker.price \in Prices
  BY DEF Structure, TakerOK
<1>3. DoneReason(taker) \in {"filled", "cancelled"}
  BY DEF DoneReason
<1>4. CASE taker.type = "limit"
  <2>1. OpenLog(logSeq + 1, taker) \in Logs
    BY <1>1, <1>2, <1>4 DEF OpenLog, Logs, Takers
  <2>2. DoneLog(logSeq + 1, taker, taker.size, DoneReason(taker)) \in Logs
    BY <1>1, <1>2, <1>3, <1>4 DEF DoneLog, Logs, Takers
  <2> QED
    BY <1>4, <2>1, <2>2 DEF ClosingLog
<1>5. CASE taker.type = "market"
  <2>1. DoneLog(logSeq + 1, [taker EXCEPT !.price = 0], 0, DoneReason(taker))
          \in Logs
    BY <1>1, <1>3, <1>5 DEF DoneLog, Logs, Takers
  <2> QED
    BY <1>5, <2>1 DEF ClosingLog, Rests
<1> QED
  BY <1>1, <1>4, <1>5 DEF Takers

-----------------------------------------------------------------------------
(* Every step keeps the structure. *)

LEMMA InitStructure == Init => Structure
<1> SUFFICES ASSUME Init
             PROVE  Structure
  OBVIOUS
<1>1. depths = [side \in Sides |-> {}]
  BY DEF Init, EmptyBook
<1>2. DepthsOK
  BY <1>1 DEF DepthsOK, IsDepth
<1>3. logs \in Seq(Logs)
  BY DEF Init
<1>4. depths \in [Sides -> SUBSET RestingOrders]
  <2>1. \A side \in Sides : {} \in SUBSET RestingOrders
    OBVIOUS
  <2> QED
    BY <1>1, <2>1
<1>5. panicked \in BOOLEAN
  BY Zenon DEF Init
<1>6. VariablesTyped
  BY <1>3, <1>4, <1>5, MaxMessagesAssumption DEF Init, VariablesTyped
<1> QED
  BY <1>2, <1>6 DEF Init, Structure, TakerOK

\* Every id has a slot in the window.
LEMMA SlotInWindow ==
    ASSUME NEW id \in OrderIds
    PROVE  Slot(id) \in 0 .. WindowCap - 1
<1>1. id \in Nat /\ WindowCap \in Nat /\ WindowCap > 0
  BY OrderIdsAssumption, WindowCapAssumption
<1>2. id % WindowCap \in 0 .. WindowCap - 1
  BY <1>1
<1> QED
  BY <1>2 DEF Slot

LEMMA StartOrderStructure ==
    ASSUME Structure, NEW order \in Orders, StartOrder(order)
    PROVE  Structure'
<1>1. order.id \in OrderIds /\ TakerOf(order) \in Takers
      /\ (order.type = "limit" => order.price \in Prices)
      /\ TakerOf(order).type = order.type
      /\ (order.type = "limit" => TakerOf(order) = order)
  BY OrderFields
<1>2. VariablesTyped'
  <2>1. Slot(order.id) \in 0 .. WindowCap - 1
    BY <1>1, SlotInWindow
  <2>2. rows' \in [OrderIds -> Orders \cup {NoOrder}] /\ messages' \in 0 .. MaxMessages
    BY <1>1, MaxMessagesAssumption DEF StartOrder, Receive, Structure, VariablesTyped
  <2>3. window' \in SUBSET (0 .. WindowCap - 1)
    <3>1. window \in SUBSET (0 .. WindowCap - 1) /\ window' = window \cup {Slot(order.id)}
      BY DEF StartOrder, WindowPut, Structure, VariablesTyped
    <3> QED
      BY <2>1, <3>1
  <2>5. accepts' \in [OrderIds -> Nat]
    BY <1>1 DEF StartOrder, Structure, VariablesTyped
  <2>4. taker' \in Takers
    BY <1>1 DEF StartOrder
  <2> QED
    BY <2>2, <2>3, <2>4, <2>5 DEF StartOrder, Structure, VariablesTyped
<1>3. DepthsOK'
  BY DEF StartOrder, Structure, DepthsOK
<1>4. TakerOK'
  BY <1>1 DEF StartOrder, TakerOK
<1> QED
  BY <1>2, <1>3, <1>4 DEF Structure

LEMMA RefuseOrderStructure ==
    ASSUME Structure, NEW order \in Orders, RefuseOrder(order)
    PROVE  Structure'
<1>1. order.id \in OrderIds
  BY OrderFields
<1> QED
  BY <1>1, MaxMessagesAssumption
     DEF RefuseOrder, Receive, bookVars, auxVars, Structure, VariablesTyped, DepthsOK,
         TakerOK

LEMMA MatchMakerStructure ==
    ASSUME Structure, MatchMaker
    PROVE  Structure'
<1> DEFINE maker == BestMaker
           size  == Min({Wanted, maker.size})
           new   == TradeLogs(maker, size)
<1>1. /\ taker' = Pay(maker, size)
      /\ depths' = [depths EXCEPT ![maker.side] = DecrSize(@, maker, size)]
      /\ logSeq' = logSeq + Len(new)
      /\ tradeSeq' = tradeSeq + 1
      /\ logs' = logs \o new
      /\ UNCHANGED <<rows, messages, window, panicked, accepts>>
  BY DEF MatchMaker
<1>2. /\ taker \in Takers /\ maker \in MakerDepth /\ maker \in RestingOrders
      /\ maker.side = Opposite(taker.side) /\ maker.side \in Sides
      /\ IsDepth(MakerDepth, maker.side)
      /\ size \in Nat /\ size <= maker.size
      /\ Pay(maker, size) \in Takers
  BY TradeFacts
<1>3. new \in Seq(Logs) /\ Len(new) \in Nat
      /\ new[1] = MatchLog(logSeq + 1, tradeSeq + 1, taker, maker, size)
  BY TradeLogsTyped
<1>4. new[1].size = size /\ new[1].price = maker.price
  <2>1. MatchLog(logSeq + 1, tradeSeq + 1, taker, maker, size).size = size
    BY DEF MatchLog
  <2>2. MatchLog(logSeq + 1, tradeSeq + 1, taker, maker, size).price = maker.price
    BY DEF MatchLog
  <2> QED
    BY <1>3, <2>1, <2>2
<1>5. MakerDepth = depths[maker.side]
  BY <1>2 DEF MakerDepth
<1>6. DepthsOK'
  <2>1. IsDepth(DecrSize(depths[maker.side], maker, size), maker.side)
    BY <1>2, <1>5, DecrSizeIsDepth
  <2>2. depths \in [Sides -> SUBSET RestingOrders]
    BY DEF Structure, VariablesTyped
  <2> QED
    BY <1>1, <1>2, <2>1, <2>2 DEF Structure, DepthsOK
<1>7. traded' \in [OrderIds -> Nat] /\ spent' \in [OrderIds -> Nat]
  <2>1. \A id \in OrderIds : traded[id] \in Nat /\ spent[id] \in Nat
    BY DEF Structure, VariablesTyped
  <2>2. size * maker.price \in Nat
    <3>1. maker.price \in Nat
      BY <1>2, PricesAssumption DEF RestingOrders
    <3> QED
      BY <3>1, <1>2
  <2>3. /\ traded' = [id \in OrderIds |->
                IF id \in {new[1].taker, new[1].maker}
                THEN traded[id] + size ELSE traded[id]]
        /\ spent' = [id \in OrderIds |->
                IF id \in {new[1].taker, new[1].maker}
                THEN spent[id] + size * maker.price ELSE spent[id]]
    BY <1>4 DEF MatchMaker
  <2>4. traded' \in [OrderIds -> Nat]
    BY <1>2, <2>1, <2>3
  <2>5. \A id \in OrderIds : spent[id] + size * maker.price \in Nat
    BY <2>1, <2>2
  <2>6. spent' \in [OrderIds -> Nat]
    BY <2>1, <2>3, <2>5
  <2> QED
    BY <2>4, <2>6
<1>8. VariablesTyped'
  <2>1. depths' \in [Sides -> SUBSET RestingOrders]
    <3>1. DecrSize(depths[maker.side], maker, size) \in SUBSET RestingOrders
      BY <1>2, <1>5, DecrSizeIsDepth DEF IsDepth
    <3> QED
      BY <1>1, <1>2, <3>1 DEF Structure, VariablesTyped
  <2>2. logs' \in Seq(Logs) /\ logSeq' \in Nat /\ tradeSeq' \in Nat
    BY <1>1, <1>3 DEF Structure, VariablesTyped
  <2> QED
    BY <1>1, <1>2, <1>7, <2>1, <2>2 DEF Structure, VariablesTyped
<1>9. TakerOK'
  <2>1. taker'.type = taker.type /\ taker'.price = taker.price
    BY <1>1, <1>2 DEF Pay, Takers
  <2> QED
    BY <2>1, <1>2, NoOrderIsNoTaker DEF Structure, TakerOK
<1> QED
  BY <1>6, <1>8, <1>9 DEF Structure

LEMMA RestStructure ==
    ASSUME Structure, Rest
    PROVE  Structure'
<1>1. taker \in Takers /\ taker # NoOrder /\ taker.side \in Sides
      /\ taker.type = "limit" /\ taker.size > 0
  BY DEF Structure, VariablesTyped, Rest, LoopOver, Rests, Takers
<1>2. taker \in RestingOrders
  BY <1>1 DEF Structure, TakerOK, Takers, RestingOrders
<1>3. IsDepth(Add(depths[taker.side], taker), taker.side)
  BY <1>1, <1>2, AddIsDepth DEF Structure, DepthsOK
<1>4. DepthsOK'
  BY <1>1, <1>3 DEF Structure, DepthsOK, VariablesTyped, Rest
<1>5. VariablesTyped'
  <2>1. depths' \in [Sides -> SUBSET RestingOrders]
    BY <1>1, <1>3 DEF IsDepth, Structure, VariablesTyped, Rest
  <2>2. logs' \in Seq(Logs)
    BY <1>1, ClosingLogTyped DEF Structure, VariablesTyped, Rest
  <2> QED
    BY <2>1, <2>2 DEF Structure, VariablesTyped, Rest, auxVars
<1>6. TakerOK'
  BY DEF TakerOK, Rest
<1> QED
  BY <1>4, <1>5, <1>6 DEF Structure

LEMMA FinishStructure ==
    ASSUME Structure, Finish
    PROVE  Structure'
<1>1. logs' \in Seq(Logs)
  BY ClosingLogTyped DEF Structure, VariablesTyped, Finish, LoopOver
<1> QED
  BY <1>1 DEF Structure, VariablesTyped, DepthsOK, TakerOK, Finish, auxVars

LEMMA DivideByZeroStructure ==
    ASSUME Structure, DivideByZero
    PROVE  Structure'
  BY DEF DivideByZero, Structure, VariablesTyped, DepthsOK, TakerOK, bookVars, auxVars

LEMMA CancelStructure ==
    ASSUME Structure, NEW order \in Orders, Cancel(order)
    PROVE  Structure'
<1> DEFINE book   == [depths |-> depths, logSeq |-> logSeq, tradeSeq |-> tradeSeq]
           entry  == {m \in depths[order.side] : m.id = order.id}
           m      == CHOOSE e \in entry : TRUE
           done   == DoneLog(logSeq + 1, m, m.size, "cancelled")
<1>1. order.id \in OrderIds /\ order.side \in Sides
  BY OrderFields
<1>2. IsDepth(depths[order.side], order.side)
  BY <1>1 DEF Structure, DepthsOK
<1>3. \/ depths' = depths /\ logSeq' = logSeq /\ logs' = logs \o << >>
      \/ /\ entry # {}
         /\ depths' = [depths EXCEPT ![order.side] = @ \ entry]
         /\ logSeq' = logSeq + 1
         /\ logs' = logs \o <<done>>
  BY DEF Cancel, CancelOrder, Entry
<1>4. entry # {} => done \in Logs
  <2> SUFFICES ASSUME entry # {}
               PROVE  done \in Logs
    OBVIOUS
  <2>1. m \in RestingOrders
    BY <1>2 DEF IsDepth
  <2> QED
    BY SMTT(30), <2>1 DEF DoneLog, Logs, RestingOrders, Structure, VariablesTyped
<1>5. logs' \in Seq(Logs) /\ logSeq' \in Nat
  <2>1. logs \in Seq(Logs) /\ logSeq \in Nat
    BY DEF Structure, VariablesTyped
  <2>2. CASE logSeq' = logSeq /\ logs' = logs \o << >>
    BY <2>1, <2>2
  <2>3. CASE entry # {} /\ logSeq' = logSeq + 1 /\ logs' = logs \o <<done>>
    <3>1. <<done>> \in Seq(Logs)
      BY <2>3, <1>4
    <3>2. logs \o <<done>> \in Seq(Logs)
      BY <2>1, <3>1
    <3> QED
      BY <2>1, <2>3, <3>2
  <2> QED
    BY <1>3, <2>2, <2>3
<1>6. DepthsOK' /\ depths' \in [Sides -> SUBSET RestingOrders]
  <2>1. IsDepth(depths[order.side] \ entry, order.side)
    BY <1>2 DEF IsDepth
  <2>2. depths \in [Sides -> SUBSET RestingOrders] /\ DepthsOK
    BY DEF Structure, VariablesTyped
  <2>3. CASE depths' = depths
    BY <2>2, <2>3 DEF DepthsOK
  <2>4. CASE depths' = [depths EXCEPT ![order.side] = @ \ entry]
    <3>1. DepthsOK'
      BY <1>1, <2>1, <2>2, <2>4 DEF DepthsOK
    <3>2. depths[order.side] \ entry \in SUBSET RestingOrders
      BY <1>1, <2>2
    <3> QED
      BY <1>1, <2>2, <2>4, <3>1, <3>2
  <2> QED
    BY <1>3, <2>3, <2>4
<1>7. window' \in SUBSET (0 .. WindowCap - 1)
  <2>1. Slot(order.id) \in 0 .. WindowCap - 1
    BY <1>1, SlotInWindow
  <2> QED
    BY <2>1 DEF Cancel, WindowPut, Structure, VariablesTyped
<1>8. VariablesTyped'
  <2>1. rows' \in [OrderIds -> Orders \cup {NoOrder}] /\ messages' \in 0 .. MaxMessages
    BY <1>1, MaxMessagesAssumption DEF Cancel, Receive, Structure, VariablesTyped
  <2>2. UNCHANGED <<tradeSeq, taker, panicked, accepts, traded, spent>>
    BY DEF Cancel, auxVars
  <2> QED
    BY <1>5, <1>6, <1>7, <2>1, <2>2 DEF Structure, VariablesTyped
<1> QED
  BY <1>6, <1>8 DEF Structure, TakerOK, Cancel

LEMMA NextStructure ==
    ASSUME Structure, [Next]_vars
    PROVE  Structure'
<1>1. CASE UNCHANGED vars
  BY <1>1 DEF vars, bookVars, auxVars, Structure, VariablesTyped, DepthsOK, TakerOK
<1>2. CASE Next
  <2>1. CASE CallStep
    BY <2>1, MatchMakerStructure, DivideByZeroStructure, RestStructure,
       FinishStructure DEF CallStep
  <2>2. CASE Over
    BY <1>1, <2>2 DEF Over
  <2> QED
    BY <1>2, <2>1, <2>2, StartOrderStructure, RefuseOrderStructure,
       CancelStructure DEF Next
<1> QED
  BY <1>1, <1>2

\* Every variable keeps its type: in particular no size or funds ever go below
\* zero, no order rests with nothing left, and no id is twice in a depth.
THEOREM TypeCorrect == Spec => []TypeOK
<1>1. Init => Structure
  BY InitStructure
<1>2. Structure /\ [Next]_vars => Structure'
  BY NextStructure
<1>3. Structure => TypeOK
  BY DEF Structure, DepthsOK, IsDepth, TypeOK, DepthsKeepIdsApart
<1> QED
  BY <1>1, <1>2, <1>3, PTL DEF Spec

-----------------------------------------------------------------------------
(* The book never rests crossed. *)

\* A step after which every order has the price of one that was there before
\* leaves the book uncrossed.
LEMMA ShrinkingStaysUncrossed ==
    ASSUME Uncrossed,
           \A side \in Sides : \A m \in depths'[side] :
              \E n \in depths[side] : n.price = m.price
    PROVE  Uncrossed'
<1> SUFFICES ASSUME NEW bid \in depths'["buy"], NEW ask \in depths'["sell"]
             PROVE  bid.price < ask.price
  BY DEF Uncrossed
<1>1. PICK b \in depths["buy"] : b.price = bid.price
  BY DEF Sides
<1>2. PICK a \in depths["sell"] : a.price = ask.price
  BY DEF Sides
<1> QED
  BY <1>1, <1>2 DEF Uncrossed

\* A limit order rests only when it crosses no order of the other side: the
\* loop has broken on the best of them, and nobody is priced better than that.
LEMMA RestingTakerCrossesNobody ==
    ASSUME Structure, Rest, NEW n \in MakerDepth
    PROVE  IF taker.side = "buy" THEN taker.price < n.price
                                 ELSE taker.price > n.price
<1> DEFINE other == Opposite(taker.side)
<1>1. taker \in Takers /\ taker.type = "limit" /\ taker.size > 0
      /\ taker # NoOrder /\ ~panicked /\ other \in Sides
  BY DEF Structure, VariablesTyped, Rest, LoopOver, Rests, Opposite, Sides
<1>2. taker.price \in Nat /\ taker.side \in Sides
  BY <1>1, PricesAssumption DEF Structure, TakerOK, Takers
<1>3. IsDepth(MakerDepth, other) /\ MakerDepth # {}
  BY <1>1 DEF Structure, DepthsOK, MakerDepth
<1>4. BestMaker \in MakerDepth
      /\ \A m \in MakerDepth \ {BestMaker} : Precedes(BestMaker, m)
  BY <1>1, <1>3, FirstIsFirst DEF BestMaker
<1>5. ~Crosses(taker, BestMaker)
  <2>1. ~BuysByFunds(taker)
    BY <1>1 DEF BuysByFunds
  <2>2. Eager /\ Wanted = taker.size
    BY <1>1, <2>1 DEF Eager, Wanted
  <2>3. ~MeetsMaker
    BY <1>1, <2>2 DEF Rest, LoopOver, Takers
  <2> QED
    BY <1>1, <1>3, <2>2, <2>3 DEF MeetsMaker
<1>6. \A m \in MakerDepth : m.price \in Nat /\ m.side = other
  BY <1>3, PricesAssumption DEF IsDepth, RestingOrders
<1>7. CASE taker.side = "buy"
  <2>1. taker.price < BestMaker.price
    BY <1>2, <1>4, <1>5, <1>6, <1>7 DEF Crosses
  <2>2. BestMaker.price <= n.price
    BY <1>4, <1>6, <1>7 DEF Precedes, Opposite
  <2> QED
    BY <2>1, <2>2, <1>2, <1>4, <1>6, <1>7
<1>8. CASE taker.side = "sell"
  <2>1. taker.price > BestMaker.price
    BY <1>2, <1>4, <1>5, <1>6, <1>8 DEF Crosses
  <2>2. BestMaker.price >= n.price
    BY <1>4, <1>6, <1>8 DEF Precedes, Opposite
  <2> QED
    BY <2>1, <2>2, <1>2, <1>4, <1>6, <1>8
<1> QED
  BY <1>2, <1>7, <1>8 DEF Sides

LEMMA RestUncrossed ==
    ASSUME Structure, Uncrossed, Rest
    PROVE  Uncrossed'
<1>1. taker \in Takers /\ taker.side \in Sides
  BY DEF Structure, VariablesTyped, Rest, LoopOver, Takers
<1>2. depths' = [depths EXCEPT ![taker.side] =
                    {m \in @ : m.id # taker.id} \cup {taker}]
      /\ depths \in [Sides -> SUBSET RestingOrders]
  BY DEF Rest, Add, Structure, VariablesTyped
<1>3. \A n \in MakerDepth : IF taker.side = "buy" THEN taker.price < n.price
                                                  ELSE taker.price > n.price
  BY RestingTakerCrossesNobody
<1>4. CASE taker.side = "buy"
  <2>1. MakerDepth = depths["sell"]
    BY <1>4 DEF MakerDepth, Opposite
  <2>2. depths'["sell"] = depths["sell"]
        /\ \A m \in depths'["buy"] : m \in depths["buy"] \/ m = taker
    BY <1>2, <1>4 DEF Sides
  <2> QED
    BY <1>3, <1>4, <2>1, <2>2 DEF Uncrossed
<1>5. CASE taker.side = "sell"
  <2>1. MakerDepth = depths["buy"]
    BY <1>5 DEF MakerDepth, Opposite
  <2>2. depths'["buy"] = depths["buy"]
        /\ \A m \in depths'["sell"] : m \in depths["sell"] \/ m = taker
    BY <1>2, <1>5 DEF Sides
  <2>3. \A n \in depths["buy"] : n.price < taker.price
    <3>1. taker.price \in Nat
      BY <1>1, PricesAssumption
         DEF Structure, TakerOK, Takers, Rest, LoopOver, Rests
    <3>2. \A n \in depths["buy"] : n.price \in Nat
      BY <1>2, PricesAssumption DEF Sides, RestingOrders
    <3> QED
      BY <1>3, <1>5, <2>1, <3>1, <3>2
  <2> QED
    BY <2>2, <2>3 DEF Uncrossed
<1> QED
  BY <1>1, <1>4, <1>5 DEF Sides

LEMMA MatchMakerUncrossed ==
    ASSUME Structure, Uncrossed, MatchMaker
    PROVE  Uncrossed'
<1> DEFINE maker == BestMaker
           size  == Min({Wanted, maker.size})
<1>1. /\ maker \in depths[maker.side] /\ maker.side \in Sides
      /\ maker \in RestingOrders
  BY TradeFacts DEF MakerDepth
<1>2. depths' = [depths EXCEPT ![maker.side] = DecrSize(@, maker, size)]
      /\ depths \in [Sides -> SUBSET RestingOrders]
  BY DEF MatchMaker, Structure, VariablesTyped
<1>3. \A m \in DecrSize(depths[maker.side], maker, size) :
         \E n \in depths[maker.side] : n.price = m.price
  <2>1. [maker EXCEPT !.size = @ - size].price = maker.price
    BY <1>1 DEF RestingOrders
  <2> QED
    BY <1>1, <2>1 DEF DecrSize
<1> QED
  BY <1>1, <1>2, <1>3, ShrinkingStaysUncrossed

LEMMA CancelUncrossed ==
    ASSUME Structure, Uncrossed, NEW order \in Orders, Cancel(order)
    PROVE  Uncrossed'
<1>1. depths \in [Sides -> SUBSET RestingOrders] /\ order.side \in Sides
  BY OrderFields DEF Structure, VariablesTyped
<1>2. \/ depths' = depths
      \/ depths' = [depths EXCEPT ![order.side] =
                       @ \ {m \in depths[order.side] : m.id = order.id}]
  BY DEF Cancel, CancelOrder, Entry
<1>3. \A side \in Sides : depths'[side] \subseteq depths[side]
  BY <1>1, <1>2
<1> QED
  BY <1>3, ShrinkingStaysUncrossed

\* The best bid is always below the best ask, even in the middle of a call:
\* ApplyOrder lets an order rest only after its loop has run out of orders it
\* crosses.
THEOREM BookUncrossed == Spec => []Uncrossed
<1>1. Init => Structure /\ Uncrossed
  <2>1. Init => Uncrossed
    BY DEF Init, EmptyBook, Uncrossed, Sides
  <2> QED
    BY <2>1, InitStructure
<1>2. ASSUME Structure, Uncrossed, [Next]_vars
      PROVE  Structure' /\ Uncrossed'
  <2>1. Structure'
    BY <1>2, NextStructure
  <2>2. depths' = depths => Uncrossed'
    BY <1>2 DEF Uncrossed
  <2>3. ASSUME NEW order \in Orders, StartOrder(order) \/ RefuseOrder(order)
        PROVE  depths' = depths
    BY <2>3 DEF StartOrder, RefuseOrder, bookVars
  <2>4. DivideByZero \/ Finish \/ Over \/ UNCHANGED vars => depths' = depths
    BY DEF DivideByZero, Finish, Over, vars, bookVars
  <2>5. Uncrossed'
    <3>1. CASE MatchMaker \/ Rest
      BY <1>2, <3>1, MatchMakerUncrossed, RestUncrossed
    <3>2. ASSUME NEW order \in Orders, Cancel(order)
          PROVE  Uncrossed'
      BY <1>2, <3>2, CancelUncrossed
    <3> QED
      BY <1>2, <2>2, <2>3, <2>4, <3>1, <3>2 DEF Next, CallStep
  <2> QED
    BY <2>1, <2>5
<1> QED
  BY <1>1, <1>2, PTL DEF Spec

-----------------------------------------------------------------------------
(* The amounts an order book trades, for a book whose order ids all fall   *)
(* into the first span of the de-duplication window.  The hypothesis is    *)
(* needed: past that span the window lets an order in again (run           *)
(* book_beyond_window), and an order let in twice trades twice.            *)

IdsWithinWindow == \A id \in OrderIds : id <= WindowCap

-----------------------------------------------------------------------------
(* The window. *)

\* An order that was let in is stored, and marked in the window.
LetInIsKnown ==
    \A id \in OrderIds :
        /\ rows[id] # NoOrder => rows[id].id = id
        /\ accepts[id] > 0 => rows[id] # NoOrder /\ Slot(id) \in window

\* A message stores its order where no other order is.
LEMMA Received ==
    ASSUME Structure, LetInIsKnown, NEW order \in Orders, Receive(order)
    PROVE  /\ order.id \in OrderIds
           /\ order # NoOrder
           /\ rows'[order.id] = order
           /\ \A id \in OrderIds :
                 /\ rows[id] # NoOrder => rows'[id] = rows[id]
                 /\ id # order.id => rows'[id] = rows[id]
                 /\ rows'[id] # NoOrder => rows'[id].id = id
<1>1. order.id \in OrderIds
  BY OrderFields
<1>2. order # NoOrder
  BY NoOrderIsNoTaker
<1>3. rows \in [OrderIds -> Orders \cup {NoOrder}]
  BY DEF Structure, VariablesTyped
<1> QED
  BY <1>1, <1>2, <1>3 DEF Receive, LetInIsKnown

\* Steps that only widen the window, and let nobody in.
LEMMA LettingNobodyIn ==
    ASSUME LetInIsKnown, AcceptedOnce, accepts' = accepts,
           window \subseteq window',
           \A id \in OrderIds :
              /\ rows[id] # NoOrder => rows'[id] = rows[id]
              /\ rows'[id] # NoOrder => rows'[id].id = id
    PROVE  LetInIsKnown' /\ AcceptedOnce'
<1>1. AcceptedOnce'
  BY DEF AcceptedOnce
<1>2. LetInIsKnown'
  BY DEF LetInIsKnown
<1> QED
  BY <1>1, <1>2

LEMMA StartOrderLetsInOnce ==
    ASSUME IdsWithinWindow, Structure, LetInIsKnown, AcceptedOnce,
           NEW order \in Orders, StartOrder(order)
    PROVE  LetInIsKnown' /\ AcceptedOnce'
<1>1. /\ order.id \in OrderIds /\ order # NoOrder
      /\ rows'[order.id] = order
      /\ \A id \in OrderIds :
            /\ rows[id] # NoOrder => rows'[id] = rows[id]
            /\ rows'[id] # NoOrder => rows'[id].id = id
  BY Received DEF StartOrder
<1>2. Slot(order.id) \notin window
  BY <1>1 DEF StartOrder, WindowRefuses, IdsWithinWindow
<1>3. accepts \in [OrderIds -> Nat]
  BY DEF Structure, VariablesTyped
<1>4. accepts[order.id] = 0
  BY <1>1, <1>2, <1>3 DEF LetInIsKnown
<1>5. accepts' = [accepts EXCEPT ![order.id] = 1]
      /\ window' = window \cup {Slot(order.id)}
  BY <1>1, <1>4 DEF StartOrder, WindowPut
<1>6. AcceptedOnce'
  BY <1>1, <1>3, <1>5 DEF AcceptedOnce
<1>7. LetInIsKnown'
  BY <1>1, <1>3, <1>5 DEF LetInIsKnown
<1> QED
  BY <1>6, <1>7

LEMMA NextLetsInOnce ==
    ASSUME IdsWithinWindow, Structure, LetInIsKnown, AcceptedOnce, [Next]_vars
    PROVE  LetInIsKnown' /\ AcceptedOnce'
<1>1. CASE CallStep \/ Over \/ UNCHANGED vars
  <2>1. accepts' = accepts /\ window' = window /\ rows' = rows
    BY <1>1 DEF CallStep, MatchMaker, DivideByZero, Rest, Finish, Over, vars,
       bookVars, auxVars
  <2> QED
    BY <2>1, LettingNobodyIn DEF LetInIsKnown
<1>2. ASSUME NEW order \in Orders, RefuseOrder(order) \/ Cancel(order)
      PROVE  LetInIsKnown' /\ AcceptedOnce'
  <2>1. accepts' = accepts /\ window \subseteq window'
    BY <1>2 DEF RefuseOrder, Cancel, WindowPut, bookVars, auxVars
  <2>2. Receive(order)
    BY <1>2 DEF RefuseOrder, Cancel
  <2> QED
    BY <2>1, <2>2, Received, LettingNobodyIn
<1> QED
  BY <1>1, <1>2, StartOrderLetsInOnce DEF Next

\* While the ids are within the first span of the window, an order is let in
\* at most once, however often and in whatever order its messages come.
THEOREM LetInOnce ==
    ASSUME IdsWithinWindow
    PROVE  Spec => []AcceptedOnce
<1> DEFINE IInv == Structure /\ LetInIsKnown /\ AcceptedOnce
<1>1. Init => IInv
  BY InitStructure DEF Init, LetInIsKnown, AcceptedOnce
<1>2. IInv /\ [Next]_vars => IInv'
  BY NextStructure, NextLetsInOnce
<1>3. IInv => AcceptedOnce
  OBVIOUS
<1> QED
  BY <1>1, <1>2, <1>3, PTL DEF Spec

-----------------------------------------------------------------------------
(* The amounts. *)

\* An order that was never let in has traded nothing.
IdleHaveNotTraded ==
    \A id \in OrderIds : accepts[id] = 0 => traded[id] = 0 /\ spent[id] = 0

\* An order of a depth is what is left of the order stored under its id.
DepthsMatchRows ==
    \A side \in Sides : \A m \in depths[side] :
        /\ accepts[m.id] > 0
        /\ rows[m.id].type = "limit"
        /\ rows[m.id].side = m.side
        /\ rows[m.id].price = m.price
        /\ m.size + traded[m.id] = rows[m.id].size

\* The taker is what is left of the order stored under its id, and is on no
\* depth.
TakerMatchesRow ==
    taker # NoOrder =>
        /\ accepts[taker.id] > 0
        /\ rows[taker.id].type = taker.type
        /\ rows[taker.id].side = taker.side
        /\ taker.type = "limit" => rows[taker.id].price = taker.price
        /\ IF BuysByFunds(taker)
           THEN taker.funds + spent[taker.id] = rows[taker.id].funds
           ELSE taker.size + traded[taker.id] = rows[taker.id].size
        /\ \A side \in Sides : \A m \in depths[side] : m.id # taker.id

\* A limit buy never pays more than its own price.
PaysAtMostItsPrice ==
    \A id \in OrderIds :
        rows[id] # NoOrder /\ rows[id].type = "limit" /\ rows[id].side = "buy" =>
            spent[id] <= traded[id] * rows[id].price

\* A step that trades nothing, ends no call and adds nothing to a depth.
LEMMA NothingTraded ==
    ASSUME Structure, LetInIsKnown,
           IdleHaveNotTraded, DepthsMatchRows, PaysAtMostItsPrice, NoOverfill,
           traded' = traded, spent' = spent,
           \A id \in OrderIds :
              /\ accepts[id] > 0 => accepts'[id] > 0 /\ rows'[id] = rows[id]
              /\ rows[id] = NoOrder \/ rows'[id] = rows[id],
           \A id \in OrderIds : rows'[id] # NoOrder => rows'[id] \in Orders,
           \A side \in Sides : depths'[side] \subseteq depths[side]
    PROVE  IdleHaveNotTraded' /\ DepthsMatchRows' /\ PaysAtMostItsPrice'
           /\ NoOverfill'
<1>1. /\ accepts \in [OrderIds -> Nat] /\ traded \in [OrderIds -> Nat]
      /\ spent \in [OrderIds -> Nat]
      /\ rows \in [OrderIds -> Orders \cup {NoOrder}]
  BY DEF Structure, VariablesTyped
<1>2. IdleHaveNotTraded'
  <2> SUFFICES ASSUME NEW id \in OrderIds, accepts'[id] = 0
               PROVE  traded[id] = 0 /\ spent[id] = 0
    BY DEF IdleHaveNotTraded
  <2>1. accepts[id] = 0
    BY <1>1
  <2> QED
    BY <2>1 DEF IdleHaveNotTraded
<1>3. \A side \in Sides : \A m \in depths[side] : m.id \in OrderIds
  BY DEF Structure, DepthsOK, IsDepth, RestingOrders
<1>4. DepthsMatchRows'
  BY <1>3 DEF DepthsMatchRows
<1>5. ASSUME NEW id \in OrderIds, rows[id] = NoOrder, rows'[id] # NoOrder
      PROVE  traded[id] = 0 /\ spent[id] = 0
  BY <1>1, <1>5 DEF LetInIsKnown, IdleHaveNotTraded
<1>6. \A id \in OrderIds : rows'[id] # NoOrder =>
         /\ rows'[id].size \in Nat /\ rows'[id].funds \in Nat
         /\ rows'[id].type = "limit" => rows'[id].price \in Nat
  BY OrderFields, PricesAssumption
<1>7. PaysAtMostItsPrice'
  <2> SUFFICES ASSUME NEW id \in OrderIds, rows'[id] # NoOrder,
                      rows'[id].type = "limit", rows'[id].side = "buy"
               PROVE  spent[id] <= traded[id] * rows'[id].price
    BY DEF PaysAtMostItsPrice
  <2>1. CASE rows'[id] = rows[id]
    BY <2>1 DEF PaysAtMostItsPrice
  <2>2. CASE rows[id] = NoOrder
    BY <2>2, <1>5, <1>6
  <2> QED
    BY <2>1, <2>2
<1>8. NoOverfill'
  <2> SUFFICES ASSUME NEW id \in OrderIds, rows'[id] # NoOrder
               PROVE  /\ ~BuysByFunds(rows'[id]) => traded[id] <= rows'[id].size
                      /\ rows'[id].side = "buy" => spent[id] <= rows'[id].funds
    BY DEF NoOverfill
  <2>1. CASE rows'[id] = rows[id]
    BY <2>1 DEF NoOverfill
  <2>2. CASE rows[id] = NoOrder
    BY <2>2, <1>5, <1>6
  <2> QED
    BY <2>1, <2>2
<1> QED
  BY <1>2, <1>4, <1>7, <1>8

Accounts ==
    /\ LetInIsKnown
    /\ AcceptedOnce
    /\ IdleHaveNotTraded
    /\ DepthsMatchRows
    /\ TakerMatchesRow
    /\ PaysAtMostItsPrice
    /\ NoOverfill

\* Storing an order changes no row of an order that was let in.
LEMMA StoredRows ==
    ASSUME Structure, LetInIsKnown, NEW order \in Orders, Receive(order)
    PROVE  /\ \A id \in OrderIds :
                 /\ accepts[id] > 0 => rows'[id] = rows[id]
                 /\ rows[id] = NoOrder \/ rows'[id] = rows[id]
                 /\ rows'[id] # NoOrder => rows'[id] \in Orders
<1>1. \A id \in OrderIds : rows[id] \in Orders \cup {NoOrder}
  BY DEF Structure, VariablesTyped
<1> QED
  BY <1>1, Received DEF LetInIsKnown

LEMMA RefuseOrCancelAccounts ==
    ASSUME IdsWithinWindow, Structure, Accounts, NEW order \in Orders,
           RefuseOrder(order) \/ Cancel(order)
    PROVE  Accounts'
<1>1. Receive(order) /\ taker = NoOrder /\ taker' = taker
  BY DEF RefuseOrder, Cancel, Receive, Idle
<1>2. UNCHANGED <<traded, spent, accepts>>
  BY DEF RefuseOrder, Cancel, auxVars
<1>3. \A side \in Sides : depths'[side] \subseteq depths[side]
  <2>1. depths \in [Sides -> SUBSET RestingOrders] /\ order.side \in Sides
    BY OrderFields DEF Structure, VariablesTyped
  <2>2. \/ depths' = depths
        \/ depths' = [depths EXCEPT ![order.side] =
                         @ \ {m \in depths[order.side] : m.id = order.id}]
    BY DEF RefuseOrder, Cancel, CancelOrder, Entry, bookVars
  <2> QED
    BY <2>1, <2>2
<1>4. IdleHaveNotTraded' /\ DepthsMatchRows' /\ PaysAtMostItsPrice'
      /\ NoOverfill'
  BY <1>1, <1>2, <1>3, StoredRows, NothingTraded DEF Accounts
<1>5. TakerMatchesRow'
  BY <1>1 DEF TakerMatchesRow
<1>6. LetInIsKnown' /\ AcceptedOnce'
  BY NextLetsInOnce DEF Next, Accounts
<1> QED
  BY <1>4, <1>5, <1>6 DEF Accounts

LEMMA StartOrderAccounts ==
    ASSUME IdsWithinWindow, Structure, Accounts, NEW order \in Orders,
           StartOrder(order)
    PROVE  Accounts'
<1> DEFINE id == order.id
<1>1. Receive(order) /\ id \in OrderIds /\ rows'[id] = order
  BY Received DEF StartOrder, Accounts
<1>2. accepts' = [accepts EXCEPT ![id] = @ + 1] /\ taker' = TakerOf(order)
      /\ UNCHANGED <<depths, traded, spent>>
  BY DEF StartOrder
<1>3. accepts \in [OrderIds -> Nat]
  BY DEF Structure, VariablesTyped
<1>4. accepts[id] = 0
  <2>1. Slot(id) \notin window
    BY <1>1 DEF StartOrder, WindowRefuses, IdsWithinWindow
  <2> QED
    BY <1>1, <1>3, <2>1 DEF Accounts, LetInIsKnown
<1>5. IdleHaveNotTraded' /\ DepthsMatchRows' /\ PaysAtMostItsPrice'
      /\ NoOverfill'
  <2>1. \A i \in OrderIds : accepts[i] > 0 => accepts'[i] > 0
    BY <1>1, <1>2, <1>3
  <2> QED
    BY <1>1, <1>2, <2>1, StoredRows, NothingTraded DEF Accounts
<1>6. TakerMatchesRow'
  <2>1. traded[id] = 0 /\ spent[id] = 0
    BY <1>1, <1>4 DEF Accounts, IdleHaveNotTraded
  <2>2. accepts'[id] > 0
    BY <1>1, <1>2, <1>3
  <2>3. \A side \in Sides : \A m \in depths[side] : m.id # id
    BY <1>3, <1>4 DEF Accounts, DepthsMatchRows
  <2>4. /\ TakerOf(order).id = id
        /\ TakerOf(order).type = order.type
        /\ TakerOf(order).side = order.side
        /\ TakerOf(order).size = order.size /\ order.size \in Nat
        /\ TakerOf(order).funds = order.funds /\ order.funds \in Nat
        /\ order.type = "limit" => TakerOf(order) = order
    BY OrderFields
  <2> QED
    BY <1>1, <1>2, <2>1, <2>2, <2>3, <2>4 DEF TakerMatchesRow
<1>7. LetInIsKnown' /\ AcceptedOnce'
  BY NextLetsInOnce DEF Next, Accounts
<1> QED
  BY <1>5, <1>6, <1>7 DEF Accounts

\* The call ends: the taker rests with what it has left, or is forgotten.
LEMMA CallEndsAccounts ==
    ASSUME IdsWithinWindow, Structure, Accounts, Rest \/ Finish
    PROVE  Accounts'
<1>1. UNCHANGED <<rows, window, accepts, traded, spent>> /\ taker' = NoOrder
  BY DEF Rest, Finish, auxVars
<1>2. taker # NoOrder /\ taker \in Takers
  BY DEF Rest, Finish, LoopOver, Structure, VariablesTyped
<1>3. IdleHaveNotTraded' /\ PaysAtMostItsPrice' /\ NoOverfill'
  BY <1>1 DEF Accounts, IdleHaveNotTraded, PaysAtMostItsPrice, NoOverfill
<1>4. TakerMatchesRow'
  BY <1>1 DEF TakerMatchesRow
<1>5. DepthsMatchRows'
  <2>1. CASE Finish
    BY <1>1, <2>1 DEF Finish, Accounts, DepthsMatchRows
  <2>2. CASE Rest
    <3>1. /\ depths' = [depths EXCEPT ![taker.side] =
                           {m \in @ : m.id # taker.id} \cup {taker}]
          /\ depths \in [Sides -> SUBSET RestingOrders]
          /\ taker.side \in Sides
      BY <1>2, <2>2 DEF Rest, Add, Structure, VariablesTyped, Takers
    <3>2. \A side \in Sides : \A m \in depths'[side] :
             m \in depths[side] \/ m = taker
      BY <3>1
    <3>3. taker.type = "limit" /\ ~BuysByFunds(taker)
      BY <2>2 DEF Rest, Rests, BuysByFunds
    <3>4. /\ accepts[taker.id] > 0
          /\ rows[taker.id].type = "limit"
          /\ rows[taker.id].side = taker.side
          /\ rows[taker.id].price = taker.price
          /\ taker.size + traded[taker.id] = rows[taker.id].size
      BY <1>2, <3>3 DEF Accounts, TakerMatchesRow
    <3> QED
      BY <1>1, <3>2, <3>4 DEF Accounts, DepthsMatchRows
  <2> QED
    BY <2>1, <2>2
<1>6. LetInIsKnown' /\ AcceptedOnce'
  BY NextLetsInOnce DEF Next, CallStep, Accounts
<1> QED
  BY <1>3, <1>4, <1>5, <1>6 DEF Accounts

-----------------------------------------------------------------------------
(* One trade: what it does to the accounts of its two parties. *)

\* What a trade of size with maker does to the book and to the accounts.
TradeEffects(maker, size) ==
    /\ taker.id \in OrderIds /\ maker.id \in OrderIds
    /\ taker.id # maker.id
    /\ maker \in depths[maker.side] /\ maker.side \in Sides
    /\ maker \in RestingOrders
    /\ size \in Nat \ {0} /\ size <= maker.size
    /\ maker.price \in Nat
    /\ taker' = Pay(maker, size)
    /\ depths' = [depths EXCEPT ![maker.side] = DecrSize(@, maker, size)]
    /\ traded' = [id \in OrderIds |->
                     IF id \in {taker.id, maker.id}
                     THEN traded[id] + size ELSE traded[id]]
    /\ spent' = [id \in OrderIds |->
                     IF id \in {taker.id, maker.id}
                     THEN spent[id] + size * maker.price ELSE spent[id]]
    /\ rows' = rows
    /\ accepts' = accepts

LEMMA TradeMoves ==
    ASSUME Structure, Accounts, MatchMaker
    PROVE  TradeEffects(BestMaker, Min({Wanted, BestMaker.size}))
<1> DEFINE maker == BestMaker
           size  == Min({Wanted, maker.size})
<1>1. /\ taker \in Takers /\ maker \in MakerDepth /\ maker \in RestingOrders
      /\ maker.side \in Sides /\ maker.side = Opposite(taker.side)
      /\ size \in Nat \ {0} /\ size <= maker.size
  BY TradeFacts
<1>2. taker.id \in OrderIds /\ maker.id \in OrderIds /\ maker.price \in Nat
  BY <1>1, PricesAssumption DEF Takers, RestingOrders
<1>3. maker \in depths[maker.side]
  BY <1>1 DEF MakerDepth
<1>4. taker.id # maker.id
  BY <1>1, <1>3 DEF Accounts, TakerMatchesRow, MatchMaker, MeetsMaker
<1>5. TradeLogs(maker, size)[1] =
         MatchLog(logSeq + 1, tradeSeq + 1, taker, maker, size)
  BY TradeLogsTyped
<1>6. /\ TradeLogs(maker, size)[1].taker = taker.id
      /\ TradeLogs(maker, size)[1].maker = maker.id
      /\ TradeLogs(maker, size)[1].size = size
      /\ TradeLogs(maker, size)[1].price = maker.price
  BY <1>5 DEF MatchLog
<1>7. traded' = [id \in OrderIds |->
                    IF id \in {taker.id, maker.id}
                    THEN traded[id] + size ELSE traded[id]]
      /\ spent' = [id \in OrderIds |->
                    IF id \in {taker.id, maker.id}
                    THEN spent[id] + size * maker.price ELSE spent[id]]
  BY <1>6 DEF MatchMaker
<1>8. /\ taker' = Pay(maker, size)
      /\ depths' = [depths EXCEPT ![maker.side] = DecrSize(@, maker, size)]
      /\ rows' = rows /\ accepts' = accepts
  BY DEF MatchMaker
<1> QED
  BY <1>1, <1>2, <1>3, <1>4, <1>7, <1>8 DEF TradeEffects

LEMMA MatchMakerDepths ==
    ASSUME Structure, Accounts, MatchMaker
    PROVE  DepthsMatchRows'
<1> DEFINE maker == BestMaker
           size  == Min({Wanted, maker.size})
           less  == [maker EXCEPT !.size = @ - size]
<1>1. /\ taker.id \in OrderIds /\ maker.id \in OrderIds
      /\ maker \in depths[maker.side] /\ maker.side \in Sides
      /\ maker \in RestingOrders
      /\ size \in Nat \ {0} /\ size <= maker.size
      /\ depths' = [depths EXCEPT ![maker.side] = DecrSize(@, maker, size)]
      /\ traded' = [id \in OrderIds |->
                       IF id \in {taker.id, maker.id}
                       THEN traded[id] + size ELSE traded[id]]
      /\ rows' = rows /\ accepts' = accepts
  BY TradeMoves DEF TradeEffects
<1>2. depths \in [Sides -> SUBSET RestingOrders] /\ traded \in [OrderIds -> Nat]
      /\ \A side \in Sides : IsDepth(depths[side], side)
  BY DEF Structure, VariablesTyped, DepthsOK
<1>3. /\ less.id = maker.id /\ less.side = maker.side
      /\ less.price = maker.price /\ less.size = maker.size - size
      /\ maker.size \in Nat
  BY <1>1 DEF RestingOrders
<1>4. ASSUME NEW side \in Sides, NEW m \in depths'[side]
      PROVE  (m \in depths[side] /\ m # maker) \/ m = less
  <2>1. CASE side = maker.side
    BY <1>1, <1>2, <1>4, <2>1 DEF DecrSize
  <2>2. CASE side # maker.side
    <3>1. m \in depths[side]
      BY <1>1, <1>2, <1>4, <2>2
    <3>2. m # maker
      BY <1>2, <3>1, <2>2 DEF IsDepth
    <3> QED
      BY <3>1, <3>2
  <2> QED
    BY <2>1, <2>2
<1>5. ASSUME NEW side \in Sides, NEW m \in depths[side], m # maker
      PROVE  m.id \in OrderIds /\ m.id # maker.id /\ m.id # taker.id
  <2>1. m.id \in OrderIds /\ m.side = side
    BY <1>2 DEF IsDepth, RestingOrders
  <2>2. m.id # taker.id
    BY DEF Accounts, TakerMatchesRow, MatchMaker, MeetsMaker
  <2>3. m.id # maker.id
    <3> SUFFICES ASSUME m.id = maker.id
                 PROVE  FALSE
      OBVIOUS
    <3>1. side = maker.side
      BY <1>1, <2>1 DEF Accounts, DepthsMatchRows
    <3> QED
      BY <1>1, <1>2, <1>5, <3>1 DEF IsDepth
  <2> QED
    BY <2>1, <2>2, <2>3
<1>6. ASSUME NEW side \in Sides, NEW m \in depths[side], m # maker
      PROVE  m.size + traded'[m.id] = rows'[m.id].size
  BY <1>1, <1>5, <1>6 DEF Accounts, DepthsMatchRows
<1>7. less.size + traded'[maker.id] = rows'[maker.id].size
  <2>1. maker.size + traded[maker.id] = rows[maker.id].size
    BY <1>1 DEF Accounts, DepthsMatchRows
  <2>2. traded'[maker.id] = traded[maker.id] + size
    BY <1>1
  <2>3. traded[maker.id] \in Nat
    BY <1>1, <1>2
  <2>4. (maker.size - size) + (traded[maker.id] + size)
          = maker.size + traded[maker.id]
    BY <1>1, <1>3, <2>3
  <2> QED
    BY <1>1, <1>3, <2>1, <2>2, <2>4
<1>8. ASSUME NEW side \in Sides, NEW m \in depths'[side]
      PROVE  /\ accepts'[m.id] > 0
             /\ rows'[m.id].type = "limit"
             /\ rows'[m.id].side = m.side
             /\ rows'[m.id].price = m.price
             /\ m.size + traded'[m.id] = rows'[m.id].size
  <2>1. CASE m \in depths[side] /\ m # maker
    BY <1>1, <1>6, <2>1 DEF Accounts, DepthsMatchRows
  <2>2. CASE m = less
    BY <1>1, <1>3, <1>7, <2>2 DEF Accounts, DepthsMatchRows
  <2> QED
    BY <1>4, <2>1, <2>2
<1> QED
  BY <1>8 DEF DepthsMatchRows

LEMMA MatchMakerTaker ==
    ASSUME Structure, Accounts, MatchMaker
    PROVE  TakerMatchesRow'
<1> DEFINE maker == BestMaker
           size  == Min({Wanted, maker.size})
<1>1. /\ taker.id \in OrderIds /\ taker.id # maker.id
      /\ maker \in depths[maker.side] /\ maker.side \in Sides
      /\ maker \in RestingOrders /\ maker.price \in Nat
      /\ size \in Nat
      /\ taker' = Pay(maker, size)
      /\ depths' = [depths EXCEPT ![maker.side] = DecrSize(@, maker, size)]
      /\ traded'[taker.id] = traded[taker.id] + size
      /\ spent'[taker.id] = spent[taker.id] + size * maker.price
      /\ rows' = rows /\ accepts' = accepts
  BY TradeMoves DEF TradeEffects
<1>2. taker \in Takers /\ taker # NoOrder
  BY DEF Structure, VariablesTyped, MatchMaker, MeetsMaker
<1>3. depths \in [Sides -> SUBSET RestingOrders]
      /\ traded[taker.id] \in Nat /\ spent[taker.id] \in Nat
  BY <1>1 DEF Structure, VariablesTyped
<1>4. size * maker.price \in Nat
  BY <1>1
<1>5. /\ taker'.id = taker.id /\ taker'.type = taker.type
      /\ taker'.side = taker.side /\ taker'.price = taker.price
  BY <1>1, <1>2 DEF Pay, Takers
<1>6. \A side \in Sides : \A m \in depths'[side] : m.id # taker.id
  <2>1. \A side \in Sides : \A m \in depths[side] : m.id # taker.id
    BY <1>2 DEF Accounts, TakerMatchesRow
  <2>2. [maker EXCEPT !.size = @ - size].id = maker.id
    BY <1>1 DEF RestingOrders
  <2>3. \A m \in DecrSize(depths[maker.side], maker, size) : m.id # taker.id
    BY <1>1, <2>1, <2>2 DEF DecrSize
  <2> QED
    BY <1>1, <1>3, <2>1, <2>3
<1>7. IF BuysByFunds(taker)
      THEN taker'.funds + spent'[taker.id] = rows[taker.id].funds
      ELSE taker'.size + traded'[taker.id] = rows[taker.id].size
  <2>1. CASE BuysByFunds(taker)
    <3>1. taker'.funds = taker.funds - size * maker.price
      BY <1>1, <1>2, <2>1 DEF Pay, Takers
    <3>2. taker.funds + spent[taker.id] = rows[taker.id].funds
      BY <1>2, <2>1 DEF Accounts, TakerMatchesRow
    <3>3. taker.funds \in Nat
      BY <1>2 DEF Takers
    <3> HIDE DEF size, maker
    <3> QED
      BY <1>1, <1>3, <1>4, <2>1, <3>1, <3>2, <3>3
  <2>2. CASE ~BuysByFunds(taker)
    <3>1. taker'.size = taker.size - size
      BY <1>1, <1>2, <2>2 DEF Pay, Takers
    <3>2. taker.size + traded[taker.id] = rows[taker.id].size
      BY <1>2, <2>2 DEF Accounts, TakerMatchesRow
    <3>3. taker.size \in Nat
      BY <1>2 DEF Takers
    <3> HIDE DEF size, maker
    <3> QED
      BY <1>1, <1>3, <2>2, <3>1, <3>2, <3>3
  <2> QED
    BY <2>1, <2>2
<1> QED
  BY <1>1, <1>2, <1>5, <1>6, <1>7 DEF TakerMatchesRow, Accounts, BuysByFunds

\* Both parties trade at no worse than the price of a limit buy.
LEMMA TradesAtMostBuyersPrice ==
    ASSUME Structure, Accounts, MatchMaker,
           NEW id \in {taker.id, BestMaker.id},
           rows[id].type = "limit", rows[id].side = "buy"
    PROVE  BestMaker.price <= rows[id].price
<1> DEFINE maker == BestMaker
<1>1. /\ maker \in depths[maker.side] /\ maker.side \in Sides
      /\ maker.price \in Nat
  BY TradeMoves DEF TradeEffects
<1>2. CASE id = maker.id
  BY <1>1, <1>2 DEF Accounts, DepthsMatchRows
<1>3. CASE id = taker.id
  <2>1. taker # NoOrder /\ Crosses(taker, maker)
    BY DEF MatchMaker, MeetsMaker
  <2>2. /\ taker.type = "limit" /\ taker.side = "buy"
        /\ taker.price = rows[id].price
    BY <1>3, <2>1 DEF Accounts, TakerMatchesRow
  <2>3. taker.price >= maker.price
    BY <2>1, <2>2 DEF Crosses
  <2>4. taker.price \in Nat
    BY <2>1, <2>2, PricesAssumption DEF Structure, TakerOK
  <2> QED
    BY <1>1, <2>2, <2>3, <2>4
<1> QED
  BY <1>2, <1>3

LEMMA MatchMakerPays ==
    ASSUME Structure, Accounts, MatchMaker
    PROVE  PaysAtMostItsPrice'
<1> DEFINE maker == BestMaker
           size  == Min({Wanted, maker.size})
<1>1. /\ size \in Nat /\ maker.price \in Nat /\ rows' = rows
      /\ traded' = [id \in OrderIds |->
                       IF id \in {taker.id, maker.id}
                       THEN traded[id] + size ELSE traded[id]]
      /\ spent' = [id \in OrderIds |->
                       IF id \in {taker.id, maker.id}
                       THEN spent[id] + size * maker.price ELSE spent[id]]
  BY TradeMoves DEF TradeEffects
<1> SUFFICES ASSUME NEW id \in OrderIds, rows[id] # NoOrder,
                    rows[id].type = "limit", rows[id].side = "buy"
             PROVE  spent'[id] <= traded'[id] * rows[id].price
  BY <1>1 DEF PaysAtMostItsPrice
<1>2. spent[id] <= traded[id] * rows[id].price
  BY DEF Accounts, PaysAtMostItsPrice
<1>3. CASE id \notin {taker.id, maker.id}
  BY <1>1, <1>2, <1>3
<1>4. CASE id \in {taker.id, maker.id}
  <2>1. maker.price <= rows[id].price
    BY <1>4, TradesAtMostBuyersPrice
  <2>2. rows[id].price \in Nat /\ traded[id] \in Nat /\ spent[id] \in Nat
    BY OrderFields, PricesAssumption DEF Structure, VariablesTyped
  <2>3. spent'[id] = spent[id] + size * maker.price
        /\ traded'[id] = traded[id] + size
    BY <1>1, <1>4
  <2> HIDE DEF size, maker
  <2>4. size * maker.price <= size * rows[id].price
    BY <1>1, <2>1, <2>2, CheaperCostsLess
  <2>5. (traded[id] + size) * rows[id].price
          = traded[id] * rows[id].price + size * rows[id].price
    BY <1>1, <2>2
  <2>6. /\ traded[id] * rows[id].price \in Nat /\ size * rows[id].price \in Nat
        /\ size * maker.price \in Nat
    BY <1>1, <2>2
  <2> QED
    BY <1>2, <2>2, <2>3, <2>4, <2>5, <2>6
<1> QED
  BY <1>3, <1>4

LEMMA MatchMakerNoOverfill ==
    ASSUME Structure, Accounts, MatchMaker
    PROVE  NoOverfill'
<1> DEFINE maker == BestMaker
           size  == Min({Wanted, maker.size})
<1>1. /\ taker.id \in OrderIds /\ maker.id \in OrderIds
      /\ maker \in depths[maker.side] /\ maker.side \in Sides
      /\ maker \in RestingOrders /\ taker.id # maker.id
      /\ size \in Nat /\ size <= maker.size /\ rows' = rows
      /\ traded' = [id \in OrderIds |->
                       IF id \in {taker.id, maker.id}
                       THEN traded[id] + size ELSE traded[id]]
      /\ spent' = [id \in OrderIds |->
                       IF id \in {taker.id, maker.id}
                       THEN spent[id] + size * maker.price ELSE spent[id]]
  BY TradeMoves DEF TradeEffects
<1>2. VariablesTyped' /\ rows \in [OrderIds -> Orders \cup {NoOrder}]
      /\ traded \in [OrderIds -> Nat]
  BY MatchMakerStructure DEF Structure, VariablesTyped
<1>3. taker' \in Takers \cup {NoOrder} /\ traded' \in [OrderIds -> Nat]
      /\ spent' \in [OrderIds -> Nat]
  BY <1>2 DEF VariablesTyped
<1>4. taker # NoOrder /\ taker' \in Takers /\ taker'.id = taker.id
      /\ taker'.type = taker.type /\ taker'.side = taker.side
  BY TradeFacts, TradeMoves DEF TradeEffects, Pay, Takers, MatchMaker, MeetsMaker
<1>5. IF BuysByFunds(taker)
      THEN taker'.funds + spent'[taker.id] = rows[taker.id].funds
      ELSE taker'.size + traded'[taker.id] = rows[taker.id].size
  BY <1>1, <1>4, MatchMakerTaker, NoOrderIsNoTaker
     DEF TakerMatchesRow, BuysByFunds
<1>6. BuysByFunds(rows[taker.id]) <=> BuysByFunds(taker)
  BY <1>4 DEF Accounts, TakerMatchesRow, BuysByFunds
<1>7. ASSUME NEW id \in OrderIds, rows[id] # NoOrder, ~BuysByFunds(rows[id])
      PROVE  traded'[id] <= rows[id].size
  <2>1. CASE id \notin {taker.id, maker.id}
    BY <1>1, <1>7, <2>1 DEF Accounts, NoOverfill
  <2>2. CASE id = taker.id
    <3>1. taker'.size + traded'[id] = rows[id].size
      BY <1>5, <1>6, <1>7, <2>2
    <3>2. taker'.size \in Nat /\ traded'[id] \in Nat
      BY <1>3, <1>4 DEF Takers
    <3> QED
      BY <3>1, <3>2
  <2>3. CASE id = maker.id
    <3>1. maker.size + traded[id] = rows[id].size
      BY <1>1, <2>3 DEF Accounts, DepthsMatchRows
    <3>2. traded'[id] = traded[id] + size
      BY <1>1, <2>3
    <3>3. maker.size \in Nat /\ traded[id] \in Nat
      BY <1>1, <1>2 DEF RestingOrders
    <3> HIDE DEF size, maker
    <3> QED
      BY <1>1, <3>1, <3>2, <3>3
  <2> QED
    BY <2>1, <2>2, <2>3
<1>8. ASSUME NEW id \in OrderIds, rows[id] # NoOrder, rows[id].side = "buy"
      PROVE  spent'[id] <= rows[id].funds
  <2>1. CASE id \notin {taker.id, maker.id}
    BY <1>1, <1>8, <2>1 DEF Accounts, NoOverfill
  <2>2. CASE rows[id].type = "limit"
    <3>1. spent'[id] <= traded'[id] * rows[id].price
      BY <1>1, <1>8, <2>2, MatchMakerPays DEF PaysAtMostItsPrice
    <3>2. traded'[id] <= rows[id].size
      BY <1>7, <1>8, <2>2 DEF BuysByFunds
    <3>3. /\ rows[id].price \in Nat /\ rows[id].size \in Nat
          /\ rows[id].funds = rows[id].size * rows[id].price
      BY <1>2, <1>8, <2>2, OrderFields, PricesAssumption
    <3>4. traded'[id] * rows[id].price <= rows[id].size * rows[id].price
      BY <1>3, <3>2, <3>3
    <3>5. spent'[id] \in Nat /\ traded'[id] * rows[id].price \in Nat
      BY <1>3, <3>3
    <3> QED
      BY <3>1, <3>3, <3>4, <3>5
  <2>3. CASE id = taker.id /\ rows[id].type = "market"
    <3>1. taker'.funds + spent'[id] = rows[id].funds
      BY <1>5, <1>6, <1>8, <2>3 DEF BuysByFunds
    <3>2. taker'.funds \in Nat /\ spent'[id] \in Nat
      BY <1>3, <1>4 DEF Takers
    <3> QED
      BY <3>1, <3>2
  <2>4. CASE id = maker.id
    BY <1>1, <2>2, <2>4 DEF Accounts, DepthsMatchRows
  <2>5. rows[id].type \in {"limit", "market"}
    BY <1>2, <1>8, OrderFields
  <2> QED
    BY <2>1, <2>2, <2>3, <2>4, <2>5
<1> QED
  BY <1>1, <1>7, <1>8 DEF NoOverfill

LEMMA MatchMakerAccounts ==
    ASSUME IdsWithinWindow, Structure, Accounts, MatchMaker
    PROVE  Accounts'
<1>1. IdleHaveNotTraded'
  <2> DEFINE maker == BestMaker
             size  == Min({Wanted, maker.size})
  <2>1. /\ taker.id \in OrderIds /\ maker.id \in OrderIds
        /\ maker \in depths[maker.side] /\ maker.side \in Sides
        /\ traded' = [id \in OrderIds |->
                         IF id \in {taker.id, maker.id}
                         THEN traded[id] + size ELSE traded[id]]
        /\ spent' = [id \in OrderIds |->
                         IF id \in {taker.id, maker.id}
                         THEN spent[id] + size * maker.price ELSE spent[id]]
        /\ accepts' = accepts
    BY TradeMoves DEF TradeEffects
  <2>2. accepts[taker.id] > 0 /\ accepts[maker.id] > 0
    BY <2>1 DEF Accounts, TakerMatchesRow, DepthsMatchRows, MatchMaker,
       MeetsMaker
  <2>3. \A id \in OrderIds : accepts[id] = 0 => id \notin {taker.id, maker.id}
    BY <2>2
  <2> HIDE DEF size, maker
  <2> QED
    BY <2>1, <2>3 DEF Accounts, IdleHaveNotTraded
<1>2. LetInIsKnown' /\ AcceptedOnce'
  BY NextLetsInOnce DEF Next, CallStep, Accounts
<1> QED
  BY <1>1, <1>2, MatchMakerDepths, MatchMakerTaker, MatchMakerPays,
     MatchMakerNoOverfill DEF Accounts

LEMMA NextAccounts ==
    ASSUME IdsWithinWindow, Structure, Accounts, [Next]_vars
    PROVE  Accounts'
<1>1. ASSUME UNCHANGED <<rows, accepts, window, taker, depths, traded, spent>>
      PROVE  Accounts'
  BY <1>1 DEF Accounts, LetInIsKnown, AcceptedOnce, IdleHaveNotTraded,
     DepthsMatchRows, TakerMatchesRow, PaysAtMostItsPrice, NoOverfill
<1>2. DivideByZero \/ Over \/ UNCHANGED vars =>
         UNCHANGED <<rows, accepts, window, taker, depths, traded, spent>>
  BY DEF DivideByZero, Over, vars, bookVars, auxVars
<1>3. ASSUME NEW order \in Orders,
             StartOrder(order) \/ RefuseOrder(order) \/ Cancel(order)
      PROVE  Accounts'
  BY <1>3, StartOrderAccounts, RefuseOrCancelAccounts
<1> QED
  BY <1>1, <1>2, <1>3, MatchMakerAccounts, CallEndsAccounts DEF Next, CallStep

LEMMA AccountsCorrect ==
    ASSUME IdsWithinWindow
    PROVE  Spec => [](Structure /\ Accounts)
<1>1. Init => Accounts
  <2>1. Init => LetInIsKnown /\ AcceptedOnce /\ IdleHaveNotTraded
                /\ PaysAtMostItsPrice /\ NoOverfill
    BY DEF Init, LetInIsKnown, AcceptedOnce, IdleHaveNotTraded,
       PaysAtMostItsPrice, NoOverfill
  <2>2. Init => DepthsMatchRows /\ TakerMatchesRow
    BY DEF Init, EmptyBook, DepthsMatchRows, TakerMatchesRow
  <2> QED
    BY <2>1, <2>2 DEF Accounts
<1>2. Structure /\ Accounts /\ [Next]_vars => (Structure /\ Accounts)'
  BY NextStructure, NextAccounts
<1> QED
  BY <1>1, <1>2, InitStructure, PTL DEF Spec

\* While the ids are within the first span of the window, no order trades more
\* than its owner asked for and had put on hold: the loop of ApplyOrder never
\* takes more than the taker or the maker has left, and a limit buy pays at
\* most its own price.
THEOREM NobodyOverfilled ==
    ASSUME IdsWithinWindow
    PROVE  Spec => []NoOverfill
<1>1. Accounts => NoOverfill
  BY DEF Accounts
<1> QED
  BY <1>1, AccountsCorrect, PTL

\* While the ids are within the first span of the window, what an order has on
\* the book and what the match logs say it traded add up to what it asked for:
\* decrSize and the match logs tell one story.
THEOREM SizesAddUp ==
    ASSUME IdsWithinWindow
    PROVE  Spec => []RestingSizesAddUp
<1>1. Accounts => RestingSizesAddUp
  BY DEF Accounts, DepthsMatchRows, RestingSizesAddUp
<1> QED
  BY <1>1, AccountsCorrect, PTL

-----------------------------------------------------------------------------
(* The numbers of the logs. *)

\* Where the first n logs of s tell a match.
MatchesUpTo(s, n) == {j \in 1 .. n : s[j].kind = "match"}

\* The logs are numbered as they come, and so are the matches among them, of
\* which there are count.
Numbered(s, count) ==
    /\ count = Cardinality(MatchesUpTo(s, Len(s)))
    /\ \A i \in 1 .. Len(s) :
          /\ s[i].seq = i
          /\ s[i].kind = "match" =>
                s[i].tradeSeq = Cardinality(MatchesUpTo(s, i))

\* One more log, with the next number.
LEMMA AppendNumbered ==
    ASSUME NEW s \in Seq(Logs), NEW count \in Nat, Numbered(s, count),
           NEW log \in Logs, log.seq = Len(s) + 1,
           log.kind = "match" => log.tradeSeq = count + 1
    PROVE  /\ Append(s, log) \in Seq(Logs)
           /\ Len(Append(s, log)) = Len(s) + 1
           /\ Numbered(Append(s, log),
                       IF log.kind = "match" THEN count + 1 ELSE count)
<1> DEFINE n == Len(s)
           t == Append(s, log)
<1>1. /\ t \in Seq(Logs) /\ n \in Nat /\ Len(t) = n + 1
      /\ t[n + 1] = log
      /\ \A i \in 1 .. n : t[i] = s[i]
  OBVIOUS
<1>2. \A i \in 1 .. n : MatchesUpTo(t, i) = MatchesUpTo(s, i)
  BY <1>1 DEF MatchesUpTo
<1>3. MatchesUpTo(t, n) = MatchesUpTo(s, n)
  BY <1>1 DEF MatchesUpTo
<1>4. IsFiniteSet(MatchesUpTo(s, n)) /\ n + 1 \notin MatchesUpTo(s, n)
  <2>1. IsFiniteSet(1 .. n)
    BY <1>1, FS_Interval
  <2>2. MatchesUpTo(s, n) \in SUBSET (1 .. n)
    BY DEF MatchesUpTo
  <2>3. n + 1 \notin 1 .. n
    BY <1>1
  <2> QED
    BY <2>1, <2>2, <2>3, FS_Subset
<1>5. Cardinality(MatchesUpTo(t, n + 1)) =
         IF log.kind = "match" THEN count + 1 ELSE count
  <2>1. CASE log.kind = "match"
    <3>1. MatchesUpTo(t, n + 1) = MatchesUpTo(s, n) \cup {n + 1}
      BY <1>1, <2>1 DEF MatchesUpTo
    <3> QED
      BY <1>4, <2>1, <3>1, FS_AddElement DEF Numbered
  <2>2. CASE log.kind # "match"
    <3>1. MatchesUpTo(t, n + 1) = MatchesUpTo(s, n)
      BY <1>1, <2>2 DEF MatchesUpTo
    <3> QED
      BY <2>2, <3>1 DEF Numbered
  <2> QED
    BY <2>1, <2>2
<1>6. ASSUME NEW i \in 1 .. Len(t)
      PROVE  /\ t[i].seq = i
             /\ t[i].kind = "match" =>
                   t[i].tradeSeq = Cardinality(MatchesUpTo(t, i))
  <2>1. CASE i \in 1 .. n
    BY <1>1, <1>2, <2>1 DEF Numbered
  <2>2. CASE i = n + 1
    BY <1>1, <1>5, <2>2
  <2> QED
    BY <1>1, <2>1, <2>2
<1> QED
  BY <1>1, <1>5, <1>6 DEF Numbered

\* The counters of the book are where its logs end.
LogsNumbered == logSeq = Len(logs) /\ Numbered(logs, tradeSeq)

LEMMA InitNumbered == Init => LogsNumbered
<1>1. MatchesUpTo(<< >>, 0) = {}
  BY DEF MatchesUpTo
<1>2. Cardinality({}) = 0
  BY FS_EmptySet
<1>3. Numbered(<< >>, 0)
  BY <1>1, <1>2 DEF Numbered
<1> QED
  BY <1>3 DEF Init, LogsNumbered

LEMMA MatchMakerNumbered ==
    ASSUME Structure, LogsNumbered, MatchMaker
    PROVE  LogsNumbered'
<1> DEFINE maker == BestMaker
           size  == Min({Wanted, maker.size})
           match == MatchLog(logSeq + 1, tradeSeq + 1, taker, maker, size)
           done  == DoneLog(logSeq + 2, [maker EXCEPT !.size = 0], 0, "filled")
           new   == TradeLogs(maker, size)
<1>1. /\ logs' = logs \o new
      /\ logSeq' = logSeq + Len(new)
      /\ tradeSeq' = tradeSeq + 1
  BY DEF MatchMaker
<1>2. logs \in Seq(Logs) /\ logSeq \in Nat /\ tradeSeq \in Nat
      /\ logSeq = Len(logs) /\ Numbered(logs, tradeSeq)
  BY DEF Structure, VariablesTyped, LogsNumbered
<1>3. taker \in Takers /\ maker \in RestingOrders /\ size \in Nat
  BY TradeFacts
<1>4. /\ match \in Logs /\ match.kind = "match" /\ match.seq = logSeq + 1
      /\ match.tradeSeq = tradeSeq + 1
  BY <1>2, <1>3 DEF MatchLog, Logs, Takers, RestingOrders
<1>5. done \in Logs /\ done.kind = "done" /\ done.seq = logSeq + 2
  BY <1>2, <1>3 DEF DoneLog, Logs, RestingOrders
<1> HIDE DEF match, done
<1>6. /\ Append(logs, match) \in Seq(Logs)
      /\ Len(Append(logs, match)) = logSeq + 1
      /\ Numbered(Append(logs, match), tradeSeq + 1)
  BY <1>2, <1>4, AppendNumbered
<1>7. CASE size = maker.size
  <2>1. new = <<match, done>>
    BY <1>7 DEF TradeLogs, match, done
  <2>2. logs \o <<match, done>> = Append(Append(logs, match), done)
        /\ Len(<<match, done>>) = 2
    BY <1>2, <1>4, <1>5
  <2>3. /\ Len(Append(Append(logs, match), done)) = logSeq + 2
        /\ Numbered(Append(Append(logs, match), done), tradeSeq + 1)
    <3>1. done.seq = Len(Append(logs, match)) + 1 /\ tradeSeq + 1 \in Nat
      BY <1>2, <1>5, <1>6
    <3> QED
      BY <1>2, <1>5, <1>6, <3>1, AppendNumbered
  <2> QED
    BY <1>1, <2>1, <2>2, <2>3 DEF LogsNumbered
<1>8. CASE size # maker.size
  <2>1. new = <<match>>
    BY <1>8 DEF TradeLogs, match
  <2>2. logs \o <<match>> = Append(logs, match) /\ Len(<<match>>) = 1
    BY <1>2, <1>4
  <2> QED
    BY <1>1, <1>6, <2>1, <2>2 DEF LogsNumbered
<1> QED
  BY <1>7, <1>8

\* A step that appends one log other than a match.
LEMMA OneLogNumbered ==
    ASSUME Structure, LogsNumbered,
           NEW log \in Logs, log.kind # "match", log.seq = logSeq + 1,
           logs' = Append(logs, log), logSeq' = logSeq + 1,
           tradeSeq' = tradeSeq
    PROVE  LogsNumbered'
<1>1. logs \in Seq(Logs) /\ tradeSeq \in Nat
  BY DEF Structure, VariablesTyped
<1> QED
  BY <1>1, AppendNumbered DEF LogsNumbered

LEMMA CallEndsNumbered ==
    ASSUME Structure, LogsNumbered, Rest \/ Finish
    PROVE  LogsNumbered'
<1> DEFINE log == ClosingLog(logSeq + 1, taker)
<1>1. logs' = Append(logs, log) /\ logSeq' = logSeq + 1 /\ tradeSeq' = tradeSeq
  BY DEF Rest, Finish
<1>2. log \in Logs
  BY ClosingLogTyped DEF Rest, Finish, LoopOver
<1>3. log.kind # "match" /\ log.seq = logSeq + 1
  BY DEF ClosingLog, OpenLog, DoneLog
<1> QED
  BY <1>1, <1>2, <1>3, OneLogNumbered

LEMMA CancelNumbered ==
    ASSUME Structure, LogsNumbered, NEW order \in Orders, Cancel(order)
    PROVE  LogsNumbered'
<1> DEFINE entry == {m \in depths[order.side] : m.id = order.id}
           m     == CHOOSE e \in entry : TRUE
           done  == DoneLog(logSeq + 1, m, m.size, "cancelled")
<1>1. logs \in Seq(Logs) /\ logSeq \in Nat /\ tradeSeq' = tradeSeq
  BY DEF Structure, VariablesTyped, Cancel
<1>2. \/ logSeq' = logSeq /\ logs' = logs \o << >>
      \/ /\ entry # {}
         /\ logSeq' = logSeq + 1
         /\ logs' = logs \o <<done>>
  BY DEF Cancel, CancelOrder, Entry
<1>3. CASE logSeq' = logSeq /\ logs' = logs \o << >>
  <2>1. logs' = logs
    BY <1>1, <1>3
  <2> QED
    BY <1>1, <1>3, <2>1 DEF LogsNumbered
<1>4. CASE entry # {} /\ logSeq' = logSeq + 1 /\ logs' = logs \o <<done>>
  <2>1. m \in RestingOrders
    <3>1. order.side \in Sides
      BY OrderFields
    <3>2. m \in depths[order.side]
      BY <1>4
    <3> QED
      BY <3>1, <3>2 DEF Structure, DepthsOK, IsDepth
  <2>2. done \in Logs /\ done.kind = "done" /\ done.seq = logSeq + 1
    BY <1>1, <2>1 DEF DoneLog, Logs, RestingOrders
  <2> HIDE DEF done
  <2>3. logs' = Append(logs, done)
    BY <1>1, <1>4, <2>2
  <2> QED
    BY <1>1, <1>4, <2>2, <2>3, OneLogNumbered
<1> QED
  BY <1>2, <1>3, <1>4

LEMMA NextNumbered ==
    ASSUME Structure, LogsNumbered, [Next]_vars
    PROVE  LogsNumbered'
<1>1. UNCHANGED <<logs, logSeq, tradeSeq>> => LogsNumbered'
  BY DEF LogsNumbered
<1>2. ASSUME NEW order \in Orders, StartOrder(order) \/ RefuseOrder(order)
      PROVE  UNCHANGED <<logs, logSeq, tradeSeq>>
  BY <1>2 DEF StartOrder, RefuseOrder, bookVars
<1>3. DivideByZero \/ Over \/ UNCHANGED vars
         => UNCHANGED <<logs, logSeq, tradeSeq>>
  BY DEF DivideByZero, Over, vars, bookVars
<1> QED
  BY <1>1, <1>2, <1>3, MatchMakerNumbered, CallEndsNumbered, CancelNumbered
     DEF Next, CallStep

\* Log and trade numbers leave no gap and repeat none, whatever ApplyOrder and
\* CancelOrder are handed: nextLogSeq and nextTradeSeq are taken once per log
\* and once per match, and every log taken a number for is returned.
THEOREM NumbersLeaveNoGap == Spec => []NumbersContiguous
<1> DEFINE IInv == Structure /\ LogsNumbered
<1>1. Init => IInv
  BY InitStructure, InitNumbered
<1>2. IInv /\ [Next]_vars => IInv'
  BY NextStructure, NextNumbered
<1>3. IInv => NumbersContiguous
  <2> SUFFICES ASSUME IInv
               PROVE  NumbersContiguous
    OBVIOUS
  <2>1. DOMAIN logs = 1 .. Len(logs)
    BY DEF Structure, VariablesTyped
  <2> QED
    BY <2>1 DEF LogsNumbered, Numbered, MatchesUpTo, NumbersContiguous
<1> QED
  BY <1>1, <1>2, <1>3, PTL DEF Spec

-----------------------------------------------------------------------------
(* The prices of the trades. *)

\* An order of a depth, and a limit order that is the taker, has the side and
\* the price of the order stored under its id.
OrdersMatchRows ==
    /\ \A side \in Sides : \A m \in depths[side] :
          /\ rows[m.id] # NoOrder
          /\ rows[m.id].type = "limit"
          /\ rows[m.id].side = m.side
          /\ rows[m.id].price = m.price
    /\ taker # NoOrder =>
          /\ rows[taker.id] # NoOrder
          /\ rows[taker.id].type = taker.type
          /\ rows[taker.id].side = taker.side
          /\ taker.type = "limit" => rows[taker.id].price = taker.price

\* Only stored orders trade.
PartiesAreStored ==
    \A i \in DOMAIN logs : logs[i].kind = "match" =>
        \A id \in Parties(logs[i]) : rows[id] # NoOrder

\* A match log keeps to the limit of one of its parties.
KeepsTo(log, row) ==
    row.type = "limit" =>
        IF row.side = "buy" THEN log.price <= row.price
                            ELSE log.price >= row.price

LimitsKept == OrdersMatchRows /\ PartiesAreStored /\ PriceProtection

\* The parties of a match are ids of orders.
LEMMA PartiesAreIds ==
    ASSUME Structure, NEW i \in DOMAIN logs, logs[i].kind = "match"
    PROVE  Parties(logs[i]) \subseteq OrderIds
<1>1. logs[i] \in Logs
  BY DEF Structure, VariablesTyped
<1> QED
  BY <1>1 DEF Logs, Parties

\* A stored order is never replaced by another.
LEMMA RowsStay ==
    ASSUME Structure, NEW order \in Orders, Receive(order)
    PROVE  /\ order.id \in OrderIds
           /\ rows'[order.id] = order
           /\ order # NoOrder
           /\ \A id \in OrderIds : rows[id] # NoOrder => rows'[id] = rows[id]
<1>1. order.id \in OrderIds
  BY OrderFields
<1>2. order # NoOrder
  BY NoOrderIsNoTaker
<1>3. rows \in [OrderIds -> Orders \cup {NoOrder}]
  BY DEF Structure, VariablesTyped
<1> QED
  BY <1>1, <1>2, <1>3 DEF Receive

\* The logs there are stay within the limits as long as the rows do not change.
LEMMA LogsStayWithinLimits ==
    ASSUME Structure, PartiesAreStored, PriceProtection,
           \A id \in OrderIds : rows[id] # NoOrder => rows'[id] = rows[id],
           NEW i \in DOMAIN logs, logs[i].kind = "match",
           NEW id \in Parties(logs[i])
    PROVE  rows'[id] # NoOrder /\ KeepsTo(logs[i], rows'[id])
<1>1. id \in OrderIds
  BY PartiesAreIds
<1>2. rows[id] # NoOrder /\ rows'[id] = rows[id]
  BY <1>1 DEF PartiesAreStored
<1>3. KeepsTo(logs[i], rows[id])
  BY DEF PriceProtection, KeepsTo
<1> QED
  BY <1>2, <1>3

\* A step whose new logs, if any, tell no match.
LEMMA NoMatchKeepsLimits ==
    ASSUME Structure, PartiesAreStored, PriceProtection,
           \A id \in OrderIds : rows[id] # NoOrder => rows'[id] = rows[id],
           \A i \in DOMAIN logs' : logs'[i].kind = "match" =>
              i \in DOMAIN logs /\ logs'[i] = logs[i]
    PROVE  PartiesAreStored' /\ PriceProtection'
<1>1. ASSUME NEW i \in DOMAIN logs', logs'[i].kind = "match",
             NEW id \in Parties(logs'[i])
      PROVE  rows'[id] # NoOrder /\ KeepsTo(logs'[i], rows'[id])
  BY <1>1, LogsStayWithinLimits
<1>2. PartiesAreStored'
  BY <1>1 DEF PartiesAreStored, Parties
<1>3. PriceProtection'
  BY <1>1 DEF PriceProtection, KeepsTo, Parties
<1> QED
  BY <1>2, <1>3

\* A step that stores an order, logs no match and adds nothing to a depth.
LEMMA DepthsMatchRowsStill ==
    ASSUME Structure, OrdersMatchRows,
           \A id \in OrderIds : rows[id] # NoOrder => rows'[id] = rows[id],
           \A side \in Sides : depths'[side] \subseteq depths[side]
    PROVE  \A side \in Sides : \A m \in depths'[side] :
              /\ rows'[m.id] # NoOrder
              /\ rows'[m.id].type = "limit"
              /\ rows'[m.id].side = m.side
              /\ rows'[m.id].price = m.price
<1>1. \A side \in Sides : \A m \in depths[side] : m.id \in OrderIds
  BY DEF Structure, DepthsOK, IsDepth, RestingOrders
<1> QED
  BY <1>1 DEF OrdersMatchRows

LEMMA StartOrderKeepsLimits ==
    ASSUME Structure, LimitsKept, NEW order \in Orders, StartOrder(order)
    PROVE  LimitsKept'
<1>1. /\ rows'[order.id] = order /\ order # NoOrder
      /\ \A id \in OrderIds : rows[id] # NoOrder => rows'[id] = rows[id]
  BY RowsStay DEF StartOrder
<1>2. depths' = depths /\ logs' = logs /\ taker' = TakerOf(order)
  BY DEF StartOrder
<1>3. PartiesAreStored' /\ PriceProtection'
  BY <1>1, <1>2, NoMatchKeepsLimits DEF LimitsKept
<1>4. OrdersMatchRows'
  <2>1. /\ TakerOf(order).id = order.id
        /\ TakerOf(order).type = order.type
        /\ TakerOf(order).side = order.side
        /\ order.type = "limit" => TakerOf(order) = order
    BY OrderFields
  <2> QED
    BY <1>1, <1>2, <2>1, DepthsMatchRowsStill DEF LimitsKept, OrdersMatchRows
<1> QED
  BY <1>3, <1>4 DEF LimitsKept

LEMMA RefuseOrCancelKeepsLimits ==
    ASSUME Structure, LimitsKept, NEW order \in Orders,
           RefuseOrder(order) \/ Cancel(order)
    PROVE  LimitsKept'
<1>1. /\ order.side \in Sides /\ taker' = NoOrder
      /\ \A id \in OrderIds : rows[id] # NoOrder => rows'[id] = rows[id]
  BY OrderFields, RowsStay DEF RefuseOrder, Cancel, Receive, Idle
<1>2. \A side \in Sides : depths'[side] \subseteq depths[side]
  <2>1. depths \in [Sides -> SUBSET RestingOrders]
    BY DEF Structure, VariablesTyped
  <2>2. \/ depths' = depths
        \/ depths' = [depths EXCEPT ![order.side] =
                         @ \ {m \in depths[order.side] : m.id = order.id}]
    BY DEF RefuseOrder, Cancel, CancelOrder, Entry, bookVars
  <2> QED
    BY <1>1, <2>1, <2>2
<1>3. ASSUME NEW i \in DOMAIN logs', logs'[i].kind = "match"
      PROVE  i \in DOMAIN logs /\ logs'[i] = logs[i]
  <2>1. logs \in Seq(Logs)
    BY DEF Structure, VariablesTyped
  <2>2. CASE logs' = logs
    BY <1>3, <2>2
  <2>3. CASE Cancel(order)
    <3>1. \/ logs' = logs \o << >>
          \/ \E done : done.kind = "done" /\ logs' = logs \o <<done>>
      BY <2>3 DEF Cancel, CancelOrder, DoneLog
    <3>2. CASE logs' = logs \o << >>
      BY <1>3, <2>1, <3>2
    <3>3. CASE \E done : done.kind = "done" /\ logs' = logs \o <<done>>
      <4>1. PICK done : done.kind = "done" /\ logs' = logs \o <<done>>
        BY <3>3
      <4>2. /\ DOMAIN logs' = 1 .. Len(logs) + 1
            /\ logs'[Len(logs) + 1] = done
            /\ \A j \in 1 .. Len(logs) : logs'[j] = logs[j]
            /\ DOMAIN logs = 1 .. Len(logs) /\ Len(logs) \in Nat
        BY <2>1, <4>1
      <4> QED
        BY <1>3, <4>1, <4>2
    <3> QED
      BY <3>1, <3>2, <3>3
  <2> QED
    BY <1>3, <2>2, <2>3 DEF RefuseOrder
<1>4. PartiesAreStored' /\ PriceProtection'
  BY <1>1, <1>3, NoMatchKeepsLimits DEF LimitsKept
<1>5. OrdersMatchRows'
  BY <1>1, <1>2, DepthsMatchRowsStill DEF LimitsKept, OrdersMatchRows
<1> QED
  BY <1>4, <1>5 DEF LimitsKept

\* The call ends: the taker rests under its own side and price.
LEMMA CallEndsKeepsLimits ==
    ASSUME Structure, LimitsKept, Rest \/ Finish
    PROVE  LimitsKept'
<1> DEFINE log == ClosingLog(logSeq + 1, taker)
<1>1. rows' = rows /\ taker' = NoOrder /\ logs' = Append(logs, log)
  BY DEF Rest, Finish
<1>2. taker # NoOrder /\ taker \in Takers /\ taker.side \in Sides
  BY DEF Rest, Finish, LoopOver, Structure, VariablesTyped, Takers
<1>3. log.kind # "match"
  BY DEF ClosingLog, OpenLog, DoneLog
<1> HIDE DEF log
<1>4. PartiesAreStored' /\ PriceProtection'
  <2>1. logs \in Seq(Logs)
    BY DEF Structure, VariablesTyped
  <2>2. /\ DOMAIN logs' = 1 .. Len(logs) + 1
        /\ logs'[Len(logs) + 1] = log
        /\ \A j \in 1 .. Len(logs) : logs'[j] = logs[j]
        /\ DOMAIN logs = 1 .. Len(logs) /\ Len(logs) \in Nat
    BY <1>1, <2>1
  <2>3. \A i \in DOMAIN logs' : logs'[i].kind = "match" =>
           i \in DOMAIN logs /\ logs'[i] = logs[i]
    BY <1>3, <2>2
  <2> QED
    BY <1>1, <2>3, NoMatchKeepsLimits DEF LimitsKept
<1>5. OrdersMatchRows'
  <2>1. CASE Finish
    BY <1>1, <2>1 DEF Finish, LimitsKept, OrdersMatchRows
  <2>2. CASE Rest
    <3>1. /\ depths' = [depths EXCEPT ![taker.side] =
                           {m \in @ : m.id # taker.id} \cup {taker}]
          /\ depths \in [Sides -> SUBSET RestingOrders]
          /\ taker.type = "limit"
      BY <2>2 DEF Rest, Rests, Add, Structure, VariablesTyped
    <3>2. \A side \in Sides : \A m \in depths'[side] :
             m \in depths[side] \/ m = taker
      BY <1>2, <3>1
    <3> QED
      BY <1>1, <1>2, <3>1, <3>2 DEF LimitsKept, OrdersMatchRows
  <2> QED
    BY <2>1, <2>2
<1> QED
  BY <1>4, <1>5 DEF LimitsKept

\* A trade is told at the price of the maker, which the taker crosses.
LEMMA MatchMakerKeepsLimits ==
    ASSUME Structure, LimitsKept, MatchMaker
    PROVE  LimitsKept'
<1> DEFINE maker == BestMaker
           size  == Min({Wanted, maker.size})
           new   == TradeLogs(maker, size)
<1>1. /\ taker' = Pay(maker, size)
      /\ depths' = [depths EXCEPT ![maker.side] = DecrSize(@, maker, size)]
      /\ logs' = logs \o new
      /\ rows' = rows
      /\ taker # NoOrder /\ Crosses(taker, maker)
  BY DEF MatchMaker, MeetsMaker
<1>2. /\ taker \in Takers /\ maker \in MakerDepth /\ maker \in RestingOrders
      /\ maker.side = Opposite(taker.side) /\ maker.side \in Sides
      /\ size \in Nat
  BY TradeFacts
<1>3. /\ maker.id \in OrderIds /\ rows[maker.id] # NoOrder
      /\ rows[maker.id].side = maker.side
      /\ rows[maker.id].price = maker.price /\ maker.price \in Nat
  BY <1>2, PricesAssumption
     DEF LimitsKept, OrdersMatchRows, MakerDepth, RestingOrders
<1>4. /\ taker.id \in OrderIds /\ taker.side \in Sides
      /\ rows[taker.id] # NoOrder
      /\ rows[taker.id].type = taker.type
      /\ rows[taker.id].side = taker.side
      /\ taker.type = "limit" => rows[taker.id].price = taker.price
  BY <1>1, <1>2 DEF LimitsKept, OrdersMatchRows, Takers
<1>5. OrdersMatchRows'
  <2>1. /\ taker'.id = taker.id /\ taker'.side = taker.side
        /\ taker'.type = taker.type /\ taker'.price = taker.price
    BY <1>1, <1>2 DEF Pay, Takers
  <2>2. \A side \in Sides : \A m \in depths'[side] :
           \E n \in depths[side] : /\ n.id = m.id /\ n.side = m.side
                                   /\ n.price = m.price
    <3>1. /\ [maker EXCEPT !.size = @ - size].id = maker.id
          /\ [maker EXCEPT !.size = @ - size].side = maker.side
          /\ [maker EXCEPT !.size = @ - size].price = maker.price
      BY <1>2 DEF RestingOrders
    <3>2. maker \in depths[maker.side]
      BY <1>2 DEF MakerDepth
    <3>3. depths \in [Sides -> SUBSET RestingOrders]
      BY DEF Structure, VariablesTyped
    <3> QED
      BY <1>1, <1>2, <3>1, <3>2, <3>3 DEF DecrSize
  <2>3. ASSUME NEW side \in Sides, NEW m \in depths'[side]
        PROVE  /\ rows'[m.id] # NoOrder
               /\ rows'[m.id].type = "limit"
               /\ rows'[m.id].side = m.side
               /\ rows'[m.id].price = m.price
    <3>1. PICK n \in depths[side] : n.id = m.id /\ n.side = m.side
                                    /\ n.price = m.price
      BY <2>2
    <3>2. /\ rows[n.id] # NoOrder /\ rows[n.id].type = "limit"
          /\ rows[n.id].side = n.side /\ rows[n.id].price = n.price
      BY DEF LimitsKept, OrdersMatchRows
    <3> QED
      BY <1>1, <3>1, <3>2
  <2>4. /\ rows'[taker'.id] # NoOrder
        /\ rows'[taker'.id].type = taker'.type
        /\ rows'[taker'.id].side = taker'.side
        /\ taker'.type = "limit" => rows'[taker'.id].price = taker'.price
    <3>1. rows' = rows
      BY <1>1
    <3> QED
      BY <1>4, <2>1, <3>1
  <2> QED
    BY <2>3, <2>4 DEF OrdersMatchRows
<1>6. \A id \in {taker.id, maker.id} : \A log :
         log.price = maker.price => KeepsTo(log, rows[id])
  <2>1. \A log : log.price = maker.price => KeepsTo(log, rows[maker.id])
    BY <1>3 DEF KeepsTo
  <2>2. \A log : log.price = maker.price => KeepsTo(log, rows[taker.id])
    BY <1>1, <1>4 DEF KeepsTo, Crosses
  <2> QED
    BY <2>1, <2>2
<1>7. /\ logs \in Seq(Logs) /\ new \in Seq(Logs)
      /\ new[1] = MatchLog(logSeq + 1, tradeSeq + 1, taker, maker, size)
  BY TradeLogsTyped DEF Structure, VariablesTyped
<1>8. new[1].taker = taker.id /\ new[1].maker = maker.id
      /\ new[1].price = maker.price
  BY <1>7 DEF MatchLog
<1>9. \A k \in DOMAIN new : k # 1 => new[k].kind # "match"
  BY DEF TradeLogs, DoneLog
<1>10. ASSUME NEW i \in DOMAIN logs', logs'[i].kind = "match"
       PROVE  \/ i \in DOMAIN logs /\ logs'[i] = logs[i]
              \/ logs'[i] = new[1]
  <2> HIDE DEF new
  <2>1. /\ DOMAIN logs' = 1 .. Len(logs) + Len(new)
        /\ \A j \in 1 .. Len(logs) : logs'[j] = logs[j]
        /\ \A j \in 1 .. Len(new) : logs'[Len(logs) + j] = new[j]
        /\ DOMAIN logs = 1 .. Len(logs) /\ Len(logs) \in Nat
        /\ DOMAIN new = 1 .. Len(new) /\ Len(new) \in Nat
    BY <1>1, <1>7
  <2>2. CASE i \in 1 .. Len(logs)
    BY <2>1, <2>2
  <2>3. CASE i \notin 1 .. Len(logs)
    <3>1. i - Len(logs) \in 1 .. Len(new) /\ i = Len(logs) + (i - Len(logs))
      BY <2>1, <2>3
    <3>2. logs'[i] = new[i - Len(logs)]
      BY <2>1, <3>1
    <3> QED
      BY <1>9, <1>10, <2>1, <3>1, <3>2
  <2> QED
    BY <2>2, <2>3
<1>11. ASSUME NEW i \in DOMAIN logs', logs'[i].kind = "match",
              NEW id \in Parties(logs'[i])
       PROVE  rows'[id] # NoOrder /\ KeepsTo(logs'[i], rows'[id])
  <2>1. CASE i \in DOMAIN logs /\ logs'[i] = logs[i]
    BY <1>1, <1>11, <2>1, LogsStayWithinLimits DEF LimitsKept
  <2>2. CASE logs'[i] = new[1]
    <3>1. id \in {taker.id, maker.id}
      BY <1>8, <1>11, <2>2 DEF Parties
    <3> QED
      BY <1>1, <1>3, <1>4, <1>6, <1>8, <2>2, <3>1
  <2> QED
    BY <1>10, <1>11, <2>1, <2>2
<1>12. PartiesAreStored'
  BY <1>11 DEF PartiesAreStored, Parties
<1>13. PriceProtection'
  BY <1>11 DEF PriceProtection, KeepsTo, Parties
<1> QED
  BY <1>5, <1>12, <1>13 DEF LimitsKept

LEMMA NextKeepsLimits ==
    ASSUME Structure, LimitsKept, [Next]_vars
    PROVE  LimitsKept'
<1>1. UNCHANGED <<rows, depths, taker, logs>> => LimitsKept'
  BY DEF LimitsKept, OrdersMatchRows, PartiesAreStored, PriceProtection, Parties
<1>2. DivideByZero \/ Over \/ UNCHANGED vars
         => UNCHANGED <<rows, depths, taker, logs>>
  BY DEF DivideByZero, Over, vars, bookVars
<1> QED
  BY <1>1, <1>2, StartOrderKeepsLimits, RefuseOrCancelKeepsLimits,
     CallEndsKeepsLimits, MatchMakerKeepsLimits DEF Next, CallStep

\* Nobody trades at a price worse than the limit of the order as PlaceOrder
\* stored it: ApplyOrder trades at the price of the maker, and breaks at the
\* first maker the taker does not cross.
THEOREM TradesKeepToTheLimit == Spec => []PriceProtection
<1> DEFINE IInv == Structure /\ LimitsKept
<1>1. Init => IInv
  <2>1. Init => LimitsKept
    BY DEF Init, EmptyBook, LimitsKept, OrdersMatchRows, PartiesAreStored,
       PriceProtection, Sides
  <2> QED
    BY <2>1, InitStructure
<1>2. IInv /\ [Next]_vars => IInv'
  BY NextStructure, NextKeepsLimits
<1>3. IInv => PriceProtection
  BY DEF LimitsKept
<1> QED
  BY <1>1, <1>2, <1>3, PTL DEF Spec

-----------------------------------------------------------------------------
(* The makers a taker meets. *)

\* The logs a step adds.
New(i) == i \in DOMAIN logs' /\ i \notin DOMAIN logs

\* Only an iteration of the loop tells a match, and only one.
LEMMA OneMatchAStep ==
    ASSUME Structure, [Next]_vars, NEW i, New(i), logs'[i].kind = "match"
    PROVE  /\ MatchMaker
           /\ \E size \in Nat :
                 logs'[i] = MatchLog(logSeq + 1, tradeSeq + 1, taker, BestMaker, size)
<1>1. logs \in Seq(Logs)
  BY DEF Structure, VariablesTyped
<1>2. logs' # logs
  BY DEF New
<1>3. ASSUME NEW log, log.kind # "match", logs' = Append(logs, log)
      PROVE  FALSE
  <2>1. /\ DOMAIN logs' = 1 .. Len(logs) + 1
        /\ logs'[Len(logs) + 1] = log
        /\ DOMAIN logs = 1 .. Len(logs) /\ Len(logs) \in Nat
    BY <1>1, <1>3
  <2> QED
    BY <1>3, <2>1 DEF New
<1>4. CASE Rest \/ Finish
  <2>1. logs' = Append(logs, ClosingLog(logSeq + 1, taker))
    BY <1>4 DEF Rest, Finish
  <2>2. ClosingLog(logSeq + 1, taker).kind # "match"
    BY DEF ClosingLog, OpenLog, DoneLog
  <2> QED
    BY <1>3, <2>1, <2>2
<1>5. ASSUME NEW order \in Orders, Cancel(order)
      PROVE  FALSE
  <2>1. \/ logs' = logs \o << >>
        \/ \E done : done.kind = "done" /\ logs' = logs \o <<done>>
    BY <1>5 DEF Cancel, CancelOrder, DoneLog
  <2>2. logs \o << >> = logs /\ \A done : logs \o <<done>> = Append(logs, done)
    BY <1>1
  <2> QED
    BY <1>2, <1>3, <2>1, <2>2
<1>6. ASSUME NEW order \in Orders, StartOrder(order) \/ RefuseOrder(order)
      PROVE  FALSE
  BY <1>2, <1>6 DEF StartOrder, RefuseOrder
<1>7. MatchMaker
  <2>1. ~ (DivideByZero \/ Over \/ UNCHANGED vars)
    BY <1>2 DEF DivideByZero, Over, vars
  <2> QED
    BY <1>4, <1>5, <1>6, <2>1 DEF Next, CallStep
<1> DEFINE size == Min({Wanted, BestMaker.size})
           new  == TradeLogs(BestMaker, size)
<1>8. /\ size \in Nat /\ new \in Seq(Logs) /\ logs' = logs \o new
      /\ new[1] = MatchLog(logSeq + 1, tradeSeq + 1, taker, BestMaker, size)
  BY <1>7, TradeFacts, TradeLogsTyped DEF MatchMaker
<1>9. \A k \in DOMAIN new : k # 1 => new[k].kind # "match"
  BY DEF TradeLogs, DoneLog
<1> HIDE DEF size, new
<1>10. logs'[i] = new[1]
  <2>1. /\ DOMAIN logs' = 1 .. Len(logs) + Len(new)
        /\ \A j \in 1 .. Len(new) : logs'[Len(logs) + j] = new[j]
        /\ DOMAIN logs = 1 .. Len(logs) /\ Len(logs) \in Nat
        /\ DOMAIN new = 1 .. Len(new) /\ Len(new) \in Nat
    BY <1>1, <1>8
  <2>2. i - Len(logs) \in 1 .. Len(new) /\ i = Len(logs) + (i - Len(logs))
    BY <2>1 DEF New
  <2>3. logs'[i] = new[i - Len(logs)]
    BY <2>1, <2>2
  <2> QED
    BY <1>9, <2>1, <2>2, <2>3
<1> QED
  BY <1>7, <1>8, <1>10

\* Every trade is made with the order that comes first on its side, by price
\* and then by id: the comparators of NewOrderBook, and the iterator that the
\* loop of ApplyOrder follows, agree on both sides.
THEOREM TradesInPriority == Spec => BestPriceFirst
<1> DEFINE InPriority(i) ==
      logs'[i].kind = "match" =>
          \A m \in depths[logs'[i].side] : m.id # logs'[i].maker =>
             \/ IF m.side = "sell" THEN m.price > logs'[i].price
                                   ELSE m.price < logs'[i].price
             \/ m.price = logs'[i].price /\ m.id > logs'[i].maker
<1>1. ASSUME Structure, [Next]_vars, NEW i \in DOMAIN logs' \ DOMAIN logs,
             logs'[i].kind = "match",
             NEW m \in depths[logs'[i].side], m.id # logs'[i].maker
      PROVE  \/ IF m.side = "sell" THEN m.price > logs'[i].price
                                   ELSE m.price < logs'[i].price
             \/ m.price = logs'[i].price /\ m.id > logs'[i].maker
  <2>1. /\ MatchMaker
        /\ \E size \in Nat :
              logs'[i] = MatchLog(logSeq + 1, tradeSeq + 1, taker, BestMaker, size)
    BY <1>1, OneMatchAStep DEF New
  <2>2. /\ logs'[i].maker = BestMaker.id /\ logs'[i].side = BestMaker.side
        /\ logs'[i].price = BestMaker.price
    BY <2>1 DEF MatchLog
  <2>3. /\ BestMaker \in MakerDepth /\ IsDepth(MakerDepth, BestMaker.side)
        /\ BestMaker.side = Opposite(taker.side) /\ BestMaker.side \in Sides
    BY <1>1, <2>1, TradeFacts
  <2>4. m \in MakerDepth \ {BestMaker}
    BY <1>1, <2>2, <2>3 DEF MakerDepth
  <2>5. Precedes(BestMaker, m)
    BY <2>3, <2>4, FirstIsFirst DEF BestMaker
  <2>6. /\ m.side = BestMaker.side /\ m.price \in Nat /\ m.id \in Nat
        /\ BestMaker.price \in Nat /\ BestMaker.id \in Nat
    BY <2>3, <2>4, OrderIdsAssumption, PricesAssumption DEF IsDepth, RestingOrders
  <2> QED
    BY <2>2, <2>3, <2>5, <2>6 DEF Precedes, Sides
<1>2. Structure /\ [Next]_vars => [\A i \in DOMAIN logs' \ DOMAIN logs : InPriority(i)]_vars
  BY <1>1
<1> QED
  BY <1>2, InitStructure, NextStructure, PTL DEF Spec, BestPriceFirst

\* A market order crosses whatever is on the book, and has only size to sell,
\* or only funds to buy with.
MarketTakerOK ==
    taker # NoOrder /\ taker.type = "market" =>
        IF taker.side = "buy" THEN taker.price = InfPrice /\ taker.size = 0
                              ELSE taker.price = 0 /\ taker.funds = 0

LEMMA NextMarketTaker ==
    ASSUME Structure, MarketTakerOK, [Next]_vars
    PROVE  MarketTakerOK'
<1>1. ASSUME NEW order \in Orders, StartOrder(order)
      PROVE  MarketTakerOK'
  <2>1. taker' = TakerOf(order)
    BY <1>1 DEF StartOrder
  <2>2. CASE order \in LimitOrders
    BY <2>1, <2>2 DEF LimitOrders, TakerOf, MarketTakerOK
  <2>3. CASE order \in MarketBuys
    BY <2>1, <2>3 DEF MarketBuys, TakerOf, MarketTakerOK
  <2>4. CASE order \in MarketSells
    BY <2>1, <2>4 DEF MarketSells, TakerOf, MarketTakerOK
  <2> QED
    BY <2>2, <2>3, <2>4 DEF Orders
<1>2. CASE MatchMaker
  <2> DEFINE size == Min({Wanted, BestMaker.size})
  <2>1. taker' = Pay(BestMaker, size) /\ taker \in Takers /\ taker # NoOrder
    BY <1>2, TradeFacts DEF MatchMaker, MeetsMaker
  <2>2. /\ taker'.type = taker.type /\ taker'.side = taker.side
        /\ taker'.price = taker.price
        /\ taker.type = "market" /\ taker.side = "buy" => taker'.size = taker.size
        /\ taker.side # "buy" => taker'.funds = taker.funds
    BY <2>1 DEF Pay, Takers, BuysByFunds
  <2> QED
    BY <2>1, <2>2 DEF MarketTakerOK
<1>3. CASE Rest \/ Finish
  BY <1>3 DEF Rest, Finish, MarketTakerOK
<1>4. ASSUME taker' = taker
      PROVE  MarketTakerOK'
  BY <1>4 DEF MarketTakerOK
<1>5. DivideByZero \/ Over \/ UNCHANGED vars => taker' = taker
  BY DEF DivideByZero, Over, vars
<1>6. \A order \in Orders : RefuseOrder(order) \/ Cancel(order) => taker' = taker
  BY DEF RefuseOrder, Cancel
<1> QED
  BY <1>1, <1>2, <1>3, <1>4, <1>5, <1>6 DEF Next, CallStep

\* Only the end of a call leaves the book without a taker, and a market order
\* does not rest.
LEMMA MarketCallEnds ==
    ASSUME Structure, [Next]_vars, taker # NoOrder, taker' = NoOrder,
           taker.type = "market"
    PROVE  Finish
<1>1. ~ MatchMaker
  <2> SUFFICES ASSUME MatchMaker
               PROVE  FALSE
    OBVIOUS
  <2>1. taker' = Pay(BestMaker, Min({Wanted, BestMaker.size}))
    BY DEF MatchMaker
  <2>2. Pay(BestMaker, Min({Wanted, BestMaker.size})) \in Takers
    BY TradeFacts
  <2> QED
    BY <2>1, <2>2, NoOrderIsNoTaker
<1>2. ~ Rest
  BY DEF Rest, Rests
<1>3. ~ (DivideByZero \/ Over \/ UNCHANGED vars)
  BY DEF DivideByZero, Over, vars
<1>4. \A order \in Orders : ~ (StartOrder(order) \/ RefuseOrder(order) \/ Cancel(order))
  BY DEF StartOrder, RefuseOrder, Cancel, Receive, Idle
<1> QED
  BY <1>1, <1>2, <1>3, <1>4 DEF Next, CallStep

\* A market order is given up only with nothing left to trade with, with no
\* maker left, or with funds for not even one unit of the cheapest maker: the
\* price ApplyOrder gives it crosses every maker, and the size it asks for is
\* zero only then.
THEOREM MarketOrdersGoOn == Spec => MarketOrdersTryAll
<1> DEFINE GivenUp ==
      taker # NoOrder /\ taker' = NoOrder /\ taker.type = "market" =>
          \/ MakerDepth = {}
          \/ taker.size = 0 /\ taker.funds = 0
          \/ /\ taker.side = "buy"
             /\ \A m \in MakerDepth : taker.funds < m.price
<1>1. Structure /\ MarketTakerOK /\ [Next]_vars => [GivenUp]_vars
  <2> SUFFICES ASSUME Structure, MarketTakerOK, [Next]_vars,
                      taker # NoOrder, taker' = NoOrder, taker.type = "market",
                      MakerDepth # {}, ~ (taker.size = 0 /\ taker.funds = 0)
               PROVE  taker.side = "buy" /\ \A m \in MakerDepth : taker.funds < m.price
    OBVIOUS
  <2>1. LoopOver
    BY MarketCallEnds DEF Finish
  <2>2. /\ taker \in Takers /\ taker.side \in Sides
        /\ taker.size \in Nat /\ taker.funds \in Nat
    BY DEF Structure, VariablesTyped, Takers
  <2>3. Opposite(taker.side) \in Sides
    BY DEF Opposite, Sides
  <2>4. IsDepth(MakerDepth, Opposite(taker.side))
    BY <2>3 DEF Structure, DepthsOK, MakerDepth
  <2>5. /\ BestMaker \in MakerDepth
        /\ \A m \in MakerDepth \ {BestMaker} : Precedes(BestMaker, m)
    BY <2>3, <2>4, FirstIsFirst DEF BestMaker
  <2>6. \A m \in MakerDepth : /\ m.side = Opposite(taker.side)
                              /\ m.price \in Nat /\ m.price < InfPrice
    BY <2>4, PricesAssumption, InfPriceAssumption DEF IsDepth, RestingOrders
  <2>7. Crosses(taker, BestMaker)
    BY <2>2, <2>5, <2>6, InfPriceAssumption DEF MarketTakerOK, Crosses, Sides
  <2>8. Eager
    BY <2>2 DEF MarketTakerOK, Eager, BuysByFunds, Sides
  <2>9. ~ DividesByZero /\ Wanted = 0
    BY <2>1, <2>7, <2>8 DEF LoopOver, MeetsMaker
  <2>10. taker.side = "buy"
    BY <2>2, <2>8, <2>9 DEF Wanted, Eager, BuysByFunds
  <2>11. taker.funds \div BestMaker.price = 0 /\ BestMaker.price # 0
    BY <2>9, <2>10 DEF Wanted, DividesByZero, BuysByFunds
  <2>12. taker.funds < BestMaker.price
    <3>1. \A f \in Nat, p \in Nat \ {0} : f \div p = 0 => f < p
      OBVIOUS
    <3> QED
      BY <2>2, <2>5, <2>6, <2>11, <3>1
  <2>13. ASSUME NEW m \in MakerDepth
         PROVE  taker.funds < m.price
    <3>1. m = BestMaker \/ BestMaker.price <= m.price
      BY <2>5, <2>6, <2>10 DEF Precedes, Opposite
    <3> QED
      BY <2>2, <2>5, <2>6, <2>12, <3>1
  <2> QED
    BY <2>10, <2>13
<1>2. Init => MarketTakerOK
  BY DEF Init, MarketTakerOK
<1> QED
  BY <1>1, <1>2, InitStructure, NextStructure, NextMarketTaker, PTL
     DEF Spec, MarketOrdersTryAll

-----------------------------------------------------------------------------
(* The life of an order, as its logs tell it.  From here on the ids are     *)
(* within the first span of the window: an order let in twice has two lives *)
(* under one id.                                                            *)

\* What the logs s tell of the order id.
Named(s, id) == \E i \in 1 .. Len(s) : id \in Parties(s[i])
IsOpen(s, id) == \E i \in 1 .. Len(s) : s[i].kind = "open" /\ s[i].id = id
IsDone(s, id) == \E i \in 1 .. Len(s) : s[i].kind = "done" /\ s[i].id = id

\* LogLifecycle, of the logs s.
Lives(s) ==
    \A i \in 1 .. Len(s) :
        /\ s[i].kind = "done" =>
              \A j \in 1 .. Len(s) : j > i => s[i].id \notin Parties(s[j])
        /\ s[i].kind = "open" =>
              \A j \in 1 .. Len(s) :
                 /\ s[j].kind = "open" /\ s[j].id = s[i].id => j = i
                 /\ s[j].kind = "match" /\ s[j].taker = s[i].id => j < i
        /\ s[i].kind = "match" =>
              \E j \in 1 .. i - 1 : s[j].kind = "open" /\ s[j].id = s[i].maker

\* What one more log tells: t is s with log behind it.
Adds(t, s, log) ==
    /\ Len(t) = Len(s) + 1
    /\ \A i \in 1 .. Len(s) : t[i] = s[i]
    /\ t[Len(s) + 1] = log

LEMMA AppendAdds ==
    ASSUME NEW s \in Seq(Logs), NEW log \in Logs
    PROVE  /\ Append(s, log) \in Seq(Logs)
           /\ Adds(Append(s, log), s, log)
BY DEF Adds

LEMMA OneMoreTells ==
    ASSUME NEW s \in Seq(Logs), NEW log \in Logs, NEW t, Adds(t, s, log)
    PROVE  \A id :
              /\ Named(t, id) <=> Named(s, id) \/ id \in Parties(log)
              /\ IsOpen(t, id) <=> IsOpen(s, id) \/ (log.kind = "open" /\ log.id = id)
              /\ IsDone(t, id) <=> IsDone(s, id) \/ (log.kind = "done" /\ log.id = id)
<1>1. Len(s) \in Nat /\ Len(t) = Len(s) + 1
  BY DEF Adds
<1>2. 1 .. Len(t) = 1 .. Len(s) \cup {Len(s) + 1}
  BY <1>1
<1>3. \A i \in 1 .. Len(s) : t[i] = s[i]
  BY DEF Adds
<1>4. t[Len(s) + 1] = log
  BY DEF Adds
<1> QED
  BY <1>2, <1>3, <1>4 DEF Named, IsOpen, IsDone

\* The life cycle goes on with one more log, if its parties are not done, if
\* it opens no order a second time, and if it tells a match of an order that
\* is open with one that is not.
LEMMA OneMoreLives ==
    ASSUME NEW s \in Seq(Logs), NEW log \in Logs, NEW t, Adds(t, s, log), Lives(s),
           \A id \in Parties(log) : ~ IsDone(s, id),
           log.kind = "open" => ~ IsOpen(s, log.id),
           log.kind = "match" => IsOpen(s, log.maker) /\ ~ IsOpen(s, log.taker)
    PROVE  Lives(t)
<1> DEFINE n == Len(s)
<1>1. n \in Nat /\ Len(t) = n + 1
  BY DEF Adds
<1>2. \A i \in 1 .. n : t[i] = s[i]
  BY DEF Adds
<1>3. t[n + 1] = log
  BY DEF Adds
<1>4. 1 .. Len(t) = 1 .. n \cup {n + 1}
  BY <1>1
<1>5. ASSUME NEW i \in 1 .. Len(t), t[i].kind = "done", NEW j \in 1 .. Len(t), j > i
      PROVE  t[i].id \notin Parties(t[j])
  <2>1. i \in 1 .. n /\ t[i] = s[i]
    BY <1>1, <1>2, <1>5
  <2>2. CASE j \in 1 .. n
    BY <1>2, <1>5, <2>1, <2>2 DEF Lives
  <2>3. CASE j = n + 1
    BY <1>3, <1>5, <2>1, <2>3 DEF IsDone
  <2> QED
    BY <1>4, <2>2, <2>3
<1>6. ASSUME NEW i \in 1 .. Len(t), t[i].kind = "open", NEW j \in 1 .. Len(t)
      PROVE  /\ t[j].kind = "open" /\ t[j].id = t[i].id => j = i
             /\ t[j].kind = "match" /\ t[j].taker = t[i].id => j < i
  <2>1. CASE i \in 1 .. n /\ j \in 1 .. n
    BY <1>2, <1>6, <2>1 DEF Lives
  <2>2. CASE i \in 1 .. n /\ j = n + 1
    BY <1>2, <1>3, <1>6, <2>2 DEF IsOpen
  <2>3. CASE i = n + 1 /\ j \in 1 .. n
    BY <1>1, <1>2, <1>3, <1>6, <2>3 DEF IsOpen
  <2>4. CASE i = n + 1 /\ j = n + 1
    BY <1>3, <1>6, <2>4
  <2> QED
    BY <1>4, <2>1, <2>2, <2>3, <2>4
<1>7. ASSUME NEW i \in 1 .. Len(t), t[i].kind = "match"
      PROVE  \E j \in 1 .. i - 1 : t[j].kind = "open" /\ t[j].id = t[i].maker
  <2>1. CASE i \in 1 .. n
    <3>1. PICK j \in 1 .. i - 1 : s[j].kind = "open" /\ s[j].id = s[i].maker
      BY <1>2, <1>7, <2>1 DEF Lives
    <3>2. j \in 1 .. n
      BY <1>1, <2>1, <3>1
    <3> QED
      BY <1>2, <2>1, <3>1, <3>2
  <2>2. CASE i = n + 1
    <3>1. PICK j \in 1 .. n : s[j].kind = "open" /\ s[j].id = log.maker
      BY <1>3, <1>7, <2>2 DEF IsOpen
    <3>2. j \in 1 .. i - 1
      BY <1>1, <2>2, <3>1
    <3> QED
      BY <1>2, <1>3, <2>2, <3>1, <3>2
  <2> QED
    BY <1>4, <2>1, <2>2
<1> QED
  BY <1>5, <1>6, <1>7 DEF Lives

OnDepth(id) == \E side \in Sides : \E m \in depths[side] : m.id = id

\* The logs tell where an order is: not let in, the taker, on a depth, or done.
LogsTellWhere ==
    /\ \A id \in OrderIds :
          /\ Named(logs, id) => accepts[id] > 0
          /\ OnDepth(id) => IsOpen(logs, id) /\ ~ IsDone(logs, id)
          /\ accepts[id] > 0 => \/ IsDone(logs, id)
                                \/ OnDepth(id)
                                \/ taker # NoOrder /\ taker.id = id
    /\ taker # NoOrder => ~ IsOpen(logs, taker.id) /\ ~ IsDone(logs, taker.id)

\* DoneTellsAll, of a done log about the order row that has traded the size
\* size for the funds funds.
TellsAll(log, row, size, funds) ==
    IF row.type = "limit"
    THEN /\ log.remaining + size = row.size
         /\ log.reason = "filled" <=> log.remaining = 0
    ELSE log.reason = "filled" <=>
            IF row.side = "buy" THEN funds = row.funds ELSE size = row.size

AllTell(s, stored, size, funds) ==
    \A i \in 1 .. Len(s) : s[i].kind = "done" =>
        TellsAll(s[i], stored[s[i].id], size[s[i].id], funds[s[i].id])

DoneLogsTell == AllTell(logs, rows, traded, spent)

Story == Lives(logs) /\ LogsTellWhere /\ DoneLogsTell

\* What the logs name are ids of orders.
LEMMA NamedAreIds ==
    ASSUME Structure
    PROVE  /\ Len(logs) \in Nat
           /\ \A id : IsOpen(logs, id) \/ IsDone(logs, id) => Named(logs, id)
           /\ \A id : Named(logs, id) => id \in OrderIds
<1>1. logs \in Seq(Logs)
  BY DEF Structure, VariablesTyped
<1>2. \A i \in 1 .. Len(logs) : logs[i] \in Logs
  BY <1>1
<1>3. \A log \in Logs : /\ Parties(log) \subseteq OrderIds
                        /\ log.kind # "match" => log.id \in Parties(log)
  BY DEF Logs, Parties
<1> QED
  BY <1>1, <1>2, <1>3 DEF Named, IsOpen, IsDone

\* The done logs stay right as long as nothing changes for those that are done.
LEMMA DoneStay ==
    ASSUME NEW s, NEW stored, NEW size, NEW funds, AllTell(s, stored, size, funds),
           NEW stored2, NEW size2, NEW funds2,
           \A id : IsDone(s, id) => /\ stored2[id] = stored[id]
                                    /\ size2[id] = size[id]
                                    /\ funds2[id] = funds[id]
    PROVE  AllTell(s, stored2, size2, funds2)
BY DEF AllTell, IsDone

LEMMA OneMoreTellsAll ==
    ASSUME NEW s \in Seq(Logs), NEW log \in Logs, NEW t, Adds(t, s, log),
           NEW stored, NEW size, NEW funds, AllTell(s, stored, size, funds),
           log.kind = "done" =>
              TellsAll(log, stored[log.id], size[log.id], funds[log.id])
    PROVE  AllTell(t, stored, size, funds)
<1>1. 1 .. Len(t) = 1 .. Len(s) \cup {Len(s) + 1}
  BY DEF Adds
<1>2. \A i \in 1 .. Len(s) : t[i] = s[i]
  BY DEF Adds
<1>3. t[Len(s) + 1] = log
  BY DEF Adds
<1> QED
  BY <1>1, <1>2, <1>3 DEF AllTell

\* A step without logs that moves no order, and stores one at most.
LEMMA NothingToTell ==
    ASSUME Structure, Story, UNCHANGED <<logs, traded, spent>>,
           \A id \in OrderIds : accepts[id] > 0 => rows'[id] = rows[id],
           LogsTellWhere'
    PROVE  Story'
<1>1. \A id : IsDone(logs, id) => rows'[id] = rows[id]
  BY NamedAreIds DEF Story, LogsTellWhere
<1>2. AllTell(logs, rows', traded, spent)
  BY <1>1, DoneStay DEF Story, DoneLogsTell
<1> QED
  BY <1>2 DEF Story, Lives, DoneLogsTell

LEMMA StartOrderTells ==
    ASSUME IdsWithinWindow, Structure, Accounts, Story, NEW order \in Orders,
           StartOrder(order)
    PROVE  Story'
<1> DEFINE id == order.id
<1>1. /\ Receive(order) /\ id \in OrderIds
      /\ \A i \in OrderIds : accepts[i] > 0 => rows'[i] = rows[i]
  BY Received, StoredRows DEF StartOrder, Accounts
<1>2. /\ accepts' = [accepts EXCEPT ![id] = @ + 1] /\ taker' = TakerOf(order)
      /\ taker = NoOrder
      /\ UNCHANGED <<depths, logs, traded, spent>>
  BY DEF StartOrder, Receive, Idle
<1>3. accepts \in [OrderIds -> Nat]
  BY DEF Structure, VariablesTyped
<1>4. accepts[id] = 0
  <2>1. Slot(id) \notin window
    BY <1>1 DEF StartOrder, WindowRefuses, IdsWithinWindow
  <2> QED
    BY <1>1, <1>3, <2>1 DEF Accounts, LetInIsKnown
<1>5. ~ Named(logs, id)
  BY <1>1, <1>4 DEF Story, LogsTellWhere
<1>6. taker'.id = id /\ taker' # NoOrder
  BY <1>2, OrderFields, NoOrderIsNoTaker
<1>7. \A i \in OrderIds : (accepts'[i] > 0 <=> accepts[i] > 0 \/ i = id)
  BY <1>1, <1>2, <1>3
<1>8. \A i : OnDepth(i)' <=> OnDepth(i)
  BY <1>2 DEF OnDepth
<1>9. LogsTellWhere'
  <2>1. ~ IsOpen(logs, taker'.id) /\ ~ IsDone(logs, taker'.id)
    BY <1>5, <1>6, NamedAreIds
  <2>2. ASSUME NEW i \in OrderIds
        PROVE  /\ Named(logs, i) => accepts'[i] > 0
               /\ OnDepth(i)' => IsOpen(logs, i) /\ ~ IsDone(logs, i)
               /\ accepts'[i] > 0 => \/ IsDone(logs, i)
                                     \/ OnDepth(i)'
                                     \/ taker' # NoOrder /\ taker'.id = i
    BY <1>2, <1>6, <1>7, <1>8 DEF Story, LogsTellWhere
  <2> QED
    BY <1>2, <2>1, <2>2 DEF LogsTellWhere
<1> QED
  BY <1>1, <1>2, <1>9, NothingToTell

LEMMA QuietTells ==
    ASSUME Structure, Accounts, Story,
           UNCHANGED <<depths, taker, logs, accepts, traded, spent>>,
           \A id \in OrderIds : accepts[id] > 0 => rows'[id] = rows[id]
    PROVE  Story'
<1>1. LogsTellWhere'
  BY DEF Story, LogsTellWhere, OnDepth
<1> QED
  BY <1>1, NothingToTell

\* The call ends: the taker is opened and rests, or is done.
LEMMA CallEndsTells ==
    ASSUME Structure, Accounts, Story, Rest \/ Finish
    PROVE  Story'
<1> DEFINE log == ClosingLog(logSeq + 1, taker)
<1>1. /\ UNCHANGED <<rows, accepts, traded, spent>> /\ taker' = NoOrder
      /\ logs' = Append(logs, log) /\ taker # NoOrder
  BY DEF Rest, Finish, LoopOver, auxVars
<1>2. /\ taker \in Takers /\ taker.id \in OrderIds /\ taker.side \in Sides
      /\ taker.size \in Nat /\ taker.funds \in Nat
      /\ logs \in Seq(Logs) /\ log \in Logs
  BY <1>1, ClosingLogTyped DEF Structure, VariablesTyped, Takers
<1>3. /\ log.kind = IF Rests(taker) THEN "open" ELSE "done"
      /\ log.id = taker.id /\ Parties(log) = {taker.id}
  BY <1>2 DEF ClosingLog, OpenLog, DoneLog, Parties, Takers
<1>4. Rest <=> Rests(taker)
  BY DEF Rest, Finish
<1>5. log.kind = "done" =>
         TellsAll(log, rows[taker.id], traded[taker.id], spent[taker.id])
  <2> SUFFICES ASSUME ~ Rests(taker)
               PROVE  TellsAll(log, rows[taker.id], traded[taker.id], spent[taker.id])
    BY <1>3
  <2>1. /\ rows[taker.id].type = taker.type /\ rows[taker.id].side = taker.side
        /\ IF BuysByFunds(taker)
           THEN taker.funds + spent[taker.id] = rows[taker.id].funds
           ELSE taker.size + traded[taker.id] = rows[taker.id].size
    BY <1>1 DEF Accounts, TakerMatchesRow
  <2>2. traded[taker.id] \in Nat /\ spent[taker.id] \in Nat
    BY <1>2 DEF Structure, VariablesTyped
  <2>3. CASE taker.type = "limit"
    <3>1. taker.size = 0
      BY <1>2, <2>3 DEF Rests
    <3>2. log.remaining = taker.size /\ log.reason = "filled"
      BY <2>3 DEF ClosingLog, DoneLog, DoneReason
    <3> QED
      BY <2>1, <2>2, <2>3, <3>1, <3>2 DEF TellsAll, BuysByFunds
  <2>4. CASE taker.type # "limit"
    <3>1. taker.type = "market"
      BY <1>2, <2>4 DEF Takers
    <3>2. log.reason = DoneReason(taker)
      BY <3>1 DEF ClosingLog, DoneLog
    <3>3. CASE taker.side = "buy"
      <4>1. log.reason = "filled" <=> taker.funds = 0
        BY <1>2, <3>1, <3>2, <3>3 DEF DoneReason
      <4>2. taker.funds + spent[taker.id] = rows[taker.id].funds
        BY <2>1, <3>1, <3>3 DEF BuysByFunds
      <4>3. taker.funds = 0 <=> spent[taker.id] = rows[taker.id].funds
        BY <1>2, <2>2, <4>2
      <4> QED
        BY <2>1, <3>1, <3>3, <4>1, <4>3 DEF TellsAll
    <3>4. CASE taker.side # "buy"
      <4>1. log.reason = "filled" <=> taker.size = 0
        BY <1>2, <3>1, <3>2, <3>4 DEF DoneReason
      <4>2. taker.size + traded[taker.id] = rows[taker.id].size
        BY <2>1, <3>4 DEF BuysByFunds
      <4>3. taker.size = 0 <=> traded[taker.id] = rows[taker.id].size
        BY <1>2, <2>2, <4>2
      <4> QED
        BY <2>1, <3>1, <3>4, <4>1, <4>3 DEF TellsAll
    <3> QED
      BY <3>3, <3>4
  <2> QED
    BY <2>3, <2>4
<1> HIDE DEF log
<1>6. Adds(logs', logs, log)
  BY <1>1, <1>2, AppendAdds
<1>7. ~ IsOpen(logs, taker.id) /\ ~ IsDone(logs, taker.id)
  BY <1>1 DEF Story, LogsTellWhere
<1>8. Lives(logs')
  BY <1>2, <1>3, <1>6, <1>7, OneMoreLives DEF Story
<1>9. AllTell(logs', rows, traded, spent)
  BY <1>2, <1>3, <1>5, <1>6, OneMoreTellsAll DEF Story, DoneLogsTell
<1>10. \A i : OnDepth(i)' <=> OnDepth(i) \/ (Rests(taker) /\ i = taker.id)
  <2>1. CASE Finish
    <3>1. depths' = depths /\ ~ Rests(taker)
      BY <2>1 DEF Finish
    <3> QED
      BY <3>1 DEF OnDepth
  <2>2. CASE Rest
    <3>1. /\ depths' = [depths EXCEPT ![taker.side] = Add(@, taker)] /\ Rests(taker)
          /\ depths \in [Sides -> SUBSET RestingOrders]
      BY <2>2 DEF Rest, Structure, VariablesTyped
    <3>2. /\ depths'[taker.side] = Add(depths[taker.side], taker)
          /\ \A side \in Sides : side # taker.side => depths'[side] = depths[side]
      BY <1>2, <3>1
    <3>3. \A i : (\E m \in Add(depths[taker.side], taker) : m.id = i) <=>
                 (\E m \in depths[taker.side] : m.id = i) \/ i = taker.id
      BY DEF Add
    <3> QED
      BY <1>2, <3>1, <3>2, <3>3 DEF OnDepth
  <2> QED
    BY <2>1, <2>2
<1>11. \A id : /\ Named(logs', id) <=> Named(logs, id) \/ id = taker.id
               /\ IsOpen(logs', id) <=>
                     IsOpen(logs, id) \/ (Rests(taker) /\ id = taker.id)
               /\ IsDone(logs', id) <=>
                     IsDone(logs, id) \/ (~ Rests(taker) /\ id = taker.id)
  BY <1>2, <1>3, <1>6, OneMoreTells
<1>12. accepts[taker.id] > 0 /\ ~ OnDepth(taker.id)
  BY <1>1 DEF Accounts, TakerMatchesRow, OnDepth
<1>13. LogsTellWhere'
  <2>1. ASSUME NEW id \in OrderIds
        PROVE  /\ Named(logs', id) => accepts[id] > 0
               /\ OnDepth(id)' => IsOpen(logs', id) /\ ~ IsDone(logs', id)
               /\ accepts[id] > 0 => IsDone(logs', id) \/ OnDepth(id)'
    BY <1>1, <1>7, <1>10, <1>11, <1>12 DEF Story, LogsTellWhere
  <2> QED
    BY <1>1, <2>1 DEF LogsTellWhere
<1> QED
  BY <1>1, <1>8, <1>9, <1>13 DEF Story, DoneLogsTell

\* Where the entries of id on a depth are of one side, taking them off one side
\* takes them off the book.
LEMMA OneSideOnly ==
    ASSUME Structure, Accounts, NEW side \in Sides, NEW m \in depths[side],
           NEW other \in Sides, NEW n \in depths[other], n.id = m.id
    PROVE  other = side /\ n = m
<1>1. m.side = side /\ n.side = other /\ IsDepth(depths[side], side)
  BY DEF Structure, DepthsOK, IsDepth
<1>2. other = side
  BY <1>1 DEF Accounts, DepthsMatchRows
<1> QED
  BY <1>1, <1>2 DEF IsDepth

LEMMA CancelTells ==
    ASSUME Structure, Accounts, Story, NEW order \in Orders, Cancel(order)
    PROVE  Story'
<1> DEFINE entry == {e \in depths[order.side] : e.id = order.id}
           m     == CHOOSE e \in entry : TRUE
           done  == DoneLog(logSeq + 1, m, m.size, "cancelled")
<1>1. /\ UNCHANGED <<taker, accepts, traded, spent>> /\ Receive(order)
      /\ taker = NoOrder
  BY DEF Cancel, auxVars, Receive, Idle
<1>2. /\ order.id \in OrderIds /\ order.side \in Sides
      /\ \A id \in OrderIds : accepts[id] > 0 => rows'[id] = rows[id]
  BY <1>1, OrderFields, StoredRows DEF Accounts
<1>3. logs \in Seq(Logs) /\ depths \in [Sides -> SUBSET RestingOrders] /\ logSeq \in Nat
  BY DEF Structure, VariablesTyped
<1>4. \/ depths' = depths /\ logs' = logs \o << >>
      \/ /\ entry # {}
         /\ depths' = [depths EXCEPT ![order.side] = @ \ entry]
         /\ logs' = logs \o <<done>>
  BY DEF Cancel, CancelOrder, Entry
<1>5. CASE depths' = depths /\ logs' = logs \o << >>
  <2>1. logs' = logs
    BY <1>3, <1>5
  <2> QED
    BY <1>1, <1>2, <1>5, <2>1, QuietTells
<1>6. CASE /\ entry # {}
           /\ depths' = [depths EXCEPT ![order.side] = @ \ entry]
           /\ logs' = logs \o <<done>>
  <2>1. m \in depths[order.side] /\ m.id = order.id
    BY <1>6
  <2>2. m \in RestingOrders /\ m.size \in Nat \ {0}
    BY <1>2, <1>3, <2>1 DEF RestingOrders
  <2> HIDE DEF m
  <2>3. /\ done \in Logs /\ done.kind = "done" /\ done.id = order.id
        /\ done.remaining = m.size /\ done.reason = "cancelled"
        /\ Parties(done) = {order.id}
    BY <1>3, <2>1, <2>2 DEF DoneLog, Logs, RestingOrders, Parties
  <2>4. /\ accepts[order.id] > 0 /\ rows[order.id].type = "limit"
        /\ m.size + traded[order.id] = rows[order.id].size
    BY <1>2, <2>1 DEF Accounts, DepthsMatchRows
  <2>5. TellsAll(done, rows'[order.id], traded[order.id], spent[order.id])
    BY <1>2, <2>2, <2>3, <2>4 DEF TellsAll
  <2> HIDE DEF done
  <2>6. logs' = Append(logs, done)
    BY <1>3, <1>6, <2>3
  <2>7. Adds(logs', logs, done)
    BY <1>3, <2>3, <2>6, AppendAdds
  <2>8. OnDepth(order.id)
    BY <1>2, <2>1 DEF OnDepth
  <2>9. IsOpen(logs, order.id) /\ ~ IsDone(logs, order.id)
    BY <1>2, <2>8 DEF Story, LogsTellWhere
  <2>10. Lives(logs')
    BY <1>3, <2>3, <2>7, <2>9, OneMoreLives DEF Story
  <2>11. AllTell(logs', rows', traded, spent)
    <3>1. \A id : IsDone(logs, id) => rows'[id] = rows[id]
      BY <1>2, NamedAreIds DEF Story, LogsTellWhere
    <3>2. AllTell(logs, rows', traded, spent)
      BY <3>1, DoneStay DEF Story, DoneLogsTell
    <3> QED
      BY <1>3, <2>3, <2>5, <2>7, <3>2, OneMoreTellsAll
  <2>12. \A id : OnDepth(id)' <=> OnDepth(id) /\ id # order.id
    <3>1. /\ depths'[order.side] = depths[order.side] \ entry
          /\ \A side \in Sides : side # order.side => depths'[side] = depths[side]
      BY <1>2, <1>3, <1>6
    <3>2. \A side \in Sides : \A e \in depths[side] : e.id = order.id => side = order.side
      BY <1>2, <2>1, OneSideOnly
    <3>3. \A side \in Sides : depths'[side] = {e \in depths[side] : e.id # order.id}
      BY <3>1, <3>2
    <3> QED
      BY <3>3 DEF OnDepth
  <2>13. \A id : /\ Named(logs', id) <=> Named(logs, id) \/ id = order.id
                 /\ IsOpen(logs', id) <=> IsOpen(logs, id)
                 /\ IsDone(logs', id) <=> IsDone(logs, id) \/ id = order.id
    BY <1>3, <2>3, <2>7, OneMoreTells
  <2>14. LogsTellWhere'
    <3>1. ASSUME NEW id \in OrderIds
          PROVE  /\ Named(logs', id) => accepts[id] > 0
                 /\ OnDepth(id)' => IsOpen(logs', id) /\ ~ IsDone(logs', id)
                 /\ accepts[id] > 0 => IsDone(logs', id) \/ OnDepth(id)'
      BY <1>1, <2>4, <2>12, <2>13 DEF Story, LogsTellWhere
    <3> QED
      BY <1>1, <3>1 DEF LogsTellWhere
  <2> QED
    BY <1>1, <2>10, <2>11, <2>14 DEF Story, DoneLogsTell
<1> QED
  BY <1>4, <1>5, <1>6

\* An iteration of the loop: a match with a maker that is open, and the end of
\* a maker that is emptied.
LEMMA MatchMakerTells ==
    ASSUME Structure, Accounts, Story, MatchMaker
    PROVE  Story'
<1> DEFINE maker == BestMaker
           size  == Min({Wanted, maker.size})
           less  == [maker EXCEPT !.size = @ - size]
           match == MatchLog(logSeq + 1, tradeSeq + 1, taker, maker, size)
           done  == DoneLog(logSeq + 2, [maker EXCEPT !.size = 0], 0, "filled")
           s     == Append(logs, match)
<1>1. /\ taker.id \in OrderIds /\ maker.id \in OrderIds /\ taker.id # maker.id
      /\ maker \in depths[maker.side] /\ maker.side \in Sides
      /\ maker \in RestingOrders
      /\ size \in Nat \ {0} /\ size <= maker.size
      /\ depths' = [depths EXCEPT ![maker.side] = DecrSize(@, maker, size)]
      /\ traded' = [id \in OrderIds |->
                       IF id \in {taker.id, maker.id}
                       THEN traded[id] + size ELSE traded[id]]
      /\ spent' = [id \in OrderIds |->
                       IF id \in {taker.id, maker.id}
                       THEN spent[id] + size * maker.price ELSE spent[id]]
      /\ rows' = rows /\ accepts' = accepts /\ taker' = Pay(maker, size)
  BY TradeMoves DEF TradeEffects
<1>2. /\ taker # NoOrder /\ taker \in Takers
      /\ taker' # NoOrder /\ taker'.id = taker.id
  <2>1. taker # NoOrder /\ taker \in Takers
    BY DEF MatchMaker, MeetsMaker, Structure, VariablesTyped
  <2>2. Pay(maker, size) \in Takers
    BY TradeFacts
  <2>3. Pay(maker, size).id = taker.id
    BY <2>1 DEF Pay, Takers
  <2> QED
    BY <1>1, <2>1, <2>2, <2>3, NoOrderIsNoTaker
<1>3. /\ logs \in Seq(Logs) /\ depths \in [Sides -> SUBSET RestingOrders]
      /\ logSeq \in Nat /\ tradeSeq \in Nat /\ traded \in [OrderIds -> Nat]
  BY DEF Structure, VariablesTyped
<1>4. logs' = logs \o TradeLogs(maker, size)
  BY DEF MatchMaker
<1>5. /\ match \in Logs /\ match.kind = "match" /\ match.maker = maker.id
      /\ match.taker = taker.id /\ Parties(match) = {taker.id, maker.id}
  BY <1>1, <1>2, <1>3 DEF MatchLog, Logs, Takers, RestingOrders, Parties
<1>6. /\ done \in Logs /\ done.kind = "done" /\ done.id = maker.id
      /\ Parties(done) = {maker.id} /\ done.remaining = 0 /\ done.reason = "filled"
  BY <1>1, <1>3 DEF DoneLog, Logs, RestingOrders, Parties
<1>7. \/ size = maker.size /\ logs' = Append(s, done)
      \/ size # maker.size /\ logs' = s
  <2>1. CASE size = maker.size
    <3>1. TradeLogs(maker, size) = <<match, done>>
      BY <2>1 DEF TradeLogs
    <3> HIDE DEF match, done
    <3>2. logs \o <<match, done>> = Append(Append(logs, match), done)
      BY <1>3, <1>5, <1>6
    <3> QED
      BY <1>4, <2>1, <3>1, <3>2
  <2>2. CASE size # maker.size
    <3>1. TradeLogs(maker, size) = <<match>>
      BY <2>2 DEF TradeLogs
    <3>2. logs \o <<match>> = Append(logs, match)
      BY <1>3, <1>5
    <3> QED
      BY <1>4, <2>2, <3>1, <3>2
  <2> QED
    BY <2>1, <2>2
<1>8. \A i : OnDepth(i)' <=> OnDepth(i) /\ ~ (size = maker.size /\ i = maker.id)
  <2>1. less.id = maker.id
    BY <1>1 DEF RestingOrders
  <2> HIDE DEF less, size, maker
  <2>2. /\ depths'[maker.side] = DecrSize(depths[maker.side], maker, size)
        /\ \A side \in Sides : side # maker.side => depths'[side] = depths[side]
    BY <1>1, <1>3
  <2>3. \A side \in Sides : \A e \in depths[side] :
           e.id = maker.id => side = maker.side /\ e = maker
    BY <1>1, OneSideOnly
  <2>4. CASE size = maker.size
    <3>1. depths'[maker.side] = depths[maker.side] \ {maker}
      BY <2>2, <2>4 DEF DecrSize
    <3>2. \A side \in Sides : depths'[side] = {e \in depths[side] : e.id # maker.id}
      BY <2>2, <2>3, <3>1
    <3> QED
      BY <2>4, <3>2 DEF OnDepth
  <2>5. CASE size # maker.size
    <3>1. depths'[maker.side] = (depths[maker.side] \ {maker}) \cup {less}
      BY <2>2, <2>5 DEF DecrSize, less
    <3>2. \A i : (\E e \in depths'[maker.side] : e.id = i) <=>
                 (\E e \in depths[maker.side] : e.id = i)
      BY <1>1, <2>1, <3>1
    <3> QED
      BY <2>2, <2>5, <3>2 DEF OnDepth
  <2> QED
    BY <2>4, <2>5
<1> HIDE DEF match, done, size, maker
<1>9. s \in Seq(Logs) /\ Adds(s, logs, match)
  BY <1>3, <1>5, AppendAdds
<1> HIDE DEF s
<1>10. /\ OnDepth(maker.id) /\ accepts[maker.id] > 0
       /\ IsOpen(logs, maker.id) /\ ~ IsDone(logs, maker.id)
  <2>1. OnDepth(maker.id)
    BY <1>1 DEF OnDepth
  <2>2. accepts[maker.id] > 0
    BY <1>1 DEF Accounts, DepthsMatchRows
  <2> QED
    BY <1>1, <2>1, <2>2 DEF Story, LogsTellWhere
<1>11. /\ accepts[taker.id] > 0
       /\ ~ IsOpen(logs, taker.id) /\ ~ IsDone(logs, taker.id)
  BY <1>2 DEF Accounts, TakerMatchesRow, Story, LogsTellWhere
<1>12. Lives(s)
  BY SMTT(30), <1>3, <1>5, <1>9, <1>10, <1>11, OneMoreLives DEF Story
<1>13. \A id : /\ Named(s, id) <=> Named(logs, id) \/ id \in {taker.id, maker.id}
               /\ IsOpen(s, id) <=> IsOpen(logs, id)
               /\ IsDone(s, id) <=> IsDone(logs, id)
  BY <1>3, <1>5, <1>9, OneMoreTells
<1>14. AllTell(s, rows, traded', spent')
  <2>1. \A id : IsDone(logs, id) => traded'[id] = traded[id] /\ spent'[id] = spent[id]
    <3> SUFFICES ASSUME NEW id, IsDone(logs, id)
                 PROVE  traded'[id] = traded[id] /\ spent'[id] = spent[id]
      OBVIOUS
    <3>1. id \in OrderIds /\ id \notin {taker.id, maker.id}
      BY <1>10, <1>11, NamedAreIds
    <3> QED
      BY <1>1, <3>1
  <2>2. AllTell(logs, rows, traded', spent')
    BY <2>1, DoneStay DEF Story, DoneLogsTell
  <2> QED
    BY <1>3, <1>5, <1>9, <2>2, OneMoreTellsAll
<1>15. CASE size # maker.size /\ logs' = s
  <2>1. ASSUME NEW id \in OrderIds
        PROVE  /\ Named(logs', id) => accepts'[id] > 0
               /\ OnDepth(id)' => IsOpen(logs', id) /\ ~ IsDone(logs', id)
               /\ accepts'[id] > 0 => \/ IsDone(logs', id)
                                      \/ OnDepth(id)'
                                      \/ taker' # NoOrder /\ taker'.id = id
    BY <1>1, <1>2, <1>8, <1>10, <1>11, <1>13, <1>15 DEF Story, LogsTellWhere
  <2>2. LogsTellWhere'
    BY <1>2, <1>11, <1>13, <1>15, <2>1 DEF LogsTellWhere
  <2> QED
    BY <1>1, <1>12, <1>14, <1>15, <2>2 DEF Story, DoneLogsTell
<1>16. CASE size = maker.size /\ logs' = Append(s, done)
  <2>1. Adds(logs', s, done)
    BY <1>6, <1>9, <1>16, AppendAdds
  <2>2. Lives(logs')
    BY <1>6, <1>9, <1>10, <1>12, <1>13, <2>1, OneMoreLives
  <2>3. TellsAll(done, rows[maker.id], traded'[maker.id], spent'[maker.id])
    <3>1. /\ rows[maker.id].type = "limit"
          /\ maker.size + traded[maker.id] = rows[maker.id].size
      BY <1>1 DEF Accounts, DepthsMatchRows
    <3>2. traded'[maker.id] = traded[maker.id] + size /\ traded[maker.id] \in Nat
      BY <1>1, <1>3
    <3>3. 0 + traded'[maker.id] = rows[maker.id].size
      BY <1>1, <1>16, <3>1, <3>2
    <3> QED
      BY <1>6, <3>1, <3>3 DEF TellsAll
  <2>4. AllTell(logs', rows, traded', spent')
    BY <1>6, <1>9, <1>14, <2>1, <2>3, OneMoreTellsAll
  <2>5. \A id : /\ Named(logs', id) <=> Named(logs, id) \/ id \in {taker.id, maker.id}
                /\ IsOpen(logs', id) <=> IsOpen(logs, id)
                /\ IsDone(logs', id) <=> IsDone(logs, id) \/ id = maker.id
    BY <1>6, <1>9, <1>13, <2>1, OneMoreTells
  <2>6. ASSUME NEW id \in OrderIds
        PROVE  /\ Named(logs', id) => accepts'[id] > 0
               /\ OnDepth(id)' => IsOpen(logs', id) /\ ~ IsDone(logs', id)
               /\ accepts'[id] > 0 => \/ IsDone(logs', id)
                                      \/ OnDepth(id)'
                                      \/ taker' # NoOrder /\ taker'.id = id
    BY <1>1, <1>2, <1>8, <1>10, <1>11, <1>16, <2>5 DEF Story, LogsTellWhere
  <2>7. LogsTellWhere'
    BY <1>1, <1>2, <1>11, <2>5, <2>6 DEF LogsTellWhere
  <2> QED
    BY <1>1, <2>2, <2>4, <2>7 DEF Story, DoneLogsTell
<1> QED
  BY <1>7, <1>15, <1>16

LEMMA NextTells ==
    ASSUME IdsWithinWindow, Structure, Accounts, Story, [Next]_vars
    PROVE  Story'
<1>1. ASSUME NEW order \in Orders, RefuseOrder(order)
      PROVE  Story'
  <2>1. UNCHANGED <<depths, taker, logs, accepts, traded, spent>> /\ Receive(order)
    BY <1>1 DEF RefuseOrder, bookVars, auxVars
  <2> QED
    BY <2>1, StoredRows, QuietTells DEF Accounts
<1>2. CASE DivideByZero \/ Over \/ UNCHANGED vars
  <2>1. UNCHANGED <<rows, depths, taker, logs, accepts, traded, spent>>
    BY <1>2 DEF DivideByZero, Over, vars, bookVars, auxVars
  <2> QED
    BY <2>1, QuietTells
<1>3. ASSUME NEW order \in Orders, StartOrder(order) \/ Cancel(order)
      PROVE  Story'
  BY <1>3, StartOrderTells, CancelTells
<1>4. CASE MatchMaker \/ Rest \/ Finish
  BY <1>4, MatchMakerTells, CallEndsTells
<1> QED
  BY <1>1, <1>2, <1>3, <1>4 DEF Next, CallStep

LEMMA StoryCorrect ==
    ASSUME IdsWithinWindow
    PROVE  Spec => [](Structure /\ Story)
<1>1. Init => Story
  <2> SUFFICES ASSUME Init
               PROVE  Story
    OBVIOUS
  <2>1. Len(logs) = 0
    BY DEF Init
  <2>2. \A id \in OrderIds : accepts[id] = 0 /\ ~ OnDepth(id)
    BY DEF Init, EmptyBook, OnDepth
  <2>3. taker = NoOrder
    BY DEF Init
  <2>4. 1 .. Len(logs) = {}
    BY <2>1
  <2>5. Lives(logs) /\ DoneLogsTell /\ \A id : ~ Named(logs, id)
    BY <2>4 DEF Lives, DoneLogsTell, AllTell, Named
  <2>6. LogsTellWhere
    BY <2>2, <2>3, <2>5 DEF LogsTellWhere
  <2> QED
    BY <2>5, <2>6 DEF Story
<1>2. Structure /\ Story /\ Accounts /\ [Next]_vars => Story'
  BY NextTells
<1> QED
  BY <1>1, <1>2, AccountsCorrect, PTL DEF Spec

\* While the ids are within the first span of the window, an order is opened
\* at most once, before it is a maker and after it was a taker, is done at most
\* once, and nothing is logged of it then: what ApplyOrder and CancelOrder log
\* of an order agrees with where the order is.
THEOREM OneLifeEach ==
    ASSUME IdsWithinWindow
    PROVE  Spec => []LogLifecycle
<1>1. Structure /\ Story => LogLifecycle
  <2> SUFFICES ASSUME Structure, Story
               PROVE  LogLifecycle
    OBVIOUS
  <2>1. DOMAIN logs = 1 .. Len(logs)
    BY DEF Structure, VariablesTyped
  <2> QED
    BY <2>1 DEF Story, Lives, LogLifecycle
<1> QED
  BY <1>1, StoryCorrect, PTL

\* While the ids are within the first span of the window, a done log says what
\* its order has traded, and its reason whether that was all: the log of an
\* emptied maker, of a taker and of a cancellation alike.
THEOREM DoneLogsAreRight ==
    ASSUME IdsWithinWindow
    PROVE  Spec => []DoneTellsAll
<1>1. Structure /\ Story /\ Accounts => DoneTellsAll
  <2> SUFFICES ASSUME Structure, Story, Accounts,
                      NEW i \in DOMAIN logs, logs[i].kind = "done"
               PROVE  LET order  == rows[logs[i].id]
                          filled == IF order.side = "buy"
                                    THEN spent[order.id] = order.funds
                                    ELSE traded[order.id] = order.size
                      IN  IF order.type = "limit"
                          THEN /\ logs[i].remaining + traded[order.id] = order.size
                               /\ logs[i].reason = "filled" <=> logs[i].remaining = 0
                          ELSE logs[i].reason = "filled" <=> filled
    BY DEF DoneTellsAll
  <2> DEFINE id == logs[i].id
  <2>1. i \in 1 .. Len(logs)
    BY DEF Structure, VariablesTyped
  <2>2. IsDone(logs, id)
    BY <2>1 DEF IsDone
  <2>3. id \in OrderIds /\ accepts[id] > 0
    BY <2>2, NamedAreIds DEF Story, LogsTellWhere
  <2>4. rows[id].id = id
    BY <2>3 DEF Accounts, LetInIsKnown
  <2>5. TellsAll(logs[i], rows[id], traded[id], spent[id])
    BY <2>1 DEF Story, DoneLogsTell, AllTell
  <2> QED
    BY <2>4, <2>5 DEF TellsAll
<1> QED
  BY <1>1, StoryCorrect, AccountsCorrect, PTL

\* While the ids are within the first span of the window, every order that was
\* let in is done, or rests on the book, as soon as its call is over: no exit
\* of ApplyOrder leaves an order without its last log.
THEOREM NobodyForgotten ==
    ASSUME IdsWithinWindow
    PROVE  Spec => []NothingForgotten
<1>1. Structure /\ Story => NothingForgotten
  <2> SUFFICES ASSUME Structure, Story, Idle, NEW id \in OrderIds, accepts[id] > 0
               PROVE  \/ \E i \in DOMAIN logs : logs[i].kind = "done" /\ logs[i].id = id
                      \/ \E m \in depths["buy"] \cup depths["sell"] : m.id = id
    BY DEF NothingForgotten
  <2>1. DOMAIN logs = 1 .. Len(logs)
    BY DEF Structure, VariablesTyped
  <2>2. IsDone(logs, id) \/ OnDepth(id)
    BY DEF Story, LogsTellWhere, Idle
  <2> QED
    BY <2>1, <2>2 DEF IsDone, OnDepth, Sides
<1> QED
  BY <1>1, StoryCorrect, PTL

-----------------------------------------------------------------------------
(* The loop and the whole call: the operators of the atomic book are those *)
(* of Matching, under another name.                                         *)

\* The operators of the atomic book are those of the book.
LEMMA AtomicSides == Atomic!Sides = Sides
BY DEF Atomic!Sides, Sides

\* Its orders.
LEMMA AtomicOrders == Atomic!Orders = Orders
BY DEF Atomic!Orders, Atomic!LimitOrders, Atomic!MarketBuys, Atomic!MarketSells, Atomic!Sides,
       Orders, LimitOrders, MarketBuys, MarketSells, Sides

\* Its rules of matching.
LEMMA AtomicRules ==
    /\ \A side : Atomic!Opposite(side) = Opposite(side)
    /\ \A t : Atomic!BuysByFunds(t) <=> BuysByFunds(t)
    /\ \A t, m : Atomic!Crosses(t, m) <=> Crosses(t, m)
    /\ \A m, n : Atomic!Precedes(m, n) <=> Precedes(m, n)
    /\ \A t : Atomic!Rests(t) <=> Rests(t)
    /\ \A depth, o : Atomic!Add(depth, o) = Add(depth, o)
    /\ \A n, top : Atomic!Clip(n, top) = Clip(n, top)
    /\ \A o : Atomic!TakerOf(o) = TakerOf(o)
    /\ \A b, o : Atomic!Entry(b, o) = Entry(b, o)
<1>1. \A side : Atomic!Opposite(side) = Opposite(side)
  BY DEF Atomic!Opposite, Opposite
<1>2. \A t : Atomic!BuysByFunds(t) <=> BuysByFunds(t)
  BY DEF Atomic!BuysByFunds, BuysByFunds
<1>3. \A t, m : Atomic!Crosses(t, m) <=> Crosses(t, m)
  BY DEF Atomic!Crosses, Crosses
<1>4. \A m, n : Atomic!Precedes(m, n) <=> Precedes(m, n)
  BY DEF Atomic!Precedes, Precedes
<1>5. \A t : Atomic!Rests(t) <=> Rests(t)
  BY DEF Atomic!Rests, Rests
<1>6. \A depth, o : Atomic!Add(depth, o) = Add(depth, o)
  BY DEF Atomic!Add, Add
<1>7. \A n, top : Atomic!Clip(n, top) = Clip(n, top)
  BY DEF Atomic!Clip, Clip
<1>8. \A o : Atomic!TakerOf(o) = TakerOf(o)
  BY DEF Atomic!TakerOf, TakerOf
<1>9. \A b, o : Atomic!Entry(b, o) = Entry(b, o)
  BY DEF Atomic!Entry, Entry
<1> QED
  BY <1>1, <1>2, <1>3, <1>4, <1>5, <1>6, <1>7, <1>8, <1>9

\* Its logs.
LEMMA AtomicLogs ==
    /\ \A s, k, t, m, z : Atomic!MatchLog(s, k, t, m, z) = MatchLog(s, k, t, m, z)
    /\ \A s, o, r, w : Atomic!DoneLog(s, o, r, w) = DoneLog(s, o, r, w)
    /\ \A s, t : Atomic!ClosingLog(s, t) = ClosingLog(s, t)
<1>1. \A s, k, t, m, z : Atomic!MatchLog(s, k, t, m, z) = MatchLog(s, k, t, m, z)
  BY DEF Atomic!MatchLog, MatchLog
<1>2. \A s, o, r, w : Atomic!DoneLog(s, o, r, w) = DoneLog(s, o, r, w)
  BY DEF Atomic!DoneLog, DoneLog
<1>3. \A s, t : Atomic!ClosingLog(s, t) = ClosingLog(s, t)
  <2> SUFFICES ASSUME NEW s, NEW t PROVE Atomic!ClosingLog(s, t) = ClosingLog(s, t)
    OBVIOUS
  <2>1. Atomic!DoneReason(t) = DoneReason(t)
    BY DEF Atomic!DoneReason, DoneReason
  <2>2. Atomic!OpenLog(s, t) = OpenLog(s, t)
    BY DEF Atomic!OpenLog, OpenLog
  <2> QED
    BY <1>2, <2>1, <2>2, AtomicRules DEF Atomic!ClosingLog, ClosingLog
<1> QED
  BY <1>1, <1>2, <1>3

\* Its sums.
LEMMA AtomicSums ==
    ASSUME NEW f
    PROVE  Atomic!SumFunction(f) = SumFunction(f)
BY DEF Atomic!SumFunction, SumFunction, Atomic!SumFunctionOnSet, SumFunctionOnSet,
       Atomic!FoldFunctionOnSet, FoldFunctionOnSet, Atomic!MapThenFoldSet, MapThenFoldSet

\* What it takes of a maker.
LEMMA AtomicTake ==
    ASSUME NEW t, NEW S, NEW m
    PROVE  Atomic!Take(t, S, m) = Take(t, S, m)
<1>1. Atomic!Ahead(S, m) = Ahead(S, m)
  BY AtomicRules DEF Atomic!Ahead, Ahead
<1>2. /\ Atomic!Volume(Ahead(S, m)) = Volume(Ahead(S, m))
      /\ Atomic!Cost(Ahead(S, m)) = Cost(Ahead(S, m))
  BY AtomicSums DEF Atomic!Volume, Volume, Atomic!Cost, Cost
<1> QED
  BY <1>1, <1>2, AtomicRules DEF Atomic!Take, Take

\* The makers it trades with.
LEMMA AtomicHits ==
    ASSUME NEW b, NEW t
    PROVE  /\ Atomic!Makers(b, t) = Makers(b, t)
           /\ Atomic!Takes(b, t) = Takes(b, t)
           /\ Atomic!Hit(b, t) = Hit(b, t)
           /\ Atomic!Emptied(b, t) = Emptied(b, t)
           /\ Atomic!Left(b, t) = Left(b, t)
<1>1. Atomic!Makers(b, t) = Makers(b, t)
  BY AtomicRules DEF Atomic!Makers, Makers
<1>2. Atomic!Takes(b, t) = Takes(b, t)
  BY <1>1, AtomicTake DEF Atomic!Takes, Takes
<1>3. Atomic!Hit(b, t) = Hit(b, t)
  BY <1>1, <1>2 DEF Atomic!Hit, Hit
<1>4. Atomic!Emptied(b, t) = Emptied(b, t)
  BY <1>1, <1>2 DEF Atomic!Emptied, Emptied
<1>5. Atomic!Left(b, t) = Left(b, t)
  BY <1>2, <1>3, AtomicRules, AtomicSums DEF Atomic!Left, Left
<1> QED
  BY <1>1, <1>2, <1>3, <1>4, <1>5

\* Its counts.
LEMMA AtomicCount ==
    ASSUME NEW S
    PROVE  Atomic!Cardinality(S) = Cardinality(S)
BY DEF Atomic!Cardinality, Cardinality, Atomic!IsFiniteSet, IsFiniteSet

\* The order in which it trades with them.
LEMMA AtomicLine ==
    ASSUME NEW S
    PROVE  Atomic!InLine(S) = InLine(S)
<1>1. \A m : Atomic!Ahead(S, m) = Ahead(S, m)
  BY AtomicRules DEF Atomic!Ahead, Ahead
<1> QED
  BY <1>1, AtomicCount DEF Atomic!InLine, InLine

\* The calls of the abstract book are those of the book.
LEMMA AtomicCalls ==
    /\ \A b, t : Atomic!Complete(b, t) = Complete(b, t)
    /\ \A b, o : Atomic!ApplyOrder(b, o) = ApplyOrder(b, o)
    /\ \A b, o : Atomic!CancelOrder(b, o) = CancelOrder(b, o)
    /\ Atomic!EmptyBook = EmptyBook
<1>1. ASSUME NEW b, NEW t
      PROVE  Atomic!Complete(b, t) = Complete(b, t)
  BY AtomicHits, AtomicLine, AtomicCount, AtomicLogs, AtomicRules DEF Atomic!Complete, Complete
<1>2. ASSUME NEW b, NEW o
      PROVE  Atomic!ApplyOrder(b, o) = ApplyOrder(b, o)
  BY <1>1, AtomicRules DEF Atomic!ApplyOrder, ApplyOrder
<1>3. ASSUME NEW b, NEW o
      PROVE  Atomic!CancelOrder(b, o) = CancelOrder(b, o)
  BY AtomicRules, AtomicLogs DEF Atomic!CancelOrder, CancelOrder
<1>4. Atomic!EmptyBook = EmptyBook
  BY AtomicSides DEF Atomic!EmptyBook, EmptyBook
<1> QED
  BY <1>1, <1>2, <1>3, <1>4

-----------------------------------------------------------------------------
(* The loop, seen as turns of the whole call.                               *)

FiniteDepths == \A side \in Sides : IsFiniteSet(depths[side])

\* A market buy whose funds are spent has passed the makers at price zero, if
\* there were any: they stand first, and the first of them stops the process.
SpentMeetsNoFreeMaker ==
    taker # NoOrder /\ BuysByFunds(taker) /\ taker.funds = 0 =>
        \A m \in MakerDepth : m.price > 0

BookSound == FiniteDepths /\ SpentMeetsNoFreeMaker

\* The state of the loop is a book the whole calls are defined on.
LEMMA NowIsBook ==
    ASSUME Structure, FiniteDepths
    PROVE  IsOrderBook(Now) /\ Now.depths = depths
<1>1. /\ Now.depths = depths /\ Now.logSeq = logSeq /\ Now.tradeSeq = tradeSeq
      /\ Now = [depths |-> Now.depths, logSeq |-> Now.logSeq, tradeSeq |-> Now.tradeSeq]
  BY DEF Now
<1>2. depths = [side \in Sides |-> depths[side]] /\ logSeq \in Nat /\ tradeSeq \in Nat
  BY DEF Structure, VariablesTyped
<1> QED
  BY <1>1, <1>2 DEF IsOrderBook, IsBook, FiniteDepths, Structure, DepthsOK

\* The taker of the loop is a taker of the whole calls.
LEMMA TakerIs ==
    ASSUME Structure, taker # NoOrder
    PROVE  IsTaker(taker)
<1>1. taker \in Takers
  BY DEF Structure, VariablesTyped
<1>2. taker.price \in Nat
  <2>1. taker.price \in Prices \cup {0, InfPrice}
    BY <1>1 DEF Takers
  <2>2. InfPrice \in Nat
    BY InfPriceAssumption
  <2>3. \A p \in Prices : p \in Nat
    BY PricesAssumption
  <2> QED
    BY <2>1, <2>2, <2>3
<1> QED
  BY <1>1, <1>2 DEF Takers, IsTaker, Structure, TakerOK

\* No taker is taken for an idle book.
LEMMA TakersAreNoNoOrder ==
    ASSUME NEW t, IsTaker(t)
    PROVE  t # NoOrder
<1>1. t.id \in OrderIds /\ 0 \notin OrderIds
  BY OrderIdsAssumption DEF IsTaker
<1> QED
  BY <1>1 DEF NoOrder

\* Where the loop meets its best maker, it stands first among the makers.
LEMMA BestMakerLeads ==
    ASSUME Structure, FiniteDepths, taker # NoOrder, MakerDepth # {}
    PROVE  Leads(BestMaker, Now.depths[Opposite(taker.side)], Opposite(taker.side))
<1>1. Opposite(taker.side) \in Sides
  BY TakerIs, OppositeSide DEF IsTaker
<1>2. IsDepth(MakerDepth, Opposite(taker.side)) /\ IsFiniteSet(MakerDepth)
  BY <1>1 DEF Structure, DepthsOK, FiniteDepths, MakerDepth
<1>3. Now.depths[Opposite(taker.side)] = MakerDepth
  BY DEF Now, MakerDepth
<1>4. /\ BestMaker \in MakerDepth
      /\ \A n \in MakerDepth \ {BestMaker} : Precedes(BestMaker, n)
  BY <1>1, <1>2, FirstIsFirst DEF BestMaker
<1> QED
  BY <1>1, <1>2, <1>3, <1>4 DEF Leads, IsLine

\* An iteration is a turn of the whole call.
LEMMA IterationIsTurn ==
    ASSUME Structure, FiniteDepths, MatchMaker
    PROVE  LET f == BestMaker
               z == Min({Wanted, f.size})
           IN  /\ Turn(Now, taker, f, z)
               /\ Now' = Traded(Now, taker, f, z)
               /\ taker' = Charged(taker, f, z)
               /\ logs' = logs \o TurnLogs(Now, taker, f, z)
<1> DEFINE f == BestMaker
           z == Min({Wanted, f.size})
           new == TradeLogs(f, z)
<1>1. taker # NoOrder /\ MakerDepth # {} /\ Crosses(taker, f) /\ ~ DividesByZero /\ Wanted > 0
  BY DEF MatchMaker, MeetsMaker
<1>2. /\ taker' = Pay(f, z)
      /\ depths' = [depths EXCEPT ![f.side] = DecrSize(@, f, z)]
      /\ logSeq' = logSeq + Len(new) /\ tradeSeq' = tradeSeq + 1
      /\ logs' = logs \o new
  BY DEF MatchMaker
<1>3. f.side = Opposite(taker.side)
  BY TradeFacts
<1>4. Asked(taker, f) = Wanted
  BY DEF Asked, Wanted
<1>5. /\ Now.depths = depths /\ Now.logSeq = logSeq /\ Now.tradeSeq = tradeSeq
      /\ Now.depths[Opposite(taker.side)] = MakerDepth
  BY DEF Now, MakerDepth
<1>6. f \in MakerDepth /\ \A n \in MakerDepth \ {f} : Precedes(f, n)
  BY <1>1, <1>5, BestMakerLeads DEF Leads
<1>7. BuysByFunds(taker) => f.price # 0
  BY <1>1 DEF DividesByZero
<1>8. IsOrderBook(Now) /\ IsTaker(taker)
  BY <1>1, NowIsBook, TakerIs
<1>9. Turn(Now, taker, f, z)
  <2> HIDE DEF f
  <2> QED
    BY <1>1, <1>4, <1>5, <1>6, <1>7, <1>8 DEF Turn
<1>10. new = TurnLogs(Now, taker, f, z)
  BY <1>5 DEF TradeLogs, TurnLogs
<1> HIDE DEF f, z, new
<1>11. Len(new) = IF z = f.size THEN 2 ELSE 1
  <2>1. Len(TurnLogs(Now, taker, f, z)) = IF z = f.size THEN 2 ELSE 1
    BY TurnLogsCount
  <2> QED
    BY <1>10, <2>1
<1>12. Pay(f, z) = Charged(taker, f, z)
  BY DEF Pay, Charged
<1>13. Now' = Traded(Now, taker, f, z)
  BY <1>2, <1>3, <1>5, <1>11 DEF Now, Traded
<1> QED
  BY <1>2, <1>9, <1>10, <1>12, <1>13 DEF f, z

\* Where the loop is over, the taker can trade no more.
LEMMA OverIsUnserved ==
    ASSUME Structure, BookSound, LoopOver
    PROVE  Unserved(Now, taker)
<1> DEFINE f == BestMaker
           D == Now.depths[Opposite(taker.side)]
<1>1. /\ taker # NoOrder /\ ~ panicked /\ IsTaker(taker) /\ IsOrderBook(Now)
      /\ D = MakerDepth
  BY NowIsBook, TakerIs DEF LoopOver, BookSound, Now, MakerDepth
<1>2. CASE MakerDepth = {}
  BY <1>1, <1>2 DEF Unserved
<1>3. CASE MakerDepth # {} /\ ~ (BuysByFunds(taker) /\ f.price = 0)
  <2>1. Leads(f, D, Opposite(taker.side))
    BY <1>1, <1>3, BestMakerLeads DEF BookSound
  <2>2. f \in D /\ IsDepth(D, Opposite(taker.side))
    BY <2>1 DEF Leads, IsLine
  <2>3. f.price \in Nat /\ taker.size \in Nat /\ taker.funds \in Nat
    BY <1>1, <2>2, RestingFacts DEF IsTaker
  <2>4. BuysByFunds(taker) => f.price > 0
    BY <1>3, <2>3
  <2>5. ASSUME Crosses(taker, f) PROVE Asked(taker, f) = 0
    <3>1. CASE Eager
      <4>1. MeetsMaker
        BY <1>1, <1>3, <2>5, <3>1 DEF MeetsMaker
      <4>2. Wanted = 0
        BY <4>1 DEF LoopOver
      <4> QED
        BY <4>2 DEF Wanted, Asked
    <3>2. CASE ~ Eager
      <4>1. CASE ~ BuysByFunds(taker)
        BY <2>3, <3>2, <4>1 DEF Eager, Asked
      <4>2. CASE BuysByFunds(taker)
        <5>1. taker.funds = 0
          BY <2>3, <3>2, <4>2 DEF Eager
        <5>2. \A p \in Nat : p > 0 => 0 \div p = 0
          OBVIOUS
        <5> QED
          BY <2>3, <2>4, <4>2, <5>1, <5>2 DEF Asked
      <4> QED
        BY <4>1, <4>2
    <3> QED
      BY <3>1, <3>2
  <2> HIDE DEF f, D
  <2> QED
    BY <1>1, <2>1, <2>4, <2>5, BreaksUnserved DEF D
<1>4. CASE MakerDepth # {} /\ BuysByFunds(taker) /\ f.price = 0
  <2>1. Leads(f, D, Opposite(taker.side))
    BY <1>1, <1>4, BestMakerLeads DEF BookSound
  <2>2. f \in MakerDepth
    BY <1>1, <2>1 DEF Leads
  <2>3. ~ (f.price > 0)
    BY <1>4
  <2>4. taker.funds # 0
    BY <1>1, <1>4, <2>2, <2>3 DEF BookSound, SpentMeetsNoFreeMaker
  <2>5. Eager
    BY <1>1, <1>4, <2>4 DEF Eager, IsTaker
  <2>6. ~ Crosses(taker, f)
    BY <1>1, <1>4, <2>5 DEF LoopOver, MeetsMaker, DividesByZero
  <2>7. Asked(taker, f) = 0 \/ ~ Crosses(taker, f)
    BY <2>6
  <2>8. \A m \in D : ~ Crosses(taker, m)
    <3>1. /\ IsDepth(D, Opposite(taker.side)) /\ f \in D
          /\ \A n \in D \ {f} : Precedes(f, n)
      BY <2>1 DEF Leads, IsLine
    <3>2. Opposite(taker.side) = "sell" /\ taker.side = "buy"
      BY <1>4 DEF BuysByFunds, Opposite
    <3>3. \A m \in D : m.price \in Nat /\ m.side = "sell"
      BY <3>1, <3>2, RestingFacts
    <3>4. \A m \in D : f.price <= m.price
      BY <3>1, <3>3 DEF Precedes
    <3>5. taker.price \in Nat
      BY <1>1 DEF IsTaker
    <3> QED
      BY <1>4, <2>6, <3>2, <3>3, <3>4, <3>5 DEF Crosses
  <2> QED
    BY <2>8 DEF Unserved
<1> QED
  BY <1>2, <1>3, <1>4

-----------------------------------------------------------------------------
(* The depths stay finite, and spent funds meet no free maker. *)

\* A cancellation only takes away from the depths.
LEMMA CancelledIsPart ==
    ASSUME Structure, NEW order \in Orders, Cancel(order)
    PROVE  \A side \in Sides : depths'[side] \subseteq depths[side]
<1>1. /\ depths \in [Sides -> SUBSET RestingOrders] /\ order.side \in Sides
      /\ depths' = CancelOrder(Now, order).book.depths
  BY OrderFields DEF Structure, VariablesTyped, Cancel, Now
<1>2. \/ CancelOrder(Now, order).book = Now
      \/ CancelOrder(Now, order).book.depths =
            [depths EXCEPT ![order.side] = @ \ Entry(Now, order)]
  BY DEF CancelOrder, Now
<1>3. depths' = depths \/ depths' = [depths EXCEPT ![order.side] = @ \ Entry(Now, order)]
  BY <1>1, <1>2 DEF Now
<1> QED
  BY <1>1, <1>3

\* An iteration keeps the depths finite, and the price of its maker is not zero.
LEMMA MatchMakerSound ==
    ASSUME Structure, BookSound, MatchMaker
    PROVE  BookSound'
<1> DEFINE f == BestMaker
           z == Min({Wanted, f.size})
           other == Opposite(taker.side)
<1>1. /\ Turn(Now, taker, f, z) /\ Now' = Traded(Now, taker, f, z)
      /\ taker' = Charged(taker, f, z)
  BY IterationIsTurn DEF BookSound
<1>2. /\ IsTaker(taker) /\ other \in Sides /\ other # taker.side
      /\ BuysByFunds(taker) => f.price > 0
      /\ f.price \in Nat
  BY <1>1, TurnNumbers DEF Turn
<1>3. /\ f \in depths[other] /\ \A n \in depths[other] \ {f} : Precedes(f, n)
      /\ IsDepth(depths[other], other)
  <2>1. Now.depths = depths
    BY DEF Now
  <2> HIDE DEF f, z, other
  <2> QED
    BY <1>1, <1>2, <2>1 DEF Turn, other, Structure, DepthsOK
<1> HIDE DEF f, z
<1>4. /\ IsOrderBook(Traded(Now, taker, f, z))
      /\ Traded(Now, taker, f, z).depths[other] = DecrSize(Now.depths[other], f, z)
  BY <1>1, TurnKeeps
<1>5. /\ Charged(taker, f, z).side = taker.side
      /\ BuysByFunds(Charged(taker, f, z)) <=> BuysByFunds(taker)
  BY <1>1, TurnKeeps
<1>6. depths' = Traded(Now, taker, f, z).depths /\ Now.depths = depths
  BY <1>1 DEF Now
<1>7. FiniteDepths'
  BY <1>4, <1>6 DEF FiniteDepths, IsOrderBook, IsBook
<1>8. ASSUME BuysByFunds(taker), NEW m \in depths'[other]
      PROVE  m.price > 0
  <2>1. other = "sell"
    BY <1>8 DEF BuysByFunds, Opposite
  <2>2. \A n \in depths[other] : n.price \in Nat /\ n.side = "sell"
    BY <1>3, <2>1, RestingFacts
  <2>3. \A n \in depths[other] : n.price > 0
    <3> SUFFICES ASSUME NEW n \in depths[other] PROVE n.price > 0
      OBVIOUS
    <3>1. CASE n = f
      BY <1>2, <1>8, <3>1
    <3>2. CASE n # f
      <4>1. Precedes(f, n)
        BY <1>3, <3>2
      <4> QED
        BY <1>2, <1>3, <1>8, <2>2, <4>1 DEF Precedes
    <3> QED
      BY <3>1, <3>2
  <2>4. m \in DecrSize(depths[other], f, z)
    BY <1>4, <1>6, <1>8
  <2>5. m \in depths[other] \/ m = [f EXCEPT !.size = @ - z]
    BY <2>4 DEF DecrSize
  <2>6. f \in RestingOrders
    BY <1>3 DEF IsDepth
  <2>7. [f EXCEPT !.size = @ - z].price = f.price
    BY <2>6 DEF RestingOrders
  <2> QED
    BY <1>3, <2>3, <2>5, <2>7
<1>9. SpentMeetsNoFreeMaker'
  <2> SUFFICES ASSUME (taker # NoOrder /\ BuysByFunds(taker) /\ taker.funds = 0)'
               PROVE  (\A m \in MakerDepth : m.price > 0)'
    BY DEF SpentMeetsNoFreeMaker
  <2>1. BuysByFunds(taker)
    BY <1>1, <1>5
  <2>2. MakerDepth' = depths'[other]
    BY <1>1, <1>5 DEF MakerDepth
  <2> QED
    BY <1>8, <2>1, <2>2
<1> QED
  BY <1>7, <1>9 DEF BookSound

\* So does every step.
LEMMA NextSound ==
    ASSUME Structure, BookSound, [Next]_vars
    PROVE  BookSound'
<1>1. CASE MatchMaker
  BY <1>1, MatchMakerSound
<1>2. CASE DivideByZero \/ Over \/ UNCHANGED vars
  BY <1>2 DEF DivideByZero, Over, vars, bookVars, BookSound, FiniteDepths,
              SpentMeetsNoFreeMaker, MakerDepth
<1>3. ASSUME NEW order \in Orders, RefuseOrder(order)
      PROVE  BookSound'
  BY <1>3 DEF RefuseOrder, bookVars, BookSound, FiniteDepths, SpentMeetsNoFreeMaker, MakerDepth
<1>4. ASSUME NEW order \in Orders, StartOrder(order)
      PROVE  BookSound'
  <2>1. taker' = TakerOf(order) /\ depths' = depths
    BY <1>4 DEF StartOrder
  <2>2. FiniteDepths'
    BY <2>1 DEF BookSound, FiniteDepths
  <2>3. ASSUME BuysByFunds(TakerOf(order)) PROVE TakerOf(order).funds # 0
    <3>1. order.type = "market" /\ order.side = "buy" /\ TakerOf(order).funds = order.funds
      BY <2>3, OrderFields DEF BuysByFunds
    <3>2. order \in MarketBuys
      BY <3>1 DEF Orders, LimitOrders, MarketSells
    <3>3. order.funds \in Nat \ {0}
      BY <3>2, BudgetsAssumption DEF MarketBuys
    <3> QED
      BY <3>1, <3>3
  <2>4. SpentMeetsNoFreeMaker'
    BY <2>1, <2>3 DEF SpentMeetsNoFreeMaker
  <2> QED
    BY <2>2, <2>4 DEF BookSound
<1>5. ASSUME NEW order \in Orders, Cancel(order)
      PROVE  BookSound'
  <2>1. taker' = NoOrder
    BY <1>5 DEF Cancel, Receive, Idle
  <2>2. FiniteDepths'
    BY <1>5, CancelledIsPart, FS_Subset DEF BookSound, FiniteDepths
  <2> QED
    BY <2>1, <2>2 DEF BookSound, SpentMeetsNoFreeMaker
<1>6. CASE Rest \/ Finish
  <2>1. taker' = NoOrder
    BY <1>6 DEF Rest, Finish
  <2>2. depths' = depths \/ depths' = [depths EXCEPT ![taker.side] = Add(@, taker)]
    BY <1>6 DEF Rest, Finish
  <2>3. depths \in [Sides -> SUBSET RestingOrders]
    BY DEF Structure, VariablesTyped
  <2>4. FiniteDepths'
    <3> SUFFICES ASSUME NEW side \in Sides PROVE IsFiniteSet(depths'[side])
      BY DEF FiniteDepths
    <3>1. depths'[side] = depths[side] \/ depths'[side] = Add(depths[side], taker)
      BY <2>2, <2>3
    <3> QED
      BY <3>1, AddIsFinite DEF BookSound, FiniteDepths
  <2> QED
    BY <2>1, <2>4 DEF BookSound, SpentMeetsNoFreeMaker
<1> QED
  BY <1>1, <1>2, <1>3, <1>4, <1>5, <1>6 DEF Next, CallStep

\* And so they are at the start.
LEMMA InitSound == Init => BookSound
<1>1. Init => \A side \in Sides : depths[side] = {}
  BY DEF Init, EmptyBook
<1> QED
  BY <1>1, FS_EmptySet DEF Init, BookSound, FiniteDepths, SpentMeetsNoFreeMaker

-----------------------------------------------------------------------------
(* What the callers see takes the steps of the abstract book. *)

\* The orders let in.
Accepted == {rows[id] : id \in {i \in OrderIds : accepts[i] > 0}}

\* What is seen of the book and of the logs.
LEMMA SeenIdle ==
    ASSUME taker = NoOrder, Structure
    PROVE  Seen.book = Now /\ logs \o Seen.logs = logs
<1>1. logs \in Seq(Logs)
  BY DEF Structure, VariablesTyped
<1>2. logs \o << >> = logs
  BY <1>1
<1> QED
  BY <1>2 DEF Seen

\* During a call the callers see the book the call leaves.
LEMMA SeenBusy ==
    ASSUME taker # NoOrder
    PROVE  Seen = Complete(Now, taker)
BY DEF Seen

\* The callers see nothing of a step that leaves what they see as it is.
StaysSeen == /\ Seen.book' = Seen.book
             /\ (logs \o Seen.logs)' = logs \o Seen.logs
             /\ Accepted' = Accepted

\* What the callers do not see is a stutter of the atomic book.
LEMMA AtomicVars ==
    ASSUME StaysSeen
    PROVE  UNCHANGED Atomic!vars
BY DEF StaysSeen, Accepted, Atomic!vars

\* The orders let in stay, where their rows do.
LEMMA SameAccepted ==
    ASSUME \A id \in OrderIds : accepts[id] > 0 => rows'[id] = rows[id],
           accepts' = accepts
    PROVE  Accepted' = Accepted
BY DEF Accepted

\* The book starts as the atomic book does.
LEMMA InitAtomic == Init => Atomic!Init
<1> SUFFICES ASSUME Init PROVE Atomic!Init
  OBVIOUS
<1>1. Seen.book = Now /\ logs \o Seen.logs = logs
  BY InitStructure, SeenIdle DEF Init
<1>2. Now = EmptyBook
  BY DEF Init, Now, EmptyBook
<1>3. Accepted = {}
  BY DEF Init, Accepted
<1> QED
  BY <1>1, <1>2, <1>3, AtomicCalls DEF Init, Atomic!Init, Accepted

\* An order let in is a Submit of the atomic book, when the call starts.
LEMMA StartOrderAtomic ==
    ASSUME IdsWithinWindow, Structure, Accounts, NEW order \in Orders, StartOrder(order)
    PROVE  Atomic!Submit(order)
<1>1. taker = NoOrder /\ Receive(order)
  BY DEF StartOrder, Receive, Idle
<1>2. Seen.book = Now /\ logs \o Seen.logs = logs
  BY <1>1, SeenIdle
<1>3. Now' = Now /\ taker' = TakerOf(order) /\ logs' = logs
  BY DEF StartOrder, Now
<1>4. TakerOf(order) # NoOrder
  BY TakerOfOrder, TakersAreNoNoOrder
<1>5. Seen' = ApplyOrder(Now, order)
  BY <1>3, <1>4 DEF Seen, ApplyOrder
<1>6. /\ order.id \in OrderIds /\ rows'[order.id] = order
      /\ \A id \in OrderIds : /\ rows[id] # NoOrder => rows'[id] = rows[id] /\ rows[id].id = id
                              /\ accepts[id] > 0 => rows[id] # NoOrder
  BY <1>1, Received DEF Accounts, LetInIsKnown
<1>7. accepts \in [OrderIds -> Nat]
  BY DEF Structure, VariablesTyped
<1>8. accepts' = [accepts EXCEPT ![order.id] = @ + 1] /\ accepts[order.id] = 0
  <2>1. AcceptedOnce'
    BY StartOrderLetsInOnce DEF Accounts
  <2>2. accepts' = [accepts EXCEPT ![order.id] = @ + 1]
    BY DEF StartOrder
  <2>3. accepts'[order.id] = accepts[order.id] + 1 /\ accepts'[order.id] <= 1
    BY <1>6, <1>7, <2>1, <2>2 DEF AcceptedOnce
  <2> QED
    BY <1>6, <1>7, <2>2, <2>3
<1>9. \A other \in Accepted : other.id # order.id
  <2> SUFFICES ASSUME NEW id \in OrderIds, accepts[id] > 0 PROVE rows[id].id # order.id
    BY DEF Accepted
  <2>1. rows[id].id = id
    BY <1>6
  <2>2. id # order.id
    BY <1>8
  <2> QED
    BY <2>1, <2>2
<1>10. Accepted' = Accepted \cup {order}
  <2>1. \A id \in OrderIds : accepts'[id] > 0 <=> accepts[id] > 0 \/ id = order.id
    BY <1>6, <1>7, <1>8
  <2>2. \A id \in OrderIds : accepts[id] > 0 => rows'[id] = rows[id]
    BY <1>6
  <2> QED
    BY <1>6, <2>1, <2>2 DEF Accepted
<1>11. /\ (Seen.book)' = ApplyOrder(Seen.book, order).book
       /\ (logs \o Seen.logs)' = (logs \o Seen.logs) \o ApplyOrder(Seen.book, order).logs
  BY <1>2, <1>3, <1>5
<1> QED
  BY <1>9, <1>10, <1>11, AtomicCalls DEF Atomic!Submit, Atomic!Becomes, Accepted

\* An order refused is not seen.
LEMMA RefuseOrderUnseen ==
    ASSUME Structure, Accounts, NEW order \in Orders, RefuseOrder(order)
    PROVE  StaysSeen
<1>1. Receive(order)
  BY DEF RefuseOrder
<1>2. \A id \in OrderIds : accepts[id] > 0 => rows'[id] = rows[id]
  BY <1>1, StoredRows DEF Accounts
<1>3. Accepted' = Accepted
  BY <1>2, SameAccepted DEF RefuseOrder, auxVars
<1>4. Now' = Now /\ taker' = taker /\ logs' = logs
  BY DEF RefuseOrder, bookVars, Now
<1> QED
  BY <1>3, <1>4 DEF StaysSeen, Seen

\* A cancellation is one of the atomic book, or finds nothing and is not seen.
LEMMA CancelAtomic ==
    ASSUME Structure, Accounts, FiniteDepths, NEW order \in Orders, Cancel(order), Structure'
    PROVE  StaysSeen \/ Atomic!Cancel(order)
<1> DEFINE r == CancelOrder(Now, order)
<1>1. Receive(order) /\ taker = NoOrder /\ taker' = NoOrder
  BY DEF Cancel, Receive, Idle
<1>2. \A id \in OrderIds : accepts[id] > 0 => rows'[id] = rows[id]
  BY <1>1, StoredRows DEF Accounts
<1>3. Accepted' = Accepted
  BY <1>2, SameAccepted DEF Cancel, auxVars
<1>4. Seen.book = Now /\ logs \o Seen.logs = logs
  BY <1>1, SeenIdle
<1>5. Seen.book' = Now' /\ (logs \o Seen.logs)' = logs'
  <2>1. Seen' = [book |-> Now', logs |-> << >>]
    BY <1>1 DEF Seen
  <2>2. logs' \o << >> = logs'
    <3>1. logs' \in Seq(Logs)
      BY DEF Structure, VariablesTyped
    <3> QED
      BY <3>1
  <2> QED
    BY <2>1, <2>2
<1>6. /\ depths' = r.book.depths /\ logSeq' = r.book.logSeq /\ tradeSeq' = tradeSeq
      /\ logs' = logs \o r.logs
  BY DEF Cancel, Now
<1>7. r.book.tradeSeq = tradeSeq /\ IsOrderBook(r.book)
  <2>1. IsOrderBook(Now)
    BY NowIsBook
  <2>2. IsOrderBook(r.book)
    BY <2>1, CancelEffects
  <2>3. r.book.tradeSeq = tradeSeq
    BY DEF CancelOrder, Now
  <2> QED
    BY <2>2, <2>3
<1>8. Now' = r.book
  <2> HIDE DEF r
  <2>1. r.book = [depths |-> r.book.depths, logSeq |-> r.book.logSeq,
                  tradeSeq |-> r.book.tradeSeq]
    BY <1>7 DEF IsOrderBook, IsBook
  <2>2. Now' = [depths |-> depths', logSeq |-> logSeq', tradeSeq |-> tradeSeq']
    BY DEF Now
  <2> QED
    BY <1>6, <1>7, <2>1, <2>2
<1>9. CASE Entry(Now, order) = {}
  <2>1. r = [book |-> Now, logs |-> << >>]
    BY <1>9 DEF CancelOrder
  <2>2. logs \o << >> = logs
    BY DEF Structure, VariablesTyped
  <2> HIDE DEF r
  <2>3. Now' = Now /\ logs' = logs
    BY <1>6, <1>8, <2>1, <2>2
  <2> QED
    BY <1>3, <1>4, <1>5, <2>3 DEF StaysSeen
<1>10. CASE Entry(Now, order) # {}
  <2>1. /\ (Seen.book)' = CancelOrder(Seen.book, order).book
        /\ (logs \o Seen.logs)' = (logs \o Seen.logs) \o CancelOrder(Seen.book, order).logs
    <3> HIDE DEF r
    <3>1. Seen.book' = r.book /\ (logs \o Seen.logs)' = logs \o r.logs
      BY <1>5, <1>6, <1>8
    <3>2. CancelOrder(Seen.book, order) = r
      BY <1>4 DEF r
    <3> QED
      BY <1>4, <3>1, <3>2
  <2>2. Atomic!Entry(Seen.book, order) # {}
    BY <1>4, <1>10, AtomicRules
  <2> QED
    BY <1>3, <2>1, <2>2, AtomicCalls DEF Atomic!Cancel, Atomic!Becomes, Accepted
<1> QED
  BY <1>9, <1>10

\* An iteration is not seen.
LEMMA MatchMakerUnseen ==
    ASSUME Structure, BookSound, MatchMaker
    PROVE  StaysSeen
<1> DEFINE f == BestMaker
           z == Min({Wanted, f.size})
           c == Traded(Now, taker, f, z)
           u == Charged(taker, f, z)
           new == TurnLogs(Now, taker, f, z)
<1>1. /\ Turn(Now, taker, f, z)
      /\ Now' = c /\ taker' = u /\ logs' = logs \o new
  BY IterationIsTurn DEF BookSound
<1>2. IsTaker(taker) /\ taker # NoOrder
  BY <1>1, TakersAreNoNoOrder DEF Turn
<1>3. IsOrderBook(c) /\ IsTaker(u)
  <2> HIDE DEF f, z
  <2> QED
    BY <1>1, TurnKeeps
<1>4. u # NoOrder
  <2> HIDE DEF u
  <2> QED
    BY <1>3, TakersAreNoNoOrder
<1>5. Complete(c, u).book = Complete(Now, taker).book
  <2> HIDE DEF f, z
  <2> QED
    BY <1>1, TurnBook
<1>6. Complete(Now, taker).logs = new \o Complete(c, u).logs
  <2> HIDE DEF f, z
  <2> QED
    BY <1>1, TurnLogsFirst
<1> HIDE DEF c, u, new
<1>7. Seen = Complete(Now, taker) /\ Seen' = Complete(c, u)
  <2>1. Seen' = Complete(Now', taker')
    BY <1>1, <1>4 DEF Seen
  <2> QED
    BY <1>1, <1>2, <2>1, SeenBusy
<1>8. (logs \o new) \o Complete(c, u).logs = logs \o (new \o Complete(c, u).logs)
  <2> DEFINE rest == Complete(c, u).logs
  <2>1. IsSequence(logs)
    BY SequenceOver DEF Structure, VariablesTyped
  <2>2. IsSequence(new)
    BY TurnLogsCount DEF new
  <2>3. IsSequence(rest)
    BY <1>3, CompleteTellsWho
  <2> DEFINE S == Range(logs) \cup Range(new) \cup Range(rest)
  <2>4. logs \in Seq(S) /\ new \in Seq(S) /\ rest \in Seq(S)
    BY <2>1, <2>2, <2>3, SeqMonotonic DEF IsSequence
  <2> HIDE DEF S, rest
  <2>5. (logs \o new) \o rest = logs \o (new \o rest)
    BY <2>4, ConcatAssociative
  <2> QED
    BY <2>5 DEF rest
<1>9. (logs \o Seen.logs)' = logs \o Seen.logs
  BY <1>1, <1>6, <1>7, <1>8
<1>10. Accepted' = Accepted
  BY DEF MatchMaker, Accepted
<1> QED
  BY <1>5, <1>7, <1>9, <1>10 DEF StaysSeen

\* Neither is the end of a call.
LEMMA CallEndsUnseen ==
    ASSUME Structure, BookSound, Rest \/ Finish
    PROVE  StaysSeen
<1> DEFINE log == ClosingLog(logSeq + 1, taker)
<1>1. /\ LoopOver /\ taker # NoOrder /\ taker' = NoOrder
      /\ logs' = Append(logs, log) /\ logSeq' = logSeq + 1 /\ tradeSeq' = tradeSeq
      /\ depths' = IF Rests(taker) THEN [depths EXCEPT ![taker.side] = Add(@, taker)]
                                   ELSE depths
  BY DEF Rest, Finish, LoopOver
<1>2. IsOrderBook(Now) /\ IsTaker(taker) /\ Unserved(Now, taker)
  BY <1>1, NowIsBook, TakerIs, OverIsUnserved DEF BookSound
<1>3. Now' = Closed(Now, taker)
  BY <1>1 DEF Now, Closed
<1>4. Now.logSeq = logSeq
  BY DEF Now
<1>5. Complete(Now, taker) = [book |-> Closed(Now, taker), logs |-> <<log>>]
  BY <1>2, <1>4, NothingLeft
<1> HIDE DEF log
<1>6. Seen = Complete(Now, taker) /\ Seen' = [book |-> Now', logs |-> << >>]
  BY <1>1, SeenBusy DEF Seen
<1>7. IsSequence(logs)
  BY SequenceOver DEF Structure, VariablesTyped
<1>8. Append(logs, log) = logs \o <<log>> /\ Append(logs, log) \o << >> = Append(logs, log)
  <2>1. Append(logs, log) = logs \o <<log>>
    BY <1>7, AppendConcat
  <2>2. IsSequence(Append(logs, log))
    BY <1>7, AppendSequence
  <2>3. Append(logs, log) \o << >> = Append(logs, log)
    BY <2>2, ConcatEmptySeq DEF IsSequence
  <2> QED
    BY <2>1, <2>3
<1>9. Seen.book' = Seen.book
  BY <1>3, <1>5, <1>6
<1>10. (logs \o Seen.logs)' = logs \o Seen.logs
  BY <1>1, <1>5, <1>6, <1>8
<1>11. Accepted' = Accepted
  BY DEF Rest, Finish, Accepted, auxVars
<1> QED
  BY <1>9, <1>10, <1>11 DEF StaysSeen

\* Nor a stop of the process.
LEMMA NothingMoves ==
    ASSUME DivideByZero \/ Over \/ UNCHANGED vars
    PROVE  StaysSeen
<1>1. UNCHANGED <<rows, depths, logSeq, tradeSeq, taker, logs, accepts>>
  BY DEF DivideByZero, Over, vars, bookVars, auxVars
<1> QED
  BY <1>1 DEF StaysSeen, Seen, Now, Accepted

\* Every step is a step of the atomic book or a stutter.
LEMMA NextAtomic ==
    ASSUME IdsWithinWindow, Structure, Structure', Accounts, BookSound, [Next]_vars
    PROVE  [Atomic!Next]_(Atomic!vars)
<1>1. ASSUME NEW order \in Orders, StartOrder(order)
      PROVE  Atomic!Next
  BY <1>1, StartOrderAtomic, AtomicOrders DEF Atomic!Next
<1>2. ASSUME NEW order \in Orders, RefuseOrder(order)
      PROVE  UNCHANGED Atomic!vars
  BY <1>2, RefuseOrderUnseen, AtomicVars
<1>3. ASSUME NEW order \in Orders, Cancel(order)
      PROVE  Atomic!Next \/ UNCHANGED Atomic!vars
  BY <1>3, CancelAtomic, AtomicVars, AtomicOrders DEF BookSound, Atomic!Next
<1>4. CASE MatchMaker
  BY <1>4, MatchMakerUnseen, AtomicVars
<1>5. CASE Rest \/ Finish
  BY <1>5, CallEndsUnseen, AtomicVars
<1>6. CASE DivideByZero \/ Over \/ UNCHANGED vars
  BY <1>6, NothingMoves, AtomicVars
<1> QED
  BY <1>1, <1>2, <1>3, <1>4, <1>5, <1>6 DEF Next, CallStep

\* While the ids are within the first span of the window, the loop implements
\* the atomic book: to its callers an order is matched in one step, against
\* the makers it crosses by price and then by id, at most once, whatever the
\* messages and however many iterations the loop takes.
THEOREM LoopIsAtomic ==
    ASSUME IdsWithinWindow
    PROVE  Spec => ImplementsAtomicBook
<1>1. Init => Atomic!Init /\ BookSound
  BY InitAtomic, InitSound
<1>2. Structure /\ Accounts /\ BookSound /\ [Next]_vars => BookSound'
  BY NextSound
<1>3. Structure /\ Structure' /\ Accounts /\ BookSound /\ [Next]_vars
         => [Atomic!Next]_(Atomic!vars)
  BY NextAtomic
<1>4. Spec => [](Structure /\ Accounts)
  BY AccountsCorrect
<1> QED
  BY <1>1, <1>2, <1>3, <1>4, PTL DEF Spec, ImplementsAtomicBook, Atomic!Spec

=============================================================================
