------------------------------ MODULE Exchange ------------------------------
(***************************************************************************)
(* The life of an order from the request to the last bill: service/        *)
(* order_service.go and account_service.go, rest/order_controller.go, and  *)
(* the executors of worker/, composed with the matching rules.             *)
(*                                                                         *)
(* A request checks the balance, puts it on hold and inserts the order in  *)
(* one transaction, and then writes it to the order topic; the engine      *)
(* turns it into logs, the fill maker logs into fills, ExecuteFill fills   *)
(* into bills and the new state of the order's row, ExecuteBill bills into *)
(* balances.  A transaction that locks a row is one step.                  *)
(***************************************************************************)
EXTENDS Matching

CONSTANTS
    Placed,         \* who may place which order: of each id [user, order]
    Balances,       \* available at first: of each user and currency
    Limit,          \* fills, and bills, that one transaction settles (100)
    MaxTroubles     \* bound: cancellations, submissions lost or repeated, status
                    \* updates and announcements lost, taken together

Users == {Placed[id].user : id \in OrderIds}
Currencies == {"base", "quote"}
Accounts == Users \X Currencies

ASSUME ExchangeAssumption ==
    /\ IsFiniteSet(OrderIds)
    /\ \A id \in OrderIds : Placed[id].order \in Orders /\ Placed[id].order.id = id
    /\ Balances \in [Accounts -> Nat]
    /\ Limit \in Nat \ {0} /\ MaxTroubles \in Nat

VARIABLES
    accounts,   \* g_account: available and hold
    rows,       \* g_order: status, filled size and executed value
    bills,      \* g_bill: the unsettled bills of each account, by id
    fills,      \* g_fill: the unsettled fills of each order, by id
    checked,    \* requests that have found the balance sufficient
    committed,  \* orders committed and not yet written to the topic
    topic,      \* messages the engine has not handled
    engine,     \* its book and window
    logs,       \* logs the fill maker has not read
    fillWork,   \* orders in the channels of the fill executor
    billWork,   \* accounts in those of the bill executor
    troubles,   \* so far
    missed      \* auxiliary: orders the engine will never apply

requestVars == <<checked, committed>>
engineVars == <<engine, missed>>
vars == <<accounts, rows, bills, fills, requestVars, topic, engineVars, logs,
          fillWork, billWork, troubles>>

NoRow == [status |-> "none", filled |-> 0, executed |-> 0]
Final == {"filled", "cancelled"}

Init ==
    /\ accounts = [a \in Accounts |-> [available |-> Balances[a], hold |-> 0]]
    /\ rows = [id \in OrderIds |-> NoRow]
    /\ bills = [a \in Accounts |-> << >>]
    /\ fills = [id \in OrderIds |-> << >>]
    /\ checked = {} /\ committed = {}
    /\ topic = << >> /\ logs = << >>
    /\ engine = [book |-> EmptyBook, window |-> {}, seen |-> {}]
    /\ fillWork = {} /\ billWork = {}
    /\ troubles = 0 /\ missed = {}

Order(id) == Placed[id].order
Side(id) == Order(id).side

\* What an order puts on hold, and where.
HoldAccount(id) == <<Placed[id].user, IF Side(id) = "buy" THEN "quote" ELSE "base">>
GainAccount(id) == <<Placed[id].user, IF Side(id) = "buy" THEN "base" ELSE "quote">>
HoldSize(id) == IF Side(id) = "buy" THEN Order(id).funds ELSE Order(id).size

\* What a row says is left of it.
Rest(id, row) == HoldSize(id) - (IF Side(id) = "buy" THEN row.executed ELSE row.filled)

-----------------------------------------------------------------------------
(* Requests. *)

\* HasEnoughBalance reads the account outside the transaction.
CheckBalance(id) ==
    /\ rows[id].status = "none"
    /\ id \notin checked
    /\ HoldSize(id) > 0
    /\ accounts[HoldAccount(id)].available >= HoldSize(id)
    /\ checked' = checked \cup {id}
    /\ UNCHANGED <<accounts, rows, bills, fills, committed, topic,
                   engineVars, logs, fillWork, billWork, troubles>>

\* The rest of HoldBalance, AddOrder and CommitTx.
HoldBalance(id) ==
    /\ id \in checked
    /\ checked' = checked \ {id}
    /\ committed' = committed \cup {id}
    /\ accounts' = [accounts EXCEPT ![HoldAccount(id)] =
                      [available |-> @.available - HoldSize(id),
                       hold      |-> @.hold + HoldSize(id)]]
    /\ rows' = [rows EXCEPT ![id].status = "new"]
    /\ UNCHANGED <<bills, fills, topic, engineVars, logs, fillWork,
                   billWork, troubles>>

\* submitOrder: the topic gets the message once, or, the writer trying again,
\* twice, or not at all, which is only logged.
SubmitOrder(id, copies) ==
    /\ id \in committed
    /\ copies = 1 \/ troubles < MaxTroubles
    /\ troubles' = IF copies = 1 THEN troubles ELSE troubles + 1
    /\ committed' = committed \ {id}
    /\ topic' = topic \o [i \in 1 .. copies |-> [order |-> Order(id), cancel |-> FALSE]]
    /\ missed' = IF copies = 0 THEN missed \cup {id} ELSE missed
    /\ UNCHANGED <<accounts, rows, bills, fills, checked, engine, logs,
                   fillWork, billWork>>

\* CancelOrder of the controller, for any order that is in the database.
RequestCancel(id) ==
    /\ rows[id].status # "none"
    /\ troubles < MaxTroubles
    /\ troubles' = troubles + 1
    /\ topic' = Append(topic, [order |-> Order(id), cancel |-> TRUE])
    /\ UNCHANGED <<accounts, rows, bills, fills, checked, committed, engineVars,
                   logs, fillWork, billWork>>

-----------------------------------------------------------------------------
(* The engine and the fill maker. *)

HandleMessage ==
    /\ topic # << >>
    /\ topic' = Tail(topic)
    /\ LET message == Head(topic)
           id      == message.order.id
           result  == Handle(engine.book, engine.window, message)
       IN  /\ engine' = [book |-> result.book, window |-> result.window,
                         seen |-> engine.seen \cup {id}]
           /\ logs' = logs \o result.logs
           /\ missed' = IF message.cancel /\ id \notin engine.seen
                        THEN missed \cup {id} ELSE missed
    /\ UNCHANGED <<accounts, rows, bills, fills, requestVars, fillWork, billWork,
                   troubles>>

Fill(log) == [done |-> FALSE, size |-> log.size, price |-> log.price, reason |-> ""]
DoneFill(log) == [done |-> TRUE, size |-> log.remaining, price |-> 0,
                  reason |-> log.reason]

\* What is lost of updates and announcements; the error is only logged.
Announce(announced) ==
    IF announced THEN UNCHANGED troubles
    ELSE troubles < MaxTroubles /\ troubles' = troubles + 1

FirstOf(log) == IF log.kind = "match" THEN log.taker ELSE log.id

\* OnMatchLog and OnDoneLog of the fill maker.  The change stream announces the
\* first row of an insert to the executor, and these may not be the first rows
\* of their batch.
MakeFills(announced) ==
    /\ logs # << >>
    /\ logs' = Tail(logs)
    /\ LET log == Head(logs)
       IN  \/ /\ log.kind = "match"
              /\ fills' = [fills EXCEPT ![log.taker] = Append(@, Fill(log)),
                                        ![log.maker] = Append(@, Fill(log))]
           \/ /\ log.kind = "done"
              /\ fills' = [fills EXCEPT ![log.id] = Append(@, DoneFill(log))]
    /\ fillWork' = IF announced THEN fillWork \cup {FirstOf(Head(logs))} ELSE fillWork
    /\ UNCHANGED <<accounts, rows, bills, requestVars, topic, engineVars, billWork,
                   troubles>>

\* OnOpenLog: that the update has failed goes unnoticed.
UpdateOrderStatus(updated) ==
    /\ logs # << >>
    /\ Head(logs).kind = "open"
    /\ logs' = Tail(logs)
    /\ rows' = IF updated /\ rows[Head(logs).id].status = "new"
               THEN [rows EXCEPT ![Head(logs).id].status = "open"] ELSE rows
    /\ Announce(updated)
    /\ UNCHANGED <<accounts, bills, fills, requestVars, topic, engineVars, fillWork,
                   billWork>>

-----------------------------------------------------------------------------
(* Settlement. *)

\* Variant: the value of a fill is taken from the price of the order.
ValueOfOrder(id, fill) == fill.size * Order(id).price

Value(id, fill) == fill.size * fill.price

Bill(available, hold) == [available |-> available, hold |-> hold]

\* One fill that is a trade, in the loop of ExecuteFill.
AfterTrade(id, acc, fill) ==
    LET value == Value(id, fill)
        buys  == Side(id) = "buy"
    IN  [acc EXCEPT
           !.row.filled = @ + fill.size,
           !.row.executed = @ + value,
           !.gain = Append(@, Bill(IF buys THEN fill.size ELSE value, 0)),
           !.spend = Append(@, Bill(0, IF buys THEN -value ELSE -fill.size)),
           !.settled = @ + 1]

\* Variant: what is left of a filled order is not given back.
AfterDoneKeeps(id, acc, fill) ==
    LET rest == Rest(id, acc.row)
    IN  [acc EXCEPT
           !.row.status = fill.reason,
           !.spend = IF rest > 0 /\ fill.reason = "cancelled"
                     THEN Append(@, Bill(rest, -rest)) ELSE @,
           !.settled = @ + 1]

\* The fill of a done log: the row is final and the rest is given back.
AfterDone(id, acc, fill) ==
    LET rest == Rest(id, acc.row)
    IN  [acc EXCEPT
           !.row.status = fill.reason,
           !.spend = IF rest > 0 THEN Append(@, Bill(rest, -rest)) ELSE @,
           !.settled = @ + 1]

\* Nothing is looked at after a done fill.
AfterFill(id, acc, fill) ==
    IF acc.row.status \in Final THEN acc
    ELSE IF fill.done THEN AfterDone(id, acc, fill)
    ELSE AfterTrade(id, acc, fill)

\* The loop of ExecuteFill over the fills s.
AfterFills(id, row, s) ==
    FoldLeft(LAMBDA acc, fill : AfterFill(id, acc, fill),
             [row |-> row, gain |-> << >>, spend |-> << >>, settled |-> 0], s)

\* One transaction takes the first Limit rows, in order of their ids.
Batch(s) == SubSeq(s, 1, IF Len(s) < Limit THEN Len(s) ELSE Limit)
UnsettledFills(id) == Batch(fills[id])
UnsettledBills(a) == Batch(bills[a])

\* The worker of the fill executor skips an order in a final status.
Skipped(id) == rows[id].status \in Final

\* One turn of that worker: ExecuteFill settles the fills of the order.
ExecuteFill(id, announced) ==
    /\ id \in fillWork
    /\ fillWork' = fillWork \ {id}
    /\ LET end == AfterFills(id, rows[id], UnsettledFills(id))
       IN  IF Skipped(id) \/ fills[id] = << >>
           THEN announced /\ UNCHANGED <<rows, bills, fills, billWork>>
           ELSE /\ rows' = [rows EXCEPT ![id] = end.row]
                /\ bills' = [bills EXCEPT ![GainAccount(id)] = @ \o end.gain,
                                          ![HoldAccount(id)] = @ \o end.spend]
                /\ fills' = [fills EXCEPT ![id] = SubSeq(@, end.settled + 1, Len(@))]
                /\ billWork' = IF announced
                               THEN billWork \cup {a \in Accounts : bills'[a] # bills[a]}
                               ELSE billWork
    /\ Announce(announced)
    /\ UNCHANGED <<accounts, requestVars, topic, engineVars, logs>>

\* The account after the bills of one transaction.
AfterBills(account, s) ==
    [available |-> account.available + SumFunction([i \in DOMAIN s |-> s[i].available]),
     hold      |-> account.hold + SumFunction([i \in DOMAIN s |-> s[i].hold])]

\* ExecuteBill, called by the worker of the bill executor.
ExecuteBill(a) ==
    /\ a \in billWork
    /\ billWork' = billWork \ {a}
    /\ accounts' = [accounts EXCEPT ![a] = AfterBills(@, UnsettledBills(a))]
    /\ bills' = [bills EXCEPT ![a] = SubSeq(@, Len(UnsettledBills(a)) + 1, Len(@))]
    /\ UNCHANGED <<rows, fills, requestVars, topic, engineVars, logs, fillWork, troubles>>

\* Variant: nobody looks for fills that have not been announced.
InspectFillsNever == FALSE /\ UNCHANGED vars

\* The inspectors, every second.
InspectFills ==
    /\ fillWork' = fillWork \cup {id \in OrderIds : fills[id] # << >>}
    /\ fillWork' # fillWork
    /\ UNCHANGED <<accounts, rows, bills, fills, requestVars, topic, engineVars, logs,
                   billWork, troubles>>

InspectBills ==
    /\ billWork' = billWork \cup {a \in Accounts : bills[a] # << >>}
    /\ billWork' # billWork
    /\ UNCHANGED <<accounts, rows, bills, fills, requestVars, topic, engineVars, logs,
                   fillWork, troubles>>

-----------------------------------------------------------------------------

\* Every request has been made and everything it led to has been settled, or
\* the balances do not allow another.
Over ==
    /\ checked = {} /\ committed = {} /\ topic = << >> /\ logs = << >>
    /\ \A id \in OrderIds : fills[id] = << >>
    /\ \A a \in Accounts : bills[a] = << >>
    /\ UNCHANGED vars

Requesting ==
    \E id \in OrderIds :
        \/ CheckBalance(id) \/ HoldBalance(id)
        \/ \E copies \in 0 .. 2 : SubmitOrder(id, copies)
        \/ RequestCancel(id)

Settling ==
    \/ InspectBills \/ InspectFills
    \/ \E a \in Accounts : ExecuteBill(a)
    \/ \E done \in BOOLEAN :
          \/ MakeFills(done) \/ UpdateOrderStatus(done)
          \/ \E id \in OrderIds : ExecuteFill(id, done)
    \/ HandleMessage

Next == Requesting \/ Settling \/ Over

Spec == Init /\ [][Next]_vars

\* The engine, the fill maker, the inspectors and the workers do not all stop
\* while one of them has something to do; nothing is assumed of the requests.
FairSpec == Spec /\ WF_vars(Settling)

-----------------------------------------------------------------------------
(* Properties. *)

Live(id) == rows[id].status \notin Final \cup {"none"}

\* What an order keeps on hold in account a, as its row says.
HeldFor(id, a) == IF Live(id) /\ HoldAccount(id) = a THEN Rest(id, rows[id]) ELSE 0

\* What an account has on hold, with the bills to come, is exactly what the
\* rows of its live orders say is left of them.
HoldsCovered ==
    \A a \in Accounts :
        accounts[a].hold + SumFunction([i \in DOMAIN bills[a] |-> bills[a][i].hold]) =
            SumFunction([id \in OrderIds |-> HeldFor(id, a)])

\* What an account will have once its bills are settled.
Wealth(a) ==
    accounts[a].available + accounts[a].hold +
    SumFunction([i \in DOMAIN bills[a] |-> bills[a][i].available + bills[a][i].hold])

\* How much of a currency one fill moves.
Moved(fill, currency) ==
    IF fill.done THEN 0
    ELSE IF currency = "base" THEN fill.size ELSE fill.size * fill.price

\* What the fills of an order that are not settled will bring its user, and
\* what they will take.
Coming(id, currency) ==
    LET moved == SumFunction([i \in DOMAIN fills[id] |-> Moved(fills[id][i], currency)])
    IN  IF GainAccount(id)[2] = currency THEN moved ELSE -moved

\* No currency is made or lost: what is in the accounts and in the bills to
\* come is what there was, but for trades of which one side is settled.
MoneyConserved ==
    \A currency \in Currencies :
        SumFunction([user \in Users |-> Wealth(<<user, currency>>)])
        + SumFunction([id \in OrderIds |-> Coming(id, currency)])
        = SumFunction([user \in Users |-> Balances[<<user, currency>>]])

\* An order nothing is under way for: no message, log or fill.
Quiet(id) ==
    /\ id \notin committed
    /\ \A i \in DOMAIN topic : topic[i].order.id # id
    /\ \A i \in DOMAIN logs : IF logs[i].kind = "match"
                              THEN id \notin {logs[i].taker, logs[i].maker}
                              ELSE logs[i].id # id
    /\ fills[id] = << >>

\* When nothing is under way for an order, its row is live if and only if it
\* rests on the book, with what the row says is left, or was missed by the
\* engine: its submission was lost, or a cancellation overtook it.
RowsTellBook ==
    \A id \in OrderIds : rows[id].status # "none" /\ Quiet(id) =>
        LET rest == Entry(engine.book, Order(id))
        IN  /\ Live(id) <=> (rest # {} \/ id \in missed)
            /\ \A m \in rest : m.size = Order(id).size - rows[id].filled

\* Whatever was requested is settled in the end.
EverythingSettled ==
    <>[](/\ topic = << >> /\ logs = << >>
         /\ \A id \in OrderIds : fills[id] = << >>
         /\ \A a \in Accounts : bills[a] = << >>)

\* "no enough": an order is let in only if the balance covers it.
NoOverdraft == \A a \in Accounts : accounts[a].available >= 0

=============================================================================
