# A TLA+ verification of gitbitex-spot

gitbitex-spot is a spot exchange for digital assets: one Go process, started by
`main.go`, that takes orders over HTTP, matches them per product, settles the
trades in MySQL and pushes the market data to websocket clients.  Kafka carries
the orders and the logs of the matching engine, Redis keeps the engine's
snapshots and carries notifications.  This directory models the parts whose
correctness is hard to see from the code and hard to reach with a test.

Source lines are cited as `file:line` below `src/`.

## 1. The system

```
 POST/DELETE /orders            MySQL tables            websocket clients
        |                      ^      |     ^                 ^
  service.PlaceOrder ----------+      |     |                 |
  (order row + hold, one tx)          |     |            pushing/* (mirror of the book,
        |                             |     |             hub of subscriptions, clients)
        v  submitOrder                |     |                 ^
   order topic (Kafka) ---> matching.Engine ---> log topic (Kafka) ---> fill, trade, tick makers
                                 |   ^                                     |
                                 v   |                              fills, ticks, trades
                             snapshot (Redis)                              |
                                                     fill executor, bill executor (settlement)
                                                     woken by the binlog stream and by polling
```

| Component | Code | State | Operations | Hard because |
|---|---|---|---|---|
| Order book | `matching/order_book.go`, `window.go`, `log.go` | asks, bids, log and trade numbers, de-duplication window | ApplyOrder, CancelOrder, Snapshot, Restore | messages come more than once and in any order of ids; a call is a loop with four exits and three kinds of order |
| Matching engine | `matching/engine.go`, `redis_snapshot_store.go` | the book; four channels; the committer's number and batch; a pending snapshot; last saved offset | four goroutines: fetch, apply, commit, snapshot | crashes, replay, batches written twice or in part, memory shared between goroutines |
| Topics | `matching/kafka_*.go` | order topic, log topic | write, read, de-duplicate, stop at a gap | at-least-once delivery |
| Fill maker | `worker/fill_maker.go` | queue of fills; restart position is the last fill stored | log to fills; order New to Open | restart in the middle of a match |
| Settlement | `service/order_service.go`, `account_service.go`, `worker/*_executor.go` | accounts, bills, orders, fills | PlaceOrder (hold), ExecuteFill, ExecuteBill | several transactions per order, run by sharded workers, retried by pollers; a check outside the lock |
| Tick and trade makers | `worker/tick_maker.go`, `trade_maker.go` | last tick per granularity; queues | fold trades into ticks; insert trades | restart position taken from one of eleven rows |
| Mirror of the book | `pushing/order_book*.go` | depths by price, orders, log position | apply logs, snapshots, level-2 changes | snapshot and updates travel apart |
| Push hub, clients | `pushing/subscription.go`, `client.go` | subscriptions under a lock; queues of clients; level-2 state per client | subscribe, publish, close | a slow client, a closing client, a re-subscribing client |
| Order requests | `rest/order_controller.go` | none | commit, then write to Kafka | failure between the two |
| Everything else | `rest/*`, `models/*`, `utils`, `conf`, `main.go` | tables | single reads and writes, formatting | not hard: not modelled |

How they interact: the order book is called by one goroutine only, the applier;
engine goroutines talk over channels but share the bitmap of the window and read
the book's log number once without a lock; the engine and the workers meet only
in the log topic; workers and settlement meet only in MySQL; the pushing side
reads the log topic and the binlog.

What makes each correct:

* **order book**: price-time priority, nobody overfilled, the book never
  crossed, sizes conserved, one life cycle of logs per order, numbers without
  gaps, an order let in once, every call returns;
* **engine**: what is restored and replayed is what was there, the log topic
  never tells two stories, readers get every log once and in order (or, where a
  crash loses logs, an unbroken stretch of them), snapshots are consistent,
  committed and move forward, everything is committed in the
  end;
* **requests and settlement**: what an account holds is what its live orders
  have left, no money is made or lost, an order's row ends when the order does,
  no account is overdrawn, everything is settled in the end;
* **fill, tick and trade makers**: nothing is left out and nothing counted
  twice, whatever restarts;
* **mirror and level-2 clients**: the mirrored book is the book at its log
  position, also after a restart; a client that follows snapshot and updates
  sees the mirrored book, as deep as its snapshot went, is never taken back, and
  gets the snapshot it asked for;
* **hub**: no client can stop a publication, a dead client leaves, a new
  subscriber of the ticker is sent the last one.

## 2. The modules

| Module | Models |
|---|---|
| `Matching` | the rules as pure operators: orders PlaceOrder lets through, priority, crossing, the window, the logs, what a whole call of ApplyOrder or CancelOrder computes (`Complete`, stated without the loop) |
| `OrderBook` | `matching/order_book.go` one loop iteration per step, with the messages of the order topic as environment |
| `AtomicBook` | the abstract book: one step per order |
| `Mirror` | the pushing side's copy of the book as a function of the logs, composed with `OrderBook`, which writes them |
| `Engine` | `engine.go`: the four goroutines, their channels, Kafka, Redis and faults; a message is applied in one step (`Matching!Handle`) |
| `LogService` | the abstract engine: a log that follows the order topic and never crashes (`Spec`), and a weaker one whose readers may miss the first or the last logs but none in between (`LossySpec`); what a message and a book are, and what handling one does, are its constants |
| `Exchange` | the life of an order from the request to the last bill: requests, order topic, matching rules, fills, settlement |
| `LogWorkers` | fill, trade and tick makers: reader, channel, flusher, restart |
| `PushHub` | publishers, the hub's lock, reader and writer of each client |
| `Level2Client` | how one client follows the level-2 view of one product, beside its other products |
| `MCOrderBook`, `MCEngine`, `MCExchange`, `MCLogWorkers`, `MCLevel2` | instances for TLC (`PushHub` gets its values from the cfg) |
| `MatchingProofs` | lemmas about sums and sequences, about what a call does to each order, and about one turn of a call after the other |
| `OrderBookProofs` | theorems about the order book; it implements `AtomicBook` |
| `MirrorProofs` | theorems about the mirror |
| `EngineProofs` | theorems about the engine; it implements the weaker `LogService` |
| `LogWorkersProofs` | theorems about the three log workers |
| `ExchangeProofs` | theorems about requests, matching and settlement together |
| `PushHubProofs` | theorems about the hub |
| `Level2ClientProofs` | theorems about the level-2 client |

```
 Matching <--- OrderBook <--- Mirror <--- MCOrderBook      OrderBook implements AtomicBook
        ^----- Engine <--- MCEngine                        Engine implements LogService
        ^----- Exchange <--- MCExchange
 LogWorkers, PushHub, Level2Client stand alone
```

`OrderBook`, `Engine` and `Exchange` extend `Matching`.  The run `book_calls`
also ties the two views of a call together: the loop of `OrderBook` implements
`AtomicBook`, whose steps are the operators that `Engine` and `Exchange` use.
The numbered changes and the cut snapshots that `Level2Client` starts from are
those `Mirror` makes of the logs.

### Order book

An order is a record of its id, side, type, size, price and funds; a depth is a
set of such records, and `First` is what the iterator over the code's tree map
visits first.  Amounts are integers: a size counts the smallest units of the
base currency, a price is what one unit costs, so that the truncation of
funds / price (`order_book.go:144`) is integer division.

| Action | Code |
|---|---|
| `StartOrder`, `RefuseOrder` | ApplyOrder up to the loop: the window's verdict, the price given to a market order |
| `MatchMaker` | one pass of the loop that trades: size, charge, decrSize, match log, done log of an emptied maker |
| `DivideByZero` | `Funds.Div(price)` at price zero |
| `Rest`, `Finish` | after the loop: open log and add, or done log |
| `Cancel` | CancelOrder, which marks the window first |

`Complete` needs no loop to say the same thing: the makers that cross stand in
line, and each gets what is left once all ahead of it have been bought out.

The window (`window.go:103-133`) is modelled as it runs: `put` has a value
receiver, so of its effects only the bit in the shared bitmap stays.  It follows
that Min stays 0 and Max stays the initial capacity: an id up to the capacity is
refused when its bit is set, a larger id is never refused.

The environment hands over any message about any order at any time, more than
once if it likes: the order topic is written by concurrent requests after their
own commits (`rest/order_controller.go`), CancelOrder and CancelOrders can be
called at any time after the commit, and Kafka delivers at least once.  The one
thing that is fixed is the row of an order: all messages about an id agree on
the fields the book reads.

### Engine

| Action | Code |
|---|---|
| `Fetch` | runFetcher |
| `Apply`, `SendLog`, `TakeSnapshot` | runApplier: the two cases of its select, and the sends to `logCh` in between |
| `StartCommitter`, `TakeLog`, `StoreLogs`, `ApproveSnapshot` | runCommitter |
| `RequestSnapshot`, `MarshalSnapshot`, `SaveSnapshot`, `SaveSnapshotFails` | runSnapshots |
| `Crash`, `StoreLogsFails` | the process ends and starts again: `Restart` is NewEngine, restore and Start |
| `ExpireSnapshot` | the time to live in Redis |

`applied` is the local `orderOffset` of runApplier, which a restart sets to 0,
and `lastOffset` that of runSnapshots, which a restart sets to the restored
offset, as the code does.  A snapshot carries its orders and numbers by value
and its bitmap by reference: `Copy` leaves the bitmap out, `MarshalSnapshot`
takes the live one, and `SaveSnapshot` adds any of the bits set while encoding
was under way.  Storing a batch may repeat any first part of it (a retried write
whose acknowledgement was lost) and may fail half way (then the committer
panics).  Two auxiliary variables remember the first pass over the order topic:
`past`, the book after each message, and `journal`, the logs.

The Kafka topics have one partition: the readers of the code read partition 0
only.  The capacities of 32 of the snapshot channels are not reached (one
request in thirty seconds, and none while an approved snapshot waits); the model
bounds the snapshots on their way by `MaxSnapshots` instead.

### Mirror

The stream that keeps the mirror has no input but the logs and no choice, so
`Mirror` has no actions: `After(NewMirror, logs)` is the mirror after the logs,
`ApplyLog` one turn of `runApplier`, `SaveOrder` the function of that name with
its price levels and its two panics (`lost`).  The properties compare it with
the book of `OrderBook` at every step of every call.  `SnapshotLevel2` has the
first `SnapshotLevels` levels of each side in the order of the depth's iterator
(`VisitedBefore`; 1000 in the code), so that what lies beyond is not in the view of
a client until it changes: `ChangesTellLevels` says exactly that.  `Restore` puts
the orders of a snapshot back one by one, and `Resumed` reads on after the log of the last
*change*, as the code does: logs after it that changed nothing are read again.

### Exchange

| Action | Code |
|---|---|
| `CheckBalance`, `HoldBalance` | `HasEnoughBalance`, which reads outside the transaction, and the rest of `HoldBalance` with `AddOrder` and the commit |
| `SubmitOrder`, `RequestCancel` | `submitOrder` after the commit: written once, twice or not at all; the cancellation of any order that has a row |
| `HandleMessage` | the engine, one message in one step |
| `MakeFills`, `UpdateOrderStatus` | the fill maker's three observers |
| `ExecuteFill`, `ExecuteBill` | one turn of a worker of each executor: one transaction |
| `InspectFills`, `InspectBills` | the pollers |

A row that a transaction locks is changed in one step.  The workers of an
executor share out orders, or users, so that no two of them work on the same
one; of what waits in their channels only the set of orders or accounts is kept,
since a second turn finds nothing left to settle.  `ExecuteFill` takes the first
`Limit` fills, stops after a done fill, and leaves later ones unsettled.  The
change stream announces the first row of an insert only: which of the rows that
is, and whether the announcement arrives, is open in `MakeFills`.  `troubles`
counts what the environment may do to an order (a cancellation, a submission
lost or repeated, a lost update or announcement) and bounds it.  The fill maker
itself is in order here; its restarts are in `LogWorkers`.  `missed` is the
auxiliary set of orders the engine will never apply: the submission was lost, or
a cancellation came first and marked the window.

### Log workers

`kind` is chosen at the start and says which of the three workers this is.  They
share the reader's loop and the flusher's, and differ in the rows a log makes
(`Parts`: two fills for a match and one for a done log, a trade, a tick per
granularity), in the key of the table (`SameRow`) and in the row they resume
after (`ResumeAfter`): the last fill, the last trade, or, of the ticks, that of
the longest granularity, because the loop of `NewTickMaker` keeps the last it
finds.  A tick is a record of the logs it has counted, from which the code's
prices and volume follow.  `TickTime` gives the tick a log falls into: the engine's
clock at the time of the match, cut off to each granularity.

### Push hub

| Action | Code |
|---|---|
| `Produce` | a stream has a message; the ticker is stored first |
| `LockToPublish`, `SendTo`, `Published` | `publish` under the read lock, one blocking send per client |
| `Request`, `ReadFails`, `BadMessage` | `runReader` |
| `Deliver`, `WriteFails`, `CloseConn` | `runWriter` and its deferred calls |
| `LockClient`, `LockHub`, `Subscribe`, `Unsubscribe`, `CloseChannel`, `CloseOver` | the client's mutex, the hub's lock, and what is done under both |
| `ReadLastTicker`, `QueueLastTicker` | the last ticker for a new subscriber |

The write lock is taken in two steps because a waiting `Lock` of Go's RWMutex
keeps new readers out: `pending` is the goroutine that waits.

### Level-2 client

`ChangeBook`, `Publish` and `RenewSnapshot` are the applier of
`order_book_stream.go`; `Subscribe`, `LookAtQueue`, `AskForSnapshot` and
`Unsubscribe` the reader of the client; `ForwardChange` and `WriteToPeer` its
writer; and the branches of `runL2ChangeWriter` are one action each, in the order
of the code.  `touches` fixes the level each change sets and whether it leaves
anything there, so that the book at a number (`BookAt`) is told by the last change
of each level; `SnapshotAt` leaves out the levels that have `SnapshotLevels` better
ones on their side.  `view` is what the peer makes of the messages: a snapshot
replaces, an update is put over what is there.  A message carries its number here,
which the peer of the code does not see; only the properties look at it, and at
the snapshot the view began with (`from`).

`l2ChangeCh` is one queue for all the products of a client (`client.go:42`).  The
state of the level-2 writer is kept by product, so another product's entry does
nothing to this one's (`TakeOther`); but the three tests of the queue's length
(`client.go:208,218,270`) count it.  `OtherProduct` puts such an entry into the queue
at any moment.

## 3. The runs

| Run | Question | Instance |
|---|---|---|
| `book_calls` | do all calls keep the book, its logs and the mirror right? is the loop price-time priority? | 3 ids, prices 0 to 2, sizes 1 and 2, a budget of 3, window of 3, 3 messages, 1 level of a side in a level-2 snapshot |
| `book_beyond_window` | is an id beyond the window let in once? **No** | window of 2, 2 messages |
| `engine_replay` | do crash, replay of the whole topic and repeated writes show in the log, and is everything committed? | ids in the window, no snapshots, 2 faults, fairness |
| `engine_snapshots` | are snapshots right, what is replayed from them, and what readers get, and does none wait for ever? | ids beyond the window, 2 snapshots on their way, 1 fault, expiry, late committer, fairness of the committing goroutines |
| `engine_early_snapshot` | are the logs behind a saved snapshot stored? **No** | ids in the window, 1 snapshot, no faults |
| `engine_shared_window` | is a saved window of the moment of its snapshot? **No** | the same |
| `exchange` | do accounts, rows, fills and book agree, and is everything settled? | 2 users, a limit sell and a limit and a market buy the buyer can only pay one at a time, 2 rows per transaction, 1 trouble, fairness |
| `overdraft` | does an account never go below zero? **No** | the same without troubles |
| `workers` | does each worker store everything once? | 9 messages, of which 4 are repetitions; 3 granularities, batches of 3, 3 faults, fairness |
| `hub` | can a publication or a dying client be held up? is anything left behind? | 1 client, 2 channels, a queue of 1, 2 messages per channel, 3 requests, fairness |
| `level2` | does the peer see the book, and the snapshots it asks for? | 2 levels of one side of which a snapshot has room for 1, 4 changes, snapshot renewed after 2, updates of 2, 3 requests, 1 entry of another product, fairness |
| `l2_old_changes` | does an update after a snapshot bring only newer changes? **No** | the same |

The bounds are enough for the cases that matter.

*Book.*  Three orders make two makers and a taker, or one maker hit twice, and
with two prices above zero the better and the older maker can be different; sizes
1 and 2 give partial and whole fills on either side, and a budget of 3 gives a market
buy that comes out even, one with a leftover too small for another unit and one that
meets a maker at price zero; the third message may also cancel or repeat.  Longer
histories are the theorems' (section 4), which are about every number of messages.
With one level of a side in a snapshot, the second level is already cut off.

*Engine.*  Channels and batches of two fill up and empty, messages make one to
three logs each so that a batch ends inside a call, and two faults crash the
engine during a recovery or after a repeated write.  The topics are: a maker hit
and then cancelled, a message that comes twice, and a market buy that empties
the book (followed, in `engine_early_snapshot`, by a cancellation that is too
late).  `engine_replay` and `engine_snapshots` differ in their ids on purpose:
with ids inside the window a snapshot may carry bits of messages after its
offset, because it shares the bitmap of the running window
(`order_book.go:224`), and a replay from it would refuse orders; with ids beyond
it the window plays no part, and what remains to be checked of snapshots is
checked; `engine_shared_window` shows the bitmap itself.  Without snapshots `SnapshotDelta` is larger than the topic, as it is
for the first thousand messages of the code.  A committer that starts late
(`engine.go:165`, `PromptStart = FALSE`) may drop logs that were never stored;
`engine_replay` takes the case in which it starts in time, which the code does not
guarantee, and asks there for every log; `engine_snapshots` asks of any start that
what readers get is an unbroken stretch of the log.

*Exchange.*  Three orders give an order filled at once, one filled in parts by
two takers, and one that finds nothing; the buyer's funds cover one order, then
another after the first has been given something back.  A transaction of two
rows leaves a third fill for the next.

*Workers.*  A match has two fills (or three ticks) and a batch three rows, so
that batches end inside a match; three faults are a crash between the rows of a
log, a repeated insert and another crash.

*Hub and level-2.*  A queue of one is full after one message, which two
publishers and the reader of the client compete for.  One client is enough for
the lock cycle: reader and writer are two goroutines already, and a second
client would only add more of the same waiting.  Four changes and three requests
are a subscription, a change missed outside it, a second subscription while
changes of the first are still queued, and a gap.  The one course of the book puts
a level, a better one in front of it, changes the first out of a snapshot's sight
and takes the better one away, so that a snapshot of any moment cuts something else;
that the steps do not depend on the levels makes one course enough for them.  One
entry of another product stands at every place of the queue.

### What the failing runs show

1. `book_beyond_window` (`window.go:119`): the window never slides.  Orders
   after the first 10000 have no protection against a second delivery.
2. `engine_early_snapshot` (`engine.go:201`): a snapshot is approved when its
   logs are gathered, not when they are stored.
3. `engine_shared_window` (`order_book.go:224`): the window in a snapshot is the
   live one until it is encoded, so that a snapshot is not of one moment
   (`engine.go:58`); restored from it, the engine refuses an order it had not yet
   seen at the snapshot's offset.
4. `overdraft` (`account_service.go:92`): the balance is checked outside the
   transaction that locks the account; two requests together overdraw it.
5. `l2_old_changes` (`client.go:187`): a snapshot asked for by a second
   subscription does not clear the changes held back for an update.

### What the properties except

A property that the code breaks in one known way is stated around it, so that
everything else is still checked; the exception is an auxiliary variable or a
named operator, and the model does what the code does.  The first seven are defects
a reader of the code should know of: they contradict no line of its comments, which
the failing runs quote, but something is lost, repeated or stuck.

* **A torn match** (`fill_maker.go:57`; `NothingLeftOut`, `CountedOnce` and `torn`):
  when a batch ends between the two fills of a match and the worker then restarts,
  it resumes *after* the match, and the second fill is lost: that side of the trade
  is never settled.  The tick maker resumes after the longest granularity, so that
  the shorter ones count the torn match twice (`tick_maker.go:54`).
* **A clogged queue** (`subscription.go:64`; `PublishReturns`, `DeadClientLeaves` and
  `Clogged`): `writeCh` may fill up after its writer has stopped serving it;
  publishers that then wait on it hold the hub's read lock, and the closing client
  needs the write lock.  All publishing stops for ever.
* **A late read in runCommitter** (`engine.go:165`; `PromptStart`): the goroutine
  reads the number of the last log from the live book when it first runs, while the
  applier has already been started.  Logs made before that read are taken for stored
  ones and never written; readers then start with a later log, and after a restart
  that did write the first ones, stop at the gap (`kafka_log_reader.go:79` ends the
  process).  `ImplementsLossyLogService` allows the missing beginning and nothing
  else.
* **Trades repeated** (`trade_maker.go:97`; `CountedOnce` and `repeated`): `g_trade`
  has no key, so an insert repeated after a lost acknowledgement doubles its trades.
* **A second product passed over** (`client.go:270`; `SubscriberGetsView` and
  `passedOver`): a subscriber asks for a snapshot only if the queue of changes is
  empty, and the queue is all products'.  Of a request for two products the second
  finds the first one's marker there and asks for nothing; its view comes with the
  next change of that product, and not before.
* **A marker dropped** (`client.go:178`; `SnapshotAskedForComes`): after a gap the
  snapshot may be older than the change behind the gap.  It is not sent, the marker
  that asked for it is gone, and if no further change comes the peer stays behind,
  though the applier renews the snapshot within 200 milliseconds.
* **Changes held back** (`client.go:218`; `QuietViewIsLast`, `SnapshotAskedForComes`
  and `state.changes`): changes are held back for a longer update while the queue is
  not empty.  If what is left in it is another product's, or changes already known,
  nothing sends them before the next change of this product.
* `RowsTellBook` and `missed`: an order whose submission failed is only logged
  (`order_controller.go:66`), and one that its cancellation overtook is refused
  by the window without a log (`order_book.go:201`).  Of what `Exchange` models,
  exactly these rows stay live, with their hold, and no others; its fill maker
  makes both fills of a match in one step, so that the rows a torn match leaves
  live are not among them.
* `NothingLeftOut` and `CountedOnce`, of ticks, and `ClockForward`: a match whose
  time lies before the current tick (the clock of the engine was set back, or that of
  another engine is behind) starts a tick of the past anew, and REPLACE puts it over
  the one that is stored (`tick_maker.go:82`).  The run has a clock that only goes
  forward, and the theorems say so.
* `ViewExact` and `mixed`: the fifth finding above.
* `ViewExact` and `CutOff`: a level beyond the limit of the snapshot (`SnapshotLevels`)
  is missing from the view until it changes, also when the levels before it have gone.
* `panicked`: a sell at price zero (allowed by
  `order_service.go:43`) and a market buy divide by zero
  (`order_book.go:142`).

### Fairness

`engine_replay` assumes weak fairness of each goroutine's steps: the Go scheduler
runs a runnable goroutine, and a `select` one of whose cases stays ready takes it
in the end, since it chooses at random.  `engine_snapshots` assumes it of the way
of the logs only (`CommittingSpec`).  Nothing is assumed of the snapshot timer,
of the outcome of a save, or of faults.  The topics are fixed and finite, so "in
the end" means once the last message has been fetched.

`exchange` assumes that the engine, the fill maker, the workers and their pollers
do not all stop while one of them has something to do, and nothing of the
requests; troubles are bounded, as a database that failed for ever would settle
nothing.  `workers` assumes that reader and flusher go on and that the database
takes a batch in the end (the code tries again every second).  `hub` assumes that
runnable goroutines run, that a writer delivers while the connection is open, and
that a read or write on a broken connection fails (pings go out every 54
seconds); nothing is assumed of peers, requests or messages.  `level2` assumes the
same of the three goroutines of the client and of a publication under way.

### Deadlock

Every run but `hub` checks for deadlock.  A bounded environment that has nothing
more to offer stutters in an `Over` action that says what must have been finished;
an engine always has its snapshot timer.  The hub may really stop: with the queue
of a client full and its writer gone, publisher and client wait for each other
for ever (`Clogged`), and a client that has left with nobody left to publish has
nothing more to do.

## 4. What is proved

The theorems about `OrderBook` are for every set of ids, prices, sizes and
budgets, every capacity of the window and every number of messages. The
assumptions are those declared beside the constants: ids, sizes and budgets are
positive naturals, prices naturals, and the price given to a market buy is above
all of them. Those about `Engine` are for every set of finite order topics,
every capacity of the channels, every batch, every distance between snapshots
and any number of faults. Those about `Exchange` are for every finite set of
orders, users and balances, every number of rows a transaction settles and any
number of troubles. Those about `LogWorkers` are for every topic whose numbers
begin with one (`nextLogSeq`, `order_book.go:253`; the topic is kept from its
beginning), with any repetitions and gaps, every choice of matches, done logs
and times, any number of granularities and faults and every size of a batch.
Those about `PushHub` are for every set of clients and of channels, every
capacity of the queues and every number of messages and requests, where the run
`hub` has one client; those about `Level2Client` for every set of levels in any
order, every limit of a snapshot, every list of changes, every lag of the snapshot,
every size of an update and every number of requests and of entries of other
products.

| Theorem | Module | Says |
|---|---|---|
| `FirstIsFirst` | `MatchingProofs` | a depth that is not empty has a first order, and it precedes all others |
| `TypeCorrect` | `OrderBookProofs` | `Spec => []TypeOK` |
| `BookUncrossed` | `OrderBookProofs` | `Spec => []Uncrossed`, redelivery and ids beyond the window included |
| `NumbersLeaveNoGap` | `OrderBookProofs` | `Spec => []NumbersContiguous`, unconditional too |
| `TradesKeepToTheLimit` | `OrderBookProofs` | `Spec => []PriceProtection`, unconditional too; proved only, no run repeats it |
| `TradesInPriority` | `OrderBookProofs` | `Spec => BestPriceFirst`, unconditional too |
| `MarketOrdersGoOn` | `OrderBookProofs` | `Spec => MarketOrdersTryAll`, unconditional too |
| `LetInOnce` | `OrderBookProofs` | `Spec => []AcceptedOnce` if all ids are within the window |
| `NobodyOverfilled` | `OrderBookProofs` | `Spec => []NoOverfill` under the same hypothesis |
| `SizesAddUp` | `OrderBookProofs` | `Spec => []RestingSizesAddUp` under the same hypothesis |
| `OneLifeEach` | `OrderBookProofs` | `Spec => []LogLifecycle` under the same hypothesis |
| `DoneLogsAreRight` | `OrderBookProofs` | `Spec => []DoneTellsAll` under the same hypothesis |
| `NobodyForgotten` | `OrderBookProofs` | `Spec => []NothingForgotten` under the same hypothesis |
| `LoopIsAtomic` | `OrderBookProofs` | `Spec => ImplementsAtomicBook` under the same hypothesis |
| `MirrorKeepsUp` | `MirrorProofs` | `Spec => []MirrorIsBook`, unconditional |
| `ChangesAreEnough` | `MirrorProofs` | `Spec => []ChangesTellLevels`, unconditional |
| `RestartLosesNothing` | `MirrorProofs` | `Spec => []RestartKeepsMirror`, unconditional |
| `EngineTypeCorrect` | `EngineProofs` | `Spec => []TypeOK`, unconditional |
| `SnapshotsNeverGoBack` | `EngineProofs` | `Spec => SnapshotsMoveForward`, unconditional |
| `ReplayIsRepetition` | `EngineProofs` | `Spec => []ReplayRepeats` if `Undisturbed` |
| `OneStory` | `EngineProofs` | `Spec => []StoreTellsJournal` if `Undisturbed` |
| `SavedBookIsOfItsOffset` | `EngineProofs` | `Spec => []SavedBookIsMoment` if `Undisturbed` |
| `EngineImplementsLossyLogService` | `EngineProofs` | `Spec => ImplementsLossyLogService` if `Undisturbed` |
| `ExchangeTypeCorrect` | `ExchangeProofs` | `Spec => []TypeInv`, unconditional |
| `ExchangeConservesMoney` | `ExchangeProofs` | `Spec => []MoneyConserved`, unconditional: troubles, ids beyond the window and overdrafts included |
| `ExchangeCoversHolds` | `ExchangeProofs` | `Spec => []HoldsCovered` if all ids are within the window, overdrafts included |
| `ExchangeRowsTellBook` | `ExchangeProofs` | `Spec => []RowsTellBook` under the same hypothesis |
| `NothingIsLeftOut` | `LogWorkersProofs` | `Spec => []NothingLeftOut`, for ticks if the clock is not set back (`Clocked`) |
| `EachIsCountedOnce` | `LogWorkersProofs` | `Spec => []CountedOnce`, under the same hypothesis |
| `ViewIsTheBook` | `Level2ClientProofs` | `Spec => []ViewExact` |
| `QuietViewIsUpToDate` | `Level2ClientProofs` | `Spec => []QuietViewIsLast` |
| `ViewNeverGoesBack` | `Level2ClientProofs` | `Spec => ViewMovesForward` |
| `GoneLeaveTheHub` | `PushHubProofs` | `Spec => []NoGhosts`: a client whose reader has gone is in no channel |
| `TickerNotMissed` | `PushHubProofs` | `Spec => []NoTickerMissed`: a new subscriber gets the last ticker, whatever races with it |

*Type correctness* includes that a depth holds each id once (`DepthsKeepIdsApart`)
and is not inductive by itself: that `Wanted` and the sizes stay natural needs that
the first maker is on the depth (`FirstIsFirst`, by two applications of the
least-number principle, on prices and then on ids), the same of ids (`DepthsOK`) and that a taker of type limit came with a
limit price (`TakerOK`).  `Structure` is the conjunction, and has one lemma per
action.  What a market buy pays stays below its funds by `SpendsWithinFunds`.

*Uncrossed* follows with `Structure`: a taker rests only after the loop has met
a best maker it does not cross, and everybody else on that side is priced no
better; every other action only takes orders, or parts of them, off a depth.

*The numbers* need the count of matches among the logs to be the book's trade
number (`LogsNumbered`); `AppendNumbered` says what one more log does to it, and
each action appends none, one or two.  *Price protection* needs that the price of
what is on a depth, and of a limit order that is the taker, is the price of the
row, and that a row once stored stays (`OrdersMatchRows`, `RowsStay`): a trade is
told at the maker's price, and the taker crosses it.

*The amounts* need the hypothesis `IdsWithinWindow`, and `book_beyond_window`
shows why.  The inductive invariant `Accounts` says that an order let in is
marked in the window, that what is on a depth, or left to the taker, plus what
was traded is what the stored order asked for, that no id is both taker and on a
depth, and that a limit buy has paid at most its own price for each unit.

*The lives of the orders.*  What the logs say of an order and where the order is
agree (`Story`): nothing is logged of one that was not let in; a taker has
neither an open nor a done log; one that rests has an open log, its only one,
behind its matches as a taker and before those as a maker; one with a done log is
nowhere any more, and no log names it afterwards.  With `Accounts`, the size in a done log is
what was not traded.  That these need `IdsWithinWindow` is the same finding: an
order let in a second time has two lives.  Priority and the exits of a market
order need `Structure` only: the maker of a pass is `First`, which precedes
everybody else on its side, and the price given to a market taker crosses every
maker.

*The loop implements the atomic book.*  The refinement mapping (`Now`, `Seen`)
shows a caller, in the middle of a call, the book the call will leave: what
`Complete` makes of the book and the taker as they are.  So the start of a call is
the one step of the atomic book, and every pass of the loop must be unseen: what
`Complete` makes of the book after a pass is what it made of the book before.
That is a fact about the pure operators, and `MatchingProofs` proves it as one
(`MatchMaker` takes the first of the line; the volume and the cost ahead of
everybody else lose what the first one took; the division of the funds left is the
division of the funds before).  When the loop is over, nobody in line gets
anything (`OverIsUnserved`), and the end of the call is unseen as well.
`BookSound` is the invariant beyond `Structure` and `Accounts`: depths are finite,
and a market buy that has spent all its funds has no maker at price zero before it,
on whom `Complete` would never have stopped.

*The mirror* folds over the logs, and the library's `FoldLeft` is a recursion over
sets of indices.  `FoldsExist` shows, by the induction on numbers that
`MatchingProofs` derives from the least-number principle, that the recursive
function it chooses exists, and `StepsOfFold` that it goes through the sequence
element by element; from there a fold is a trace g with g[k] made of g[k - 1] and
the k-th element, and each theorem is an induction over that trace.  On the side of
the book, `Recording` says that the logs tell the whole history of the depths:
there is a trace h of depths, from empty ones to those of the book, and the k-th
log tells (`Tells`) how the k-th depths came from those before: an order joins, a
maker's size goes down, an order leaves, or a done log is of an order that is not
there.  The other two only happen beyond the window, to an order let in again
while it rests: its second open log gives the entry another size, and its second
done log, when all of the second life has traded, leaves the entry as it is.  That
a taker and the entry under its id differ in size only (`EntriesMatch`) is what
makes both harmless, and the theorems unconditional.  `Recording` is inductive with
`Structure`, `EntriesMatch` and `BookSound`; it is stated over logs and depths
alone, without the mirror.
`MirrorFollows` then takes one log: the mirror of depths becomes the mirror of
the depths it tells of, and is the same mirror or one numbered change of one level
ahead (`Follows`).  *A client* follows because what a log changes is that one
level, which the change tells, whichever levels its snapshot had room for: a level is
right from its first change on, and before it if it was in the snapshot.  *A restart* is right because saving the orders of
a snapshot one by one, in whatever order `SetToSeq` gives them, builds up the
depths part by part (`SavesInTurn`), and because between the log of the last
change, after which the reader goes on, and the log the snapshot was taken at,
nothing changed the mirror (`MirrorsHistory`).

*The engine.*  `TypeInv` adds to the type invariant what keeps it: every channel
within its capacity, offsets that follow each other from the reader to the applier,
snapshots on their way that are copies of some book, records in the topics and the
channels that are logs.  *Snapshots move forward*
(`InTurn`): request, pending, approved and saved snapshot stand in ascending
order of their offsets, through four channels and two goroutines; a restart
forgets all but the saved one.

*Replay* (`TruthInv`): the auxiliary variables `past` and `journal` are one pass
over the topic (`HistoryOK`), the book is the one that pass had at the applier's
offset, every log on its way or stored is the journal's of its number, and every
snapshot is the book after its offset.  A message handled again therefore makes
the same logs, because `Handle` depends on the book and the window only.  The
*window* is the difficulty: a snapshot shares the live bitmap, so that it may
carry marks of messages after its offset, which a replay would refuse.  The
hypothesis `Undisturbed` names the two cases in which it cannot: all ids are
beyond the window (`IdsBeyondWindow`; the code's has 10000 places, and ids only
grow), or the topic is still too short for a snapshot (`NoSnapshots`; 1000
messages in the code), and then a restart begins with an empty window.

*The refinement* maps the topic of logs, whatever is written twice, to the logs a
reader takes: those that come next by number, until there is a gap
(`KafkaLogReader.Run`).  A step of the engine then is a step of the weaker log
service or stutters: `Apply` of a new message is `HandleNext`, a stored batch lets
readers take some more of the logs (`PublishFrom`), and by `TruthInv` every log they
take is the journal's of its number.  The stretch begins with whatever log is stored
first: behind the early approval of a snapshot (`engine_early_snapshot`) or a
committer that starts late (`engine.go:165`) logs may be missing for ever, so the
full service (`ImplementsLogService`) is only checked, in the run `engine_replay` that
has neither, and not proved of the code.

*The exchange.*  Sums over accounts, bills, fills and makers are the library's
`SumFunction`, whose laws (one term more, two parts, one change) `MatchingProofs`
derives from its definition, by the least number for which they would fail.
`CompleteTellsWho` says what a whole call of ApplyOrder logs: each match names a
maker of the other side and the taker.  `TypeInv` carries the consequence that
money needs, that the two fills of a match are of a buyer and a seller
(`IsExchangeLog`, `SidesAgree`).  `LoopSettles` says what the loop of ExecuteFill
has done after any number of fills: how many it has settled, and that the sums of
the bills it leaves are what those fills moved, or, at a done fill, the rest that
was still on hold.  Then each action keeps `MoneyIn(currency)`: a match adds as
much to come for the buyer as it takes from the seller, a turn of ExecuteFill turns
fills to come into bills (`TurnMoves`), one of ExecuteBill bills into balances, and
a hold moves from one half of an account to the other.

*Holds and rows.*  Neither `HoldsCovered` nor `RowsTellBook` is inductive: both are
about balances and rows, which lag behind the engine by everything in its logs,
in the fills and in the bills.  `Ledger` says, of each order, where it is on that
way and how much it has traded by then, whichever table tells it:
* `StagesOK`: what the request did so far; an order without a row is nowhere else.
* `WindowOK`: the bits of the window are those of the orders handled.
* `UnseenOK`: an order the engine has not handled has traded nothing.
* `AmountsOK`: what its row, its fills to settle and the logs to come say together
  that it traded (`Filled`, `Executed`) is within what it holds, and what rests of
  it is priced as it was placed and is what is left of its size.
* `EndsOK`: it rests, or is done by its row, a fill or a log, or was missed, or is
  still on its way to the engine; and never two of these that exclude each other.

The engine keeps it by what one call of `ApplyOrder` does for the taker, for a
maker and for everybody else (`AppliedOrder`, from lemmas of `MatchingProofs` about
the whole loop of `Complete`); fill maker, executor and order worker keep it
because they move trades from the logs to the fills and on to the row without
loss (`TradesStay`).  Then a hold stays covered, since the bills of a turn take from
it exactly what the row loses of its rest (`OneHoldChanges`): a trade its price,
a done fill the rest, which `AmountsOK` keeps from being negative.  Rows tell the
book because a quiet order has nothing in the logs and in the fills, so that its
row is all of `Filled`.  The hypothesis `IdsWithinWindow` is the one of the order
book, for the same reason: an order let in twice trades more than its hold.

*The level-2 client.*  The number of the view, those of the messages queued for
the peer, and those of the changes held back follow each other up to the last one
the level-2 writer has seen (`InOrder`), always.  While no snapshot was sent over
changes held back (`mixed`, the finding of `l2_old_changes`), each of the messages
also takes the levels of the number before it to those of its own (`Exact`), so
that the view is the book at its number, less what its snapshot had no room for.
`PutOver` says what the writer's merging of changes does to the levels: the last
change of each level wins (`PutOverIsView`), and it is later than the snapshot.

*The hub.*  A client leaves all its channels because the reader that closes them
still has in hand every channel the client is in (`ClosesAll`), and has it
because `Client.channels` never misses one (`ClientKnows`; the model changes it
together with the hub, since only goroutines that hold the client's mutex read
it) and because the mutex keeps other subscriptions out meanwhile (`MutexHeld`).  No ticker is missed
because a subscriber has the last one, or the publication still has it to reach,
or its own reader carries it (`TickerReaches`).  A subscription that finds the
client in the channel already would break this, since the tickers are counted
from it and nothing is sent; that none does needs `PendingHolds` and
`SubscribesAnew`: the check of `Client.channels` in `subscribe` and the lock of
the hub are two steps under one mutex.

*The log workers.*  A row that is pushed has a key, the number of its log and
its place among the rows of that log; a stored row counts one key or, if it is a
tick, one for each of its logs. Keys are read, pushed, taken and stored in their
order (`Lined`). `Kept` says what this makes of the table at any moment: below a
key that is stored there is no gap, and nothing up to the last log read is
missing, except keys that will never be stored; each of those is of a log torn
apart by a crash (`Excused`), and every restart has gone past it, and so will
the next (`Passed`). `NothingLeftOut` is this, of the counts. Neither property
is inductive without it: a restart looks at one row, and only the order of all
the others makes what it skips what it has.

For fills and trades `RowsOK` adds that the rows under way come after all those
stored, so that the last row of the table is the one to resume after, and that
no key is stored twice while no insert is repeated, or the table has a unique
key. A batch repeated over itself either finds all its fills there or ends with
the last of them. For ticks, of which `REPLACE` removes one and adds another,
`TicksOK` says that of two ticks of one time the later counts all that the
earlier does (`TicksGrow`), in the table, in the batch, in the channel and in
memory, so that an insert loses no log; that a tick counts only logs that are
stored or under way before it (`TicksKnown`); that the tick in memory is the
newest (`Newest`); and that a log is twice in a tick only if it was torn and the
granularity is not the longest (`TwiceOnlyTorn`). A restart takes the ticks from
the table and resumes after that of the longest granularity: what shorter ones
count beyond it is at most one log, which is torn. Here the clock is needed: of
ticks of one granularity the one with the latest time must be the one with the
latest log, for it is by time that `GetLastTickByProductId` finds it. The batch
is a `FoldLeft` of inserts, and is taken apart into its steps as the mirror's
folds are (`InsertFolds`); a tick is taken out of its table by position
(`RemoveAt`), and counts are cardinalities of sets of places in the table, so
that no recursive definition is in the way.

Only model-checked: everything under fairness. Liveness and ENABLED are out of
the prover's reach.

## 5. Not modelled

* HTTP routing, authentication, tokens, password hashing, configuration, users,
  products, wallets, and the reading requests: single statements without
  concurrency of their own.
* The text of SQL statements, the conversion of rows by reflection in
  `binlog_stream.go`, the formatting of messages (`vo.go`), time stamps, and the
  merging of ticks into a ticker (a fold over rows read at one moment).
* Redis as a carrier of order and account notifications to clients: it ends in a
  publication, which is an action of `PushHub`; what is lost before is lost to
  the client, who has no number to notice it by.
* Products: each has an engine, workers and streams of its own.  They share the
  accounts of a currency, and `Exchange` has one product; the clients, whose queue
  of changes `Level2Client` has entries of other products in; and the hub, whose
  channels in `PushHub` may be of any product.
* A fill maker that dies between the two fills of a match, in `Exchange`: `LogWorkers`
  has it, without the settlement behind it.
* The bounded queues of a level-2 client: the cycle of its two writers
  (`client.go:109`) needs 512 changes behind 256 messages.
* The cycle of snapshot channels in the engine (`engine.go:51`), which needs some
  sixty timer ticks with the log writer stalled.
* The windows of the settlement pollers (1000 fills, 100 bills), which matter
  only if rows pile up that can never be settled.

## 6. What could come next

Every invariant a run checks is a theorem now, and so are the action properties and
the two refinements that need no fairness; what a proof could add are theorems with
weaker hypotheses.  `IdsWithinWindow` asks that all ids are within the first span of
the window, and `book_beyond_window` shows why something of the kind is needed; a
hypothesis about the redeliveries instead (none of an order beyond the span) would
cover every product that lives long enough.  The same holds of `Undisturbed` for
the engine's replay, where what a snapshot's bitmap carries of later messages could be
an auxiliary variable.
