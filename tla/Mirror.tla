------------------------------- MODULE Mirror -------------------------------
(***************************************************************************)
(* pushing/order_book.go and order_book_stream.go: the copy of the order   *)
(* book that the pushing side keeps from the logs alone, its snapshots,    *)
(* and the numbered level-2 changes it publishes.  The stream has no other *)
(* input than the logs, so the mirror after some logs is a function of     *)
(* them; the properties compare it with the book that wrote the logs, at   *)
(* every step of every call.                                               *)
(***************************************************************************)
EXTENDS OrderBook

CONSTANT SnapshotLevels     \* levels of a side in a level-2 snapshot (1000)

ASSUME SnapshotLevelsAssumption == SnapshotLevels \in Nat

NoLevel == [size |-> 0, count |-> 0]

\* newOrderBook.  lost: the process has panicked over the log.
NewMirror ==
    [seq    |-> 0, logSeq |-> 0, orders |-> {}, lost |-> FALSE,
     levels |-> [side \in Sides |-> [price \in Prices |-> NoLevel]]]

Held(mirror, id) == {o \in mirror.orders : o.id = id}

\* Variant: an order that changes is counted once more.
LevelAfterCounts(level, old, newSize) ==
    LET size == level.size - (old - newSize)
    IN  IF size = 0 THEN NoLevel ELSE [size |-> size, count |-> level.count + 1]

\* The level of an order whose size was old (0: a new order): it is removed
\* at size zero, and an order that leaves it or joins it is counted.
LevelAfter(level, old, newSize) ==
    LET size == level.size - (old - newSize)
    IN  IF old # 0 /\ size = 0 THEN NoLevel
        ELSE [size  |-> size,
              count |-> level.count + (IF old = 0 THEN 1
                                       ELSE IF newSize = 0 THEN -1 ELSE 0)]

\* saveOrder: the log numbered at gives order id the size newSize at this price.
SaveOrder(mirror, at, id, newSize, price, side) ==
    LET held  == Held(mirror, id)
        old   == IF held = {} THEN 0 ELSE (CHOOSE o \in held : TRUE).size
        level == mirror.levels[side][price]
    IN  IF newSize < 0 \/ (held # {} /\ level = NoLevel)
        THEN [mirror EXCEPT !.lost = TRUE]
        ELSE IF held = {} /\ newSize = 0 THEN mirror
        ELSE [mirror EXCEPT
                !.seq = @ + 1,
                !.logSeq = at,
                !.levels[side][price] = LevelAfter(level, old, newSize),
                !.orders =
                   IF held = {}
                   THEN @ \cup {[id |-> id, size |-> newSize, side |-> side,
                                 price |-> price]}
                   ELSE (@ \ held) \cup
                        {[o EXCEPT !.size = newSize] : o \in
                           IF newSize = 0 THEN {} ELSE held}]

\* One turn of runApplier: a done log of an order that does not rest is
\* skipped, a match with an order that does not rest is a panic.
ApplyLog(mirror, log) ==
    LET id   == IF log.kind = "match" THEN log.maker ELSE log.id
        held == Held(mirror, id)
        size == IF held = {} THEN 0 ELSE (CHOOSE o \in held : TRUE).size
    IN  CASE mirror.lost -> mirror
          [] ~mirror.lost /\ log.kind = "open" ->
               SaveOrder(mirror, log.seq, id, log.remaining, log.price, log.side)
          [] ~mirror.lost /\ log.kind = "done" ->
               IF held = {} THEN mirror
               ELSE SaveOrder(mirror, log.seq, id, size - log.remaining,
                              log.price, log.side)
          [] ~mirror.lost /\ log.kind = "match" ->
               IF held = {} THEN [mirror EXCEPT !.lost = TRUE]
               ELSE SaveOrder(mirror, log.seq, id, size - log.size,
                              log.price, log.side)

\* The mirror after the logs read from the log topic.
After(mirror, read) == FoldLeft(ApplyLog, mirror, read)

\* An order of a snapshot is saved.
SaveAgain(mirror, o) == SaveOrder(mirror, 0, o.id, o.size, o.price, o.side)

\* Variant: the numbers of the changes start again.
RestoreRenumbers(snapshot) ==
    [FoldLeft(SaveAgain, NewMirror, SetToSeq(snapshot.orders))
        EXCEPT !.logSeq = snapshot.logSeq]

\* SnapshotFull, and Restore: the orders are saved one by one, then the
\* numbers are those of the snapshot.
SnapshotFull(mirror) ==
    [seq |-> mirror.seq, logSeq |-> mirror.logSeq, orders |-> mirror.orders]

Restore(snapshot) ==
    [FoldLeft(SaveAgain, NewMirror, SetToSeq(snapshot.orders))
        EXCEPT !.seq = snapshot.seq, !.logSeq = snapshot.logSeq]

\* The reader of the topic hands on a log once: an old number is skipped, a
\* missing one ends the process.
ReadLog(reader, log) ==
    IF log.seq <= reader.lastSeq THEN reader
    ELSE [lastSeq |-> log.seq,
          mirror  |-> IF reader.lastSeq > 0 /\ log.seq # reader.lastSeq + 1
                      THEN [reader.mirror EXCEPT !.lost = TRUE]
                      ELSE ApplyLog(reader.mirror, log)]

\* What a stream started on the snapshot makes of the log topic: it reads on
\* after the log of the last change, which need not be the last log it saw.
Resumed(snapshot, topic) ==
    FoldLeft(ReadLog, [lastSeq |-> snapshot.logSeq, mirror |-> Restore(snapshot)],
             topic).mirror

\* The level-2 change published for a log: the new size of one level, or none.
Change(mirror, log) ==
    LET next == ApplyLog(mirror, log)
    IN  IF next.seq > mirror.seq
        THEN <<[seq |-> next.seq, side |-> log.side, price |-> log.price,
                size |-> next.levels[log.side][log.price].size]>>
        ELSE << >>

\* Variant: one comparator for both sides.
VisitedBeforeAscending(mirror, side, price) ==
    {p \in Prices : mirror.levels[side][p] # NoLevel /\ p < price}

\* The levels of a side that its iterator visits before this price.
VisitedBefore(mirror, side, price) ==
    {p \in Prices :
        /\ mirror.levels[side][p] # NoLevel
        /\ IF side = "buy" THEN p > price ELSE p < price}

\* SnapshotLevel2: the best levels of each side; a price it does not list is
\* one with nothing for who reads it.
SnapshotLevel2(mirror) ==
    [side \in Sides |-> [price \in Prices |->
       IF Cardinality(VisitedBefore(mirror, side, price)) >= SnapshotLevels
       THEN 0 ELSE mirror.levels[side][price].size]]

-----------------------------------------------------------------------------
(* Properties. *)

\* The mirror never panics, and has the orders of the book and, at each price,
\* their number and their size, at every step of every call.
MirrorIsBook ==
    LET mirror == After(NewMirror, logs)
    IN  /\ ~mirror.lost
        /\ mirror.orders =
             {[id |-> m.id, size |-> m.size, side |-> m.side, price |-> m.price] :
                m \in depths["buy"] \cup depths["sell"]}
        /\ \A side \in Sides, price \in Prices :
             LET there == {m \in depths[side] : m.price = price}
             IN  mirror.levels[side][price] =
                   [size |-> Volume(there), count |-> Cardinality(there)]

\* A stream restarted on the snapshot of any moment ends with the same mirror,
\* and numbers its changes as if it had never stopped.
RestartKeepsMirror ==
    LET mirror == After(NewMirror, logs)
    IN  \A n \in 0 .. Len(logs) :
           Resumed(SnapshotFull(After(NewMirror, SubSeq(logs, 1, n))), logs) = mirror

\* What a client makes of a level-2 change.
Shown(view, change) == [view EXCEPT ![change.side][change.price] = change.size]

\* A log reaches the mirror, and its changes a client that follows.  told: the
\* levels a change has told of.
Follow(acc, log) ==
    LET new == Change(acc.mirror, log)
    IN  [mirror |-> ApplyLog(acc.mirror, log),
         view   |-> FoldLeft(Shown, acc.view, new),
         told   |-> acc.told \cup {<<new[i].side, new[i].price>> : i \in DOMAIN new}]

\* A client that starts on the level-2 snapshot of this mirror.
Watching(mirror) ==
    [mirror |-> mirror, view |-> SnapshotLevel2(mirror), told |-> {}]

\* At this price a side has its 1000 best levels behind it.
BeyondBest(mirror, side, price) ==
    LET levels == mirror.levels[side]
        better == {p \in {q \in Prices : levels[q] # NoLevel} :
                      (side = "buy" /\ p > price) \/ (side = "sell" /\ p < price)}
    IN  Cardinality(better) >= SnapshotLevels

\* A client that has the level-2 snapshot of any moment and every change
\* numbered after it has the size of every level of the mirror, but for the
\* levels beyond the 1000 best of a side in that snapshot: of each of these it
\* has nothing until a change tells of it.
ChangesTellLevels ==
    \A n \in 0 .. Len(logs) :
        LET start  == After(NewMirror, SubSeq(logs, 1, n))
            client == FoldLeft(Follow, Watching(start), SubSeq(logs, n + 1, Len(logs)))
        IN  \A side \in Sides, price \in Prices :
               client.view[side][price] =
                  IF BeyondBest(start, side, price) /\ <<side, price>> \notin client.told
                  THEN 0
                  ELSE After(NewMirror, logs).levels[side][price].size

=============================================================================
