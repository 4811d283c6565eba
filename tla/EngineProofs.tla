---------------------------- MODULE EngineProofs ----------------------------
(***************************************************************************)
(* Theorems about the matching engine.  Every variable keeps its type and  *)
(* snapshots move forward.  What a crash leaves is in order: a replay      *)
(* repeats what was there, a saved book is that of one moment, the log     *)
(* topic tells one story, and its readers get an unbroken stretch of the   *)
(* logs of one book that takes the messages one by one.                    *)
(*                                                                         *)
(* A snapshot shares its bitmap with the running book, so that it may hold *)
(* the bits of later messages, which a replay then refuses.  The theorems  *)
(* about crashes are therefore about a product whose ids are all beyond    *)
(* the window, or whose topic is still too short for a snapshot.           *)
(***************************************************************************)
EXTENDS Engine, MatchingProofs

-----------------------------------------------------------------------------
(* The inductive invariants. *)

\* How many messages the applier has taken out of the topic.
Seen == fetchNext - Len(orderCh)

TopicOK ==
    /\ topic \in Topics
    /\ fetchNext \in 0 .. Len(topic)
    /\ orderCh \in Seq(0 .. Len(topic) - 1)
    /\ Len(orderCh) <= OrderChCap
    /\ Len(orderCh) <= fetchNext
    /\ \A i \in 1 .. Len(orderCh) : orderCh[i] = Seen + i - 1

OffsetsOK ==
    /\ applied \in 0 .. Len(topic)
    /\ applied # 0 => Seen = applied + 1 /\ lastOffset <= applied
    /\ lastOffset \in 0 .. Len(topic)
    /\ lastOffset <= Seen
    /\ reqCh \in Seq(0 .. Len(topic))

MemoryOK ==
    /\ IsOrderBook(book)
    /\ window \in Windows
    /\ IsSequence(outbox)
    /\ Range(outbox) \subseteq Logs

CommitterOK ==
    /\ IsSequence(logCh)
    /\ Len(logCh) <= LogChCap
    /\ Range(logCh) \subseteq Logs
    /\ committer \in {"starting", "reading", "storing"}
    /\ seq \in Nat
    /\ IsSequence(batch)
    /\ Range(batch) \subseteq Logs
    /\ Len(batch) <= BatchMax
    /\ committer # "storing" => Len(batch) < BatchMax
    /\ committer = "storing" => batch # << >>
    /\ faults \in 0 .. MaxFaults

\* The snapshots between the applier and Redis.
Waiting ==
    ({marshalling, pending} \cup Range(snapCh) \cup Range(approveCh)) \ {NoSnapshot}

\* Those that are not being encoded.
Copied == ({pending} \cup Range(snapCh) \cup Range(approveCh)) \ {NoSnapshot}

SnapshotsOK ==
    /\ IsSequence(snapCh) /\ IsSequence(approveCh)
    /\ NoSnapshot \notin Range(snapCh) \cup Range(approveCh)
    /\ \A s \in Waiting : s.offset \in 1 .. applied /\ IsOrderBook(s.book)
    /\ \A s \in Copied : s = [offset |-> s.offset, book |-> s.book]
    /\ marshalling # NoSnapshot =>
          /\ marshalling.window \in Windows
          /\ marshalling = [offset |-> marshalling.offset, book |-> marshalling.book,
                            window |-> marshalling.window]
    /\ saved # NoSnapshot =>
          /\ saved.offset \in 1 .. Len(topic) - 1
          /\ IsOrderBook(saved.book)
          /\ saved.window \in Windows
          /\ saved = [offset |-> saved.offset, book |-> saved.book,
                      window |-> saved.window]

\* What is written down: the log topic, and the two auxiliary variables.
RecordsOK ==
    /\ IsSequence(store) /\ Range(store) \subseteq Logs
    /\ IsSequence(journal) /\ Range(journal) \subseteq Logs
    /\ IsSequence(past)
    /\ Len(past) \in 1 .. Len(topic) + 1
    /\ \A k \in 1 .. Len(past) :
          /\ past[k] = [book |-> past[k].book, window |-> past[k].window]
          /\ IsOrderBook(past[k].book)
          /\ past[k].window \in Windows

TypeInv ==
    TopicOK /\ OffsetsOK /\ MemoryOK /\ CommitterOK /\ SnapshotsOK /\ RecordsOK

Ascending(ch) == \A i, j \in DOMAIN ch : i < j => ch[i].offset <= ch[j].offset

Before(S, T) == \A s \in S, t \in T : s.offset <= t.offset

\* A place that holds a snapshot or none, as a set.
Held(place) == {place} \ {NoSnapshot}

\* Snapshots go from the applier to Redis in the order in which they were taken.
InTurn ==
    /\ saved # NoSnapshot => saved.offset <= lastOffset
    /\ \A s \in Waiting : lastOffset <= s.offset
    /\ Before(Held(marshalling), Waiting)
    /\ Ascending(snapCh)
    /\ Before(Range(snapCh), Held(pending))
    /\ Before(Range(snapCh), Range(approveCh))
    /\ Before(Held(pending), Range(approveCh))
    /\ Ascending(approveCh)

-----------------------------------------------------------------------------
(* Type correctness. *)

LEMMA SeenFacts ==
    ASSUME TopicOK
    PROVE  /\ Len(topic) \in Nat
           /\ topic \in Seq(Messages)
           /\ Len(orderCh) \in Nat
           /\ Seen \in 0 .. Len(topic)
           /\ Position = Seen
           /\ orderCh # << >> =>
                 /\ Head(orderCh) = Seen
                 /\ Seen \in 0 .. Len(topic) - 1
                 /\ Len(orderCh) > 0
<1>1. topic \in Seq(Messages) /\ Len(topic) \in Nat
  BY TopicsAssumption, LenProperties DEF TopicOK
<1>2. IsSequence(orderCh)
  BY SequenceOver DEF TopicOK
<1>3. Len(orderCh) \in Nat /\ (orderCh # << >> <=> Len(orderCh) > 0)
  BY <1>2, SequenceFacts
<1>4. Seen \in 0 .. Len(topic)
  BY <1>1, <1>3 DEF TopicOK, Seen
<1>5. orderCh # << >> => Head(orderCh) = Seen
  <2> SUFFICES ASSUME orderCh # << >> PROVE Head(orderCh) = Seen
    OBVIOUS
  <2>1. Head(orderCh) = orderCh[1] /\ 1 \in 1 .. Len(orderCh)
    BY <1>2, <1>3, TailSequence
  <2>2. orderCh[1] = Seen + 1 - 1
    BY <2>1 DEF TopicOK
  <2> QED
    BY <1>4, <2>1, <2>2
<1>6. orderCh # << >> => Seen \in 0 .. Len(topic) - 1
  BY <1>1, <1>3 DEF TopicOK, Seen
<1>7. Position = Seen
  <2>1. CASE orderCh = << >>
    BY <1>3, <2>1 DEF Position, Seen, TopicOK
  <2>2. CASE orderCh # << >>
    BY <1>5, <2>2 DEF Position
  <2> QED
    BY <2>1, <2>2
<1> QED
  BY <1>1, <1>3, <1>4, <1>5, <1>6, <1>7

LEMMA TopicStays ==
    TopicOK /\ UNCHANGED <<topic, fetchNext, orderCh>> => TopicOK' /\ Seen' = Seen
BY DEF TopicOK, Seen

LEMMA OffsetsStay ==
    OffsetsOK /\ UNCHANGED <<topic, applied, lastOffset, reqCh>> /\ Seen' = Seen
        => OffsetsOK'
BY DEF OffsetsOK

LEMMA MemoryStays ==
    MemoryOK /\ UNCHANGED <<book, window, outbox>> => MemoryOK'
BY DEF MemoryOK

LEMMA CommitterStays ==
    CommitterOK /\ UNCHANGED <<logCh, committer, seq, batch, faults>> => CommitterOK'
BY DEF CommitterOK

LEMMA SnapshotsStay ==
    SnapshotsOK /\ UNCHANGED <<topic, saved, applied, marshalling, pending, snapCh, approveCh>>
        => SnapshotsOK' /\ Waiting' = Waiting
BY DEF SnapshotsOK, Waiting, Copied

LEMMA RecordsStay ==
    RecordsOK /\ UNCHANGED <<topic, store, past, journal>> => RecordsOK'
BY DEF RecordsOK

LEMMA FetchTyped ==
    ASSUME TypeInv, Fetch
    PROVE  TypeInv' /\ Seen' = Seen /\ Waiting' = Waiting
<1> USE DEF Fetch, applierVars, committerVars, snapshotVars, durable, auxVars
<1>1. /\ Len(topic) \in Nat /\ Len(orderCh) \in Nat
      /\ fetchNext \in 0 .. Len(topic) - 1
      /\ OrderChCap \in Nat
  BY SeenFacts, ChannelsAssumption DEF TypeInv, TopicOK
<1>2. IsSequence(orderCh)
  BY SequenceOver DEF TypeInv, TopicOK
<1>3. /\ orderCh' \in Seq(0 .. Len(topic) - 1)
      /\ Len(orderCh') = Len(orderCh) + 1
      /\ \A i \in 1 .. Len(orderCh) : orderCh'[i] = orderCh[i]
      /\ orderCh'[Len(orderCh) + 1] = fetchNext
  BY <1>1, AppendProperties DEF TypeInv, TopicOK
<1>4. Seen' = Seen
  BY <1>1, <1>3 DEF Seen, TypeInv, TopicOK
<1>5. ASSUME NEW i \in 1 .. Len(orderCh')
      PROVE  orderCh'[i] = Seen' + i - 1
  <2>1. CASE i = Len(orderCh) + 1
    BY <1>1, <1>3, <1>4, <2>1 DEF Seen, TypeInv, TopicOK
  <2>2. CASE i # Len(orderCh) + 1
    <3>1. i \in 1 .. Len(orderCh)
      BY <1>1, <1>3, <2>2
    <3> QED
      BY <1>3, <1>4, <3>1 DEF TypeInv, TopicOK
  <2> QED
    BY <2>1, <2>2
<1>6. TopicOK'
  BY <1>1, <1>3, <1>5 DEF TypeInv, TopicOK
<1> QED
  BY <1>4, <1>6, OffsetsStay, MemoryStays, CommitterStays, SnapshotsStay,
     RecordsStay DEF TypeInv

\* What the applier does to the offsets when it takes one.
LEMMA TakesOffset ==
    ASSUME TypeInv, orderCh # << >>, orderCh' = Tail(orderCh),
           UNCHANGED <<topic, fetchNext, lastOffset, reqCh>>,
           applied' = Head(orderCh)
    PROVE  /\ TopicOK' /\ OffsetsOK'
           /\ Seen' = Seen + 1
           /\ applied' = Seen
           /\ applied <= applied'
<1>1. /\ Len(topic) \in Nat /\ Len(orderCh) \in Nat /\ Len(orderCh) > 0
      /\ Seen \in 0 .. Len(topic) - 1 /\ Head(orderCh) = Seen
  BY SeenFacts DEF TypeInv
<1>2. IsSequence(orderCh)
  BY SequenceOver DEF TypeInv, TopicOK
<1>3. /\ Len(orderCh') = Len(orderCh) - 1
      /\ \A i \in 1 .. Len(orderCh) - 1 : orderCh'[i] = orderCh[i + 1]
  BY <1>2, TailSequence
<1>4. orderCh' \in Seq(0 .. Len(topic) - 1)
  BY HeadTailProperties DEF TypeInv, TopicOK
<1>5. fetchNext \in Nat
  BY <1>1 DEF TypeInv, TopicOK
<1>6. Seen' = Seen + 1
  BY <1>1, <1>3, <1>5 DEF Seen
<1>7. ASSUME NEW i \in 1 .. Len(orderCh')
      PROVE  orderCh'[i] = Seen' + i - 1
  <2>1. i \in 1 .. Len(orderCh) - 1 /\ i + 1 \in 1 .. Len(orderCh)
    BY <1>1, <1>3
  <2>2. orderCh[i + 1] = Seen + (i + 1) - 1
    BY <2>1 DEF TypeInv, TopicOK
  <2> QED
    BY <1>1, <1>3, <1>6, <2>1, <2>2
<1>8. TopicOK'
  BY <1>1, <1>3, <1>4, <1>7, ChannelsAssumption DEF TypeInv, TopicOK
<1>9. OffsetsOK'
  BY <1>1, <1>6 DEF TypeInv, OffsetsOK
<1>10. applied <= applied'
  BY <1>1 DEF TypeInv, OffsetsOK
<1> QED
  BY <1>1, <1>6, <1>8, <1>9, <1>10

\* The logs that tell of an order on the book have their types.
LEMMA MakerLogsTyped ==
    ASSUME NEW m \in RestingOrders, NEW t, IsTaker(t), NEW n \in Nat, NEW k \in Nat,
           NEW z \in Nat
    PROVE  /\ MatchLog(n, k, t, m, z) \in Logs
           /\ DoneLog(n, [m EXCEPT !.size = 0], 0, "filled") \in Logs
           /\ DoneLog(n, m, m.size, "cancelled") \in Logs
<1>1. /\ m.id \in OrderIds /\ m.side \in Sides /\ m.price \in Prices /\ m.size \in Nat
      /\ t.id \in OrderIds
  BY DEF RestingOrders, IsTaker
<1> DEFINE emptied == [m EXCEPT !.size = 0]
<1>2. emptied.id = m.id /\ emptied.side = m.side /\ emptied.price = m.price
  BY DEF RestingOrders
<1> HIDE DEF emptied
<1>3. MatchLog(n, k, t, m, z) \in Logs
  BY <1>1 DEF MatchLog, Logs
<1>4. DoneLog(n, emptied, 0, "filled") \in Logs
  BY <1>1, <1>2 DEF DoneLog, Logs
<1>5. DoneLog(n, m, m.size, "cancelled") \in Logs
  BY <1>1 DEF DoneLog, Logs
<1> QED
  BY <1>3, <1>4, <1>5 DEF emptied

\* So has the last log of a call.
LEMMA ClosingLogTyped ==
    ASSUME NEW t, IsTaker(t), NEW n \in Nat
    PROVE  ClosingLog(n, t) \in Logs
<1>1. /\ t.id \in OrderIds /\ t.side \in Sides /\ t.size \in Nat
      /\ t.type \in {"limit", "market"}
      /\ t.type = "limit" => t.price \in Prices
      /\ DoneReason(t) \in {"filled", "cancelled"}
  BY DEF IsTaker, DoneReason
<1>2. CASE Rests(t)
  <2>1. OpenLog(n, t) \in Logs
    BY <1>1, <1>2 DEF Rests, OpenLog, Logs
  <2> QED
    BY <1>2, <2>1 DEF ClosingLog
<1>3. CASE ~ Rests(t) /\ t.type = "market"
  <2> DEFINE unpriced == [t EXCEPT !.price = 0]
  <2>1. unpriced.id = t.id /\ unpriced.side = t.side /\ unpriced.price = 0
    BY DEF IsTaker
  <2>2. ClosingLog(n, t) = DoneLog(n, unpriced, 0, DoneReason(t))
    BY <1>3 DEF ClosingLog
  <2> HIDE DEF unpriced
  <2>3. DoneLog(n, unpriced, 0, DoneReason(t)) \in Logs
    BY <1>1, <2>1 DEF DoneLog, Logs
  <2> QED
    BY <2>2, <2>3
<1>4. CASE ~ Rests(t) /\ t.type # "market"
  <2>1. DoneLog(n, t, t.size, DoneReason(t)) \in Logs
    BY <1>1, <1>4 DEF DoneLog, Logs
  <2> QED
    BY <1>4, <2>1 DEF ClosingLog
<1> QED
  BY <1>2, <1>3, <1>4

\* And all the logs of a call of ApplyOrder.
LEMMA CompleteLogsTyped ==
    ASSUME NEW b, IsOrderBook(b), NEW t, IsTaker(t)
    PROVE  \A log \in Range(Complete(b, t).logs) : log \in Logs
<1> DEFINE r    == Complete(b, t)
           hit  == Hit(b, t)
           line == InLine(hit)
           n    == Cardinality(hit)
           e    == Cardinality(Emptied(b, t))
           last == n + e + 1
<1>1. /\ r.logs = [i \in 1 .. n + e + 1 |-> r.logs[i]]
      /\ r.logs[n + e + 1] = ClosingLog(b.logSeq + (n + e + 1), Left(b, t))
      /\ \A k \in 1 .. n :
            /\ 2 * k - 1 \in 1 .. n + e
            /\ line[k] \in hit
            /\ r.logs[2 * k - 1] = MatchLog(b.logSeq + (2 * k - 1), b.tradeSeq + k,
                                            t, line[k], Takes(b, t)[line[k]])
      /\ \A k \in 1 .. e :
            /\ 2 * k \in 1 .. n + e
            /\ k \in 1 .. n /\ line[k] \in Emptied(b, t)
            /\ r.logs[2 * k] = DoneLog(b.logSeq + 2 * k,
                                       [line[k] EXCEPT !.size = 0], 0, "filled")
      /\ \A i \in 1 .. n + e :
            (\E k \in 1 .. n : i = 2 * k - 1) \/ (\E k \in 1 .. e : i = 2 * k)
  BY CompleteLogs
<1>2. n \in Nat /\ e \in Nat
  BY HitAndEmptied
<1>3. b.logSeq \in Nat /\ b.tradeSeq \in Nat
  BY DEF IsOrderBook, IsBook
<1>4. IsTaker(Left(b, t))
  BY LeftIsTaker
<1>5. ASSUME NEW m \in hit
      PROVE  m \in RestingOrders /\ Takes(b, t)[m] \in Nat
  <2>1. /\ m \in Makers(b, t) /\ Makers(b, t) \subseteq b.depths[Opposite(t.side)]
        /\ Takes(b, t)[m] \in Nat
    BY TakerMeetsMakers
  <2>2. Opposite(t.side) \in Sides
    BY OppositeSide DEF IsTaker
  <2> QED
    BY <2>1, <2>2 DEF IsOrderBook, IsDepth
<1> HIDE DEF r, hit, line, n, e
<1>6. ASSUME NEW k \in 1 .. n
      PROVE  r.logs[2 * k - 1] \in Logs
  <2>1. line[k] \in RestingOrders /\ Takes(b, t)[line[k]] \in Nat
    BY <1>1, <1>5
  <2>2. b.logSeq + (2 * k - 1) \in Nat /\ b.tradeSeq + k \in Nat
    BY <1>2, <1>3
  <2>3. MatchLog(b.logSeq + (2 * k - 1), b.tradeSeq + k, t, line[k],
                 Takes(b, t)[line[k]]) \in Logs
    BY <2>1, <2>2, MakerLogsTyped
  <2> QED
    BY <1>1, <2>3
<1>7. ASSUME NEW k \in 1 .. e
      PROVE  r.logs[2 * k] \in Logs
  <2>1. line[k] \in RestingOrders
    BY <1>1, <1>5
  <2>2. b.logSeq + 2 * k \in Nat
    BY <1>2, <1>3
  <2>3. DoneLog(b.logSeq + 2 * k, [line[k] EXCEPT !.size = 0], 0, "filled") \in Logs
    BY <2>1, <2>2, MakerLogsTyped
  <2> QED
    BY <1>1, <2>3
<1>8. r.logs[n + e + 1] \in Logs
  <2>1. b.logSeq + (n + e + 1) \in Nat
    BY <1>2, <1>3
  <2> QED
    BY <1>1, <1>4, <2>1, ClosingLogTyped
<1>9. ASSUME NEW i \in 1 .. n + e + 1
      PROVE  r.logs[i] \in Logs
  <2>1. CASE i = n + e + 1
    BY <1>8, <2>1
  <2>2. CASE i # n + e + 1
    <3>1. i \in 1 .. n + e
      BY <1>2, <2>2
    <3>2. CASE \E k \in 1 .. n : i = 2 * k - 1
      BY <1>6, <3>2
    <3>3. CASE \E k \in 1 .. e : i = 2 * k
      BY <1>7, <3>3
    <3> QED
      BY <1>1, <3>1, <3>2, <3>3
  <2> QED
    BY <2>1, <2>2
<1>10. IsSequence(r.logs) /\ Len(r.logs) = n + e + 1
  BY <1>1, <1>2, FunctionSequence
<1>11. Range(r.logs) = {r.logs[i] : i \in 1 .. n + e + 1}
  BY <1>10, SequenceFacts
<1> QED
  BY <1>9, <1>11 DEF r

\* What a message makes of a book, and what its logs say.
LEMMA HandleTells ==
    ASSUME NEW b, IsOrderBook(b), NEW bits, NEW message \in Messages
    PROVE  LET result == Handle(b, bits, message)
           IN  IsOrderBook(result.book) /\ Range(result.logs) \subseteq Logs
<1> DEFINE o == message.order
           cancelled == CancelOrder(b, o)
           t == TakerOf(o)
           completed == Complete(b, t)
           result == Handle(b, bits, message)
<1>1. o \in Orders
  BY DEF Messages
<1>2. \/ result.book = cancelled.book /\ result.logs = cancelled.logs
      \/ result.book = completed.book /\ result.logs = completed.logs
      \/ result.book = b /\ result.logs = << >>
  BY DEF Handle, ApplyOrder
<1>3. IsOrderBook(completed.book) /\ Range(completed.logs) \subseteq Logs
  BY <1>1, TakerOfOrder, CompleteKeepsBook, CompleteLogsTyped
<1>4. IsOrderBook(cancelled.book)
  BY <1>1, CancelEffects
<1>5. Range(cancelled.logs) \subseteq Logs
  <2> DEFINE entry == Entry(b, o)
             m == CHOOSE x \in entry : TRUE
             log == DoneLog(b.logSeq + 1, m, m.size, "cancelled")
  <2>1. CASE entry = {}
    <3>1. cancelled.logs = << >>
      BY <2>1 DEF CancelOrder
    <3> QED
      BY <3>1, EmptySequence
  <2>2. CASE entry # {}
    <3>1. cancelled.logs = <<log>>
      BY <2>2 DEF CancelOrder
    <3>2. m \in b.depths[o.side]
      BY <2>2 DEF Entry
    <3>3. m \in RestingOrders
      BY <1>1, <3>2, OrderFacts DEF IsOrderBook, IsDepth
    <3>4. b.logSeq + 1 \in Nat /\ IsTaker(t)
      BY <1>1, TakerOfOrder DEF IsOrderBook, IsBook
    <3>5. log \in Logs
      BY <3>3, <3>4, MakerLogsTyped
    <3> HIDE DEF log
    <3>6. IsSequence(<<log>>) /\ Len(<<log>>) = 1 /\ <<log>>[1] = log
      BY OneElement
    <3>7. Range(<<log>>) = {<<log>>[i] : i \in 1 .. 1}
      BY <3>6, SequenceFacts
    <3> QED
      BY <3>1, <3>5, <3>6, <3>7
  <2> QED
    BY <2>1, <2>2
<1> HIDE DEF result, cancelled, completed
<1>6. IsOrderBook(result.book) /\ Range(result.logs) \subseteq Logs
  BY <1>2, <1>3, <1>4, <1>5, EmptySequence
<1> QED
  BY <1>6 DEF result

\* What a message does to a book and its bitmap.
LEMMA HandleTyped ==
    ASSUME NEW b, IsOrderBook(b), NEW bits \in Windows, NEW message \in Messages
    PROVE  LET result == Handle(b, bits, message)
           IN  /\ IsOrderBook(result.book)
               /\ result.window \in Windows
               /\ IsSequence(result.logs)
               /\ Range(result.logs) \subseteq Logs
               /\ Len(result.logs) \in Nat
               /\ b.logSeq \in Nat
               /\ result.book.logSeq = b.logSeq + Len(result.logs)
               /\ \A i \in 1 .. Len(result.logs) :
                     result.logs[i].seq = b.logSeq + i
<1> DEFINE r == Handle(b, bits, message)
           n == r.book.logSeq - b.logSeq
<1>1. ContinuesBook(r, b)
  BY HandleContinues DEF IsOrderBook
<1>2. r.window \in Windows
  BY HandleWindow DEF Windows
<1>6. IsOrderBook(r.book) /\ Range(r.logs) \subseteq Logs
  BY HandleTells
<1> HIDE DEF r
<1>3. b.logSeq \in Nat
  BY DEF IsOrderBook, IsBook
<1>4. n \in Nat /\ r.book.logSeq = b.logSeq + n
  BY <1>1, <1>3 DEF ContinuesBook, IsBook
<1>5. IsSequence(r.logs) /\ Len(r.logs) = n
  BY <1>1, <1>4, FunctionSequence DEF ContinuesBook
<1> QED
  BY <1>1, <1>2, <1>3, <1>4, <1>5, <1>6 DEF ContinuesBook, r

\* The records after a message.
LEMMA RecordsGrow ==
    ASSUME RecordsOK, NEW r, IsOrderBook(r.book), IsSequence(r.logs),
           Range(r.logs) \subseteq Logs, NEW w \in Windows,
           Len(topic) \in Nat, UNCHANGED <<topic, store>>,
           \/ /\ Len(past) \in 1 .. Len(topic)
              /\ past' = Append(past, [book |-> r.book, window |-> w])
              /\ journal' = journal \o r.logs
           \/ UNCHANGED <<past, journal>>
    PROVE  RecordsOK'
<1> DEFINE new == [book |-> r.book, window |-> w]
<1>1. new = [book |-> new.book, window |-> new.window] /\ new.book = r.book
      /\ new.window = w
  OBVIOUS
<1>2. CASE /\ Len(past) \in 1 .. Len(topic)
           /\ past' = Append(past, new)
           /\ journal' = journal \o r.logs
  <2> HIDE DEF new
  <2>1. /\ IsSequence(past') /\ Len(past') = Len(past) + 1
        /\ \A k \in 1 .. Len(past) : past'[k] = past[k]
        /\ past'[Len(past) + 1] = new
    BY <1>2, AppendSequence DEF RecordsOK
  <2>2. IsSequence(journal') /\ Range(journal') \subseteq Logs
    BY <1>2, ConcatSequence DEF RecordsOK
  <2>3. Len(past') \in 1 .. Len(topic) + 1
    BY <1>2, <2>1
  <2>4. ASSUME NEW k \in 1 .. Len(past')
        PROVE  /\ past'[k] = [book |-> past'[k].book, window |-> past'[k].window]
               /\ IsOrderBook(past'[k].book)
               /\ past'[k].window \in Windows
    <3>1. CASE k = Len(past) + 1
      BY <1>1, <2>1, <3>1
    <3>2. CASE k # Len(past) + 1
      <4>1. k \in 1 .. Len(past)
        BY <1>2, <2>1, <3>2
      <4> QED
        BY <2>1, <4>1 DEF RecordsOK
    <3> QED
      BY <3>1, <3>2
  <2> QED
    BY <2>1, <2>2, <2>3, <2>4 DEF RecordsOK
<1>3. CASE UNCHANGED <<past, journal>>
  BY <1>3, RecordsStay
<1> QED
  BY <1>2, <1>3

LEMMA ApplyTyped ==
    ASSUME TypeInv, Apply
    PROVE  /\ TypeInv'
           /\ Seen' = Seen + 1
           /\ applied' = Seen
           /\ applied <= applied'
           /\ Seen + 1 \in 1 .. Len(topic)
           /\ Waiting' = Waiting
<1> USE DEF Apply, fetcherVars, committerVars, snapshotVars, durable
<1> DEFINE r == Handle(book, window, topic[Seen + 1])
<1>1. /\ orderCh # << >> /\ orderCh' = Tail(orderCh) /\ Head(orderCh) = Seen
      /\ Seen + 1 \in 1 .. Len(topic) /\ topic \in Seq(Messages)
      /\ Len(topic) \in Nat
  BY SeenFacts DEF TypeInv
<1>2. topic[Seen + 1] \in Messages
  BY <1>1, ElementOfSeq
<1>3. /\ book' = r.book /\ window' = r.window /\ outbox' = r.logs
      /\ applied' = Head(orderCh)
  BY <1>1
<1> HIDE DEF Apply
<1>4. UNCHANGED <<topic, fetchNext, lastOffset, reqCh>>
  BY DEF Apply
<1>5. /\ TopicOK' /\ OffsetsOK' /\ Seen' = Seen + 1 /\ applied' = Seen
      /\ applied <= applied'
  BY <1>1, <1>3, <1>4, TakesOffset
<1>6. /\ IsOrderBook(r.book) /\ r.window \in Windows
      /\ IsSequence(r.logs) /\ Range(r.logs) \subseteq Logs
  BY <1>2, HandleTyped DEF TypeInv, MemoryOK
<1> DEFINE w == Handle(past[Seen + 1].book, past[Seen + 1].window, topic[Seen + 1]).window
<1>7. Len(past) = Seen + 1 => w \in Windows
  <2>1. Len(past) = Seen + 1 => past[Seen + 1].window \in Windows
    BY DEF TypeInv, RecordsOK
  <2> QED
    BY <1>2, <2>1, HandleTyped DEF TypeInv, RecordsOK
<1>14. /\ Len(past) = Seen + 1 =>
             /\ past' = Append(past, [book |-> r.book, window |-> w])
             /\ journal' = journal \o r.logs
       /\ Len(past) # Seen + 1 => UNCHANGED <<past, journal>>
       /\ UNCHANGED <<topic, store>>
  BY <1>1 DEF Apply
<1> HIDE DEF r, w
<1>15. RecordsOK'
  <2>1. CASE Len(past) = Seen + 1
    <3>1. Len(past) \in 1 .. Len(topic)
      BY <1>1, <2>1
    <3>2. /\ w \in Windows
          /\ past' = Append(past, [book |-> r.book, window |-> w])
          /\ journal' = journal \o r.logs
      BY <1>7, <1>14, <2>1, Zenon
    <3>3. RecordsOK
      BY DEF TypeInv
    <3>4. Len(topic) \in Nat /\ UNCHANGED <<topic, store>>
      BY <1>1, <1>14, Zenon
    <3> QED
      BY <1>6, <3>1, <3>2, <3>3, <3>4, RecordsGrow
  <2>2. CASE Len(past) # Seen + 1
    BY <1>14, <2>2, RecordsStay DEF TypeInv
  <2> QED
    BY <2>1, <2>2
<1>8. MemoryOK'
  BY <1>3, <1>6 DEF MemoryOK
<1>9. CommitterOK'
  BY CommitterStays DEF TypeInv, Apply
<1>10. Waiting' = Waiting /\ Copied' = Copied
  BY DEF Apply, Waiting, Copied
<1>11. applied \in Nat /\ applied' \in Nat
  BY <1>1, <1>5 DEF TypeInv, OffsetsOK
<1>12. \A s \in Waiting' : s.offset \in 1 .. applied' /\ IsOrderBook(s.book)
  BY <1>5, <1>10, <1>11 DEF TypeInv, SnapshotsOK
<1>13. SnapshotsOK'
  BY <1>10, <1>12 DEF TypeInv, SnapshotsOK, Apply
<1> QED
  BY <1>1, <1>5, <1>8, <1>9, <1>10, <1>13, <1>15 DEF TypeInv

LEMMA SendLogTyped ==
    ASSUME TypeInv, SendLog
    PROVE  /\ TypeInv' /\ Seen' = Seen /\ Waiting' = Waiting
           /\ Range(outbox') \subseteq Range(outbox)
           /\ Range(logCh') \subseteq Range(logCh) \cup Range(outbox)
<1> USE DEF SendLog, fetcherVars, committerVars, snapshotVars, durable, auxVars
<1>1. /\ IsSequence(outbox') /\ Range(outbox') \subseteq Range(outbox)
      /\ Head(outbox) \in Range(outbox)
  BY TailSequence DEF TypeInv, MemoryOK
<1>2. /\ IsSequence(logCh') /\ Range(logCh') = Range(logCh) \cup {Head(outbox)}
      /\ Len(logCh') = Len(logCh) + 1
  BY AppendSequence DEF TypeInv, CommitterOK
<1>3. Len(logCh) \in Nat /\ LogChCap \in Nat
  BY SequenceFacts, ChannelsAssumption DEF TypeInv, CommitterOK
<1>4. MemoryOK'
  BY <1>1 DEF TypeInv, MemoryOK
<1>5. CommitterOK'
  BY <1>1, <1>2, <1>3 DEF TypeInv, CommitterOK, MemoryOK
<1> QED
  BY <1>1, <1>2, <1>4, <1>5, TopicStays, OffsetsStay, SnapshotsStay,
     RecordsStay DEF TypeInv

LEMMA TakeSnapshotTyped ==
    ASSUME TypeInv, TakeSnapshot
    PROVE  /\ TypeInv' /\ Seen' = Seen
           /\ \/ Waiting' = Waiting /\ UNCHANGED approveCh
              \/ /\ applied - Head(reqCh) > SnapshotDelta
                 /\ Head(reqCh) \in 0 .. Len(topic)
                 /\ applied # 0
                 /\ approveCh' = Append(approveCh, Copy)
                 /\ Waiting' = Waiting \cup {Copy}
<1> USE DEF TakeSnapshot, applierVars, fetcherVars, committerVars, snapshotVars, durable,
           auxVars
<1>1. TopicOK' /\ Seen' = Seen /\ MemoryOK' /\ CommitterOK' /\ RecordsOK'
  BY TopicStays, MemoryStays, CommitterStays, RecordsStay DEF TypeInv
<1>2. Len(topic) \in Nat /\ Seen \in 0 .. Len(topic)
  BY SeenFacts DEF TypeInv
<1>3. reqCh' \in Seq(0 .. Len(topic)) /\ Head(reqCh) \in 0 .. Len(topic)
  BY HeadTailProperties DEF TypeInv, OffsetsOK
<1>4. OffsetsOK'
  BY <1>1, <1>3 DEF TypeInv, OffsetsOK
<1>5. CASE applied - Head(reqCh) <= SnapshotDelta
  <2>1. UNCHANGED approveCh
    BY <1>5
  <2>2. SnapshotsOK' /\ Waiting' = Waiting
    BY <2>1, SnapshotsStay DEF TypeInv
  <2> QED
    BY <1>1, <1>4, <2>1, <2>2 DEF TypeInv
<1>6. CASE ~ (applied - Head(reqCh) <= SnapshotDelta)
  <2>1. approveCh' = Append(approveCh, Copy)
    BY <1>6
  <2>2. applied \in Nat /\ applied # 0 /\ applied - Head(reqCh) > SnapshotDelta
    BY <1>2, <1>3, <1>6, BoundsAssumption DEF TypeInv, OffsetsOK
  <2>3. IsSequence(approveCh') /\ Range(approveCh') = Range(approveCh) \cup {Copy}
    BY <2>1, AppendSequence DEF TypeInv, SnapshotsOK
  <2>4. /\ Copy.offset = applied /\ Copy.book = book /\ Copy # NoSnapshot
        /\ Copy = [offset |-> Copy.offset, book |-> Copy.book]
    <3>1. /\ Copy.offset = applied /\ Copy.book = book /\ NoSnapshot.offset = -1
          /\ Copy = [offset |-> Copy.offset, book |-> Copy.book]
      BY DEF Copy, NoSnapshot
    <3> QED
      BY <2>2, <3>1
  <2>5. Waiting' = Waiting \cup {Copy} /\ Copied' = Copied \cup {Copy}
    BY <2>3, <2>4 DEF Waiting, Copied
  <2>6. \A s \in Waiting' : s.offset \in 1 .. applied' /\ IsOrderBook(s.book)
    BY <2>2, <2>4, <2>5 DEF TypeInv, SnapshotsOK, MemoryOK
  <2>7. SnapshotsOK'
    BY <2>3, <2>4, <2>5, <2>6 DEF TypeInv, SnapshotsOK
  <2> QED
    BY <1>1, <1>3, <1>4, <2>1, <2>2, <2>5, <2>7 DEF TypeInv
<1> QED
  BY <1>5, <1>6
LEMMA StartCommitterTyped ==
    ASSUME TypeInv, StartCommitter
    PROVE  TypeInv' /\ Seen' = Seen /\ Waiting' = Waiting
<1> USE DEF StartCommitter, applierVars, fetcherVars, snapshotVars, durable, auxVars
<1>1. TopicOK' /\ Seen' = Seen /\ MemoryOK' /\ SnapshotsOK' /\ Waiting' = Waiting
      /\ RecordsOK'
  BY TopicStays, MemoryStays, SnapshotsStay, RecordsStay DEF TypeInv
<1>2. OffsetsOK'
  BY <1>1, OffsetsStay DEF TypeInv
<1>3. book.logSeq \in Nat
  BY DEF TypeInv, MemoryOK, IsOrderBook, IsBook
<1>4. CommitterOK'
  BY <1>3 DEF TypeInv, CommitterOK
<1> QED
  BY <1>1, <1>2, <1>4 DEF TypeInv

LEMMA TakeLogTyped ==
    ASSUME TypeInv, TakeLog
    PROVE  /\ TypeInv' /\ Seen' = Seen /\ Waiting' = Waiting
           /\ Range(logCh') \subseteq Range(logCh)
           /\ Range(batch') \subseteq Range(batch) \cup Range(logCh)
<1> USE DEF TakeLog, applierVars, fetcherVars, snapshotVars, durable, auxVars
<1>1. TopicOK' /\ Seen' = Seen /\ MemoryOK' /\ SnapshotsOK' /\ Waiting' = Waiting
      /\ RecordsOK'
  BY TopicStays, MemoryStays, SnapshotsStay, RecordsStay DEF TypeInv
<1>2. OffsetsOK'
  BY <1>1, OffsetsStay DEF TypeInv
<1>3. /\ IsSequence(logCh') /\ Range(logCh') \subseteq Range(logCh)
      /\ Len(logCh') = Len(logCh) - 1
      /\ Head(logCh) \in Range(logCh)
  BY TailSequence DEF TypeInv, CommitterOK
<1>4. /\ Len(logCh) \in Nat /\ Len(batch) \in Nat
      /\ LogChCap \in Nat /\ BatchMax \in Nat
  BY SequenceFacts, ChannelsAssumption DEF TypeInv, CommitterOK
<1>5. CASE IsDuplicate(Head(logCh))
  <2>1. CommitterOK'
    BY <1>3, <1>4, <1>5 DEF TypeInv, CommitterOK
  <2> QED
    BY <1>1, <1>2, <1>3, <1>5, <2>1 DEF TypeInv
<1>6. CASE ~ IsDuplicate(Head(logCh))
  <2>1. /\ batch' = Append(batch, Head(logCh))
        /\ seq' = Head(logCh).seq
        /\ committer' = IF KeepsReading(logCh', batch') THEN "reading" ELSE "storing"
        /\ committer # "storing"
    BY <1>6
  <2>2. /\ IsSequence(batch') /\ Range(batch') = Range(batch) \cup {Head(logCh)}
        /\ Len(batch') = Len(batch) + 1 /\ batch' # << >>
    BY <2>1, AppendSequence DEF TypeInv, CommitterOK
  <2>3. seq' \in Nat /\ Head(logCh) \in Logs
    BY <1>3, <2>1 DEF TypeInv, CommitterOK, Logs
  <2>4. Len(batch') <= BatchMax
    BY <1>4, <2>1, <2>2 DEF TypeInv, CommitterOK
  <2>5. committer' # "storing" => Len(batch') < BatchMax
    BY <2>1 DEF KeepsReading
  <2>6. committer' \in {"starting", "reading", "storing"}
    BY <2>1
  <2>7. CommitterOK'
    BY <1>3, <1>4, <2>2, <2>3, <2>4, <2>5, <2>6 DEF TypeInv, CommitterOK
  <2> QED
    BY <1>1, <1>2, <1>3, <2>2, <2>7 DEF TypeInv
<1> QED
  BY <1>5, <1>6

\* A snapshot that goes from one place to the next.
LEMMA SnapshotPasses ==
    ASSUME SnapshotsOK,
           IsSequence(snapCh'), IsSequence(approveCh'),
           NoSnapshot \notin Range(snapCh') \cup Range(approveCh'),
           Waiting' \subseteq Waiting, Copied' \subseteq Copied,
           UNCHANGED <<topic, saved, applied, marshalling>>
    PROVE  SnapshotsOK'
BY DEF SnapshotsOK

LEMMA StoreLogsTyped ==
    ASSUME TypeInv, StoreLogs
    PROVE  /\ TypeInv' /\ Seen' = Seen /\ Waiting' \subseteq Waiting
<1> USE DEF StoreLogs, applierVars, fetcherVars, snapshotVars, auxVars
<1>1. TopicOK' /\ Seen' = Seen /\ MemoryOK'
  BY TopicStays, MemoryStays DEF TypeInv
<1>2. OffsetsOK'
  BY <1>1, OffsetsStay DEF TypeInv
<1>3. faults' \in 0 .. MaxFaults
  BY BoundsAssumption DEF TypeInv, CommitterOK
<1>4. /\ batch' = << >> /\ IsSequence(batch') /\ Len(batch') = 0 /\ Range(batch') = {}
      /\ Len(batch') <= BatchMax /\ Len(batch') < BatchMax
  BY EmptySequence, ChannelsAssumption
<1>5. CommitterOK'
  BY <1>3, <1>4 DEF TypeInv, CommitterOK
<1>6. SnapshotsOK' /\ Waiting' \subseteq Waiting
  <2>1. CASE pending # NoSnapshot /\ Covered(pending)
    <3>1. snapCh' = Append(snapCh, pending) /\ pending' = NoSnapshot
      BY <2>1
    <3>2. IsSequence(snapCh') /\ Range(snapCh') = Range(snapCh) \cup {pending}
      BY <3>1, AppendSequence DEF TypeInv, SnapshotsOK
    <3>3. Waiting' \subseteq Waiting /\ Copied' \subseteq Copied
      BY <3>1, <3>2 DEF Waiting, Copied
    <3> QED
      BY <3>2, <3>3, SnapshotPasses DEF TypeInv, SnapshotsOK
  <2>2. CASE ~ (pending # NoSnapshot /\ Covered(pending))
    <3>1. UNCHANGED <<snapCh, pending>>
      BY <2>2
    <3> QED
      BY <3>1, SnapshotsStay DEF TypeInv
  <2> QED
    BY <2>1, <2>2
<1>7. RecordsOK'
  <2>1. PICK n \in 0 .. Len(batch) : store' = store \o SubSeq(batch, 1, n) \o batch
    OBVIOUS
  <2>2. IsSequence(SubSeq(batch, 1, n)) /\ Range(SubSeq(batch, 1, n)) \subseteq Logs
    BY FirstPart DEF TypeInv, CommitterOK
  <2>3. /\ IsSequence(store \o SubSeq(batch, 1, n))
        /\ Range(store \o SubSeq(batch, 1, n)) \subseteq Logs
    BY <2>2, ConcatSequence DEF TypeInv, RecordsOK
  <2>4. IsSequence(store') /\ Range(store') \subseteq Logs
    BY <2>1, <2>3, ConcatSequence DEF TypeInv, CommitterOK
  <2> QED
    BY <2>4 DEF TypeInv, RecordsOK
<1> QED
  BY <1>1, <1>2, <1>5, <1>6, <1>7 DEF TypeInv

LEMMA ApproveSnapshotTyped ==
    ASSUME TypeInv, ApproveSnapshot
    PROVE  /\ TypeInv' /\ Seen' = Seen /\ Waiting' \subseteq Waiting
<1> USE DEF ApproveSnapshot, applierVars, fetcherVars, snapshotVars, durable, auxVars
<1>1. TopicOK' /\ Seen' = Seen /\ MemoryOK' /\ CommitterOK' /\ RecordsOK'
  BY TopicStays, MemoryStays, CommitterStays, RecordsStay DEF TypeInv
<1>2. OffsetsOK'
  BY <1>1, OffsetsStay DEF TypeInv
<1> DEFINE snapshot == Head(approveCh)
<1>3. /\ IsSequence(approveCh') /\ Range(approveCh') \subseteq Range(approveCh)
      /\ snapshot \in Range(approveCh)
  BY TailSequence DEF TypeInv, SnapshotsOK
<1>4. CASE Covered(snapshot)
  <2>1. snapCh' = Append(snapCh, snapshot) /\ pending' = NoSnapshot
    BY <1>4
  <2> HIDE DEF snapshot
  <2>2. IsSequence(snapCh') /\ Range(snapCh') = Range(snapCh) \cup {snapshot}
    BY <2>1, AppendSequence DEF TypeInv, SnapshotsOK
  <2>3. Waiting' \subseteq Waiting /\ Copied' \subseteq Copied
    BY <1>3, <2>1, <2>2 DEF Waiting, Copied, TypeInv, SnapshotsOK
  <2> QED
    BY <1>1, <1>2, <1>3, <2>2, <2>3, SnapshotPasses DEF TypeInv, SnapshotsOK
<1>5. CASE ~ Covered(snapshot)
  <2>1. pending' = snapshot /\ UNCHANGED snapCh
    BY <1>5
  <2> HIDE DEF snapshot
  <2>2. Waiting' \subseteq Waiting /\ Copied' \subseteq Copied
    BY <1>3, <2>1 DEF Waiting, Copied, TypeInv, SnapshotsOK
  <2> QED
    BY <1>1, <1>2, <1>3, <2>1, <2>2, SnapshotPasses DEF TypeInv, SnapshotsOK
<1> QED
  BY <1>4, <1>5

LEMMA RequestSnapshotTyped ==
    ASSUME TypeInv, RequestSnapshot
    PROVE  TypeInv' /\ Seen' = Seen /\ Waiting' = Waiting
<1> USE DEF RequestSnapshot, applierVars, fetcherVars, committerVars, snapshotVars, durable,
           auxVars
<1>1. TopicOK' /\ Seen' = Seen /\ MemoryOK' /\ CommitterOK' /\ RecordsOK'
  BY TopicStays, MemoryStays, CommitterStays, RecordsStay DEF TypeInv
<1>2. SnapshotsOK' /\ Waiting' = Waiting
  BY SnapshotsStay DEF TypeInv
<1>3. reqCh' \in Seq(0 .. Len(topic))
  BY AppendProperties DEF TypeInv, OffsetsOK
<1>4. OffsetsOK'
  BY <1>1, <1>3 DEF TypeInv, OffsetsOK
<1> QED
  BY <1>1, <1>2, <1>4 DEF TypeInv
LEMMA MarshalSnapshotTyped ==
    ASSUME TypeInv, MarshalSnapshot
    PROVE  /\ TypeInv' /\ Seen' = Seen
           /\ Head(snapCh) \in Waiting
           /\ marshalling' # NoSnapshot
           /\ marshalling'.offset = Head(snapCh).offset
           /\ marshalling'.book = Head(snapCh).book
           /\ Waiting' \subseteq Waiting \cup {marshalling'}
<1> USE DEF MarshalSnapshot, applierVars, fetcherVars, committerVars, durable,
           auxVars
<1>1. TopicOK' /\ Seen' = Seen /\ MemoryOK' /\ CommitterOK' /\ RecordsOK'
  BY TopicStays, MemoryStays, CommitterStays, RecordsStay DEF TypeInv
<1>2. OffsetsOK'
  BY <1>1, OffsetsStay DEF TypeInv
<1>3. /\ IsSequence(snapCh') /\ Range(snapCh') \subseteq Range(snapCh)
      /\ Head(snapCh) \in Range(snapCh)
  BY TailSequence DEF TypeInv, SnapshotsOK
<1>4. /\ marshalling'.offset = Head(snapCh).offset
      /\ marshalling'.book = Head(snapCh).book
      /\ marshalling'.window = window
      /\ marshalling' = [offset |-> marshalling'.offset, book |-> marshalling'.book,
                         window |-> marshalling'.window]
  OBVIOUS
<1>5. UNCHANGED <<topic, saved, applied, pending, approveCh>>
  OBVIOUS
<1> HIDE DEF MarshalSnapshot
<1>6. Head(snapCh) \in Waiting
  BY <1>3 DEF TypeInv, SnapshotsOK, Waiting
<1>7. Len(topic) \in Nat /\ applied \in Nat
  BY SeenFacts DEF TypeInv, OffsetsOK
<1>8. Head(snapCh).offset \in 1 .. applied /\ IsOrderBook(Head(snapCh).book)
  BY <1>6 DEF TypeInv, SnapshotsOK
<1>9. marshalling' # NoSnapshot
  <2>1. NoSnapshot.offset = -1
    BY DEF NoSnapshot
  <2> QED
    BY <1>4, <1>7, <1>8, <2>1
<1>10. Waiting' \subseteq Waiting \cup {marshalling'} /\ Copied' \subseteq Copied
  BY <1>3, <1>5 DEF Waiting, Copied
<1>11. \A s \in Waiting' : s.offset \in 1 .. applied' /\ IsOrderBook(s.book)
  BY <1>4, <1>5, <1>8, <1>10 DEF TypeInv, SnapshotsOK
<1>12. SnapshotsOK'
  BY <1>3, <1>4, <1>5, <1>10, <1>11 DEF TypeInv, SnapshotsOK, MemoryOK
<1> QED
  BY <1>1, <1>2, <1>4, <1>6, <1>9, <1>10, <1>12 DEF TypeInv

LEMMA SaveSnapshotTyped ==
    ASSUME TypeInv, SaveSnapshot
    PROVE  /\ TypeInv' /\ Seen' = Seen
           /\ marshalling \in Waiting
           /\ saved'.offset = marshalling.offset
           /\ saved'.book = marshalling.book
           /\ lastOffset' = marshalling.offset
           /\ Waiting' \subseteq Waiting
<1>1. TopicOK' /\ Seen' = Seen /\ MemoryOK' /\ CommitterOK' /\ RecordsOK'
  BY TopicStays, MemoryStays, CommitterStays, RecordsStay
     DEF TypeInv, SaveSnapshot, applierVars, fetcherVars, committerVars, auxVars
<1>2. marshalling \in Waiting
  BY DEF SaveSnapshot, Waiting
<1>3. /\ Len(topic) \in Nat /\ applied \in Nat /\ Seen \in 0 .. Len(topic)
      /\ lastOffset \in Nat
  BY SeenFacts DEF TypeInv, OffsetsOK
<1>4. /\ marshalling.offset \in 1 .. applied /\ IsOrderBook(marshalling.book)
      /\ marshalling.window \in Windows
      /\ marshalling = [offset |-> marshalling.offset, book |-> marshalling.book,
                        window |-> marshalling.window]
  BY <1>2 DEF TypeInv, SnapshotsOK, SaveSnapshot
<1>5. PICK missed \in SUBSET (window \ marshalling.window) :
         saved' = [marshalling EXCEPT !.window = window \ missed]
  BY DEF SaveSnapshot
<1>6. /\ saved'.offset = marshalling.offset /\ saved'.book = marshalling.book
      /\ saved'.window \in Windows
      /\ saved' = [offset |-> saved'.offset, book |-> saved'.book, window |-> saved'.window]
  BY <1>4, <1>5 DEF TypeInv, MemoryOK, Windows
<1>7. /\ UNCHANGED <<topic, applied, pending, snapCh, approveCh, reqCh>>
      /\ marshalling' = NoSnapshot /\ lastOffset' = marshalling.offset
  BY DEF SaveSnapshot, applierVars, committerVars
<1>8. Waiting' \subseteq Waiting /\ Copied' \subseteq Copied
  BY <1>7 DEF Waiting, Copied
<1>9. marshalling.offset \in 1 .. Len(topic) - 1
  BY <1>3, <1>4 DEF TypeInv, OffsetsOK
<1>10. OffsetsOK'
  BY <1>1, <1>3, <1>4, <1>7, <1>9 DEF TypeInv, OffsetsOK
<1>11. SnapshotsOK'
  BY <1>4, <1>6, <1>7, <1>8, <1>9 DEF TypeInv, SnapshotsOK
<1> QED
  BY <1>1, <1>2, <1>6, <1>7, <1>8, <1>10, <1>11 DEF TypeInv

LEMMA SaveSnapshotFailsTyped ==
    ASSUME TypeInv, SaveSnapshotFails
    PROVE  TypeInv' /\ Seen' = Seen /\ Waiting' \subseteq Waiting
<1> USE DEF SaveSnapshotFails, applierVars, fetcherVars, committerVars, durable,
           auxVars
<1>1. TopicOK' /\ Seen' = Seen /\ MemoryOK' /\ CommitterOK' /\ RecordsOK'
  BY TopicStays, MemoryStays, CommitterStays, RecordsStay DEF TypeInv
<1>2. OffsetsOK'
  BY <1>1, OffsetsStay DEF TypeInv
<1>3. Waiting' \subseteq Waiting /\ Copied' \subseteq Copied
  BY DEF Waiting, Copied
<1>4. SnapshotsOK'
  BY <1>3 DEF TypeInv, SnapshotsOK
<1> QED
  BY <1>1, <1>2, <1>3, <1>4 DEF TypeInv

LEMMA EmptyBookIsBook == IsBook(EmptyBook) /\ IsOrderBook(EmptyBook)
<1>1. EmptyBook = [depths |-> [side \in Sides |-> {}], logSeq |-> 0, tradeSeq |-> 0]
  BY DEF EmptyBook
<1>2. /\ EmptyBook.depths = [side \in Sides |-> {}]
      /\ EmptyBook.logSeq = 0 /\ EmptyBook.tradeSeq = 0
  BY <1>1
<1>3. \A side \in Sides : IsFiniteSet(EmptyBook.depths[side])
  BY <1>2, FS_EmptySet
<1>4. EmptyBook.depths = [side \in Sides |-> EmptyBook.depths[side]]
  BY <1>2
<1>5. EmptyBook = [depths |-> EmptyBook.depths, logSeq |-> EmptyBook.logSeq,
                   tradeSeq |-> EmptyBook.tradeSeq]
  BY <1>1, <1>2, Zenon
<1>6. \A side \in Sides : IsDepth(EmptyBook.depths[side], side)
  BY <1>2 DEF IsDepth
<1> QED
  BY <1>2, <1>3, <1>4, <1>5, <1>6 DEF IsBook, IsOrderBook

\* What a start leaves of the process.
LEMMA RestartTyped ==
    ASSUME TypeInv, Restart, UNCHANGED <<topic, saved>>, faults' \in 0 .. MaxFaults
    PROVE  /\ TopicOK' /\ OffsetsOK' /\ MemoryOK' /\ CommitterOK' /\ SnapshotsOK'
           /\ Waiting' = {}
           /\ applied' = 0
           /\ Range(outbox') = {} /\ Range(logCh') = {} /\ Range(batch') = {}
           /\ saved = NoSnapshot => Seen' = 0 /\ book' = EmptyBook /\ window' = {}
                                    /\ lastOffset' = 0
           /\ saved # NoSnapshot => Seen' = saved.offset + 1 /\ book' = saved.book
                                    /\ window' = saved.window
                                    /\ lastOffset' = saved.offset
<1>1. /\ orderCh' = << >> /\ logCh' = << >> /\ reqCh' = << >> /\ approveCh' = << >>
      /\ snapCh' = << >> /\ applied' = 0 /\ outbox' = << >> /\ batch' = << >>
      /\ pending' = NoSnapshot /\ marshalling' = NoSnapshot
      /\ committer' \in {"starting", "reading"}
      /\ seq' = Restored.book.logSeq
      /\ fetchNext' = Restored.fetchNext
  BY DEF Restart
<1>2. /\ saved = NoSnapshot => /\ book' = EmptyBook /\ window' = {}
                               /\ fetchNext' = 0 /\ lastOffset' = 0
                               /\ Restored.book = EmptyBook
      /\ saved # NoSnapshot => /\ book' = saved.book /\ window' = saved.window
                               /\ fetchNext' = saved.offset + 1
                               /\ lastOffset' = saved.offset
                               /\ Restored.book = saved.book
  BY DEF Restart, Restored
<1>3. Len(topic) \in Nat
  BY SeenFacts DEF TypeInv
<1>4. saved # NoSnapshot => /\ saved.offset \in 1 .. Len(topic) - 1
                            /\ IsOrderBook(saved.book)
                            /\ saved.window \in Windows
  BY DEF TypeInv, SnapshotsOK
<1>5. Len(orderCh') = 0 /\ Len(logCh') = 0 /\ Len(batch') = 0
  BY <1>1, EmptySequence
<1>6. Seen' = fetchNext' /\ fetchNext' \in 0 .. Len(topic)
  BY <1>2, <1>3, <1>4, <1>5 DEF Seen
<1>7. IsOrderBook(book') /\ window' \in Windows
  BY <1>2, <1>4, EmptyBookIsBook DEF Windows
<1>8. TopicOK'
  <2>1. orderCh' \in Seq(0 .. Len(topic') - 1)
    BY <1>1, EmptySeq
  <2> QED
    BY <1>3, <1>5, <1>6, <2>1, ChannelsAssumption DEF TypeInv, TopicOK
<1>9. OffsetsOK'
  <2>1. reqCh' \in Seq(0 .. Len(topic'))
    BY <1>1, EmptySeq
  <2> QED
    BY <1>1, <1>2, <1>3, <1>4, <1>6, <2>1 DEF OffsetsOK
<1>10. /\ IsSequence(outbox') /\ Range(outbox') = {}
       /\ IsSequence(logCh') /\ Range(logCh') = {}
       /\ IsSequence(batch') /\ Range(batch') = {}
       /\ IsSequence(snapCh') /\ Range(snapCh') = {}
       /\ IsSequence(approveCh') /\ Range(approveCh') = {}
  BY <1>1, EmptySequence
<1>11. MemoryOK'
  BY <1>7, <1>10 DEF MemoryOK
<1>12. Restored.book.logSeq \in Nat
  BY <1>2, <1>4, EmptyBookIsBook DEF IsOrderBook, IsBook
<1>13. CommitterOK'
  BY <1>1, <1>5, <1>10, <1>12, ChannelsAssumption DEF CommitterOK
<1>14. Waiting' = {} /\ Copied' = {}
  BY <1>1, <1>10 DEF Waiting, Copied
<1>15. SnapshotsOK'
  BY <1>1, <1>4, <1>10, <1>14 DEF SnapshotsOK, TypeInv
<1> QED
  BY <1>1, <1>2, <1>6, <1>8, <1>9, <1>10, <1>11, <1>13, <1>14, <1>15
LEMMA CrashTyped ==
    ASSUME TypeInv, Crash
    PROVE  TypeInv'
<1>1. Restart /\ UNCHANGED <<topic, store, saved, past, journal>>
  BY DEF Crash, durable, auxVars
<1>2. faults' \in 0 .. MaxFaults
  BY BoundsAssumption DEF Crash, Fault, TypeInv, CommitterOK
<1> QED
  BY <1>1, <1>2, RestartTyped, RecordsStay DEF TypeInv

LEMMA StoreLogsFailsTyped ==
    ASSUME TypeInv, StoreLogsFails
    PROVE  TypeInv'
<1>1. Restart /\ UNCHANGED <<topic, saved, past, journal>>
  BY DEF StoreLogsFails, auxVars
<1>2. faults' \in 0 .. MaxFaults
  BY BoundsAssumption DEF StoreLogsFails, Fault, TypeInv, CommitterOK
<1>3. RecordsOK'
  <2>1. PICK n \in 1 .. Len(batch) : store' = store \o SubSeq(batch, 1, n)
    BY DEF StoreLogsFails
  <2>2. Len(batch) \in Nat /\ n \in 0 .. Len(batch)
    BY SequenceFacts DEF TypeInv, CommitterOK
  <2>3. IsSequence(SubSeq(batch, 1, n)) /\ Range(SubSeq(batch, 1, n)) \subseteq Logs
    BY <2>2, FirstPart DEF TypeInv, CommitterOK
  <2>4. IsSequence(store') /\ Range(store') \subseteq Logs
    BY <2>1, <2>3, ConcatSequence DEF TypeInv, RecordsOK
  <2> QED
    BY <1>1, <2>4 DEF TypeInv, RecordsOK
<1> QED
  BY <1>1, <1>2, <1>3, RestartTyped DEF TypeInv

LEMMA ExpireSnapshotTyped ==
    ASSUME TypeInv, ExpireSnapshot
    PROVE  TypeInv' /\ Seen' = Seen /\ Waiting' = Waiting
<1> USE DEF ExpireSnapshot, applierVars, fetcherVars, committerVars, snapshotVars,
           auxVars
<1>1. TopicOK' /\ Seen' = Seen /\ MemoryOK' /\ CommitterOK' /\ RecordsOK'
  BY TopicStays, MemoryStays, CommitterStays, RecordsStay DEF TypeInv
<1>2. OffsetsOK'
  BY <1>1, OffsetsStay DEF TypeInv
<1>3. Waiting' = Waiting /\ Copied' = Copied
  BY DEF Waiting, Copied
<1>4. SnapshotsOK'
  BY <1>3 DEF TypeInv, SnapshotsOK
<1> QED
  BY <1>1, <1>2, <1>3, <1>4 DEF TypeInv

LEMMA StutterTyped ==
    ASSUME TypeInv, UNCHANGED vars
    PROVE  TypeInv' /\ Seen' = Seen /\ Waiting' = Waiting
<1> USE DEF vars, applierVars, fetcherVars, committerVars, snapshotVars, durable, auxVars
<1>1. TopicOK' /\ Seen' = Seen /\ MemoryOK' /\ CommitterOK' /\ SnapshotsOK'
      /\ Waiting' = Waiting /\ RecordsOK'
  BY TopicStays, MemoryStays, CommitterStays, SnapshotsStay, RecordsStay DEF TypeInv
<1>2. OffsetsOK'
  BY <1>1, OffsetsStay DEF TypeInv
<1> QED
  BY <1>1, <1>2 DEF TypeInv

LEMMA InitTyped ==
    ASSUME Init
    PROVE  TypeInv /\ Waiting = {} /\ Seen = 0
<1>1. /\ topic \in Topics /\ fetchNext = 0 /\ orderCh = << >> /\ applied = 0
      /\ lastOffset = 0 /\ reqCh = << >> /\ outbox = << >> /\ book = EmptyBook
      /\ window = {} /\ logCh = << >> /\ seq = 0 /\ batch = << >> /\ faults = 0
      /\ committer \in {"starting", "reading"} /\ saved = NoSnapshot
      /\ snapCh = << >> /\ approveCh = << >>
      /\ pending = NoSnapshot /\ marshalling = NoSnapshot
      /\ store = << >> /\ journal = << >>
      /\ past = <<[book |-> EmptyBook, window |-> {}]>>
  BY DEF Init
<1>2. Len(topic) \in Nat
  BY <1>1, TopicsAssumption, LenProperties
<1>3. /\ Len(orderCh) = 0 /\ Len(logCh) = 0 /\ Len(batch) = 0
      /\ IsSequence(outbox) /\ Range(outbox) = {}
      /\ IsSequence(logCh) /\ Range(logCh) = {}
      /\ IsSequence(batch) /\ Range(batch) = {}
      /\ IsSequence(store) /\ Range(store) = {}
      /\ IsSequence(journal) /\ Range(journal) = {}
      /\ IsSequence(snapCh) /\ Range(snapCh) = {}
      /\ IsSequence(approveCh) /\ Range(approveCh) = {}
  BY <1>1, EmptySequence
<1>4. Seen = 0
  <2>1. fetchNext = 0 /\ Len(orderCh) = 0
    BY <1>1, <1>3
  <2> QED
    BY <2>1 DEF Seen
<1>5. TopicOK
  <2>1. orderCh \in Seq(0 .. Len(topic) - 1)
    BY <1>1, EmptySeq
  <2> QED
    BY <1>1, <1>2, <1>3, <2>1, ChannelsAssumption DEF TopicOK
<1>6. OffsetsOK
  <2>1. reqCh \in Seq(0 .. Len(topic))
    BY <1>1, EmptySeq
  <2> QED
    BY <1>1, <1>2, <1>4, <2>1 DEF OffsetsOK
<1>7. MemoryOK
  BY <1>1, <1>3, EmptyBookIsBook DEF MemoryOK, Windows
<1>8. CommitterOK
  BY <1>1, <1>3, ChannelsAssumption, BoundsAssumption DEF CommitterOK
<1>9. Waiting = {} /\ Copied = {}
  BY <1>1, <1>3 DEF Waiting, Copied
<1>10. SnapshotsOK
  BY <1>1, <1>3, <1>9 DEF SnapshotsOK
<1>11. RecordsOK
  <2> DEFINE first == [book |-> EmptyBook, window |-> {}]
  <2>1. first = [book |-> first.book, window |-> first.window]
        /\ first.book = EmptyBook /\ first.window = {}
    OBVIOUS
  <2> HIDE DEF first
  <2>2. IsSequence(past) /\ Len(past) = 1 /\ past[1] = first
    BY <1>1, OneElement DEF first
  <2>3. Len(past) \in 1 .. Len(topic) + 1
    BY <1>2, <2>2
  <2>4. \A k \in 1 .. Len(past) : k = 1
    BY <2>2
  <2>5. /\ past[1] = [book |-> past[1].book, window |-> past[1].window]
        /\ IsOrderBook(past[1].book)
        /\ past[1].window \in Windows
    BY <2>1, <2>2, EmptyBookIsBook DEF Windows
  <2> QED
    BY <1>3, <2>2, <2>3, <2>4, <2>5 DEF RecordsOK
<1> QED
  BY <1>4, <1>5, <1>6, <1>7, <1>8, <1>9, <1>10, <1>11 DEF TypeInv

LEMMA NextTyped == TypeInv /\ [Next]_vars => TypeInv'
<1> SUFFICES ASSUME TypeInv, [Next]_vars
             PROVE  TypeInv'
  OBVIOUS
<1>1. CASE Fetch                BY <1>1, FetchTyped
<1>2. CASE Apply                BY <1>2, ApplyTyped
<1>3. CASE SendLog              BY <1>3, SendLogTyped
<1>4. CASE TakeSnapshot         BY <1>4, TakeSnapshotTyped
<1>5. CASE StartCommitter       BY <1>5, StartCommitterTyped
<1>6. CASE TakeLog              BY <1>6, TakeLogTyped
<1>7. CASE StoreLogs            BY <1>7, StoreLogsTyped
<1>8. CASE ApproveSnapshot      BY <1>8, ApproveSnapshotTyped
<1>9. CASE RequestSnapshot      BY <1>9, RequestSnapshotTyped
<1>10. CASE MarshalSnapshot     BY <1>10, MarshalSnapshotTyped
<1>11. CASE SaveSnapshot        BY <1>11, SaveSnapshotTyped
<1>12. CASE SaveSnapshotFails   BY <1>12, SaveSnapshotFailsTyped
<1>13. CASE Crash               BY <1>13, CrashTyped
<1>14. CASE StoreLogsFails      BY <1>14, StoreLogsFailsTyped
<1>15. CASE ExpireSnapshot      BY <1>15, ExpireSnapshotTyped
<1>16. CASE UNCHANGED vars      BY <1>16, StutterTyped
<1> QED
  BY <1>1, <1>2, <1>3, <1>4, <1>5, <1>6, <1>7, <1>8, <1>9, <1>10, <1>11, <1>12,
     <1>13, <1>14, <1>15, <1>16 DEF Next

LEMMA TypeInvHolds == Spec => []TypeInv
<1>1. Init => TypeInv
  BY InitTyped
<1> QED
  BY <1>1, NextTyped, PTL DEF Spec

LEMMA OrderBookIsTyped ==
    ASSUME NEW b, IsOrderBook(b)
    PROVE  b \in Books
<1>1. \A side \in Sides : b.depths[side] \in SUBSET RestingOrders
  BY DEF IsOrderBook, IsDepth
<1>2. b.depths \in [Sides -> SUBSET RestingOrders]
  BY <1>1 DEF IsOrderBook, IsBook
<1>3. /\ b.logSeq \in Nat /\ b.tradeSeq \in Nat
      /\ b = [depths |-> b.depths, logSeq |-> b.logSeq, tradeSeq |-> b.tradeSeq]
  BY DEF IsOrderBook, IsBook
<1> QED
  BY <1>2, <1>3 DEF Books

LEMMA SequenceWithin ==
    ASSUME NEW s, IsSequence(s), NEW S, Range(s) \subseteq S
    PROVE  s \in Seq(S)
BY SeqMonotonic DEF IsSequence

LEMMA TypeInvGivesType == TypeInv => TypeOK
<1> SUFFICES ASSUME TypeInv
             PROVE  TypeOK
  OBVIOUS
<1>1. /\ Len(topic) \in Nat /\ applied \in Nat /\ Seen \in 0 .. Len(topic)
      /\ applied # 0 => Seen = applied + 1
  BY SeenFacts DEF TypeInv, OffsetsOK
<1>2. \A s \in Waiting : s.offset \in Offsets /\ s.offset > 0 /\ s.book \in Books
  BY <1>1, OrderBookIsTyped DEF TypeInv, SnapshotsOK, Offsets
<1>3. /\ store \in Seq(Logs) /\ outbox \in Seq(Logs) /\ logCh \in Seq(Logs)
      /\ batch \in Seq(Logs) /\ journal \in Seq(Logs)
  BY SequenceWithin DEF TypeInv, RecordsOK, MemoryOK, CommitterOK
<1>4. \A s \in Copied : s \in Copies
  <2> SUFFICES ASSUME NEW s \in Copied PROVE s \in Copies
    OBVIOUS
  <2>1. s \in Waiting
    BY DEF Copied, Waiting
  <2>2. s = [offset |-> s.offset, book |-> s.book]
    BY DEF TypeInv, SnapshotsOK
  <2> QED
    BY <1>2, <2>1, <2>2 DEF Copies
<1>5. /\ pending \in Copies \cup {NoSnapshot}
      /\ approveCh \in Seq(Copies) /\ snapCh \in Seq(Copies)
  <2>1. pending \in Copies \cup {NoSnapshot}
    BY <1>4 DEF Copied
  <2>2. Range(approveCh) \subseteq Copies /\ Range(snapCh) \subseteq Copies
    BY <1>4 DEF Copied, TypeInv, SnapshotsOK
  <2> QED
    BY <2>1, <2>2, SequenceWithin DEF TypeInv, SnapshotsOK
<1>6. marshalling \in Encoded \cup {NoSnapshot}
  <2> SUFFICES ASSUME marshalling # NoSnapshot PROVE marshalling \in Encoded
    OBVIOUS
  <2>1. marshalling \in Waiting
    BY DEF Waiting
  <2>2. /\ marshalling.window \in Windows
        /\ marshalling = [offset |-> marshalling.offset, book |-> marshalling.book,
                          window |-> marshalling.window]
    BY DEF TypeInv, SnapshotsOK
  <2> QED
    BY <1>2, <2>1, <2>2 DEF Encoded
<1>7. saved # NoSnapshot => saved.offset > 0 /\ saved \in Encoded
  <2> SUFFICES ASSUME saved # NoSnapshot PROVE saved.offset > 0 /\ saved \in Encoded
    OBVIOUS
  <2>1. /\ saved.offset \in Offsets /\ saved.offset > 0
        /\ saved.book \in Books /\ saved.window \in Windows
        /\ saved = [offset |-> saved.offset, book |-> saved.book, window |-> saved.window]
    BY <1>1, OrderBookIsTyped DEF TypeInv, SnapshotsOK, Offsets
  <2> QED
    BY <2>1 DEF Encoded
<1>8. \A s \in Snapshots : s.offset > 0
  BY <1>2, <1>7 DEF Snapshots, Waiting
<1>9. past \in Seq([book : Books, window : Windows])
  <2> DEFINE P == [book : Books, window : Windows]
  <2>1. ASSUME NEW k \in 1 .. Len(past)
        PROVE  past[k] \in P
    <3>1. /\ past[k] = [book |-> past[k].book, window |-> past[k].window]
          /\ past[k].book \in Books /\ past[k].window \in Windows
      BY OrderBookIsTyped DEF TypeInv, RecordsOK
    <3> QED
      BY <3>1
  <2>2. IsSequence(past) /\ Range(past) = {past[i] : i \in 1 .. Len(past)}
    BY SequenceFacts DEF TypeInv, RecordsOK
  <2> HIDE DEF P
  <2>3. Range(past) \subseteq P
    BY <2>1, <2>2
  <2> QED
    BY <2>2, <2>3, SequenceWithin DEF P
<1>10. book \in Books /\ window \in Windows
  BY OrderBookIsTyped DEF TypeInv, MemoryOK
<1>11. orderCh \in Seq(Offsets) /\ topic \in Topics /\ fetchNext \in 0 .. Len(topic)
       /\ Len(orderCh) <= OrderChCap
  BY DEF TypeInv, TopicOK, Offsets
<1>12. /\ applied \in 0 .. Len(topic) /\ reqCh \in Seq(0 .. Len(topic))
       /\ lastOffset \in 0 .. Len(topic)
  BY DEF TypeInv, OffsetsOK
<1>13. Len(past) \in 1 .. Len(topic) + 1
  BY DEF TypeInv, RecordsOK
<1>14. /\ Len(logCh) <= LogChCap /\ committer \in {"starting", "reading", "storing"}
       /\ seq \in Nat /\ Len(batch) <= BatchMax /\ faults \in 0 .. MaxFaults
       /\ committer = "storing" => batch # << >>
  BY DEF TypeInv, CommitterOK
<1> QED
  BY <1>3, <1>5, <1>6, <1>7, <1>8, <1>9, <1>10, <1>11, <1>12, <1>13, <1>14 DEF TypeOK

\* Every variable of the engine keeps its type: every log and every book,
\* wherever it is on its way, and no channel outgrows its capacity, no batch
\* its limit, no snapshot its topic.
THEOREM EngineTypeCorrect == Spec => []TypeOK
BY TypeInvHolds, TypeInvGivesType, PTL
-----------------------------------------------------------------------------
(* Snapshots move forward. *)

LEMMA AscendingAppend ==
    ASSUME NEW ch, IsSequence(ch), Ascending(ch), NEW e, Before(Range(ch), {e})
    PROVE  Ascending(Append(ch, e))
<1> DEFINE new == Append(ch, e)
<1>1. /\ IsSequence(new) /\ Len(new) = Len(ch) + 1
      /\ \A i \in 1 .. Len(ch) : new[i] = ch[i]
      /\ new[Len(ch) + 1] = e
  BY AppendSequence
<1> HIDE DEF new
<1>2. /\ Len(ch) \in Nat /\ DOMAIN ch = 1 .. Len(ch) /\ DOMAIN new = 1 .. Len(ch) + 1
      /\ \A i \in 1 .. Len(ch) : ch[i] \in Range(ch)
  BY <1>1, SequenceFacts
<1>3. ASSUME NEW i \in DOMAIN new, NEW j \in DOMAIN new, i < j
      PROVE  new[i].offset <= new[j].offset
  <2>1. i \in 1 .. Len(ch) /\ new[i] = ch[i]
    BY <1>1, <1>2, <1>3
  <2>2. CASE j \in 1 .. Len(ch)
    BY <1>1, <1>2, <1>3, <2>1, <2>2 DEF Ascending
  <2>3. CASE j = Len(ch) + 1
    BY <1>1, <1>2, <2>1, <2>3 DEF Before
  <2> QED
    BY <1>2, <2>2, <2>3
<1> QED
  BY <1>3 DEF Ascending, new

LEMMA AscendingTail ==
    ASSUME NEW ch, IsSequence(ch), ch # << >>, Ascending(ch)
    PROVE  /\ Ascending(Tail(ch))
           /\ Before({Head(ch)}, Range(Tail(ch)))
<1> DEFINE new == Tail(ch)
<1>1. /\ IsSequence(new) /\ Len(new) = Len(ch) - 1 /\ Head(ch) = ch[1]
      /\ \A i \in 1 .. Len(ch) - 1 : new[i] = ch[i + 1]
  BY TailSequence
<1> HIDE DEF new
<1>2. /\ Len(ch) \in Nat /\ Len(ch) > 0
      /\ DOMAIN ch = 1 .. Len(ch) /\ DOMAIN new = 1 .. Len(ch) - 1
      /\ Range(new) = {new[i] : i \in 1 .. Len(ch) - 1}
  BY <1>1, SequenceFacts
<1>3. ASSUME NEW i \in DOMAIN new, NEW j \in DOMAIN new, i < j
      PROVE  new[i].offset <= new[j].offset
  <2>1. /\ i + 1 \in DOMAIN ch /\ j + 1 \in DOMAIN ch /\ i + 1 < j + 1
        /\ new[i] = ch[i + 1] /\ new[j] = ch[j + 1]
    BY <1>1, <1>2, <1>3
  <2> QED
    BY <2>1 DEF Ascending
<1>4. ASSUME NEW i \in 1 .. Len(ch) - 1
      PROVE  Head(ch).offset <= new[i].offset
  <2>1. 1 \in DOMAIN ch /\ i + 1 \in DOMAIN ch /\ 1 < i + 1 /\ new[i] = ch[i + 1]
    BY <1>1, <1>2
  <2> QED
    BY <1>1, <2>1 DEF Ascending
<1> QED
  BY <1>2, <1>3, <1>4 DEF Ascending, Before, new

LEMMA TurnStays ==
    InTurn /\ UNCHANGED <<saved, lastOffset, marshalling, pending, snapCh, approveCh>>
        => InTurn'
BY DEF InTurn, Waiting, Held

LEMMA TakeSnapshotInTurn ==
    ASSUME TypeInv, InTurn, TakeSnapshot
    PROVE  InTurn'
<1>1. UNCHANGED <<saved, lastOffset, marshalling, pending, snapCh>>
  BY DEF TakeSnapshot, committerVars, snapshotVars, durable
<1>2. CASE Waiting' = Waiting /\ UNCHANGED approveCh
  BY <1>1, <1>2, TurnStays
<1>3. CASE /\ applied # 0 /\ approveCh' = Append(approveCh, Copy)
           /\ Waiting' = Waiting \cup {Copy}
  <2>1. Copy.offset = applied
    BY DEF Copy
  <2>2. lastOffset <= Copy.offset /\ applied <= applied
    BY <1>3, <2>1 DEF TypeInv, OffsetsOK
  <2>3. Before(Waiting, {Copy}) /\ Before({Copy}, {Copy})
    BY <2>1, <2>2 DEF TypeInv, OffsetsOK, SnapshotsOK, Before
  <2>4. Range(approveCh) \subseteq Waiting /\ Range(snapCh) \subseteq Waiting
        /\ Held(pending) \subseteq Waiting /\ Held(marshalling) \subseteq Waiting
    BY DEF TypeInv, SnapshotsOK, Waiting, Held
  <2>5. Range(approveCh') = Range(approveCh) \cup {Copy}
    BY <1>3, AppendSequence DEF TypeInv, SnapshotsOK
  <2>6. Ascending(approveCh')
    BY <1>3, <2>3, <2>4, AscendingAppend DEF TypeInv, SnapshotsOK, InTurn, Before
  <2>7. Before(Range(snapCh), {Copy}) /\ Before(Held(pending), {Copy})
        /\ Before(Held(marshalling), {Copy})
    BY <2>3, <2>4 DEF Before
  <2>8. /\ Before(Held(marshalling'), Waiting')
        /\ Before(Range(snapCh'), Held(pending'))
        /\ Before(Range(snapCh'), Range(approveCh'))
        /\ Before(Held(pending'), Range(approveCh'))
    BY <1>1, <1>3, <2>5, <2>7 DEF InTurn, Before
  <2> QED
    BY <1>1, <1>3, <2>2, <2>6, <2>8 DEF InTurn
<1> QED
  BY <1>2, <1>3, TakeSnapshotTyped

LEMMA StoreLogsInTurn ==
    ASSUME TypeInv, InTurn, StoreLogs
    PROVE  InTurn'
<1>1. UNCHANGED <<saved, lastOffset, marshalling, approveCh>>
  BY DEF StoreLogs, snapshotVars
<1>2. CASE UNCHANGED <<snapCh, pending>>
  BY <1>1, <1>2, TurnStays
<1>3. CASE pending # NoSnapshot /\ snapCh' = Append(snapCh, pending) /\ pending' = NoSnapshot
  <2>1. Held(pending) = {pending} /\ Held(pending') = {}
    BY <1>3 DEF Held
  <2>2. Range(snapCh') = Range(snapCh) \cup {pending}
    BY <1>3, AppendSequence DEF TypeInv, SnapshotsOK
  <2>3. Ascending(snapCh')
    BY <1>3, <2>1, AscendingAppend DEF TypeInv, SnapshotsOK, InTurn
  <2>4. Waiting' \subseteq Waiting
    BY StoreLogsTyped
  <2>5. /\ Before(Held(marshalling'), Waiting')
        /\ Before(Range(snapCh'), Held(pending'))
        /\ Before(Range(snapCh'), Range(approveCh'))
        /\ Before(Held(pending'), Range(approveCh'))
    BY <1>1, <2>1, <2>2, <2>4 DEF InTurn, Before
  <2> QED
    BY <1>1, <2>3, <2>4, <2>5 DEF InTurn
<1> QED
  BY <1>2, <1>3 DEF StoreLogs

LEMMA ApproveSnapshotInTurn ==
    ASSUME TypeInv, InTurn, ApproveSnapshot
    PROVE  InTurn'
<1> DEFINE snapshot == Head(approveCh)
<1>1. /\ UNCHANGED <<saved, lastOffset, marshalling>>
      /\ approveCh # << >> /\ approveCh' = Tail(approveCh)
  BY DEF ApproveSnapshot, snapshotVars, durable
<1>2. /\ Range(approveCh') \subseteq Range(approveCh)
      /\ snapshot \in Range(approveCh) /\ snapshot # NoSnapshot
      /\ Ascending(approveCh') /\ Before({snapshot}, Range(approveCh'))
  BY <1>1, TailSequence, AscendingTail DEF TypeInv, SnapshotsOK, InTurn
<1>3. Waiting' \subseteq Waiting
  BY ApproveSnapshotTyped
<1>4. Before(Range(snapCh), {snapshot})
  BY <1>2 DEF InTurn, Before
<1>5. CASE snapCh' = Append(snapCh, snapshot) /\ pending' = NoSnapshot
  <2> HIDE DEF snapshot
  <2>1. Held(pending') = {}
    BY <1>5 DEF Held
  <2>2. Range(snapCh') = Range(snapCh) \cup {snapshot}
    BY <1>5, AppendSequence DEF TypeInv, SnapshotsOK
  <2>3. Ascending(snapCh')
    BY <1>4, <1>5, AscendingAppend DEF TypeInv, SnapshotsOK, InTurn
  <2>4. /\ Before(Held(marshalling'), Waiting')
        /\ Before(Range(snapCh'), Held(pending'))
        /\ Before(Range(snapCh'), Range(approveCh'))
        /\ Before(Held(pending'), Range(approveCh'))
    BY <1>1, <1>2, <1>3, <2>1, <2>2 DEF InTurn, Before
  <2> QED
    BY <1>1, <1>2, <1>3, <2>3, <2>4 DEF InTurn
<1>6. CASE pending' = snapshot /\ UNCHANGED snapCh
  <2> HIDE DEF snapshot
  <2>1. Held(pending') = {snapshot}
    BY <1>2, <1>6 DEF Held
  <2>2. /\ Before(Held(marshalling'), Waiting')
        /\ Before(Range(snapCh'), Held(pending'))
        /\ Before(Range(snapCh'), Range(approveCh'))
        /\ Before(Held(pending'), Range(approveCh'))
    BY <1>1, <1>2, <1>3, <1>4, <1>6, <2>1 DEF InTurn, Before
  <2> QED
    BY <1>1, <1>2, <1>3, <1>6, <2>2 DEF InTurn
<1> QED
  BY <1>5, <1>6 DEF ApproveSnapshot

LEMMA MarshalSnapshotInTurn ==
    ASSUME TypeInv, InTurn, MarshalSnapshot
    PROVE  InTurn'
<1> DEFINE snapshot == Head(snapCh)
<1>1. /\ UNCHANGED <<saved, lastOffset, pending, approveCh>>
      /\ snapCh # << >> /\ snapCh' = Tail(snapCh)
  BY DEF MarshalSnapshot, committerVars, durable
<1>2. /\ Range(snapCh') \subseteq Range(snapCh) /\ snapshot \in Range(snapCh)
      /\ Ascending(snapCh') /\ Before({snapshot}, Range(snapCh'))
  BY <1>1, TailSequence, AscendingTail DEF TypeInv, SnapshotsOK, InTurn
<1>3. /\ snapshot \in Waiting /\ marshalling' # NoSnapshot
      /\ marshalling'.offset = snapshot.offset
      /\ Waiting' \subseteq Waiting \cup {marshalling'}
  BY MarshalSnapshotTyped
<1> HIDE DEF snapshot
<1>4. Held(marshalling') = {marshalling'}
  BY <1>3 DEF Held
<1>5. Waiting' = {marshalling'} \cup Held(pending) \cup Range(snapCh') \cup Range(approveCh)
  <2>1. NoSnapshot \notin Range(snapCh') \cup Range(approveCh)
    BY <1>2 DEF TypeInv, SnapshotsOK
  <2> QED
    BY <1>1, <1>3, <2>1 DEF Waiting, Held
<1>6. marshalling'.offset <= marshalling'.offset
  BY <1>3 DEF TypeInv, SnapshotsOK
<1>7. Before(Held(marshalling'), Waiting')
  BY <1>2, <1>3, <1>4, <1>5, <1>6 DEF InTurn, Before
<1>8. \A s \in Waiting' : lastOffset' <= s.offset
  BY <1>1, <1>3 DEF InTurn
<1>9. /\ Before(Range(snapCh'), Held(pending'))
      /\ Before(Range(snapCh'), Range(approveCh'))
  BY <1>1, <1>2 DEF InTurn, Before
<1> QED
  BY <1>1, <1>2, <1>7, <1>8, <1>9 DEF InTurn

LEMMA SaveSnapshotInTurn ==
    ASSUME TypeInv, InTurn, SaveSnapshot
    PROVE  InTurn' /\ saved'.offset = marshalling.offset /\ lastOffset <= marshalling.offset
<1>1. /\ UNCHANGED <<pending, snapCh, approveCh>> /\ marshalling' = NoSnapshot
      /\ marshalling # NoSnapshot
  BY DEF SaveSnapshot, committerVars
<1>2. /\ marshalling \in Waiting /\ saved'.offset = marshalling.offset
      /\ lastOffset' = marshalling.offset /\ Waiting' \subseteq Waiting
  BY SaveSnapshotTyped
<1>3. Held(marshalling') = {} /\ marshalling \in Held(marshalling)
  BY <1>1 DEF Held
<1>4. \A s \in Waiting' : lastOffset' <= s.offset
  BY <1>2, <1>3 DEF InTurn, Before
<1>5. saved'.offset <= lastOffset'
  BY <1>2 DEF TypeInv, SnapshotsOK
<1>6. Before(Held(marshalling'), Waiting')
  BY <1>3 DEF Before
<1> QED
  BY <1>1, <1>2, <1>4, <1>5, <1>6 DEF InTurn

LEMMA SaveSnapshotFailsInTurn ==
    ASSUME TypeInv, InTurn, SaveSnapshotFails
    PROVE  InTurn'
<1>1. /\ UNCHANGED <<saved, lastOffset, pending, snapCh, approveCh>>
      /\ marshalling' = NoSnapshot
  BY DEF SaveSnapshotFails, committerVars, durable
<1>2. Waiting' \subseteq Waiting
  BY SaveSnapshotFailsTyped
<1>3. Before(Held(marshalling'), Waiting')
  BY <1>1 DEF Before, Held
<1> QED
  BY <1>1, <1>2, <1>3 DEF InTurn

LEMMA RestartInTurn ==
    ASSUME TypeInv, InTurn, Restart, UNCHANGED <<topic, saved>>, faults' \in 0 .. MaxFaults
    PROVE  InTurn'
<1>1. /\ Waiting' = {}
      /\ saved # NoSnapshot => lastOffset' = saved.offset
  BY RestartTyped
<1>2. /\ snapCh' = << >> /\ approveCh' = << >>
      /\ pending' = NoSnapshot /\ marshalling' = NoSnapshot
  BY DEF Restart
<1>3. /\ Range(snapCh') = {} /\ Range(approveCh') = {}
      /\ Held(pending') = {} /\ Held(marshalling') = {}
  BY <1>2, EmptySequence DEF Held
<1>4. Ascending(snapCh') /\ Ascending(approveCh')
  BY <1>2 DEF Ascending
<1>5. saved' # NoSnapshot => saved'.offset <= lastOffset'
  BY <1>1 DEF TypeInv, SnapshotsOK
<1> QED
  BY <1>1, <1>3, <1>4, <1>5 DEF InTurn, Before

LEMMA ExpireSnapshotInTurn ==
    ASSUME TypeInv, InTurn, ExpireSnapshot
    PROVE  InTurn'
BY DEF InTurn, ExpireSnapshot, snapshotVars, committerVars, Waiting, Held

LEMMA InitInTurn == Init => InTurn
<1> SUFFICES ASSUME Init PROVE InTurn
  OBVIOUS
<1>1. /\ snapCh = << >> /\ approveCh = << >> /\ Waiting = {} /\ saved = NoSnapshot
      /\ pending = NoSnapshot /\ marshalling = NoSnapshot
  BY InitTyped DEF Init
<1>2. /\ Range(snapCh) = {} /\ Range(approveCh) = {}
      /\ Held(pending) = {} /\ Held(marshalling) = {}
  BY <1>1, EmptySequence DEF Held
<1>3. Ascending(snapCh) /\ Ascending(approveCh)
  BY <1>1 DEF Ascending
<1> QED
  BY <1>1, <1>2, <1>3 DEF InTurn, Before

LEMMA NextInTurn == TypeInv /\ InTurn /\ [Next]_vars => InTurn'
<1> SUFFICES ASSUME TypeInv, InTurn, [Next]_vars
             PROVE  InTurn'
  OBVIOUS
<1> USE DEF durable, snapshotVars, committerVars
<1>1. CASE Fetch                BY <1>1, TurnStays DEF Fetch
<1>2. CASE Apply                BY <1>2, TurnStays DEF Apply
<1>3. CASE SendLog              BY <1>3, TurnStays DEF SendLog
<1>4. CASE TakeSnapshot         BY <1>4, TakeSnapshotInTurn
<1>5. CASE StartCommitter       BY <1>5, TurnStays DEF StartCommitter
<1>6. CASE TakeLog              BY <1>6, TurnStays DEF TakeLog
<1>7. CASE StoreLogs            BY <1>7, StoreLogsInTurn
<1>8. CASE ApproveSnapshot      BY <1>8, ApproveSnapshotInTurn
<1>9. CASE RequestSnapshot      BY <1>9, TurnStays DEF RequestSnapshot
<1>10. CASE MarshalSnapshot     BY <1>10, MarshalSnapshotInTurn
<1>11. CASE SaveSnapshot        BY <1>11, SaveSnapshotInTurn
<1>12. CASE SaveSnapshotFails   BY <1>12, SaveSnapshotFailsInTurn
<1>13. CASE Crash
  <2>1. Restart /\ UNCHANGED <<topic, saved>> /\ faults' \in 0 .. MaxFaults
    BY <1>13, BoundsAssumption DEF Crash, Fault, TypeInv, CommitterOK
  <2> QED
    BY <2>1, RestartInTurn
<1>14. CASE StoreLogsFails
  <2>1. Restart /\ UNCHANGED <<topic, saved>> /\ faults' \in 0 .. MaxFaults
    BY <1>14, BoundsAssumption DEF StoreLogsFails, Fault, TypeInv, CommitterOK
  <2> QED
    BY <2>1, RestartInTurn
<1>15. CASE ExpireSnapshot      BY <1>15, ExpireSnapshotInTurn
<1>16. CASE UNCHANGED vars      BY <1>16, TurnStays DEF vars
<1> QED
  BY <1>1, <1>2, <1>3, <1>4, <1>5, <1>6, <1>7, <1>8, <1>9, <1>10, <1>11, <1>12,
     <1>13, <1>14, <1>15, <1>16 DEF Next

LEMMA StepsForward ==
    ASSUME TypeInv, InTurn, [Next]_vars, saved # NoSnapshot, saved' # NoSnapshot
    PROVE  saved'.offset >= saved.offset
<1>1. CASE SaveSnapshot
  <2>1. saved'.offset = marshalling.offset /\ lastOffset <= marshalling.offset
        /\ marshalling \in Waiting
    BY <1>1, SaveSnapshotInTurn, SaveSnapshotTyped
  <2>2. /\ saved.offset <= lastOffset /\ saved.offset \in Int
        /\ lastOffset \in Int /\ marshalling.offset \in Int
    BY <2>1 DEF InTurn, TypeInv, SnapshotsOK, OffsetsOK
  <2> QED
    BY <2>1, <2>2
<1>2. CASE UNCHANGED saved
  BY <1>2 DEF TypeInv, SnapshotsOK
<1>3. SaveSnapshot \/ ExpireSnapshot \/ UNCHANGED saved
  BY DEF Next, vars, durable, Fetch, Apply, SendLog, TakeSnapshot, StartCommitter, TakeLog,
         StoreLogs, ApproveSnapshot, RequestSnapshot, MarshalSnapshot,
         SaveSnapshotFails, Crash, StoreLogsFails
<1>4. ~ ExpireSnapshot
  BY DEF ExpireSnapshot
<1> QED
  BY <1>1, <1>2, <1>3, <1>4

\* The snapshot in Redis is never replaced by an older one, whatever the
\* committer made wait and whenever the process was started again.
THEOREM SnapshotsNeverGoBack == Spec => SnapshotsMoveForward
<1>1. Init => TypeInv /\ InTurn
  BY InitTyped, InitInTurn
<1>2. TypeInv /\ InTurn /\ [Next]_vars => (TypeInv /\ InTurn)'
  BY NextTyped, NextInTurn
<1>3. TypeInv /\ InTurn /\ [Next]_vars =>
         [saved # NoSnapshot /\ saved' # NoSnapshot => saved'.offset >= saved.offset]_vars
  BY StepsForward
<1> QED
  BY <1>1, <1>2, <1>3, PTL DEF Spec, SnapshotsMoveForward

-----------------------------------------------------------------------------
(* What a crash leaves. *)

NoSnapshots == \A t \in Topics : Len(t) <= SnapshotDelta + 1

Undisturbed == IdsBeyondWindow \/ NoSnapshots

-----------------------------------------------------------------------------
(* The inductive invariant. *)

SameWindow(bits, other) == NoSnapshots => bits = other

\* The k-th message of topic t leads from p[k] to p[k + 1], with its logs in js.
Follows(p, js, t, k) ==
    LET result == Handle(p[k].book, p[k].window, t[k])
    IN  /\ p[k + 1].book = result.book
        /\ p[k + 1].window = result.window
        /\ \A i \in 1 .. Len(result.logs) :
              /\ p[k].book.logSeq + i \in 1 .. Len(js)
              /\ result.logs[i] = js[p[k].book.logSeq + i]

\* The auxiliary variables tell one pass over the topic.
HistoryOK ==
    /\ IsSequence(past) /\ IsSequence(journal)
    /\ Len(past) \in 1 .. Len(topic) + 1
    /\ past[1] = [book |-> EmptyBook, window |-> {}]
    /\ \A k \in 1 .. Len(past) : IsBook(past[k].book) /\ past[k].window \in Windows
    /\ Len(journal) = past[Len(past)].book.logSeq
    /\ \A k \in 1 .. Len(past) - 1 : Follows(past, journal, topic, k)

\* The book is the one that pass had here.
Repeats ==
    /\ Seen < Len(past)
    /\ book = past[Seen + 1].book
    /\ SameWindow(window, past[Seen + 1].window)

Told(log, js) == log.seq \in 1 .. Len(js) /\ log = js[log.seq]

\* A log, wherever it is, is the one that pass produced.
LogsTold ==
    /\ IsSequence(store)
    /\ \A log \in Range(outbox) \cup Range(logCh) \cup Range(batch) \cup Range(store) :
          Told(log, journal)

Moment(s, p) == s.offset + 2 <= Len(p) /\ s.book = p[s.offset + 2].book

\* A snapshot, wherever it is, is the book of that pass after its offset.
MomentsOK ==
    /\ \A s \in Waiting \cup Held(saved) : Moment(s, past)
    /\ NoSnapshots => Waiting = {} /\ saved = NoSnapshot

TruthInv == HistoryOK /\ Repeats /\ LogsTold /\ MomentsOK

-----------------------------------------------------------------------------
LEMMA HistoryStays ==
    HistoryOK /\ UNCHANGED <<topic, past, journal>> => HistoryOK'
BY DEF HistoryOK

LEMMA RepeatsStays ==
    Repeats /\ UNCHANGED <<book, window, past>> /\ Seen' = Seen => Repeats'
BY DEF Repeats

LEMMA LogsStay ==
    ASSUME LogsTold, UNCHANGED journal, IsSequence(store'),
           Range(outbox') \cup Range(logCh') \cup Range(batch') \cup Range(store')
             \subseteq
           Range(outbox) \cup Range(logCh) \cup Range(batch) \cup Range(store)
    PROVE  LogsTold'
BY DEF LogsTold

LEMMA MomentsStay ==
    ASSUME MomentsOK, UNCHANGED past, Waiting' \subseteq Waiting, Held(saved') \subseteq Held(saved)
    PROVE  MomentsOK'
BY DEF MomentsOK, Held

LEMMA QuietStep ==
    ASSUME TruthInv, Seen' = Seen, Waiting' \subseteq Waiting,
           UNCHANGED <<topic, store, saved, book, window, outbox, logCh, batch, past, journal>>
    PROVE  TruthInv'
<1>1. HistoryOK' /\ Repeats'
  BY HistoryStays, RepeatsStays DEF TruthInv
<1>2. LogsTold'
  BY DEF TruthInv, LogsTold
<1>3. MomentsOK'
  BY MomentsStay DEF TruthInv
<1> QED
  BY <1>1, <1>2, <1>3 DEF TruthInv

LEMMA HereInPast ==
    ASSUME TypeInv, TruthInv
    PROVE  /\ Len(past) \in Nat /\ Seen \in Nat /\ Seen + 1 \in 1 .. Len(past)
           /\ Len(journal) \in Nat
           /\ Len(topic) \in Nat
BY SeenFacts, SequenceFacts DEF TypeInv, TruthInv, HistoryOK, Repeats

\* A message applied for the first time writes history.
LEMMA FirstApply ==
    ASSUME Undisturbed, TypeInv, TruthInv, NEW r, Seen + 1 \in 1 .. Len(topic),
           r = Handle(book, window, topic[Seen + 1]), NEW p,
           p = Handle(past[Seen + 1].book, past[Seen + 1].window, topic[Seen + 1]),
           topic[Seen + 1] \in Messages,
           Len(past) = Seen + 1,
           UNCHANGED <<topic, store, saved, logCh, batch>>, Seen' = Seen + 1,
           Waiting' = Waiting,
           book' = r.book, window' = r.window, outbox' = r.logs,
           IsSequence(past'), Len(past') = Len(past) + 1,
           \A k \in 1 .. Len(past) : past'[k] = past[k],
           past'[Len(past) + 1].book = r.book,
           past'[Len(past) + 1].window = p.window,
           IsSequence(journal'), Len(journal') = Len(journal) + Len(r.logs),
           \A i \in 1 .. Len(journal) : journal'[i] = journal[i],
           \A i \in 1 .. Len(r.logs) : journal'[Len(journal) + i] = r.logs[i]
    PROVE  TruthInv'
<1>1. /\ Len(past) \in Nat /\ Seen \in Nat /\ Seen + 1 \in 1 .. Len(past)
      /\ Len(journal) \in Nat /\ Len(topic) \in Nat
  BY HereInPast
<1>2. /\ IsBook(r.book) /\ IsOrderBook(r.book) /\ r.window \in Windows
      /\ IsSequence(r.logs) /\ Len(r.logs) \in Nat
      /\ book.logSeq \in Nat
      /\ r.book.logSeq = book.logSeq + Len(r.logs)
      /\ \A i \in 1 .. Len(r.logs) : r.logs[i].seq = book.logSeq + i
  BY HandleTyped DEF TypeInv, MemoryOK, IsOrderBook
<1>3. /\ IsSequence(past') /\ Len(past') = Len(past) + 1
      /\ \A k \in 1 .. Len(past) : past'[k] = past[k]
      /\ past'[Len(past) + 1].book = r.book
      /\ past'[Len(past) + 1].window = p.window
  OBVIOUS
<1>4. /\ IsSequence(journal') /\ Len(journal') = Len(journal) + Len(r.logs)
      /\ \A i \in 1 .. Len(journal) : journal'[i] = journal[i]
      /\ \A i \in 1 .. Len(r.logs) : journal'[Len(journal) + i] = r.logs[i]
  OBVIOUS
<1>5. book = past[Len(past)].book /\ Len(journal) = book.logSeq
      /\ SameWindow(window, past[Len(past)].window)
  BY DEF TruthInv, HistoryOK, Repeats
<1>0. /\ r.book = p.book /\ r.logs = p.logs
      /\ SameWindow(r.window, p.window)
      /\ p.window \in Windows
  <2>1. book = past[Seen + 1].book /\ SameWindow(window, past[Seen + 1].window)
    BY DEF TruthInv, Repeats
  <2>2. IsOrderBook(past[Seen + 1].book) /\ past[Seen + 1].window \in Windows
    BY <1>1 DEF TypeInv, RecordsOK
  <2>3. /\ r.book = p.book /\ r.logs = p.logs
        /\ SameWindow(r.window, p.window)
    BY <2>1, HandleRepeats DEF SameWindow, Undisturbed
  <2> QED
    BY <2>2, <2>3, HandleTyped
<1>6. \A log : Told(log, journal) => Told(log, journal')
  BY <1>1, <1>2, <1>4 DEF Told
<1>7. ASSUME NEW i \in 1 .. Len(r.logs)
      PROVE  Told(r.logs[i], journal')
  <2>1. r.logs[i].seq = Len(journal) + i
    BY <1>2, <1>5
  <2>2. Len(journal) + i \in 1 .. Len(journal')
    BY <1>1, <1>2, <1>4
  <2> QED
    BY <1>4, <2>1, <2>2 DEF Told
<1>8. LogsTold'
  <2>1. Range(r.logs) = {r.logs[i] : i \in 1 .. Len(r.logs)}
    BY <1>2, SequenceFacts
  <2> QED
    BY <1>6, <1>7, <2>1 DEF TruthInv, LogsTold
<1>9. Repeats'
  <2>1. Seen' < Len(past')
    BY <1>1, <1>3
  <2>2. past'[Seen' + 1].book = r.book /\ past'[Seen' + 1].window = p.window
    BY <1>3
  <2> QED
    BY <1>0, <2>1, <2>2 DEF Repeats
<1>10. MomentsOK'
  <2>1. ASSUME NEW s \in Waiting \cup Held(saved)
        PROVE  Moment(s, past')
    <3>1. s.offset \in Nat
      BY SeenFacts DEF TypeInv, SnapshotsOK, OffsetsOK, Held
    <3>2. s.offset + 2 \in 1 .. Len(past) /\ s.book = past[s.offset + 2].book
      BY <1>1, <3>1 DEF TruthInv, MomentsOK, Moment
    <3> QED
      BY <1>1, <1>3, <3>2 DEF Moment
  <2> QED
    BY <2>1 DEF TruthInv, MomentsOK
<1>11. ASSUME NEW k \in 1 .. Len(past)
       PROVE  Follows(past', journal', topic, k)
  <2>1. past'[k] = past[k]
    BY <1>3
  <2>2. CASE k < Len(past)
    <3> DEFINE q == Handle(past[k].book, past[k].window, topic[k])
    <3>1. k \in 1 .. Len(past) - 1 /\ k + 1 \in 1 .. Len(past)
      BY <1>1, <2>2
    <3>2. past'[k + 1] = past[k + 1]
      BY <1>3, <3>1
    <3>3. Follows(past, journal, topic, k)
      BY <3>1 DEF TruthInv, HistoryOK
    <3> HIDE DEF q
    <3>4. /\ past[k + 1].book = q.book /\ past[k + 1].window = q.window
          /\ \A i \in 1 .. Len(q.logs) :
                /\ past[k].book.logSeq + i \in 1 .. Len(journal)
                /\ q.logs[i] = journal[past[k].book.logSeq + i]
      BY <3>3 DEF Follows, q
    <3>5. \A i \in 1 .. Len(q.logs) :
                /\ past[k].book.logSeq + i \in 1 .. Len(journal')
                /\ q.logs[i] = journal'[past[k].book.logSeq + i]
      <4> SUFFICES ASSUME NEW i \in 1 .. Len(q.logs)
                   PROVE  /\ past[k].book.logSeq + i \in 1 .. Len(journal')
                          /\ q.logs[i] = journal'[past[k].book.logSeq + i]
        OBVIOUS
      <4>1. /\ past[k].book.logSeq + i \in 1 .. Len(journal)
            /\ q.logs[i] = journal[past[k].book.logSeq + i]
        BY <3>4
      <4>2. journal'[past[k].book.logSeq + i] = journal[past[k].book.logSeq + i]
        BY <1>4, <4>1
      <4> HIDE DEF q
      <4>3. past[k].book.logSeq + i \in 1 .. Len(journal')
        BY <1>1, <1>2, <1>4, <4>1
      <4> QED
        BY <4>1, <4>2, <4>3
    <3> QED
      BY <2>1, <3>2, <3>4, <3>5 DEF Follows, q
  <2>3. CASE k = Len(past)
    <3>1. /\ p = Handle(past'[k].book, past'[k].window, topic[k])
          /\ past'[k].book.logSeq = Len(journal)
      BY <1>1, <1>5, <2>1, <2>3
    <3>2. past'[k + 1].book = p.book /\ past'[k + 1].window = p.window
      BY <1>0, <1>3, <2>3
    <3>3. \A i \in 1 .. Len(r.logs) : Len(journal) + i \in 1 .. Len(journal')
      BY <1>1, <1>2, <1>4
    <3>4. \A i \in 1 .. Len(p.logs) :
             /\ past'[k].book.logSeq + i \in 1 .. Len(journal')
             /\ p.logs[i] = journal'[past'[k].book.logSeq + i]
      BY <1>0, <1>4, <3>1, <3>3
    <3> QED
      BY <3>1, <3>2, <3>4 DEF Follows
  <2> QED
    BY <1>1, <2>2, <2>3
<1>12. HistoryOK'
  <2>1. Len(past') \in 1 .. Len(topic') + 1 /\ Len(past') - 1 = Len(past)
    BY <1>1, <1>3
  <2>2. past'[1] = [book |-> EmptyBook, window |-> {}]
    <3>1. 1 \in 1 .. Len(past)
      BY <1>1
    <3>2. past[1] = [book |-> EmptyBook, window |-> {}]
      BY DEF TruthInv, HistoryOK
    <3> QED
      BY <1>3, <3>1, <3>2, Zenon
  <2>3. \A k \in 1 .. Len(past') : IsBook(past'[k].book) /\ past'[k].window \in Windows
    <3>1. TAKE k \in 1 .. Len(past')
    <3>2. CASE k \in 1 .. Len(past)
      <4>1. IsBook(past[k].book) /\ past[k].window \in Windows
        BY <3>2 DEF TruthInv, HistoryOK
      <4> QED
        BY <1>3, <3>2, <4>1, Zenon
    <3>3. CASE k = Len(past) + 1
      BY <1>0, <1>2, <1>3, <3>3, Zenon
    <3> QED
      BY <1>1, <1>3, <3>1, <3>2, <3>3
  <2>4. Len(journal') = past'[Len(past')].book.logSeq
    BY <1>2, <1>3, <1>4, <1>5
  <2> QED
    BY <1>3, <1>4, <1>11, <2>1, <2>2, <2>3, <2>4 DEF HistoryOK
<1> QED
  BY <1>8, <1>9, <1>10, <1>12 DEF TruthInv
\* A message applied again repeats it.
LEMMA RepeatedApply ==
    ASSUME Undisturbed, TypeInv, TruthInv, NEW r,
           r = Handle(book, window, topic[Seen + 1]),
           topic[Seen + 1] \in Messages,
           Len(past) # Seen + 1,
           UNCHANGED <<topic, store, saved, logCh, batch, past, journal>>,
           Seen' = Seen + 1, Waiting' = Waiting,
           book' = r.book, window' = r.window, outbox' = r.logs
    PROVE  TruthInv'
<1>1. /\ Len(past) \in Nat /\ Seen \in Nat /\ Seen + 1 \in 1 .. Len(past)
      /\ Len(journal) \in Nat
  BY HereInPast
<1> DEFINE k == Seen + 1
           q == Handle(past[k].book, past[k].window, topic[k])
<1>2. k \in 1 .. Len(past) - 1 /\ Seen' = k /\ k \in Nat
  BY <1>1
<1>3. /\ book = past[k].book /\ SameWindow(window, past[k].window)
  BY DEF TruthInv, Repeats
<1>4. /\ r.book = q.book /\ r.logs = q.logs
      /\ SameWindow(r.window, q.window)
  BY <1>3, HandleRepeats DEF SameWindow, Undisturbed
<1>5. Follows(past, journal, topic, k)
  BY <1>2 DEF TruthInv, HistoryOK
<1>6. /\ past[k + 1].book = q.book /\ past[k + 1].window = q.window
      /\ \A i \in 1 .. Len(q.logs) :
            /\ past[k].book.logSeq + i \in 1 .. Len(journal)
            /\ q.logs[i] = journal[past[k].book.logSeq + i]
  BY <1>5 DEF Follows
<1>7. /\ IsSequence(r.logs) /\ Len(r.logs) \in Nat
      /\ book.logSeq \in Nat
      /\ \A i \in 1 .. Len(r.logs) : r.logs[i].seq = book.logSeq + i
  BY HandleTyped DEF TypeInv, MemoryOK
<1> HIDE DEF k, q
<1>8. Repeats'
  <2>1. Seen' < Len(past') /\ past'[Seen' + 1] = past[k + 1]
    BY <1>1, <1>2
  <2> QED
    BY <1>4, <1>6, <2>1 DEF Repeats, SameWindow
<1>9. \A i \in 1 .. Len(r.logs) : Told(r.logs[i], journal)
  <2> SUFFICES ASSUME NEW i \in 1 .. Len(r.logs)
               PROVE  Told(r.logs[i], journal)
    OBVIOUS
  <2>1. r.logs[i].seq = past[k].book.logSeq + i
    BY <1>3, <1>7
  <2>2. /\ past[k].book.logSeq + i \in 1 .. Len(journal)
        /\ r.logs[i] = journal[past[k].book.logSeq + i]
    BY <1>4, <1>6
  <2> QED
    BY <2>1, <2>2 DEF Told
<1>10. LogsTold'
  <2>1. Range(r.logs) = {r.logs[i] : i \in 1 .. Len(r.logs)}
    BY <1>7, SequenceFacts
  <2> QED
    BY <1>9, <2>1 DEF TruthInv, LogsTold
<1>11. HistoryOK'
  BY HistoryStays DEF TruthInv
<1>12. MomentsOK'
  BY MomentsStay DEF TruthInv
<1> QED
  BY <1>8, <1>10, <1>11, <1>12 DEF TruthInv

LEMMA ApplyTruth ==
    ASSUME Undisturbed, TypeInv, TruthInv, Apply
    PROVE  TruthInv'
<1> DEFINE r == Handle(book, window, topic[Seen + 1])
           p == Handle(past[Seen + 1].book, past[Seen + 1].window, topic[Seen + 1])
           new == [book |-> r.book, window |-> p.window]
<1>1. Head(orderCh) = Seen
  BY SeenFacts DEF TypeInv, Apply
<1>2. /\ Seen' = Seen + 1 /\ Waiting' = Waiting /\ Seen + 1 \in 1 .. Len(topic)
  BY ApplyTyped
<1>3. topic[Seen + 1] \in Messages
  BY <1>2, SeenFacts, ElementOfSeq DEF TypeInv
<1>4. /\ book' = r.book /\ window' = r.window /\ outbox' = r.logs
      /\ UNCHANGED <<topic, store, saved, logCh, batch>>
  BY <1>1 DEF Apply, durable, committerVars
<1>5. CASE Len(past) = Seen + 1
  <2>1. past' = Append(past, new) /\ journal' = journal \o r.logs
    BY <1>1, <1>5 DEF Apply
  <2>2. new.book = r.book /\ new.window = p.window
    OBVIOUS
  <2>3. IsSequence(past) /\ IsSequence(journal)
    BY DEF TruthInv, HistoryOK
  <2>4. IsSequence(r.logs)
    BY <1>3, HandleTyped DEF TypeInv, MemoryOK
  <2>7. /\ r = Handle(book, window, topic[Seen + 1])
        /\ p = Handle(past[Seen + 1].book, past[Seen + 1].window, topic[Seen + 1])
    OBVIOUS
  <2> HIDE DEF new, r, p
  <2>5. /\ IsSequence(past') /\ Len(past') = Len(past) + 1
        /\ \A k \in 1 .. Len(past) : past'[k] = past[k]
        /\ past'[Len(past) + 1] = new
    BY <2>1, <2>3, AppendSequence
  <2>6. /\ IsSequence(journal') /\ Len(journal') = Len(journal) + Len(r.logs)
        /\ \A i \in 1 .. Len(journal) : journal'[i] = journal[i]
        /\ \A i \in 1 .. Len(r.logs) : journal'[Len(journal) + i] = r.logs[i]
    BY <2>1, <2>3, <2>4, ConcatSequence
  <2> QED
    BY <1>2, <1>3, <1>4, <1>5, <2>2, <2>5, <2>6, <2>7, FirstApply
<1>6. CASE Len(past) # Seen + 1
  <2>1. UNCHANGED <<past, journal>>
    BY <1>1, <1>6 DEF Apply
  <2>2. r = Handle(book, window, topic[Seen + 1])
    OBVIOUS
  <2> HIDE DEF new, r, p
  <2> QED
    BY <1>2, <1>3, <1>4, <1>6, <2>1, <2>2, RepeatedApply
<1> QED
  BY <1>5, <1>6

LEMMA SendLogTruth ==
    ASSUME TypeInv, TruthInv, SendLog
    PROVE  TruthInv'
<1>1. /\ UNCHANGED <<topic, store, saved, book, window, batch, past, journal>>
  BY DEF SendLog, durable, committerVars, auxVars
<1>2. /\ Seen' = Seen /\ Waiting' = Waiting
      /\ Range(outbox') \subseteq Range(outbox)
      /\ Range(logCh') \subseteq Range(logCh) \cup Range(outbox)
  BY SendLogTyped
<1>3. LogsTold'
  <2>1. IsSequence(store')
    BY <1>1 DEF TruthInv, LogsTold
  <2> QED
    BY <1>1, <1>2, <2>1, LogsStay DEF TruthInv
<1> QED
  BY <1>1, <1>2, <1>3, HistoryStays, RepeatsStays, MomentsStay DEF TruthInv

LEMMA TakeSnapshotTruth ==
    ASSUME TypeInv, TruthInv, TakeSnapshot
    PROVE  TruthInv'
<1>1. /\ UNCHANGED <<topic, store, saved, book, window, applied, outbox, logCh, batch,
                     past, journal>>
  BY DEF TakeSnapshot, durable, committerVars, auxVars, applierVars
<1>2. CASE Waiting' = Waiting
  BY <1>1, <1>2, QuietStep, TakeSnapshotTyped
<1>3. CASE /\ applied - Head(reqCh) > SnapshotDelta
           /\ Head(reqCh) \in 0 .. Len(topic)
           /\ applied # 0
           /\ Waiting' = Waiting \cup {Copy}
  <2>1. /\ applied \in Nat /\ Seen = applied + 1 /\ Len(topic) \in Nat
        /\ Seen \in 0 .. Len(topic) /\ Seen' = Seen
    BY <1>3, SeenFacts, TakeSnapshotTyped DEF TypeInv, OffsetsOK
  <2>2. ~ NoSnapshots
    <3>1. applied > SnapshotDelta
      BY <1>3, <2>1, BoundsAssumption
    <3>2. Len(topic) > SnapshotDelta + 1 /\ SnapshotDelta \in Nat
      BY <2>1, <3>1, BoundsAssumption
    <3>3. topic \in Topics
      BY DEF TypeInv, TopicOK
    <3> QED
      BY <2>1, <3>2, <3>3 DEF NoSnapshots
  <2>4. Copy.offset = applied /\ Copy.book = book
    BY DEF Copy
  <2>5. Moment(Copy, past)
    <3>1. /\ Seen < Len(past) /\ book = past[Seen + 1].book /\ Len(past) \in Nat
      BY HereInPast DEF TruthInv, Repeats
    <3>2. Seen + 1 = applied + 2
      BY <2>1
    <3> QED
      BY <2>1, <2>4, <3>1, <3>2 DEF Moment
  <2>6. MomentsOK'
    BY <1>1, <1>3, <2>2, <2>5 DEF TruthInv, MomentsOK, Held
  <2>7. LogsTold'
    BY <1>1 DEF TruthInv, LogsTold
  <2> QED
    BY <1>1, <2>1, <2>6, <2>7, HistoryStays, RepeatsStays DEF TruthInv
<1> QED
  BY <1>2, <1>3, TakeSnapshotTyped

LEMMA TakeLogTruth ==
    ASSUME TypeInv, TruthInv, TakeLog
    PROVE  TruthInv'
<1>1. UNCHANGED <<topic, store, saved, book, window, outbox, past, journal>>
  BY DEF TakeLog, durable, auxVars, applierVars
<1>2. /\ Seen' = Seen /\ Waiting' = Waiting
      /\ Range(logCh') \subseteq Range(logCh)
      /\ Range(batch') \subseteq Range(batch) \cup Range(logCh)
  BY TakeLogTyped
<1>3. LogsTold'
  <2>1. IsSequence(store')
    BY <1>1 DEF TruthInv, LogsTold
  <2> QED
    BY <1>1, <1>2, <2>1, LogsStay DEF TruthInv
<1> QED
  BY <1>1, <1>2, <1>3, HistoryStays, RepeatsStays, MomentsStay DEF TruthInv

LEMMA StoreLogsTruth ==
    ASSUME TypeInv, TruthInv, StoreLogs
    PROVE  TruthInv'
<1>1. UNCHANGED <<topic, saved, book, window, outbox, logCh, past, journal>>
  BY DEF StoreLogs, auxVars, applierVars
<1>2. Seen' = Seen /\ Waiting' \subseteq Waiting
  BY StoreLogsTyped
<1>3. PICK n \in 0 .. Len(batch) : store' = store \o SubSeq(batch, 1, n) \o batch
  BY DEF StoreLogs
<1>4. IsSequence(batch) /\ IsSequence(store)
  BY DEF TypeInv, CommitterOK, TruthInv, LogsTold
<1>5. /\ IsSequence(SubSeq(batch, 1, n))
      /\ Range(SubSeq(batch, 1, n)) \subseteq Range(batch)
  BY <1>4, FirstPart
<1>6. /\ IsSequence(store \o SubSeq(batch, 1, n))
      /\ Range(store \o SubSeq(batch, 1, n)) \subseteq Range(store) \cup Range(batch)
  BY <1>4, <1>5, ConcatSequence
<1>7. IsSequence(store') /\ Range(store') \subseteq Range(store) \cup Range(batch)
  BY <1>3, <1>4, <1>6, ConcatSequence
<1>8. Range(batch') = {}
  BY EmptySequence DEF StoreLogs
<1>9. LogsTold'
  BY <1>1, <1>7, <1>8, LogsStay DEF TruthInv
<1> QED
  BY <1>1, <1>2, <1>9, HistoryStays, RepeatsStays, MomentsStay DEF TruthInv

LEMMA MarshalSnapshotTruth ==
    ASSUME TypeInv, TruthInv, MarshalSnapshot
    PROVE  TruthInv'
<1>1. UNCHANGED <<topic, store, saved, book, window, outbox, logCh, batch, past, journal>>
  BY DEF MarshalSnapshot, durable, committerVars, auxVars, applierVars
<1>2. /\ Seen' = Seen /\ Head(snapCh) \in Waiting
      /\ marshalling'.offset = Head(snapCh).offset
      /\ marshalling'.book = Head(snapCh).book
      /\ Waiting' \subseteq Waiting \cup {marshalling'}
  BY MarshalSnapshotTyped
<1>3. Moment(marshalling', past) /\ ~ NoSnapshots
  BY <1>2 DEF TruthInv, MomentsOK, Moment, SaveSnapshot
<1>4. MomentsOK'
  BY <1>1, <1>2, <1>3 DEF TruthInv, MomentsOK, Held
<1>5. LogsTold'
  BY <1>1 DEF TruthInv, LogsTold
<1> QED
  BY <1>1, <1>2, <1>4, <1>5, HistoryStays, RepeatsStays DEF TruthInv

LEMMA SaveSnapshotTruth ==
    ASSUME TypeInv, TruthInv, SaveSnapshot
    PROVE  TruthInv'
<1>1. UNCHANGED <<topic, store, book, window, outbox, logCh, batch, past, journal>>
  BY DEF SaveSnapshot, committerVars, auxVars, applierVars
<1>2. /\ Seen' = Seen /\ marshalling \in Waiting
      /\ saved'.offset = marshalling.offset
      /\ saved'.book = marshalling.book
      /\ Waiting' \subseteq Waiting
  BY SaveSnapshotTyped
<1>3. Moment(saved', past) /\ ~ NoSnapshots
  BY <1>2 DEF TruthInv, MomentsOK, Moment, SaveSnapshot
<1>4. MomentsOK'
  BY <1>1, <1>2, <1>3 DEF TruthInv, MomentsOK, Held
<1>5. LogsTold'
  BY <1>1 DEF TruthInv, LogsTold
<1> QED
  BY <1>1, <1>2, <1>4, <1>5, HistoryStays, RepeatsStays DEF TruthInv

LEMMA RestartTruth ==
    ASSUME TypeInv, TruthInv, Restart, UNCHANGED <<topic, saved, past, journal>>,
           faults' \in 0 .. MaxFaults,
           IsSequence(store'), Range(store') \subseteq Range(store) \cup Range(batch)
    PROVE  TruthInv'
<1>1. /\ Waiting' = {}
      /\ Range(outbox') = {} /\ Range(logCh') = {} /\ Range(batch') = {}
      /\ saved = NoSnapshot => Seen' = 0 /\ book' = EmptyBook /\ window' = {}
      /\ saved # NoSnapshot => Seen' = saved.offset + 1 /\ book' = saved.book
  BY RestartTyped
<1>2. LogsTold'
  BY <1>1, LogsStay DEF TruthInv
<1>3. Len(past) \in Nat /\ Len(past) >= 1 /\ Len(topic) \in Nat
  BY HereInPast DEF TruthInv, HistoryOK
<1>4. Repeats'
  <2>1. CASE saved = NoSnapshot
    <3>1. Seen' + 1 = 1 /\ Seen' < Len(past')
      BY <1>1, <1>3, <2>1
    <3>2. past'[1].book = EmptyBook /\ past'[1].window = {}
      BY DEF TruthInv, HistoryOK
    <3> QED
      BY <1>1, <2>1, <3>1, <3>2 DEF Repeats, SameWindow
  <2>2. CASE saved # NoSnapshot
    <3>1. saved.offset \in Nat
      BY <1>3, <2>2 DEF TypeInv, SnapshotsOK
    <3>2. saved \in Held(saved)
      BY <2>2 DEF Held
    <3>3. Moment(saved, past) /\ ~ NoSnapshots
      BY <2>2, <3>2 DEF TruthInv, MomentsOK
    <3>4. Seen' + 1 = saved.offset + 2 /\ Seen' < Len(past')
      BY <1>1, <1>3, <2>2, <3>1, <3>3 DEF Moment
    <3> QED
      BY <1>1, <2>2, <3>3, <3>4 DEF Repeats, SameWindow, Moment
  <2> QED
    BY <2>1, <2>2
<1>5. MomentsOK'
  BY <1>1, MomentsStay DEF TruthInv
<1> QED
  BY <1>2, <1>4, <1>5, HistoryStays DEF TruthInv

LEMMA CrashTruth ==
    ASSUME TypeInv, TruthInv, Crash
    PROVE  TruthInv'
<1>1. Restart /\ UNCHANGED <<topic, saved, store, past, journal>>
  BY DEF Crash, durable, auxVars
<1>2. faults' \in 0 .. MaxFaults
  BY BoundsAssumption DEF Crash, Fault, TypeInv, CommitterOK
<1>3. IsSequence(store') /\ Range(store') \subseteq Range(store) \cup Range(batch)
  BY <1>1 DEF TruthInv, LogsTold
<1> QED
  BY <1>1, <1>2, <1>3, RestartTruth

LEMMA StoreLogsFailsTruth ==
    ASSUME TypeInv, TruthInv, StoreLogsFails
    PROVE  TruthInv'
<1>1. Restart /\ UNCHANGED <<topic, saved, past, journal>>
  BY DEF StoreLogsFails, auxVars
<1>2. faults' \in 0 .. MaxFaults
  BY BoundsAssumption DEF StoreLogsFails, Fault, TypeInv, CommitterOK
<1>3. IsSequence(batch) /\ IsSequence(store) /\ Len(batch) \in Nat
  BY SequenceFacts DEF TypeInv, CommitterOK, TruthInv, LogsTold
<1>4. PICK n \in 0 .. Len(batch) : store' = store \o SubSeq(batch, 1, n)
  BY SMTT(30), <1>3 DEF StoreLogsFails
<1>5. IsSequence(store') /\ Range(store') \subseteq Range(store) \cup Range(batch)
  BY <1>3, <1>4, FirstPart, ConcatSequence
<1> QED
  BY <1>1, <1>2, <1>5, RestartTruth

LEMMA ExpireSnapshotTruth ==
    ASSUME TypeInv, TruthInv, ExpireSnapshot
    PROVE  TruthInv'
<1>1. /\ UNCHANGED <<topic, store, book, window, outbox, logCh, batch, past, journal>>
      /\ Held(saved') = {}
  BY DEF ExpireSnapshot, committerVars, auxVars, applierVars, Held
<1>2. Seen' = Seen /\ Waiting' = Waiting
  BY ExpireSnapshotTyped
<1>3. LogsTold'
  BY <1>1 DEF TruthInv, LogsTold
<1> QED
  BY <1>1, <1>2, <1>3, HistoryStays, RepeatsStays, MomentsStay DEF TruthInv

LEMMA InitTruth == Init => TruthInv
<1> SUFFICES ASSUME Init PROVE TruthInv
  OBVIOUS
<1> DEFINE first == [book |-> EmptyBook, window |-> {}]
<1>1. /\ past = <<first>> /\ journal = << >> /\ store = << >> /\ outbox = << >>
      /\ logCh = << >> /\ batch = << >> /\ saved = NoSnapshot
      /\ book = EmptyBook /\ window = {}
  BY DEF Init
<1>2. Waiting = {} /\ Seen = 0 /\ Len(topic) \in Nat
  BY InitTyped, SeenFacts DEF TypeInv
<1>3. first.book = EmptyBook /\ first.window = {}
  OBVIOUS
<1> HIDE DEF first
<1>4. IsSequence(past) /\ Len(past) = 1 /\ past[1] = first
  BY <1>1, OneElement
<1>5. /\ IsSequence(journal) /\ Len(journal) = 0 /\ IsSequence(store)
      /\ Range(outbox) = {} /\ Range(logCh) = {} /\ Range(batch) = {} /\ Range(store) = {}
  BY <1>1, EmptySequence
<1>6. EmptyBook.logSeq = 0 /\ IsBook(EmptyBook) /\ {} \in Windows
  BY EmptyBookIsBook DEF EmptyBook, Windows
<1>7. HistoryOK
  <2>1. past[1] = [book |-> EmptyBook, window |-> {}]
    BY <1>4 DEF first
  <2>2. Len(past) \in 1 .. Len(topic) + 1 /\ 1 .. Len(past) = {1}
        /\ 1 .. Len(past) - 1 = {}
    BY <1>2, <1>4
  <2>3. IsBook(past[1].book) /\ past[1].window \in Windows
        /\ Len(journal) = past[Len(past)].book.logSeq
    BY <1>3, <1>4, <1>5, <1>6
  <2> QED
    BY <1>4, <1>5, <2>1, <2>2, <2>3 DEF HistoryOK
<1>8. Repeats
  BY <1>1, <1>2, <1>3, <1>4 DEF Repeats, SameWindow
<1>9. LogsTold
  BY <1>5 DEF LogsTold
<1>10. MomentsOK
  BY <1>1, <1>2 DEF MomentsOK, Held
<1> QED
  BY <1>7, <1>8, <1>9, <1>10 DEF TruthInv

LEMMA NextTruth ==
    ASSUME Undisturbed, TypeInv, TruthInv, [Next]_vars
    PROVE  TruthInv'
<1> USE DEF durable, applierVars, committerVars, auxVars
<1>1. CASE Fetch                BY <1>1, QuietStep, FetchTyped DEF Fetch
<1>2. CASE Apply                BY <1>2, ApplyTruth
<1>3. CASE SendLog              BY <1>3, SendLogTruth
<1>4. CASE TakeSnapshot         BY <1>4, TakeSnapshotTruth
<1>5. CASE StartCommitter       BY <1>5, QuietStep, StartCommitterTyped DEF StartCommitter
<1>6. CASE TakeLog              BY <1>6, TakeLogTruth
<1>7. CASE StoreLogs            BY <1>7, StoreLogsTruth
<1>8. CASE ApproveSnapshot      BY <1>8, QuietStep, ApproveSnapshotTyped DEF ApproveSnapshot
<1>9. CASE RequestSnapshot      BY <1>9, QuietStep, RequestSnapshotTyped DEF RequestSnapshot
<1>10. CASE MarshalSnapshot     BY <1>10, MarshalSnapshotTruth
<1>11. CASE SaveSnapshot        BY <1>11, SaveSnapshotTruth
<1>12. CASE SaveSnapshotFails   BY <1>12, QuietStep, SaveSnapshotFailsTyped DEF SaveSnapshotFails
<1>13. CASE Crash               BY <1>13, CrashTruth
<1>14. CASE StoreLogsFails      BY <1>14, StoreLogsFailsTruth
<1>15. CASE ExpireSnapshot      BY <1>15, ExpireSnapshotTruth
<1>16. CASE UNCHANGED vars      BY <1>16, QuietStep, StutterTyped DEF vars
<1> QED
  BY <1>1, <1>2, <1>3, <1>4, <1>5, <1>6, <1>7, <1>8, <1>9, <1>10, <1>11, <1>12,
     <1>13, <1>14, <1>15, <1>16 DEF Next

LEMMA TruthHolds ==
    ASSUME Undisturbed
    PROVE  Spec => [](TypeInv /\ TruthInv)
<1>1. Init => TypeInv /\ TruthInv
  BY InitTyped, InitTruth
<1>2. TypeInv /\ TruthInv /\ [Next]_vars => (TypeInv /\ TruthInv)'
  BY NextTyped, NextTruth
<1> QED
  BY <1>1, <1>2, PTL DEF Spec

-----------------------------------------------------------------------------
(* The theorems. *)

\* Whatever a start restores and replays, the book is at every offset what it
\* was when the offset was first reached.
THEOREM ReplayIsRepetition ==
    ASSUME Undisturbed
    PROVE  Spec => []ReplayRepeats
<1>1. TypeInv /\ TruthInv => ReplayRepeats
  BY SeenFacts DEF TypeInv, TruthInv, Repeats, ReplayRepeats
<1> QED
  BY <1>1, TruthHolds, PTL

\* A log that is written again after a crash is the log that was written first.
THEOREM OneStory ==
    ASSUME Undisturbed
    PROVE  Spec => []StoreTellsJournal
<1>1. TypeInv /\ TruthInv => StoreTellsJournal
  <2> SUFFICES ASSUME TypeInv, TruthInv, NEW i \in DOMAIN store
               PROVE  /\ store[i].seq \in DOMAIN journal
                      /\ store[i] = journal[store[i].seq]
    BY DEF StoreTellsJournal
  <2>1. store[i] \in Range(store) /\ DOMAIN journal = 1 .. Len(journal)
    BY SequenceFacts DEF TruthInv, LogsTold, HistoryOK
  <2>2. Told(store[i], journal)
    BY <2>1 DEF TruthInv, LogsTold
  <2> QED
    BY <2>1, <2>2 DEF Told
<1> QED
  BY <1>1, TruthHolds, PTL

\* The book in Redis is the one the messages up to its offset lead to, though
\* it was copied, kept waiting and encoded while the applier went on.
THEOREM SavedBookIsOfItsOffset ==
    ASSUME Undisturbed
    PROVE  Spec => []SavedBookIsMoment
<1>1. TypeInv /\ TruthInv => SavedBookIsMoment
  BY DEF TruthInv, MomentsOK, Moment, Held, SavedBookIsMoment
<1> QED
  BY <1>1, TruthHolds, PTL

-----------------------------------------------------------------------------
(* The refinement: what readers of the log topic get.  What a reader takes  *)
(* goes up by one from the first log there is, for it stops at a gap.       *)

Taken == {i \in DOMAIN store : NewTo(i) /\ \A j \in 1 .. i : ~ GapAt(j)}

LEMMA TakenNumbers ==
    ASSUME TruthInv
    PROVE  /\ IsSequence(store) /\ Len(store) \in Nat /\ DOMAIN store = 1 .. Len(store)
           /\ IsSequence(journal) /\ Len(journal) \in Nat
           /\ Taken = {i \in 1 .. Len(store) : NewTo(i) /\ \A j \in 1 .. i : ~ GapAt(j)}
           /\ \A i \in 1 .. Len(store) : /\ store[i].seq \in 1 .. Len(journal)
                                         /\ store[i] = journal[store[i].seq]
<1>1. /\ IsSequence(store) /\ IsSequence(journal)
      /\ Len(store) \in Nat /\ DOMAIN store = 1 .. Len(store)
      /\ Len(journal) \in Nat
      /\ \A i \in 1 .. Len(store) : store[i] \in Range(store)
  BY SequenceFacts DEF TruthInv, LogsTold, HistoryOK
<1>2. \A i \in 1 .. Len(store) : Told(store[i], journal)
  BY <1>1 DEF TruthInv, LogsTold
<1> QED
  BY <1>1, <1>2 DEF Told, Taken

LEMMA TakenDiffer ==
    ASSUME TruthInv, NEW i \in Taken, NEW j \in Taken, store[i].seq = store[j].seq
    PROVE  i = j
<1>1. /\ store[i].seq \in Int /\ store[j].seq \in Int
      /\ i \in Nat /\ j \in Nat /\ i >= 1 /\ j >= 1 /\ NewTo(i) /\ NewTo(j)
  BY TakenNumbers
<1>2. ~ (i < j)
  <2> SUFFICES ASSUME i < j PROVE FALSE
    OBVIOUS
  <2>1. i \in 1 .. j - 1
    BY <1>1
  <2>2. store[i].seq < store[j].seq
    BY <1>1, <2>1 DEF NewTo
  <2> QED
    BY <1>1, <2>2
<1>3. ~ (j < i)
  <2> SUFFICES ASSUME j < i PROVE FALSE
    OBVIOUS
  <2>1. j \in 1 .. i - 1
    BY <1>1
  <2>2. store[j].seq < store[i].seq
    BY <1>1, <2>1 DEF NewTo
  <2> QED
    BY <1>1, <2>2
<1> QED
  BY <1>1, <1>2, <1>3

\* The first log is taken, and no log taken has a lower number.
LEMMA FirstIsTaken ==
    ASSUME TruthInv, store # << >>
    PROVE  /\ 1 \in Taken
           /\ store[1].seq \in 1 .. Len(journal)
           /\ \A i \in Taken : store[1].seq <= store[i].seq
<1>1. 1 \in 1 .. Len(store)
  BY TakenNumbers, SequenceFacts
<1>2. 1 .. (1 - 1) = {} /\ \A j \in 1 .. 1 : j = 1
  OBVIOUS
<1>3. NewTo(1) /\ ~ GapAt(1)
  BY <1>2 DEF NewTo, GapAt
<1>4. 1 \in Taken
  BY <1>1, <1>2, <1>3, TakenNumbers
<1>5. ASSUME NEW i \in Taken
      PROVE  store[1].seq <= store[i].seq
  <2>1. /\ i \in 1 .. Len(store) /\ NewTo(i) /\ Len(store) \in Nat
        /\ store[i].seq \in Nat /\ store[1].seq \in Nat
    BY <1>1, TakenNumbers
  <2>2. CASE i = 1
    BY <2>1, <2>2
  <2>3. CASE i # 1
    <3>1. 1 \in 1 .. i - 1
      BY <2>1, <2>3
    <3> QED
      BY <2>1, <3>1 DEF NewTo
  <2> QED
    BY <2>2, <2>3
<1> QED
  BY <1>1, <1>4, <1>5, TakenNumbers

\* The log before one that is taken is taken too.
LEMMA OneBeforeIsTaken ==
    ASSUME TruthInv, NEW i \in Taken, store[i].seq # store[1].seq
    PROVE  \E j \in Taken : store[j].seq = store[i].seq - 1
<1> DEFINE v == store[i].seq - 1
           S == {j \in 1 .. i - 1 : store[j].seq = v}
<1>1. /\ i \in 1 .. Len(store) /\ Len(store) \in Nat /\ NewTo(i)
      /\ \A j \in 1 .. i : ~ GapAt(j)
      /\ \A j \in 1 .. Len(store) : store[j].seq \in 1 .. Len(journal)
      /\ Len(journal) \in Nat
  BY TakenNumbers
<1>2. i > 1 /\ ~ GapAt(i)
  BY <1>1
<1>3. S # {} /\ S \subseteq Nat
  BY <1>1, <1>2 DEF GapAt
<1>4. PICK j \in S : \A k \in S : j <= k
  BY <1>3, LeastNumber
<1>5. /\ j \in 1 .. i - 1 /\ store[j].seq = v /\ j \in 1 .. Len(store)
      /\ v \in Int
  BY <1>1, <1>4
<1>6. ASSUME NEW k \in 1 .. j - 1
      PROVE  store[k].seq < store[j].seq
  <2>1. k \in 1 .. i - 1 /\ k \in 1 .. Len(store) /\ ~ (j <= k)
    BY <1>1, <1>5
  <2>2. k \notin S
    BY <1>4, <2>1
  <2>3. store[k].seq # v /\ store[k].seq < store[i].seq /\ store[k].seq \in Nat
    BY <1>1, <2>1, <2>2 DEF NewTo
  <2> HIDE DEF S
  <2> QED
    BY <1>1, <1>5, <2>3
<1>7. NewTo(j)
  BY <1>6 DEF NewTo
<1>8. \A k \in 1 .. j : ~ GapAt(k)
  <2>1. \A k \in 1 .. j : k \in 1 .. i
    BY <1>1, <1>5
  <2> QED
    BY <1>1, <2>1
<1>9. j \in Taken
  BY <1>5, <1>7, <1>8, TakenNumbers
<1> QED
  BY <1>5, <1>9

\* The numbers taken are all those from the first to the last.
LEMMA TakenIsStretch ==
    ASSUME TruthInv, store # << >>, NEW a, a = store[1].seq
    PROVE  LET m == Cardinality(Taken)
           IN  /\ m \in Nat /\ a + m - 1 <= Len(journal)
               /\ \A k \in 1 .. m : \E i \in Taken : store[i].seq = a + k - 1
<1> DEFINE SeqsTaken == {store[i].seq : i \in Taken}
           S == {Len(journal) - v : v \in SeqsTaken}
<1>1. /\ a \in 1 .. Len(journal) /\ Len(journal) \in Nat
      /\ 1 \in Taken
      /\ \A i \in Taken : a <= store[i].seq /\ store[i].seq \in 1 .. Len(journal)
  BY FirstIsTaken, TakenNumbers
<1>2. /\ a \in SeqsTaken
      /\ \A v \in SeqsTaken : v \in a .. Len(journal)
  BY <1>1
<1>3. \A v \in SeqsTaken : v # a => v - 1 \in SeqsTaken
  BY OneBeforeIsTaken
<1> HIDE DEF SeqsTaken
<1>4. S # {} /\ S \subseteq Nat
  BY <1>1, <1>2
<1>5. PICK d \in S : \A e \in S : d <= e
  BY <1>4, LeastNumber
<1>6. PICK top \in SeqsTaken : d = Len(journal) - top
  BY <1>5
<1>7. top \in a .. Len(journal) /\ \A v \in SeqsTaken : v <= top
  <2>1. top \in a .. Len(journal)
    BY <1>2
  <2>2. ASSUME NEW v \in SeqsTaken
        PROVE  v <= top
    <3>1. d <= Len(journal) - v
      BY <1>5
    <3>2. v \in Int
      BY <1>1, <1>2
    <3> QED
      BY <1>1, <1>6, <2>1, <3>1, <3>2
  <2> QED
    BY <2>1, <2>2
<1>8. ASSUME NEW n \in a .. top
      PROVE  n \in SeqsTaken
  <2> DEFINE Lost == {top - v : v \in a .. top \ SeqsTaken}
  <2>1. SUFFICES ASSUME n \notin SeqsTaken
                 PROVE  FALSE
    OBVIOUS
  <2>2. Lost # {} /\ Lost \subseteq Nat
    BY <1>1, <1>7, <2>1
  <2>3. PICK g \in Lost : \A h \in Lost : g <= h
    BY <2>2, LeastNumber
  <2>4. PICK v \in a .. top \ SeqsTaken : g = top - v
    BY <2>3
  <2>5. v # top /\ v + 1 \in a .. top
    BY <1>1, <1>7, <2>4
  <2>6. v + 1 \in SeqsTaken
    <3>1. SUFFICES ASSUME v + 1 \notin SeqsTaken
                   PROVE  FALSE
      OBVIOUS
    <3>2. top - (v + 1) \in Lost
      BY <2>5, <3>1
    <3>3. g <= top - (v + 1)
      BY <2>3, <3>2
    <3> HIDE DEF Lost
    <3> QED
      BY <1>1, <1>7, <2>4, <3>3
  <2>7. v + 1 # a /\ (v + 1) - 1 = v
    BY <1>1, <1>7, <2>4
  <2> QED
    BY <1>3, <2>4, <2>6, <2>7
<1> DEFINE m == top - a + 1
           f == [n \in 1 .. m |-> CHOOSE i \in Taken : store[i].seq = a + n - 1]
<1>9. m \in Nat /\ a + m - 1 = top
  BY <1>1, <1>7
<1>10. ASSUME NEW n \in 1 .. m
       PROVE  \E i \in Taken : store[i].seq = a + n - 1
  <2>1. a + n - 1 \in a .. top
    BY <1>1, <1>7
  <2> QED
    BY <1>8, <2>1 DEF SeqsTaken
<1>11. ASSUME NEW n \in 1 .. m
       PROVE  f[n] \in Taken /\ store[f[n]].seq = a + n - 1
  BY <1>10
<1>12. ASSUME NEW i \in Taken
       PROVE  (store[i].seq - a + 1) \in 1 .. m /\ f[store[i].seq - a + 1] = i
  <2>1. store[i].seq \in SeqsTaken
    BY DEF SeqsTaken
  <2>2. store[i].seq \in a .. top
    BY <1>2, <1>7, <2>1
  <2>3. (store[i].seq - a + 1) \in 1 .. m /\ a + (store[i].seq - a + 1) - 1 = store[i].seq
    BY <1>1, <1>7, <2>2
  <2> DEFINE n == store[i].seq - a + 1
  <2> HIDE DEF n, m, f
  <2>4. f[n] \in Taken /\ store[f[n]].seq = store[i].seq
    BY <1>11, <2>3 DEF n
  <2>5. f[n] = i
    BY <2>4, TakenDiffer
  <2> QED
    BY <2>3, <2>5 DEF n
<1>13. Cardinality(Taken) = m
  <2>1. f \in [1 .. m -> Taken]
    BY <1>11
  <2>2. \A n \in 1 .. m : n \in Int /\ a \in Int
    BY <1>1
  <2> HIDE DEF f, m
  <2>3. f \in Surjection(1 .. m, Taken)
    BY <1>12, <2>1 DEF Surjection
  <2>4. f \in Injection(1 .. m, Taken)
    <3>1. ASSUME NEW n \in 1 .. m, NEW k \in 1 .. m, f[n] = f[k]
          PROVE  n = k
      <4>1. a + n - 1 = a + k - 1
        BY <1>11, <3>1
      <4> QED
        BY <2>2, <4>1
    <3> QED
      BY <2>1, <3>1 DEF Injection, IsInjective
  <2>5. IsFiniteSet(1 .. m) /\ Cardinality(1 .. m) = m
    BY <1>9, FS_Interval
  <2> QED
    BY <2>3, <2>4, <2>5, FS_Surjection
<1>14. a + m - 1 <= Len(journal)
  BY <1>1, <1>7, <1>9
<1> HIDE DEF m
<1> QED
  BY <1>9, <1>10, <1>13, <1>14

\* What readers get is a stretch of the logs of the book.
PublishedIs ==
    /\ store = << >> => Published = << >>
    /\ store # << >> =>
          /\ store[1].seq \in 1 .. Len(journal)
          /\ Cardinality(Taken) \in Nat
          /\ store[1].seq + Cardinality(Taken) - 1 <= Len(journal)
          /\ Published = SubSeq(journal, store[1].seq,
                                store[1].seq + Cardinality(Taken) - 1)

LEMMA StretchOfJournal ==
    ASSUME IsSequence(journal), NEW a \in 1 .. Len(journal), NEW m \in Nat,
           a + m - 1 <= Len(journal)
    PROVE  /\ SubSeq(journal, a, a + m - 1) = [k \in 1 .. m |-> journal[a + k - 1]]
           /\ Len(SubSeq(journal, a, a + m - 1)) = m
<1>1. Len(journal) \in Nat /\ journal \in Seq(Range(journal))
  BY SequenceFacts DEF IsSequence
<1> DEFINE s == SubSeq(journal, a, a + m - 1)
<1>2. /\ s \in Seq(Range(journal))
      /\ Len(s) = IF a <= a + m - 1 THEN (a + m - 1) - a + 1 ELSE 0
      /\ \A k \in 1 .. (a + m - 1) - a + 1 : s[k] = journal[a + k - 1]
  <2>1. \A i \in a .. a + m - 1 : journal[i] \in Range(journal)
    BY <1>1, SequenceFacts
  <2>2. a \in Int /\ a + m - 1 \in Int
    BY <1>1
  <2> QED
    BY <2>1, <2>2, SubSeqProperties
<1>3. (a + m - 1) - a + 1 = m /\ (a <= a + m - 1 <=> m > 0)
  BY <1>1
<1> HIDE DEF s
<1>4. Len(s) = m /\ \A k \in 1 .. m : s[k] = journal[a + k - 1]
  BY <1>2, <1>3
<1>5. s = [k \in 1 .. m |-> s[k]]
  <2>1. s \in [1 .. Len(s) -> Range(journal)]
    BY <1>2, LenProperties
  <2> QED
    BY <1>4, <2>1
<1> QED
  BY <1>4, <1>5 DEF s

\* What has been read of a stretch is where the rest of it goes on.
LEMMA StretchGrows ==
    ASSUME IsSequence(journal), NEW a \in 1 .. Len(journal), NEW k \in Nat,
           a + k - 1 <= Len(journal), NEW m \in Nat, m <= k,
           NEW p, p = << >> \/ p = SubSeq(journal, a, a + m - 1)
    PROVE  /\ p = SubSeq(journal, a, a + Len(p) - 1)
           /\ a + k - 1 \in a + Len(p) - 1 .. Len(journal)
<1>1. Len(journal) \in Nat /\ a \in Int
  BY SequenceFacts
<1>2. ASSUME NEW j \in Nat, j <= k, p = SubSeq(journal, a, a + j - 1)
      PROVE  /\ p = SubSeq(journal, a, a + Len(p) - 1)
             /\ a + k - 1 \in a + Len(p) - 1 .. Len(journal)
  <2>1. a + j - 1 <= Len(journal)
    BY <1>1, <1>2
  <2>2. Len(p) = j
    BY <1>2, <2>1, StretchOfJournal
  <2>3. a + k - 1 \in a + j - 1 .. Len(journal)
    BY <1>1, <1>2
  <2> QED
    BY <1>2, <2>2, <2>3
<1>3. SubSeq(journal, a, a + 0 - 1) = << >>
  <2>1. a + 0 - 1 <= Len(journal)
    BY <1>1
  <2>2. SubSeq(journal, a, a + 0 - 1) = [i \in 1 .. 0 |-> journal[a + i - 1]]
    BY <2>1, StretchOfJournal
  <2> QED
    BY <2>2
<1>4. CASE p = << >>
  <2>1. 0 \in Nat /\ 0 <= k /\ p = SubSeq(journal, a, a + 0 - 1)
    BY <1>3, <1>4
  <2> QED
    BY <1>2, <2>1
<1>5. CASE p = SubSeq(journal, a, a + m - 1)
  BY <1>2, <1>5
<1> QED
  BY <1>4, <1>5

LEMMA PublishedIsStretch == TruthInv => PublishedIs
<1> SUFFICES ASSUME TruthInv
             PROVE  PublishedIs
  OBVIOUS
<1>1. Published = [k \in 1 .. Cardinality(Taken) |->
                     store[CHOOSE i \in Taken : store[i].seq = store[1].seq + k - 1]]
  BY DEF Published, Taken
<1>2. CASE store = << >>
  <2>1. Len(store) = 0
    BY <1>2, EmptySequence
  <2>2. Taken = {}
    BY <2>1, TakenNumbers
  <2>3. Cardinality(Taken) = 0
    BY <2>2, FS_EmptySet
  <2>4. Published = << >>
    BY <1>1, <2>3
  <2> QED
    BY <1>2, <2>4 DEF PublishedIs
<1>3. CASE store # << >>
  <2> DEFINE a == store[1].seq
             m == Cardinality(Taken)
  <2>1. /\ m \in Nat /\ a + m - 1 <= Len(journal)
        /\ \A k \in 1 .. m : \E i \in Taken : store[i].seq = a + k - 1
    BY <1>3, TakenIsStretch
  <2>2. a \in 1 .. Len(journal)
    BY <1>3, FirstIsTaken
  <2>3. ASSUME NEW k \in 1 .. m
        PROVE  store[CHOOSE i \in Taken : store[i].seq = a + k - 1] = journal[a + k - 1]
    <3> DEFINE j == CHOOSE i \in Taken : store[i].seq = a + k - 1
    <3>1. j \in Taken /\ store[j].seq = a + k - 1
      BY <2>1
    <3> HIDE DEF j, a, m
    <3>2. store[j] = journal[store[j].seq]
      BY <3>1, TakenNumbers
    <3> QED
      BY <3>1, <3>2 DEF j
  <2>4. Published = [k \in 1 .. m |-> journal[a + k - 1]]
    BY <1>1, <2>3
  <2>5. IsSequence(journal)
    BY TakenNumbers
  <2>6. SubSeq(journal, a, a + m - 1) = [k \in 1 .. m |-> journal[a + k - 1]]
    <3> HIDE DEF a, m
    <3> QED
      BY <2>1, <2>2, <2>5, StretchOfJournal
  <2> QED
    BY <1>3, <2>1, <2>2, <2>4, <2>6 DEF PublishedIs
<1> QED
  BY <1>2, <1>3

\* What was taken stays taken when the topic grows.
LEMMA TakenGrows ==
    ASSUME TruthInv, TruthInv', NEW t, IsSequence(t), store' = store \o t
    PROVE  /\ Cardinality(Taken) \in Nat /\ Cardinality(Taken') \in Nat
           /\ Cardinality(Taken) <= Cardinality(Taken')
           /\ store # << >> => store' # << >> /\ store'[1] = store[1]
<1>1. /\ IsSequence(store) /\ Len(store) \in Nat /\ DOMAIN store = 1 .. Len(store)
  BY TakenNumbers
<1>2. /\ Len(t) \in Nat /\ Len(store') = Len(store) + Len(t)
      /\ \A i \in 1 .. Len(store) : store'[i] = store[i]
  BY <1>1, ConcatIndices
<1>3. IsSequence(store') /\ DOMAIN store' = 1 .. Len(store')
  BY <1>1, ConcatSequence, SequenceFacts
<1>4. ASSUME NEW i \in 1 .. Len(store)
      PROVE  NewTo(i)' = NewTo(i) /\ GapAt(i)' = GapAt(i)
  <2>1. \A j \in 1 .. i - 1 : j \in 1 .. Len(store)
    BY <1>1
  <2>2. store'[i] = store[i] /\ \A j \in 1 .. i - 1 : store'[j] = store[j]
    BY <1>2, <2>1
  <2>3. NewTo(i)' = NewTo(i)
    BY <2>2 DEF NewTo
  <2> QED
    BY <2>2, <2>3 DEF GapAt
<1>5. Taken \subseteq Taken'
  <2> SUFFICES ASSUME NEW i \in Taken
               PROVE  i \in Taken'
    OBVIOUS
  <2>1. i \in 1 .. Len(store) /\ NewTo(i) /\ \A j \in 1 .. i : ~ GapAt(j)
    BY TakenNumbers
  <2>2. \A j \in 1 .. i : j \in 1 .. Len(store)
    BY <1>1, <2>1
  <2>3. i \in DOMAIN store'
    BY <1>1, <1>2, <1>3, <2>1
  <2>4. NewTo(i)' /\ \A j \in 1 .. i : ~ GapAt(j)'
    BY <1>4, <2>1, <2>2
  <2> QED
    BY <2>3, <2>4 DEF Taken
<1>6. Taken' \subseteq 1 .. Len(store')
  BY <1>3 DEF Taken
<1>7. IsFiniteSet(1 .. Len(store'))
  BY <1>1, <1>2, FS_Interval
<1>8. IsFiniteSet(Taken')
  BY <1>6, <1>7, FS_Subset
<1>9. IsFiniteSet(Taken) /\ Cardinality(Taken) <= Cardinality(Taken')
  BY <1>5, <1>8, FS_Subset
<1>10. Cardinality(Taken) \in Nat /\ Cardinality(Taken') \in Nat
  BY <1>8, <1>9, FS_CardinalityType
<1>11. ASSUME store # << >>
       PROVE  store' # << >> /\ store'[1] = store[1]
  <2>1. Len(store) > 0
    BY <1>1, <1>11, SequenceFacts
  <2>2. 1 \in 1 .. Len(store) /\ Len(store') > 0
    BY <1>1, <1>2, <2>1
  <2> QED
    BY <1>2, <1>3, <2>2, SequenceFacts
<1> QED
  BY <1>9, <1>10, <1>11

-----------------------------------------------------------------------------
(* Step by step: a first application is the service's handling of the next *)
(* message, a write of a batch lets readers get some more of the logs, and *)
(* no other step shows.                                                    *)

LEMMA PublishedStays == UNCHANGED store => Published' = Published
BY DEF Published, GapAt, NewTo

LEMMA QuietForReaders ==
    UNCHANGED <<topic, store, past, journal>> => UNCHANGED Service!vars
BY PublishedStays DEF Service!vars

LEMMA InitRefines ==
    ASSUME TypeInv, TruthInv, PublishedIs, Init
    PROVE  Service!Init
<1>1. topic \in Seq(Messages)
  BY TopicsAssumption DEF Init
<1>2. past = <<[book |-> EmptyBook, window |-> {}]>> /\ journal = << >> /\ store = << >>
  BY DEF Init
<1>3. /\ Len(past) = 1
      /\ past[Len(past)] = [book |-> EmptyBook, window |-> {}]
  BY <1>2, OneElement
<1>4. past[Len(past)].book = EmptyBook /\ past[Len(past)].window = {}
  BY <1>3
<1>5. Published = << >>
  BY <1>2 DEF PublishedIs
<1>6. Len(past) - 1 = 0
  BY <1>3
<1> QED
  BY <1>1, <1>2, <1>4, <1>5, <1>6 DEF Service!Init

LEMMA HandleNextStep ==
    ASSUME NEW r,
           r = Handle(past[Len(past)].book, past[Len(past)].window, topic[Len(past)]),
           Len(past) \in Nat, Len(past) - 1 < Len(topic), Len(past') = Len(past) + 1,
           past'[Len(past')].book = r.book, past'[Len(past')].window = r.window,
           journal' = journal \o r.logs,
           UNCHANGED <<topic, store>>
    PROVE  Service!HandleNext
<1>1. (Len(past) - 1) + 1 = Len(past) /\ Len(past') - 1 = (Len(past) - 1) + 1
  OBVIOUS
<1>2. Published' = Published
  BY PublishedStays
<1> QED
  BY <1>1, <1>2 DEF Service!HandleNext

LEMMA ApplyRefines ==
    ASSUME Undisturbed, TypeInv, TruthInv, Apply
    PROVE  Service!HandleNext \/ UNCHANGED Service!vars
<1> DEFINE r == Handle(book, window, topic[Seen + 1])
           p == Handle(past[Seen + 1].book, past[Seen + 1].window, topic[Seen + 1])
           new == [book |-> r.book, window |-> p.window]
<1>1. Head(orderCh) = Seen /\ UNCHANGED <<topic, store>>
  BY SeenFacts DEF TypeInv, Apply, durable
<1>2. /\ Len(past) \in Nat /\ Seen \in Nat /\ Seen + 1 \in 1 .. Len(topic)
      /\ Len(topic) \in Nat
  BY HereInPast, ApplyTyped
<1>3. CASE Len(past) = Seen + 1
  <2>1. past' = Append(past, new) /\ journal' = journal \o r.logs
    BY <1>1, <1>3 DEF Apply
  <2>2. new.book = r.book /\ new.window = p.window
    OBVIOUS
  <2>3. /\ book = past[Seen + 1].book /\ SameWindow(window, past[Seen + 1].window)
        /\ topic[Seen + 1] \in Messages
    BY <1>2, SeenFacts, ElementOfSeq DEF TypeInv, TruthInv, Repeats
  <2>4. r.book = p.book /\ r.logs = p.logs
    BY <2>3, HandleRepeats DEF SameWindow, Undisturbed
  <2>5. IsSequence(past)
    BY DEF TruthInv, HistoryOK
  <2>6. p = Handle(past[Len(past)].book, past[Len(past)].window, topic[Len(past)])
    BY <1>3
  <2> HIDE DEF new, r, p
  <2>7. Len(past') = Len(past) + 1 /\ past'[Len(past')] = new
    BY <2>1, <2>5, AppendSequence
  <2>8. past'[Len(past')].book = p.book /\ past'[Len(past')].window = p.window
    BY <2>2, <2>4, <2>7
  <2>9. Len(past) - 1 < Len(topic)
    BY <1>2, <1>3
  <2>10. journal' = journal \o p.logs
    BY <2>1, <2>4
  <2> QED
    BY <1>1, <1>2, <2>6, <2>7, <2>8, <2>9, <2>10, HandleNextStep
<1>4. CASE Len(past) # Seen + 1
  <2>1. UNCHANGED <<past, journal>>
    BY <1>1, <1>4 DEF Apply
  <2> QED
    BY <1>1, <2>1, QuietForReaders
<1> QED
  BY <1>3, <1>4

LEMMA JoinedTwice ==
    ASSUME NEW s, IsSequence(s), NEW t, IsSequence(t), NEW u, IsSequence(u)
    PROVE  s \o t \o u = s \o (t \o u)
<1> DEFINE S == Range(s) \cup Range(t) \cup Range(u)
<1>1. s \in Seq(S) /\ t \in Seq(S) /\ u \in Seq(S)
  BY SeqMonotonic DEF IsSequence
<1> HIDE DEF S
<1> QED
  BY <1>1, ConcatAssociative

\* The topic grows: readers get some more of the logs, or, if there were none,
\* their first.
LEMMA PublishStep ==
    ASSUME TruthInv, TruthInv', PublishedIs, PublishedIs',
           UNCHANGED <<topic, past, journal>>,
           NEW t, IsSequence(t), store' = store \o t
    PROVE  Service!LossyNext \/ UNCHANGED Service!vars
<1> DEFINE m == Cardinality(Taken)
           k == Cardinality(Taken')
<1>1. /\ m \in Nat /\ k \in Nat /\ m <= k
      /\ store # << >> => store' # << >> /\ store'[1] = store[1]
  BY TakenGrows
<1>2. IsSequence(journal) /\ Len(journal) \in Nat
  BY TakenNumbers
<1> HIDE DEF m, k
<1>3. CASE store' = << >>
  <2>1. store = << >>
    BY <1>1, <1>3
  <2> QED
    BY <1>3, <2>1, QuietForReaders
<1>4. CASE store' # << >>
  <2> DEFINE a == store'[1].seq
             n == a + k - 1
  <2>1. /\ a \in 1 .. Len(journal) /\ n <= Len(journal)
        /\ Published' = SubSeq(journal, a, n)
    BY <1>4 DEF PublishedIs, k
  <2>2. \/ Published = << >>
        \/ Published = SubSeq(journal, a, a + m - 1)
    BY <1>1 DEF PublishedIs, m
  <2> HIDE DEF a
  <2>3. /\ Published = SubSeq(journal, a, a + Len(Published) - 1)
        /\ n \in a + Len(Published) - 1 .. Len(journal)
    BY <1>1, <1>2, <2>1, <2>2, StretchGrows
  <2> HIDE DEF n
  <2>5. Service!PublishFrom(a)
    BY <2>1, <2>3 DEF Service!PublishFrom
  <2> QED
    BY <2>1, <2>5 DEF Service!LossyNext
<1> QED
  BY <1>3, <1>4

LEMMA NextRefines ==
    ASSUME Undisturbed, TypeInv, TruthInv, TruthInv', PublishedIs, PublishedIs',
           [Next]_vars
    PROVE  [Service!LossyNext]_Service!vars
<1> USE DEF durable, auxVars
<1>0. IsSequence(store) /\ IsSequence(batch)
  BY DEF TruthInv, LogsTold, TypeInv, CommitterOK
<1>1. CASE Fetch                BY <1>1, QuietForReaders DEF Fetch
<1>2. CASE Apply                BY <1>2, ApplyRefines DEF Service!LossyNext
<1>3. CASE SendLog              BY <1>3, QuietForReaders DEF SendLog
<1>4. CASE TakeSnapshot         BY <1>4, QuietForReaders DEF TakeSnapshot
<1>5. CASE StartCommitter       BY <1>5, QuietForReaders DEF StartCommitter
<1>6. CASE TakeLog              BY <1>6, QuietForReaders DEF TakeLog
<1>7. CASE StoreLogs
  <2>1. PICK n \in 0 .. Len(batch) : store' = store \o SubSeq(batch, 1, n) \o batch
    BY <1>7 DEF StoreLogs
  <2> DEFINE part == SubSeq(batch, 1, n)
             t == part \o batch
  <2>2. IsSequence(part) /\ IsSequence(t)
    BY <1>0, FirstPart, ConcatSequence
  <2> HIDE DEF part
  <2>3. store' = store \o t
    <3>1. store \o part \o batch = store \o (part \o batch)
      BY <1>0, <2>2, JoinedTwice
    <3> QED
      BY <2>1, <3>1 DEF part
  <2>4. UNCHANGED <<topic, past, journal>>
    BY <1>7 DEF StoreLogs
  <2> HIDE DEF t
  <2> QED
    BY <2>2, <2>3, <2>4, PublishStep
<1>8. CASE ApproveSnapshot      BY <1>8, QuietForReaders DEF ApproveSnapshot
<1>9. CASE RequestSnapshot      BY <1>9, QuietForReaders DEF RequestSnapshot
<1>10. CASE MarshalSnapshot     BY <1>10, QuietForReaders DEF MarshalSnapshot
<1>11. CASE SaveSnapshot        BY <1>11, QuietForReaders DEF SaveSnapshot
<1>12. CASE SaveSnapshotFails   BY <1>12, QuietForReaders DEF SaveSnapshotFails
<1>13. CASE Crash               BY <1>13, QuietForReaders DEF Crash
<1>14. CASE StoreLogsFails
  <2>1. PICK n \in 1 .. Len(batch) : store' = store \o SubSeq(batch, 1, n)
    BY <1>14 DEF StoreLogsFails
  <2>2. n \in 0 .. Len(batch)
    BY <1>0, SequenceFacts
  <2>3. IsSequence(SubSeq(batch, 1, n))
    BY <1>0, <2>2, FirstPart
  <2>4. UNCHANGED <<topic, past, journal>>
    BY <1>14 DEF StoreLogsFails
  <2> QED
    BY <2>1, <2>3, <2>4, PublishStep
<1>15. CASE ExpireSnapshot      BY <1>15, QuietForReaders DEF ExpireSnapshot
<1>16. CASE UNCHANGED vars      BY <1>16, QuietForReaders DEF vars
<1> QED
  BY <1>1, <1>2, <1>3, <1>4, <1>5, <1>6, <1>7, <1>8, <1>9, <1>10, <1>11, <1>12,
     <1>13, <1>14, <1>15, <1>16 DEF Next

\* Whatever crashes, replays, partial batches and retried writes do, and
\* whenever the committer reads the number it starts from, the readers of the
\* log topic get an unbroken stretch of the logs of one book that takes the
\* messages one by one: never a log twice, out of order, or changed.
THEOREM EngineImplementsLossyLogService ==
    ASSUME Undisturbed
    PROVE  Spec => ImplementsLossyLogService
<1> DEFINE Inv == TypeInv /\ TruthInv /\ PublishedIs
<1>1. Init => Inv
  BY InitTyped, InitTruth, PublishedIsStretch
<1>2. Inv /\ [Next]_vars => Inv'
  <2> SUFFICES ASSUME Inv, [Next]_vars PROVE Inv'
    OBVIOUS
  <2>1. TypeInv' /\ TruthInv'
    BY NextTyped, NextTruth
  <2>2. (TruthInv => PublishedIs)'
    BY PublishedIsStretch, PTL
  <2> QED
    BY <2>1, <2>2
<1>3. Init /\ Inv => Service!Init
  BY InitRefines
<1>4. Inv /\ Inv' /\ [Next]_vars => [Service!LossyNext]_Service!vars
  BY NextRefines
<1> HIDE DEF Inv
<1> QED
  BY <1>1, <1>2, <1>3, <1>4, PTL DEF Spec, ImplementsLossyLogService, Service!LossySpec
=============================================================================
