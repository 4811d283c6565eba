------------------------------- MODULE Engine -------------------------------
(***************************************************************************)
(* matching/engine.go: the matching engine of one product.  Four           *)
(* goroutines work on it, joined by channels:                              *)
(*                                                                         *)
(*   runFetcher    reads the order topic into orderCh                      *)
(*   runApplier    applies messages to the order book, sends the logs to   *)
(*                 logCh, and takes a copy of the book when asked          *)
(*   runCommitter  writes the logs to the log topic, in batches, and       *)
(*                 approves a copy once its logs are written               *)
(*   runSnapshots  asks for a copy from time to time and stores approved   *)
(*                 copies in Redis                                         *)
(*                                                                         *)
(* A crash loses the memory; NewEngine restores the stored snapshot and    *)
(* replays the order topic from its offset.  The order topic, the log      *)
(* topic (Kafka) and the stored snapshot (Redis) survive.                  *)
(***************************************************************************)
EXTENDS Matching

CONSTANTS
    Topics,         \* the contents the order topic may have
    OrderChCap,     \* capacity of orderCh (10000 in the code)
    LogChCap,       \* capacity of logCh (10000 in the code)
    BatchMax,       \* logs the committer gathers at most (100 in the code)
    SnapshotDelta,  \* messages a snapshot must be ahead of the last (1000)
    MaxSnapshots,   \* bound: snapshots on their way at a time
    MaxFaults,      \* bound: crashes and writes that fail or are repeated
    PromptStart     \* runCommitter reads logSeq before the first order comes

ASSUME TopicsAssumption == \A t \in Topics : t \in Seq(Messages)
ASSUME ChannelsAssumption ==
    OrderChCap \in Nat \ {0} /\ LogChCap \in Nat \ {0, 1} /\ BatchMax \in Nat \ {0}
ASSUME BoundsAssumption ==
    SnapshotDelta \in Nat /\ MaxSnapshots \in Nat /\ MaxFaults \in Nat
ASSUME PromptStartAssumption == PromptStart \in BOOLEAN

VARIABLES
    topic,      \* the order topic; the message at offset k is topic[k + 1]
    store,      \* the log topic
    saved,      \* the snapshot in Redis, or NoSnapshot
    fetchNext,  \* offset of the order reader
    orderCh,    \* offsets fetched and not yet applied
    book,       \* Engine.OrderBook: depths, logSeq, tradeSeq
    window,     \* its de-duplication bitmap, which snapshots share
    applied,    \* orderOffset of runApplier
    outbox,     \* logs of the last message, not yet sent to logCh
    logCh,
    committer,  \* runCommitter: "starting", "reading" or "storing"
    seq,        \* its seq
    batch,      \* its logs
    pending,    \* its pending snapshot, or NoSnapshot
    reqCh,      \* snapshotReqCh: offsets of the snapshots asked to be beaten
    approveCh,  \* snapshotApproveReqCh
    snapCh,     \* snapshotCh
    lastOffset, \* orderOffset of runSnapshots
    marshalling,\* the snapshot being encoded, or NoSnapshot
    faults,     \* faults so far
    past,       \* auxiliary: past[k + 1] is the book when k messages were first
                \*   applied, and the window if it had seen just these
    journal     \* auxiliary: the logs of first applications

durable == <<topic, store, saved>>
fetcherVars == <<fetchNext>>
applierVars == <<book, window, applied, outbox>>
committerVars == <<committer, seq, batch, pending>>
snapshotVars == <<lastOffset, marshalling>>
auxVars == <<past, journal>>
vars == <<durable, fetcherVars, orderCh, applierVars, logCh, committerVars,
          reqCh, approveCh, snapCh, snapshotVars, faults, auxVars>>

NoSnapshot == [offset |-> -1]

-----------------------------------------------------------------------------
(* Starting: NewEngine, restore and Start. *)

Init ==
    /\ topic \in Topics
    /\ store = << >>
    /\ saved = NoSnapshot
    /\ fetchNext = 0
    /\ orderCh = << >>
    /\ book = EmptyBook
    /\ window = {}
    /\ applied = 0
    /\ outbox = << >>
    /\ logCh = << >>
    /\ committer = IF PromptStart THEN "reading" ELSE "starting"
    /\ seq = 0
    /\ batch = << >>
    /\ pending = NoSnapshot
    /\ reqCh = << >>
    /\ approveCh = << >>
    /\ snapCh = << >>
    /\ lastOffset = 0
    /\ marshalling = NoSnapshot
    /\ faults = 0
    /\ past = <<[book |-> EmptyBook, window |-> {}]>>
    /\ journal = << >>

\* Variant: the reader of the order topic goes on where it was.
RestoredReadsOn ==
    [book |-> EmptyBook, window |-> {}, orderOffset |-> 0, fetchNext |-> fetchNext]

\* Variant: the numbers of the logs start again.
RestoredRenumbers ==
    IF saved = NoSnapshot
    THEN [book |-> EmptyBook, window |-> {}, orderOffset |-> 0, fetchNext |-> 0]
    ELSE [book |-> [saved.book EXCEPT !.logSeq = 0], window |-> saved.window,
          orderOffset |-> saved.offset, fetchNext |-> saved.offset + 1]

\* Variant: the message at the saved offset is read once more.
RestoredRereads ==
    IF saved = NoSnapshot
    THEN [book |-> EmptyBook, window |-> {}, orderOffset |-> 0, fetchNext |-> 0]
    ELSE [book |-> saved.book, window |-> saved.window,
          orderOffset |-> saved.offset, fetchNext |-> saved.offset]

Restored ==
    IF saved = NoSnapshot
    THEN [book |-> EmptyBook, window |-> {}, orderOffset |-> 0, fetchNext |-> 0]
    ELSE [book |-> saved.book, window |-> saved.window,
          orderOffset |-> saved.offset, fetchNext |-> saved.offset + 1]

\* The process is started again on what is durable.
Restart ==
    /\ book' = Restored.book
    /\ window' = Restored.window
    /\ fetchNext' = Restored.fetchNext
    /\ lastOffset' = Restored.orderOffset
    /\ orderCh' = << >> /\ logCh' = << >>
    /\ reqCh' = << >> /\ approveCh' = << >> /\ snapCh' = << >>
    /\ applied' = 0 /\ outbox' = << >>
    /\ committer' = IF PromptStart THEN "reading" ELSE "starting"
    /\ seq' = Restored.book.logSeq
    /\ batch' = << >>
    /\ pending' = NoSnapshot /\ marshalling' = NoSnapshot

-----------------------------------------------------------------------------
(* runFetcher *)

Fetch ==
    /\ fetchNext < Len(topic)
    /\ Len(orderCh) < OrderChCap
    /\ orderCh' = Append(orderCh, fetchNext)
    /\ fetchNext' = fetchNext + 1
    /\ UNCHANGED <<durable, applierVars, logCh, committerVars, reqCh, approveCh,
                   snapCh, snapshotVars, faults, auxVars>>

-----------------------------------------------------------------------------
(* runApplier.  It sends the logs of a message one by one before it looks at *)
(* its channels again.                                                       *)

Apply ==
    /\ outbox = << >>
    /\ orderCh # << >>
    /\ orderCh' = Tail(orderCh)
    /\ UNCHANGED <<durable, fetcherVars, logCh, committerVars, reqCh, approveCh,
                   snapCh, snapshotVars, faults>>
    /\ LET offset == Head(orderCh)
           before == past[offset + 1]
           first  == Len(past) = offset + 1
       IN  \E result \in {Handle(book, window, topic[offset + 1])} :
             /\ book' = result.book
             /\ window' = result.window
             /\ outbox' = result.logs
             /\ applied' = offset
             /\ past' = IF first
                        THEN Append(past, [book |-> result.book,
                                           window |-> Handle(before.book, before.window,
                                                             topic[offset + 1]).window])
                        ELSE past
             /\ journal' = IF first THEN journal \o result.logs ELSE journal

SendLog ==
    /\ outbox # << >>
    /\ Len(logCh) < LogChCap
    /\ logCh' = Append(logCh, Head(outbox))
    /\ outbox' = Tail(outbox)
    /\ UNCHANGED <<durable, fetcherVars, orderCh, book, window, applied,
                   committerVars, reqCh, approveCh, snapCh, snapshotVars, faults,
                   auxVars>>

\* Variant: the offset is that of the last message fetched.
CopyFetched == [offset |-> fetchNext - 1, book |-> book]

\* A snapshot copies the orders and the numbers; its bitmap is the live one.
Copy == [offset |-> applied, book |-> book]

TakeSnapshot ==
    /\ outbox = << >>
    /\ reqCh # << >>
    /\ approveCh' =
          IF applied - Head(reqCh) <= SnapshotDelta THEN approveCh
          ELSE Append(approveCh, Copy)
    /\ reqCh' = Tail(reqCh)
    /\ UNCHANGED <<durable, fetcherVars, orderCh, applierVars, logCh,
                   committerVars, snapCh, snapshotVars, faults, auxVars>>

-----------------------------------------------------------------------------
(* runCommitter *)

\* The goroutine gets to run and reads the logSeq of the book.
StartCommitter ==
    /\ committer = "starting"
    /\ committer' = "reading"
    /\ seq' = book.logSeq
    /\ UNCHANGED <<durable, fetcherVars, orderCh, applierVars, logCh, batch,
                   pending, reqCh, approveCh, snapCh, snapshotVars, faults,
                   auxVars>>

\* Variant: off by one.
IsDuplicateOrNext(log) == log.seq <= seq + 1

IsDuplicate(log) == log.seq <= seq

\* Variant: one more log than the batch holds.
KeepsReadingPastFull(ch, logs) == ch # << >> /\ Len(logs) <= BatchMax

\* Variant: only a full batch is written.
KeepsReadingTillFull(ch, logs) == Len(logs) < BatchMax

KeepsReading(ch, logs) == ch # << >> /\ Len(logs) < BatchMax

\* A log is taken; unless it is a duplicate it joins the batch, which is
\* stored once it is full or there is no further log.  (The channel is looked
\* at right after the log is taken: a log sent in between might as well have
\* been sent before.)
TakeLog ==
    /\ committer = "reading"
    /\ logCh # << >>
    /\ logCh' = Tail(logCh)
    /\ IF IsDuplicate(Head(logCh))
       THEN UNCHANGED <<seq, batch, committer>>
       ELSE /\ seq' = Head(logCh).seq
            /\ batch' = Append(batch, Head(logCh))
            /\ committer' = IF KeepsReading(logCh', batch')
                            THEN "reading" ELSE "storing"
    /\ UNCHANGED <<durable, fetcherVars, orderCh, applierVars, pending, reqCh,
                   approveCh, snapCh, snapshotVars, faults, auxVars>>

\* Variant: off by one.
CoveredStrictly(snapshot) == seq > snapshot.book.logSeq

\* The committer has taken every log the snapshot has behind it.
Covered(snapshot) == seq >= snapshot.book.logSeq

\* The batch is written, and the pending snapshot approved if that is all it
\* waited for.  A write whose acknowledgement is lost is retried by the
\* writer, and lands more than once.
StoreLogs ==
    /\ committer = "storing"
    /\ \E n \in 0 .. Len(batch) :
          /\ n > 0 => faults < MaxFaults
          /\ store' = store \o SubSeq(batch, 1, n) \o batch
          /\ faults' = faults + (IF n > 0 THEN 1 ELSE 0)
    /\ batch' = << >>
    /\ committer' = "reading"
    /\ IF pending # NoSnapshot /\ Covered(pending)
       THEN snapCh' = Append(snapCh, pending) /\ pending' = NoSnapshot
       ELSE UNCHANGED <<snapCh, pending>>
    /\ UNCHANGED <<topic, saved, fetcherVars, orderCh, applierVars, logCh, seq,
                   reqCh, approveCh, snapshotVars, auxVars>>

\* Variant: the snapshot that waited is not dropped.
ApproveSnapshotKeepsPending ==
    /\ committer = "reading"
    /\ approveCh # << >>
    /\ LET snapshot == Head(approveCh)
       IN  IF Covered(snapshot)
           THEN snapCh' = Append(snapCh, snapshot) /\ UNCHANGED pending
           ELSE pending' = snapshot /\ UNCHANGED snapCh
    /\ approveCh' = Tail(approveCh)
    /\ UNCHANGED <<durable, fetcherVars, orderCh, applierVars, logCh, committer,
                   seq, batch, reqCh, snapshotVars, faults, auxVars>>

\* A snapshot whose logs are written is approved; one that is ahead waits,
\* in the place of one that has waited longer.
ApproveSnapshot ==
    /\ committer = "reading"
    /\ approveCh # << >>
    /\ LET snapshot == Head(approveCh)
       IN  IF Covered(snapshot)
           THEN snapCh' = Append(snapCh, snapshot) /\ pending' = NoSnapshot
           ELSE pending' = snapshot /\ UNCHANGED snapCh
    /\ approveCh' = Tail(approveCh)
    /\ UNCHANGED <<durable, fetcherVars, orderCh, applierVars, logCh, committer,
                   seq, batch, reqCh, snapshotVars, faults, auxVars>>

-----------------------------------------------------------------------------
(* runSnapshots *)

OnTheirWay ==
    Len(reqCh) + Len(approveCh) + Len(snapCh)
        + (IF pending = NoSnapshot THEN 0 ELSE 1)

\* The timer fires only when no approved snapshot is waiting.  With 30 seconds
\* between requests the channels, of capacity 32, never fill.
RequestSnapshot ==
    /\ marshalling = NoSnapshot
    /\ snapCh = << >>
    /\ OnTheirWay < MaxSnapshots
    /\ reqCh' = Append(reqCh, lastOffset)
    /\ UNCHANGED <<durable, fetcherVars, orderCh, applierVars, logCh,
                   committerVars, approveCh, snapCh, snapshotVars, faults,
                   auxVars>>

\* json.Marshal starts on the snapshot, whose bitmap is the live one ...
MarshalSnapshot ==
    /\ marshalling = NoSnapshot
    /\ snapCh # << >>
    /\ marshalling' = [offset |-> Head(snapCh).offset,
                       book |-> Head(snapCh).book, window |-> window]
    /\ snapCh' = Tail(snapCh)
    /\ UNCHANGED <<durable, fetcherVars, orderCh, applierVars, logCh,
                   committerVars, reqCh, approveCh, lastOffset, faults, auxVars>>

\* ... and meets, or misses, each bit the applier sets meanwhile.
SaveSnapshot ==
    /\ marshalling # NoSnapshot
    /\ \E missed \in SUBSET (window \ marshalling.window) :
          saved' = [marshalling EXCEPT !.window = window \ missed]
    /\ lastOffset' = marshalling.offset
    /\ marshalling' = NoSnapshot
    /\ UNCHANGED <<topic, store, fetcherVars, orderCh, applierVars, logCh,
                   committerVars, reqCh, approveCh, snapCh, faults, auxVars>>

\* Redis refuses: the snapshot is given up with a warning.
SaveSnapshotFails ==
    /\ marshalling # NoSnapshot
    /\ marshalling' = NoSnapshot
    /\ UNCHANGED <<durable, fetcherVars, orderCh, applierVars, logCh,
                   committerVars, reqCh, approveCh, snapCh, lastOffset, faults,
                   auxVars>>

-----------------------------------------------------------------------------
(* Faults *)

Fault == faults < MaxFaults /\ faults' = faults + 1

Crash ==
    /\ Fault
    /\ UNCHANGED <<durable, auxVars>>
    /\ Restart

\* A write fails for good with a part of the batch written: the committer
\* panics, and the process with it.
StoreLogsFails ==
    /\ Fault
    /\ committer = "storing"
    /\ \E n \in 1 .. Len(batch) : store' = store \o SubSeq(batch, 1, n)
    /\ UNCHANGED <<topic, saved, auxVars>>
    /\ Restart

\* The snapshot reaches its time to live in Redis.
ExpireSnapshot ==
    /\ saved # NoSnapshot
    /\ saved' = NoSnapshot
    /\ UNCHANGED <<topic, store, fetcherVars, orderCh, applierVars, logCh,
                   committerVars, reqCh, approveCh, snapCh, snapshotVars, faults,
                   auxVars>>

-----------------------------------------------------------------------------
Next ==
    \/ Fetch
    \/ Apply \/ SendLog \/ TakeSnapshot
    \/ StartCommitter \/ TakeLog \/ StoreLogs \/ ApproveSnapshot
    \/ RequestSnapshot \/ MarshalSnapshot \/ SaveSnapshot \/ SaveSnapshotFails
    \/ Crash \/ StoreLogsFails \/ ExpireSnapshot

Spec == Init /\ [][Next]_vars

\* Every goroutine keeps running, and a select whose case stays ready takes it
\* in the end: Go chooses among ready cases at random.  Steps that are never
\* ready together, such as taking a log and storing the batch, share a line.
FairSpec ==
    /\ Spec
    /\ WF_vars(Fetch)
    /\ WF_vars(Apply \/ SendLog)
    /\ WF_vars(TakeSnapshot)
    /\ WF_vars(StartCommitter \/ TakeLog \/ StoreLogs)
    /\ WF_vars(ApproveSnapshot)
    /\ WF_vars(MarshalSnapshot \/ SaveSnapshot \/ SaveSnapshotFails)

\* Only the way of the logs is kept moving: messages may come, snapshots be
\* asked for and approved copies be stored, or not.
CommittingSpec ==
    /\ Spec
    /\ WF_vars(SendLog)
    /\ WF_vars(StartCommitter \/ TakeLog \/ StoreLogs)

-----------------------------------------------------------------------------
(* Properties *)

Snapshots == {s \in {saved, marshalling, pending} : s # NoSnapshot}

Windows == SUBSET (0 .. WindowCap - 1)

Offsets == 0 .. Len(topic) - 1

\* The book as a snapshot has it, and what Redis holds.
Copies == [offset : Offsets, book : Books]
Encoded == [offset : Offsets, book : Books, window : Windows]

\* Every variable has its type: every log, book, copy and offset, wherever it
\* is on its way, and no channel or batch is longer than the code lets it be.
TypeOK ==
    /\ topic \in Topics
    /\ store \in Seq(Logs)
    /\ saved \in Encoded \cup {NoSnapshot}
    /\ fetchNext \in 0 .. Len(topic)
    /\ orderCh \in Seq(Offsets) /\ Len(orderCh) <= OrderChCap
    /\ book \in Books /\ window \in Windows
    /\ applied \in 0 .. Len(topic)
    /\ outbox \in Seq(Logs)
    /\ logCh \in Seq(Logs) /\ Len(logCh) <= LogChCap
    /\ committer \in {"starting", "reading", "storing"}
    /\ seq \in Nat
    /\ batch \in Seq(Logs) /\ Len(batch) <= BatchMax
    /\ committer = "storing" => batch # << >>
    /\ pending \in Copies \cup {NoSnapshot}
    /\ reqCh \in Seq(0 .. Len(topic))
    /\ approveCh \in Seq(Copies) /\ snapCh \in Seq(Copies)
    /\ lastOffset \in 0 .. Len(topic)
    /\ marshalling \in Encoded \cup {NoSnapshot}
    /\ \A s \in Snapshots : s.offset > 0
    /\ faults \in 0 .. MaxFaults
    /\ past \in Seq([book : Books, window : Windows])
    /\ Len(past) \in 1 .. Len(topic) + 1
    /\ journal \in Seq(Logs)

\* How many messages of the topic the book has seen.
Position == IF orderCh = << >> THEN fetchNext ELSE Head(orderCh)

\* Replaying is repeating: whatever it was restored from, the book is the one
\* the first pass over the topic had at this position.
ReplayRepeats == Position < Len(past) /\ book = past[Position + 1].book

\* The log topic never tells two stories: a log written again is the log that
\* was written first, and each is the one the first pass produced.
StoreTellsJournal ==
    \A i \in DOMAIN store :
        store[i].seq \in DOMAIN journal /\ store[i] = journal[store[i].seq]

\* Of "the engine's memory at one moment" the orders and the numbers: the
\* saved book is the one that had seen the messages up to the saved offset.
\* The bitmap is not of that moment, which is SavedWindowIsMoment.
SavedBookIsMoment ==
    saved # NoSnapshot =>
        saved.offset + 2 <= Len(past) /\ saved.book = past[saved.offset + 2].book

\* "A consistent state of the engine's memory at one moment": the saved bitmap
\* holds the bits of the messages up to the saved offset and of no other.
SavedWindowIsMoment ==
    saved # NoSnapshot =>
        saved.offset + 2 <= Len(past) /\ saved.window = past[saved.offset + 2].window

\* Everything a saved snapshot has behind it is in the log topic: a crash now
\* loses no log.
SavedSnapshotCommitted ==
    saved # NoSnapshot =>
        \A n \in 1 .. saved.book.logSeq :
            \E i \in DOMAIN store : store[i].seq = n

\* What a reader that starts at the front of the log topic makes of it
\* (KafkaLogReader.Run): it drops a log whose number is not above the last it
\* took, and stops at one that leaves a gap after it.
NewTo(i) == \A j \in 1 .. i - 1 : store[j].seq < store[i].seq

GapAt(i) ==
    i > 1 /\ NewTo(i) /\ \A j \in 1 .. i - 1 : store[j].seq # store[i].seq - 1

Published ==
    LET read == {i \in DOMAIN store : NewTo(i) /\ \A j \in 1 .. i : ~GapAt(j)}
    IN  [k \in 1 .. Cardinality(read) |->
           store[CHOOSE i \in read : store[i].seq = store[1].seq + k - 1]]

\* The engine as its readers see it: a book that takes one message after the
\* other, and a log that follows it.
Service == INSTANCE LogService
             WITH handled <- Len(past) - 1,
                  book <- past[Len(past)].book,
                  window <- past[Len(past)].window,
                  published <- Published

\* Crashes, replays, batches and retried writes do not show in the log.
ImplementsLogService == Service!Spec

\* Where a snapshot was saved before its logs were written and a crash lost
\* them, or the committer read the number of its first log late, a reader may
\* begin after the first log or stop short of the last: what it gets is still
\* an unbroken stretch of the logs of one book that takes the messages one by
\* one.
ImplementsLossyLogService == Service!LossySpec

\* Snapshots only move forward: one that was overtaken while it waited for
\* its logs never replaces a later one.
SnapshotsMoveForward ==
    [][saved # NoSnapshot /\ saved' # NoSnapshot =>
          saved'.offset >= saved.offset]_vars

\* Every message of the topic is applied and every log of it reaches the
\* readers, after finitely many faults.
EverythingCommitted ==
    <>[](Position = Len(topic) /\ Published = journal)

\* A snapshot that has been asked for comes to an end: it is dropped, given
\* up or saved, and none waits for approval for ever.
NoSnapshotStuck == pending # NoSnapshot ~> pending = NoSnapshot

=============================================================================
