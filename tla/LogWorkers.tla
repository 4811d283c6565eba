----------------------------- MODULE LogWorkers -----------------------------
(***************************************************************************)
(* worker/fill_maker.go, trade_maker.go and tick_maker.go: three workers   *)
(* that read the log topic of a product and write rows to the database.    *)
(* The reader pushes the rows of a log one by one into a channel; the      *)
(* flusher inserts them in batches, again and again until the database     *)
(* acknowledges, and a worker that starts again goes on after the last row *)
(* it finds.  They differ in the rows of a log, in the key of their table, *)
(* and in the row they resume after; kind says which one this is.          *)
(*                                                                         *)
(* An open log makes no row; the statement OnOpenLog executes is in        *)
(* Exchange.  The channel (1000) is longer than what is put into it here.  *)
(***************************************************************************)
EXTENDS Integers, Sequences, FiniteSets, FiniteSetsExt, SequencesExt

CONSTANTS
    Topic,          \* numbers of the logs in the topic; logs may be repeated
    Matches,        \* those that are match logs
    Dones,          \* those that are done logs; the others are open logs
    TickTime,       \* of each granularity: the tick a match log falls into
    BatchMax,       \* rows in a batch at most (1000)
    MaxFaults       \* bound: crashes and lost acknowledgements

\* The granularities of minutes[], shortest first.
Granularities == 1 .. Len(TickTime)

\* The engine numbers its logs from one.
ASSUME WorkersAssumption ==
    /\ Topic \in Seq(Nat \ {0})
    /\ Topic # << >> => Head(Topic) = 1
    /\ Matches \subseteq Nat \ {0} /\ Dones \subseteq Nat \ {0}
    /\ Matches \cap Dones = {}
    /\ TickTime \in Seq([Matches -> Nat]) /\ TickTime # << >>
    /\ BatchMax \in Nat \ {0} /\ MaxFaults \in Nat

VARIABLES
    kind,       \* "fill", "trade" or "tick"
    offset,     \* of the next message FetchMessage returns; offsets start at 0
    lastSeq,    \* number of the last log read
    pushing,    \* rows of this log the observer has still to push
    ch,         \* fillCh, tradeCh, tickCh
    batch,      \* rows the flusher has gathered
    storing,    \* the flusher inserts them
    ticks,      \* TickMaker.ticks: the current tick of each granularity
    table,      \* the rows in the database, in order of their ids
    faults,     \* so far
    torn,       \* auxiliary: logs stored in part when the worker started again
    repeated    \* auxiliary: an insert was repeated that had been applied

memory == <<offset, lastSeq, pushing, ch, batch, storing, ticks>>
vars == <<kind, memory, table, faults, torn, repeated>>

NoTick == [time |-> -1]

Init ==
    /\ kind \in {"fill", "trade", "tick"}
    /\ offset = 0 /\ lastSeq = 0
    /\ pushing = << >> /\ ch = << >> /\ batch = << >> /\ storing = FALSE
    /\ ticks = [g \in Granularities |-> NoTick]
    /\ table = << >>
    /\ faults = 0 /\ torn = {} /\ repeated = FALSE

\* The rows of a log, told apart by part: the order they are for, or the
\* granularity.
Parts(seq) ==
    CASE kind = "fill" /\ seq \in Matches -> <<"taker", "maker">>
      [] kind = "fill" /\ seq \in Dones -> <<"done">>
      [] kind = "trade" /\ seq \in Matches -> <<"trade">>
      [] kind = "tick" /\ seq \in Matches -> [g \in Granularities |-> g]
      [] OTHER -> << >>

-----------------------------------------------------------------------------
(* The reader. *)

\* A repeated log is skipped; a gap ends the process, so this is all it does.
Read ==
    /\ pushing = << >>
    /\ offset < Len(Topic)
    /\ LET seq == Topic[offset + 1]
       IN  IF seq <= lastSeq
           THEN UNCHANGED <<lastSeq, pushing>>
           ELSE /\ lastSeq = 0 \/ seq = lastSeq + 1
                /\ lastSeq' = seq
                /\ pushing' = [i \in DOMAIN Parts(seq) |->
                                 [seq |-> seq, part |-> Parts(seq)[i], at |-> offset]]
    /\ offset' = offset + 1
    /\ UNCHANGED <<kind, ch, batch, storing, ticks, table, faults, torn, repeated>>

\* OnMatchLog of the tick maker: the log starts a tick or is added to the
\* current one, of which logs tells open, close, low, high and volume.
TickAfter(tick, row) ==
    LET time == TickTime[row.part][row.seq]
    IN  IF tick.time = time
        THEN [tick EXCEPT !.logs = Append(@, row.seq), !.seq = row.seq, !.at = row.at]
        ELSE [part |-> row.part, time |-> time, logs |-> <<row.seq>>,
              seq |-> row.seq, at |-> row.at]

Push ==
    /\ pushing # << >>
    /\ LET row  == Head(pushing)
           tick == TickAfter(ticks[row.part], row)
       IN  IF kind = "tick"
           THEN /\ ticks' = [ticks EXCEPT ![row.part] = tick]
                /\ ch' = Append(ch, tick)
           ELSE /\ ch' = Append(ch, row)
                /\ UNCHANGED ticks
    /\ pushing' = Tail(pushing)
    /\ UNCHANGED <<kind, offset, lastSeq, batch, storing, table, faults, torn, repeated>>

-----------------------------------------------------------------------------
(* The flusher. *)

\* Variant: the flusher waits for a full batch.
GathersTillFull(rows) == Len(rows) < BatchMax

Gathers(rows) == ch' # << >> /\ Len(rows) < BatchMax

TakeRow ==
    /\ ~storing
    /\ ch # << >>
    /\ ch' = Tail(ch)
    /\ batch' = Append(batch, Head(ch))
    /\ storing' = ~Gathers(batch')
    /\ UNCHANGED <<kind, offset, lastSeq, pushing, ticks, table, faults, torn, repeated>>

\* Variant: fills have no key of their own.
SameRowNever(a, b) == kind = "tick" /\ a.part = b.part /\ a.time = b.time

\* The unique keys: a fill of an order and a log, a tick of a granularity and
\* a time.  Trades have none.
SameRow(a, b) ==
    \/ kind = "fill" /\ a.seq = b.seq /\ a.part = b.part
    \/ kind = "tick" /\ a.part = b.part /\ a.time = b.time

\* INSERT IGNORE keeps the row that is there, REPLACE puts the new one last.
Inserted(rows, row) ==
    LET same == {i \in DOMAIN rows : SameRow(rows[i], row)}
    IN  IF same = {} THEN Append(rows, row)
        ELSE IF kind = "fill" THEN rows
        ELSE Append(RemoveAt(rows, CHOOSE i \in same : TRUE), row)

StoreRows ==
    /\ storing
    /\ table' = FoldLeft(Inserted, table, batch)
    /\ batch' = << >>
    /\ storing' = FALSE
    /\ UNCHANGED <<kind, offset, lastSeq, pushing, ch, ticks, faults, torn, repeated>>

\* The insert is applied and its acknowledgement lost: a second later it is
\* repeated.  (An insert that fails outright changes nothing.)
StoreUnacknowledged ==
    /\ storing
    /\ faults < MaxFaults
    /\ faults' = faults + 1
    /\ table' = FoldLeft(Inserted, table, batch)
    /\ repeated' = TRUE
    /\ UNCHANGED <<kind, memory, torn>>

-----------------------------------------------------------------------------
(* Crash and restart. *)

\* The tick of a granularity with the latest time.
LastTick(g) ==
    LET rows == {i \in DOMAIN table : table[i].part = g}
    IN  IF rows = {} THEN NoTick
        ELSE table[CHOOSE i \in rows : \A j \in rows : table[j].time <= table[i].time]

\* Variant: the shortest granularity decides.
ResumeAfterFirst ==
    IF table = << >> THEN << >>
    ELSE IF kind # "tick" THEN <<Last(table)>>
    ELSE <<LastTick(Min({g \in Granularities : LastTick(g) # NoTick}))>>

\* The row the worker resumes after: of the ticks that of the longest
\* granularity that has any.
ResumeAfter ==
    IF table = << >> THEN << >>
    ELSE IF kind # "tick" THEN <<Last(table)>>
    ELSE <<LastTick(Max({g \in Granularities : LastTick(g) # NoTick}))>>

\* The logs a row counts.
LogsOf(row) == IF kind = "tick" THEN row.logs ELSE <<row.seq>>

\* The places in the table where a row of a log has been counted, and how many
\* they are.
Places(seq, part) ==
    UNION {{k} \X {n \in DOMAIN LogsOf(table[k]) : LogsOf(table[k])[n] = seq} :
             k \in {k \in DOMAIN table : table[k].part = part}}

Count(seq, part) == Cardinality(Places(seq, part))

StoredInPart(seq) ==
    \E i, j \in DOMAIN Parts(seq) :
        Count(seq, Parts(seq)[i]) > 0 /\ Count(seq, Parts(seq)[j]) = 0

\* An offset of zero is not raised; the number of the log then does instead.
Crash ==
    /\ faults < MaxFaults
    /\ faults' = faults + 1
    /\ IF ResumeAfter = << >>
       THEN offset' = 0 /\ lastSeq' = 0
       ELSE LET row == Head(ResumeAfter)
            IN  /\ offset' = IF row.at > 0 THEN row.at + 1 ELSE 0
                /\ lastSeq' = row.seq
    /\ ticks' = IF kind = "tick" THEN [g \in Granularities |-> LastTick(g)] ELSE ticks
    /\ pushing' = << >> /\ ch' = << >> /\ batch' = << >> /\ storing' = FALSE
    /\ torn' = torn \cup {seq \in Matches : StoredInPart(seq)}
    /\ UNCHANGED <<kind, table, repeated>>

\* Everything in the topic is stored; the worker waits for more.
Over ==
    /\ offset = Len(Topic) /\ pushing = << >> /\ ch = << >> /\ ~storing
    /\ UNCHANGED vars

Next ==
    \/ Read \/ Push
    \/ TakeRow \/ StoreRows \/ StoreUnacknowledged
    \/ Crash
    \/ Over

Spec == Init /\ [][Next]_vars

\* Both goroutines go on, and the database takes a batch in the end.
FairSpec ==
    /\ Spec
    /\ WF_vars(Read) /\ WF_vars(Push)
    /\ WF_vars(TakeRow) /\ WF_vars(StoreRows)

-----------------------------------------------------------------------------
(* Properties. *)

Logs == Matches \cup Dones

\* The clock of the engines that write the logs is not set back: otherwise a
\* tick of the past is started anew and replaces the one that is stored.
ClockForward ==
    \A g \in Granularities : \A m, n \in Matches :
        m <= n => TickTime[g][m] <= TickTime[g][n]

\* The rows of a log that may be missing for good: of fills those of a match
\* torn apart by a crash, of ticks the same only as long as the longest
\* granularity has no row that would tell.
MayMiss(seq) ==
    /\ seq \in torn
    /\ kind = "tick" => \A m \in Matches : m < seq => Count(m, Len(TickTime)) = 0

\* No row is stored before the rows of an earlier log, nor the second of a log
\* before the first: a restart leaves nothing out, but for a torn match.
NothingLeftOut ==
    \A seq \in Logs, old \in Logs :
        \A i \in DOMAIN Parts(seq), j \in DOMAIN Parts(old) :
            /\ old < seq \/ (old = seq /\ j < i)
            /\ Count(seq, Parts(seq)[i]) > 0
            /\ ~MayMiss(old)
            => Count(old, Parts(old)[j]) > 0

\* A log is counted twice only where the code cannot tell: a trade inserted
\* again, or in a tick of a granularity shorter than the longest, when the log
\* was torn apart by a crash.  A fill is never made twice.
CountedOnce ==
    \A seq \in Logs : \A i \in DOMAIN Parts(seq) :
        Count(seq, Parts(seq)[i]) > 1 =>
            \/ kind = "trade" /\ repeated
            \/ kind = "tick" /\ seq \in torn /\ i < Len(TickTime)

\* Every row of every log in the topic is in the table in the end, but for
\* torn matches.
EverythingStored ==
    <>[](\A n \in DOMAIN Topic : MayMiss(Topic[n]) \/
            \A i \in DOMAIN Parts(Topic[n]) : Count(Topic[n], Parts(Topic[n])[i]) > 0)

=============================================================================
