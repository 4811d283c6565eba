-------------------------- MODULE LogWorkersProofs --------------------------
(***************************************************************************)
(* The fill maker, the trade maker and the tick maker, proved: no restart  *)
(* leaves a row out or counts a log twice, but where the code cannot tell. *)
(*                                                                         *)
(* The argument.  A row has a key, the number of its log and its place     *)
(* among the rows of that log.  Keys are read, pushed, taken and stored in *)
(* their order (Lined), so that what is stored has no gap but for keys     *)
(* that will never be stored: those of logs torn apart, which a restart    *)
(* has passed (Kept).  Of fills and trades the keys under way come after   *)
(* those stored (RowsOK).  Of ticks each row counts at least what the      *)
(* rows before it of its time count (TicksOK), so that REPLACE loses       *)
(* nothing; a restart goes back to a row of the longest granularity, of    *)
(* which the keys stored are therefore all the earlier ones.               *)
(***************************************************************************)
EXTENDS LogWorkers, TLAPS, NaturalsInduction, WellFoundedInduction,
        FiniteSetTheorems, SequenceTheorems

-----------------------------------------------------------------------------
(* Rows and their keys.  A key is the number of a log and the place of the   *)
(* row among the rows of that log.                                            *)

Kinds == {"fill", "trade", "tick"}

Longest == Len(TickTime)

PartsOf(kd, seq) ==
    CASE kd = "fill" /\ seq \in Matches -> <<"taker", "maker">>
      [] kd = "fill" /\ seq \in Dones -> <<"done">>
      [] kd = "trade" /\ seq \in Matches -> <<"trade">>
      [] kd = "tick" /\ seq \in Matches -> [g \in Granularities |-> g]
      [] OTHER -> << >>

Keys(kd) == {k \in Logs \X Nat : k[2] \in DOMAIN PartsOf(kd, k[1])}

Before(k, l) == k[1] < l[1] \/ (k[1] = l[1] /\ k[2] < l[2])

\* Which row of its log a row is.
No(kd, part) == IF kd = "tick" THEN part ELSE IF part = "maker" THEN 2 ELSE 1

KeyOf(kd, r) == <<r.seq, No(kd, r.part)>>

PartNames(kd) ==
    IF kd = "tick" THEN Granularities ELSE {"taker", "maker", "done", "trade"}

\* The rows the reader makes of a log.
LogRows(kd) ==
    {r \in [seq : Logs, part : PartNames(kd), at : Nat] :
       /\ KeyOf(kd, r) \in Keys(kd)
       /\ r.part = PartsOf(kd, r.seq)[No(kd, r.part)]}

\* Ticks: of one time, and the last log they count is the one they name.
TickRows ==
    {r \in [part : Granularities, time : Nat, logs : Seq(Matches),
            seq : Matches, at : Nat] :
       /\ \A m \in Range(r.logs) : TickTime[r.part][m] = r.time /\ m <= r.seq
       /\ r.seq \in Range(r.logs)}

Rows(kd) == IF kd = "tick" THEN TickRows ELSE LogRows(kd)

\* The keys a row counts, those stored in a table and those of rows under way.
Counted(kd, r) ==
    {<<m, No(kd, r.part)>> : m \in IF kd = "tick" THEN Range(r.logs) ELSE {r.seq}}

Stored(kd, rows) == UNION {Counted(kd, r) : r \in Range(rows)}

Waiting(kd, rows) == {KeyOf(kd, r) : r \in Range(rows)}

-----------------------------------------------------------------------------
(* The inductive invariant. *)

TypeOK ==
    /\ kind \in Kinds
    /\ lastSeq \in Nat /\ offset \in Nat /\ (lastSeq = 0 => offset = 0)
    /\ pushing \in Seq(LogRows(kind))
    /\ ch \in Seq(Rows(kind)) /\ batch \in Seq(Rows(kind)) /\ table \in Seq(Rows(kind))
    /\ storing \in BOOLEAN
    /\ ticks \in [Granularities -> TickRows \cup {NoTick}]
    /\ \A g \in Granularities : ticks[g] # NoTick => ticks[g].part = g
    /\ faults \in Nat /\ torn \subseteq Matches /\ repeated \in BOOLEAN

\* Rows are under way in the order of their keys.
Rising(kd, rows) ==
    \A p, q \in DOMAIN rows : p < q => Before(KeyOf(kd, rows[p]), KeyOf(kd, rows[q]))

Ahead(K, L) == \A k \in K, l \in L : Before(k, l)

UnderWay(kd, b, c, p) == Waiting(kd, b) \cup Waiting(kd, c) \cup Waiting(kd, p)

Lined(kd, b, c, p, last) ==
    /\ Rising(kd, b) /\ Rising(kd, c) /\ Rising(kd, p)
    /\ Ahead(Waiting(kd, b), Waiting(kd, c)) /\ Ahead(Waiting(kd, b), Waiting(kd, p))
    /\ Ahead(Waiting(kd, c), Waiting(kd, p))
    /\ \A k \in UnderWay(kd, b, c, p) : k[1] <= last
    /\ \A k \in Waiting(kd, p) : k[1] = last

\* MayMiss, of the keys T in the table.
Excused(kd, T, tn, seq) ==
    /\ seq \in tn
    /\ kd = "tick" => \A m \in Matches : m < seq => <<m, Longest>> \notin T

\* A worker that starts again on T reads on after the log seq.
Passed(kd, T, seq) ==
    \E k \in T : seq <= k[1] /\ (kd = "tick" => \A l \in T : l[2] <= k[2])

\* The keys W are under way: what is stored was stored in order, but for keys
\* that will never be, which are excused and which no restart reads again.
Whole(kd, T, W, last, tn) ==
    /\ \A k \in T, o \in Keys(kd) :
          Before(o, k) /\ o \notin T => o \notin W /\ o[1] <= last
    /\ \A o \in Keys(kd) :
          o \notin T /\ o \notin W /\ o[1] <= last =>
              Excused(kd, T, tn, o[1]) /\ Passed(kd, T, o[1])

Kept == Whole(kind, Stored(kind, table), UnderWay(kind, batch, ch, pushing), lastSeq, torn)

\* Of ticks: who follows a tick with more logs.
SameTick(a, b) == a.part = b.part /\ a.time = b.time

GrowsTo(a, b) == SameTick(a, b) => Range(a.logs) \subseteq Range(b.logs)

Growing(rows) == \A p, q \in DOMAIN rows : p <= q => GrowsTo(rows[p], rows[q])

OneRowEach(rows) == \A i, j \in DOMAIN rows : SameTick(rows[i], rows[j]) => i = j

\* A tick of the table is not put back by the batch b.
GrowsIn(r, b) ==
    \A p \in DOMAIN b : SameTick(r, b[p]) =>
        \E q \in DOMAIN b : p <= q /\ SameTick(r, b[q]) /\ GrowsTo(r, b[q])

TicksGrow(t, b, c) ==
    /\ OneRowEach(t)
    /\ Growing(b) /\ Growing(c)
    /\ \A r \in Range(b), s \in Range(c) : GrowsTo(r, s)
    /\ \A r \in Range(t), s \in Range(c) : GrowsTo(r, s)
    /\ \A r \in Range(t) : GrowsIn(r, b)

\* A tick counts no more than the table and the rows before it.
TicksKnown(T, b, c) ==
    /\ \A r \in Range(b) : Counted("tick", r) \subseteq T \cup Waiting("tick", b)
    /\ \A p \in DOMAIN c :
          Counted("tick", c[p]) \subseteq T \cup Waiting("tick", b)
              \cup {KeyOf("tick", c[q]) : q \in {q \in DOMAIN c : q <= p}}

\* The current tick x of g is the newest, and counts what there is of it.
Newest(g, x, R, K) ==
    /\ x = NoTick => \A r \in R : r.part # g
    /\ x # NoTick =>
         /\ \A r \in R : r.part = g => r.time <= x.time /\ GrowsTo(r, x)
         /\ Counted("tick", x) \subseteq K

\* A log is counted twice in a tick only if it was torn.
TwiceOnlyTorn(r, tn) ==
    \A x, y \in DOMAIN r.logs : x # y /\ r.logs[x] = r.logs[y] =>
        r.logs[x] \in tn /\ r.part < Longest

TicksOK ==
    /\ TicksGrow(table, batch, ch)
    /\ TicksKnown(Stored("tick", table), batch, ch)
    /\ \A g \in Granularities :
          Newest(g, ticks[g], Range(table) \cup Range(batch) \cup Range(ch),
                 Stored("tick", table) \cup Waiting("tick", batch) \cup Waiting("tick", ch))
    /\ \A g \in Granularities : ticks[g] # NoTick =>
          /\ TwiceOnlyTorn(ticks[g], torn)
          /\ \A m \in Range(ticks[g].logs) :
                \/ m <= lastSeq /\ <<m, g>> \notin Waiting("tick", pushing)
                \/ m \in torn /\ g < Longest
    /\ \A r \in Range(table) \cup Range(batch) \cup Range(ch) : TwiceOnlyTorn(r, torn)
    /\ \A k \in Stored("tick", table), m \in Matches : lastSeq < m => k[1] <= m
    /\ pushing # << >> => \A k \in Stored("tick", table) : k[1] <= lastSeq

\* No key is stored twice.
OneKeyOnly(kd, rows) ==
    \A i, j \in DOMAIN rows : KeyOf(kd, rows[i]) = KeyOf(kd, rows[j]) => i = j

\* Of fills and trades: the rows under way come after those of the table.
RowsOK ==
    LET T == Stored(kind, table)
        B == Waiting(kind, batch)
    IN  /\ Ahead(T, Waiting(kind, ch)) /\ Ahead(T, Waiting(kind, pushing))
        /\ batch # << >> =>
              \A k \in T : k = KeyOf(kind, batch[Len(batch)])
                           \/ Before(k, KeyOf(kind, batch[Len(batch)]))
        /\ \A k \in T : k[1] <= lastSeq /\ k[1] <= table[Len(table)].seq
        /\ ~ repeated => Ahead(T, B)
        /\ kind = "fill" \/ ~ repeated => OneKeyOnly(kind, table)

Inv ==
    /\ TypeOK
    /\ Lined(kind, batch, ch, pushing, lastSeq)
    /\ Kept
    /\ kind = "tick" => TicksOK /\ ClockForward
    /\ kind # "tick" => RowsOK

-----------------------------------------------------------------------------
(* Keys and their order. *)

\* What is known of the constants.
LEMMA Constants ==
    /\ Logs \subseteq Nat \ {0} /\ Matches \subseteq Logs /\ Dones \subseteq Logs
    /\ Longest \in Nat \ {0} /\ Granularities = 1 .. Longest
    /\ \A g \in Granularities : TickTime[g] \in [Matches -> Nat]
<1>1. TickTime \in Seq([Matches -> Nat]) /\ TickTime # << >>
  BY WorkersAssumption
<1>2. Longest \in Nat \ {0} /\ DOMAIN TickTime = 1 .. Longest
  BY <1>1 DEF Longest
<1> QED
  BY <1>1, <1>2, WorkersAssumption DEF Logs, Granularities, Longest

\* The rows of a log are told apart by their names.
LEMMA PartsFacts ==
    ASSUME NEW kd \in Kinds, NEW seq \in Logs, NEW i \in DOMAIN PartsOf(kd, seq)
    PROVE  /\ i \in Nat \ {0}
           /\ PartsOf(kd, seq)[i] \in PartNames(kd)
           /\ No(kd, PartsOf(kd, seq)[i]) = i
           /\ kd = "tick" => seq \in Matches /\ i \in Granularities
           /\ i # 1 => seq \in Matches
           /\ \A j \in 1 .. i : j \in DOMAIN PartsOf(kd, seq)
<1>1. CASE kd = "fill" /\ seq \in Matches
  <2>0. seq \notin Dones
    BY <1>1, WorkersAssumption
  <2>1. PartsOf(kd, seq) = <<"taker", "maker">>
    BY <1>1, <2>0 DEF PartsOf
  <2>2. i \in {1, 2}
    BY <2>1
  <2> QED
    BY <1>1, <2>1, <2>2 DEF No, PartNames
<1>2. CASE kd = "fill" /\ seq \in Dones
  <2>0. seq \notin Matches
    BY <1>2, WorkersAssumption
  <2>1. PartsOf(kd, seq) = <<"done">>
    BY <1>2, <2>0 DEF PartsOf
  <2>2. i = 1
    BY <2>1
  <2> QED
    BY <1>2, <2>1, <2>2 DEF No, PartNames
<1>3. CASE kd = "trade" /\ seq \in Matches
  <2>1. PartsOf(kd, seq) = <<"trade">>
    BY <1>3 DEF PartsOf
  <2>2. i = 1
    BY <2>1
  <2> QED
    BY <1>3, <2>1, <2>2 DEF No, PartNames
<1>4. CASE kd = "tick" /\ seq \in Matches
  <2>1. PartsOf(kd, seq) = [g \in Granularities |-> g]
    BY <1>4 DEF PartsOf
  <2>2. i \in Granularities
    BY <2>1
  <2> QED
    BY <1>4, <2>1, <2>2, Constants DEF No, PartNames
<1>5. CASE kd = "trade" /\ seq \notin Matches
  <2>1. PartsOf(kd, seq) = << >>
    BY <1>5 DEF PartsOf
  <2> QED
    BY <2>1
<1>6. CASE kd = "tick" /\ seq \notin Matches
  <2>1. PartsOf(kd, seq) = << >>
    BY <1>6 DEF PartsOf
  <2> QED
    BY <2>1
<1>7. seq \in Matches \/ seq \in Dones
  BY DEF Logs
<1> QED
  BY <1>1, <1>2, <1>3, <1>4, <1>5, <1>6, <1>7 DEF Kinds

\* A key is a pair of positive numbers.
LEMMA KeyFacts ==
    ASSUME NEW kd \in Kinds, NEW k \in Keys(kd)
    PROVE  /\ k = <<k[1], k[2]>>
           /\ k[1] \in Logs /\ k[1] \in Nat \ {0} /\ k[2] \in Nat \ {0}
           /\ k[2] \in DOMAIN PartsOf(kd, k[1])
           /\ kd = "tick" => k[1] \in Matches /\ k[2] \in Granularities
           /\ k[2] # 1 => k[1] \in Matches
<1>1. k \in Logs \X Nat /\ k[2] \in DOMAIN PartsOf(kd, k[1])
  BY DEF Keys
<1>2. k[1] \in Logs
  BY <1>1
<1>3. k[2] \in Nat \ {0} /\ (k[2] # 1 => k[1] \in Matches)
      /\ (kd = "tick" => k[1] \in Matches /\ k[2] \in Granularities)
  BY <1>1, <1>2, PartsFacts
<1>4. k = <<k[1], k[2]>>
  BY <1>1
<1>5. k[1] \in Nat \ {0}
  BY <1>2, Constants
<1> QED
  BY <1>1, <1>2, <1>3, <1>4, <1>5

\* Keys are in a linear order.
LEMMA KeyOrder ==
    ASSUME NEW kd \in Kinds, NEW k \in Keys(kd), NEW l \in Keys(kd)
    PROVE  /\ k = l \/ Before(k, l) \/ Before(l, k)
           /\ ~ (Before(k, l) /\ Before(l, k))
           /\ ~ Before(k, k)
           /\ \A m \in Keys(kd) : Before(k, l) /\ Before(l, m) => Before(k, m)
<1>1. /\ k = <<k[1], k[2]>> /\ l = <<l[1], l[2]>>
      /\ k[1] \in Nat /\ k[2] \in Nat /\ l[1] \in Nat /\ l[2] \in Nat
  BY KeyFacts
<1>2. \A m \in Keys(kd) : m[1] \in Nat /\ m[2] \in Nat
  BY KeyFacts
<1>3. k = l \/ Before(k, l) \/ Before(l, k)
  BY <1>1 DEF Before
<1>4. \A m \in Keys(kd) : Before(k, l) /\ Before(l, m) => Before(k, m)
  BY <1>1, <1>2 DEF Before
<1> QED
  BY <1>1, <1>3, <1>4 DEF Before

\* The ticks have keys of their own.
LEMMA TickKeys ==
    ASSUME NEW m \in Matches, NEW g \in Granularities
    PROVE  <<m, g>> \in Keys("tick")
<1>1. PartsOf("tick", m) = [h \in Granularities |-> h]
  BY DEF PartsOf
<1> QED
  BY <1>1, Constants DEF Keys

\* The keys of a row.
LEMMA RowKeys ==
    ASSUME NEW kd \in Kinds, NEW r \in Rows(kd)
    PROVE  /\ KeyOf(kd, r) \in Keys(kd)
           /\ KeyOf(kd, r) \in Counted(kd, r)
           /\ Counted(kd, r) \subseteq Keys(kd)
           /\ KeyOf(kd, r)[1] = r.seq
           /\ KeyOf(kd, r)[2] = No(kd, r.part)
           /\ \A k \in Counted(kd, r) : k[2] = No(kd, r.part) /\ k[1] <= r.seq
<1>1. CASE kd = "tick"
  <2>1. r \in TickRows
    BY <1>1 DEF Rows
  <2>2. /\ r.part \in Granularities /\ r.seq \in Matches
        /\ r.seq \in Range(r.logs)
        /\ \A m \in Range(r.logs) : m <= r.seq
        /\ r.logs \in Seq(Matches)
    BY <2>1 DEF TickRows
  <2>3. Range(r.logs) \subseteq Matches
    BY <2>2 DEF Range
  <2>4. No(kd, r.part) = r.part
    BY <1>1 DEF No
  <2>5. Counted(kd, r) = {<<m, r.part>> : m \in Range(r.logs)}
    BY <1>1, <2>4 DEF Counted
  <2>6. KeyOf(kd, r) = <<r.seq, r.part>>
    BY <2>4 DEF KeyOf
  <2> QED
    BY <1>1, <2>2, <2>3, <2>4, <2>5, <2>6, TickKeys
<1>2. CASE kd # "tick"
  <2>1. r \in LogRows(kd)
    BY <1>2 DEF Rows
  <2>2. Counted(kd, r) = {<<r.seq, No(kd, r.part)>>}
    BY <1>2 DEF Counted
  <2>3. r.seq \in Logs /\ KeyOf(kd, r) \in Keys(kd)
    BY <2>1 DEF LogRows
  <2>4. r.seq \in Nat
    BY <2>3, Constants
  <2> QED
    BY <2>2, <2>3, <2>4 DEF KeyOf
<1> QED
  BY <1>1, <1>2

\* The keys of sequences of rows.
LEMMA RangeFacts ==
    ASSUME NEW S, NEW s \in Seq(S)
    PROVE  /\ Range(s) \subseteq S /\ Len(s) \in Nat /\ DOMAIN s = 1 .. Len(s)
           /\ \A i \in DOMAIN s : s[i] \in Range(s)
           /\ s = << >> <=> Range(s) = {}
           /\ s # << >> => Len(s) \in DOMAIN s
<1>1. Len(s) \in Nat /\ DOMAIN s = 1 .. Len(s) /\ \A i \in DOMAIN s : s[i] \in S
  OBVIOUS
<1>2. s = << >> <=> Len(s) = 0
  BY EmptySeq
<1>3. Len(s) = 0 <=> Range(s) = {}
  <2>1. Len(s) = 0 => DOMAIN s = {}
    BY <1>1
  <2>2. Len(s) # 0 => 1 \in DOMAIN s
    BY <1>1
  <2> QED
    BY <2>1, <2>2 DEF Range
<1> QED
  BY <1>1, <1>2, <1>3 DEF Range

\* The keys of rows are keys; a row under way counts its own key.
LEMMA KeysOfRows ==
    ASSUME NEW kd \in Kinds, NEW s \in Seq(Rows(kd))
    PROVE  /\ Stored(kd, s) \subseteq Keys(kd)
           /\ Waiting(kd, s) \subseteq Keys(kd)
           /\ Waiting(kd, s) \subseteq Stored(kd, s)
<1>1. Range(s) \subseteq Rows(kd)
  BY RangeFacts
<1> QED
  BY <1>1, RowKeys DEF Stored, Waiting

\* So are those of the rows the reader makes.
LEMMA KeysOfLogRows ==
    ASSUME NEW kd \in Kinds, NEW s \in Seq(LogRows(kd))
    PROVE  Waiting(kd, s) \subseteq Keys(kd)
<1>1. Range(s) \subseteq LogRows(kd)
  BY RangeFacts
<1> QED
  BY <1>1 DEF Waiting, LogRows

-----------------------------------------------------------------------------
(* Greatest elements. *)

Below == {p \in Nat \X Nat : p[1] < p[2]}

\* A set of numbers has a least one.
LEMMA LeastNumber ==
    ASSUME NEW T \in SUBSET Nat, T # {}
    PROVE  \E x \in T : \A y \in T : x <= y
<1>1. IsWellFoundedOn(Below, Nat)
  BY NatLessThanWellFounded DEF OpToRel, Below
<1>2. PICK x \in T : \A y \in T : ~ (<<y, x>> \in Below)
  BY <1>1, WFMin
<1>3. ASSUME NEW y \in T, y < x
      PROVE  <<y, x>> \in Below
  BY <1>3 DEF Below
<1>4. \A y \in T : ~ (y < x)
  BY <1>2, <1>3, Zenon
<1> QED
  BY <1>4

\* What holds of 0 and of every number after one it holds of, holds up to n.
LEMMA NumberInduction ==
    ASSUME NEW n \in Nat, NEW Good, 0 \in Good,
           \A k \in 1 .. n : k - 1 \in Good => k \in Good
    PROVE  n \in Good
<1> DEFINE Bad == {k \in 0 .. n : k \notin Good}
<1>1. SUFFICES ASSUME Bad # {} PROVE FALSE
  OBVIOUS
<1>2. PICK k \in Bad : \A j \in Bad : k <= j
  <2>1. Bad \in SUBSET Nat
    OBVIOUS
  <2> QED
    BY <1>1, <2>1, LeastNumber
<1>3. k \in 1 .. n /\ k - 1 \in 0 .. n /\ ~ (k <= k - 1)
  BY <1>2
<1> QED
  BY <1>2, <1>3

\* Of finitely many numbers one is the greatest.
LEMMA Greatest ==
    ASSUME NEW n \in Nat, NEW S \in SUBSET (1 .. n), S # {},
           NEW f, \A i \in S : f[i] \in Nat
    PROVE  \E i \in S : \A j \in S : f[j] <= f[i]
<1> DEFINE Up(k) == {i \in S : i <= k}
           Good == {k \in 0 .. n : Up(k) = {} \/
                       \E i \in Up(k) : \A j \in Up(k) : f[j] <= f[i]}
<1>1. 0 \in Good
  <2>1. \A i \in S : i \in 1 .. n /\ ~ (i <= 0)
    OBVIOUS
  <2>2. Up(0) = {}
    BY <2>1, Zenon
  <2>3. 0 \in 0 .. n
    OBVIOUS
  <2> HIDE DEF Up
  <2> QED
    BY <2>2, <2>3
<1>2. ASSUME NEW k \in 1 .. n, k - 1 \in Good
      PROVE  k \in Good
  <2>1. \A j \in Up(k) : j \in Up(k - 1) \/ j = k
    OBVIOUS
  <2>2. \A j \in Up(k - 1) : j \in Up(k)
    OBVIOUS
  <2>3. CASE k \notin S
    <3>1. Up(k) = Up(k - 1)
      BY <2>1, <2>2, <2>3
    <3>2. Up(k - 1) = {} \/ \E i \in Up(k - 1) : \A j \in Up(k - 1) : f[j] <= f[i]
      BY <1>2
    <3> HIDE DEF Up
    <3>3. Up(k) = {} \/ \E i \in Up(k) : \A j \in Up(k) : f[j] <= f[i]
      BY <3>1, <3>2
    <3> QED
      BY <3>3
  <2>4. CASE k \in S
    <3>1. k \in Up(k)
      BY <2>4
    <3>2. CASE Up(k - 1) = {}
      BY <2>1, <3>1, <3>2
    <3>3. CASE Up(k - 1) # {}
      <4>1. PICK i \in Up(k - 1) : \A j \in Up(k - 1) : f[j] <= f[i]
        BY <1>2, <3>3
      <4>2. CASE f[k] <= f[i]
        BY <2>1, <2>2, <4>1, <4>2
      <4>3. CASE ~ (f[k] <= f[i])
        <5>1. \A j \in Up(k) : f[j] <= f[k]
          BY <2>1, <4>1, <4>3, <2>4
        <5> QED
          BY <3>1, <5>1
      <4> QED
        BY <4>2, <4>3
    <3> QED
      BY <3>2, <3>3
  <2> QED
    BY <2>3, <2>4
<1> HIDE DEF Good
<1>3. n \in Good
  BY <1>1, <1>2, NumberInduction
<1>4. Up(n) = S
  <2>1. \A i \in S : i <= n
    OBVIOUS
  <2> QED
    BY <2>1
<1> HIDE DEF Up
<1> QED
  BY <1>3, <1>4 DEF Good

\* Of the keys of ticks in a table some are of the longest granularity that has any.
LEMMA TopKey ==
    ASSUME NEW T \in SUBSET Keys("tick"), T # {}
    PROVE  \E k \in T : \A l \in T : l[2] <= k[2]
<1> DEFINE S == {k[2] : k \in T}
           f == [i \in S |-> i]
<1>1. \A k \in T : k[2] \in 1 .. Longest
  BY KeyFacts, Constants DEF Kinds
<1>2. S \in SUBSET (1 .. Longest) /\ S # {}
  BY <1>1
<1>3. \A i \in S : f[i] \in Nat /\ f[i] = i
  BY <1>2
<1> HIDE DEF f
<1>4. PICK i \in S : \A j \in S : f[j] <= f[i]
  BY <1>2, <1>3, Greatest, Constants
<1>5. \A j \in S : j <= i
  BY <1>3, <1>4
<1> QED
  BY <1>5

-----------------------------------------------------------------------------
(* What is stored is stored in order. *)

\* An empty table is whole for a worker that has read nothing.
LEMMA WholeAtFirst ==
    ASSUME NEW kd \in Kinds, NEW tn
    PROVE  Whole(kd, {}, {}, 0, tn)
<1>1. \A o \in Keys(kd) : ~ (o[1] <= 0)
  BY KeyFacts
<1> QED
  BY <1>1 DEF Whole

\* The reader takes the next log.
LEMMA WholeReads ==
    ASSUME NEW kd \in Kinds, NEW T \in SUBSET Keys(kd), NEW W \in SUBSET Keys(kd),
           NEW last \in Nat, NEW tn, Whole(kd, T, W, last, tn)
    PROVE  Whole(kd, T, W \cup {k \in Keys(kd) : k[1] = last + 1}, last + 1, tn)
<1>1. \A o \in Keys(kd) : o[1] \in Nat
  BY KeyFacts
<1>2. ASSUME NEW k \in T, NEW o \in Keys(kd), Before(o, k), o \notin T
      PROVE  o \notin W /\ o[1] # last + 1 /\ o[1] <= last + 1
  <2>1. o \notin W /\ o[1] <= last
    BY <1>2 DEF Whole
  <2> QED
    BY <1>1, <2>1
<1>3. ASSUME NEW o \in Keys(kd), o \notin T, o \notin W, o[1] # last + 1, o[1] <= last + 1
      PROVE  Excused(kd, T, tn, o[1]) /\ Passed(kd, T, o[1])
  <2>1. o[1] <= last
    BY <1>1, <1>3
  <2> QED
    BY <1>3, <2>1 DEF Whole
<1> QED
  BY <1>2, <1>3 DEF Whole

\* The flusher stores the first keys B of those under way.
LEMMA WholeStores ==
    ASSUME NEW kd \in Kinds, NEW T \in SUBSET Keys(kd), NEW B \in SUBSET Keys(kd),
           NEW V \in SUBSET Keys(kd), NEW last \in Nat, NEW tn,
           Whole(kd, T, B \cup V, last, tn), Ahead(B, V),
           \A k \in B \cup V : k[1] <= last
    PROVE  Whole(kd, T \cup B, V, last, tn) /\ Whole(kd, T \cup B, B \cup V, last, tn)
<1>0. \A o \in Keys(kd) : o[1] \in Nat /\ o[2] \in Nat
  BY KeyFacts
<1>1. ASSUME NEW k \in T \cup B, NEW o \in Keys(kd), Before(o, k), o \notin T \cup B
      PROVE  o \notin B \cup V /\ o[1] <= last
  <2>1. CASE k \in T
    BY <1>1, <2>1 DEF Whole
  <2>2. CASE k \in B
    <3>1. o \notin V
      BY <1>1, <2>2, KeyOrder DEF Ahead
    <3>2. k[1] <= last /\ o[1] <= k[1]
      BY <1>0, <1>1, <2>2 DEF Before
    <3> QED
      BY <1>0, <1>1, <2>2, <3>1, <3>2
  <2> QED
    BY <2>1, <2>2
<1>2. ASSUME NEW o \in Keys(kd), o \notin T \cup B, o \notin V, o[1] <= last
      PROVE  Excused(kd, T \cup B, tn, o[1]) /\ Passed(kd, T \cup B, o[1])
  <2>1. Excused(kd, T, tn, o[1]) /\ Passed(kd, T, o[1])
    BY <1>2 DEF Whole
  <2>2. PICK k \in T : o[1] <= k[1] /\ (kd = "tick" => \A l \in T : l[2] <= k[2])
    BY <2>1 DEF Passed
  <2>3. Excused(kd, T \cup B, tn, o[1])
    <3>1. SUFFICES ASSUME kd = "tick", NEW m \in Matches, m < o[1],
                          <<m, Longest>> \in B
                   PROVE  FALSE
      BY <2>1 DEF Excused
    <3>2. <<m, Longest>> \in Keys(kd) /\ m \in Nat
      <4>1. Longest \in Granularities /\ m \in Nat
        BY Constants
      <4> QED
        BY <3>1, <4>1, TickKeys
    <3>3. Before(<<m, Longest>>, k)
      BY <1>0, <2>2, <3>1, <3>2 DEF Before
    <3>4. <<m, Longest>> \notin T
      BY <2>1, <3>1 DEF Excused
    <3>5. <<m, Longest>> \in B \cup V
      BY <3>1
    <3> QED
      BY <2>2, <3>2, <3>3, <3>4, <3>5 DEF Whole
  <2>4. Passed(kd, T \cup B, o[1])
    <3>1. CASE kd # "tick"
      BY <2>2, <3>1 DEF Passed
    <3>2. CASE kd = "tick"
      <4>1. PICK b \in T \cup B : \A l \in T \cup B : l[2] <= b[2]
        BY <3>2, TopKey
      <4>2. CASE b[2] <= k[2]
        <5>1. \A l \in T \cup B : l[2] <= k[2]
          BY <1>0, <4>1, <4>2
        <5> QED
          BY <2>2, <5>1 DEF Passed
      <4>3. CASE ~ (b[2] <= k[2])
        <5>1. b \in B /\ b \notin T
          BY <2>2, <3>2, <4>3
        <5>2. ~ Before(b, k)
          BY <5>1 DEF Whole
        <5>3. o[1] <= b[1]
          BY <1>0, <2>2, <5>1, <5>2 DEF Before
        <5> QED
          BY <4>1, <5>3 DEF Passed
      <4> QED
        BY <4>2, <4>3
    <3> QED
      BY <3>1, <3>2
  <2> QED
    BY <2>3, <2>4
<1> QED
  BY <1>1, <1>2 DEF Whole

\* A worker starts again on T, after the row of k.
ResumesAfter(kd, T, k) ==
    /\ k \in T
    /\ kd # "tick" => \A l \in T : l[1] <= k[1]
    /\ kd = "tick" => \A l \in T : l[2] <= k[2] /\ (l[2] = k[2] => l[1] <= k[1])

\* A restart leaves out nothing but what was torn: the keys not stored that it
\* does not read again are excused.
LEMMA WholeRestarts ==
    ASSUME NEW kd \in Kinds, NEW T \in SUBSET Keys(kd), NEW W \in SUBSET Keys(kd),
           NEW last \in Nat, NEW tn, Whole(kd, T, W, last, tn),
           NEW k, ResumesAfter(kd, T, k),
           NEW new, tn \subseteq new,
           \A m \in Matches : \A i, j \in DOMAIN PartsOf(kd, m) :
               <<m, i>> \in T /\ <<m, j>> \notin T => m \in new
    PROVE  /\ Whole(kd, T, {}, k[1], new)
           /\ \A seq \in Nat : Passed(kd, T, seq) => seq <= k[1]
<1>0. \A o \in Keys(kd) : o[1] \in Nat /\ o[2] \in Nat
  BY KeyFacts
<1>1. k \in T /\ k \in Keys(kd)
  BY DEF ResumesAfter
<1>2. ASSUME NEW seq \in Nat, Passed(kd, T, seq)
      PROVE  seq <= k[1]
  <2>1. PICK l \in T : seq <= l[1] /\ (kd = "tick" => \A h \in T : h[2] <= l[2])
    BY <1>2 DEF Passed
  <2>2. kd = "tick" => l[2] = k[2]
    BY <1>0, <1>1, <2>1 DEF ResumesAfter
  <2>3. l[1] <= k[1]
    BY <2>1, <2>2 DEF ResumesAfter
  <2> QED
    BY <1>0, <1>1, <2>1, <2>3
<1>3. ASSUME NEW l \in T, NEW o \in Keys(kd), Before(o, l), o \notin T
      PROVE  /\ o \notin W /\ o[1] <= k[1]
             /\ Excused(kd, T, tn, o[1]) /\ Passed(kd, T, o[1])
  <2>1. o \notin W /\ o[1] <= last
    BY <1>3 DEF Whole
  <2>2. Excused(kd, T, tn, o[1]) /\ Passed(kd, T, o[1])
    BY <1>3, <2>1 DEF Whole
  <2> QED
    BY <1>0, <1>2, <2>1, <2>2
<1>4. ASSUME NEW o \in Keys(kd), o \notin T, o[1] <= k[1]
      PROVE  Excused(kd, T, new, o[1]) /\ Passed(kd, T, o[1])
  <2>1. CASE Before(o, k)
    BY <1>1, <1>3, <1>4, <2>1 DEF Excused
  <2>2. CASE ~ Before(o, k)
    <3>1. o[1] = k[1] /\ k[2] < o[2]
      BY <1>0, <1>1, <1>4, <2>2, KeyOrder DEF Before
    <3>2. o[2] # 1 /\ o[1] \in Matches /\ o = <<o[1], o[2]>> /\ k = <<o[1], k[2]>>
      BY <1>1, <3>1, KeyFacts
    <3>3. o[2] \in DOMAIN PartsOf(kd, o[1]) /\ k[2] \in DOMAIN PartsOf(kd, o[1])
      BY <1>1, <3>1, KeyFacts
    <3>4. o[1] \in new
      BY <1>1, <1>4, <3>2, <3>3
    <3>5. kd = "tick" => \A m \in Matches : <<m, Longest>> \notin T
      <4>1. SUFFICES ASSUME kd = "tick", NEW m \in Matches, <<m, Longest>> \in T
                     PROVE  FALSE
        OBVIOUS
      <4>2. Longest <= k[2]
        BY <4>1 DEF ResumesAfter
      <4>3. o[2] \in 1 .. Longest
        BY <4>1, KeyFacts, Constants
      <4> QED
        BY <1>0, <1>1, <3>1, <4>2, <4>3, Constants
    <3>6. Passed(kd, T, o[1])
      BY <1>1, <1>4 DEF Passed, ResumesAfter
    <3> QED
      BY <3>4, <3>5, <3>6 DEF Excused
  <2> QED
    BY <2>1, <2>2
<1> QED
  BY <1>2, <1>3, <1>4 DEF Whole

-----------------------------------------------------------------------------
(* The batch, inserted row by row. *)

\* The recursion of FoldLeft over sets of indices of s.
FoldsOn(g, base, s, D) ==
    g = [T \in D |-> IF T = {} THEN base ELSE Inserted(g[T \ {Max(T)}], s[Max(T)])]

\* A set of indices has a last one.
LEMMA LastIndex ==
    ASSUME NEW n \in Nat, NEW T \in SUBSET (1 .. n), T # {}
    PROVE  Max(T) \in T /\ \A x \in T : x <= Max(T)
<1> DEFINE f == [i \in T |-> i]
<1>1. \A i \in T : f[i] \in Nat /\ f[i] = i
  OBVIOUS
<1> HIDE DEF f
<1>2. PICK i \in T : \A j \in T : f[j] <= f[i]
  BY <1>1, Greatest
<1>3. \A j \in T : i >= j
  <2> SUFFICES ASSUME NEW j \in T PROVE i >= j
    OBVIOUS
  <2>1. j <= i
    BY <1>1, <1>2
  <2> QED
    BY <2>1
<1>4. Max(T) \in T /\ \A j \in T : Max(T) >= j
  BY <1>3 DEF Max
<1> QED
  BY <1>4

\* A fold over the first n indices exists.
LEMMA FoldsExist ==
    ASSUME NEW base, NEW s, NEW n \in Nat
    PROVE  \E g : FoldsOn(g, base, s, SUBSET (1 .. n))
<1> DEFINE S == 1 .. n
           Small(k) == {T \in SUBSET S : Cardinality(T) <= k}
           Good == {k \in Nat : \E g : FoldsOn(g, base, s, Small(k))}
<1>0. IsFiniteSet(S) /\ Cardinality(S) = n
  BY FS_Interval
<1>1. \A T \in SUBSET S : IsFiniteSet(T) /\ Cardinality(T) \in Nat
                          /\ Cardinality(T) <= n
  BY <1>0, FS_Subset, FS_CardinalityType
<1>2. \A T \in SUBSET S : T # {} => /\ Max(T) \in T
                                    /\ T \ {Max(T)} \in SUBSET S
                                    /\ Cardinality(T \ {Max(T)}) = Cardinality(T) - 1
  <2> SUFFICES ASSUME NEW T \in SUBSET S, T # {}
               PROVE  /\ Max(T) \in T /\ T \ {Max(T)} \in SUBSET S
                      /\ Cardinality(T \ {Max(T)}) = Cardinality(T) - 1
    OBVIOUS
  <2>1. Max(T) \in T
    BY LastIndex
  <2> QED
    BY <1>1, <2>1, FS_RemoveElement
<1>3. 0 \in Good
  <2> DEFINE g == [T \in Small(0) |-> base]
  <2>1. \A T \in Small(0) : T = {}
    BY <1>1, FS_EmptySet
  <2>2. FoldsOn(g, base, s, Small(0))
    BY <2>1 DEF FoldsOn
  <2> QED
    BY <2>2
<1>4. ASSUME NEW k \in 1 .. n, k - 1 \in Good
      PROVE  k \in Good
  <2>1. PICK g : FoldsOn(g, base, s, Small(k - 1))
    BY <1>4
  <2> DEFINE h == [T \in Small(k) |-> IF T = {} THEN base
                                      ELSE Inserted(g[T \ {Max(T)}], s[Max(T)])]
  <2>2. \A T \in Small(k - 1) : T \in Small(k)
    BY <1>1
  <2>3. \A T \in Small(k - 1) : T \in Small(k) /\ h[T] = g[T]
    BY <2>1, <2>2 DEF FoldsOn
  <2>4. \A T \in Small(k) : T # {} => T \ {Max(T)} \in Small(k - 1)
    BY <1>1, <1>2
  <2>5. FoldsOn(h, base, s, Small(k))
    BY <2>3, <2>4 DEF FoldsOn
  <2> QED
    BY <2>5
<1> HIDE DEF Good
<1>5. n \in Good
  BY <1>3, <1>4, NumberInduction
<1>6. Small(n) = SUBSET S
  BY <1>1
<1> QED
  BY <1>5, <1>6 DEF Good

\* The table after each row of a batch.
Inserts(g, base, s) ==
    /\ g[0] = base
    /\ \A k \in 1 .. Len(s) : g[k] = Inserted(g[k - 1], s[k])

InsertedAll(base, s) == FoldLeft(Inserted, base, s)

\* The insert of a batch is the end of the inserts of its rows, one by one.
LEMMA InsertFolds ==
    ASSUME NEW base, NEW S, NEW s \in Seq(S)
    PROVE  \E g : Inserts(g, base, s) /\ InsertedAll(base, s) = g[Len(s)]
<1> DEFINE n == Len(s)
           On(g) == g = [T \in SUBSET DOMAIN s |-> IF T = {} THEN base
                              ELSE Inserted(g[T \ {Max(T)}], s[Max(T)])]
<1>0. n \in Nat /\ DOMAIN s = 1 .. n
  OBVIOUS
<1> HIDE DEF n
<1>1. \A g : On(g) <=> FoldsOn(g, base, s, SUBSET (1 .. n))
  BY <1>0 DEF FoldsOn
<1>2. \E g : On(g)
  BY <1>0, <1>1, FoldsExist
<1> DEFINE f == CHOOSE g : On(g)
<1>3. On(f)
  BY <1>2
<1>4. InsertedAll(base, s) = f[DOMAIN s]
  BY Zenon DEF InsertedAll, FoldLeft, MapThenFoldSet
<1> HIDE DEF f
<1>5. FoldsOn(f, base, s, SUBSET (1 .. n))
  BY <1>1, <1>3
<1> HIDE DEF On
<1> DEFINE h == [k \in 0 .. n |-> f[1 .. k]]
<1>6. h[0] = base
  <2>1. 1 .. 0 = {} /\ {} \in SUBSET (1 .. n)
    OBVIOUS
  <2>2. f[{}] = base
    BY <1>5, <2>1 DEF FoldsOn
  <2> QED
    BY <1>0, <2>1, <2>2
<1>7. ASSUME NEW k \in 1 .. n
      PROVE  h[k] = Inserted(h[k - 1], s[k])
  <2>1. k \in 1 .. k
    OBVIOUS
  <2>2. 1 .. k \in SUBSET (1 .. n)
    BY <1>0
  <2>3. Max(1 .. k) \in 1 .. k /\ k <= Max(1 .. k)
    BY <1>0, <2>1, <2>2, LastIndex
  <2>4. Max(1 .. k) = k
    BY <2>3
  <2>5. (1 .. k) \ {k} = 1 .. (k - 1)
    OBVIOUS
  <2>6. f[1 .. k] = Inserted(f[(1 .. k) \ {Max(1 .. k)}], s[Max(1 .. k)])
    BY <1>5, <2>1, <2>2 DEF FoldsOn
  <2>7. f[1 .. k] = Inserted(f[1 .. (k - 1)], s[k])
    BY <2>4, <2>5, <2>6
  <2> QED
    BY <1>0, <2>7
<1>8. h[n] = f[1 .. n]
  BY <1>0
<1> QED
  BY <1>0, <1>4, <1>6, <1>7, <1>8 DEF Inserts, n

-----------------------------------------------------------------------------
(* A tick replaces that of its time. *)

\* A sequence without the element at i.
LEMMA RemoveAtFacts ==
    ASSUME NEW S, NEW s \in Seq(S), NEW i \in DOMAIN s
    PROVE  /\ RemoveAt(s, i) \in Seq(S)
           /\ Len(RemoveAt(s, i)) = Len(s) - 1
           /\ \A j \in 1 .. Len(s) - 1 :
                 RemoveAt(s, i)[j] = IF j < i THEN s[j] ELSE s[j + 1]
<1>0. Len(s) \in Nat /\ i \in 1 .. Len(s)
  OBVIOUS
<1> DEFINE a == SubSeq(s, 1, i - 1)
           b == SubSeq(s, i + 1, Len(s))
<1>1. a \in Seq(S) /\ Len(a) = i - 1 /\ \A j \in 1 .. i - 1 : a[j] = s[j]
  BY <1>0
<1>2. b \in Seq(S) /\ Len(b) = Len(s) - i /\ \A j \in 1 .. Len(s) - i : b[j] = s[i + j]
  BY <1>0
<1>3. RemoveAt(s, i) = a \o b
  BY DEF RemoveAt
<1> HIDE DEF a, b
<1>4. a \o b \in Seq(S) /\ Len(a \o b) = Len(s) - 1
  BY <1>0, <1>1, <1>2
<1>5. ASSUME NEW j \in 1 .. Len(s) - 1
      PROVE  (a \o b)[j] = IF j < i THEN s[j] ELSE s[j + 1]
  <2>1. CASE j < i
    <3>1. j \in 1 .. Len(a)
      BY <1>0, <1>1, <2>1
    <3> QED
      BY <1>0, <1>1, <1>2, <2>1, <3>1
  <2>2. CASE ~ (j < i)
    <3>1. (a \o b)[j] = b[j - (i - 1)]
      <4>1. Len(a) = i - 1 /\ j \in Len(a) + 1 .. Len(a) + Len(b)
        BY <1>0, <1>1, <1>2, <2>2
      <4>2. a \in Seq(S) /\ b \in Seq(S)
        BY <1>1, <1>2
      <4>3. (a \o b)[j] = b[j - Len(a)]
        BY <4>1, <4>2
      <4> QED
        BY <4>1, <4>3
    <3>2. b[j - (i - 1)] = s[j + 1]
      <4>1. j - (i - 1) \in 1 .. Len(s) - i /\ i + (j - (i - 1)) = j + 1
        BY <1>0, <2>2
      <4> QED
        BY <1>2, <4>1
    <3> QED
      BY <2>2, <3>1, <3>2
  <2> QED
    BY <2>1, <2>2
<1> QED
  BY <1>3, <1>4, <1>5

\* A sequence with one more element.
LEMMA AppendFacts ==
    ASSUME NEW S, NEW s \in Seq(S), NEW x \in S
    PROVE  /\ Append(s, x) \in Seq(S)
           /\ Len(Append(s, x)) = Len(s) + 1
           /\ \A j \in 1 .. Len(s) : Append(s, x)[j] = s[j]
           /\ Append(s, x)[Len(s) + 1] = x
           /\ Range(Append(s, x)) = Range(s) \cup {x}
<1>1. /\ Append(s, x) \in Seq(S)
      /\ Len(Append(s, x)) = Len(s) + 1
      /\ \A j \in 1 .. Len(s) : Append(s, x)[j] = s[j]
      /\ Append(s, x)[Len(s) + 1] = x
  OBVIOUS
<1>2. /\ Len(s) \in Nat /\ DOMAIN s = 1 .. Len(s)
      /\ DOMAIN Append(s, x) = 1 .. Len(s) + 1
  BY <1>1
<1> DEFINE t == Append(s, x)
<1>3. \A j \in 1 .. Len(s) : t[j] = s[j] /\ t[Len(s) + 1] = x /\ DOMAIN t = 1 .. Len(s) + 1
  BY <1>1, <1>2
<1>4. t[Len(s) + 1] = x /\ DOMAIN t = 1 .. Len(s) + 1
  BY <1>1, <1>2
<1> HIDE DEF t
<1>5. Range(t) \subseteq Range(s) \cup {x}
  <2> SUFFICES ASSUME NEW j \in DOMAIN t PROVE t[j] \in Range(s) \cup {x}
    BY DEF Range
  <2>1. j \in 1 .. Len(s) \/ j = Len(s) + 1
    BY <1>2, <1>4
  <2> QED
    BY <1>2, <1>3, <1>4, <2>1 DEF Range
<1>6. Range(s) \cup {x} \subseteq Range(t)
  <2>1. \A j \in DOMAIN s : s[j] \in Range(t)
    <3> SUFFICES ASSUME NEW j \in DOMAIN s PROVE s[j] \in Range(t)
      OBVIOUS
    <3>1. j \in 1 .. Len(s) /\ j \in DOMAIN t
      BY <1>2, <1>4
    <3> QED
      BY <1>3, <3>1 DEF Range
  <2>2. x \in Range(t)
    <3>1. Len(s) + 1 \in DOMAIN t
      BY <1>2, <1>4
    <3> QED
      BY <1>4, <3>1 DEF Range
  <2> QED
    BY <2>1, <2>2 DEF Range
<1> QED
  BY <1>1, <1>5, <1>6 DEF t

\* REPLACE: the row of that time goes, the new one comes last.
LEMMA InsertedTick ==
    ASSUME kind = "tick", NEW rows \in Seq(TickRows), NEW row \in TickRows,
           OneRowEach(rows)
    PROVE  /\ Inserted(rows, row) \in Seq(TickRows)
           /\ OneRowEach(Inserted(rows, row))
           /\ Range(Inserted(rows, row)) = {r \in Range(rows) : ~ SameTick(r, row)} \cup {row}
<1> DEFINE same == {i \in DOMAIN rows : SameTick(rows[i], row)}
           out == Inserted(rows, row)
<1>0. Len(rows) \in Nat /\ DOMAIN rows = 1 .. Len(rows) /\ Range(rows) \subseteq TickRows
  BY RangeFacts
<1>1. same = {i \in DOMAIN rows : SameRow(rows[i], row)}
  BY DEF SameRow, SameTick
<1>2. CASE same = {}
  <2>1. out = Append(rows, row)
    BY <1>1, <1>2 DEF Inserted
  <2>2. \A i \in DOMAIN rows : ~ SameTick(rows[i], row)
    BY <1>2
  <2>3. OneRowEach(Append(rows, row))
    <3> SUFFICES ASSUME NEW i \in 1 .. Len(rows) + 1, NEW j \in 1 .. Len(rows) + 1,
                        i < j,
                        SameTick(Append(rows, row)[i], Append(rows, row)[j])
                 PROVE  FALSE
      <4>1. DOMAIN Append(rows, row) = 1 .. Len(rows) + 1
        BY <1>0, AppendFacts
      <4>2. \A i, j : SameTick(Append(rows, row)[i], Append(rows, row)[j])
                        => SameTick(Append(rows, row)[j], Append(rows, row)[i])
        BY DEF SameTick
      <4> HIDE DEF out, same
      <4>3. \A i, j \in 1 .. Len(rows) + 1 : i # j => i < j \/ j < i
        BY <1>0
      <4> QED
        BY <4>1, <4>2, <4>3 DEF OneRowEach
    <3>1. i \in 1 .. Len(rows) /\ Append(rows, row)[i] = rows[i]
      BY <1>0, AppendFacts
    <3>2. CASE j = Len(rows) + 1
      BY <1>0, <2>2, <3>1, <3>2, AppendFacts
    <3>3. CASE j # Len(rows) + 1
      <4>1. j \in 1 .. Len(rows)
        BY <1>0, <3>3
      <4>2. Append(rows, row)[j] = rows[j]
        BY <4>1, AppendFacts
      <4> QED
        BY <1>0, <3>1, <4>1, <4>2 DEF OneRowEach
    <3> QED
      BY <3>2, <3>3
  <2>4. Range(Append(rows, row)) = {r \in Range(rows) : ~ SameTick(r, row)} \cup {row}
    <3>1. \A r \in Range(rows) : ~ SameTick(r, row)
      BY <2>2 DEF Range
    <3> QED
      BY <3>1, AppendFacts
  <2> QED
    BY <2>1, <2>3, <2>4, AppendFacts
<1>3. CASE same # {}
  <2> DEFINE i == CHOOSE i \in same : TRUE
             rest == RemoveAt(rows, i)
             n == Len(rows) - 1
  <2>1. i \in same
    BY <1>3
  <2>2. out = Append(rest, row)
    BY <1>1, <1>3 DEF Inserted
  <2>3. i \in 1 .. Len(rows) /\ SameTick(rows[i], row)
    BY <1>0, <2>1
  <2>4. /\ rest \in Seq(TickRows) /\ Len(rest) = n /\ n \in Nat
        /\ \A j \in 1 .. n : rest[j] = IF j < i THEN rows[j] ELSE rows[j + 1]
    <3>1. i \in DOMAIN rows /\ n \in Nat
      BY <1>0, <2>3
    <3> HIDE DEF i
    <3> QED
      BY <3>1, RemoveAtFacts
  <2> HIDE DEF i, rest, same, out
  <2>5. \A j \in 1 .. Len(rows) : SameTick(rows[j], row) => j = i
    <3> SUFFICES ASSUME NEW j \in 1 .. Len(rows), SameTick(rows[j], row) PROVE j = i
      OBVIOUS
    <3>1. SameTick(rows[j], rows[i])
      BY <2>3 DEF SameTick
    <3> QED
      BY <1>0, <2>3, <3>1 DEF OneRowEach
  \* Where the rows left have been.
  <2> DEFINE w == [j \in 1 .. n |-> IF j < i THEN j ELSE j + 1]
  <2>6. \A j \in 1 .. n : w[j] \in 1 .. Len(rows) /\ w[j] # i /\ rest[j] = rows[w[j]]
    BY <1>0, <2>3, <2>4
  <2>7. \A j, l \in 1 .. n : w[j] = w[l] => j = l
    BY <1>0, <2>3
  <2>8. \A x \in 1 .. Len(rows) : x # i => \E j \in 1 .. n : w[j] = x
    <3> SUFFICES ASSUME NEW x \in 1 .. Len(rows), x # i PROVE \E j \in 1 .. n : w[j] = x
      OBVIOUS
    <3>1. CASE x < i
      <4>1. x \in 1 .. n /\ w[x] = x
        BY <1>0, <2>3, <3>1
      <4> QED
        BY <4>1
    <3>2. CASE x > i
      <4>1. x - 1 \in 1 .. n /\ ~ (x - 1 < i) /\ (x - 1) + 1 = x
        BY <1>0, <2>3, <3>2
      <4>2. w[x - 1] = x
        BY <4>1
      <4> QED
        BY <4>1, <4>2
    <3> QED
      BY <1>0, <2>3, <3>1, <3>2
  <2> HIDE DEF w
  <2>9. DOMAIN out = 1 .. n + 1 /\ out \in Seq(TickRows) /\ out[n + 1] = row
        /\ \A j \in 1 .. n : out[j] = rest[j]
    <3>1. /\ out \in Seq(TickRows) /\ Len(out) = n + 1 /\ out[n + 1] = row
          /\ \A j \in 1 .. n : out[j] = rest[j]
      BY <2>2, <2>4, AppendFacts
    <3> QED
      BY <3>1
  <2>10. OneRowEach(out)
    <3> SUFFICES ASSUME NEW j \in 1 .. n + 1, NEW l \in 1 .. n + 1, SameTick(out[j], out[l])
                 PROVE  j = l
      BY <2>9 DEF OneRowEach
    <3>1. CASE j \in 1 .. n /\ l \in 1 .. n
      <4>1. SameTick(rows[w[j]], rows[w[l]])
        BY <2>6, <2>9, <3>1
      <4>2. w[j] = w[l]
        BY <1>0, <2>6, <3>1, <4>1 DEF OneRowEach
      <4> QED
        BY <2>7, <3>1, <4>2
    <3>2. CASE j = n + 1 /\ l \in 1 .. n
      <4>1. SameTick(rows[w[l]], row)
        BY <2>6, <2>9, <3>2 DEF SameTick
      <4> QED
        BY <2>5, <2>6, <3>2, <4>1
    <3>3. CASE l = n + 1 /\ j \in 1 .. n
      <4>1. SameTick(rows[w[j]], row)
        BY <2>6, <2>9, <3>3 DEF SameTick
      <4> QED
        BY <2>5, <2>6, <3>3, <4>1
    <3>4. (j \in 1 .. n \/ j = n + 1) /\ (l \in 1 .. n \/ l = n + 1)
      BY <2>4
    <3> QED
      BY <3>1, <3>2, <3>3, <3>4
  <2>11. Range(out) = {r \in Range(rows) : ~ SameTick(r, row)} \cup {row}
    <3>1. ASSUME NEW j \in 1 .. n + 1
          PROVE  out[j] \in {r \in Range(rows) : ~ SameTick(r, row)} \cup {row}
      <4>1. CASE j = n + 1
        BY <2>9, <4>1
      <4>2. CASE j # n + 1
        <5>1. j \in 1 .. n
          BY <2>4, <4>2
        <5>2. out[j] = rows[w[j]] /\ w[j] \in DOMAIN rows /\ w[j] # i
          BY <1>0, <2>6, <2>9, <5>1
        <5>3. ~ SameTick(rows[w[j]], row)
          BY <1>0, <2>5, <5>2
        <5> QED
          BY <5>2, <5>3 DEF Range
      <4> QED
        BY <4>1, <4>2
    <3>2. ASSUME NEW r \in Range(rows), ~ SameTick(r, row)
          PROVE  r \in Range(out)
      <4>1. PICK x \in 1 .. Len(rows) : r = rows[x]
        BY <1>0 DEF Range
      <4>2. x # i
        BY <2>3, <3>2, <4>1
      <4>3. PICK j \in 1 .. n : w[j] = x
        BY <2>8, <4>2
      <4>4. j \in DOMAIN out
        BY <2>4, <2>9
      <4>5. out[j] = r
        BY <2>6, <2>9, <4>1, <4>3
      <4> QED
        BY <4>4, <4>5 DEF Range
    <3>3. row \in Range(out)
      <4>1. n + 1 \in DOMAIN out
        BY <2>4, <2>9
      <4> QED
        BY <2>9, <4>1 DEF Range
    <3>4. Range(out) \subseteq {r \in Range(rows) : ~ SameTick(r, row)} \cup {row}
      BY <2>9, <3>1 DEF Range
    <3> QED
      BY <3>2, <3>3, <3>4
  <2> QED
    BY <2>9, <2>10, <2>11 DEF out
<1> QED
  BY <1>2, <1>3

\* The ticks of a table t after k rows of the batch b.
LeftOf(t, b, k) ==
    {r \in Range(t) : \A p \in 1 .. k : ~ SameTick(r, b[p])}
    \cup {b[p] : p \in {p \in 1 .. k : \A q \in 1 .. k : p < q => ~ SameTick(b[p], b[q])}}

\* What is left after one more row of the batch.
LEMMA LeftStep ==
    ASSUME NEW t, NEW b, NEW k \in Nat \ {0}
    PROVE  LeftOf(t, b, k) = {r \in LeftOf(t, b, k - 1) : ~ SameTick(r, b[k])} \cup {b[k]}
<1>0. \A p \in 1 .. k : p \in 1 .. k - 1 \/ p = k
  OBVIOUS
<1>1. \A p \in 1 .. k - 1 : p \in 1 .. k /\ p < k
  OBVIOUS
<1>2. k \in 1 .. k /\ \A q \in 1 .. k : ~ (k < q)
  OBVIOUS
<1>3. ASSUME NEW r \in LeftOf(t, b, k)
      PROVE  r = b[k] \/ (r \in LeftOf(t, b, k - 1) /\ ~ SameTick(r, b[k]))
  <2>1. CASE r \in Range(t) /\ \A p \in 1 .. k : ~ SameTick(r, b[p])
    BY <1>1, <1>2, <2>1 DEF LeftOf
  <2>2. CASE \E p \in 1 .. k : r = b[p] /\ \A q \in 1 .. k : p < q => ~ SameTick(b[p], b[q])
    <3>1. PICK p \in 1 .. k : r = b[p] /\ \A q \in 1 .. k : p < q => ~ SameTick(b[p], b[q])
      BY <2>2
    <3>2. CASE p = k
      BY <3>1, <3>2
    <3>3. CASE p \in 1 .. k - 1
      <4>1. ~ SameTick(r, b[k])
        BY <1>1, <1>2, <3>1, <3>3
      <4>2. \A q \in 1 .. k - 1 : p < q => ~ SameTick(b[p], b[q])
        BY <1>1, <3>1
      <4> QED
        BY <3>1, <3>3, <4>1, <4>2 DEF LeftOf
    <3> QED
      BY <1>0, <3>2, <3>3
  <2> QED
    BY <2>1, <2>2 DEF LeftOf
<1>4. b[k] \in LeftOf(t, b, k)
  BY <1>2 DEF LeftOf
<1>5. ASSUME NEW r \in LeftOf(t, b, k - 1), ~ SameTick(r, b[k])
      PROVE  r \in LeftOf(t, b, k)
  <2>1. CASE r \in Range(t) /\ \A p \in 1 .. k - 1 : ~ SameTick(r, b[p])
    <3>1. \A p \in 1 .. k : ~ SameTick(r, b[p])
      BY <1>0, <1>5, <2>1
    <3> QED
      BY <2>1, <3>1 DEF LeftOf
  <2>2. CASE \E p \in 1 .. k - 1 : r = b[p] /\ \A q \in 1 .. k - 1 : p < q => ~ SameTick(b[p], b[q])
    <3>1. PICK p \in 1 .. k - 1 : r = b[p] /\ \A q \in 1 .. k - 1 : p < q => ~ SameTick(b[p], b[q])
      BY <2>2
    <3>2. \A q \in 1 .. k : p < q => ~ SameTick(b[p], b[q])
      BY <1>0, <1>5, <3>1
    <3> QED
      BY <1>1, <3>1, <3>2 DEF LeftOf
  <2> QED
    BY <2>1, <2>2 DEF LeftOf
<1> QED
  BY <1>3, <1>4, <1>5

\* The ticks of the table after a batch: the last of each time in it, and those
\* of the table for which there is none.
LEMMA TicksStored ==
    ASSUME kind = "tick", NEW t \in Seq(TickRows), NEW b \in Seq(TickRows), OneRowEach(t)
    PROVE  /\ InsertedAll(t, b) \in Seq(TickRows)
           /\ OneRowEach(InsertedAll(t, b))
           /\ Range(InsertedAll(t, b)) = LeftOf(t, b, Len(b))
<1> DEFINE n == Len(b)
<1>0. n \in Nat /\ \A k \in 1 .. n : b[k] \in TickRows
  OBVIOUS
<1>1. PICK g : Inserts(g, t, b) /\ InsertedAll(t, b) = g[Len(b)]
  BY InsertFolds
<1> DEFINE Good == {k \in 0 .. n : /\ g[k] \in Seq(TickRows) /\ OneRowEach(g[k])
                                   /\ Range(g[k]) = LeftOf(t, b, k)}
<1>2. 0 \in Good
  <2>1. LeftOf(t, b, 0) = Range(t)
    <3>1. \A p \in 1 .. 0 : FALSE
      OBVIOUS
    <3> QED
      BY <3>1 DEF LeftOf
  <2> QED
    BY <1>0, <1>1, <2>1 DEF Inserts
<1>3. ASSUME NEW k \in 1 .. n, k - 1 \in Good
      PROVE  k \in Good
  <2>1. /\ g[k - 1] \in Seq(TickRows) /\ OneRowEach(g[k - 1])
        /\ Range(g[k - 1]) = LeftOf(t, b, k - 1)
    BY <1>3
  <2>2. g[k] = Inserted(g[k - 1], b[k])
    BY <1>1 DEF Inserts
  <2>3. /\ g[k] \in Seq(TickRows) /\ OneRowEach(g[k])
        /\ Range(g[k]) = {r \in Range(g[k - 1]) : ~ SameTick(r, b[k])} \cup {b[k]}
    BY <1>0, <2>1, <2>2, InsertedTick
  <2>4. Range(g[k]) = LeftOf(t, b, k)
    BY <1>0, <2>1, <2>3, LeftStep
  <2> QED
    BY <1>0, <2>3, <2>4
<1> HIDE DEF Good
<1>4. n \in Good
  BY <1>0, <1>2, <1>3, NumberInduction
<1> QED
  BY <1>1, <1>4 DEF Good

\* Of no rows.
LEMMA NoRows ==
    /\ DOMAIN << >> = {} /\ Range(<< >>) = {} /\ Len(<< >>) = 0
    /\ \A S : << >> \in Seq(S)
    /\ \A kd : Stored(kd, << >>) = {} /\ Waiting(kd, << >>) = {}
<1>1. DOMAIN << >> = {} /\ Len(<< >>) = 0 /\ \A S : << >> \in Seq(S)
  OBVIOUS
<1>2. Range(<< >>) = {}
  BY <1>1, Zenon DEF Range
<1> QED
  BY <1>1, <1>2, Zenon DEF Stored, Waiting

\* Ticks of one time and what they count.
LEMMA SameTickFacts ==
    ASSUME NEW a, NEW b, SameTick(a, b)
    PROVE  /\ SameTick(b, a)
           /\ \A c : SameTick(b, c) => SameTick(a, c)
           /\ \A c : GrowsTo(a, b) /\ GrowsTo(b, c) => GrowsTo(a, c)
           /\ GrowsTo(a, b) => Counted("tick", a) \subseteq Counted("tick", b)
<1>1. GrowsTo(a, b) => Counted("tick", a) \subseteq Counted("tick", b)
  <2>1. a.part = b.part
    BY DEF SameTick
  <2>2. GrowsTo(a, b) => Range(a.logs) \subseteq Range(b.logs)
    BY DEF GrowsTo
  <2> QED
    BY <2>1, <2>2 DEF Counted
<1>2. \A c : GrowsTo(a, b) /\ GrowsTo(b, c) => GrowsTo(a, c)
  BY Zenon DEF SameTick, GrowsTo
<1> QED
  BY <1>1, <1>2, Zenon DEF SameTick

\* Of each time a batch has a last tick.
LEMMA LastOfTime ==
    ASSUME NEW b \in Seq(TickRows), NEW p \in DOMAIN b
    PROVE  \E q \in DOMAIN b :
              /\ p <= q /\ SameTick(b[p], b[q])
              /\ \A l \in DOMAIN b : q < l => ~ SameTick(b[q], b[l])
<1>0. Len(b) \in Nat /\ DOMAIN b = 1 .. Len(b)
  OBVIOUS
<1> DEFINE S == {q \in 1 .. Len(b) : p <= q /\ SameTick(b[p], b[q])}
           f == [q \in S |-> q]
<1>1. p \in S
  BY <1>0 DEF SameTick
<1>2. \A q \in S : f[q] \in Nat /\ f[q] = q
  BY <1>0
<1> HIDE DEF f
<1>3. PICK q \in S : \A l \in S : f[l] <= f[q]
  <2>1. S \in SUBSET (1 .. Len(b)) /\ S # {}
    BY <1>1
  <2> HIDE DEF S
  <2> QED
    BY <1>0, <1>2, <2>1, Greatest
<1>4. ASSUME NEW l \in DOMAIN b, q < l, SameTick(b[q], b[l])
      PROVE  FALSE
  <2>1. SameTick(b[p], b[l])
    BY <1>3, <1>4, SameTickFacts
  <2>2. l \in S
    BY <1>0, <1>3, <1>4, <2>1
  <2>3. f[l] = l /\ f[q] = q /\ f[l] <= f[q]
    BY <1>2, <1>3, <2>2
  <2> QED
    BY <1>0, <1>3, <1>4, <2>3
<1> QED
  BY <1>0, <1>3, <1>4

\* What the flusher does to the ticks of a table.
LEMMA TicksAfterStore ==
    ASSUME kind = "tick", NEW t \in Seq(TickRows), NEW b \in Seq(TickRows),
           NEW c \in Seq(TickRows), TicksGrow(t, b, c),
           TicksKnown(Stored("tick", t), b, c),
           NEW out, out = InsertedAll(t, b)
    PROVE  /\ out \in Seq(TickRows)
           /\ Stored("tick", out) = Stored("tick", t) \cup Waiting("tick", b)
           /\ Range(out) \subseteq Range(t) \cup Range(b)
           /\ TicksGrow(out, << >>, c) /\ TicksGrow(out, b, c)
           /\ TicksKnown(Stored("tick", out), << >>, c)
           /\ TicksKnown(Stored("tick", out), b, c)
<1> DEFINE T == Stored("tick", t)
           B == Waiting("tick", b)
<1>0. /\ Len(b) \in Nat /\ DOMAIN b = 1 .. Len(b)
      /\ Range(b) \subseteq TickRows /\ \A p \in DOMAIN b : b[p] \in Range(b)
  BY RangeFacts
<1>1. /\ out \in Seq(TickRows) /\ OneRowEach(out)
      /\ Range(out) = LeftOf(t, b, Len(b))
  BY TicksStored DEF TicksGrow
<1>2. Range(out) \subseteq Range(t) \cup Range(b)
  BY <1>0, <1>1 DEF LeftOf
<1>3. ASSUME NEW r \in Range(out), r \notin Range(t) \/ ~ \A p \in DOMAIN b : ~ SameTick(r, b[p])
      PROVE  \E p \in DOMAIN b : r = b[p] /\ \A q \in DOMAIN b : p < q => ~ SameTick(b[p], b[q])
  BY <1>0, <1>1, <1>3 DEF LeftOf
\* The last tick of each time is there.
<1>4. ASSUME NEW p \in DOMAIN b
      PROVE  \E r \in Range(out) : /\ SameTick(b[p], r)
                                   /\ Counted("tick", b[p]) \subseteq Counted("tick", r)
  <2>1. PICK q \in DOMAIN b : /\ p <= q /\ SameTick(b[p], b[q])
                              /\ \A l \in DOMAIN b : q < l => ~ SameTick(b[q], b[l])
    BY LastOfTime
  <2>2. b[q] \in Range(out)
    BY <1>0, <1>1, <2>1 DEF LeftOf
  <2>3. GrowsTo(b[p], b[q])
    BY <2>1 DEF TicksGrow, Growing
  <2> QED
    BY <2>1, <2>2, <2>3, SameTickFacts
<1>5. Stored("tick", out) \subseteq T \cup B
  <2> SUFFICES ASSUME NEW r \in Range(out) PROVE Counted("tick", r) \subseteq T \cup B
    BY DEF Stored
  <2>1. CASE r \in Range(t)
    BY <2>1 DEF Stored
  <2>2. CASE r \in Range(b)
    BY <2>2 DEF TicksKnown
  <2> QED
    BY <1>2, <2>1, <2>2
<1>6. T \subseteq Stored("tick", out)
  <2> SUFFICES ASSUME NEW r \in Range(t)
               PROVE  Counted("tick", r) \subseteq Stored("tick", out)
    BY DEF Stored
  <2>1. CASE \A p \in DOMAIN b : ~ SameTick(r, b[p])
    <3>1. r \in Range(out)
      BY <1>0, <1>1, <2>1 DEF LeftOf
    <3> QED
      BY <3>1 DEF Stored
  <2>2. CASE \E p \in DOMAIN b : SameTick(r, b[p])
    <3>1. PICK p \in DOMAIN b : SameTick(r, b[p])
      BY <2>2
    <3>2. PICK q \in DOMAIN b : p <= q /\ SameTick(r, b[q]) /\ GrowsTo(r, b[q])
      BY <3>1 DEF TicksGrow, GrowsIn
    <3>3. Counted("tick", r) \subseteq Counted("tick", b[q])
      BY <3>2, SameTickFacts
    <3> QED
      BY <1>4, <3>3 DEF Stored
  <2> QED
    BY <2>1, <2>2
<1>7. B \subseteq Stored("tick", out)
  <2> SUFFICES ASSUME NEW r \in Range(b)
               PROVE  KeyOf("tick", r) \in Stored("tick", out)
    BY DEF Waiting
  <2>1. PICK p \in DOMAIN b : r = b[p]
    BY DEF Range
  <2>2. r \in Rows("tick") /\ "tick" \in Kinds
    BY <1>0 DEF Rows, Kinds
  <2>3. KeyOf("tick", r) \in Counted("tick", r)
    BY <2>2, RowKeys
  <2> QED
    BY <1>4, <2>1, <2>3 DEF Stored
<1>8. Stored("tick", out) = T \cup B
  BY <1>5, <1>6, <1>7
<1>9. \A r \in Range(out), s \in Range(c) : GrowsTo(r, s)
  BY <1>2 DEF TicksGrow
<1>10. TicksGrow(out, << >>, c)
  BY <1>1, <1>9, NoRows DEF TicksGrow, Growing, GrowsIn
<1>11. ASSUME NEW r \in Range(out)
       PROVE  GrowsIn(r, b)
  <2> SUFFICES ASSUME NEW l \in DOMAIN b, SameTick(r, b[l])
               PROVE  \E q \in DOMAIN b : l <= q /\ SameTick(r, b[q]) /\ GrowsTo(r, b[q])
    BY DEF GrowsIn
  <2>1. PICK p \in DOMAIN b : r = b[p] /\ \A q \in DOMAIN b : p < q => ~ SameTick(b[p], b[q])
    BY <1>3
  <2>2. l <= p
    BY <1>0, <2>1
  <2>3. SameTick(r, b[p]) /\ GrowsTo(r, b[p])
    BY <2>1 DEF SameTick, GrowsTo
  <2> QED
    BY <2>2, <2>3
<1>12. TicksGrow(out, b, c)
  BY <1>1, <1>9, <1>11 DEF TicksGrow
<1> HIDE DEF T, B
<1>13. TicksKnown(T \cup B, << >>, c) /\ TicksKnown(T \cup B, b, c)
  <2>1. /\ \A r \in Range(b) : Counted("tick", r) \subseteq T \cup B
        /\ \A p \in DOMAIN c :
              Counted("tick", c[p]) \subseteq T \cup B
                  \cup {KeyOf("tick", c[q]) : q \in {q \in DOMAIN c : q <= p}}
    BY DEF TicksKnown, T, B
  <2> QED
    BY <2>1, NoRows DEF TicksKnown
<1> QED
  BY <1>1, <1>2, <1>8, <1>10, <1>12, <1>13 DEF T, B

-----------------------------------------------------------------------------
(* Fills and trades. *)

\* A fill or a trade counts its own log.
LEMMA OneKeyEach ==
    ASSUME NEW kd \in Kinds \ {"tick"}, NEW s \in Seq(LogRows(kd))
    PROVE  Stored(kd, s) = Waiting(kd, s)
<1>1. \A r : Counted(kd, r) = {KeyOf(kd, r)}
  BY DEF Counted, KeyOf
<1> QED
  BY <1>1 DEF Stored, Waiting

\* A row with another key is put last; a fill that is there is left there.
LEMMA InsertedRow ==
    ASSUME kind \in {"fill", "trade"}, NEW rows \in Seq(LogRows(kind)),
           NEW row \in LogRows(kind)
    PROVE  /\ kind = "trade" \/ KeyOf(kind, row) \notin Waiting(kind, rows) =>
                  Inserted(rows, row) = Append(rows, row)
           /\ kind = "fill" /\ KeyOf(kind, row) \in Waiting(kind, rows) =>
                  Inserted(rows, row) = rows
<1> DEFINE same == {i \in DOMAIN rows : SameRow(rows[i], row)}
<1>0. DOMAIN rows = 1 .. Len(rows) /\ \A i \in DOMAIN rows : rows[i] \in LogRows(kind)
  OBVIOUS
<1>1. ASSUME kind = "trade"
      PROVE  Inserted(rows, row) = Append(rows, row)
  <2>1. same = {}
    BY <1>1 DEF SameRow
  <2> QED
    BY <2>1 DEF Inserted
<1>2. ASSUME kind = "fill"
      PROVE  same = {} <=> KeyOf(kind, row) \notin Waiting(kind, rows)
  <2>1. ASSUME NEW i \in DOMAIN rows
        PROVE  SameRow(rows[i], row) <=> KeyOf(kind, rows[i]) = KeyOf(kind, row)
    <3>1. \A r \in LogRows(kind) : r.part = PartsOf(kind, r.seq)[No(kind, r.part)]
      BY DEF LogRows
    <3>2. rows[i] \in LogRows(kind)
      BY <1>0
    <3> QED
      BY <1>2, <3>1, <3>2 DEF SameRow, KeyOf
  <2> QED
    BY <2>1 DEF Waiting, Range
<1>3. ASSUME kind = "fill", same = {}
      PROVE  Inserted(rows, row) = Append(rows, row)
  BY <1>3 DEF Inserted
<1>4. ASSUME kind = "fill", same # {}
      PROVE  Inserted(rows, row) = rows
  BY <1>4 DEF Inserted
<1> QED
  BY <1>1, <1>2, <1>3, <1>4

\* A table with one more fill or trade.
LEMMA AppendedKey ==
    ASSUME NEW kd \in Kinds, NEW rows \in Seq(LogRows(kd)), NEW row \in LogRows(kd)
    PROVE  /\ Waiting(kd, Append(rows, row)) = Waiting(kd, rows) \cup {KeyOf(kd, row)}
           /\ OneKeyOnly(kd, rows) /\ KeyOf(kd, row) \notin Waiting(kd, rows)
                 => OneKeyOnly(kd, Append(rows, row))
<1>1. Waiting(kd, Append(rows, row)) = Waiting(kd, rows) \cup {KeyOf(kd, row)}
  <2>1. Range(Append(rows, row)) = Range(rows) \cup {row}
    BY AppendFacts
  <2> QED
    BY <2>1 DEF Waiting
<1>2. ASSUME OneKeyOnly(kd, rows), KeyOf(kd, row) \notin Waiting(kd, rows)
      PROVE  OneKeyOnly(kd, Append(rows, row))
  <2> DEFINE t == Append(rows, row)
             n == Len(rows)
  <2>0. n \in Nat /\ DOMAIN rows = 1 .. n
    OBVIOUS
  <2>1. DOMAIN t = 1 .. n + 1 /\ t[n + 1] = row /\ \A j \in 1 .. n : t[j] = rows[j]
    BY AppendFacts
  <2>2. \A j \in 1 .. n : KeyOf(kd, rows[j]) # KeyOf(kd, row)
    BY <1>2, <2>0 DEF Waiting, Range
  <2> HIDE DEF t, n
  <2>3. ASSUME NEW i \in 1 .. n + 1, NEW j \in 1 .. n + 1,
               KeyOf(kd, t[i]) = KeyOf(kd, t[j])
        PROVE  i = j
    <3>1. (i \in 1 .. n \/ i = n + 1) /\ (j \in 1 .. n \/ j = n + 1)
      BY <2>0
    <3>2. CASE i \in 1 .. n /\ j \in 1 .. n
      BY <1>2, <2>0, <2>1, <2>3, <3>2 DEF OneKeyOnly
    <3> QED
      BY <2>1, <2>2, <2>3, <3>1, <3>2
  <2> QED
    BY <2>1, <2>3 DEF OneKeyOnly, t
<1> QED
  BY <1>1, <1>2

\* What the flusher does to a table of fills or trades.
LEMMA RowsStored ==
    ASSUME kind \in {"fill", "trade"}, NEW t \in Seq(LogRows(kind)),
           NEW b \in Seq(LogRows(kind)), Rising(kind, b),
           NEW out, out = InsertedAll(t, b)
    PROVE  /\ out \in Seq(LogRows(kind))
           /\ Stored(kind, out) = Stored(kind, t) \cup Waiting(kind, b)
           /\ kind = "fill" /\ Waiting(kind, b) \subseteq Stored(kind, t) => out = t
           /\ b # << >> /\ (kind = "trade" \/ KeyOf(kind, b[Len(b)]) \notin Stored(kind, t))
                 => out # << >> /\ out[Len(out)] = b[Len(b)]
           /\ OneKeyOnly(kind, t)
              /\ (kind = "fill" \/ Stored(kind, t) \cap Waiting(kind, b) = {})
                 => OneKeyOnly(kind, out)
<1> DEFINE n == Len(b)
           W(k) == Waiting(kind, t) \cup {KeyOf(kind, b[p]) : p \in 1 .. k}
<1>0. n \in Nat /\ DOMAIN b = 1 .. n /\ \A k \in 1 .. n : b[k] \in LogRows(kind)
  OBVIOUS
<1>a. kind \in Kinds \ {"tick"}
  BY DEF Kinds
<1>b. Stored(kind, t) = Waiting(kind, t) /\ \A s \in Seq(LogRows(kind)) : Stored(kind, s) = Waiting(kind, s)
  BY <1>a, OneKeyEach
<1>1. PICK g : Inserts(g, t, b) /\ out = g[n]
  BY InsertFolds
<1>2. \A k \in 1 .. n : g[k] = Inserted(g[k - 1], b[k])
  BY <1>1 DEF Inserts
<1>3. g[0] = t
  BY <1>1 DEF Inserts
<1>4. W(0) = Waiting(kind, t) /\ W(n) = Waiting(kind, t) \cup Waiting(kind, b)
  <2>1. 1 .. 0 = {}
    OBVIOUS
  <2>2. Waiting(kind, b) = {KeyOf(kind, b[p]) : p \in 1 .. n}
    BY <1>0 DEF Waiting, Range
  <2> HIDE DEF n
  <2> QED
    BY <2>1, <2>2
<1>5. \A k \in 1 .. n : W(k) = W(k - 1) \cup {KeyOf(kind, b[k])}
  <2> SUFFICES ASSUME NEW k \in 1 .. n PROVE W(k) = W(k - 1) \cup {KeyOf(kind, b[k])}
    OBVIOUS
  <2>1. 1 .. k = (1 .. (k - 1)) \cup {k}
    BY <1>0
  <2> QED
    BY <2>1
<1> HIDE DEF W, n
<1> DEFINE Good == {k \in 0 .. n : g[k] \in Seq(LogRows(kind)) /\ Waiting(kind, g[k]) = W(k)}
<1>6. ASSUME NEW k \in 1 .. n, k - 1 \in Good
      PROVE  k \in Good
  <2>1. g[k - 1] \in Seq(LogRows(kind)) /\ Waiting(kind, g[k - 1]) = W(k - 1)
    BY <1>6
  <2>2. CASE kind = "trade" \/ KeyOf(kind, b[k]) \notin W(k - 1)
    <3>1. g[k] = Append(g[k - 1], b[k])
      BY <1>0, <1>2, <2>1, <2>2, InsertedRow
    <3>2. b[k] \in LogRows(kind) /\ kind \in Kinds
      BY <1>0, <1>a
    <3>3. g[k] \in Seq(LogRows(kind))
      BY <2>1, <3>1, <3>2, AppendFacts
    <3>4. Waiting(kind, g[k]) = Waiting(kind, g[k - 1]) \cup {KeyOf(kind, b[k])}
      BY <2>1, <3>1, <3>2, AppendedKey
    <3>5. Waiting(kind, g[k]) = W(k)
      BY <1>5, <2>1, <3>4
    <3>6. k \in 0 .. n
      BY <1>0
    <3> QED
      BY <3>3, <3>5, <3>6
  <2>3. CASE kind = "fill" /\ KeyOf(kind, b[k]) \in W(k - 1)
    <3>1. g[k] = g[k - 1]
      BY <1>0, <1>2, <2>1, <2>3, InsertedRow
    <3>2. W(k) = W(k - 1)
      <4>1. W(k) = W(k - 1) \cup {KeyOf(kind, b[k])}
        BY <1>5
      <4>2. KeyOf(kind, b[k]) \in W(k - 1)
        BY <2>3
      <4>3. \A S, x : x \in S => S \cup {x} = S
        OBVIOUS
      <4> QED
        BY <4>1, <4>2, <4>3
    <3>3. k \in 0 .. n
      BY <1>0
    <3>4. g[k] \in Seq(LogRows(kind)) /\ Waiting(kind, g[k]) = W(k)
      BY <2>1, <3>1, <3>2
    <3> QED
      BY <3>3, <3>4
  <2> QED
    BY <2>2, <2>3
<1>7. 0 \in Good
  BY <1>0, <1>3, <1>4
<1>8. \A k \in 0 .. n : k \in Good
  <2> SUFFICES ASSUME NEW k \in 0 .. n PROVE k \in Good
    OBVIOUS
  <2>1. \A j \in 1 .. k : j \in 1 .. n
    BY <1>0
  <2>2. k \in Nat
    BY <1>0
  <2> HIDE DEF Good
  <2> QED
    BY <1>6, <1>7, <2>1, <2>2, NumberInduction
<1>9. \A k \in 0 .. n : g[k] \in Seq(LogRows(kind)) /\ Waiting(kind, g[k]) = W(k)
  BY <1>8
<1> HIDE DEF Good
<1>10. out \in Seq(LogRows(kind)) /\ Waiting(kind, out) = Waiting(kind, t) \cup Waiting(kind, b)
  BY <1>0, <1>1, <1>4, <1>9
<1>11. ASSUME kind = "fill", Waiting(kind, b) \subseteq Waiting(kind, t)
       PROVE  out = t
  <2> DEFINE Still == {k \in 0 .. n : g[k] = t}
  <2>1. 0 \in Still
    BY <1>0, <1>3
  <2>2. ASSUME NEW k \in 1 .. n, k - 1 \in Still
        PROVE  k \in Still
    <3>1. KeyOf(kind, b[k]) \in Waiting(kind, t)
      BY <1>0, <1>11 DEF Waiting, Range
    <3>2. g[k - 1] = t
      BY <2>2
    <3>3. g[k] = t
      BY <1>0, <1>2, <1>11, <3>1, <3>2, InsertedRow
    <3> QED
      BY <1>0, <3>3
  <2> HIDE DEF Still
  <2>3. n \in Still
    BY <1>0, <2>1, <2>2, NumberInduction
  <2> QED
    BY <1>1, <2>3 DEF Still
\* The keys of the batch differ.
<1>12. ASSUME NEW k \in 1 .. n, NEW p \in 1 .. k - 1
       PROVE  KeyOf(kind, b[p]) # KeyOf(kind, b[k])
  <2>1. p \in DOMAIN b /\ k \in DOMAIN b /\ p < k
    BY <1>0
  <2>2. Before(KeyOf(kind, b[p]), KeyOf(kind, b[k]))
    BY <2>1 DEF Rising
  <2>3. KeyOf(kind, b[k]) \in Keys(kind)
    BY <1>0 DEF LogRows
  <2> QED
    BY <1>a, <2>2, <2>3, KeyOrder
<1>13. ASSUME NEW k \in 1 .. n, KeyOf(kind, b[k]) \notin Waiting(kind, t)
       PROVE  KeyOf(kind, b[k]) \notin W(k - 1)
  BY <1>12, <1>13 DEF W
<1>14. ASSUME b # << >>, kind = "trade" \/ KeyOf(kind, b[n]) \notin Waiting(kind, t)
       PROVE  out # << >> /\ out[Len(out)] = b[n]
  <2>1. n \in 1 .. n /\ n - 1 \in 0 .. n
    BY <1>0, <1>14, EmptySeq DEF n
  <2>2. g[n - 1] \in Seq(LogRows(kind)) /\ Waiting(kind, g[n - 1]) = W(n - 1)
    BY <1>9, <2>1
  <2>3. kind = "trade" \/ KeyOf(kind, b[n]) \notin W(n - 1)
    BY <1>13, <1>14, <2>1
  <2>4. out = Append(g[n - 1], b[n])
    BY <1>0, <1>1, <1>2, <2>1, <2>2, <2>3, InsertedRow
  <2>5. Len(out) = Len(g[n - 1]) + 1 /\ out[Len(out)] = b[n] /\ Len(g[n - 1]) \in Nat
    BY <1>0, <2>1, <2>2, <2>4, AppendFacts
  <2>6. Len(out) # 0
    BY <2>5
  <2> QED
    BY <2>5, <2>6, NoRows
<1>15. ASSUME OneKeyOnly(kind, t),
              kind = "fill" \/ Waiting(kind, t) \cap Waiting(kind, b) = {}
       PROVE  OneKeyOnly(kind, out)
  <2> DEFINE One == {k \in 0 .. n : OneKeyOnly(kind, g[k])}
  <2>1. 0 \in One
    BY <1>0, <1>3, <1>15
  <2>2. ASSUME NEW k \in 1 .. n, k - 1 \in One
        PROVE  k \in One
    <3>1. OneKeyOnly(kind, g[k - 1]) /\ k - 1 \in 0 .. n
      BY <1>0, <2>2
    <3>2. g[k - 1] \in Seq(LogRows(kind)) /\ Waiting(kind, g[k - 1]) = W(k - 1)
      BY <1>9, <3>1
    <3>3. CASE KeyOf(kind, b[k]) \in W(k - 1)
      <4>1. kind = "fill"
        <5>1. KeyOf(kind, b[k]) \in Waiting(kind, b)
          BY <1>0 DEF Waiting, Range
        <5> QED
          BY <1>13, <1>15, <3>3, <5>1
      <4>2. g[k] = g[k - 1]
        BY <1>0, <1>2, <3>2, <3>3, <4>1, InsertedRow
      <4> QED
        BY <1>0, <3>1, <4>2
    <3>4. CASE KeyOf(kind, b[k]) \notin W(k - 1)
      <4>1. g[k] = Append(g[k - 1], b[k])
        BY <1>0, <1>2, <3>2, <3>4, InsertedRow
      <4>2. OneKeyOnly(kind, g[k])
        BY <1>0, <1>a, <3>1, <3>2, <3>4, <4>1, AppendedKey
      <4> QED
        BY <1>0, <4>2
    <3> QED
      BY <3>3, <3>4
  <2> HIDE DEF One
  <2>3. n \in One
    BY <1>0, <2>1, <2>2, NumberInduction
  <2> QED
    BY <1>1, <2>3 DEF One
<1> QED
  BY <1>b, <1>10, <1>11, <1>14, <1>15 DEF n

-----------------------------------------------------------------------------
(* What a worker that starts again finds. *)

\* The last tick of a granularity counts the last of its logs.
LEMMA LastTickFacts ==
    ASSUME kind = "tick", ClockForward, table \in Seq(TickRows), OneRowEach(table),
           NEW g \in Granularities
    PROVE  /\ LastTick(g) = NoTick <=> \A r \in Range(table) : r.part # g
           /\ LastTick(g) # NoTick =>
                 /\ LastTick(g) \in Range(table) /\ LastTick(g).part = g
                 /\ \A r \in Range(table) : r.part = g =>
                       /\ r.time <= LastTick(g).time
                       /\ r.time = LastTick(g).time => r = LastTick(g)
                       /\ r.seq <= LastTick(g).seq
<1> DEFINE rows == {i \in DOMAIN table : table[i].part = g}
           times == [i \in rows |-> table[i].time]
           i == CHOOSE i \in rows : \A j \in rows : table[j].time <= table[i].time
<1>0. /\ Len(table) \in Nat /\ DOMAIN table = 1 .. Len(table)
      /\ Range(table) \subseteq TickRows /\ \A j \in DOMAIN table : table[j] \in Range(table)
  BY RangeFacts
<1>1. \A r \in TickRows : r.time \in Nat /\ r.seq \in Matches /\ r.part \in Granularities
                          /\ r # NoTick /\ TickTime[r.part][r.seq] = r.time
  <2> SUFFICES ASSUME NEW r \in TickRows
               PROVE  r.time \in Nat /\ r.seq \in Matches /\ r.part \in Granularities
                      /\ r # NoTick /\ TickTime[r.part][r.seq] = r.time
    OBVIOUS
  <2>1. /\ r.time \in Nat /\ r.seq \in Matches /\ r.seq \in Range(r.logs)
        /\ r.part \in Granularities
        /\ \A m \in Range(r.logs) : TickTime[r.part][m] = r.time
    BY DEF TickRows
  <2>2. NoTick.time = -1
    BY DEF NoTick
  <2> QED
    BY <2>1, <2>2
<1>2. CASE rows = {}
  <2>1. LastTick(g) = NoTick
    BY <1>2 DEF LastTick
  <2>2. \A r \in Range(table) : r.part # g
    BY <1>2 DEF Range
  <2> QED
    BY <2>1, <2>2
<1>3. CASE rows # {}
  <2>1. i \in rows /\ \A j \in rows : table[j].time <= table[i].time
    <3>1. \A j \in rows : times[j] \in Nat /\ times[j] = table[j].time
      BY <1>0, <1>1
    <3>2. rows \in SUBSET (1 .. Len(table))
      BY <1>0
    <3> HIDE DEF rows, times
    <3>3. \E l \in rows : \A j \in rows : times[j] <= times[l]
      BY <1>0, <1>3, <3>1, <3>2, Greatest
    <3>4. \E l \in rows : \A j \in rows : table[j].time <= table[l].time
      BY <3>1, <3>3
    <3> QED
      BY <3>4, Zenon
  <2>2. LastTick(g) = table[i]
    BY <1>3 DEF LastTick
  <2> DEFINE x == table[i]
  <2>3. i \in DOMAIN table /\ x \in Range(table) /\ x \in TickRows /\ x.part = g
    BY <1>0, <2>1
  <2> HIDE DEF i
  <2>4. ASSUME NEW r \in Range(table), r.part = g
        PROVE  /\ r.time <= x.time
               /\ r.time = x.time => r = x
               /\ r.seq <= x.seq
    <3>1. PICK j \in DOMAIN table : r = table[j]
      BY DEF Range
    <3>2. r.time <= x.time
      BY <2>1, <2>4, <3>1
    <3>3. r.time = x.time => r = x
      <4>1. r.time = x.time => SameTick(table[j], table[i])
        BY <2>3, <2>4, <3>1 DEF SameTick
      <4> QED
        BY <2>3, <3>1, <4>1 DEF OneRowEach
    <3>4. ASSUME ~ (r.seq <= x.seq)
          PROVE  FALSE
      <4>0. r \in TickRows
        BY <1>0
      <4>1. /\ r.seq \in Nat /\ x.seq \in Nat /\ r.seq \in Matches /\ x.seq \in Matches
            /\ x.time \in Nat /\ r.time \in Nat
        BY <1>1, <2>3, <4>0, Constants
      <4>2. TickTime[g][x.seq] <= TickTime[g][r.seq]
        BY <3>4, <4>1 DEF ClockForward
      <4>3. x.time <= r.time
        BY <1>1, <2>3, <2>4, <4>0, <4>2
      <4>4. r = x
        BY <3>2, <3>3, <4>1, <4>3
      <4> QED
        BY <3>4, <4>1, <4>4
    <3> QED
      BY <3>2, <3>3, <3>4
  <2>5. LastTick(g) # NoTick /\ ~ \A r \in Range(table) : r.part # g
    BY <1>1, <2>2, <2>3
  <2> QED
    BY <2>2, <2>3, <2>4, <2>5
<1> QED
  BY <1>2, <1>3

\* The row a worker resumes after.
LEMMA ResumeFacts ==
    ASSUME kind \in Kinds, table \in Seq(Rows(kind)), table # << >>,
           kind = "tick" => OneRowEach(table) /\ ClockForward,
           kind # "tick" =>
               \A k \in Stored(kind, table) : k[1] <= table[Len(table)].seq
    PROVE  /\ ResumeAfter # << >>
           /\ Head(ResumeAfter) \in Rows(kind)
           /\ ResumesAfter(kind, Stored(kind, table), KeyOf(kind, Head(ResumeAfter)))
           /\ kind = "tick" =>
                 \A g \in Granularities : LastTick(g) # NoTick =>
                     g <= Head(ResumeAfter).part
<1>0. /\ Len(table) \in DOMAIN table /\ Range(table) \subseteq Rows(kind)
      /\ \A j \in DOMAIN table : table[j] \in Range(table)
      /\ Range(table) # {}
  BY RangeFacts
<1>1. CASE kind # "tick"
  <2> DEFINE row == table[Len(table)]
  <2>1. ResumeAfter = <<row>>
    BY <1>1 DEF ResumeAfter, Last
  <2>2. Head(ResumeAfter) = row /\ ResumeAfter # << >>
    BY <2>1
  <2>3. row \in Range(table) /\ row \in Rows(kind)
    BY <1>0
  <2>4. KeyOf(kind, row) \in Stored(kind, table) /\ KeyOf(kind, row)[1] = row.seq
    BY <2>3, RowKeys DEF Stored
  <2> HIDE DEF row
  <2>5. \A k \in Stored(kind, table) : k[1] <= row.seq
    BY <1>1 DEF row
  <2> QED
    BY <1>1, <2>2, <2>3, <2>4, <2>5 DEF ResumesAfter
<1>2. CASE kind = "tick"
  <2> DEFINE G == {g \in Granularities : LastTick(g) # NoTick}
             h == Max(G)
             row == LastTick(h)
  <2>0. table \in Seq(TickRows) /\ OneRowEach(table)
    BY <1>2 DEF Rows
  <2>1. G # {}
    <3>1. PICK r \in Range(table) : TRUE
      BY <1>0
    <3>2. r.part \in Granularities
      <4>1. r \in TickRows
        BY <1>0, <1>2, <3>1 DEF Rows
      <4> QED
        BY <4>1 DEF TickRows
    <3>3. LastTick(r.part) # NoTick
      BY <1>2, <2>0, <3>1, <3>2, LastTickFacts
    <3> QED
      BY <3>2, <3>3
  <2>2. h \in G /\ \A g \in G : g <= h
    <3>1. G \in SUBSET (1 .. Longest) /\ Longest \in Nat
      BY Constants
    <3> HIDE DEF G
    <3> QED
      BY <2>1, <3>1, LastIndex
  <2>3. ResumeAfter = <<row>>
    BY <1>2 DEF ResumeAfter
  <2>4. Head(ResumeAfter) = row /\ ResumeAfter # << >>
    BY <2>3
  <2>5. row # NoTick /\ h \in Granularities
    BY <2>2
  <2>6. /\ row \in Range(table) /\ row.part = h
        /\ \A r \in Range(table) : r.part = h => r.seq <= row.seq
    BY <1>2, <2>0, <2>5, LastTickFacts
  <2>7. row \in Rows(kind)
    BY <1>0, <2>6
  <2> HIDE DEF row, h
  <2>8. /\ KeyOf(kind, row) \in Stored(kind, table)
        /\ KeyOf(kind, row)[1] = row.seq /\ KeyOf(kind, row)[2] = h
    BY <1>2, <2>6, <2>7, RowKeys DEF Stored, No
  <2>9. ASSUME NEW l \in Stored(kind, table)
        PROVE  l[2] <= h /\ (l[2] = h => l[1] <= row.seq)
    <3>1. PICK r \in Range(table) : l \in Counted(kind, r)
      BY DEF Stored
    <3>2. r \in Rows(kind) /\ r \in TickRows
      BY <1>0, <1>2 DEF Rows
    <3>3. l[2] = r.part /\ l[1] <= r.seq
      BY <1>2, <3>1, <3>2, RowKeys DEF No
    <3>4. r.part \in Granularities
      BY <3>2 DEF TickRows
    <3>5. r.part \in G
      BY <1>2, <2>0, <3>4, LastTickFacts
    <3>6. r.part = h => r.seq <= row.seq
      BY <2>6
    <3>7. row.seq \in Nat /\ r.seq \in Nat /\ l[1] \in Nat
      <4>1. l \in Keys(kind)
        BY KeysOfRows
      <4>2. row.seq \in Matches /\ r.seq \in Matches
        BY <1>2, <2>7, <3>2 DEF Rows, TickRows
      <4> QED
        BY <4>1, <4>2, KeyFacts, Constants
    <3> QED
      BY <2>2, <3>3, <3>5, <3>6, <3>7
  <2>10. \A g \in Granularities : LastTick(g) # NoTick => g <= row.part
    BY <2>2, <2>6
  <2> QED
    BY <1>2, <2>4, <2>7, <2>8, <2>9, <2>10 DEF ResumesAfter
<1> QED
  BY <1>1, <1>2

-----------------------------------------------------------------------------
(* Counting. *)

\* The rows of a log, of this worker.
LEMMA PartsOfKind ==
    ASSUME NEW seq
    PROVE  Parts(seq) = PartsOf(kind, seq)
BY DEF Parts, PartsOf

\* The places where a log is counted, one by one.
LEMMA PlacesFacts ==
    ASSUME kind \in Kinds, table \in Seq(Rows(kind)), NEW seq, NEW part
    PROVE  /\ IsFiniteSet(Places(seq, part))
           /\ \A p : p \in Places(seq, part) <=>
                 \E k \in DOMAIN table : \E x \in DOMAIN LogsOf(table[k]) :
                    p = <<k, x>> /\ table[k].part = part /\ LogsOf(table[k])[x] = seq
<1>0. Len(table) \in Nat /\ DOMAIN table = 1 .. Len(table)
      /\ \A k \in DOMAIN table : table[k] \in Rows(kind)
  OBVIOUS
<1>1. \A k \in 1 .. Len(table) : Len(LogsOf(table[k])) \in Nat
                           /\ DOMAIN LogsOf(table[k]) = 1 .. Len(LogsOf(table[k]))
  <2> SUFFICES ASSUME NEW k \in 1 .. Len(table)
               PROVE  Len(LogsOf(table[k])) \in Nat
                      /\ DOMAIN LogsOf(table[k]) = 1 .. Len(LogsOf(table[k]))
    OBVIOUS
  <2>1. CASE kind = "tick"
    <3>1. table[k] \in TickRows
      BY <1>0, <2>1 DEF Rows
    <3>2. table[k].logs \in Seq(Matches)
      BY <3>1 DEF TickRows
    <3>3. LogsOf(table[k]) = table[k].logs
      BY <2>1 DEF LogsOf
    <3> QED
      BY <3>2, <3>3
  <2>2. CASE kind # "tick"
    <3>1. LogsOf(table[k]) = <<table[k].seq>>
      BY <2>2 DEF LogsOf
    <3> QED
      BY <3>1
  <2> QED
    BY <2>1, <2>2
<1>2. \A p : p \in Places(seq, part) <=>
          \E k \in DOMAIN table : \E x \in DOMAIN LogsOf(table[k]) :
             p = <<k, x>> /\ table[k].part = part /\ LogsOf(table[k])[x] = seq
  BY DEF Places
<1>3. CASE table = << >>
  <2>1. Places(seq, part) = {}
    BY <1>2, <1>3, NoRows
  <2> QED
    BY <1>2, <2>1, FS_EmptySet
<1>4. CASE table # << >>
  <2> DEFINE lens == [k \in 1 .. Len(table) |-> Len(LogsOf(table[k]))]
  <2>1. \A k \in 1 .. Len(table) : lens[k] \in Nat /\ lens[k] = Len(LogsOf(table[k]))
    BY <1>1
  <2>2. 1 .. Len(table) # {}
    BY <1>0, <1>4, RangeFacts
  <2> HIDE DEF lens
  <2>3. PICK m \in 1 .. Len(table) : \A k \in 1 .. Len(table) : lens[k] <= lens[m]
    BY <1>0, <2>1, <2>2, Greatest
  <2> DEFINE S == (1 .. Len(table)) \X (1 .. lens[m])
  <2>4. IsFiniteSet(S)
    <3>1. IsFiniteSet(1 .. Len(table))
      BY <1>0, FS_Interval
    <3>2. IsFiniteSet(1 .. lens[m])
      BY <2>1, FS_Interval
    <3> QED
      BY <3>1, <3>2, FS_Product
  <2>5. Places(seq, part) \in SUBSET S
    <3> SUFFICES ASSUME NEW p \in Places(seq, part) PROVE p \in S
      OBVIOUS
    <3>0. PICK k \in DOMAIN table : \E x \in DOMAIN LogsOf(table[k]) : p = <<k, x>>
      BY <1>2
    <3>1. PICK x \in DOMAIN LogsOf(table[k]) : p = <<k, x>>
      BY <3>0
    <3>2. x \in 1 .. Len(LogsOf(table[k])) /\ Len(LogsOf(table[k])) <= lens[m]
      BY <1>0, <1>1, <2>1, <2>3
    <3>3. x \in 1 .. lens[m]
      BY <1>0, <1>1, <2>1, <3>2
    <3> QED
      BY <1>0, <3>1, <3>3
  <2> HIDE DEF S
  <2> QED
    BY <1>2, <2>4, <2>5, FS_Subset
<1> QED
  BY <1>3, <1>4

\* A count is a number of places.
LEMMA CountFacts ==
    ASSUME kind \in Kinds, table \in Seq(Rows(kind)), NEW seq, NEW part
    PROVE  /\ Count(seq, part) \in Nat
           /\ Count(seq, part) > 0 <=> Places(seq, part) # {}
           /\ Count(seq, part) > 1 =>
                 \E p, q \in Places(seq, part) : p # q
<1> DEFINE S == Places(seq, part)
<1>1. IsFiniteSet(S)
  BY PlacesFacts
<1> HIDE DEF S
<1>2. Cardinality(S) \in Nat /\ (Cardinality(S) = 0 <=> S = {})
  BY <1>1, FS_CardinalityType, FS_EmptySet
<1>3. ASSUME Cardinality(S) > 1, \A p, q \in S : p = q
      PROVE  FALSE
  <2>1. PICK p : p \in S
    BY <1>2, <1>3
  <2>2. S = {p}
    BY <1>3, <2>1
  <2>3. Cardinality({p}) = 1
    BY FS_Singleton
  <2> QED
    BY <1>3, <2>2, <2>3
<1> QED
  BY <1>2, <1>3 DEF Count, S

\* A key is stored if it has been counted.
LEMMA CountStored ==
    ASSUME kind \in Kinds, table \in Seq(Rows(kind)), NEW seq \in Logs,
           NEW i \in DOMAIN PartsOf(kind, seq)
    PROVE  Count(seq, PartsOf(kind, seq)[i]) > 0 <=> <<seq, i>> \in Stored(kind, table)
<1> DEFINE part == PartsOf(kind, seq)[i]
<1>0. \A k \in DOMAIN table : table[k] \in Rows(kind) /\ table[k] \in Range(table)
  BY RangeFacts
<1>1. No(kind, part) = i
  BY PartsFacts
<1>2. ASSUME NEW k \in DOMAIN table
      PROVE  (\E x \in DOMAIN LogsOf(table[k]) :
                 table[k].part = part /\ LogsOf(table[k])[x] = seq)
             <=> <<seq, i>> \in Counted(kind, table[k])
  <2>1. CASE kind = "tick"
    <3>1. LogsOf(table[k]) = table[k].logs
      BY <2>1 DEF LogsOf
    <3>2. part = i /\ No(kind, table[k].part) = table[k].part
      BY <1>1, <2>1 DEF No
    <3>3. Counted(kind, table[k]) = {<<m, table[k].part>> : m \in Range(table[k].logs)}
      BY <2>1, <3>2 DEF Counted
    <3> HIDE DEF part
    <3> QED
      BY <3>1, <3>2, <3>3 DEF Range
  <2>2. CASE kind # "tick"
    <3>1. LogsOf(table[k]) = <<table[k].seq>>
      BY <2>2 DEF LogsOf
    <3>2. Counted(kind, table[k]) = {<<table[k].seq, No(kind, table[k].part)>>}
      BY <2>2 DEF Counted
    <3>3. table[k] \in LogRows(kind)
      BY <1>0, <2>2 DEF Rows
    <3>4. table[k].part = PartsOf(kind, table[k].seq)[No(kind, table[k].part)]
      BY <3>3 DEF LogRows
    <3>5. (\E x \in DOMAIN LogsOf(table[k]) :
                 table[k].part = part /\ LogsOf(table[k])[x] = seq)
          <=> table[k].part = part /\ table[k].seq = seq
      BY <3>1
    <3>6. table[k].seq = seq =>
             (table[k].part = part <=> No(kind, table[k].part) = i)
      BY <1>1, <3>4
    <3> HIDE DEF part
    <3> QED
      BY <3>2, <3>5, <3>6
  <2> QED
    BY <2>1, <2>2
<1>3. <<seq, i>> \in Stored(kind, table) <=>
          \E k \in DOMAIN table : <<seq, i>> \in Counted(kind, table[k])
  BY <1>0 DEF Stored, Range
<1>4. Places(seq, part) # {} <=>
          \E k \in DOMAIN table : \E x \in DOMAIN LogsOf(table[k]) :
             table[k].part = part /\ LogsOf(table[k])[x] = seq
  <2> HIDE DEF part
  <2>1. \A p : p \in Places(seq, part) <=>
            \E k \in DOMAIN table : \E x \in DOMAIN LogsOf(table[k]) :
               p = <<k, x>> /\ table[k].part = part /\ LogsOf(table[k])[x] = seq
    BY PlacesFacts
  <2>2. Places(seq, part) # {} <=> \E p : p \in Places(seq, part)
    OBVIOUS
  <2> QED
    BY <2>1, <2>2, Zenon
<1> HIDE DEF part
<1>5. Count(seq, part) > 0 <=> Places(seq, part) # {}
  BY CountFacts
<1> QED
  BY <1>2, <1>3, <1>4, <1>5 DEF part

-----------------------------------------------------------------------------
(* The invariant and the properties. *)

\* The invariant leaves nothing out.
LEMMA InvNothingLeftOut == Inv => NothingLeftOut
<1> SUFFICES ASSUME Inv, NEW seq \in Logs, NEW old \in Logs,
                    NEW i \in DOMAIN Parts(seq), NEW j \in DOMAIN Parts(old),
                    old < seq \/ (old = seq /\ j < i),
                    Count(seq, Parts(seq)[i]) > 0, ~ MayMiss(old),
                    ~ (Count(old, Parts(old)[j]) > 0)
             PROVE  FALSE
  BY DEF NothingLeftOut
<1> DEFINE T == Stored(kind, table)
           W == UnderWay(kind, batch, ch, pushing)
<1>0. kind \in Kinds /\ table \in Seq(Rows(kind)) /\ Whole(kind, T, W, lastSeq, torn)
  BY DEF Inv, TypeOK, Kept
<1> HIDE DEF T, W
<1>1. /\ Parts(seq) = PartsOf(kind, seq) /\ Parts(old) = PartsOf(kind, old)
      /\ i \in DOMAIN PartsOf(kind, seq) /\ j \in DOMAIN PartsOf(kind, old)
  BY PartsOfKind
<1>2. <<seq, i>> \in T /\ <<old, j>> \notin T
  BY <1>0, <1>1, CountStored DEF T
<1>3. <<old, j>> \in Keys(kind)
  <2>1. j \in Nat
    BY <1>0, <1>1, PartsFacts
  <2> QED
    BY <1>1, <2>1 DEF Keys
<1>4. Before(<<old, j>>, <<seq, i>>)
  BY DEF Before
<1>5. Excused(kind, T, torn, old)
  <2>1. <<old, j>>[1] = old
    OBVIOUS
  <2>2. <<old, j>> \notin W /\ old <= lastSeq
    BY <1>0, <1>2, <1>3, <1>4, <2>1 DEF Whole
  <2> QED
    BY <1>0, <1>2, <1>3, <2>1, <2>2 DEF Whole
<1>6. ASSUME kind = "tick", NEW m \in Matches, m < old
      PROVE  Count(m, Len(TickTime)) = 0
  <2>1. <<m, Longest>> \notin T
    BY <1>5, <1>6 DEF Excused
  <2>2. m \in Logs /\ Longest \in Granularities
    BY Constants
  <2>3. PartsOf(kind, m) = [g \in Granularities |-> g]
    BY <1>6 DEF PartsOf
  <2>4. ~ (Count(m, Longest) > 0)
    BY <1>0, <2>1, <2>2, <2>3, CountStored DEF T
  <2>5. Count(m, Longest) \in Nat
    BY <1>0, CountFacts
  <2> QED
    BY <2>4, <2>5 DEF Longest
<1> QED
  BY <1>5, <1>6 DEF MayMiss, Excused

\* The invariant counts nothing twice.
LEMMA InvCountedOnce == Inv => CountedOnce
<1> SUFFICES ASSUME Inv, NEW seq \in Logs, NEW i \in DOMAIN Parts(seq),
                    Count(seq, Parts(seq)[i]) > 1
             PROVE  \/ kind = "trade" /\ repeated
                    \/ kind = "tick" /\ seq \in torn /\ i < Len(TickTime)
  BY DEF CountedOnce
<1> DEFINE part == PartsOf(kind, seq)[i]
<1>0. kind \in Kinds /\ table \in Seq(Rows(kind))
      /\ \A k \in DOMAIN table : table[k] \in Rows(kind)
  BY DEF Inv, TypeOK
<1>1. Parts(seq) = PartsOf(kind, seq) /\ i \in DOMAIN PartsOf(kind, seq)
  BY PartsOfKind
<1>2. PICK p, q \in Places(seq, part) : p # q
  BY <1>0, <1>1, CountFacts
<1>3. PICK k \in DOMAIN table : \E x \in DOMAIN LogsOf(table[k]) :
          p = <<k, x>> /\ table[k].part = part /\ LogsOf(table[k])[x] = seq
  BY <1>0, PlacesFacts
<1>4. PICK x \in DOMAIN LogsOf(table[k]) :
          p = <<k, x>> /\ table[k].part = part /\ LogsOf(table[k])[x] = seq
  BY <1>3
<1>5. PICK l \in DOMAIN table : \E y \in DOMAIN LogsOf(table[l]) :
          q = <<l, y>> /\ table[l].part = part /\ LogsOf(table[l])[y] = seq
  BY <1>0, PlacesFacts
<1>6. PICK y \in DOMAIN LogsOf(table[l]) :
          q = <<l, y>> /\ table[l].part = part /\ LogsOf(table[l])[y] = seq
  BY <1>5
<1>7. CASE kind # "tick"
  <2>1. LogsOf(table[k]) = <<table[k].seq>> /\ LogsOf(table[l]) = <<table[l].seq>>
    BY <1>7 DEF LogsOf
  <2>2. x = 1 /\ y = 1 /\ table[k].seq = seq /\ table[l].seq = seq
    BY <1>4, <1>6, <2>1
  <2>3. k # l
    BY <1>2, <1>4, <1>6, <2>2
  <2>4. KeyOf(kind, table[k]) = KeyOf(kind, table[l])
    BY <1>4, <1>6, <2>2 DEF KeyOf
  <2>5. ~ OneKeyOnly(kind, table)
    BY <2>3, <2>4 DEF OneKeyOnly
  <2> QED
    BY <1>0, <1>7, <2>5 DEF Inv, RowsOK, Kinds
<1>8. CASE kind = "tick"
  <2>1. /\ LogsOf(table[k]) = table[k].logs /\ LogsOf(table[l]) = table[l].logs
        /\ table[k] \in TickRows /\ table[l] \in TickRows
    BY <1>0, <1>8 DEF LogsOf, Rows
  <2>2. TicksOK
    BY <1>8 DEF Inv
  <2>3. table[k].time = table[l].time
    <3>1. seq \in Range(table[k].logs) /\ seq \in Range(table[l].logs)
      BY <1>4, <1>6, <2>1 DEF Range
    <3> QED
      BY <1>4, <1>6, <2>1, <3>1 DEF TickRows
  <2>4. k = l
    BY <1>4, <1>6, <2>2, <2>3 DEF TicksOK, TicksGrow, OneRowEach, SameTick
  <2>5. x # y
    BY <1>2, <1>4, <1>6, <2>4
  <2>6. TwiceOnlyTorn(table[k], torn)
    <3>1. table[k] \in Range(table)
      BY DEF Range
    <3> QED
      BY <2>2, <3>1 DEF TicksOK
  <2>7. table[k].logs[x] \in torn /\ table[k].part < Longest
    BY <1>4, <1>6, <2>1, <2>4, <2>5, <2>6 DEF TwiceOnlyTorn
  <2>8. table[k].part = i
    BY <1>0, <1>1, <1>4, <1>8, PartsFacts DEF No
  <2> QED
    BY <1>4, <1>8, <2>1, <2>7, <2>8 DEF Longest
<1> QED
  BY <1>7, <1>8

-----------------------------------------------------------------------------
(* The invariant at first. *)

\* The tick maker tells the time of a log by the clock of the engine.
Clocked == kind = "tick" => ClockForward

\* An empty table, nothing read and nothing under way.
LEMMA InitInv == Init /\ Clocked => Inv
<1> SUFFICES ASSUME Init, Clocked PROVE Inv
  OBVIOUS
<1> USE NoRows
<1>1. /\ kind \in Kinds /\ offset = 0 /\ lastSeq = 0
      /\ pushing = << >> /\ ch = << >> /\ batch = << >> /\ storing = FALSE
      /\ ticks = [g \in Granularities |-> NoTick]
      /\ table = << >> /\ faults = 0 /\ torn = {} /\ repeated = FALSE
  BY DEF Init, Kinds
<1>2. TypeOK
  BY <1>1 DEF TypeOK
<1>3. Lined(kind, batch, ch, pushing, lastSeq)
  BY <1>1 DEF Lined, Rising, Ahead, UnderWay
<1>4. Kept
  <2>1. UnderWay(kind, batch, ch, pushing) = {} /\ Stored(kind, table) = {}
    BY <1>1 DEF UnderWay
  <2> QED
    BY <1>1, <2>1, WholeAtFirst DEF Kept
<1>5. TicksOK
  <2>1. TicksGrow(table, batch, ch)
    BY <1>1 DEF TicksGrow, OneRowEach, Growing
  <2>2. TicksKnown(Stored("tick", table), batch, ch)
    BY <1>1 DEF TicksKnown
  <2>3. \A g \in Granularities : ticks[g] = NoTick
    BY <1>1
  <2>4. Range(table) \cup Range(batch) \cup Range(ch) = {} /\ Stored("tick", table) = {}
    BY <1>1
  <2>5. ASSUME NEW R, R = {}, NEW K, NEW g \in Granularities
        PROVE  Newest(g, ticks[g], R, K)
    BY <2>3, <2>5 DEF Newest
  <2> HIDE NoRows
  <2> QED
    BY <1>1, <2>1, <2>2, <2>3, <2>4, <2>5 DEF TicksOK
<1>6. RowsOK
  <2>1. Stored(kind, table) = {} /\ DOMAIN table = {}
    BY <1>1
  <2> QED
    BY <1>1, <2>1 DEF RowsOK, Ahead, OneKeyOnly
<1> QED
  BY <1>2, <1>3, <1>4, <1>5, <1>6 DEF Inv, Clocked

-----------------------------------------------------------------------------
(* Rows that move on. *)

\* A sequence without its first element.
LEMMA TailFacts ==
    ASSUME NEW S, NEW s \in Seq(S), s # << >>
    PROVE  /\ Head(s) \in S /\ Tail(s) \in Seq(S)
           /\ Head(s) = s[1] /\ 1 \in DOMAIN s
           /\ Len(s) \in Nat /\ Len(Tail(s)) = Len(s) - 1
           /\ \A j \in DOMAIN Tail(s) : Tail(s)[j] = s[j + 1] /\ j + 1 \in DOMAIN s
           /\ Range(s) = {Head(s)} \cup Range(Tail(s))
<1> DEFINE n == Len(s)
           t == Tail(s)
<1>1. /\ n \in Nat \ {0} /\ DOMAIN s = 1 .. n /\ \A j \in 1 .. n : s[j] \in S
      /\ Head(s) = s[1]
  BY RangeFacts
<1>2. t \in Seq(S) /\ Len(t) = n - 1 /\ DOMAIN t = 1 .. n - 1
      /\ \A j \in 1 .. n - 1 : t[j] = s[j + 1]
  BY <1>1
<1> HIDE DEF n, t
<1>3. \A j \in 1 .. n - 1 : j + 1 \in 1 .. n
  BY <1>1
<1>4. Range(s) \subseteq {s[1]} \cup Range(t)
  <2> SUFFICES ASSUME NEW j \in 1 .. n PROVE s[j] \in {s[1]} \cup Range(t)
    BY <1>1 DEF Range
  <2>1. CASE j = 1
    BY <2>1
  <2>2. CASE j # 1
    <3>1. j - 1 \in 1 .. n - 1 /\ (j - 1) + 1 = j
      BY <1>1, <2>2
    <3>2. t[j - 1] = s[j]
      BY <1>2, <3>1
    <3> QED
      BY <1>2, <3>1, <3>2 DEF Range
  <2> QED
    BY <2>1, <2>2
<1>5. Range(t) \subseteq Range(s) /\ s[1] \in Range(s)
  <2>1. \A j \in 1 .. n - 1 : t[j] \in Range(s)
    BY <1>1, <1>2, <1>3 DEF Range
  <2>2. 1 \in 1 .. n
    BY <1>1
  <2> QED
    BY <1>1, <1>2, <2>1, <2>2 DEF Range
<1>6. 1 \in DOMAIN s
  BY <1>1
<1> QED
  BY <1>1, <1>2, <1>3, <1>4, <1>5, <1>6 DEF n, t

\* Rows in order without the first of them.
LEMMA TailRises ==
    ASSUME NEW kd, NEW S, NEW s \in Seq(S), s # << >>, Rising(kd, s)
    PROVE  /\ Rising(kd, Tail(s))
           /\ Ahead({KeyOf(kd, Head(s))}, Waiting(kd, Tail(s)))
           /\ Waiting(kd, s) = {KeyOf(kd, Head(s))} \cup Waiting(kd, Tail(s))
<1> DEFINE t == Tail(s)
<1>1. /\ Head(s) = s[1] /\ 1 \in DOMAIN s /\ Range(s) = {Head(s)} \cup Range(t)
      /\ \A j \in DOMAIN t : t[j] = s[j + 1] /\ j + 1 \in DOMAIN s
      /\ t \in Seq(S)
  BY TailFacts
<1>2. \A j \in DOMAIN t : j \in Nat /\ j >= 1
  BY <1>1
<1> HIDE DEF t
<1>3. Rising(kd, t)
  <2> SUFFICES ASSUME NEW p \in DOMAIN t, NEW q \in DOMAIN t, p < q
               PROVE  Before(KeyOf(kd, t[p]), KeyOf(kd, t[q]))
    BY DEF Rising
  <2>1. p + 1 < q + 1
    BY <1>2
  <2> QED
    BY <1>1, <2>1 DEF Rising
<1>4. Ahead({KeyOf(kd, s[1])}, Waiting(kd, t))
  <2> SUFFICES ASSUME NEW q \in DOMAIN t PROVE Before(KeyOf(kd, s[1]), KeyOf(kd, t[q]))
    BY DEF Ahead, Waiting, Range
  <2>1. 1 < q + 1
    BY <1>2
  <2> QED
    BY <1>1, <2>1 DEF Rising
<1>5. Waiting(kd, s) = {KeyOf(kd, Head(s))} \cup Waiting(kd, t)
  BY <1>1 DEF Waiting
<1> QED
  BY <1>1, <1>3, <1>4, <1>5 DEF t

\* Rows in order with one more after them all.
LEMMA AppendRises ==
    ASSUME NEW kd, NEW S, NEW s \in Seq(S), NEW x \in S, Rising(kd, s),
           Ahead(Waiting(kd, s), {KeyOf(kd, x)})
    PROVE  /\ Rising(kd, Append(s, x))
           /\ Waiting(kd, Append(s, x)) = Waiting(kd, s) \cup {KeyOf(kd, x)}
<1> DEFINE t == Append(s, x)
           n == Len(s)
<1>1. /\ t \in Seq(S) /\ Len(t) = n + 1 /\ t[n + 1] = x
      /\ \A j \in 1 .. n : t[j] = s[j]
      /\ Range(t) = Range(s) \cup {x}
  BY AppendFacts
<1>2. n \in Nat /\ DOMAIN s = 1 .. n /\ DOMAIN t = 1 .. n + 1
  BY <1>1
<1> HIDE DEF t, n
<1>3. Rising(kd, t)
  <2> SUFFICES ASSUME NEW p \in 1 .. n + 1, NEW q \in 1 .. n + 1, p < q
               PROVE  Before(KeyOf(kd, t[p]), KeyOf(kd, t[q]))
    BY <1>2 DEF Rising
  <2>1. p \in 1 .. n
    BY <1>2
  <2>2. CASE q \in 1 .. n
    BY <1>1, <1>2, <2>1, <2>2 DEF Rising
  <2>3. CASE q = n + 1
    <3>1. KeyOf(kd, s[p]) \in Waiting(kd, s)
      BY <1>2, <2>1 DEF Waiting, Range
    <3> QED
      BY <1>1, <2>1, <2>3, <3>1 DEF Ahead
  <2> QED
    BY <1>2, <2>2, <2>3
<1>4. Waiting(kd, t) = Waiting(kd, s) \cup {KeyOf(kd, x)}
  BY <1>1 DEF Waiting
<1> QED
  BY <1>3, <1>4 DEF t

\* A row is pushed into the channel, and taken out of it.
LEMMA LinedPush ==
    ASSUME NEW kd, NEW S, NEW R, NEW b, NEW c \in Seq(S), NEW p \in Seq(R), p # << >>,
           NEW last, NEW x \in S, KeyOf(kd, x) = KeyOf(kd, Head(p)),
           Lined(kd, b, c, p, last)
    PROVE  /\ Lined(kd, b, Append(c, x), Tail(p), last)
           /\ UnderWay(kd, b, Append(c, x), Tail(p)) = UnderWay(kd, b, c, p)
<1> DEFINE k == KeyOf(kd, Head(p))
           d == Append(c, x)
           t == Tail(p)
<1>1. /\ Rising(kd, t) /\ Ahead({k}, Waiting(kd, t))
      /\ Waiting(kd, p) = {k} \cup Waiting(kd, t)
  BY TailRises DEF Lined
<1>2. Ahead(Waiting(kd, c), {k}) /\ Ahead(Waiting(kd, b), {k})
  BY <1>1 DEF Lined, Ahead
<1>3. Rising(kd, d) /\ Waiting(kd, d) = Waiting(kd, c) \cup {k}
  BY <1>2, AppendRises DEF Lined
<1> HIDE DEF k, d, t
<1>4. UnderWay(kd, b, d, t) = UnderWay(kd, b, c, p)
  BY <1>1, <1>3 DEF UnderWay
<1>5. Lined(kd, b, d, t, last)
  BY <1>1, <1>2, <1>3, <1>4 DEF Lined, Ahead
<1> QED
  BY <1>4, <1>5 DEF d, t

\* A row from the channel to the batch.
LEMMA LinedTake ==
    ASSUME NEW kd, NEW S, NEW b \in Seq(S), NEW c \in Seq(S), NEW p, c # << >>,
           NEW last, Lined(kd, b, c, p, last)
    PROVE  /\ Lined(kd, Append(b, Head(c)), Tail(c), p, last)
           /\ UnderWay(kd, Append(b, Head(c)), Tail(c), p) = UnderWay(kd, b, c, p)
<1> DEFINE k == KeyOf(kd, Head(c))
           d == Append(b, Head(c))
           t == Tail(c)
<1>0. Head(c) \in S
  BY TailFacts
<1>1. /\ Rising(kd, t) /\ Ahead({k}, Waiting(kd, t))
      /\ Waiting(kd, c) = {k} \cup Waiting(kd, t)
  BY TailRises DEF Lined
<1>2. Ahead(Waiting(kd, b), {k}) /\ Ahead({k}, Waiting(kd, p))
  BY <1>1 DEF Lined, Ahead
<1>3. Rising(kd, d) /\ Waiting(kd, d) = Waiting(kd, b) \cup {k}
  BY <1>0, <1>2, AppendRises DEF Lined
<1> HIDE DEF k, d, t
<1>4. UnderWay(kd, d, t, p) = UnderWay(kd, b, c, p)
  BY <1>1, <1>3 DEF UnderWay
<1>5. Lined(kd, d, t, p, last)
  BY <1>1, <1>2, <1>3, <1>4 DEF Lined, Ahead
<1> QED
  BY <1>4, <1>5 DEF d, t

\* A batch has been stored.
LEMMA LinedStore ==
    ASSUME NEW kd, NEW b, NEW c, NEW p, NEW last, Lined(kd, b, c, p, last)
    PROVE  Lined(kd, << >>, c, p, last)
BY NoRows DEF Lined, Rising, Ahead, UnderWay

\* Nothing is under way.
LEMMA LinedNone ==
    ASSUME NEW kd, NEW last
    PROVE  Lined(kd, << >>, << >>, << >>, last) /\ UnderWay(kd, << >>, << >>, << >>) = {}
BY NoRows DEF Lined, Rising, Ahead, UnderWay

\* The rows of the next log.
LEMMA PartsSequence ==
    ASSUME NEW kd \in Kinds, NEW seq
    PROVE  \E n \in Nat : DOMAIN PartsOf(kd, seq) = 1 .. n
<1>1. CASE kd = "fill" /\ seq \in Matches
  <2>0. seq \notin Dones
    BY <1>1, WorkersAssumption
  <2>1. PartsOf(kd, seq) = <<"taker", "maker">>
    BY <1>1, <2>0 DEF PartsOf
  <2>2. DOMAIN PartsOf(kd, seq) = 1 .. 2
    BY <2>1
  <2> QED
    BY <2>2
<1>2. CASE kd = "fill" /\ seq \in Dones
  <2>0. seq \notin Matches
    BY <1>2, WorkersAssumption
  <2>1. PartsOf(kd, seq) = <<"done">>
    BY <1>2, <2>0 DEF PartsOf
  <2>2. DOMAIN PartsOf(kd, seq) = 1 .. 1
    BY <2>1
  <2> QED
    BY <2>2
<1>3. CASE kd = "trade" /\ seq \in Matches
  <2>1. PartsOf(kd, seq) = <<"trade">>
    BY <1>3 DEF PartsOf
  <2>2. DOMAIN PartsOf(kd, seq) = 1 .. 1
    BY <2>1
  <2> QED
    BY <2>2
<1>4. CASE kd = "tick" /\ seq \in Matches
  <2>1. PartsOf(kd, seq) = [g \in Granularities |-> g]
    BY <1>4 DEF PartsOf
  <2> QED
    BY <2>1, Constants
<1>5. CASE seq \notin Matches /\ (kd = "fill" => seq \notin Dones)
  <2>1. PartsOf(kd, seq) = << >>
    BY <1>5 DEF PartsOf, Kinds
  <2>2. DOMAIN PartsOf(kd, seq) = 1 .. 0
    BY <2>1
  <2> QED
    BY <2>2
<1> QED
  BY <1>1, <1>2, <1>3, <1>4, <1>5 DEF Kinds

\* The rows the reader makes of a log.
LEMMA NewRows ==
    ASSUME NEW kd \in Kinds, NEW seq \in Nat \ {0}, NEW at \in Nat, NEW rows,
           rows = [i \in DOMAIN PartsOf(kd, seq) |->
                     [seq |-> seq, part |-> PartsOf(kd, seq)[i], at |-> at]]
    PROVE  /\ rows \in Seq(LogRows(kd)) /\ Rising(kd, rows)
           /\ Waiting(kd, rows) = {k \in Keys(kd) : k[1] = seq}
           /\ kd = "tick" /\ rows # << >> => seq \in Matches
<1>0. PICK n \in Nat : DOMAIN PartsOf(kd, seq) = 1 .. n
  BY PartsSequence
<1>1. ASSUME NEW i \in 1 .. n
      PROVE  /\ rows[i].seq = seq /\ rows[i].part = PartsOf(kd, seq)[i]
             /\ KeyOf(kd, rows[i]) = <<seq, i>> /\ <<seq, i>> \in Keys(kd)
             /\ rows[i] \in LogRows(kd)
             /\ kd = "tick" => seq \in Matches
  <2>1. rows[i] = [seq |-> seq, part |-> PartsOf(kd, seq)[i], at |-> at]
    BY <1>0
  <2>2. seq \in Logs
    <3>1. SUFFICES ASSUME seq \notin Logs PROVE FALSE
      OBVIOUS
    <3>2. PartsOf(kd, seq) = << >>
      BY <3>1 DEF PartsOf, Logs, Kinds
    <3>3. DOMAIN << >> = {}
      BY NoRows
    <3> QED
      BY <1>0, <3>2, <3>3
  <2>3. i \in DOMAIN PartsOf(kd, seq)
    BY <1>0
  <2>4. /\ PartsOf(kd, seq)[i] \in PartNames(kd) /\ No(kd, PartsOf(kd, seq)[i]) = i
        /\ kd = "tick" => seq \in Matches
    BY <2>2, <2>3, PartsFacts
  <2>5. KeyOf(kd, rows[i]) = <<seq, i>>
    BY <2>1, <2>4 DEF KeyOf
  <2>6. <<seq, i>> \in Keys(kd)
    BY <2>2, <2>3 DEF Keys
  <2>7. rows[i] \in [seq : Logs, part : PartNames(kd), at : Nat]
    BY <2>1, <2>2, <2>4
  <2>8. rows[i] \in LogRows(kd)
    BY <2>1, <2>4, <2>5, <2>6, <2>7 DEF LogRows
  <2> QED
    BY <2>1, <2>4, <2>5, <2>6, <2>8
<1>2. DOMAIN rows = 1 .. n
  BY <1>0
<1>3. rows \in Seq(LogRows(kd))
  <2>1. rows \in [1 .. n -> LogRows(kd)]
    <3>1. rows = [i \in 1 .. n |-> rows[i]]
      BY <1>0
    <3> QED
      BY <1>1, <3>1
  <2> QED
    BY <2>1, SeqDef
<1>4. Rising(kd, rows)
  <2> SUFFICES ASSUME NEW p \in 1 .. n, NEW q \in 1 .. n, p < q
               PROVE  Before(KeyOf(kd, rows[p]), KeyOf(kd, rows[q]))
    BY <1>2 DEF Rising
  <2>1. KeyOf(kd, rows[p]) = <<seq, p>> /\ KeyOf(kd, rows[q]) = <<seq, q>>
    BY <1>1
  <2> QED
    BY <2>1 DEF Before
<1>5. Waiting(kd, rows) = {<<seq, i>> : i \in 1 .. n}
  <2>1. Waiting(kd, rows) = {KeyOf(kd, rows[i]) : i \in 1 .. n}
    BY <1>2 DEF Waiting, Range
  <2> QED
    BY <1>1, <2>1
<1>6. \A k \in Keys(kd) : k[1] = seq => k \in {<<seq, i>> : i \in 1 .. n}
  BY <1>0, KeyFacts
<1>7. {k \in Keys(kd) : k[1] = seq} = {<<seq, i>> : i \in 1 .. n}
  <2>1. \A i \in 1 .. n : <<seq, i>> \in Keys(kd) /\ <<seq, i>>[1] = seq
    BY <1>1
  <2> QED
    BY <1>6, <2>1
<1>8. ASSUME kd = "tick", rows # << >>
      PROVE  seq \in Matches
  <2>1. Range(rows) # {}
    BY <1>3, <1>8, RangeFacts
  <2>2. \E i \in 1 .. n : TRUE
    BY <1>2, <2>1 DEF Range
  <2> QED
    BY <1>1, <1>8, <2>2
<1> QED
  BY <1>3, <1>4, <1>5, <1>7, <1>8

-----------------------------------------------------------------------------
(* What the actions do to types, to the rows under way and to what is stored. *)

\* What a log row of a tick maker is about.
LEMMA TickLogRow ==
    ASSUME NEW r \in LogRows("tick")
    PROVE  r.seq \in Matches /\ r.part \in Granularities /\ r.at \in Nat
           /\ KeyOf("tick", r) = <<r.seq, r.part>>
<1>1. /\ r \in [seq : Logs, part : PartNames("tick"), at : Nat]
      /\ KeyOf("tick", r) \in Keys("tick")
  BY DEF LogRows
<1>2. KeyOf("tick", r) = <<r.seq, r.part>>
  BY DEF KeyOf, No
<1>3. <<r.seq, r.part>>[1] \in Matches
  BY <1>1, <1>2, KeyFacts DEF Kinds
<1> QED
  BY <1>1, <1>2, <1>3 DEF PartNames

\* The keys of T and those under way are those of rows.
LEMMA InvKeys ==
    ASSUME TypeOK
    PROVE  /\ Stored(kind, table) \in SUBSET Keys(kind)
           /\ Waiting(kind, batch) \in SUBSET Keys(kind)
           /\ Waiting(kind, ch) \in SUBSET Keys(kind)
           /\ Waiting(kind, pushing) \in SUBSET Keys(kind)
           /\ UnderWay(kind, batch, ch, pushing) \in SUBSET Keys(kind)
<1>1. /\ kind \in Kinds /\ table \in Seq(Rows(kind)) /\ batch \in Seq(Rows(kind))
      /\ ch \in Seq(Rows(kind)) /\ pushing \in Seq(LogRows(kind))
  BY DEF TypeOK
<1>2. Stored(kind, table) \in SUBSET Keys(kind) /\ Waiting(kind, batch) \in SUBSET Keys(kind)
      /\ Waiting(kind, ch) \in SUBSET Keys(kind)
  BY <1>1, KeysOfRows
<1>3. Waiting(kind, pushing) \in SUBSET Keys(kind)
  BY <1>1, KeysOfLogRows
<1> QED
  BY <1>2, <1>3 DEF UnderWay

\* The tick that is pushed.
LEMMA TickPushed ==
    ASSUME Inv, kind = "tick", pushing # << >>,
           NEW row, row = Head(pushing),
           NEW old, old = ticks[row.part],
           NEW x, x = TickAfter(old, row)
    PROVE  /\ row \in LogRows("tick") /\ row.seq = lastSeq
           /\ row.seq \in Matches /\ row.part \in Granularities
           /\ x \in TickRows /\ x.part = row.part /\ x.seq = row.seq
           /\ KeyOf("tick", x) = KeyOf("tick", row)
           /\ KeyOf("tick", row) = <<row.seq, row.part>>
           /\ old # NoTick => old \in TickRows /\ old.part = row.part /\ old.time <= x.time
           /\ old # NoTick /\ old.time = x.time => x.logs = Append(old.logs, row.seq)
           /\ ~ (old # NoTick /\ old.time = x.time) => x.logs = <<row.seq>>
<1> DEFINE g == row.part
           time == TickTime[row.part][row.seq]
<1>1. /\ pushing \in Seq(LogRows("tick")) /\ TicksOK
      /\ ticks \in [Granularities -> TickRows \cup {NoTick}]
      /\ \A h \in Granularities : ticks[h] # NoTick => ticks[h].part = h
  BY DEF Inv, TypeOK
<1>2. row \in LogRows("tick") /\ row \in Range(pushing)
  BY <1>1, TailFacts
<1>3. row.seq \in Matches /\ g \in Granularities /\ row.at \in Nat
      /\ KeyOf("tick", row) = <<row.seq, g>>
  BY <1>2, TickLogRow
<1>4. row.seq = lastSeq
  <2>1. <<row.seq, g>> \in Waiting(kind, pushing)
    BY <1>2, <1>3 DEF Waiting
  <2>2. <<row.seq, g>>[1] = lastSeq
    BY <2>1 DEF Inv, Lined
  <2> QED
    BY <2>2
<1>5. time \in Nat /\ row.seq \in Nat
  BY <1>3, Constants
<1>6. old # NoTick => old \in TickRows /\ old.part = g
  BY <1>1, <1>3
\* The logs of the current tick are not later.
<1>7. ASSUME old # NoTick
      PROVE  /\ \A m \in Range(old.logs) : m <= row.seq
             /\ old.time <= time /\ old.time \in Nat
  <2>1. /\ old.seq \in Range(old.logs) /\ old.seq \in Matches /\ old.time \in Nat
        /\ \A m \in Range(old.logs) : TickTime[g][m] = old.time
        /\ Range(old.logs) \subseteq Matches
    <3>1. old \in TickRows /\ old.part = g
      BY <1>6, <1>7
    <3>2. old.logs \in Seq(Matches)
      BY <3>1 DEF TickRows
    <3> QED
      BY <3>1, <3>2, RangeFacts DEF TickRows
  <2>2. ASSUME NEW m \in Range(old.logs)
        PROVE  m <= row.seq
    <3>1. <<m, g>> \in Counted("tick", old)
      BY <1>6, <1>7, <2>2 DEF Counted, No
    <3>2. <<m, g>> \in Stored("tick", table) \cup Waiting("tick", batch) \cup Waiting("tick", ch)
      BY <1>1, <1>3, <1>7, <3>1 DEF TicksOK, Newest
    <3>3. CASE <<m, g>> \in Stored("tick", table)
      <4>1. <<m, g>>[1] <= lastSeq
        BY <1>1, <3>3 DEF TicksOK
      <4> QED
        BY <1>4, <4>1
    <3>4. CASE <<m, g>> \in UnderWay("tick", batch, ch, pushing)
      <4>1. <<m, g>>[1] <= lastSeq
        BY <3>4 DEF Inv, Lined
      <4> QED
        BY <1>4, <4>1
    <3> QED
      BY <3>2, <3>3, <3>4 DEF UnderWay
  <2>3. old.time <= time
    <3>1. old.seq <= row.seq
      BY <2>1, <2>2
    <3>2. TickTime[g][old.seq] <= TickTime[g][row.seq]
      BY <1>3, <2>1, <3>1 DEF Inv, ClockForward
    <3> QED
      BY <2>1, <3>2
  <2> QED
    BY <2>1, <2>2, <2>3
<1>8. CASE old # NoTick /\ old.time = time
  <2>1. x = [old EXCEPT !.logs = Append(@, row.seq), !.seq = row.seq, !.at = row.at]
    BY <1>8 DEF TickAfter
  <2>2. /\ old \in [part : Granularities, time : Nat, logs : Seq(Matches),
                    seq : Matches, at : Nat]
        /\ \A m \in Range(old.logs) : TickTime[old.part][m] = old.time
    BY <1>6, <1>8 DEF TickRows
  <2>3. x = [part |-> old.part, time |-> old.time, logs |-> Append(old.logs, row.seq),
             seq |-> row.seq, at |-> row.at]
    BY <2>1, <2>2
  <2>4. old.logs \in Seq(Matches) /\ old.part = g
    BY <1>6, <1>8, <2>2
  <2>5. Append(old.logs, row.seq) \in Seq(Matches)
        /\ Range(Append(old.logs, row.seq)) = Range(old.logs) \cup {row.seq}
    BY <1>3, <2>4, AppendFacts
  <2>6. x \in [part : Granularities, time : Nat, logs : Seq(Matches),
               seq : Matches, at : Nat]
    <3>1. old.part \in Granularities /\ old.time \in Nat
      BY <2>2
    <3>2. row.seq \in Matches /\ row.at \in Nat
      BY <1>3
    <3>3. Append(old.logs, row.seq) \in Seq(Matches)
      BY <2>5
    <3>4. \A p \in Granularities, t \in Nat, l \in Seq(Matches), m \in Matches, a \in Nat :
            [part |-> p, time |-> t, logs |-> l, seq |-> m, at |-> a]
              \in [part : Granularities, time : Nat, logs : Seq(Matches),
                  seq : Matches, at : Nat]
      OBVIOUS
    <3>5. [part |-> old.part, time |-> old.time, logs |-> Append(old.logs, row.seq),
             seq |-> row.seq, at |-> row.at]
              \in [part : Granularities, time : Nat, logs : Seq(Matches),
                  seq : Matches, at : Nat]
      BY <3>1, <3>2, <3>3, <3>4
    <3> QED
      BY <2>3, <3>5
  <2>7. x.part = g /\ x.time = time /\ x.seq = row.seq /\ x.logs = Append(old.logs, row.seq)
    <3>1. /\ x.part = old.part /\ x.time = old.time /\ x.seq = row.seq
          /\ x.logs = Append(old.logs, row.seq)
      BY <2>3
    <3> HIDE DEF g, time
    <3> QED
      BY <1>8, <2>4, <3>1, Zenon
  <2>8. \A m \in Range(x.logs) : TickTime[x.part][m] = x.time /\ m <= x.seq
    <3>1. \A m \in Range(old.logs) : TickTime[g][m] = time /\ m <= row.seq
      BY <1>7, <1>8, <2>2, <2>4
    <3>2. TickTime[g][row.seq] = time /\ row.seq <= row.seq
      BY <1>5
    <3> HIDE DEF g, time
    <3> QED
      BY <2>5, <2>7, <3>1, <3>2
  <2>9. x \in TickRows
    BY <2>5, <2>6, <2>7, <2>8 DEF TickRows
  <2>10. KeyOf("tick", x) = KeyOf("tick", row)
    BY <2>7 DEF KeyOf
  <2>11. old.time <= x.time /\ old.time = x.time
    BY <1>7, <1>8, <2>7
  <2> HIDE DEF g, time
  <2>12. x.part = row.part
    BY <2>7 DEF g
  <2>13. KeyOf("tick", row) = <<row.seq, row.part>> /\ row.part \in Granularities
    BY <1>3 DEF g
  <2>14. old \in TickRows /\ old.part = row.part
    BY <1>6, <1>8 DEF g
  <2> QED
    BY <1>2, <1>3, <1>4, <1>8, <2>7, <2>9, <2>10, <2>11, <2>12, <2>13, <2>14
<1>9. CASE ~ (old # NoTick /\ old.time = time)
  <2>1. old.time # time
    <3>1. NoTick.time = -1
      BY DEF NoTick
    <3> QED
      BY <1>5, <1>9, <3>1
  <2>2. x = [part |-> g, time |-> time, logs |-> <<row.seq>>, seq |-> row.seq, at |-> row.at]
    BY <2>1 DEF TickAfter
  <2>3. /\ x.part = g /\ x.time = time /\ x.seq = row.seq /\ x.logs = <<row.seq>>
        /\ x \in [part : Granularities, time : Nat, logs : Seq(Matches),
                  seq : Matches, at : Nat]
    BY <1>3, <1>5, <2>2
  <2>4. Range(x.logs) = {row.seq}
    <3>1. \A e : DOMAIN <<e>> = {1} /\ <<e>>[1] = e
      OBVIOUS
    <3>2. x.logs = <<row.seq>>
      BY <2>3
    <3> HIDE DEF g, time
    <3>3. DOMAIN x.logs = {1} /\ x.logs[1] = row.seq
      BY <3>1, <3>2, Zenon
    <3> QED
      BY <3>3 DEF Range
  <2>5. x \in TickRows
    <3>1. \A m \in Range(x.logs) : TickTime[x.part][m] = x.time /\ m <= x.seq
      <4>1. TickTime[g][row.seq] = time /\ row.seq <= row.seq
        BY <1>5
      <4> HIDE DEF g, time
      <4> QED
        BY <2>3, <2>4, <4>1
    <3>2. row.seq \in Range(x.logs)
      BY <2>4
    <3> HIDE DEF g, time
    <3> QED
      BY <2>3, <2>4, <3>1, <3>2 DEF TickRows
  <2>6. KeyOf("tick", x) = KeyOf("tick", row)
    BY <2>3 DEF KeyOf
  <2> QED
    BY <1>2, <1>3, <1>4, <1>6, <1>7, <1>9, <2>3, <2>5, <2>6
<1> QED
  BY <1>8, <1>9

\* What the reader does.
LEMMA ReadFacts ==
    ASSUME Inv, Read
    PROVE  /\ offset' \in Nat /\ pushing = << >>
           /\ \/ lastSeq' = lastSeq /\ pushing' = pushing /\ lastSeq # 0
              \/ /\ lastSeq' = lastSeq + 1
                 /\ pushing' \in Seq(LogRows(kind)) /\ Rising(kind, pushing')
                 /\ Waiting(kind, pushing') = {k \in Keys(kind) : k[1] = lastSeq + 1}
                 /\ kind = "tick" /\ pushing' # << >> => lastSeq + 1 \in Matches
<1> DEFINE seq == Topic[offset + 1]
<1>1. /\ kind \in Kinds /\ lastSeq \in Nat /\ offset \in Nat
      /\ lastSeq = 0 => offset = 0
  BY DEF Inv, TypeOK
<1>2. pushing = << >> /\ offset < Len(Topic) /\ offset' = offset + 1
  BY DEF Read
<1>3. seq \in Nat \ {0} /\ (offset = 0 => seq = 1)
  <2>1. Topic \in Seq(Nat \ {0}) /\ (Topic # << >> => Head(Topic) = 1)
    BY WorkersAssumption
  <2>2. offset + 1 \in 1 .. Len(Topic)
    BY <1>1, <1>2, <2>1
  <2>3. Topic[offset + 1] \in Nat \ {0}
    BY <2>1, <2>2
  <2>4. Topic # << >>
    BY <2>1, <2>2, NoRows
  <2>5. Head(Topic) = Topic[1]
    BY <2>1, <2>4
  <2>6. offset = 0 => Topic[offset + 1] = 1
    BY <2>1, <2>4, <2>5
  <2> QED
    BY <2>3, <2>6
<1>4. CASE seq <= lastSeq
  <2>1. lastSeq' = lastSeq /\ pushing' = pushing
    BY <1>4 DEF Read
  <2> QED
    BY <1>1, <1>2, <1>3, <1>4, <2>1
<1>5. CASE ~ (seq <= lastSeq)
  <2>1. /\ lastSeq = 0 \/ seq = lastSeq + 1
        /\ lastSeq' = seq
        /\ pushing' = [i \in DOMAIN Parts(seq) |->
                         [seq |-> seq, part |-> Parts(seq)[i], at |-> offset]]
    BY <1>5 DEF Read
  <2>2. seq = lastSeq + 1
    BY <1>1, <1>3, <2>1
  <2>3. Parts(seq) = PartsOf(kind, seq)
    BY PartsOfKind
  <2> HIDE DEF seq
  <2>4. /\ pushing' \in Seq(LogRows(kind)) /\ Rising(kind, pushing')
        /\ Waiting(kind, pushing') = {k \in Keys(kind) : k[1] = seq}
        /\ kind = "tick" /\ pushing' # << >> => seq \in Matches
    BY <1>1, <1>3, <2>1, <2>3, NewRows
  <2> QED
    BY <1>1, <1>2, <2>1, <2>2, <2>4
<1> QED
  BY <1>4, <1>5

\* The reader: the keys of the next log are under way from now on.
LEMMA ReadKeeps ==
    ASSUME Inv, Read
    PROVE  TypeOK' /\ Lined(kind, batch, ch, pushing, lastSeq)' /\ Kept'
<1>0. TypeOK /\ Lined(kind, batch, ch, pushing, lastSeq) /\ Kept /\ kind \in Kinds
      /\ lastSeq \in Nat
  BY DEF Inv, TypeOK
<1>1. UNCHANGED <<kind, ch, batch, storing, ticks, table, faults, torn, repeated>>
  BY DEF Read
<1>2. CASE lastSeq' = lastSeq /\ pushing' = pushing /\ lastSeq # 0
  <2>1. TypeOK'
    BY <1>0, <1>1, <1>2, ReadFacts DEF TypeOK
  <2>2. Lined(kind, batch, ch, pushing, lastSeq)'
    BY <1>0, <1>1, <1>2
  <2>3. Kept'
    BY <1>0, <1>1, <1>2 DEF Kept
  <2> QED
    BY <2>1, <2>2, <2>3
<1>3. CASE /\ lastSeq' = lastSeq + 1
           /\ pushing' \in Seq(LogRows(kind)) /\ Rising(kind, pushing')
           /\ Waiting(kind, pushing') = {k \in Keys(kind) : k[1] = lastSeq + 1}
  <2>0. pushing = << >> /\ Waiting(kind, pushing) = {}
    BY ReadFacts, NoRows
  <2>1. TypeOK'
    BY <1>0, <1>1, <1>3, ReadFacts DEF TypeOK
  <2>2. /\ \A k \in UnderWay(kind, batch, ch, pushing) : k[1] <= lastSeq /\ k[1] \in Nat
        /\ Waiting(kind, batch) \cup Waiting(kind, ch) = UnderWay(kind, batch, ch, pushing)
    BY <1>0, <2>0, InvKeys, KeyFacts DEF Lined, UnderWay
  <2>3. \A k \in Waiting(kind, pushing') : k[1] = lastSeq + 1
    BY <1>3
  <2>4. UnderWay(kind, batch, ch, pushing') =
            UnderWay(kind, batch, ch, pushing) \cup {k \in Keys(kind) : k[1] = lastSeq + 1}
    BY <1>3, <2>0 DEF UnderWay
  <2>5. Lined(kind, batch, ch, pushing', lastSeq + 1)
    <3>1. Rising(kind, batch) /\ Rising(kind, ch)
          /\ Ahead(Waiting(kind, batch), Waiting(kind, ch))
      BY <1>0 DEF Lined
    <3>2. \A k \in UnderWay(kind, batch, ch, pushing), l \in Waiting(kind, pushing') : Before(k, l)
      BY <1>0, <2>2, <2>3 DEF Before
    <3>3. Ahead(Waiting(kind, batch), Waiting(kind, pushing'))
          /\ Ahead(Waiting(kind, ch), Waiting(kind, pushing'))
      BY <2>2, <3>2 DEF Ahead
    <3>4. \A k \in UnderWay(kind, batch, ch, pushing') : k[1] <= lastSeq + 1
      BY <1>0, <2>2, <2>4
    <3> QED
      BY <1>3, <2>3, <3>1, <3>3, <3>4 DEF Lined
  <2>6. Whole(kind, Stored(kind, table), UnderWay(kind, batch, ch, pushing'), lastSeq + 1, torn)
    BY <1>0, <2>4, InvKeys, WholeReads DEF Kept
  <2> QED
    BY <1>1, <1>3, <2>1, <2>5, <2>6 DEF Kept
<1> QED
  BY <1>2, <1>3, ReadFacts

\* The observer: a row moves on with its key.
LEMMA PushKeeps ==
    ASSUME Inv, Push
    PROVE  TypeOK' /\ Lined(kind, batch, ch, pushing, lastSeq)' /\ Kept'
<1> DEFINE row == Head(pushing)
           x == TickAfter(ticks[row.part], row)
           new == IF kind = "tick" THEN x ELSE row
<1>0. /\ TypeOK /\ Lined(kind, batch, ch, pushing, lastSeq) /\ Kept /\ kind \in Kinds
      /\ pushing \in Seq(LogRows(kind)) /\ ch \in Seq(Rows(kind)) /\ pushing # << >>
  BY DEF Inv, TypeOK, Push
<1>1. UNCHANGED <<kind, offset, lastSeq, batch, storing, table, faults, torn, repeated>>
      /\ pushing' = Tail(pushing)
  BY DEF Push
<1>2. ch' = Append(ch, new)
  BY DEF Push
<1>3. new \in Rows(kind) /\ KeyOf(kind, new) = KeyOf(kind, row)
  <2>1. CASE kind = "tick"
    BY <1>0, <2>1, TickPushed DEF Rows
  <2>2. CASE kind # "tick"
    BY <1>0, <2>2, TailFacts DEF Rows
  <2> QED
    BY <2>1, <2>2
<1>4. ticks' \in [Granularities -> TickRows \cup {NoTick}]
      /\ \A g \in Granularities : ticks'[g] # NoTick => ticks'[g].part = g
  <2>1. CASE kind = "tick"
    <3>1. ticks' = [ticks EXCEPT ![row.part] = x]
      BY <2>1 DEF Push
    <3>2. x \in TickRows /\ x.part = row.part
      BY <1>0, <2>1, TickPushed
    <3> HIDE DEF x
    <3> QED
      BY <1>0, <3>1, <3>2 DEF TypeOK
  <2>2. CASE kind # "tick"
    <3>1. ticks' = ticks
      BY <2>2 DEF Push
    <3> QED
      BY <1>0, <3>1 DEF TypeOK
  <2> QED
    BY <2>1, <2>2
<1> HIDE DEF new, x
<1>5. Append(ch, new) \in Seq(Rows(kind)) /\ Tail(pushing) \in Seq(LogRows(kind))
  BY <1>0, <1>3, AppendFacts, TailFacts
<1>6. TypeOK'
  BY <1>0, <1>1, <1>2, <1>4, <1>5 DEF TypeOK
<1>7. /\ Lined(kind, batch, ch', pushing', lastSeq)
      /\ UnderWay(kind, batch, ch', pushing') = UnderWay(kind, batch, ch, pushing)
  BY <1>0, <1>1, <1>2, <1>3, LinedPush
<1> QED
  BY <1>0, <1>1, <1>6, <1>7 DEF Kept

\* The flusher: a row moves on.
LEMMA TakeKeeps ==
    ASSUME Inv, TakeRow
    PROVE  TypeOK' /\ Lined(kind, batch, ch, pushing, lastSeq)' /\ Kept'
<1>0. /\ TypeOK /\ Lined(kind, batch, ch, pushing, lastSeq) /\ Kept /\ kind \in Kinds
      /\ batch \in Seq(Rows(kind)) /\ ch \in Seq(Rows(kind)) /\ ch # << >>
  BY DEF Inv, TypeOK, TakeRow
<1>1. /\ UNCHANGED <<kind, offset, lastSeq, pushing, ticks, table, faults, torn, repeated>>
      /\ ch' = Tail(ch) /\ batch' = Append(batch, Head(ch)) /\ storing' \in BOOLEAN
  BY DEF TakeRow
<1>2. Append(batch, Head(ch)) \in Seq(Rows(kind)) /\ Tail(ch) \in Seq(Rows(kind))
  BY <1>0, TailFacts, AppendFacts
<1>3. TypeOK'
  BY <1>0, <1>1, <1>2 DEF TypeOK
<1>4. /\ Lined(kind, batch', ch', pushing, lastSeq)
      /\ UnderWay(kind, batch', ch', pushing) = UnderWay(kind, batch, ch, pushing)
  BY <1>0, <1>1, LinedTake
<1> QED
  BY <1>0, <1>1, <1>3, <1>4 DEF Kept

\* What an insert does to the keys of the table.
LEMMA StoreFacts ==
    ASSUME Inv, NEW out, out = InsertedAll(table, batch)
    PROVE  /\ out \in Seq(Rows(kind))
           /\ Stored(kind, out) = Stored(kind, table) \cup Waiting(kind, batch)
<1>0. /\ TypeOK /\ Lined(kind, batch, ch, pushing, lastSeq) /\ kind \in Kinds
      /\ table \in Seq(Rows(kind)) /\ batch \in Seq(Rows(kind)) /\ ch \in Seq(Rows(kind))
  BY DEF Inv, TypeOK
<1>1. CASE kind = "tick"
  <2>1. /\ table \in Seq(TickRows) /\ batch \in Seq(TickRows) /\ ch \in Seq(TickRows)
        /\ TicksGrow(table, batch, ch) /\ TicksKnown(Stored("tick", table), batch, ch)
    BY <1>0, <1>1 DEF Inv, TicksOK, Rows
  <2> QED
    BY <1>1, <2>1, TicksAfterStore DEF Rows
<1>2. CASE kind # "tick"
  <2>1. table \in Seq(LogRows(kind)) /\ batch \in Seq(LogRows(kind)) /\ Rising(kind, batch)
        /\ kind \in {"fill", "trade"}
    BY <1>0, <1>2 DEF Rows, Lined, Kinds
  <2> QED
    BY <1>2, <2>1, RowsStored DEF Rows
<1> QED
  BY <1>1, <1>2

\* The flusher: the keys of the batch are stored, perhaps not for the last time.
LEMMA StoreKeeps ==
    ASSUME Inv, StoreRows \/ StoreUnacknowledged
    PROVE  TypeOK' /\ Lined(kind, batch, ch, pushing, lastSeq)' /\ Kept'
<1> DEFINE B == Waiting(kind, batch)
           V == Waiting(kind, ch) \cup Waiting(kind, pushing)
           T == Stored(kind, table)
<1>0. /\ TypeOK /\ Lined(kind, batch, ch, pushing, lastSeq) /\ Kept /\ kind \in Kinds
      /\ lastSeq \in Nat
  BY DEF Inv, TypeOK
<1>1. table' = InsertedAll(table, batch)
  BY DEF StoreRows, StoreUnacknowledged, InsertedAll
<1>2. table' \in Seq(Rows(kind)) /\ Stored(kind, table') = T \cup B
  BY <1>1, StoreFacts
<1>3. UnderWay(kind, batch, ch, pushing) = B \cup V
  BY DEF UnderWay
<1>4. Whole(kind, T \cup B, V, lastSeq, torn) /\ Whole(kind, T \cup B, B \cup V, lastSeq, torn)
  <2>1. Ahead(B, V) /\ \A k \in B \cup V : k[1] <= lastSeq
    BY <1>0, <1>3 DEF Lined, Ahead
  <2>2. T \in SUBSET Keys(kind) /\ B \in SUBSET Keys(kind) /\ V \in SUBSET Keys(kind)
    BY <1>0, InvKeys
  <2>3. Whole(kind, T, B \cup V, lastSeq, torn)
    BY <1>0, <1>3 DEF Kept
  <2> HIDE DEF T, B, V
  <2> QED
    BY <1>0, <2>1, <2>2, <2>3, WholeStores
<1>5. CASE StoreRows
  <2>1. /\ UNCHANGED <<kind, offset, lastSeq, pushing, ch, ticks, faults, torn, repeated>>
        /\ batch' = << >> /\ storing' = FALSE
    BY <1>5 DEF StoreRows
  <2>2. TypeOK'
    BY <1>0, <1>2, <2>1, NoRows DEF TypeOK
  <2>3. Lined(kind, batch', ch, pushing, lastSeq)
    BY <1>0, <2>1, LinedStore
  <2>4. UnderWay(kind, batch', ch, pushing) = V
    BY <2>1, NoRows DEF UnderWay
  <2>5. Whole(kind, Stored(kind, table'), UnderWay(kind, batch', ch, pushing), lastSeq, torn)
    BY <1>2, <1>4, <2>4
  <2> QED
    BY <2>1, <2>2, <2>3, <2>5 DEF Kept
<1>6. CASE StoreUnacknowledged
  <2>1. /\ UNCHANGED <<kind, memory, torn>>
        /\ faults' = faults + 1 /\ repeated' = TRUE
    BY <1>6 DEF StoreUnacknowledged
  <2>2. UNCHANGED <<kind, offset, lastSeq, pushing, ch, batch, storing, ticks, torn>>
    BY <2>1 DEF memory
  <2>3. TypeOK'
    BY <1>0, <1>2, <2>1, <2>2 DEF TypeOK
  <2>4. Whole(kind, Stored(kind, table'), UnderWay(kind, batch, ch, pushing), lastSeq, torn)
    BY <1>2, <1>3, <1>4
  <2> QED
    BY <1>0, <2>2, <2>3, <2>4 DEF Kept
<1> QED
  BY <1>5, <1>6

-----------------------------------------------------------------------------
(* Crash and restart. *)

\* What the worker knows when it starts again.
LEMMA CrashFacts ==
    ASSUME Inv, Crash,
           NEW T, T = Stored(kind, table)
    PROVE  /\ UNCHANGED <<kind, table, repeated>>
           /\ pushing' = << >> /\ ch' = << >> /\ batch' = << >> /\ storing' = FALSE
           /\ faults' \in Nat /\ torn \subseteq torn' /\ torn' \subseteq Matches
           /\ \A m \in Matches : \A i, j \in DOMAIN PartsOf(kind, m) :
                 <<m, i>> \in T /\ <<m, j>> \notin T => m \in torn'
           /\ lastSeq' \in Nat /\ offset' \in Nat /\ (lastSeq' = 0 => offset' = 0)
           /\ table = << >> => lastSeq' = 0
           /\ table # << >> =>
                /\ \E k \in T : k[1] = lastSeq' /\ ResumesAfter(kind, T, k)
                /\ kind # "tick" => lastSeq' = table[Len(table)].seq
           /\ kind = "tick" => ticks' = [g \in Granularities |-> LastTick(g)]
           /\ kind # "tick" => ticks' = ticks
<1>0. /\ TypeOK /\ kind \in Kinds /\ table \in Seq(Rows(kind))
      /\ faults \in Nat /\ torn \subseteq Matches
  BY DEF Inv, TypeOK
<1>1. /\ UNCHANGED <<kind, table, repeated>>
      /\ pushing' = << >> /\ ch' = << >> /\ batch' = << >> /\ storing' = FALSE
      /\ faults' \in Nat /\ torn \subseteq torn' /\ torn' \subseteq Matches
      /\ kind = "tick" => ticks' = [g \in Granularities |-> LastTick(g)]
      /\ kind # "tick" => ticks' = ticks
  BY <1>0 DEF Crash
<1>2. ASSUME NEW m \in Matches, NEW i \in DOMAIN PartsOf(kind, m),
             NEW j \in DOMAIN PartsOf(kind, m), <<m, i>> \in T, <<m, j>> \notin T
      PROVE  m \in torn'
  <2>1. m \in Logs
    BY DEF Logs
  <2>2. Count(m, PartsOf(kind, m)[i]) > 0 /\ ~ (Count(m, PartsOf(kind, m)[j]) > 0)
    BY <1>0, <1>2, <2>1, CountStored
  <2>3. Count(m, PartsOf(kind, m)[j]) = 0
    <3>1. Count(m, PartsOf(kind, m)[j]) \in Nat
      BY <1>0, CountFacts
    <3> QED
      BY <2>2, <3>1
  <2>4. StoredInPart(m)
    BY <2>2, <2>3, PartsOfKind DEF StoredInPart
  <2> QED
    BY <2>4 DEF Crash
<1>3. CASE table = << >>
  <2>1. ResumeAfter = << >>
    BY <1>3 DEF ResumeAfter
  <2>2. lastSeq' = 0 /\ offset' = 0
    BY <2>1 DEF Crash
  <2> QED
    BY <1>1, <1>2, <1>3, <2>2
<1>4. CASE table # << >>
  <2> DEFINE row == Head(ResumeAfter)
  <2>1. kind = "tick" => OneRowEach(table) /\ ClockForward
    BY DEF Inv, TicksOK, TicksGrow
  <2>2. kind # "tick" => \A k \in Stored(kind, table) : k[1] <= table[Len(table)].seq
    BY DEF Inv, RowsOK
  <2>3. /\ ResumeAfter # << >> /\ row \in Rows(kind)
        /\ ResumesAfter(kind, T, KeyOf(kind, row))
    BY <1>0, <1>4, <2>1, <2>2, ResumeFacts
  <2>4. lastSeq' = row.seq /\ offset' = IF row.at > 0 THEN row.at + 1 ELSE 0
    BY <2>3 DEF Crash
  <2>5. kind # "tick" => row = table[Len(table)]
    BY <1>4 DEF ResumeAfter, Last
  <2> HIDE DEF row
  <2>6. KeyOf(kind, row)[1] = row.seq /\ KeyOf(kind, row) \in Keys(kind)
    BY <1>0, <2>3, RowKeys
  <2>7. row.seq \in Nat \ {0}
    BY <1>0, <2>6, KeyFacts
  <2>8. row.at \in Nat
    BY <2>3 DEF Rows, TickRows, LogRows
  <2>9. KeyOf(kind, row) \in T
    BY <2>3 DEF ResumesAfter
  <2>10. lastSeq' \in Nat /\ offset' \in Nat /\ lastSeq' # 0
    BY <2>4, <2>7, <2>8
  <2>11. \E k \in T : k[1] = lastSeq' /\ ResumesAfter(kind, T, k)
    BY <2>3, <2>4, <2>6, <2>9
  <2>12. kind # "tick" => lastSeq' = table[Len(table)].seq
    BY <2>4, <2>5
  <2> QED
    BY <1>1, <1>2, <1>4, <2>10, <2>11, <2>12
<1> QED
  BY <1>3, <1>4

\* What is left of the ticks in memory.
LEMMA CrashTicks ==
    ASSUME Inv, Crash, kind = "tick"
    PROVE  /\ ticks' \in [Granularities -> TickRows \cup {NoTick}]
           /\ \A g \in Granularities :
                 /\ ticks'[g] = LastTick(g)
                 /\ ticks'[g] = NoTick <=> \A r \in Range(table) : r.part # g
                 /\ ticks'[g] # NoTick =>
                      /\ ticks'[g] \in Range(table) /\ ticks'[g] \in TickRows
                      /\ ticks'[g].part = g
                      /\ \A r \in Range(table) : r.part = g =>
                            /\ r.time <= ticks'[g].time
                            /\ r.time = ticks'[g].time => r = ticks'[g]
<1>1. table \in Seq(TickRows) /\ OneRowEach(table) /\ ClockForward
  BY DEF Inv, TypeOK, Rows, TicksOK, TicksGrow
<1>2. ticks' = [g \in Granularities |-> LastTick(g)]
  BY CrashFacts
<1>3. ASSUME NEW g \in Granularities
      PROVE  /\ ticks'[g] = LastTick(g)
             /\ ticks'[g] = NoTick <=> \A r \in Range(table) : r.part # g
             /\ ticks'[g] # NoTick =>
                  /\ ticks'[g] \in Range(table) /\ ticks'[g] \in TickRows
                  /\ ticks'[g].part = g
                  /\ \A r \in Range(table) : r.part = g =>
                        /\ r.time <= ticks'[g].time
                        /\ r.time = ticks'[g].time => r = ticks'[g]
  <2>1. ticks'[g] = LastTick(g)
    BY <1>2, <1>3
  <2>2. Range(table) \subseteq TickRows
    BY <1>1, RangeFacts
  <2> QED
    BY <1>1, <1>3, <2>1, <2>2, LastTickFacts
<1>4. ticks' \in [Granularities -> TickRows \cup {NoTick}]
  <2>1. \A g \in Granularities : LastTick(g) \in TickRows \cup {NoTick}
    BY <1>3
  <2> QED
    BY <1>2, <2>1
<1> QED
  BY <1>3, <1>4

\* A restart: nothing is under way, and the worker reads on after a row it finds.
LEMMA CrashKeeps ==
    ASSUME Inv, Crash
    PROVE  TypeOK' /\ Lined(kind, batch, ch, pushing, lastSeq)' /\ Kept'
<1> DEFINE T == Stored(kind, table)
<1>0. /\ TypeOK /\ Kept /\ kind \in Kinds /\ table \in Seq(Rows(kind))
      /\ lastSeq \in Nat
  BY DEF Inv, TypeOK
<1>1. /\ UNCHANGED <<kind, table, repeated>>
      /\ pushing' = << >> /\ ch' = << >> /\ batch' = << >> /\ storing' = FALSE
      /\ faults' \in Nat /\ torn \subseteq torn' /\ torn' \subseteq Matches
      /\ \A m \in Matches : \A i, j \in DOMAIN PartsOf(kind, m) :
            <<m, i>> \in T /\ <<m, j>> \notin T => m \in torn'
      /\ lastSeq' \in Nat /\ offset' \in Nat /\ (lastSeq' = 0 => offset' = 0)
      /\ table = << >> => lastSeq' = 0
      /\ table # << >> => \E k \in T : k[1] = lastSeq' /\ ResumesAfter(kind, T, k)
      /\ kind # "tick" => ticks' = ticks
  BY CrashFacts
<1>2. /\ ticks' \in [Granularities -> TickRows \cup {NoTick}]
      /\ \A g \in Granularities : ticks'[g] # NoTick => ticks'[g].part = g
  <2>1. CASE kind = "tick"
    BY <2>1, CrashTicks
  <2>2. CASE kind # "tick"
    BY <1>0, <1>1, <2>2 DEF TypeOK
  <2> QED
    BY <2>1, <2>2
<1>3. TypeOK'
  BY <1>0, <1>1, <1>2, NoRows DEF TypeOK
<1>4. Lined(kind', batch', ch', pushing', lastSeq') /\ UnderWay(kind', batch', ch', pushing') = {}
  BY <1>1, LinedNone
<1>5. Whole(kind, T, {}, lastSeq', torn')
  <2>1. CASE table = << >>
    <3>1. T = {}
      BY <2>1, NoRows
    <3> QED
      BY <1>0, <1>1, <2>1, <3>1, WholeAtFirst
  <2>2. CASE table # << >>
    <3>1. PICK k \in T : k[1] = lastSeq' /\ ResumesAfter(kind, T, k)
      BY <1>1, <2>2
    <3>2. T \in SUBSET Keys(kind) /\ UnderWay(kind, batch, ch, pushing) \in SUBSET Keys(kind)
      BY <1>0, InvKeys
    <3>3. Whole(kind, T, UnderWay(kind, batch, ch, pushing), lastSeq, torn)
      BY <1>0 DEF Kept
    <3> HIDE DEF T
    <3>4. Whole(kind, T, {}, k[1], torn')
      BY <1>0, <1>1, <3>1, <3>2, <3>3, WholeRestarts
    <3> QED
      BY <3>1, <3>4
  <2> QED
    BY <2>1, <2>2
<1>6. Kept'
  BY <1>1, <1>4, <1>5 DEF Kept
<1> QED
  BY <1>3, <1>4, <1>6

-----------------------------------------------------------------------------
(* Fills and trades: the rows under way come after those of the table. *)

\* What the invariant says of fills and trades, by its parts.
LEMMA RowsFacts ==
    ASSUME Inv, kind # "tick",
           NEW T, T = Stored(kind, table)
    PROVE  /\ kind \in {"fill", "trade"} /\ kind \in Kinds
           /\ T \in SUBSET Keys(kind) /\ lastSeq \in Nat
           /\ table \in Seq(LogRows(kind)) /\ batch \in Seq(LogRows(kind))
           /\ ch \in Seq(LogRows(kind)) /\ pushing \in Seq(LogRows(kind))
           /\ Rows(kind) = LogRows(kind)
           /\ Ahead(T, Waiting(kind, ch)) /\ Ahead(T, Waiting(kind, pushing))
           /\ batch # << >> =>
                 \A k \in T : k = KeyOf(kind, batch[Len(batch)])
                              \/ Before(k, KeyOf(kind, batch[Len(batch)]))
           /\ \A k \in T : k[1] <= lastSeq /\ k[1] <= table[Len(table)].seq /\ k[1] \in Nat
           /\ ~ repeated => Ahead(T, Waiting(kind, batch))
           /\ kind = "fill" \/ ~ repeated => OneKeyOnly(kind, table)
<1>1. TypeOK /\ RowsOK
  BY DEF Inv
<1>2. T \in SUBSET Keys(kind)
  BY <1>1, InvKeys
<1>3. \A k \in T : k[1] \in Nat
  <2>1. kind \in Kinds
    BY <1>1 DEF TypeOK
  <2> QED
    BY <1>2, <2>1, KeyFacts
<1> QED
  BY <1>1, <1>2, <1>3 DEF TypeOK, RowsOK, Rows, Kinds

\* It holds again when its parts do.
LEMMA RowsAgain ==
    ASSUME NEW T, T = Stored(kind', table'), kind' # "tick",
           Ahead(T, Waiting(kind', ch')), Ahead(T, Waiting(kind', pushing')),
           batch' # << >> =>
               \A k \in T : k = KeyOf(kind', batch'[Len(batch')])
                            \/ Before(k, KeyOf(kind', batch'[Len(batch')])),
           \A k \in T : k[1] <= lastSeq' /\ k[1] <= table'[Len(table')].seq,
           ~ repeated' => Ahead(T, Waiting(kind', batch')),
           kind' = "fill" \/ ~ repeated' => OneKeyOnly(kind', table')
    PROVE  RowsOK'
BY DEF RowsOK

\* The next log comes after all that is stored.
LEMMA RowsRead ==
    ASSUME Inv, Read, kind # "tick"
    PROVE  RowsOK'
<1> DEFINE T == Stored(kind, table)
<1>0. UNCHANGED <<kind, ch, batch, storing, ticks, table, faults, torn, repeated>>
  BY DEF Read
<1>1. /\ lastSeq \in Nat /\ kind \in Kinds
      /\ Ahead(T, Waiting(kind, ch)) /\ Ahead(T, Waiting(kind, pushing))
      /\ batch # << >> =>
            \A k \in T : k = KeyOf(kind, batch[Len(batch)])
                         \/ Before(k, KeyOf(kind, batch[Len(batch)]))
      /\ \A k \in T : k[1] <= lastSeq /\ k[1] <= table[Len(table)].seq /\ k[1] \in Nat
      /\ ~ repeated => Ahead(T, Waiting(kind, batch))
      /\ kind = "fill" \/ ~ repeated => OneKeyOnly(kind, table)
  BY RowsFacts
<1>2. lastSeq <= lastSeq' /\ lastSeq' \in Nat
  BY <1>1, ReadFacts
<1>3. Ahead(T, Waiting(kind, pushing'))
  <2>1. CASE pushing' = pushing
    BY <1>1, <2>1
  <2>2. CASE Waiting(kind, pushing') = {k \in Keys(kind) : k[1] = lastSeq + 1}
    <3>1. ASSUME NEW k \in T, NEW l \in Waiting(kind, pushing')
          PROVE  Before(k, l)
      <4>1. k[1] <= lastSeq /\ k[1] \in Nat /\ l[1] = lastSeq + 1
        BY <1>1, <2>2, <3>1
      <4> QED
        BY <1>1, <4>1 DEF Before
    <3> QED
      BY <3>1 DEF Ahead
  <2> QED
    BY <2>1, <2>2, ReadFacts
<1>4. \A k \in T : k[1] <= lastSeq' /\ k[1] <= table[Len(table)].seq
  BY <1>1, <1>2
<1> HIDE DEF T
<1>5. T = Stored(kind', table')
  BY <1>0 DEF T
<1>6. /\ Ahead(T, Waiting(kind', ch')) /\ Ahead(T, Waiting(kind', pushing'))
      /\ batch' # << >> =>
            \A k \in T : k = KeyOf(kind', batch'[Len(batch')])
                         \/ Before(k, KeyOf(kind', batch'[Len(batch')]))
      /\ \A k \in T : k[1] <= lastSeq' /\ k[1] <= table'[Len(table')].seq
      /\ ~ repeated' => Ahead(T, Waiting(kind', batch'))
      /\ kind' = "fill" \/ ~ repeated' => OneKeyOnly(kind', table')
  BY <1>0, <1>1, <1>3, <1>4
<1>7. kind' # "tick"
  BY <1>0
<1> QED
  BY <1>5, <1>6, <1>7, RowsAgain

\* A row pushed stays after all that is stored.
LEMMA RowsPush ==
    ASSUME Inv, Push, kind # "tick"
    PROVE  RowsOK'
<1> DEFINE T == Stored(kind, table)
           row == Head(pushing)
<1>0. /\ UNCHANGED <<kind, lastSeq, batch, table, repeated>>
      /\ pushing # << >> /\ pushing' = Tail(pushing) /\ ch' = Append(ch, row)
  BY DEF Push
<1>1. /\ kind \in Kinds /\ ch \in Seq(LogRows(kind)) /\ pushing \in Seq(LogRows(kind))
      /\ Ahead(T, Waiting(kind, ch)) /\ Ahead(T, Waiting(kind, pushing))
      /\ batch # << >> =>
            \A k \in T : k = KeyOf(kind, batch[Len(batch)])
                         \/ Before(k, KeyOf(kind, batch[Len(batch)]))
      /\ \A k \in T : k[1] <= lastSeq /\ k[1] <= table[Len(table)].seq
      /\ ~ repeated => Ahead(T, Waiting(kind, batch))
      /\ kind = "fill" \/ ~ repeated => OneKeyOnly(kind, table)
  BY RowsFacts
<1>2. /\ row \in LogRows(kind)
      /\ Waiting(kind, pushing) = {KeyOf(kind, row)} \cup Waiting(kind, pushing')
  <2>1. Rising(kind, pushing)
    BY DEF Inv, Lined
  <2> QED
    BY <1>0, <1>1, <2>1, TailFacts, TailRises
<1>3. Waiting(kind, ch') = Waiting(kind, ch) \cup {KeyOf(kind, row)}
  BY <1>0, <1>1, <1>2, AppendedKey
<1> HIDE DEF T, row
<1>4. Ahead(T, Waiting(kind, ch')) /\ Ahead(T, Waiting(kind, pushing'))
  BY <1>1, <1>2, <1>3 DEF Ahead
<1>5. T = Stored(kind', table') /\ kind' # "tick"
  BY <1>0 DEF T
<1>6. /\ Ahead(T, Waiting(kind', ch')) /\ Ahead(T, Waiting(kind', pushing'))
      /\ batch' # << >> =>
            \A k \in T : k = KeyOf(kind', batch'[Len(batch')])
                         \/ Before(k, KeyOf(kind', batch'[Len(batch')]))
      /\ \A k \in T : k[1] <= lastSeq' /\ k[1] <= table'[Len(table')].seq
      /\ ~ repeated' => Ahead(T, Waiting(kind', batch'))
      /\ kind' = "fill" \/ ~ repeated' => OneKeyOnly(kind', table')
  BY <1>0, <1>1, <1>4
<1> QED
  BY <1>5, <1>6, RowsAgain

\* A row taken comes after all that is stored.
LEMMA RowsTaken ==
    ASSUME Inv, TakeRow, kind # "tick"
    PROVE  RowsOK'
<1> DEFINE T == Stored(kind, table)
           row == Head(ch)
<1>0. /\ UNCHANGED <<kind, lastSeq, pushing, table, repeated>>
      /\ ch # << >> /\ ch' = Tail(ch) /\ batch' = Append(batch, row)
  BY DEF TakeRow
<1>1. /\ kind \in Kinds /\ ch \in Seq(LogRows(kind)) /\ batch \in Seq(LogRows(kind))
      /\ Ahead(T, Waiting(kind, ch)) /\ Ahead(T, Waiting(kind, pushing))
      /\ \A k \in T : k[1] <= lastSeq /\ k[1] <= table[Len(table)].seq
      /\ ~ repeated => Ahead(T, Waiting(kind, batch))
      /\ kind = "fill" \/ ~ repeated => OneKeyOnly(kind, table)
  BY RowsFacts
<1>2. /\ row \in LogRows(kind)
      /\ Waiting(kind, ch) = {KeyOf(kind, row)} \cup Waiting(kind, ch')
  <2>1. Rising(kind, ch)
    BY DEF Inv, Lined
  <2> QED
    BY <1>0, <1>1, <2>1, TailFacts, TailRises
<1>3. Waiting(kind, batch') = Waiting(kind, batch) \cup {KeyOf(kind, row)}
  BY <1>0, <1>1, <1>2, AppendedKey
<1>4. batch'[Len(batch')] = row
  BY <1>0, <1>1, <1>2, AppendFacts
<1> HIDE DEF T, row
<1>5. /\ Ahead(T, Waiting(kind, ch'))
      /\ \A k \in T : Before(k, KeyOf(kind, row))
      /\ ~ repeated => Ahead(T, Waiting(kind, batch'))
  BY <1>1, <1>2, <1>3 DEF Ahead
<1>6. T = Stored(kind', table') /\ kind' # "tick"
  BY <1>0 DEF T
<1>7. /\ Ahead(T, Waiting(kind', ch')) /\ Ahead(T, Waiting(kind', pushing'))
      /\ batch' # << >> =>
            \A k \in T : k = KeyOf(kind', batch'[Len(batch')])
                         \/ Before(k, KeyOf(kind', batch'[Len(batch')]))
      /\ \A k \in T : k[1] <= lastSeq' /\ k[1] <= table'[Len(table')].seq
      /\ ~ repeated' => Ahead(T, Waiting(kind', batch'))
      /\ kind' = "fill" \/ ~ repeated' => OneKeyOnly(kind', table')
  BY <1>0, <1>1, <1>4, <1>5
<1> QED
  BY <1>6, <1>7, RowsAgain

\* An insert of nothing changes nothing.
LEMMA NothingInserted ==
    ASSUME NEW base
    PROVE  InsertedAll(base, << >>) = base
<1>1. << >> \in Seq({})
  BY NoRows
<1>2. PICK g : Inserts(g, base, << >>) /\ InsertedAll(base, << >>) = g[Len(<< >>)]
  BY <1>1, InsertFolds
<1> QED
  BY <1>2, NoRows DEF Inserts

\* What an insert does to the last row of the table and to the keys in it.
LEMMA LastRowStored ==
    ASSUME Inv, kind # "tick", NEW out, out = InsertedAll(table, batch),
           NEW T, T = Stored(kind, table),
           NEW B, B = Waiting(kind, batch)
    PROVE  /\ \A k \in T \cup B : k[1] <= lastSeq /\ k[1] <= out[Len(out)].seq
           /\ batch # << >> =>
                \A k \in T \cup B : k = KeyOf(kind, batch[Len(batch)])
                                    \/ Before(k, KeyOf(kind, batch[Len(batch)]))
           /\ kind = "fill" \/ ~ repeated => OneKeyOnly(kind, out)
<1>1. /\ kind \in {"fill", "trade"} /\ kind \in Kinds
      /\ T \in SUBSET Keys(kind) /\ lastSeq \in Nat
      /\ table \in Seq(LogRows(kind)) /\ batch \in Seq(LogRows(kind))
      /\ batch # << >> =>
            \A k \in T : k = KeyOf(kind, batch[Len(batch)])
                         \/ Before(k, KeyOf(kind, batch[Len(batch)]))
      /\ \A k \in T : k[1] <= lastSeq /\ k[1] <= table[Len(table)].seq /\ k[1] \in Nat
      /\ ~ repeated => Ahead(T, B)
      /\ kind = "fill" \/ ~ repeated => OneKeyOnly(kind, table)
      /\ Rows(kind) = LogRows(kind)
  BY RowsFacts
<1>2. /\ Rising(kind, batch) /\ Whole(kind, T, UnderWay(kind, batch, ch, pushing), lastSeq, torn)
      /\ \A k \in B : k[1] <= lastSeq
      /\ B \subseteq UnderWay(kind, batch, ch, pushing) /\ B \in SUBSET Keys(kind)
  BY InvKeys DEF Inv, Lined, Kept, UnderWay
<1>3. ASSUME kind = "fill" \/ ~ repeated
      PROVE  OneKeyOnly(kind, out)
  <2>1. kind = "fill" \/ T \cap B = {}
    <3>1. CASE ~ repeated
      <4>1. \A k \in T \cap B : Before(k, k)
        BY <1>1, <3>1 DEF Ahead
      <4>2. \A k \in T \cap B : ~ Before(k, k)
        BY <1>1, KeyOrder
      <4> QED
        BY <4>1, <4>2
    <3> QED
      BY <1>3, <3>1
  <2> QED
    BY <1>1, <1>2, <1>3, <2>1, RowsStored
<1>4. CASE batch = << >>
  <2>1. B = {} /\ out = table
    BY <1>4, NoRows, NothingInserted
  <2> QED
    BY <1>1, <1>3, <1>4, <2>1
<1>5. CASE batch # << >>
  <2> DEFINE row == batch[Len(batch)]
             last == KeyOf(kind, row)
  <2>1. Len(batch) \in DOMAIN batch /\ row \in Range(batch) /\ row \in LogRows(kind)
        /\ DOMAIN batch = 1 .. Len(batch) /\ Len(batch) \in Nat
    BY <1>1, <1>5, RangeFacts
  <2>2. last \in B /\ last \in Keys(kind) /\ last[1] = row.seq
    BY <1>1, <2>1, RowKeys DEF Waiting
  <2> HIDE DEF last
  <2>3. ASSUME NEW k \in B
        PROVE  k = last \/ Before(k, last)
    <3>1. PICK r \in Range(batch) : k = KeyOf(kind, r)
      BY <2>3 DEF Waiting
    <3>2. PICK i \in DOMAIN batch : r = batch[i]
      BY DEF Range
    <3>3. CASE i = Len(batch)
      BY <3>1, <3>2, <3>3 DEF last
    <3>4. CASE i < Len(batch)
      BY <1>2, <2>1, <3>1, <3>2, <3>4 DEF Rising, last
    <3> QED
      BY <2>1, <3>3, <3>4
  <2>4. \A k \in T \cup B : k = last \/ Before(k, last)
    BY <1>1, <1>5, <2>3 DEF last
  <2>5. \A k \in T \cup B : k[1] <= row.seq
    <3>1. \A k \in Keys(kind) : k[1] \in Nat
      BY <1>1, KeyFacts
    <3>2. ASSUME NEW k \in T \cup B
          PROVE  k[1] <= row.seq
      <4>1. k[1] \in Nat /\ last[1] \in Nat
        BY <1>1, <1>2, <2>2, <3>1
      <4>2. k = last \/ Before(k, last)
        BY <2>4
      <4> QED
        BY <2>2, <4>1, <4>2 DEF Before
    <3> QED
      BY <3>2
  <2>6. CASE kind = "trade" \/ last \notin T
    <3>1. out[Len(out)] = row
      BY <1>1, <1>2, <1>5, <2>6, RowsStored DEF last
    <3> QED
      BY <1>1, <1>2, <1>3, <2>4, <2>5, <3>1 DEF last
  <2>7. CASE kind = "fill" /\ last \in T
    <3>1. B \subseteq T
      <4>1. ASSUME NEW o \in B, o \notin T
            PROVE  FALSE
        <5>1. Before(o, last)
          BY <2>3, <2>7, <4>1
        <5>2. o \notin UnderWay(kind, batch, ch, pushing)
          BY <1>2, <2>7, <4>1, <5>1 DEF Whole
        <5> QED
          BY <1>2, <4>1, <5>2
      <4> QED
        BY <4>1
    <3>2. out = table
      BY <1>1, <1>2, <2>7, <3>1, RowsStored
    <3>3. T \cup B = T
      BY <3>1
    <3> QED
      BY <1>1, <1>3, <2>4, <3>2, <3>3 DEF last
  <2> QED
    BY <1>1, <2>6, <2>7
<1> QED
  BY <1>4, <1>5

\* Storing a batch, for the first time or again.
LEMMA RowsStoredAgain ==
    ASSUME Inv, StoreRows \/ StoreUnacknowledged, kind # "tick"
    PROVE  RowsOK'
<1> DEFINE T == Stored(kind, table)
           B == Waiting(kind, batch)
<1>0. /\ UNCHANGED <<kind, lastSeq, pushing, ch>>
      /\ table' = InsertedAll(table, batch)
      /\ \/ batch' = << >> /\ repeated' = repeated
         \/ batch' = batch /\ repeated' = TRUE
  BY DEF StoreRows, StoreUnacknowledged, InsertedAll, memory
<1>1. Ahead(T, Waiting(kind, ch)) /\ Ahead(T, Waiting(kind, pushing))
      /\ Ahead(B, Waiting(kind, ch)) /\ Ahead(B, Waiting(kind, pushing))
  BY RowsFacts DEF Inv, Lined
<1>2. Stored(kind, table') = T \cup B
  BY <1>0, StoreFacts
<1>3. /\ \A k \in T \cup B : k[1] <= lastSeq /\ k[1] <= table'[Len(table')].seq
      /\ batch # << >> =>
           \A k \in T \cup B : k = KeyOf(kind, batch[Len(batch)])
                               \/ Before(k, KeyOf(kind, batch[Len(batch)]))
      /\ kind = "fill" \/ ~ repeated => OneKeyOnly(kind, table')
  BY <1>0, LastRowStored
<1>4. Ahead(T \cup B, Waiting(kind, << >>))
  BY NoRows DEF Ahead
<1> HIDE DEF T, B
<1>5. Ahead(T \cup B, Waiting(kind, ch)) /\ Ahead(T \cup B, Waiting(kind, pushing))
  BY <1>1 DEF Ahead
<1>6. T \cup B = Stored(kind', table') /\ kind' # "tick"
  BY <1>0, <1>2
<1>7. /\ Ahead(T \cup B, Waiting(kind', ch')) /\ Ahead(T \cup B, Waiting(kind', pushing'))
      /\ batch' # << >> =>
            \A k \in T \cup B : k = KeyOf(kind', batch'[Len(batch')])
                                \/ Before(k, KeyOf(kind', batch'[Len(batch')]))
      /\ \A k \in T \cup B : k[1] <= lastSeq' /\ k[1] <= table'[Len(table')].seq
      /\ ~ repeated' => Ahead(T \cup B, Waiting(kind', batch'))
      /\ kind' = "fill" \/ ~ repeated' => OneKeyOnly(kind', table')
  BY <1>0, <1>3, <1>4, <1>5
<1> QED
  BY <1>6, <1>7, RowsAgain

\* A worker that starts again has nothing under way.
LEMMA RowsCrash ==
    ASSUME Inv, Crash, kind # "tick"
    PROVE  RowsOK'
<1> DEFINE T == Stored(kind, table)
<1>0. /\ UNCHANGED <<kind, table, repeated>>
      /\ pushing' = << >> /\ ch' = << >> /\ batch' = << >>
      /\ table # << >> => lastSeq' = table[Len(table)].seq
  BY CrashFacts
<1>1. /\ \A k \in T : k[1] <= table[Len(table)].seq
      /\ kind = "fill" \/ ~ repeated => OneKeyOnly(kind, table)
  BY RowsFacts
<1>2. Waiting(kind, << >>) = {} /\ (table = << >> => T = {})
  BY NoRows
<1> HIDE DEF T
<1>3. Ahead(T, Waiting(kind, << >>))
  BY <1>2 DEF Ahead
<1>4. \A k \in T : k[1] <= lastSeq' /\ k[1] <= table'[Len(table')].seq
  BY <1>0, <1>1, <1>2
<1>5. T = Stored(kind', table') /\ kind' # "tick"
  BY <1>0 DEF T
<1>6. /\ Ahead(T, Waiting(kind', ch')) /\ Ahead(T, Waiting(kind', pushing'))
      /\ batch' # << >> =>
            \A k \in T : k = KeyOf(kind', batch'[Len(batch')])
                         \/ Before(k, KeyOf(kind', batch'[Len(batch')]))
      /\ ~ repeated' => Ahead(T, Waiting(kind', batch'))
      /\ kind' = "fill" \/ ~ repeated' => OneKeyOnly(kind', table')
  BY <1>0, <1>1, <1>3
<1> QED
  BY <1>4, <1>5, <1>6, RowsAgain

-----------------------------------------------------------------------------
(* Ticks: a tick that is pushed or stored counts what was counted before it. *)

\* What each action needs of the types of ticks.
LEMMA TicksFacts ==
    ASSUME Inv, kind = "tick"
    PROVE  /\ table \in Seq(TickRows) /\ batch \in Seq(TickRows) /\ ch \in Seq(TickRows)
           /\ pushing \in Seq(LogRows("tick")) /\ lastSeq \in Nat
           /\ ticks \in [Granularities -> TickRows \cup {NoTick}]
           /\ TicksOK /\ Lined("tick", batch, ch, pushing, lastSeq)
           /\ "tick" \in Kinds
           /\ Stored("tick", table) \in SUBSET Keys("tick")
           /\ Range(table) \cup Range(batch) \cup Range(ch) \in SUBSET TickRows
<1>1. /\ table \in Seq(TickRows) /\ batch \in Seq(TickRows) /\ ch \in Seq(TickRows)
      /\ pushing \in Seq(LogRows("tick")) /\ lastSeq \in Nat
      /\ ticks \in [Granularities -> TickRows \cup {NoTick}]
      /\ TicksOK /\ Lined("tick", batch, ch, pushing, lastSeq)
      /\ "tick" \in Kinds
  BY DEF Inv, TypeOK, Rows
<1>2. Stored("tick", table) \in SUBSET Keys("tick")
  BY InvKeys DEF Inv
<1>3. Range(table) \subseteq TickRows /\ Range(batch) \subseteq TickRows
      /\ Range(ch) \subseteq TickRows
  BY <1>1, RangeFacts
<1> QED
  BY <1>1, <1>2, <1>3

\* The next log is not yet in any tick.
LEMMA TicksRead ==
    ASSUME Inv, Read, kind = "tick"
    PROVE  TicksOK'
<1>0. UNCHANGED <<kind, ch, batch, ticks, table, torn>>
  BY DEF Read
<1>1. TicksOK /\ lastSeq \in Nat /\ "tick" \in Kinds
      /\ Stored("tick", table) \in SUBSET Keys("tick")
      /\ ticks \in [Granularities -> TickRows \cup {NoTick}]
  BY TicksFacts
<1>2. /\ pushing = << >>
      /\ \/ lastSeq' = lastSeq /\ pushing' = pushing
         \/ /\ lastSeq' = lastSeq + 1
            /\ Waiting("tick", pushing') = {k \in Keys("tick") : k[1] = lastSeq + 1}
            /\ pushing' # << >> => lastSeq + 1 \in Matches
  BY ReadFacts
<1>3. lastSeq <= lastSeq' /\ lastSeq' \in Nat
  BY <1>1, <1>2
<1>4. ASSUME NEW g \in Granularities, ticks[g] # NoTick, NEW m \in Range(ticks[g].logs)
      PROVE  \/ m <= lastSeq' /\ <<m, g>> \notin Waiting("tick", pushing')
             \/ m \in torn /\ g < Longest
  <2>1. \/ m <= lastSeq /\ <<m, g>> \notin Waiting("tick", pushing)
        \/ m \in torn /\ g < Longest
    BY <1>1, <1>4 DEF TicksOK
  <2>2. m \in Nat
    <3>1. ticks[g] \in TickRows
      BY <1>1, <1>4
    <3>2. ticks[g].logs \in Seq(Matches)
      BY <3>1 DEF TickRows
    <3>3. m \in Matches
      BY <1>4, <3>2, RangeFacts
    <3> QED
      BY <3>3, Constants
  <2>3. CASE lastSeq' = lastSeq /\ pushing' = pushing
    BY <2>1, <2>3
  <2>4. CASE /\ lastSeq' = lastSeq + 1
             /\ Waiting("tick", pushing') = {k \in Keys("tick") : k[1] = lastSeq + 1}
    <3>1. <<m, g>> \in Waiting("tick", pushing') => <<m, g>>[1] = lastSeq + 1
      BY <2>4
    <3> QED
      BY <1>1, <2>1, <2>2, <2>4, <3>1
  <2> QED
    BY <1>2, <2>3, <2>4
<1>5. \A k \in Stored("tick", table), m \in Matches : lastSeq' < m => k[1] <= m
  <2>1. Matches \subseteq Nat
    BY Constants
  <2> QED
    BY <1>1, <1>3, <2>1 DEF TicksOK
<1>6. pushing' # << >> => \A k \in Stored("tick", table) : k[1] <= lastSeq'
  <2>1. lastSeq < lastSeq + 1
    BY <1>1
  <2> QED
    BY <1>1, <1>2, <2>1 DEF TicksOK
<1>7. /\ TicksGrow(table', batch', ch')
      /\ TicksKnown(Stored("tick", table'), batch', ch')
      /\ \A g \in Granularities :
            Newest(g, ticks'[g], Range(table') \cup Range(batch') \cup Range(ch'),
                   Stored("tick", table') \cup Waiting("tick", batch') \cup Waiting("tick", ch'))
      /\ \A g \in Granularities : ticks'[g] # NoTick => TwiceOnlyTorn(ticks'[g], torn')
      /\ \A r \in Range(table') \cup Range(batch') \cup Range(ch') : TwiceOnlyTorn(r, torn')
  BY <1>0, <1>1 DEF TicksOK
<1> QED
  BY <1>0, <1>4, <1>5, <1>6, <1>7 DEF TicksOK

\* A tick of the batch, the channel or the table goes on in the tick pushed.
LEMMA PushedGrows ==
    ASSUME Inv, kind = "tick", pushing # << >>,
           NEW row, row = Head(pushing),
           NEW x, x = TickAfter(ticks[row.part], row),
           NEW r \in Range(table) \cup Range(batch) \cup Range(ch)
    PROVE  GrowsTo(r, x) /\ (r.part = row.part => r.time <= x.time)
<1> DEFINE old == ticks[row.part]
           R == Range(table) \cup Range(batch) \cup Range(ch)
<1>1. /\ row.part \in Granularities
      /\ x \in TickRows /\ x.part = row.part
      /\ old # NoTick => old \in TickRows /\ old.part = row.part /\ old.time <= x.time
      /\ old # NoTick /\ old.time = x.time => x.logs = Append(old.logs, row.seq)
      /\ row.seq \in Matches
  BY TickPushed
<1>2. r \in TickRows
  BY TicksFacts
<1>3. r.time \in Nat /\ x.time \in Nat /\ (old # NoTick => old.time \in Nat)
  BY <1>1, <1>2 DEF TickRows
<1>4. CASE r.part # row.part
  BY <1>1, <1>4 DEF GrowsTo, SameTick
<1>5. CASE r.part = row.part
  <2>1. Newest(row.part, old, R,
               Stored("tick", table) \cup Waiting("tick", batch) \cup Waiting("tick", ch))
    BY <1>1, TicksFacts DEF TicksOK
  <2> HIDE DEF old
  <2>2. old # NoTick /\ r.time <= old.time /\ GrowsTo(r, old)
    BY <1>5, <2>1 DEF Newest
  <2>3. r.time <= x.time
    BY <1>1, <1>3, <2>2
  <2>4. ASSUME SameTick(r, x)
        PROVE  Range(r.logs) \subseteq Range(x.logs)
    <3>1. r.time = x.time
      BY <2>4 DEF SameTick
    <3>2. old.time = x.time /\ old.time = r.time
      BY <1>1, <1>3, <2>2, <3>1
    <3>3. Range(r.logs) \subseteq Range(old.logs)
      BY <1>1, <1>5, <2>2, <3>2 DEF GrowsTo, SameTick
    <3>4. old.logs \in Seq(Matches)
      BY <1>1, <2>2 DEF TickRows
    <3>5. Range(Append(old.logs, row.seq)) = Range(old.logs) \cup {row.seq}
      BY <1>1, <3>4, AppendFacts
    <3>6. x.logs = Append(old.logs, row.seq)
      BY <1>1, <2>2, <3>2
    <3> QED
      BY <3>3, <3>5, <3>6
  <2> QED
    BY <2>3, <2>4 DEF GrowsTo
<1> QED
  BY <1>4, <1>5

\* What the tick pushed counts.
LEMMA PushedCounts ==
    ASSUME Inv, kind = "tick", pushing # << >>,
           NEW row, row = Head(pushing),
           NEW x, x = TickAfter(ticks[row.part], row),
           NEW K, K = Stored("tick", table) \cup Waiting("tick", batch) \cup Waiting("tick", ch)
    PROVE  /\ Counted("tick", x) \subseteq K \cup {<<row.seq, row.part>>}
           /\ TwiceOnlyTorn(x, torn)
           /\ \A m \in Range(x.logs) :
                 \/ m <= lastSeq /\ <<m, row.part>> \notin Waiting("tick", Tail(pushing))
                 \/ m \in torn /\ row.part < Longest
<1> DEFINE old == ticks[row.part]
<1>0. /\ row.part \in Granularities /\ row.seq = lastSeq /\ row.seq \in Matches
      /\ x \in TickRows /\ x.part = row.part
      /\ row \in LogRows("tick") /\ KeyOf("tick", row) = <<row.seq, row.part>>
      /\ old # NoTick => old \in TickRows /\ old.part = row.part
      /\ old # NoTick /\ old.time = x.time => x.logs = Append(old.logs, row.seq)
      /\ ~ (old # NoTick /\ old.time = x.time) => x.logs = <<row.seq>>
  <2>1. old = ticks[row.part] /\ x = TickAfter(old, row)
    OBVIOUS
  <2> HIDE DEF old
  <2> QED
    BY <2>1, TickPushed
<1> DEFINE g == row.part
<1>1. /\ pushing \in Seq(LogRows("tick")) /\ TicksOK /\ lastSeq \in Nat
      /\ Rising("tick", pushing) /\ "tick" \in Kinds
  BY TicksFacts DEF Lined
<1>2. /\ Waiting("tick", pushing) = {<<row.seq, g>>} \cup Waiting("tick", Tail(pushing))
      /\ Ahead({<<row.seq, g>>}, Waiting("tick", Tail(pushing)))
  BY <1>0, <1>1, TailRises
<1>3. <<row.seq, g>> \notin Waiting("tick", Tail(pushing))
  <2>1. <<row.seq, g>> \in Keys("tick")
    BY <1>0, TickKeys
  <2>2. ~ Before(<<row.seq, g>>, <<row.seq, g>>)
    BY <1>1, <2>1, KeyOrder
  <2> QED
    BY <1>2, <2>2 DEF Ahead
<1>4. row.seq <= lastSeq
  BY <1>0, <1>1
<1>5. CASE old # NoTick /\ old.time = x.time
  <2>1. old \in TickRows /\ old.part = g /\ x.logs = Append(old.logs, row.seq)
    BY <1>0, <1>5
  <2>2. /\ Counted("tick", old) \subseteq K
        /\ TwiceOnlyTorn(old, torn)
        /\ \A m \in Range(old.logs) :
              \/ m <= lastSeq /\ <<m, g>> \notin Waiting("tick", pushing)
              \/ m \in torn /\ g < Longest
    BY <1>0, <1>1, <1>5 DEF TicksOK, Newest
  <2>3. old.logs \in Seq(Matches)
    BY <2>1 DEF TickRows
  <2> HIDE DEF old, g
  <2>4. /\ Range(x.logs) = Range(old.logs) \cup {row.seq}
        /\ Len(x.logs) = Len(old.logs) + 1 /\ x.logs[Len(old.logs) + 1] = row.seq
        /\ \A j \in 1 .. Len(old.logs) : x.logs[j] = old.logs[j]
        /\ x.logs \in Seq(Matches)
    <3> DEFINE s == Append(old.logs, row.seq)
    <3>1. /\ Range(s) = Range(old.logs) \cup {row.seq}
          /\ Len(s) = Len(old.logs) + 1 /\ s[Len(old.logs) + 1] = row.seq
          /\ \A j \in 1 .. Len(old.logs) : s[j] = old.logs[j]
          /\ s \in Seq(Matches)
      BY <1>0, <2>3, AppendFacts
    <3>2. x.logs = s
      BY <2>1
    <3> HIDE DEF s
    <3> QED
      BY <3>1, <3>2
  <2>5. Len(old.logs) \in Nat /\ DOMAIN old.logs = 1 .. Len(old.logs)
        /\ DOMAIN x.logs = 1 .. Len(old.logs) + 1
        /\ \A j \in DOMAIN old.logs : old.logs[j] \in Range(old.logs)
    BY <2>3, <2>4, RangeFacts
  <2>6. Counted("tick", x) \subseteq K \cup {<<row.seq, row.part>>}
    <3>1. ASSUME NEW m \in Range(x.logs)
          PROVE  <<m, g>> \in K \cup {<<row.seq, g>>}
      <4>1. m \in Range(old.logs) \/ m = row.seq
        BY <2>4
      <4>2. m \in Range(old.logs) => <<m, g>> \in Counted("tick", old)
        BY <2>1 DEF Counted, No
      <4> QED
        BY <2>2, <4>1, <4>2
    <3>2. No("tick", x.part) = g /\ g = row.part
      BY <1>0 DEF No, g
    <3> QED
      BY <3>1, <3>2 DEF Counted
  <2>7. ASSUME NEW j \in DOMAIN old.logs, old.logs[j] = row.seq
        PROVE  row.seq \in torn /\ g < Longest
    BY <1>2, <2>2, <2>5, <2>7
  <2>8. TwiceOnlyTorn(x, torn)
    <3>1. ASSUME NEW i \in DOMAIN x.logs, NEW j \in DOMAIN x.logs, i # j,
                 x.logs[i] = x.logs[j]
          PROVE  x.logs[i] \in torn /\ x.part < Longest
      <4>0. x.part = g /\ old.part = g
        BY <1>0, <2>1 DEF g
      <4>1. CASE i \in DOMAIN old.logs /\ j \in DOMAIN old.logs
        BY <2>2, <2>4, <2>5, <3>1, <4>0, <4>1 DEF TwiceOnlyTorn
      <4>2. CASE i = Len(old.logs) + 1
        <5>1. j \in DOMAIN old.logs
          BY <2>5, <3>1, <4>2
        <5> QED
          BY <2>4, <2>5, <2>7, <3>1, <4>0, <4>2, <5>1
      <4>3. CASE j = Len(old.logs) + 1
        <5>1. i \in DOMAIN old.logs
          BY <2>5, <3>1, <4>3
        <5> QED
          BY <2>4, <2>5, <2>7, <3>1, <4>0, <4>3, <5>1
      <4> QED
        BY <2>5, <4>1, <4>2, <4>3
    <3> QED
      BY <3>1 DEF TwiceOnlyTorn
  <2>9. ASSUME NEW m \in Range(x.logs)
        PROVE  \/ m <= lastSeq /\ <<m, g>> \notin Waiting("tick", Tail(pushing))
               \/ m \in torn /\ g < Longest
    <3>1. CASE m \in Range(old.logs)
      BY <1>2, <2>2, <3>1
    <3>2. CASE m = row.seq
      BY <1>3, <1>4, <3>2
    <3> QED
      BY <2>4, <3>1, <3>2
  <2> QED
    BY <2>6, <2>8, <2>9 DEF g
<1>6. CASE ~ (old # NoTick /\ old.time = x.time)
  <2>1. x.logs = <<row.seq>>
    BY <1>0, <1>6
  <2>2. Range(x.logs) = {row.seq} /\ DOMAIN x.logs = {1}
    BY <2>1 DEF Range
  <2>3. Counted("tick", x) = {<<row.seq, row.part>>}
    BY <1>0, <2>2 DEF Counted, No
  <2>4. TwiceOnlyTorn(x, torn)
    BY <2>2 DEF TwiceOnlyTorn
  <2> QED
    BY <1>3, <1>4, <2>2, <2>3, <2>4
<1> QED
  BY <1>5, <1>6

\* The keys of the rows in the channel up to the place p.
KeysTo(c, p) == {KeyOf("tick", c[q]) : q \in {q \in DOMAIN c : q <= p}}

\* The tick pushed goes on from all there are of its time.
LEMMA TicksPush ==
    ASSUME Inv, Push, kind = "tick"
    PROVE  TicksOK'
<1> DEFINE row == Head(pushing)
           x == TickAfter(ticks[row.part], row)
           g == row.part
           T == Stored("tick", table)
           B == Waiting("tick", batch)
           R == Range(table) \cup Range(batch) \cup Range(ch)
           K == T \cup B \cup Waiting("tick", ch)
<1>0. /\ UNCHANGED <<kind, lastSeq, batch, table, torn>>
      /\ pushing # << >> /\ pushing' = Tail(pushing) /\ ch' = Append(ch, x)
      /\ ticks' = [ticks EXCEPT ![g] = x]
  BY DEF Push
<1>1. /\ g \in Granularities /\ x \in TickRows /\ x.part = g
      /\ KeyOf("tick", x) = <<row.seq, g>>
  BY <1>0, TickPushed
<1>2. \A r \in R : GrowsTo(r, x) /\ (r.part = g => r.time <= x.time)
  BY <1>0, PushedGrows
<1>3. /\ Counted("tick", x) \subseteq K \cup {<<row.seq, g>>}
      /\ TwiceOnlyTorn(x, torn)
      /\ \A m \in Range(x.logs) :
            \/ m <= lastSeq /\ <<m, g>> \notin Waiting("tick", pushing')
            \/ m \in torn /\ g < Longest
  BY <1>0, PushedCounts
<1>4. /\ ch \in Seq(TickRows) /\ ticks \in [Granularities -> TickRows \cup {NoTick}]
      /\ Waiting("tick", pushing') \subseteq Waiting("tick", pushing)
  <2>1. pushing \in Seq(LogRows("tick")) /\ Rising("tick", pushing)
        /\ ch \in Seq(TickRows) /\ ticks \in [Granularities -> TickRows \cup {NoTick}]
    BY TicksFacts DEF Lined
  <2>2. Waiting("tick", pushing)
          = {KeyOf("tick", Head(pushing))} \cup Waiting("tick", Tail(pushing))
    BY <1>0, <2>1, TailRises
  <2>3. Waiting("tick", Tail(pushing)) \subseteq Waiting("tick", pushing)
    BY <2>2
  <2> QED
    BY <1>0, <2>1, <2>3
<1>5. /\ TicksGrow(table, batch, ch) /\ TicksKnown(T, batch, ch)
      /\ \A h \in Granularities : Newest(h, ticks[h], R, K)
      /\ \A h \in Granularities : ticks[h] # NoTick =>
            /\ TwiceOnlyTorn(ticks[h], torn)
            /\ \A m \in Range(ticks[h].logs) :
                  \/ m <= lastSeq /\ <<m, h>> \notin Waiting("tick", pushing)
                  \/ m \in torn /\ h < Longest
      /\ \A r \in R : TwiceOnlyTorn(r, torn)
      /\ \A k \in T, m \in Matches : lastSeq < m => k[1] <= m
      /\ pushing # << >> => \A k \in T : k[1] <= lastSeq
  BY TicksFacts DEF TicksOK
<1> HIDE DEF x, row, g
<1>6. /\ Range(ch') = Range(ch) \cup {x}
      /\ Len(ch) \in Nat /\ DOMAIN ch = 1 .. Len(ch) /\ DOMAIN ch' = 1 .. Len(ch) + 1
      /\ \A j \in 1 .. Len(ch) : ch'[j] = ch[j]
      /\ ch'[Len(ch) + 1] = x
      /\ \A j \in DOMAIN ch : ch[j] \in Range(ch)
  <2>1. /\ Append(ch, x) \in Seq(TickRows)
        /\ Len(Append(ch, x)) = Len(ch) + 1
        /\ \A j \in 1 .. Len(ch) : Append(ch, x)[j] = ch[j]
        /\ Append(ch, x)[Len(ch) + 1] = x
        /\ Range(Append(ch, x)) = Range(ch) \cup {x}
    BY <1>1, <1>4, AppendFacts
  <2>2. ch' \in Seq(TickRows) /\ Len(ch') = Len(ch) + 1
    BY <1>0, <2>1
  <2>3. DOMAIN ch' = 1 .. Len(ch')
    BY <2>2, RangeFacts
  <2> QED
    BY <1>0, <1>4, <2>1, <2>2, <2>3, RangeFacts
<1>7. Waiting("tick", ch') = Waiting("tick", ch) \cup {<<row.seq, g>>}
  BY <1>1, <1>6 DEF Waiting
<1>8. GrowsTo(x, x)
  BY DEF GrowsTo
<1>9. TicksGrow(table, batch, ch')
  <2>1. Growing(ch')
    <3>1. ASSUME NEW p \in DOMAIN ch', NEW q \in DOMAIN ch', p <= q
          PROVE  GrowsTo(ch'[p], ch'[q])
      <4>1. CASE q \in DOMAIN ch
        <5>1. p \in DOMAIN ch /\ ch'[p] = ch[p] /\ ch'[q] = ch[q]
          BY <1>6, <3>1, <4>1
        <5>2. GrowsTo(ch[p], ch[q])
          BY <1>5, <3>1, <4>1, <5>1 DEF TicksGrow, Growing
        <5> QED
          BY <5>1, <5>2
      <4>2. CASE q = Len(ch) + 1 /\ p \in DOMAIN ch
        BY <1>2, <1>6, <4>2
      <4>3. CASE q = Len(ch) + 1 /\ p = Len(ch) + 1
        BY <1>6, <1>8, <4>3
      <4> QED
        BY <1>6, <3>1, <4>1, <4>2, <4>3
    <3> QED
      BY <3>1 DEF Growing
  <2>2. \A r \in Range(batch), s \in Range(ch') : GrowsTo(r, s)
    BY <1>2, <1>5, <1>6 DEF TicksGrow
  <2>3. \A r \in Range(table), s \in Range(ch') : GrowsTo(r, s)
    BY <1>2, <1>5, <1>6 DEF TicksGrow
  <2> QED
    BY <1>5, <2>1, <2>2, <2>3 DEF TicksGrow
<1>10. TicksKnown(T, batch, ch')
  <2>1. ASSUME NEW p \in DOMAIN ch'
        PROVE  Counted("tick", ch'[p]) \subseteq T \cup B \cup KeysTo(ch', p)
    <3>1. CASE p \in DOMAIN ch
      <4>1. Counted("tick", ch[p]) \subseteq T \cup B \cup KeysTo(ch, p)
        BY <1>5, <3>1 DEF TicksKnown, KeysTo
      <4>2. KeysTo(ch, p) \subseteq KeysTo(ch', p)
        <5>1. \A q \in DOMAIN ch : q \in DOMAIN ch' /\ ch'[q] = ch[q]
          BY <1>6
        <5> QED
          BY <5>1 DEF KeysTo
      <4>3. ch'[p] = ch[p]
        BY <1>6, <3>1
      <4> QED
        BY <4>1, <4>2, <4>3
    <3>2. CASE p = Len(ch) + 1
      <4>1. \A q \in DOMAIN ch' : q <= p
        BY <1>6, <3>2
      <4>2. Waiting("tick", ch') \subseteq KeysTo(ch', p)
        BY <4>1 DEF Waiting, KeysTo, Range
      <4> QED
        BY <1>3, <1>6, <1>7, <3>2, <4>2
    <3> QED
      BY <1>6, <3>1, <3>2
  <2> QED
    BY <1>5, <2>1 DEF TicksKnown, KeysTo
<1>11. ASSUME NEW h \in Granularities
       PROVE  /\ Newest(h, ticks'[h], R \cup {x}, K \cup {<<row.seq, g>>})
              /\ ticks'[h] # NoTick =>
                   /\ TwiceOnlyTorn(ticks'[h], torn)
                   /\ \A m \in Range(ticks'[h].logs) :
                         \/ m <= lastSeq /\ <<m, h>> \notin Waiting("tick", pushing')
                         \/ m \in torn /\ h < Longest
  <2> HIDE DEF R, K
  <2>1. CASE h = g
    <3>1. ticks'[h] = x
      BY <1>0, <1>1, <1>4, <2>1
    <3>2. x.time <= x.time /\ x # NoTick
      BY <1>1 DEF TickRows, NoTick
    <3>3. Newest(h, x, R \cup {x}, K \cup {<<row.seq, g>>})
      BY <1>2, <1>3, <1>8, <2>1, <3>2 DEF Newest
    <3> QED
      BY <1>3, <2>1, <3>1, <3>3
  <2>2. CASE h # g
    <3>1. ticks'[h] = ticks[h]
      BY <1>0, <1>4, <2>2
    <3>2. Newest(h, ticks[h], R \cup {x}, K \cup {<<row.seq, g>>})
      BY <1>1, <1>5, <2>2 DEF Newest
    <3> QED
      BY <1>4, <1>5, <3>1, <3>2
  <2> QED
    BY <2>1, <2>2
<1>12. /\ Range(table') \cup Range(batch') \cup Range(ch') = R \cup {x}
       /\ Stored("tick", table') \cup Waiting("tick", batch') \cup Waiting("tick", ch')
            = K \cup {<<row.seq, g>>}
       /\ Stored("tick", table') = T
  BY <1>0, <1>6, <1>7
<1>13. \A r \in R \cup {x} : TwiceOnlyTorn(r, torn)
  BY <1>3, <1>5
<1> HIDE DEF R, K, T, B
<1>14. /\ TicksGrow(table', batch', ch')
       /\ TicksKnown(Stored("tick", table'), batch', ch')
       /\ \A h \in Granularities :
             Newest(h, ticks'[h], Range(table') \cup Range(batch') \cup Range(ch'),
                    Stored("tick", table') \cup Waiting("tick", batch') \cup Waiting("tick", ch'))
       /\ \A h \in Granularities : ticks'[h] # NoTick =>
             /\ TwiceOnlyTorn(ticks'[h], torn')
             /\ \A m \in Range(ticks'[h].logs) :
                   \/ m <= lastSeq' /\ <<m, h>> \notin Waiting("tick", pushing')
                   \/ m \in torn' /\ h < Longest
       /\ \A r \in Range(table') \cup Range(batch') \cup Range(ch') : TwiceOnlyTorn(r, torn')
  BY <1>0, <1>9, <1>10, <1>11, <1>12, <1>13
<1>15. /\ \A k \in Stored("tick", table'), m \in Matches : lastSeq' < m => k[1] <= m
       /\ pushing' # << >> => \A k \in Stored("tick", table') : k[1] <= lastSeq'
  BY <1>0, <1>5, <1>12
<1> QED
  BY <1>14, <1>15 DEF TicksOK

\* A tick taken goes on from those of the table and of the batch.
LEMMA TicksTake ==
    ASSUME Inv, TakeRow, kind = "tick"
    PROVE  TicksOK'
<1> DEFINE x == Head(ch)
           T == Stored("tick", table)
           B == Waiting("tick", batch)
           R == Range(table) \cup Range(batch) \cup Range(ch)
           K == T \cup B \cup Waiting("tick", ch)
<1>0. /\ UNCHANGED <<kind, lastSeq, pushing, ticks, table, torn>>
      /\ ch # << >> /\ ch' = Tail(ch) /\ batch' = Append(batch, x)
  BY DEF TakeRow
<1>1. /\ ch \in Seq(TickRows) /\ batch \in Seq(TickRows)
      /\ TicksOK /\ TicksGrow(table, batch, ch) /\ TicksKnown(T, batch, ch)
      /\ Rising("tick", ch)
  BY TicksFacts DEF Lined, TicksOK
<1>2. /\ x \in TickRows /\ x = ch[1] /\ 1 \in DOMAIN ch
      /\ ch' \in Seq(TickRows)
      /\ \A j \in DOMAIN ch' : ch'[j] = ch[j + 1] /\ j + 1 \in DOMAIN ch
      /\ Range(ch) = {x} \cup Range(ch')
      /\ Len(ch) \in Nat /\ Len(ch') = Len(ch) - 1
      /\ DOMAIN ch' = 1 .. Len(ch') /\ DOMAIN ch = 1 .. Len(ch)
      /\ \A j \in DOMAIN ch : ch[j] \in Range(ch)
  BY <1>0, <1>1, TailFacts, RangeFacts
<1>3. /\ Len(batch) \in Nat /\ DOMAIN batch = 1 .. Len(batch)
      /\ DOMAIN batch' = 1 .. Len(batch) + 1
      /\ \A j \in 1 .. Len(batch) : batch'[j] = batch[j]
      /\ batch'[Len(batch) + 1] = x
      /\ Range(batch') = Range(batch) \cup {x}
      /\ \A j \in DOMAIN batch : batch[j] \in Range(batch)
  <2>1. /\ Append(batch, x) \in Seq(TickRows)
        /\ Len(Append(batch, x)) = Len(batch) + 1
        /\ \A j \in 1 .. Len(batch) : Append(batch, x)[j] = batch[j]
        /\ Append(batch, x)[Len(batch) + 1] = x
        /\ Range(Append(batch, x)) = Range(batch) \cup {x}
    BY <1>1, <1>2, AppendFacts
  <2>2. batch' \in Seq(TickRows) /\ Len(batch') = Len(batch) + 1
    BY <1>0, <2>1
  <2>3. DOMAIN batch' = 1 .. Len(batch')
    BY <2>2, RangeFacts
  <2> QED
    BY <1>0, <1>1, <2>1, <2>2, <2>3, RangeFacts
<1> HIDE DEF x
<1>4. /\ Waiting("tick", batch') = B \cup {KeyOf("tick", x)}
      /\ Waiting("tick", ch) = {KeyOf("tick", x)} \cup Waiting("tick", ch')
  BY <1>2, <1>3 DEF Waiting
<1>5. /\ \A p, q \in DOMAIN ch : p <= q => GrowsTo(ch[p], ch[q])
      /\ \A p, q \in DOMAIN batch : p <= q => GrowsTo(batch[p], batch[q])
      /\ \A r \in Range(batch), s \in Range(ch) : GrowsTo(r, s)
      /\ \A r \in Range(table), s \in Range(ch) : GrowsTo(r, s)
      /\ \A r \in Range(table) : GrowsIn(r, batch)
      /\ OneRowEach(table)
  BY <1>1 DEF TicksGrow, Growing
<1>6. TicksGrow(table, batch', ch')
  <2>1. Growing(ch')
    <3>1. ASSUME NEW p \in DOMAIN ch', NEW q \in DOMAIN ch', p <= q
          PROVE  GrowsTo(ch'[p], ch'[q])
      <4>1. p + 1 <= q + 1 /\ p + 1 \in DOMAIN ch /\ q + 1 \in DOMAIN ch
        BY <1>2, <3>1
      <4> QED
        BY <1>2, <1>5, <4>1
    <3> QED
      BY <3>1 DEF Growing
  <2>2. Growing(batch')
    <3>1. ASSUME NEW p \in DOMAIN batch', NEW q \in DOMAIN batch', p <= q
          PROVE  GrowsTo(batch'[p], batch'[q])
      <4>1. CASE q \in DOMAIN batch
        <5>1. p \in DOMAIN batch /\ batch'[p] = batch[p] /\ batch'[q] = batch[q]
          BY <1>3, <3>1, <4>1
        <5> QED
          BY <1>5, <3>1, <4>1, <5>1
      <4>2. CASE q = Len(batch) + 1 /\ p \in DOMAIN batch
        <5>1. batch'[p] \in Range(batch) /\ batch'[q] = x /\ x \in Range(ch)
          BY <1>2, <1>3, <4>2
        <5> QED
          BY <1>5, <5>1
      <4>3. CASE q = Len(batch) + 1 /\ p = Len(batch) + 1
        BY <4>3 DEF GrowsTo
      <4> QED
        BY <1>3, <3>1, <4>1, <4>2, <4>3
    <3> QED
      BY <3>1 DEF Growing
  <2>3. ASSUME NEW s \in Range(ch')
        PROVE  \A r \in Range(batch') : GrowsTo(r, s)
    <3>1. \A r \in Range(batch) : GrowsTo(r, s)
      BY <1>2, <1>5
    <3>2. GrowsTo(x, s)
      <4>1. PICK j \in DOMAIN ch' : s = ch'[j]
        BY DEF Range
      <4>2. j + 1 \in DOMAIN ch /\ 1 <= j + 1 /\ s = ch[j + 1]
        BY <1>2, <4>1
      <4> QED
        BY <1>2, <1>5, <4>2
    <3> QED
      BY <1>3, <3>1, <3>2
  <2>4. \A r \in Range(table), s \in Range(ch') : GrowsTo(r, s)
    BY <1>2, <1>5
  <2>5. ASSUME NEW r \in Range(table)
        PROVE  GrowsIn(r, batch')
    <3>1. ASSUME NEW p \in DOMAIN batch', SameTick(r, batch'[p])
          PROVE  \E q \in DOMAIN batch' :
                    p <= q /\ SameTick(r, batch'[q]) /\ GrowsTo(r, batch'[q])
      <4>1. CASE p \in DOMAIN batch
        <5>1. SameTick(r, batch[p])
          BY <1>3, <3>1, <4>1
        <5>2. PICK q \in DOMAIN batch : p <= q /\ SameTick(r, batch[q]) /\ GrowsTo(r, batch[q])
          BY <1>5, <4>1, <5>1 DEF GrowsIn
        <5>3. q \in DOMAIN batch' /\ batch'[q] = batch[q]
          BY <1>3
        <5> QED
          BY <5>2, <5>3
      <4>2. CASE p = Len(batch) + 1
        <5>1. batch'[p] = x /\ x \in Range(ch) /\ p <= p
          BY <1>2, <1>3, <4>2
        <5>2. GrowsTo(r, batch'[p])
          BY <1>5, <5>1
        <5> QED
          BY <3>1, <5>1, <5>2
      <4> QED
        BY <1>3, <4>1, <4>2
    <3> QED
      BY <3>1 DEF GrowsIn
  <2> QED
    BY <1>5, <2>1, <2>2, <2>3, <2>4, <2>5 DEF TicksGrow
<1>7. TicksKnown(T, batch', ch')
  <2>1. /\ \A r \in Range(batch) : Counted("tick", r) \subseteq T \cup B
        /\ \A p \in DOMAIN ch : Counted("tick", ch[p]) \subseteq T \cup B \cup KeysTo(ch, p)
    BY <1>1 DEF TicksKnown, KeysTo
  <2>2. ASSUME NEW p \in DOMAIN ch
        PROVE  KeysTo(ch, p) \subseteq {KeyOf("tick", x)} \cup KeysTo(ch', p - 1)
    <3>1. ASSUME NEW q \in DOMAIN ch, q <= p
          PROVE  KeyOf("tick", ch[q]) \in {KeyOf("tick", x)} \cup KeysTo(ch', p - 1)
      <4>1. CASE q = 1
        BY <1>2, <4>1
      <4>2. CASE q # 1
        <5>1. q - 1 \in DOMAIN ch' /\ q - 1 <= p - 1 /\ (q - 1) + 1 = q
          BY <1>2, <2>2, <3>1, <4>2
        <5>2. ch'[q - 1] = ch[q]
          BY <1>2, <5>1
        <5> QED
          BY <5>1, <5>2 DEF KeysTo
      <4> QED
        BY <4>1, <4>2
    <3> QED
      BY <3>1 DEF KeysTo
  <2>3. KeysTo(ch', 1 - 1) = {}
    <3>1. \A q \in DOMAIN ch' : ~ (q <= 0)
      BY <1>2
    <3> QED
      BY <3>1 DEF KeysTo
  <2>4. Counted("tick", x) \subseteq T \cup Waiting("tick", batch')
    BY <1>2, <1>4, <2>1, <2>2, <2>3
  <2>5. \A r \in Range(batch') : Counted("tick", r) \subseteq T \cup Waiting("tick", batch')
    BY <1>3, <1>4, <2>1, <2>4
  <2>6. ASSUME NEW p \in DOMAIN ch'
        PROVE  Counted("tick", ch'[p]) \subseteq T \cup Waiting("tick", batch') \cup KeysTo(ch', p)
    <3>1. p + 1 \in DOMAIN ch /\ ch'[p] = ch[p + 1] /\ (p + 1) - 1 = p
      BY <1>2
    <3>2. KeysTo(ch, p + 1) \subseteq {KeyOf("tick", x)} \cup KeysTo(ch', p)
      BY <2>2, <3>1
    <3>3. Counted("tick", ch[p + 1]) \subseteq T \cup B \cup KeysTo(ch, p + 1)
      BY <2>1, <3>1
    <3> QED
      BY <1>4, <3>1, <3>2, <3>3
  <2> QED
    BY <2>5, <2>6 DEF TicksKnown, KeysTo
<1>8. /\ Range(table') \cup Range(batch') \cup Range(ch') = R
      /\ Stored("tick", table') \cup Waiting("tick", batch') \cup Waiting("tick", ch') = K
      /\ Stored("tick", table') = T
  BY <1>0, <1>2, <1>3, <1>4
<1>9. /\ \A h \in Granularities : Newest(h, ticks[h], R, K)
      /\ \A h \in Granularities : ticks[h] # NoTick =>
            /\ TwiceOnlyTorn(ticks[h], torn)
            /\ \A m \in Range(ticks[h].logs) :
                  \/ m <= lastSeq /\ <<m, h>> \notin Waiting("tick", pushing)
                  \/ m \in torn /\ h < Longest
      /\ \A r \in R : TwiceOnlyTorn(r, torn)
      /\ \A k \in T, m \in Matches : lastSeq < m => k[1] <= m
      /\ pushing # << >> => \A k \in T : k[1] <= lastSeq
  BY <1>1 DEF TicksOK
<1> HIDE DEF R, K, T, B
<1>10. /\ TicksGrow(table', batch', ch')
       /\ TicksKnown(Stored("tick", table'), batch', ch')
  BY <1>0, <1>6, <1>7, <1>8
<1> QED
  BY <1>0, <1>8, <1>9, <1>10 DEF TicksOK

\* A batch stored, for the first time or again, puts no tick back.
LEMMA TicksStore ==
    ASSUME Inv, StoreRows \/ StoreUnacknowledged, kind = "tick"
    PROVE  TicksOK'
<1> DEFINE T == Stored("tick", table)
           B == Waiting("tick", batch)
           C == Waiting("tick", ch)
           R == Range(table) \cup Range(batch) \cup Range(ch)
<1>0. /\ UNCHANGED <<kind, lastSeq, pushing, ch, ticks, torn>>
      /\ table' = InsertedAll(table, batch)
      /\ batch' = << >> \/ batch' = batch
  BY DEF StoreRows, StoreUnacknowledged, InsertedAll, memory
<1>1. /\ table \in Seq(TickRows) /\ batch \in Seq(TickRows) /\ ch \in Seq(TickRows)
      /\ TicksGrow(table, batch, ch) /\ TicksKnown(T, batch, ch)
      /\ TicksOK /\ lastSeq \in Nat
      /\ \A k \in B : k[1] <= lastSeq /\ k[1] \in Nat
  <2>1. /\ table \in Seq(TickRows) /\ batch \in Seq(TickRows) /\ ch \in Seq(TickRows)
        /\ TicksGrow(table, batch, ch) /\ TicksKnown(T, batch, ch)
        /\ TicksOK /\ lastSeq \in Nat
        /\ \A k \in B : k[1] <= lastSeq
    BY TicksFacts DEF TicksOK, Lined, UnderWay
  <2>2. B \in SUBSET Keys("tick") /\ "tick" \in Kinds
    BY InvKeys, TicksFacts DEF Inv
  <2> QED
    BY <2>1, <2>2, KeyFacts
<1>2. /\ Stored("tick", table') = T \cup B
      /\ Range(table') \subseteq Range(table) \cup Range(batch)
      /\ TicksGrow(table', << >>, ch) /\ TicksGrow(table', batch, ch)
      /\ TicksKnown(Stored("tick", table'), << >>, ch)
      /\ TicksKnown(Stored("tick", table'), batch, ch)
  BY <1>0, <1>1, TicksAfterStore
<1>3. Waiting("tick", << >>) = {} /\ Range(<< >>) = {}
  BY NoRows
<1>4. /\ Range(table') \cup Range(batch') \cup Range(ch') \subseteq R
      /\ Stored("tick", table') \cup Waiting("tick", batch') \cup Waiting("tick", ch')
           = T \cup B \cup C
  BY <1>0, <1>2, <1>3
<1>5. /\ TicksGrow(table', batch', ch')
      /\ TicksKnown(Stored("tick", table'), batch', ch')
  BY <1>0, <1>2
<1>6. /\ \A h \in Granularities : Newest(h, ticks[h], R, T \cup B \cup C)
      /\ \A h \in Granularities : ticks[h] # NoTick =>
            /\ TwiceOnlyTorn(ticks[h], torn)
            /\ \A m \in Range(ticks[h].logs) :
                  \/ m <= lastSeq /\ <<m, h>> \notin Waiting("tick", pushing)
                  \/ m \in torn /\ h < Longest
      /\ \A r \in R : TwiceOnlyTorn(r, torn)
      /\ \A k \in T, m \in Matches : lastSeq < m => k[1] <= m
      /\ pushing # << >> => \A k \in T : k[1] <= lastSeq
  BY <1>1 DEF TicksOK
<1>7. \A k \in B, m \in Matches : lastSeq < m => k[1] <= m
  <2>1. Matches \subseteq Nat
    BY Constants
  <2> QED
    BY <1>1, <2>1
<1>8. \A k \in B : k[1] <= lastSeq
  BY <1>1
<1> HIDE DEF R, T, B, C
<1>9. /\ \A k \in Stored("tick", table'), m \in Matches : lastSeq' < m => k[1] <= m
      /\ pushing' # << >> => \A k \in Stored("tick", table') : k[1] <= lastSeq'
  BY <1>0, <1>2, <1>6, <1>7, <1>8
<1>10. \A h \in Granularities :
          Newest(h, ticks'[h], Range(table') \cup Range(batch') \cup Range(ch'),
                 Stored("tick", table') \cup Waiting("tick", batch') \cup Waiting("tick", ch'))
  BY <1>0, <1>4, <1>6 DEF Newest
<1>11. /\ \A h \in Granularities : ticks'[h] # NoTick =>
             /\ TwiceOnlyTorn(ticks'[h], torn')
             /\ \A m \in Range(ticks'[h].logs) :
                   \/ m <= lastSeq' /\ <<m, h>> \notin Waiting("tick", pushing')
                   \/ m \in torn' /\ h < Longest
       /\ \A r \in Range(table') \cup Range(batch') \cup Range(ch') : TwiceOnlyTorn(r, torn')
  BY <1>0, <1>4, <1>6
<1> QED
  BY <1>5, <1>9, <1>10, <1>11 DEF TicksOK

\* A worker that starts again has the last ticks of the table; what they count
\* of logs it reads again was torn.
LEMMA TicksCrash ==
    ASSUME Inv, Crash, kind = "tick"
    PROVE  TicksOK'
<1> DEFINE T == Stored("tick", table)
<1>0. /\ UNCHANGED <<kind, table>>
      /\ pushing' = << >> /\ ch' = << >> /\ batch' = << >>
      /\ torn \subseteq torn' /\ lastSeq' \in Nat
      /\ \A m \in Matches : \A i, j \in DOMAIN PartsOf("tick", m) :
            <<m, i>> \in T /\ <<m, j>> \notin T => m \in torn'
      /\ table # << >> => \E k \in T : k[1] = lastSeq' /\ ResumesAfter("tick", T, k)
  BY CrashFacts
<1>1. /\ TicksOK /\ OneRowEach(table) /\ table \in Seq(TickRows)
      /\ T \in SUBSET Keys("tick") /\ "tick" \in Kinds
      /\ \A r \in Range(table) : r \in TickRows /\ TwiceOnlyTorn(r, torn)
  BY TicksFacts DEF TicksOK, TicksGrow
<1>2. /\ DOMAIN << >> = {} /\ Range(<< >>) = {} /\ Waiting("tick", << >>) = {}
      /\ table = << >> => T = {}
  BY NoRows
<1>3. \A r \in Range(table) : TwiceOnlyTorn(r, torn')
  BY <1>0, <1>1 DEF TwiceOnlyTorn
<1>4. \A g \in Granularities :
         /\ ticks'[g] = NoTick <=> \A r \in Range(table) : r.part # g
         /\ ticks'[g] # NoTick =>
              /\ ticks'[g] \in Range(table) /\ ticks'[g] \in TickRows
              /\ ticks'[g].part = g
              /\ \A r \in Range(table) : r.part = g =>
                    r.time <= ticks'[g].time /\ (r.time = ticks'[g].time => r = ticks'[g])
  BY CrashTicks
\* What is stored of a later log than the one the worker resumes after.
<1>5. ASSUME NEW k \in T, lastSeq' < k[1]
      PROVE  /\ k[1] \in torn' /\ k[2] < Longest
             /\ \A m \in Matches : lastSeq' < m => k[1] <= m
  <2>1. PICK l \in T : l[1] = lastSeq' /\ ResumesAfter("tick", T, l)
    BY <1>0, <1>2
  <2>2. /\ k = <<k[1], k[2]>> /\ k[1] \in Matches /\ k[2] \in Granularities /\ k[1] \in Nat
        /\ l[1] \in Nat /\ l[2] \in Granularities
        /\ Matches \subseteq Nat /\ Granularities = 1 .. Longest /\ Longest \in Nat
    BY <1>1, KeyFacts, Constants
  <2>3. \A o \in T : o[2] <= l[2] /\ (o[2] = l[2] => o[1] <= lastSeq')
    BY <2>1 DEF ResumesAfter
  <2>4. k[2] < l[2] /\ k[2] < Longest
    <3>1. k[2] <= l[2] /\ k[2] # l[2]
      BY <1>0, <1>5, <2>2, <2>3
    <3> QED
      BY <2>2, <3>1
  <2>5. ASSUME NEW m \in Matches, lastSeq' < m
        PROVE  <<m, l[2]>> \notin T /\ <<m, l[2]>> \in Keys("tick")
    <3>1. ~ (m <= lastSeq')
      BY <1>0, <2>2, <2>5
    <3>2. <<m, l[2]>>[2] = l[2] /\ <<m, l[2]>>[1] = m
      OBVIOUS
    <3> QED
      BY <2>2, <2>3, <3>1, <3>2, TickKeys
  <2>6. k[1] \in torn'
    <3>1. DOMAIN PartsOf("tick", k[1]) = Granularities
      BY <2>2 DEF PartsOf
    <3>2. <<k[1], k[2]>> \in T /\ <<k[1], l[2]>> \notin T
      BY <1>5, <2>2, <2>5
    <3> QED
      BY <1>0, <2>2, <3>1, <3>2
  <2>7. ASSUME NEW m \in Matches, lastSeq' < m
        PROVE  k[1] <= m
    <3>1. SUFFICES ASSUME m < k[1]
                   PROVE  FALSE
      BY <2>2
    <3> DEFINE o == <<m, l[2]>>
               W == UnderWay("tick", batch, ch, pushing)
    <3>2. o \in Keys("tick") /\ o \notin T /\ o[1] = m /\ Before(o, k)
      BY <2>5, <2>7, <3>1 DEF Before
    <3>3. /\ Whole("tick", T, W, lastSeq, torn)
          /\ W \in SUBSET Keys("tick") /\ lastSeq \in Nat
      BY InvKeys DEF Inv, Kept, TypeOK
    <3> HIDE DEF o, W, T
    <3>4. o \notin W /\ o[1] <= lastSeq
      BY <3>2, <3>3 DEF Whole
    <3>5. Passed("tick", T, m)
      BY <3>2, <3>3, <3>4 DEF Whole
    <3>6. \A seq \in Nat : Passed("tick", T, seq) => seq <= l[1]
      BY <1>0, <1>1, <2>1, <3>3, WholeRestarts
    <3>7. m <= lastSeq'
      BY <2>1, <2>2, <3>5, <3>6
    <3> QED
      BY <1>0, <2>2, <2>7, <3>7
  <2> QED
    BY <2>4, <2>6, <2>7
<1>6. \A k \in T, m \in Matches : lastSeq' < m => k[1] <= m
  <2>1. SUFFICES ASSUME NEW k \in T, NEW m \in Matches, lastSeq' < m
                 PROVE  k[1] <= m
    OBVIOUS
  <2>2. k[1] \in Nat /\ m \in Nat
    BY <1>1, KeyFacts, Constants
  <2>3. CASE lastSeq' < k[1]
    BY <1>5, <2>1, <2>3
  <2>4. CASE ~ (lastSeq' < k[1])
    BY <1>0, <2>1, <2>2, <2>4
  <2> QED
    BY <2>3, <2>4
<1>7. ASSUME NEW g \in Granularities, ticks'[g] # NoTick
      PROVE  /\ TwiceOnlyTorn(ticks'[g], torn')
             /\ \A m \in Range(ticks'[g].logs) :
                   \/ m <= lastSeq' /\ <<m, g>> \notin Waiting("tick", pushing')
                   \/ m \in torn' /\ g < Longest
             /\ Counted("tick", ticks'[g]) \subseteq T
  <2> DEFINE x == ticks'[g]
  <2>1. x \in Range(table) /\ x \in TickRows /\ x.part = g
    BY <1>4, <1>7
  <2> HIDE DEF x
  <2>2. Counted("tick", x) \subseteq T
    BY <2>1 DEF Stored
  <2>3. ASSUME NEW m \in Range(x.logs)
        PROVE  \/ m <= lastSeq'
               \/ m \in torn' /\ g < Longest
    <3>1. <<m, g>> \in T
      BY <2>1, <2>2 DEF Counted, No
    <3>2. m \in Nat
      <4>1. x.logs \in Seq(Matches)
        BY <2>1 DEF TickRows
      <4> QED
        BY <4>1, RangeFacts, Constants
    <3>3. CASE lastSeq' < m
      <4>1. <<m, g>>[1] = m /\ <<m, g>>[2] = g
        OBVIOUS
      <4> QED
        BY <1>5, <3>1, <3>3, <4>1
    <3>4. CASE ~ (lastSeq' < m)
      BY <1>0, <3>2, <3>4
    <3> QED
      BY <3>3, <3>4
  <2>4. TwiceOnlyTorn(x, torn')
    BY <1>3, <2>1
  <2>5. Waiting("tick", pushing') = {}
    BY <1>0, <1>2
  <2> QED
    BY <2>2, <2>3, <2>4, <2>5 DEF x
<1>8. ASSUME NEW g \in Granularities
      PROVE  Newest(g, ticks'[g], Range(table), T)
  <2>1. CASE ticks'[g] = NoTick
    BY <1>4, <2>1 DEF Newest
  <2>2. CASE ticks'[g] # NoTick
    <3>1. \A r \in Range(table) : r.part = g =>
             r.time <= ticks'[g].time /\ (r.time = ticks'[g].time => r = ticks'[g])
      BY <1>4, <2>2
    <3>2. \A r \in Range(table) : r.part = g => r.time <= ticks'[g].time /\ GrowsTo(r, ticks'[g])
      BY <3>1 DEF GrowsTo, SameTick
    <3> QED
      BY <1>7, <2>2, <3>2 DEF Newest
  <2> QED
    BY <2>1, <2>2
<1>9. /\ TicksGrow(table, << >>, << >>) /\ TicksKnown(T, << >>, << >>)
  BY <1>1, <1>2 DEF TicksGrow, TicksKnown, Growing, GrowsIn
<1>10. /\ Range(table') \cup Range(batch') \cup Range(ch') = Range(table)
       /\ Stored("tick", table') \cup Waiting("tick", batch') \cup Waiting("tick", ch') = T
       /\ Stored("tick", table') = T
  BY <1>0, <1>2
<1> HIDE DEF T
<1>11. TicksGrow(table', batch', ch') /\ TicksKnown(Stored("tick", table'), batch', ch')
  BY <1>0, <1>9, <1>10
<1> QED
  BY <1>0, <1>3, <1>6, <1>7, <1>8, <1>10, <1>11 DEF TicksOK

-----------------------------------------------------------------------------
(* Every step keeps the invariant: the theorems. *)

\* When nothing moves.
LEMMA InvStutters == Inv /\ UNCHANGED vars => Inv'
<1> SUFFICES ASSUME Inv, UNCHANGED vars
             PROVE  Inv'
  OBVIOUS
<1>1. UNCHANGED <<kind, offset, lastSeq, pushing, ch, batch, storing, ticks, table, faults,
                  torn, repeated>>
  BY DEF vars, memory
<1>2. /\ TypeOK' /\ Lined(kind, batch, ch, pushing, lastSeq)' /\ Kept'
  <2>1. TypeOK /\ Lined(kind, batch, ch, pushing, lastSeq) /\ Kept
    BY DEF Inv
  <2>2. TypeOK'
    BY <1>1, <2>1 DEF TypeOK
  <2> QED
    BY <1>1, <2>1, <2>2 DEF Kept
<1>3. kind' = "tick" => TicksOK'
  <2>1. SUFFICES ASSUME kind = "tick"
                 PROVE  TicksOK'
    BY <1>1
  <2>2. TicksOK
    BY <2>1 DEF Inv
  <2> QED
    BY <1>1, <2>2 DEF TicksOK
<1>4. kind' # "tick" => RowsOK'
  <2>1. SUFFICES ASSUME kind # "tick"
                 PROVE  RowsOK'
    BY <1>1
  <2>2. RowsOK
    BY <2>1 DEF Inv
  <2> QED
    BY <1>1, <2>2 DEF RowsOK
<1>5. kind' = "tick" => ClockForward
  BY <1>1 DEF Inv
<1> QED
  BY <1>2, <1>3, <1>4, <1>5 DEF Inv

\* Every action keeps the invariant.
LEMMA NextInv == Inv /\ [Next]_vars => Inv'
<1> SUFFICES ASSUME Inv, [Next]_vars
             PROVE  Inv'
  OBVIOUS
<1>1. CASE Read
  <2>1. kind' = kind
    BY <1>1 DEF Read
  <2> QED
    BY <1>1, <2>1, ReadKeeps, RowsRead, TicksRead DEF Inv
<1>2. CASE Push
  <2>1. kind' = kind
    BY <1>2 DEF Push
  <2> QED
    BY <1>2, <2>1, PushKeeps, RowsPush, TicksPush DEF Inv
<1>3. CASE TakeRow
  <2>1. kind' = kind
    BY <1>3 DEF TakeRow
  <2> QED
    BY <1>3, <2>1, TakeKeeps, RowsTaken, TicksTake DEF Inv
<1>4. CASE StoreRows \/ StoreUnacknowledged
  <2>1. kind' = kind
    BY <1>4 DEF StoreRows, StoreUnacknowledged
  <2> QED
    BY <1>4, <2>1, StoreKeeps, RowsStoredAgain, TicksStore DEF Inv
<1>5. CASE Crash
  <2>1. kind' = kind
    BY <1>5 DEF Crash
  <2> QED
    BY <1>5, <2>1, CrashKeeps, RowsCrash, TicksCrash DEF Inv
<1>6. CASE Over \/ UNCHANGED vars
  BY <1>6, InvStutters DEF Over
<1> QED
  BY <1>1, <1>2, <1>3, <1>4, <1>5, <1>6 DEF Next

\* The invariant holds of every behaviour of the three workers: of their reader,
\* observer and flusher, through crashes and lost acknowledgements.
THEOREM WorkersInvariant == Spec /\ Clocked => []Inv
<1>1. Init /\ Clocked => Inv
  BY InitInv
<1>2. Inv /\ [Next]_vars => Inv'
  BY NextInv
<1> QED
  BY <1>1, <1>2, PTL DEF Spec

\* The state of the workers keeps its type: what is pushed, taken and stored are
\* rows of logs of the topic, and each tick in memory is of its granularity.
THEOREM TypeCorrect == Spec /\ Clocked => []TypeOK
<1>1. Inv => TypeOK
  BY DEF Inv
<1> QED
  BY <1>1, WorkersInvariant, PTL

\* No row is stored before the rows of an earlier log, nor the second row of a
\* log before the first, but for a match torn apart by a crash: the row a worker
\* resumes after (Last of the table, or the tick of the longest granularity)
\* leaves nothing unread.
THEOREM NothingIsLeftOut == Spec /\ Clocked => []NothingLeftOut
<1>1. Inv => NothingLeftOut
  BY InvNothingLeftOut
<1> QED
  BY <1>1, WorkersInvariant, PTL

\* No fill is stored twice, no trade but by an insert repeated, and no log is in
\* a tick twice but where it was torn and the granularity is not the longest: a
\* tick that is read from the table again goes on where it stopped.
THEOREM EachIsCountedOnce == Spec /\ Clocked => []CountedOnce
<1>1. Inv => CountedOnce
  BY InvCountedOnce
<1> QED
  BY <1>1, WorkersInvariant, PTL

=============================================================================
