--------------------------- MODULE ExchangeProofs ---------------------------
(***************************************************************************)
(* Theorems about the life of an order from the request to the last bill:  *)
(* what the variables hold, that no currency is made or lost, that what an *)
(* account has on hold is what its live orders still need, and that rows   *)
(* tell what rests on the book.                                            *)
(***************************************************************************)
EXTENDS Exchange, MatchingProofs

-----------------------------------------------------------------------------
(* What the variables hold. *)

Rows == [status : {"none", "new", "open"} \cup Final, filled : Nat, executed : Nat]
BillRecords == [available : Int, hold : Int]
TradeFills == [done : {FALSE}, size : Nat, price : Nat, reason : {""}]
DoneFills == [done : {TRUE}, size : Nat, price : {0}, reason : Final]
FillRecords == TradeFills \cup DoneFills
MessageRecords == {[order |-> Order(id), cancel |-> c] : id \in OrderIds, c \in BOOLEAN}

\* The entries of the book are on the sides of their orders.
SidesAgree(b) == \A side \in Sides : \A m \in b.depths[side] : Side(m.id) = side

\* A match is between a buyer and a seller.
IsExchangeLog(log) ==
    IsLog(log) /\ (log.kind = "match" => Side(log.maker) = Opposite(Side(log.taker)))

AccountsOK == accounts \in [Accounts -> [available : Int, hold : Int]]
RowsOK == rows \in [OrderIds -> Rows]
BillsOK == bills \in [Accounts -> Seq(BillRecords)]
FillsOK == fills \in [OrderIds -> Seq(FillRecords)]
RequestsOK == checked \subseteq OrderIds /\ committed \subseteq OrderIds /\ missed \subseteq OrderIds
TopicOK == topic \in Seq(MessageRecords)
EngineOK ==
    /\ engine = [book |-> engine.book, window |-> engine.window, seen |-> engine.seen]
    /\ engine.seen \subseteq OrderIds
    /\ IsOrderBook(engine.book) /\ SidesAgree(engine.book)
LogsOK == IsSequence(logs) /\ \A log \in Range(logs) : IsExchangeLog(log)
WorkOK == fillWork \subseteq OrderIds /\ billWork \subseteq Accounts

TypeInv ==
    /\ AccountsOK /\ RowsOK /\ BillsOK /\ FillsOK /\ RequestsOK /\ TopicOK
    /\ EngineOK /\ LogsOK /\ WorkOK

-----------------------------------------------------------------------------
(* What follows from the constants. *)

LEMMA PlacedOrder ==
    ASSUME NEW id \in OrderIds
    PROVE  /\ Order(id) \in Orders /\ Order(id).id = id
           /\ Side(id) \in Sides /\ Side(id) = Order(id).side
           /\ HoldAccount(id) \in Accounts /\ GainAccount(id) \in Accounts
           /\ HoldAccount(id) # GainAccount(id)
           /\ HoldSize(id) \in Nat
           /\ HoldAccount(id) = <<Placed[id].user, IF Side(id) = "buy" THEN "quote" ELSE "base">>
           /\ GainAccount(id) = <<Placed[id].user, IF Side(id) = "buy" THEN "base" ELSE "quote">>
           /\ Placed[id].user \in Users
<1>1. Order(id) \in Orders /\ Order(id).id = id
  BY ExchangeAssumption DEF Order
<1>2. Order(id).side \in Sides /\ Order(id).size \in Nat /\ Order(id).funds \in Nat
  BY <1>1, OrderFacts
<1>3. Placed[id].user \in Users
  BY DEF Users
<1>4. HoldSize(id) \in Nat
  BY <1>2 DEF HoldSize
<1> QED
  BY <1>1, <1>2, <1>3, <1>4 DEF Side, HoldAccount, GainAccount, Accounts, Currencies

LEMMA FiniteConstants == IsFiniteSet(OrderIds) /\ IsFiniteSet(Users)
<1>1. IsFiniteSet(OrderIds)
  BY ExchangeAssumption
<1> DEFINE f == [id \in OrderIds |-> Placed[id].user]
<1>2. f \in Surjection(OrderIds, Users)
  BY DEF Surjection, Users
<1> QED
  BY <1>1, <1>2, FS_Surjection

-----------------------------------------------------------------------------
(* Sums of bills and of fills. *)

HoldIn == [x \in BillRecords |-> x.hold]
AvailableIn == [x \in BillRecords |-> x.available]
TotalIn == [x \in BillRecords |-> x.available + x.hold]
MovedIn(currency) == [f \in FillRecords |-> Moved(f, currency)]

LEMMA BillNumbers ==
    ASSUME NEW s \in Seq(BillRecords)
    PROVE  /\ IsSequence(s) /\ Numbers(HoldIn, s) /\ Numbers(AvailableIn, s) /\ Numbers(TotalIn, s)
           /\ SumAlong(HoldIn, s) \in Int /\ SumAlong(AvailableIn, s) \in Int
           /\ SumAlong(TotalIn, s) = SumAlong(AvailableIn, s) + SumAlong(HoldIn, s)
           /\ SumFunction([i \in DOMAIN s |-> s[i].hold]) = SumAlong(HoldIn, s)
           /\ SumFunction([i \in DOMAIN s |-> s[i].available]) = SumAlong(AvailableIn, s)
           /\ SumFunction([i \in DOMAIN s |-> s[i].available + s[i].hold]) = SumAlong(TotalIn, s)
<1>1. IsSequence(s) /\ Range(s) \subseteq BillRecords
  BY SequenceOver
<1>2. \A x \in BillRecords : /\ x.available \in Int /\ x.hold \in Int
                             /\ HoldIn[x] = x.hold /\ AvailableIn[x] = x.available
                             /\ TotalIn[x] = x.available + x.hold
  BY DEF BillRecords, HoldIn, AvailableIn, TotalIn
<1>3. Numbers(HoldIn, s) /\ Numbers(AvailableIn, s) /\ Numbers(TotalIn, s)
  BY <1>1, <1>2 DEF Numbers
<1>4. DOMAIN s = 1 .. Len(s) /\ Len(s) \in Nat /\ \A i \in DOMAIN s : s[i] \in BillRecords
  BY <1>1, SequenceFacts
<1>5. IsFiniteSet(DOMAIN s)
  <2>1. \A n \in Nat : IsFiniteSet(1 .. n)
    BY FS_Interval
  <2> QED
    BY <1>4, <2>1
<1> DEFINE h == [i \in DOMAIN s |-> HoldIn[s[i]]]
           a == [i \in DOMAIN s |-> AvailableIn[s[i]]]
           t == [i \in DOMAIN s |-> TotalIn[s[i]]]
<1>6. /\ [i \in DOMAIN s |-> s[i].hold] = h
      /\ [i \in DOMAIN s |-> s[i].available] = a
      /\ [i \in DOMAIN s |-> s[i].available + s[i].hold] = t
  BY <1>2, <1>4
<1>7. /\ DOMAIN h = DOMAIN s /\ DOMAIN a = DOMAIN s /\ DOMAIN t = DOMAIN s
      /\ \A i \in DOMAIN s : h[i] \in Int /\ a[i] \in Int /\ t[i] = a[i] + h[i]
  BY <1>2, <1>4
<1>8. /\ SumFunctionOnSet(h, DOMAIN s) = SumAlong(HoldIn, s)
      /\ SumFunctionOnSet(a, DOMAIN s) = SumAlong(AvailableIn, s)
      /\ SumFunctionOnSet(t, DOMAIN s) = SumAlong(TotalIn, s)
  BY DEF SumAlong
<1> HIDE DEF h, a, t
<1>9. /\ SumFunction(h) = SumAlong(HoldIn, s)
      /\ SumFunction(a) = SumAlong(AvailableIn, s)
      /\ SumFunction(t) = SumAlong(TotalIn, s)
  BY <1>7, <1>8 DEF SumFunction
<1>10. SumFunctionOnSet(t, DOMAIN s) = SumFunctionOnSet(a, DOMAIN s) + SumFunctionOnSet(h, DOMAIN s)
  BY <1>5, <1>7, SumOfSums
<1>11. SumAlong(HoldIn, s) \in Int /\ SumAlong(AvailableIn, s) \in Int
  BY <1>1, <1>3, AlongIsSummable
<1> QED
  BY <1>1, <1>3, <1>6, <1>8, <1>9, <1>10, <1>11

LEMMA FillNumbers ==
    ASSUME NEW s \in Seq(FillRecords), NEW currency
    PROVE  /\ IsSequence(s) /\ Numbers(MovedIn(currency), s)
           /\ \A f \in Range(s) : f \in FillRecords /\ MovedIn(currency)[f] = Moved(f, currency)
                                  /\ Moved(f, currency) \in Nat
           /\ SumAlong(MovedIn(currency), s) \in Nat
           /\ SumFunction([i \in DOMAIN s |-> Moved(s[i], currency)]) = SumAlong(MovedIn(currency), s)
<1>1. IsSequence(s) /\ Range(s) \subseteq FillRecords
  BY SequenceOver
<1>2. \A f \in FillRecords : Moved(f, currency) \in Nat
  <2> SUFFICES ASSUME NEW f \in FillRecords PROVE Moved(f, currency) \in Nat
    OBVIOUS
  <2>1. CASE f \in TradeFills
    <3>1. f.size \in Nat /\ f.price \in Nat
      BY <2>1 DEF TradeFills
    <3>2. f.size * f.price \in Nat
      BY <3>1
    <3> QED
      BY <3>1, <3>2 DEF Moved
  <2>2. CASE f \in DoneFills
    BY <2>2 DEF DoneFills, Moved
  <2> QED
    BY <2>1, <2>2 DEF FillRecords
<1>3. \A f \in Range(s) : f \in FillRecords /\ MovedIn(currency)[f] = Moved(f, currency)
                          /\ Moved(f, currency) \in Nat
  BY <1>1, <1>2 DEF MovedIn
<1>4. Numbers(MovedIn(currency), s)
  BY <1>3 DEF Numbers
<1>5. DOMAIN s = 1 .. Len(s) /\ Len(s) \in Nat /\ \A i \in DOMAIN s : s[i] \in Range(s)
  BY <1>1, SequenceFacts
<1>6. IsFiniteSet(DOMAIN s)
  <2>1. \A n \in Nat : IsFiniteSet(1 .. n)
    BY FS_Interval
  <2> QED
    BY <1>5, <2>1
<1> DEFINE g == [i \in DOMAIN s |-> MovedIn(currency)[s[i]]]
<1>7. [i \in DOMAIN s |-> Moved(s[i], currency)] = g
  BY <1>3, <1>5
<1>8. DOMAIN g = DOMAIN s /\ \A i \in DOMAIN s : g[i] \in Nat
  BY <1>3, <1>5
<1>9. SumFunctionOnSet(g, DOMAIN s) = SumAlong(MovedIn(currency), s)
  BY DEF SumAlong
<1> HIDE DEF g
<1>10. SumFunction(g) = SumAlong(MovedIn(currency), s)
  BY <1>8, <1>9 DEF SumFunction
<1>11. SumAlong(MovedIn(currency), s) \in Nat
  BY <1>6, <1>8, <1>9, SumOfNaturals
<1> QED
  BY <1>1, <1>3, <1>4, <1>7, <1>10, <1>11

-----------------------------------------------------------------------------
(* The loop of ExecuteFill. *)

\* The recursion of its fold over the index sets D.
FillsOn(g, id, start, s, D) ==
    g = [T \in D |-> IF T = {} THEN start ELSE AfterFill(id, g[T \ {Max(T)}], s[Max(T)])]

LEMMA MaxOfSet ==
    ASSUME NEW n \in Nat, NEW T \in SUBSET (1 .. n), T # {}
    PROVE  Max(T) \in T
<1> DEFINE U == {n - i : i \in T}
<1>1. U \in SUBSET Nat /\ U # {}
  <2>1. \A i \in T : n - i \in Nat
    OBVIOUS
  <2> QED
    BY <2>1
<1>2. PICK u \in U : \A v \in U : u <= v
  BY <1>1, LeastNumber
<1>3. PICK i \in T : u = n - i
  BY <1>2
<1>4. \A j \in T : i >= j
  <2> SUFFICES ASSUME NEW j \in T PROVE i >= j
    OBVIOUS
  <2>1. n - j \in U /\ i \in Int /\ j \in Int
    OBVIOUS
  <2>2. n - i <= n - j
    BY <1>2, <1>3, <2>1
  <2> QED
    BY <2>1, <2>2
<1> QED
  BY <1>4 DEF Max

LEMMA FillsExist ==
    ASSUME NEW id, NEW start, NEW s, NEW n \in Nat
    PROVE  \E g : FillsOn(g, id, start, s, SUBSET (1 .. n))
<1> DEFINE S == 1 .. n
           Small(k) == {T \in SUBSET S : Cardinality(T) <= k}
           Good == {k \in Nat : \E g : FillsOn(g, id, start, s, Small(k))}
<1>0. IsFiniteSet(S)
  BY FS_Interval
<1>1. \A T \in SUBSET S : IsFiniteSet(T) /\ Cardinality(T) \in Nat
                          /\ Cardinality(T) <= Cardinality(S)
  BY <1>0, FS_Subset, FS_CardinalityType
<1>2. \A T \in SUBSET S : T # {} => /\ Max(T) \in T
                                    /\ T \ {Max(T)} \in SUBSET S
                                    /\ Cardinality(T \ {Max(T)}) = Cardinality(T) - 1
  <2> SUFFICES ASSUME NEW T \in SUBSET S, T # {}
               PROVE  /\ Max(T) \in T /\ T \ {Max(T)} \in SUBSET S
                      /\ Cardinality(T \ {Max(T)}) = Cardinality(T) - 1
    OBVIOUS
  <2>1. Max(T) \in T
    BY MaxOfSet
  <2> QED
    BY <1>1, <2>1, FS_RemoveElement
<1> HIDE DEF S
<1>3. 0 \in Good
  <2> DEFINE g == [T \in Small(0) |-> start]
  <2>1. \A T \in Small(0) : T = {}
    BY <1>1, FS_EmptySet
  <2>2. FillsOn(g, id, start, s, Small(0))
    BY <2>1 DEF FillsOn
  <2> QED
    BY <2>2
<1>4. ASSUME NEW k \in 1 .. Cardinality(S), k - 1 \in Good
      PROVE  k \in Good
  <2>1. PICK g : FillsOn(g, id, start, s, Small(k - 1))
    BY <1>4
  <2> DEFINE h == [T \in Small(k) |-> IF T = {} THEN start
                                      ELSE AfterFill(id, g[T \ {Max(T)}], s[Max(T)])]
  <2>2. Cardinality(S) \in Nat
    BY <1>1
  <2>3. \A T \in Small(k - 1) : T \in Small(k) /\ h[T] = g[T]
    <3>1. \A T \in Small(k - 1) : T \in Small(k)
      BY <1>1, <2>2
    <3> QED
      BY <2>1, <3>1 DEF FillsOn
  <2>4. \A T \in Small(k) : T # {} => T \ {Max(T)} \in Small(k - 1)
    BY <1>1, <1>2, <2>2
  <2>5. FillsOn(h, id, start, s, Small(k))
    BY <2>3, <2>4 DEF FillsOn
  <2> HIDE DEF h
  <2>6. k \in Nat
    BY <2>2
  <2> QED
    BY <2>5, <2>6
<1> HIDE DEF Good
<1>5. Cardinality(S) \in Nat /\ Cardinality(S) \in Good
  BY <1>1, <1>3, <1>4, NumberInduction
<1>6. Small(Cardinality(S)) = SUBSET S
  BY <1>1
<1> QED
  BY <1>5, <1>6 DEF Good, S

\* What the loop has after each fill of s.
LoopStates(a, id, row, s) ==
    /\ a[0] = [row |-> row, gain |-> << >>, spend |-> << >>, settled |-> 0]
    /\ \A i \in 1 .. Len(s) : a[i] = AfterFill(id, a[i - 1], s[i])
    /\ AfterFills(id, row, s) = a[Len(s)]

\* The fold goes through the fills one by one.
LEMMA FoldFills ==
    ASSUME NEW id, NEW row, NEW s, IsSequence(s)
    PROVE  \E a : LoopStates(a, id, row, s)
<1> DEFINE n == Len(s)
           start == [row |-> row, gain |-> << >>, spend |-> << >>, settled |-> 0]
           S == 1 .. n
           g == CHOOSE g : FillsOn(g, id, start, s, SUBSET S)
           a == [i \in 0 .. n |-> g[1 .. i]]
           fold == FoldLeft(LAMBDA acc, fill : AfterFill(id, acc, fill), start, s)
<1>1. n \in Nat /\ DOMAIN s = S
  BY SequenceFacts
<1>2. FillsOn(g, id, start, s, SUBSET S)
  BY <1>1, FillsExist, Zenon
<1>3. fold = g[S]
  <2>1. fold = (CHOOSE iter : iter = [T \in SUBSET (DOMAIN s) |->
                   IF T = {} THEN start
                   ELSE AfterFill(id, iter[T \ {Max(T)}], s[Max(T)])])[DOMAIN s]
    BY Zenon DEF FoldLeft, MapThenFoldSet
  <2> QED
    BY <1>1, <2>1, Zenon DEF FillsOn
<1> HIDE DEF g, fold
<1>4. \A i \in 0 .. n : a[i] = g[1 .. i]
  OBVIOUS
<1>5. a[0] = start
  <2>1. 0 \in 0 .. n /\ 1 .. 0 = {}
    BY <1>1
  <2>2. g[{}] = start
    BY <1>2 DEF FillsOn
  <2> QED
    BY <1>4, <2>1, <2>2
<1>6. ASSUME NEW i \in 1 .. n
      PROVE  a[i] = AfterFill(id, a[i - 1], s[i])
  <2>0. i \in 0 .. n /\ i - 1 \in 0 .. n /\ i \in Nat /\ i <= n
    BY <1>1
  <2>1. i \in 0 .. n /\ i - 1 \in 0 .. n /\ 1 .. i \in SUBSET S /\ 1 .. i # {} /\ i \in Nat
    <3>1. \A j \in 1 .. i : j \in 1 .. n
      BY <1>1, <2>0
    <3>2. i \in 1 .. i
      BY <2>0
    <3> QED
      BY <2>0, <3>1, <3>2
  <2>2. Max(1 .. i) = i
    <3>1. i \in 1 .. i /\ \A j \in 1 .. i : i >= j
      BY <2>1
    <3>2. \A k \in 1 .. i : (\A j \in 1 .. i : k >= j) => k = i
      BY <2>1
    <3> QED
      BY <3>1, <3>2 DEF Max
  <2>3. (1 .. i) \ {i} = 1 .. (i - 1)
    BY <2>1
  <2>4. g[1 .. i] = AfterFill(id, g[(1 .. i) \ {Max(1 .. i)}], s[Max(1 .. i)])
    BY <1>2, <2>1 DEF FillsOn
  <2>5. g[1 .. i] = AfterFill(id, g[1 .. (i - 1)], s[i])
    BY <2>2, <2>3, <2>4
  <2> QED
    BY <1>4, <2>1, <2>5
<1>7. a[n] = g[S]
  BY <1>1, <1>4
<1> HIDE DEF a
<1>8. fold = a[n]
  BY <1>3, <1>7
<1>9. AfterFills(id, row, s) = a[n]
  BY <1>8 DEF AfterFills, fold
<1>10. LoopStates(a, id, row, s)
  BY <1>5, <1>6, <1>9 DEF LoopStates
<1> QED
  BY <1>10

\* What the first n fills of s move.
MovedBy(s, n, currency) == SumAlong(MovedIn(currency), SubSeq(s, 1, n))

LEMMA MovedOneMore ==
    ASSUME NEW s \in Seq(FillRecords), NEW currency
    PROVE  /\ MovedBy(s, 0, currency) = 0
           /\ \A n \in 0 .. Len(s) : MovedBy(s, n, currency) \in Nat
           /\ \A n \in 1 .. Len(s) : MovedBy(s, n, currency) =
                                     MovedBy(s, n - 1, currency) + Moved(s[n], currency)
<1> DEFINE e == MovedIn(currency)
<1>1. /\ IsSequence(s) /\ Numbers(e, s)
      /\ \A f \in Range(s) : e[f] = Moved(f, currency) /\ Moved(f, currency) \in Nat
  BY FillNumbers
<1>2. Len(s) \in Nat /\ \A i \in 1 .. Len(s) : s[i] \in Range(s)
  BY <1>1, SequenceFacts
<1>3. ASSUME NEW n \in 0 .. Len(s)
      PROVE  /\ IsSequence(SubSeq(s, 1, n)) /\ Len(SubSeq(s, 1, n)) = n
             /\ \A i \in 1 .. n : SubSeq(s, 1, n)[i] = s[i]
             /\ Numbers(e, SubSeq(s, 1, n))
             /\ MovedBy(s, n, currency) \in Nat
             /\ SubSeq(s, 1, n) \in Seq(FillRecords)
  <2>1. /\ IsSequence(SubSeq(s, 1, n)) /\ Range(SubSeq(s, 1, n)) \subseteq Range(s)
        /\ Len(SubSeq(s, 1, n)) = n /\ \A i \in 1 .. n : SubSeq(s, 1, n)[i] = s[i]
    BY <1>1, FirstPart
  <2>2. SubSeq(s, 1, n) \in Seq(FillRecords)
    <3>1. Range(s) \subseteq FillRecords
      BY SequenceOver
    <3>2. Range(SubSeq(s, 1, n)) \subseteq FillRecords
      BY <2>1, <3>1
    <3> QED
      BY <2>1, <3>2, SeqMonotonic DEF IsSequence
  <2>3. MovedBy(s, n, currency) \in Nat /\ Numbers(e, SubSeq(s, 1, n))
    BY <2>2, FillNumbers DEF MovedBy
  <2> QED
    BY <2>1, <2>2, <2>3
<1> HIDE DEF e
<1>4. MovedBy(s, 0, currency) = 0
  <2> DEFINE t == SubSeq(s, 1, 0)
  <2>1. IsSequence(t) /\ Len(t) = 0
    <3>1. 0 \in 0 .. Len(s)
      BY <1>2
    <3> QED
      BY <1>3, <3>1
  <2>2. MovedBy(s, 0, currency) = SumAlong(e, t)
    BY DEF MovedBy, e
  <2> HIDE DEF t
  <2>3. \A x \in Range(t) : FALSE
    BY <2>1, SequenceFacts
  <2> QED
    BY <2>1, <2>2, <2>3, SumAlongZeros
<1>5. ASSUME NEW n \in 1 .. Len(s)
      PROVE  MovedBy(s, n, currency) = MovedBy(s, n - 1, currency) + Moved(s[n], currency)
  <2>1. n - 1 \in 0 .. Len(s) /\ n \in 0 .. Len(s) /\ n - 1 \in Nat /\ n \in Nat /\ (n - 1) + 1 = n
    BY <1>2
  <2> DEFINE k == n - 1
             t == SubSeq(s, 1, n)
             u == SubSeq(s, 1, k)
             f == [i \in 1 .. n |-> e[t[i]]]
             g == [i \in 1 .. k |-> e[u[i]]]
  <2>2. /\ IsSequence(t) /\ Len(t) = n /\ Numbers(e, t) /\ \A i \in 1 .. n : t[i] = s[i]
        /\ IsSequence(u) /\ Len(u) = k /\ Numbers(e, u) /\ \A i \in 1 .. k : u[i] = s[i]
    BY <1>3, <2>1
  <2>3. MovedBy(s, n, currency) = SumAlong(e, t) /\ MovedBy(s, k, currency) = SumAlong(e, u)
    BY DEF MovedBy, e
  <2> HIDE DEF t, u, k
  <2>4. SumAlong(e, t) = SumFunctionOnSet(f, 1 .. n) /\ Summable(f, 1 .. n)
    BY <2>2, AlongIsSummable, Zenon
  <2>5. SumAlong(e, u) = SumFunctionOnSet(g, 1 .. k)
    BY <2>2, AlongIsSummable, Zenon
  <2>6. \A i \in 1 .. k : f[i] = g[i]
    BY <2>1, <2>2 DEF k
  <2>7. f[n] = Moved(s[n], currency) /\ k \in Nat /\ k + 1 = n
    BY <1>1, <1>2, <2>1, <2>2 DEF k
  <2> HIDE DEF f, g
  <2>8. SumFunctionOnSet(f, 1 .. k + 1) = SumFunctionOnSet(f, 1 .. k) + f[k + 1]
    BY <2>4, <2>7, SumOneMore
  <2>9. SumFunctionOnSet(f, 1 .. k) = SumFunctionOnSet(g, 1 .. k)
    <3>1. \A m \in Nat : IsFiniteSet(1 .. m)
      BY FS_Interval
    <3> QED
      BY <2>6, <2>7, <3>1, SumSame
  <2> QED
    BY <2>3, <2>4, <2>5, <2>7, <2>8, <2>9 DEF k
<1> QED
  BY <1>3, <1>4, <1>5

\* The currencies an order spends and gains.
SpendCurrency(id) == IF Side(id) = "buy" THEN "quote" ELSE "base"
GainCurrency(id) == IF Side(id) = "buy" THEN "base" ELSE "quote"

PositivePart(n) == IF n > 0 THEN n ELSE 0

\* What the loop has made of the first n fills of s.
FillsSettled(id, row, s, n, acc) ==
    /\ acc = [row |-> acc.row, gain |-> acc.gain, spend |-> acc.spend, settled |-> acc.settled]
    /\ acc.row \in Rows /\ acc.gain \in Seq(BillRecords) /\ acc.spend \in Seq(BillRecords)
    /\ acc.settled \in 0 .. n
    /\ acc.row.filled = row.filled + MovedBy(s, acc.settled, "base")
    /\ acc.row.executed = row.executed + MovedBy(s, acc.settled, "quote")
    /\ SumAlong(TotalIn, acc.gain) = MovedBy(s, acc.settled, GainCurrency(id))
    /\ SumAlong(TotalIn, acc.spend) = 0 - MovedBy(s, acc.settled, SpendCurrency(id))
    /\ SumAlong(HoldIn, acc.gain) = 0
    /\ acc.row.status \notin Final =>
          /\ acc.row.status = row.status /\ acc.settled = n
          /\ \A i \in 1 .. n : ~ s[i].done
          /\ SumAlong(HoldIn, acc.spend) = 0 - MovedBy(s, acc.settled, SpendCurrency(id))
    /\ acc.row.status \in Final =>
          /\ acc.settled > 0 /\ s[acc.settled].done /\ acc.row.status = s[acc.settled].reason
          /\ \A i \in 1 .. acc.settled - 1 : ~ s[i].done
          /\ SumAlong(HoldIn, acc.spend) = 0 - MovedBy(s, acc.settled, SpendCurrency(id))
                                           - PositivePart(Rest(id, acc.row))

LEMMA AppendBill ==
    ASSUME NEW s \in Seq(BillRecords), NEW a \in Int, NEW h \in Int
    PROVE  /\ Append(s, Bill(a, h)) \in Seq(BillRecords)
           /\ SumAlong(TotalIn, Append(s, Bill(a, h))) = SumAlong(TotalIn, s) + (a + h)
           /\ SumAlong(HoldIn, Append(s, Bill(a, h))) = SumAlong(HoldIn, s) + h
           /\ SumAlong(TotalIn, s) \in Int /\ SumAlong(HoldIn, s) \in Int
<1> DEFINE x == Bill(a, h)
<1>1. x \in BillRecords /\ TotalIn[x] = a + h /\ HoldIn[x] = h
  BY DEF Bill, BillRecords, TotalIn, HoldIn
<1>2. /\ IsSequence(s) /\ Numbers(TotalIn, s) /\ Numbers(HoldIn, s)
      /\ SumAlong(HoldIn, s) \in Int /\ SumAlong(AvailableIn, s) \in Int
      /\ SumAlong(TotalIn, s) = SumAlong(AvailableIn, s) + SumAlong(HoldIn, s)
  BY BillNumbers
<1> HIDE DEF x
<1>3. TotalIn[x] \in Int /\ HoldIn[x] \in Int
  BY <1>1
<1>4. SumAlong(TotalIn, Append(s, x)) = SumAlong(TotalIn, s) + TotalIn[x]
  BY <1>2, <1>3, SumAlongAppend
<1>5. SumAlong(HoldIn, Append(s, x)) = SumAlong(HoldIn, s) + HoldIn[x]
  BY <1>2, <1>3, SumAlongAppend
<1>6. Append(s, x) \in Seq(BillRecords)
  BY <1>1
<1>7. SumAlong(TotalIn, s) \in Int
  BY <1>2
<1> QED
  BY <1>1, <1>2, <1>4, <1>5, <1>6, <1>7 DEF x

\* A trade in the loop.
LEMMA TradeSettled ==
    ASSUME NEW id \in OrderIds, NEW row \in Rows, NEW s \in Seq(FillRecords),
           NEW n \in 1 .. Len(s), NEW acc, FillsSettled(id, row, s, n - 1, acc),
           acc.row.status \notin Final, ~ s[n].done
    PROVE  FillsSettled(id, row, s, n, AfterTrade(id, acc, s[n]))
<1> DEFINE f     == s[n]
           value == f.size * f.price
           buys  == Side(id) = "buy"
           size  == f.size
           gained == IF buys THEN size ELSE value
           spent == IF buys THEN value ELSE size
           new   == AfterTrade(id, acc, f)
<1>1. /\ acc = [row |-> acc.row, gain |-> acc.gain, spend |-> acc.spend, settled |-> acc.settled]
      /\ acc.row \in Rows /\ acc.gain \in Seq(BillRecords) /\ acc.spend \in Seq(BillRecords)
      /\ acc.settled = n - 1 /\ acc.row.status = row.status
      /\ \A i \in 1 .. n - 1 : ~ s[i].done
  BY DEF FillsSettled
<1>2. f \in FillRecords /\ n \in Nat /\ Len(s) \in Nat
  OBVIOUS
<1>3. size \in Nat /\ f.price \in Nat /\ f.done = FALSE
  BY <1>2 DEF FillRecords, TradeFills, DoneFills
<1>4. value \in Nat /\ gained \in Nat /\ spent \in Nat
  BY <1>3
<1>5. Moved(f, "base") = size /\ Moved(f, "quote") = value
  BY <1>3 DEF Moved
<1>6. Moved(f, GainCurrency(id)) = gained /\ Moved(f, SpendCurrency(id)) = spent
  BY <1>5 DEF GainCurrency, SpendCurrency
<1>7. /\ MovedBy(s, n, "base") = MovedBy(s, n - 1, "base") + size
      /\ MovedBy(s, n, "quote") = MovedBy(s, n - 1, "quote") + value
      /\ MovedBy(s, n, GainCurrency(id)) = MovedBy(s, n - 1, GainCurrency(id)) + gained
      /\ MovedBy(s, n, SpendCurrency(id)) = MovedBy(s, n - 1, SpendCurrency(id)) + spent
      /\ \A c : MovedBy(s, n - 1, c) \in Nat
  <2>1. n - 1 \in 0 .. Len(s)
    BY <1>2
  <2> QED
    BY <1>5, <1>6, <2>1, MovedOneMore
<1>8. new = [row |-> [acc.row EXCEPT !.filled = @ + size, !.executed = @ + value],
             gain |-> Append(acc.gain, Bill(gained, 0)),
             spend |-> Append(acc.spend, Bill(0, -spent)),
             settled |-> acc.settled + 1]
  <2>1. new = [acc EXCEPT !.row.filled = @ + size, !.row.executed = @ + value,
                          !.gain = Append(@, Bill(gained, 0)),
                          !.spend = Append(@, Bill(0, IF buys THEN -value ELSE -size)),
                          !.settled = @ + 1]
    BY DEF AfterTrade, Value
  <2>2. (IF buys THEN -value ELSE -size) = -spent
    OBVIOUS
  <2> HIDE DEF new, gained, spent, value, size, f
  <2> QED
    BY <1>1, <2>1, <2>2
<1> HIDE DEF new, gained, spent, value, size, f
<1>9. /\ new.row.filled = acc.row.filled + size /\ new.row.executed = acc.row.executed + value
      /\ new.row.status = acc.row.status /\ new.row \in Rows
  <2>1. new.row = [acc.row EXCEPT !.filled = @ + size, !.executed = @ + value]
    BY <1>8
  <2>2. /\ acc.row = [status |-> acc.row.status, filled |-> acc.row.filled,
                      executed |-> acc.row.executed]
        /\ acc.row.status \in {"none", "new", "open"} \cup Final
        /\ acc.row.filled \in Nat /\ acc.row.executed \in Nat
    BY <1>1 DEF Rows
  <2>3. new.row = [status |-> acc.row.status, filled |-> acc.row.filled + size,
                   executed |-> acc.row.executed + value]
    BY <2>1, <2>2
  <2>4. acc.row.filled + size \in Nat /\ acc.row.executed + value \in Nat
    BY <1>3, <1>4, <2>2
  <2> QED
    BY <2>2, <2>3, <2>4 DEF Rows
<1>10. new.settled = n /\ n \in 0 .. n
  BY <1>1, <1>2, <1>8
<1>11. /\ new.gain = Append(acc.gain, Bill(gained, 0))
       /\ new.spend = Append(acc.spend, Bill(0, -spent))
  BY <1>8
<1>12. /\ new.gain \in Seq(BillRecords)
       /\ SumAlong(TotalIn, new.gain) = SumAlong(TotalIn, acc.gain) + gained
       /\ SumAlong(HoldIn, new.gain) = SumAlong(HoldIn, acc.gain)
  <2>1. gained \in Int /\ 0 \in Int
    BY <1>4
  <2>2. /\ Append(acc.gain, Bill(gained, 0)) \in Seq(BillRecords)
        /\ SumAlong(TotalIn, Append(acc.gain, Bill(gained, 0))) =
              SumAlong(TotalIn, acc.gain) + (gained + 0)
        /\ SumAlong(HoldIn, Append(acc.gain, Bill(gained, 0))) = SumAlong(HoldIn, acc.gain) + 0
        /\ SumAlong(TotalIn, acc.gain) \in Int /\ SumAlong(HoldIn, acc.gain) \in Int
    BY <1>1, <2>1, AppendBill, Zenon
  <2> QED
    BY <1>11, <2>1, <2>2
<1>13. /\ new.spend \in Seq(BillRecords)
       /\ SumAlong(TotalIn, new.spend) = SumAlong(TotalIn, acc.spend) + -spent
       /\ SumAlong(HoldIn, new.spend) = SumAlong(HoldIn, acc.spend) + -spent
  <2>1. -spent \in Int /\ 0 \in Int /\ 0 + -spent = -spent
    BY <1>4
  <2>2. /\ Append(acc.spend, Bill(0, -spent)) \in Seq(BillRecords)
        /\ SumAlong(TotalIn, Append(acc.spend, Bill(0, -spent))) =
              SumAlong(TotalIn, acc.spend) + (0 + -spent)
        /\ SumAlong(HoldIn, Append(acc.spend, Bill(0, -spent))) =
              SumAlong(HoldIn, acc.spend) + -spent
    BY <1>1, <2>1, AppendBill, Zenon
  <2> QED
    BY <1>11, <2>1, <2>2, Zenon
<1>14. /\ acc.row.filled = row.filled + MovedBy(s, n - 1, "base")
       /\ acc.row.executed = row.executed + MovedBy(s, n - 1, "quote")
       /\ SumAlong(TotalIn, acc.gain) = MovedBy(s, n - 1, GainCurrency(id))
       /\ SumAlong(TotalIn, acc.spend) = 0 - MovedBy(s, n - 1, SpendCurrency(id))
       /\ SumAlong(HoldIn, acc.gain) = 0
       /\ SumAlong(HoldIn, acc.spend) = 0 - MovedBy(s, n - 1, SpendCurrency(id))
  BY <1>1 DEF FillsSettled
<1>15. /\ new.row.filled = row.filled + MovedBy(s, n, "base")
       /\ new.row.executed = row.executed + MovedBy(s, n, "quote")
  <2>1. row.filled \in Nat /\ row.executed \in Nat
    BY DEF Rows
  <2>2. MovedBy(s, n - 1, "base") \in Nat /\ MovedBy(s, n - 1, "quote") \in Nat
    BY <1>7, Zenon
  <2>3. new.row.filled = acc.row.filled + size /\ new.row.executed = acc.row.executed + value
    BY <1>9
  <2>4. /\ MovedBy(s, n, "base") = MovedBy(s, n - 1, "base") + size
        /\ MovedBy(s, n, "quote") = MovedBy(s, n - 1, "quote") + value
    BY <1>7
  <2>5. /\ acc.row.filled = row.filled + MovedBy(s, n - 1, "base")
        /\ acc.row.executed = row.executed + MovedBy(s, n - 1, "quote")
    BY <1>14
  <2> DEFINE b == MovedBy(s, n - 1, "base")
             q == MovedBy(s, n - 1, "quote")
  <2>6. b \in Nat /\ q \in Nat
    BY <2>2
  <2>7. /\ new.row.filled = (row.filled + b) + size /\ MovedBy(s, n, "base") = b + size
        /\ new.row.executed = (row.executed + q) + value /\ MovedBy(s, n, "quote") = q + value
    BY <2>3, <2>4, <2>5
  <2>8. size \in Nat /\ value \in Nat
    BY <1>3, <1>4
  <2>9. /\ new.row.filled = row.filled + (b + size)
        /\ new.row.executed = row.executed + (q + value)
    <3>1. \A x, y, z \in Nat : (x + y) + z = x + (y + z)
      OBVIOUS
    <3> HIDE DEF b, q, size, value, new
    <3> QED
      BY <2>1, <2>6, <2>7, <2>8, <3>1, Zenon
  <2> HIDE DEF b, q, size, value, new
  <2>10. /\ new.row.filled = row.filled + MovedBy(s, n, "base")
         /\ new.row.executed = row.executed + MovedBy(s, n, "quote")
    BY <2>7, <2>9, Zenon
  <2> QED
    BY <2>10, Zenon
<1>16. /\ SumAlong(TotalIn, new.gain) = MovedBy(s, n, GainCurrency(id))
       /\ SumAlong(TotalIn, new.spend) = 0 - MovedBy(s, n, SpendCurrency(id))
       /\ SumAlong(HoldIn, new.gain) = 0
       /\ SumAlong(HoldIn, new.spend) = 0 - MovedBy(s, n, SpendCurrency(id))
  BY <1>4, <1>7, <1>12, <1>13, <1>14
<1>17. \A i \in 1 .. n : ~ s[i].done
  <2> SUFFICES ASSUME NEW i \in 1 .. n PROVE ~ s[i].done
    OBVIOUS
  <2>1. i = n \/ i \in 1 .. n - 1
    BY <1>2
  <2> QED
    BY <1>1, <2>1
<1>18. /\ new.row.status = row.status /\ new.row.status \notin Final
       /\ new = [row |-> new.row, gain |-> new.gain, spend |-> new.spend, settled |-> new.settled]
  BY <1>1, <1>8, <1>9
<1>19. FillsSettled(id, row, s, n, new)
  BY <1>9, <1>10, <1>12, <1>13, <1>15, <1>16, <1>17, <1>18, Zenon DEF FillsSettled
<1> QED
  BY <1>19 DEF new, f

\* A done fill in the loop.
LEMMA DoneSettled ==
    ASSUME NEW id \in OrderIds, NEW row \in Rows, NEW s \in Seq(FillRecords),
           NEW n \in 1 .. Len(s), NEW acc, FillsSettled(id, row, s, n - 1, acc),
           acc.row.status \notin Final, s[n].done
    PROVE  FillsSettled(id, row, s, n, AfterDone(id, acc, s[n]))
<1> DEFINE f    == s[n]
           rest == Rest(id, acc.row)
           new  == AfterDone(id, acc, f)
<1>1. /\ acc = [row |-> acc.row, gain |-> acc.gain, spend |-> acc.spend, settled |-> acc.settled]
      /\ acc.row \in Rows /\ acc.gain \in Seq(BillRecords) /\ acc.spend \in Seq(BillRecords)
      /\ acc.settled = n - 1 /\ acc.row.status = row.status
      /\ \A i \in 1 .. n - 1 : ~ s[i].done
  BY DEF FillsSettled
<1>2. f \in FillRecords /\ n \in Nat /\ Len(s) \in Nat
  OBVIOUS
<1>3. f.done = TRUE /\ f.reason \in Final
  BY <1>2 DEF FillRecords, TradeFills, DoneFills
<1>4. \A c : Moved(f, c) = 0
  BY <1>3 DEF Moved
<1>5. \A c : MovedBy(s, n, c) = MovedBy(s, n - 1, c) /\ MovedBy(s, n, c) \in Nat
  <2>1. n - 1 \in 0 .. Len(s) /\ n \in 0 .. Len(s)
    BY <1>2
  <2>2. \A c : /\ MovedBy(s, n - 1, c) \in Nat /\ MovedBy(s, n, c) \in Nat
               /\ MovedBy(s, n, c) = MovedBy(s, n - 1, c) + Moved(f, c)
    BY <2>1, MovedOneMore
  <2> QED
    BY <1>4, <2>2
<1>6. rest \in Int
  <2>1. HoldSize(id) \in Int /\ acc.row.filled \in Int /\ acc.row.executed \in Int
    BY <1>1, PlacedOrder DEF Rows
  <2> QED
    BY <2>1 DEF Rest
<1>7. new = [row |-> [acc.row EXCEPT !.status = f.reason],
             gain |-> acc.gain,
             spend |-> IF rest > 0 THEN Append(acc.spend, Bill(rest, -rest)) ELSE acc.spend,
             settled |-> acc.settled + 1]
  <2>1. new = [acc EXCEPT !.row.status = f.reason,
                          !.spend = IF rest > 0 THEN Append(@, Bill(rest, -rest)) ELSE @,
                          !.settled = @ + 1]
    BY DEF AfterDone
  <2> HIDE DEF new, rest, f
  <2> QED
    BY <1>1, <2>1
<1>8. Rest(id, new.row) = rest
  <2>1. new.row.filled = acc.row.filled /\ new.row.executed = acc.row.executed
    BY <1>1, <1>7 DEF Rows
  <2> HIDE DEF new
  <2> QED
    BY <2>1 DEF Rest
<1> HIDE DEF new, rest, f
<1>9. /\ new.row.filled = acc.row.filled /\ new.row.executed = acc.row.executed
      /\ new.row.status = f.reason /\ new.row \in Rows
  BY <1>1, <1>3, <1>7 DEF Rows
<1>10. new.settled = n /\ n \in 0 .. n /\ n > 0
  BY <1>1, <1>2, <1>7
<1>11. /\ new.spend \in Seq(BillRecords)
       /\ SumAlong(TotalIn, new.spend) = SumAlong(TotalIn, acc.spend)
       /\ SumAlong(HoldIn, new.spend) = SumAlong(HoldIn, acc.spend) - PositivePart(rest)
       /\ SumAlong(HoldIn, acc.spend) \in Int
  <2>1. SumAlong(HoldIn, acc.spend) \in Int /\ SumAlong(TotalIn, acc.spend) \in Int
    <3>1. 0 \in Int
      OBVIOUS
    <3> QED
      BY <1>1, <3>1, AppendBill
  <2>2. CASE rest > 0
    <3>1. new.spend = Append(acc.spend, Bill(rest, -rest))
      BY <1>7, <2>2
    <3>2. -rest \in Int /\ rest + -rest = 0
      BY <1>6
    <3>3. /\ new.spend \in Seq(BillRecords)
          /\ SumAlong(TotalIn, new.spend) = SumAlong(TotalIn, acc.spend) + 0
          /\ SumAlong(HoldIn, new.spend) = SumAlong(HoldIn, acc.spend) + -rest
      BY <1>1, <1>6, <3>1, <3>2, AppendBill
    <3> QED
      BY <1>6, <2>1, <2>2, <3>3 DEF PositivePart
  <2>3. CASE ~ (rest > 0)
    <3>1. new.spend = acc.spend
      BY <1>7, <2>3
    <3> QED
      BY <1>1, <2>1, <2>3, <3>1 DEF PositivePart
  <2> QED
    BY <2>2, <2>3
<1>12. /\ acc.row.filled = row.filled + MovedBy(s, n - 1, "base")
       /\ acc.row.executed = row.executed + MovedBy(s, n - 1, "quote")
       /\ SumAlong(TotalIn, acc.gain) = MovedBy(s, n - 1, GainCurrency(id))
       /\ SumAlong(TotalIn, acc.spend) = 0 - MovedBy(s, n - 1, SpendCurrency(id))
       /\ SumAlong(HoldIn, acc.gain) = 0
       /\ SumAlong(HoldIn, acc.spend) = 0 - MovedBy(s, n - 1, SpendCurrency(id))
  BY <1>1 DEF FillsSettled
<1>13. new.gain = acc.gain
  BY <1>7
<1>14. /\ new.row.filled = row.filled + MovedBy(s, n, "base")
       /\ new.row.executed = row.executed + MovedBy(s, n, "quote")
       /\ SumAlong(TotalIn, new.gain) = MovedBy(s, n, GainCurrency(id))
       /\ SumAlong(TotalIn, new.spend) = 0 - MovedBy(s, n, SpendCurrency(id))
       /\ SumAlong(HoldIn, new.gain) = 0
       /\ SumAlong(HoldIn, new.spend) = 0 - MovedBy(s, n, SpendCurrency(id)) - PositivePart(rest)
  BY <1>5, <1>9, <1>11, <1>12, <1>13
<1>15. new = [row |-> new.row, gain |-> new.gain, spend |-> new.spend, settled |-> new.settled]
  BY <1>7
<1>16. s[n].done /\ new.row.status = s[n].reason /\ new.row.status \in Final
  BY <1>3, <1>9 DEF f
<1>17. FillsSettled(id, row, s, n, new)
  BY <1>1, <1>8, <1>9, <1>10, <1>11, <1>13, <1>14, <1>15, <1>16, Zenon DEF FillsSettled
<1> QED
  BY <1>17 DEF new, f

\* What the loop makes of all the fills it looks at.
LEMMA LoopSettles ==
    ASSUME NEW id \in OrderIds, NEW row \in Rows, row.status \notin Final,
           NEW s \in Seq(FillRecords)
    PROVE  FillsSettled(id, row, s, Len(s), AfterFills(id, row, s))
<1>1. IsSequence(s) /\ Len(s) \in Nat
  BY SequenceOver, SequenceFacts
<1>2. PICK a : LoopStates(a, id, row, s)
  BY <1>1, FoldFills
<1>22. /\ a[0] = [row |-> row, gain |-> << >>, spend |-> << >>, settled |-> 0]
       /\ \A i \in 1 .. Len(s) : a[i] = AfterFill(id, a[i - 1], s[i])
       /\ AfterFills(id, row, s) = a[Len(s)]
  BY <1>2 DEF LoopStates
<1> DEFINE start == [row |-> row, gain |-> << >>, spend |-> << >>, settled |-> 0]
           fold == AfterFills(id, row, s)
<1> HIDE DEF fold
<1> DEFINE Good == {n \in 0 .. Len(s) : FillsSettled(id, row, s, n, a[n])}
<1>3. 0 \in Good
  <2>1. /\ start = [row |-> start.row, gain |-> start.gain, spend |-> start.spend,
                    settled |-> start.settled]
        /\ start.row = row /\ start.gain = << >> /\ start.spend = << >> /\ start.settled = 0
        /\ << >> \in Seq(BillRecords)
    OBVIOUS
  <2>2. \A c : MovedBy(s, 0, c) = 0
    BY MovedOneMore
  <2>3. SumAlong(TotalIn, << >>) = 0 /\ SumAlong(HoldIn, << >>) = 0
    BY SumAlongNothing
  <2>4. row.filled \in Nat /\ row.executed \in Nat
    BY DEF Rows
  <2>5. row.filled = row.filled + 0 /\ row.executed = row.executed + 0 /\ 0 \in 0 .. 0 /\ 0 - 0 = 0
        /\ 1 .. 0 = {} /\ 0 \in 0 .. Len(s)
    <3>1. row.filled = row.filled + 0 /\ row.executed = row.executed + 0
      BY <2>4
    <3>2. 0 \in 0 .. 0 /\ 1 .. 0 = {}
      OBVIOUS
    <3>4. 0 - 0 = 0
      OBVIOUS
    <3>3. 0 \in 0 .. Len(s)
      BY <1>1
    <3> QED
      BY <3>1, <3>2, <3>3, <3>4
  <2> HIDE DEF start
  <2>6. FillsSettled(id, row, s, 0, start)
    <3>1. /\ start.row \in Rows /\ start.gain \in Seq(BillRecords) /\ start.spend \in Seq(BillRecords)
          /\ start.settled \in 0 .. 0
      <4>1. row \in Rows
        OBVIOUS
      <4> QED
        BY <2>1, <2>5, <4>1, Zenon
    <3>2. /\ MovedBy(s, start.settled, "base") = 0 /\ MovedBy(s, start.settled, "quote") = 0
          /\ MovedBy(s, start.settled, GainCurrency(id)) = 0
          /\ MovedBy(s, start.settled, SpendCurrency(id)) = 0
      BY <2>1, <2>2, Zenon
    <3>3. /\ start.row.filled = row.filled + MovedBy(s, start.settled, "base")
          /\ start.row.executed = row.executed + MovedBy(s, start.settled, "quote")
      BY <2>1, <2>5, <3>2
    <3>4. /\ SumAlong(TotalIn, start.gain) = MovedBy(s, start.settled, GainCurrency(id))
          /\ SumAlong(TotalIn, start.spend) = 0 - MovedBy(s, start.settled, SpendCurrency(id))
          /\ SumAlong(HoldIn, start.gain) = 0
          /\ SumAlong(HoldIn, start.spend) = 0 - MovedBy(s, start.settled, SpendCurrency(id))
      BY <2>1, <2>3, <2>5, <3>2
    <3>5. \A i \in 1 .. 0 : ~ s[i].done
      BY <2>5
    <3> QED
      BY <2>1, <3>1, <3>3, <3>4, <3>5, Zenon DEF FillsSettled
  <2>7. a[0] = start
    BY <1>22 DEF start
  <2>8. 0 \in 0 .. Len(s)
    BY <2>5
  <2>9. FillsSettled(id, row, s, 0, a[0])
    BY <2>6, <2>7, Zenon
  <2> QED
    BY <2>8, <2>9
<1>4. ASSUME NEW n \in 1 .. Len(s), n - 1 \in Good
      PROVE  n \in Good
  <2> DEFINE acc == a[n - 1]
  <2>1. FillsSettled(id, row, s, n - 1, acc) /\ a[n] = AfterFill(id, acc, s[n]) /\ n \in 0 .. Len(s)
    BY <1>1, <1>22, <1>4
  <2> HIDE DEF acc
  <2>2. CASE acc.row.status \in Final
    <3>1. a[n] = acc
      BY <2>1, <2>2 DEF AfterFill
    <3>2. acc.settled \in 0 .. n
      BY <1>1, <2>1 DEF FillsSettled
    <3>3. FillsSettled(id, row, s, n, acc)
      BY <2>1, <2>2, <3>2, Zenon DEF FillsSettled
    <3> QED
      BY <2>1, <3>1, <3>3
  <2>3. CASE acc.row.status \notin Final /\ s[n].done
    <3>1. a[n] = AfterDone(id, acc, s[n])
      BY <2>1, <2>3 DEF AfterFill
    <3>2. FillsSettled(id, row, s, n, AfterDone(id, acc, s[n]))
      BY <2>1, <2>3, DoneSettled
    <3> QED
      BY <2>1, <3>1, <3>2
  <2>4. CASE acc.row.status \notin Final /\ ~ s[n].done
    <3>1. a[n] = AfterTrade(id, acc, s[n])
      BY <2>1, <2>4 DEF AfterFill
    <3>2. FillsSettled(id, row, s, n, AfterTrade(id, acc, s[n]))
      BY <2>1, <2>4, TradeSettled
    <3> QED
      BY <2>1, <3>1, <3>2
  <2> QED
    BY <2>2, <2>3, <2>4
<1> HIDE DEF Good
<1>5. Len(s) \in Good
  BY <1>1, <1>3, <1>4, NumberInduction
<1>6. FillsSettled(id, row, s, Len(s), fold)
  BY <1>22, <1>5 DEF Good, fold
<1> QED
  BY <1>6 DEF fold

-----------------------------------------------------------------------------
(* The variables hold what they should. *)

\* What a message does to the book and what the logs say of it.
LEMMA HandledMessage ==
    ASSUME NEW b, IsOrderBook(b), SidesAgree(b), NEW bits, NEW message \in MessageRecords
    PROVE  LET r == Handle(b, bits, message)
           IN  /\ IsOrderBook(r.book) /\ SidesAgree(r.book)
               /\ IsSequence(r.logs) /\ \A log \in Range(r.logs) : IsExchangeLog(log)
<1> DEFINE r == Handle(b, bits, message)
<1> SUFFICES /\ IsOrderBook(r.book) /\ SidesAgree(r.book)
             /\ IsSequence(r.logs) /\ \A log \in Range(r.logs) : IsExchangeLog(log)
  OBVIOUS
<1>1. PICK id \in OrderIds, c \in BOOLEAN : message = [order |-> Order(id), cancel |-> c]
  BY DEF MessageRecords
<1> DEFINE o == Order(id)
           cancelled == CancelOrder(b, o)
           applied == ApplyOrder(b, o)
           passed == [book |-> b, logs |-> << >>]
<1>2. o \in Orders /\ o.id = id /\ Side(id) = o.side /\ o.side \in Sides
  BY PlacedOrder
<1>3. message.order = o /\ message.cancel = c
  BY <1>1
<1>4. \/ r.book = cancelled.book /\ r.logs = cancelled.logs
      \/ r.book = applied.book /\ r.logs = applied.logs
      \/ r.book = b /\ r.logs = << >>
  BY <1>3 DEF Handle
<1> HIDE DEF r, cancelled, applied
<1>5. CASE r.book = cancelled.book /\ r.logs = cancelled.logs
  <2> DEFINE entry == EntriesOf(b.depths[o.side], o.id)
  <2>1. /\ IsOrderBook(cancelled.book)
        /\ \A side \in Sides : side # o.side => cancelled.book.depths[side] = b.depths[side]
        /\ cancelled.book.depths[o.side] = b.depths[o.side] \ entry
        /\ entry = {} => cancelled.logs = << >>
        /\ entry # {} => \E log : /\ cancelled.logs = <<log>> /\ IsLog(log) /\ Ends(log, o.id)
    BY <1>2, CancelEffects DEF cancelled
  <2>2. SidesAgree(cancelled.book)
    <3> SUFFICES ASSUME NEW side \in Sides, NEW m \in cancelled.book.depths[side]
                 PROVE  Side(m.id) = side
      BY DEF SidesAgree
    <3>1. m \in b.depths[side]
      BY <2>1
    <3> QED
      BY <3>1 DEF SidesAgree
  <2>3. IsSequence(cancelled.logs) /\ \A log \in Range(cancelled.logs) : IsExchangeLog(log)
    <3>1. CASE entry = {}
      BY <2>1, <3>1, EmptySequence
    <3>2. CASE entry # {}
      <4>1. PICK log : cancelled.logs = <<log>> /\ IsLog(log) /\ Ends(log, o.id)
        BY <2>1, <3>2
      <4>2. IsExchangeLog(log)
        BY <4>1 DEF IsExchangeLog, Ends
      <4>3. IsSequence(<<log>>) /\ Len(<<log>>) = 1 /\ <<log>>[1] = log
        BY OneElement
      <4>4. Range(<<log>>) = {<<log>>[i] : i \in 1 .. 1}
        BY <4>3, SequenceFacts
      <4> QED
        BY <4>1, <4>2, <4>3, <4>4
    <3> QED
      BY <3>1, <3>2
  <2> QED
    BY <1>5, <2>1, <2>2, <2>3
<1>6. CASE r.book = applied.book /\ r.logs = applied.logs
  <2> DEFINE t == TakerOf(o)
             other == Opposite(t.side)
             after == Complete(b, t).book
             said == Complete(b, t).logs
  <2>1. IsTaker(t) /\ t.id = id /\ t.side = o.side
    BY <1>2, TakerOfOrder
  <2>2. applied.book = after /\ applied.logs = said
    BY DEF applied, ApplyOrder
  <2> HIDE DEF t
  <2>3. other \in Sides /\ other # t.side /\ \A side \in Sides : side = other \/ side = t.side
    BY <1>2, <2>1 DEF Opposite, Sides
  <2>4. IsOrderBook(after)
    BY <2>1, CompleteKeepsBook
  <2>5. \A m \in b.depths[other] : Side(m.id) = other
    BY <2>3 DEF SidesAgree
  <2>6. \A m \in Hit(b, t) : m \in b.depths[other]
    BY DEF Hit, Makers
  <2>7. \A m \in Emptied(b, t) : m \in b.depths[other]
    BY DEF Emptied, Makers
  <2>8. \A n \in after.depths[other] : Side(n.id) = other
    <3>1. \A n \in after.depths[other] : \E m \in b.depths[other] : n.id = m.id
      BY <2>1, CutDepth
    <3> QED
      BY <2>5, <3>1
  <2>9. \A n \in after.depths[t.side] : Side(n.id) = t.side
    <3>1. after.depths[t.side] = IF Rests(Left(b, t)) THEN Add(b.depths[t.side], Left(b, t))
                                 ELSE b.depths[t.side]
      BY <2>1, CompleteDepths
    <3>2. Left(b, t).id = t.id
      BY <2>1, LeftIsTaker
    <3>3. \A n \in after.depths[t.side] : n \in b.depths[t.side] \/ n = Left(b, t)
      BY <3>1 DEF Add
    <3>4. t.side \in Sides /\ Side(t.id) = t.side
      BY <1>2, <2>1
    <3> QED
      BY <3>2, <3>3, <3>4 DEF SidesAgree
  <2>10. SidesAgree(after)
    BY <2>3, <2>8, <2>9 DEF SidesAgree
  <2>11. /\ IsSequence(said) /\ Len(said) > 0
         /\ \A i \in 1 .. Len(said) : IsLog(said[i])
         /\ said[Len(said)].kind = (IF Rests(Left(b, t)) THEN "open" ELSE "done")
         /\ \A i \in 1 .. Len(said) - 1 :
               \/ /\ said[i].kind = "match" /\ said[i].taker = t.id
                  /\ \E m \in Hit(b, t) : said[i].maker = m.id
               \/ said[i].kind = "done"
    BY <2>1, CompleteTellsWho
  <2> HIDE DEF said, after, other
  <2>12. \A i \in 1 .. Len(said) : IsExchangeLog(said[i])
    <3> SUFFICES ASSUME NEW i \in 1 .. Len(said), said[i].kind = "match"
                 PROVE  Side(said[i].maker) = Opposite(Side(said[i].taker))
      BY <2>11 DEF IsExchangeLog
    <3>1. i # Len(said)
      BY <2>11
    <3>2. i \in 1 .. Len(said) - 1
      <4>1. Len(said) \in Nat
        BY <2>11, SequenceFacts
      <4> QED
        BY <3>1, <4>1
    <3>3. said[i].taker = t.id /\ \E m \in Hit(b, t) : said[i].maker = m.id
      BY <2>11, <3>2
    <3>4. Side(said[i].maker) = other
      BY <2>5, <2>6, <3>3
    <3>5. Side(t.id) = t.side
      BY <1>2, <2>1
    <3> QED
      BY <3>3, <3>4, <3>5 DEF other
  <2>13. \A log \in Range(said) : IsExchangeLog(log)
    <3>1. Range(said) = {said[i] : i \in 1 .. Len(said)}
      BY <2>11, SequenceFacts
    <3> QED
      BY <2>12, <3>1
  <2> QED
    BY <1>6, <2>2, <2>4, <2>10, <2>11, <2>13
<1>7. CASE r.book = b /\ r.logs = << >>
  BY <1>7, EmptySequence
<1> QED
  BY <1>4, <1>5, <1>6, <1>7

LEMMA OneUpdate ==
    ASSUME NEW A, NEW S, NEW f \in [A -> S], NEW a \in A, NEW x \in S
    PROVE  [f EXCEPT ![a] = x] \in [A -> S]
OBVIOUS

LEMMA MessageRecord ==
    ASSUME NEW id \in OrderIds, NEW c \in BOOLEAN
    PROVE  [order |-> Order(id), cancel |-> c] \in MessageRecords
BY DEF MessageRecords

LEMMA InitTypeInv == Init => TypeInv
<1> SUFFICES ASSUME Init PROVE TypeInv
  OBVIOUS
<1>1. AccountsOK
  <2>1. \A a \in Accounts : Balances[a] \in Int
    BY ExchangeAssumption
  <2> QED
    BY <2>1 DEF Init, AccountsOK
<1>2. RowsOK
  BY DEF Init, RowsOK, Rows, NoRow
<1>3. BillsOK /\ FillsOK
  BY DEF Init, BillsOK, FillsOK
<1>4. RequestsOK /\ TopicOK /\ WorkOK
  BY DEF Init, RequestsOK, TopicOK, WorkOK
<1>5. LogsOK
  BY EmptySequence DEF Init, LogsOK
<1>6. EngineOK
  <2>1. engine = [book |-> EmptyBook, window |-> {}, seen |-> {}]
    BY DEF Init
  <2>2. engine.book = EmptyBook /\ engine.seen = {}
    BY <2>1
  <2>3. engine = [book |-> engine.book, window |-> engine.window, seen |-> engine.seen]
    BY <2>1
  <2>4. \A side \in Sides : EmptyBook.depths[side] = {}
    BY DEF EmptyBook
  <2>5. IsOrderBook(EmptyBook)
    <3>1. IsFiniteSet({})
      BY FS_EmptySet
    <3>2. \A side \in Sides : IsDepth(EmptyBook.depths[side], side)
      BY <2>4 DEF IsDepth
    <3>3. IsBook(EmptyBook)
      BY <2>4, <3>1 DEF EmptyBook, IsBook
    <3> QED
      BY <3>2, <3>3 DEF IsOrderBook
  <2> QED
    BY <2>2, <2>3, <2>4, <2>5 DEF EngineOK, SidesAgree
<1> QED
  BY <1>1, <1>2, <1>3, <1>4, <1>5, <1>6 DEF TypeInv

LEMMA RequestKeepsTypeInv ==
    ASSUME TypeInv, NEW id \in OrderIds,
           CheckBalance(id) \/ HoldBalance(id) \/ (\E copies \in 0 .. 2 : SubmitOrder(id, copies))
           \/ RequestCancel(id)
    PROVE  TypeInv'
<1>0. HoldAccount(id) \in Accounts /\ HoldSize(id) \in Nat
  BY PlacedOrder
<1>1. CASE CheckBalance(id)
  BY <1>1 DEF CheckBalance, TypeInv, AccountsOK, RowsOK, BillsOK, FillsOK, RequestsOK, TopicOK,
              EngineOK, LogsOK, WorkOK, engineVars
<1>2. CASE HoldBalance(id)
  <2>1. AccountsOK'
    <3> DEFINE a == HoldAccount(id)
               h == HoldSize(id)
    <3>1. accounts' = [accounts EXCEPT ![a] = [available |-> @.available - h, hold |-> @.hold + h]]
      BY <1>2 DEF HoldBalance
    <3>2. a \in Accounts /\ h \in Nat /\ accounts \in [Accounts -> [available : Int, hold : Int]]
      BY <1>0 DEF TypeInv, AccountsOK
    <3> HIDE DEF a, h
    <3> DEFINE x == [available |-> accounts[a].available - h, hold |-> accounts[a].hold + h]
    <3>3. x \in [available : Int, hold : Int]
      BY <3>2
    <3>4. accounts' = [accounts EXCEPT ![a] = x]
      BY <3>1, <3>2
    <3> HIDE DEF x
    <3> QED
      BY <3>2, <3>3, <3>4, OneUpdate DEF AccountsOK
  <2>2. RowsOK'
    <3> DEFINE x == [rows[id] EXCEPT !.status = "new"]
    <3>1. rows' = [rows EXCEPT ![id] = x]
      BY <1>2 DEF HoldBalance, TypeInv, RowsOK
    <3>2. x \in Rows
      BY DEF TypeInv, RowsOK, Rows
    <3> HIDE DEF x
    <3> QED
      BY <3>1, <3>2, OneUpdate DEF TypeInv, RowsOK
  <2> QED
    BY <1>2, <2>1, <2>2 DEF HoldBalance, TypeInv, BillsOK, FillsOK, RequestsOK, TopicOK,
                            EngineOK, LogsOK, WorkOK, engineVars
<1>3. ASSUME NEW copies \in 0 .. 2, SubmitOrder(id, copies)
      PROVE  TypeInv'
  <2>1. TopicOK'
    <3> DEFINE message == [order |-> Order(id), cancel |-> FALSE]
    <3>1. topic' = topic \o [i \in 1 .. copies |-> message]
      BY <1>3 DEF SubmitOrder
    <3>2. message \in MessageRecords
      <4>1. FALSE \in BOOLEAN
        OBVIOUS
      <4> QED
        BY <4>1, MessageRecord, Zenon
    <3> HIDE DEF message
    <3>3. [i \in 1 .. copies |-> message] \in Seq(MessageRecords)
      BY <3>2
    <3> QED
      BY <3>1, <3>3 DEF TopicOK, TypeInv
  <2> QED
    BY <1>3, <2>1 DEF SubmitOrder, TypeInv, AccountsOK, RowsOK, BillsOK, FillsOK, RequestsOK,
                      EngineOK, LogsOK, WorkOK, engineVars
<1>4. CASE RequestCancel(id)
  <2>1. TopicOK'
    <3>1. [order |-> Order(id), cancel |-> TRUE] \in MessageRecords
      <4>1. TRUE \in BOOLEAN
        OBVIOUS
      <4> QED
        BY <4>1, MessageRecord, Zenon
    <3> QED
      BY <1>4, <3>1 DEF TopicOK, TypeInv, RequestCancel
  <2> QED
    BY <1>4, <2>1 DEF RequestCancel, TypeInv, AccountsOK, RowsOK, BillsOK, FillsOK, RequestsOK,
                      EngineOK, LogsOK, WorkOK, engineVars
<1> QED
  BY <1>1, <1>2, <1>3, <1>4

LEMMA HandleMessageKeepsTypeInv == TypeInv /\ HandleMessage => TypeInv'
<1> SUFFICES ASSUME TypeInv, HandleMessage PROVE TypeInv'
  OBVIOUS
<1> DEFINE message == Head(topic)
           r == Handle(engine.book, engine.window, message)
<1>1. /\ topic' = Tail(topic)
      /\ engine' = [book |-> r.book, window |-> r.window,
                    seen |-> engine.seen \cup {message.order.id}]
      /\ logs' = logs \o r.logs
      /\ missed' = IF message.cancel /\ message.order.id \notin engine.seen
                   THEN missed \cup {message.order.id} ELSE missed
      /\ UNCHANGED <<accounts, rows, bills, fills, requestVars, fillWork, billWork, troubles>>
  BY DEF HandleMessage
<1>2. topic # << >> /\ topic \in Seq(MessageRecords)
  BY DEF HandleMessage, TypeInv, TopicOK
<1>3. message \in MessageRecords /\ Tail(topic) \in Seq(MessageRecords)
  BY <1>2
<1>4. message.order.id \in OrderIds
  <2>1. PICK id \in OrderIds, c \in BOOLEAN : message = [order |-> Order(id), cancel |-> c]
    BY <1>3 DEF MessageRecords
  <2> HIDE DEF message
  <2> QED
    BY <2>1, PlacedOrder
<1>5. /\ IsOrderBook(r.book) /\ SidesAgree(r.book)
      /\ IsSequence(r.logs) /\ \A log \in Range(r.logs) : IsExchangeLog(log)
  BY <1>3, HandledMessage DEF TypeInv, EngineOK
<1> HIDE DEF r, message
<1>6. EngineOK'
  BY <1>1, <1>4, <1>5 DEF EngineOK, TypeInv
<1>7. LogsOK'
  <2>1. IsSequence(logs \o r.logs) /\ Range(logs \o r.logs) = Range(logs) \cup Range(r.logs)
    BY <1>5, ConcatSequence DEF TypeInv, LogsOK
  <2> QED
    BY <1>1, <1>5, <2>1 DEF TypeInv, LogsOK
<1>8. TopicOK'
  BY <1>1, <1>3 DEF TopicOK
<1>9. RequestsOK'
  BY <1>1, <1>4 DEF RequestsOK, TypeInv, requestVars
<1> QED
  BY <1>1, <1>6, <1>7, <1>8, <1>9 DEF TypeInv, AccountsOK, RowsOK, BillsOK, FillsOK, WorkOK

LEMMA BatchFacts ==
    ASSUME NEW S, NEW s \in Seq(S)
    PROVE  /\ Len(Batch(s)) \in 0 .. Len(s) /\ Batch(s) = SubSeq(s, 1, Len(Batch(s)))
           /\ Batch(s) \in Seq(S)
           /\ SubSeq(s, Len(Batch(s)) + 1, Len(s)) \in Seq(S)
<1> DEFINE n == IF Len(s) < Limit THEN Len(s) ELSE Limit
<1>1. IsSequence(s) /\ Range(s) \subseteq S /\ Len(s) \in Nat
  BY SequenceOver, SequenceFacts
<1>2. n \in 0 .. Len(s)
  BY <1>1, ExchangeAssumption
<1>3. Batch(s) = SubSeq(s, 1, n)
  BY DEF Batch
<1> HIDE DEF n
<1>4. /\ IsSequence(SubSeq(s, 1, n)) /\ Range(SubSeq(s, 1, n)) \subseteq Range(s)
      /\ Len(SubSeq(s, 1, n)) = n
      /\ IsSequence(SubSeq(s, n + 1, Len(s))) /\ Range(SubSeq(s, n + 1, Len(s))) \subseteq Range(s)
  BY <1>1, <1>2, SplitSequence
<1>5. \A t : IsSequence(t) /\ Range(t) \subseteq Range(s) => t \in Seq(S)
  <2> SUFFICES ASSUME NEW t, IsSequence(t), Range(t) \subseteq Range(s) PROVE t \in Seq(S)
    OBVIOUS
  <2>1. t \in Seq(Range(t)) /\ Range(t) \subseteq S
    BY <1>1 DEF IsSequence
  <2> QED
    BY <2>1, SeqMonotonic
<1> QED
  BY <1>2, <1>3, <1>4, <1>5

LEMMA RestOfSequence ==
    ASSUME NEW S, NEW s \in Seq(S), NEW n \in 0 .. Len(s)
    PROVE  SubSeq(s, n + 1, Len(s)) \in Seq(S)
<1> DEFINE t == SubSeq(s, n + 1, Len(s))
<1>1. IsSequence(s) /\ Range(s) \subseteq S
  BY SequenceOver
<1>2. IsSequence(t) /\ Range(t) \subseteq Range(s)
  BY <1>1, SplitSequence
<1>3. t \in Seq(Range(t)) /\ Range(t) \subseteq S
  BY <1>1, <1>2 DEF IsSequence
<1> HIDE DEF t
<1>4. t \in Seq(S)
  BY <1>3, SeqMonotonic
<1> QED
  BY <1>4 DEF t

\* A turn of the worker that finds something to settle.
Settles(id) == ~ Skipped(id) /\ fills[id] # << >>

\* What the loop of a turn ends with.
Ended(id) == AfterFills(id, rows[id], UnsettledFills(id))

LEMMA TurnFacts ==
    ASSUME TypeInv, NEW id \in OrderIds, NEW announced, ExecuteFill(id, announced)
    PROVE  LET n   == Len(UnsettledFills(id))
               end == Ended(id)
           IN  /\ UNCHANGED <<accounts, requestVars, topic, engineVars, logs>>
               /\ fillWork' = fillWork \ {id}
               /\ ~ Settles(id) => UNCHANGED <<rows, bills, fills, billWork>>
               /\ Settles(id) =>
                     /\ n \in 0 .. Len(fills[id])
                     /\ UnsettledFills(id) = SubSeq(fills[id], 1, n)
                     /\ UnsettledFills(id) \in Seq(FillRecords)
                     /\ FillsSettled(id, rows[id], UnsettledFills(id), n, end)
                     /\ end.settled \in 0 .. Len(fills[id])
                     /\ rows' = [rows EXCEPT ![id] = end.row]
                     /\ bills' = [a \in Accounts |->
                                    IF a = GainAccount(id) THEN bills[a] \o end.gain
                                    ELSE IF a = HoldAccount(id) THEN bills[a] \o end.spend
                                    ELSE bills[a]]
                     /\ fills' = [fills EXCEPT ![id] =
                                    SubSeq(fills[id], end.settled + 1, Len(fills[id]))]
                     /\ \/ billWork' = billWork
                        \/ billWork' = billWork \cup {a \in Accounts : bills'[a] # bills[a]}
<1> DEFINE s   == UnsettledFills(id)
           n   == Len(s)
           end == Ended(id)
           gains == GainAccount(id)
           holds == HoldAccount(id)
<1>1. /\ gains \in Accounts /\ holds \in Accounts /\ gains # holds
      /\ fills[id] \in Seq(FillRecords) /\ rows[id] \in Rows
      /\ bills \in [Accounts -> Seq(BillRecords)] /\ fills \in [OrderIds -> Seq(FillRecords)]
  BY PlacedOrder DEF TypeInv, FillsOK, RowsOK, BillsOK
<1>2. n \in 0 .. Len(fills[id]) /\ s = SubSeq(fills[id], 1, n) /\ s \in Seq(FillRecords)
  BY <1>1, BatchFacts DEF UnsettledFills
<1>3. /\ UNCHANGED <<accounts, requestVars, topic, engineVars, logs>>
      /\ fillWork' = fillWork \ {id}
  BY DEF ExecuteFill
<1>4. CASE ~ Settles(id)
  BY <1>3, <1>4 DEF ExecuteFill, Settles
<1>5. CASE Settles(id)
  <2>1. rows[id].status \notin Final
    BY <1>5 DEF Settles, Skipped
  <2>2. FillsSettled(id, rows[id], s, n, end)
    BY <1>1, <1>2, <2>1, LoopSettles DEF Ended
  <2>3. /\ rows' = [rows EXCEPT ![id] = end.row]
        /\ bills' = [bills EXCEPT ![gains] = @ \o end.gain, ![holds] = @ \o end.spend]
        /\ fills' = [fills EXCEPT ![id] = SubSeq(@, end.settled + 1, Len(@))]
        /\ billWork' = IF announced THEN billWork \cup {a \in Accounts : bills'[a] # bills[a]}
                       ELSE billWork
    BY <1>5 DEF ExecuteFill, Settles, Ended
  <2> HIDE DEF s, end, gains, holds
  <2>4. end.settled \in 0 .. Len(fills[id])
    <3>1. end.settled \in 0 .. n
      BY <2>2 DEF FillsSettled
    <3>2. Len(fills[id]) \in Nat
      BY <1>1
    <3> QED
      BY <1>2, <3>1, <3>2
  <2>5. fills' = [fills EXCEPT ![id] = SubSeq(fills[id], end.settled + 1, Len(fills[id]))]
    BY <1>1, <2>3
  <2>6. bills' = [a \in Accounts |-> IF a = gains THEN bills[a] \o end.gain
                                     ELSE IF a = holds THEN bills[a] \o end.spend
                                     ELSE bills[a]]
    BY <1>1, <2>3
  <2> QED
    BY <1>2, <1>3, <1>5, <2>2, <2>3, <2>4, <2>5, <2>6 DEF s, end, gains, holds
<1> QED
  BY <1>4, <1>5

LEMMA ExecuteFillKeepsTypeInv ==
    ASSUME TypeInv, NEW id \in OrderIds, NEW announced, ExecuteFill(id, announced)
    PROVE  TypeInv'
<1> DEFINE end == Ended(id)
<1>1. /\ UNCHANGED <<accounts, requestVars, topic, engineVars, logs>>
      /\ fillWork' = fillWork \ {id}
      /\ ~ Settles(id) => UNCHANGED <<rows, bills, fills, billWork>>
  BY TurnFacts
<1>2. CASE ~ Settles(id)
  BY <1>1, <1>2 DEF TypeInv, AccountsOK, RowsOK, BillsOK, FillsOK, RequestsOK, TopicOK,
                    EngineOK, LogsOK, WorkOK, engineVars, requestVars
<1>3. CASE Settles(id)
  <2>1. /\ FillsSettled(id, rows[id], UnsettledFills(id), Len(UnsettledFills(id)), end)
        /\ end.settled \in 0 .. Len(fills[id])
        /\ rows' = [rows EXCEPT ![id] = end.row]
        /\ bills' = [a \in Accounts |->
                       IF a = GainAccount(id) THEN bills[a] \o end.gain
                       ELSE IF a = HoldAccount(id) THEN bills[a] \o end.spend
                       ELSE bills[a]]
        /\ fills' = [fills EXCEPT ![id] = SubSeq(fills[id], end.settled + 1, Len(fills[id]))]
        /\ \/ billWork' = billWork
           \/ billWork' = billWork \cup {a \in Accounts : bills'[a] # bills[a]}
    BY <1>3, TurnFacts
  <2> HIDE DEF end
  <2>2. end.row \in Rows /\ end.gain \in Seq(BillRecords) /\ end.spend \in Seq(BillRecords)
    BY <2>1 DEF FillsSettled
  <2>3. RowsOK'
    BY <2>1, <2>2, OneUpdate DEF RowsOK, TypeInv
  <2>4. BillsOK'
    <3>1. \A a \in Accounts : /\ bills[a] \in Seq(BillRecords)
                              /\ bills[a] \o end.gain \in Seq(BillRecords)
                              /\ bills[a] \o end.spend \in Seq(BillRecords)
      BY <2>2 DEF TypeInv, BillsOK
    <3> QED
      BY <2>1, <3>1 DEF BillsOK
  <2>5. FillsOK'
    <3>1. fills[id] \in Seq(FillRecords)
      BY DEF TypeInv, FillsOK
    <3>2. SubSeq(fills[id], end.settled + 1, Len(fills[id])) \in Seq(FillRecords)
      BY <2>1, <3>1, RestOfSequence
    <3> QED
      BY <2>1, <3>2, OneUpdate DEF FillsOK, TypeInv
  <2>6. WorkOK'
    BY <1>1, <2>1 DEF WorkOK, TypeInv
  <2> QED
    BY <1>1, <2>3, <2>4, <2>5, <2>6 DEF TypeInv, AccountsOK, RequestsOK, TopicOK, EngineOK,
                                        LogsOK, engineVars, requestVars
<1> QED
  BY <1>2, <1>3

LEMMA ExecuteBillKeepsTypeInv ==
    ASSUME TypeInv, NEW a \in Accounts, ExecuteBill(a)
    PROVE  TypeInv'
<1> DEFINE s == UnsettledBills(a)
           x == AfterBills(accounts[a], s)
           t == SubSeq(bills[a], Len(s) + 1, Len(bills[a]))
<1>1. bills[a] \in Seq(BillRecords) /\ accounts[a] \in [available : Int, hold : Int]
  BY DEF TypeInv, AccountsOK, BillsOK
<1>2. s \in Seq(BillRecords) /\ t \in Seq(BillRecords)
  BY <1>1, BatchFacts DEF UnsettledBills
<1>3. /\ SumFunction([i \in DOMAIN s |-> s[i].hold]) \in Int
      /\ SumFunction([i \in DOMAIN s |-> s[i].available]) \in Int
  BY <1>2, BillNumbers
<1>4. x \in [available : Int, hold : Int]
  BY <1>1, <1>3 DEF AfterBills
<1>5. /\ accounts' = [accounts EXCEPT ![a] = x]
      /\ bills' = [bills EXCEPT ![a] = t]
      /\ billWork' = billWork \ {a}
      /\ UNCHANGED <<rows, fills, requestVars, topic, engineVars, logs, fillWork, troubles>>
  BY DEF ExecuteBill, TypeInv, AccountsOK, BillsOK
<1> HIDE DEF s, x, t
<1>6. AccountsOK'
  BY <1>4, <1>5, OneUpdate DEF AccountsOK, TypeInv
<1>7. BillsOK'
  BY <1>2, <1>5, OneUpdate DEF BillsOK, TypeInv
<1> QED
  BY <1>5, <1>6, <1>7 DEF TypeInv, RowsOK, FillsOK, RequestsOK, TopicOK, EngineOK, LogsOK,
                          WorkOK, engineVars, requestVars

\* The fills of a log, of which IsExchangeLog holds.
LEMMA FillOfLog ==
    ASSUME NEW log, IsExchangeLog(log)
    PROVE  /\ log.kind = "match" =>
                 /\ log.taker \in OrderIds /\ log.maker \in OrderIds /\ log.taker # log.maker
                 /\ Side(log.maker) = Opposite(Side(log.taker))
                 /\ Fill(log) \in FillRecords
                 /\ log.size \in Nat /\ log.price \in Nat
           /\ log.kind = "done" => log.id \in OrderIds /\ DoneFill(log) \in FillRecords
<1>1. CASE log.kind = "match"
  <2>1. /\ log.taker \in OrderIds /\ log.maker \in OrderIds /\ log.size \in Nat /\ log.price \in Nat
        /\ Side(log.maker) = Opposite(Side(log.taker))
    BY <1>1 DEF IsExchangeLog, IsLog
  <2>2. Side(log.taker) \in Sides
    BY <2>1, PlacedOrder
  <2>3. log.taker # log.maker
    BY <2>1, <2>2 DEF Opposite, Sides
  <2>4. Fill(log) \in TradeFills
    BY <2>1 DEF Fill, TradeFills
  <2> QED
    BY <1>1, <2>1, <2>3, <2>4 DEF FillRecords
<1>2. CASE log.kind = "done"
  <2>1. log.id \in OrderIds /\ log.remaining \in Nat /\ log.reason \in Final
    BY <1>2 DEF IsExchangeLog, IsLog, Final
  <2>2. DoneFill(log) \in DoneFills
    BY <2>1 DEF DoneFill, DoneFills
  <2> QED
    BY <1>2, <2>1, <2>2 DEF FillRecords
<1> QED
  BY <1>1, <1>2

\* What one step of the fill maker writes.
LEMMA MadeFills ==
    ASSUME TypeInv, NEW announced, MakeFills(announced)
    PROVE  LET log == Head(logs)
           IN  /\ logs # << >> /\ logs' = Tail(logs) /\ IsExchangeLog(log)
               /\ UNCHANGED <<accounts, rows, bills, requestVars, topic, engineVars, billWork>>
               /\ \/ /\ log.kind = "match"
                     /\ fills' = [id \in OrderIds |->
                                    IF id \in {log.taker, log.maker}
                                    THEN Append(fills[id], Fill(log)) ELSE fills[id]]
                  \/ /\ log.kind = "done"
                     /\ fills' = [id \in OrderIds |->
                                    IF id = log.id THEN Append(fills[id], DoneFill(log))
                                    ELSE fills[id]]
               /\ fillWork' \subseteq fillWork \cup {FirstOf(log)} /\ FirstOf(log) \in OrderIds
<1> DEFINE log == Head(logs)
<1>1. logs # << >> /\ logs' = Tail(logs)
  BY DEF MakeFills
<1>2. IsExchangeLog(log)
  <2>1. log \in Range(logs)
    BY <1>1, TailSequence DEF TypeInv, LogsOK
  <2> QED
    BY <2>1 DEF TypeInv, LogsOK
<1>3. /\ log.kind = "match" => log.taker \in OrderIds /\ log.maker \in OrderIds /\ log.taker # log.maker
      /\ log.kind = "done" => log.id \in OrderIds
  BY <1>2, FillOfLog
<1>4. \/ /\ log.kind = "match"
         /\ fills' = [fills EXCEPT ![log.taker] = Append(@, Fill(log)),
                                   ![log.maker] = Append(@, Fill(log))]
      \/ /\ log.kind = "done"
         /\ fills' = [fills EXCEPT ![log.id] = Append(@, DoneFill(log))]
  BY DEF MakeFills
<1>5. /\ UNCHANGED <<accounts, rows, bills, requestVars, topic, engineVars, billWork>>
      /\ fillWork' = fillWork \cup {FirstOf(log)} \/ fillWork' = fillWork
  BY DEF MakeFills
<1>6. fills = [id \in OrderIds |-> fills[id]]
  BY DEF TypeInv, FillsOK
<1> HIDE DEF log
<1>7. FirstOf(log) \in OrderIds
  BY <1>3, <1>4 DEF FirstOf
<1>8. CASE log.kind = "match"
  <2>1. fills' = [fills EXCEPT ![log.taker] = Append(@, Fill(log)),
                               ![log.maker] = Append(@, Fill(log))]
    BY <1>4, <1>8
  <2>2. fills' = [id \in OrderIds |-> IF id \in {log.taker, log.maker}
                                      THEN Append(fills[id], Fill(log)) ELSE fills[id]]
    BY <1>3, <1>6, <1>8, <2>1
  <2> QED
    BY <1>1, <1>2, <1>5, <1>7, <1>8, <2>2 DEF log
<1>9. CASE log.kind = "done"
  <2>1. fills' = [fills EXCEPT ![log.id] = Append(@, DoneFill(log))]
    BY <1>4, <1>9
  <2>2. fills' = [id \in OrderIds |-> IF id = log.id THEN Append(fills[id], DoneFill(log))
                                      ELSE fills[id]]
    BY <1>3, <1>6, <1>9, <2>1
  <2> QED
    BY <1>1, <1>2, <1>5, <1>7, <1>9, <2>2 DEF log
<1> QED
  BY <1>4, <1>8, <1>9

LEMMA MakeFillsKeepsTypeInv ==
    ASSUME TypeInv, NEW announced, MakeFills(announced)
    PROVE  TypeInv'
<1> DEFINE log == Head(logs)
<1>1. /\ logs # << >> /\ logs' = Tail(logs) /\ IsExchangeLog(log)
      /\ UNCHANGED <<accounts, rows, bills, requestVars, topic, engineVars, billWork>>
      /\ \/ /\ log.kind = "match"
            /\ fills' = [id \in OrderIds |->
                           IF id \in {log.taker, log.maker}
                           THEN Append(fills[id], Fill(log)) ELSE fills[id]]
         \/ /\ log.kind = "done"
            /\ fills' = [id \in OrderIds |->
                           IF id = log.id THEN Append(fills[id], DoneFill(log))
                           ELSE fills[id]]
      /\ fillWork' \subseteq fillWork \cup {FirstOf(log)} /\ FirstOf(log) \in OrderIds
  BY MadeFills
<1> HIDE DEF log
<1>2. /\ log.kind = "match" => Fill(log) \in FillRecords
      /\ log.kind = "done" => DoneFill(log) \in FillRecords
  BY <1>1, FillOfLog
<1>3. FillsOK'
  <2>1. \A id \in OrderIds : \A f \in FillRecords : /\ fills[id] \in Seq(FillRecords)
                                                   /\ Append(fills[id], f) \in Seq(FillRecords)
    BY DEF TypeInv, FillsOK
  <2>2. CASE log.kind = "match"
    <3>1. /\ Fill(log) \in FillRecords
          /\ fills' = [id \in OrderIds |->
                           IF id \in {log.taker, log.maker}
                           THEN Append(fills[id], Fill(log)) ELSE fills[id]]
      BY <1>1, <1>2, <2>2
    <3> QED
      BY <2>1, <3>1 DEF FillsOK
  <2>3. CASE log.kind = "done"
    <3>1. /\ DoneFill(log) \in FillRecords
          /\ fills' = [id \in OrderIds |->
                           IF id = log.id THEN Append(fills[id], DoneFill(log)) ELSE fills[id]]
      BY <1>1, <1>2, <2>3
    <3> QED
      BY <2>1, <3>1 DEF FillsOK
  <2> QED
    BY <1>1, <2>2, <2>3
<1>4. LogsOK'
  <2>1. IsSequence(Tail(logs)) /\ Range(Tail(logs)) \subseteq Range(logs)
    BY <1>1, TailSequence DEF TypeInv, LogsOK
  <2> QED
    BY <1>1, <2>1 DEF TypeInv, LogsOK
<1>5. WorkOK'
  BY <1>1 DEF TypeInv, WorkOK
<1> QED
  BY <1>1, <1>3, <1>4, <1>5 DEF TypeInv, AccountsOK, RowsOK, BillsOK, RequestsOK, TopicOK,
                                EngineOK, engineVars, requestVars

LEMMA UpdateOrderStatusKeepsTypeInv ==
    ASSUME TypeInv, NEW updated, UpdateOrderStatus(updated)
    PROVE  TypeInv'
<1> DEFINE id == Head(logs).id
           x  == [rows[id] EXCEPT !.status = "open"]
<1>1. /\ logs # << >> /\ logs' = Tail(logs) /\ Head(logs).kind = "open"
      /\ rows' = rows \/ rows' = [rows EXCEPT ![id].status = "open"]
      /\ UNCHANGED <<accounts, bills, fills, requestVars, topic, engineVars, fillWork, billWork>>
  BY DEF UpdateOrderStatus
<1>2. IsSequence(Tail(logs)) /\ Range(Tail(logs)) \subseteq Range(logs) /\ Head(logs) \in Range(logs)
  BY <1>1, TailSequence DEF TypeInv, LogsOK
<1>3. id \in OrderIds
  BY <1>1, <1>2 DEF TypeInv, LogsOK, IsExchangeLog, IsLog
<1> HIDE DEF id
<1>4. RowsOK'
  <2>1. rows' = rows \/ rows' = [rows EXCEPT ![id] = x]
    BY <1>1
  <2>2. x \in Rows
    BY <1>3 DEF TypeInv, RowsOK, Rows
  <2> HIDE DEF x
  <2> QED
    BY <1>3, <2>1, <2>2, OneUpdate DEF TypeInv, RowsOK
<1>5. LogsOK'
  BY <1>1, <1>2 DEF TypeInv, LogsOK
<1> QED
  BY <1>1, <1>4, <1>5 DEF TypeInv, AccountsOK, BillsOK, FillsOK, RequestsOK, TopicOK,
                          EngineOK, WorkOK, engineVars, requestVars

\* The variables hold what they should: accounts and bills whole numbers, rows
\* and fills no negative ones, the depths of the engine's book orders of their
\* side, and a match of the log has a buyer and a seller.
THEOREM ExchangeTypeCorrect == Spec => []TypeInv
<1>1. Init => TypeInv
  BY InitTypeInv
<1>2. TypeInv /\ [Next]_vars => TypeInv'
  <2> SUFFICES ASSUME TypeInv, [Next]_vars PROVE TypeInv'
    OBVIOUS
  <2>1. CASE Requesting
    BY <2>1, RequestKeepsTypeInv DEF Requesting
  <2>2. ASSUME NEW a \in Accounts, ExecuteBill(a) PROVE TypeInv'
    BY <2>2, ExecuteBillKeepsTypeInv
  <2>3. ASSUME NEW done \in BOOLEAN, MakeFills(done) PROVE TypeInv'
    BY <2>3, MakeFillsKeepsTypeInv
  <2>4. ASSUME NEW done \in BOOLEAN, UpdateOrderStatus(done) PROVE TypeInv'
    BY <2>4, UpdateOrderStatusKeepsTypeInv
  <2>5. ASSUME NEW done \in BOOLEAN, NEW id \in OrderIds, ExecuteFill(id, done) PROVE TypeInv'
    BY <2>5, ExecuteFillKeepsTypeInv
  <2>6. CASE HandleMessage
    BY <2>6, HandleMessageKeepsTypeInv
  <2>7. CASE InspectFills \/ InspectBills
    BY <2>7 DEF InspectFills, InspectBills, TypeInv, AccountsOK, RowsOK, BillsOK, FillsOK,
                RequestsOK, TopicOK, EngineOK, LogsOK, WorkOK, engineVars, requestVars
  <2>8. CASE UNCHANGED vars
    BY <2>8 DEF vars, TypeInv, AccountsOK, RowsOK, BillsOK, FillsOK,
                RequestsOK, TopicOK, EngineOK, LogsOK, WorkOK, engineVars, requestVars
  <2> QED
    BY <2>1, <2>2, <2>3, <2>4, <2>5, <2>6, <2>7, <2>8 DEF Next, Settling, Over
<1> QED
  BY <1>1, <1>2, PTL DEF Spec

-----------------------------------------------------------------------------
(* Money. *)

\* Wealth and Coming, of the values they depend on.
WealthOf(account, s) == account.available + account.hold + SumAlong(TotalIn, s)
ComingOf(id, currency, s) ==
    IF GainCurrency(id) = currency THEN SumAlong(MovedIn(currency), s)
    ELSE 0 - SumAlong(MovedIn(currency), s)

LEMMA WealthIs ==
    ASSUME TypeInv, TypeInv', NEW a \in Accounts
    PROVE  /\ Wealth(a) = WealthOf(accounts[a], bills[a]) /\ Wealth(a) \in Int
           /\ Wealth(a)' = WealthOf(accounts'[a], bills'[a]) /\ Wealth(a)' \in Int
<1>1. /\ accounts[a] \in [available : Int, hold : Int] /\ accounts'[a] \in [available : Int, hold : Int]
      /\ bills[a] \in Seq(BillRecords) /\ bills'[a] \in Seq(BillRecords)
  BY DEF TypeInv, AccountsOK, BillsOK
<1>2. /\ accounts[a].available \in Int /\ accounts[a].hold \in Int
      /\ accounts'[a].available \in Int /\ accounts'[a].hold \in Int
  BY <1>1
<1>3. ASSUME NEW s \in Seq(BillRecords)
      PROVE  /\ SumFunction([i \in DOMAIN s |-> s[i].available + s[i].hold]) = SumAlong(TotalIn, s)
             /\ SumAlong(TotalIn, s) \in Int
  <2>1. /\ SumAlong(HoldIn, s) \in Int /\ SumAlong(AvailableIn, s) \in Int
        /\ SumAlong(TotalIn, s) = SumAlong(AvailableIn, s) + SumAlong(HoldIn, s)
        /\ SumFunction([i \in DOMAIN s |-> s[i].available + s[i].hold]) = SumAlong(TotalIn, s)
    BY BillNumbers
  <2> QED
    BY <2>1
<1>4. Wealth(a) = WealthOf(accounts[a], bills[a])
  BY <1>1, <1>3 DEF Wealth, WealthOf
<1>5. Wealth(a)' = WealthOf(accounts'[a], bills'[a])
  BY <1>1, <1>3 DEF Wealth, WealthOf
<1>6. SumAlong(TotalIn, bills[a]) \in Int /\ SumAlong(TotalIn, bills'[a]) \in Int
  BY <1>1, <1>3
<1> QED
  BY <1>2, <1>4, <1>5, <1>6 DEF WealthOf

LEMMA ComingIs ==
    ASSUME TypeInv, TypeInv', NEW id \in OrderIds, NEW currency \in Currencies
    PROVE  /\ Coming(id, currency) = ComingOf(id, currency, fills[id])
           /\ Coming(id, currency) \in Int
           /\ Coming(id, currency)' = ComingOf(id, currency, fills'[id])
           /\ Coming(id, currency)' \in Int
<1>1. fills[id] \in Seq(FillRecords) /\ fills'[id] \in Seq(FillRecords)
  BY DEF TypeInv, FillsOK
<1>2. ASSUME NEW s \in Seq(FillRecords)
      PROVE  /\ SumFunction([i \in DOMAIN s |-> Moved(s[i], currency)]) = SumAlong(MovedIn(currency), s)
             /\ SumAlong(MovedIn(currency), s) \in Nat
  BY FillNumbers
<1>3. (GainAccount(id)[2] = currency) <=> (GainCurrency(id) = currency)
  BY DEF GainAccount, GainCurrency
<1> DEFINE s == fills[id]
           t == fills'[id]
<1>4. /\ SumFunction([i \in DOMAIN s |-> Moved(s[i], currency)]) = SumAlong(MovedIn(currency), s)
      /\ SumAlong(MovedIn(currency), s) \in Nat
      /\ SumFunction([i \in DOMAIN t |-> Moved(t[i], currency)]) = SumAlong(MovedIn(currency), t)
      /\ SumAlong(MovedIn(currency), t) \in Nat
  BY <1>1, <1>2
<1>5. /\ Coming(id, currency) = IF GainCurrency(id) = currency THEN SumAlong(MovedIn(currency), s)
                                ELSE -SumAlong(MovedIn(currency), s)
      /\ Coming(id, currency)' = IF GainCurrency(id) = currency THEN SumAlong(MovedIn(currency), t)
                                 ELSE -SumAlong(MovedIn(currency), t)
  BY <1>3, <1>4 DEF Coming
<1> HIDE DEF s, t
<1>6. /\ Coming(id, currency) = ComingOf(id, currency, s) /\ Coming(id, currency) \in Int
      /\ Coming(id, currency)' = ComingOf(id, currency, t) /\ Coming(id, currency)' \in Int
  BY <1>4, <1>5 DEF ComingOf
<1> QED
  BY <1>6 DEF s, t

\* All the money of one currency there is and will be.
MoneyIn(currency) ==
    SumFunction([user \in Users |-> Wealth(<<user, currency>>)])
    + SumFunction([id \in OrderIds |-> Coming(id, currency)])

\* The same for everybody is the same in all.
LEMMA SameMoney ==
    ASSUME NEW currency \in Currencies,
           \A a \in Accounts : Wealth(a)' = Wealth(a),
           \A id \in OrderIds : Coming(id, currency)' = Coming(id, currency)
    PROVE  MoneyIn(currency)' = MoneyIn(currency)
<1>1. [user \in Users |-> Wealth(<<user, currency>>)]' = [user \in Users |-> Wealth(<<user, currency>>)]
  <2>1. \A user \in Users : <<user, currency>> \in Accounts
    BY DEF Accounts
  <2> QED
    BY <2>1
<1>2. [id \in OrderIds |-> Coming(id, currency)]' = [id \in OrderIds |-> Coming(id, currency)]
  OBVIOUS
<1> QED
  BY <1>1, <1>2 DEF MoneyIn

\* Bills become balances.
LEMMA ExecuteBillKeepsWealth ==
    ASSUME TypeInv, TypeInv', NEW a \in Accounts, ExecuteBill(a)
    PROVE  \A b \in Accounts : Wealth(b)' = Wealth(b)
<1> SUFFICES ASSUME NEW b \in Accounts PROVE Wealth(b)' = Wealth(b)
  OBVIOUS
<1> DEFINE s == UnsettledBills(a)
           t == SubSeq(bills[a], Len(s) + 1, Len(bills[a]))
<1>1. bills[a] \in Seq(BillRecords) /\ accounts[a] \in [available : Int, hold : Int]
  BY DEF TypeInv, AccountsOK, BillsOK
<1>2. /\ accounts' = [accounts EXCEPT ![a] = AfterBills(accounts[a], s)]
      /\ bills' = [bills EXCEPT ![a] = t]
      /\ accounts = [x \in Accounts |-> accounts[x]] /\ bills = [x \in Accounts |-> bills[x]]
  BY DEF ExecuteBill, TypeInv, AccountsOK, BillsOK
<1>3. s \in Seq(BillRecords) /\ t \in Seq(BillRecords) /\ Len(s) \in 0 .. Len(bills[a])
      /\ s = SubSeq(bills[a], 1, Len(s))
  BY <1>1, BatchFacts DEF UnsettledBills
<1>4. /\ Wealth(b) = WealthOf(accounts[b], bills[b])
      /\ Wealth(b)' = WealthOf(accounts'[b], bills'[b])
  BY WealthIs
<1>5. CASE b # a
  <2>1. accounts'[b] = accounts[b] /\ bills'[b] = bills[b]
    BY <1>2, <1>5
  <2> QED
    BY <1>4, <2>1
<1>6. CASE b = a
  <2>1. accounts'[b] = AfterBills(accounts[a], s) /\ bills'[b] = t
    BY <1>2, <1>6
  <2>2. /\ SumFunction([i \in DOMAIN s |-> s[i].hold]) = SumAlong(HoldIn, s)
        /\ SumFunction([i \in DOMAIN s |-> s[i].available]) = SumAlong(AvailableIn, s)
        /\ SumAlong(HoldIn, s) \in Int /\ SumAlong(AvailableIn, s) \in Int
        /\ SumAlong(TotalIn, s) = SumAlong(AvailableIn, s) + SumAlong(HoldIn, s)
    BY <1>3, BillNumbers
  <2>3. SumAlong(TotalIn, bills[a]) = SumAlong(TotalIn, s) + SumAlong(TotalIn, t)
    <3>1. IsSequence(bills[a]) /\ Numbers(TotalIn, bills[a])
      BY <1>1, BillNumbers
    <3>2. SumAlong(TotalIn, bills[a]) = SumAlong(TotalIn, SubSeq(bills[a], 1, Len(s)))
                                        + SumAlong(TotalIn, SubSeq(bills[a], Len(s) + 1, Len(bills[a])))
      BY <1>3, <3>1, SumAlongParts
    <3> QED
      BY <1>3, <3>2
  <2>4. SumAlong(TotalIn, t) \in Int
    <3>1. /\ SumAlong(HoldIn, t) \in Int /\ SumAlong(AvailableIn, t) \in Int
          /\ SumAlong(TotalIn, t) = SumAlong(AvailableIn, t) + SumAlong(HoldIn, t)
      BY <1>3, BillNumbers
    <3> QED
      BY <3>1
  <2>5. /\ accounts[a].available \in Int /\ accounts[a].hold \in Int
        /\ AfterBills(accounts[a], s).available = accounts[a].available + SumAlong(AvailableIn, s)
        /\ AfterBills(accounts[a], s).hold = accounts[a].hold + SumAlong(HoldIn, s)
    BY <1>1, <2>2 DEF AfterBills
  <2> HIDE DEF s, t
  <2>6. /\ WealthOf(accounts[a], bills[a]) =
              accounts[a].available + accounts[a].hold + SumAlong(TotalIn, bills[a])
        /\ WealthOf(AfterBills(accounts[a], s), t) =
              AfterBills(accounts[a], s).available + AfterBills(accounts[a], s).hold
              + SumAlong(TotalIn, t)
    BY DEF WealthOf
  <2>7. WealthOf(AfterBills(accounts[a], s), t) = WealthOf(accounts[a], bills[a])
    BY <2>2, <2>3, <2>4, <2>5, <2>6
  <2> QED
    BY <1>4, <1>6, <2>1, <2>7
<1> QED
  BY <1>5, <1>6

\* What is put on hold is still there.
LEMMA HoldBalanceKeepsWealth ==
    ASSUME TypeInv, TypeInv', NEW id \in OrderIds, HoldBalance(id)
    PROVE  \A b \in Accounts : Wealth(b)' = Wealth(b)
<1> SUFFICES ASSUME NEW b \in Accounts PROVE Wealth(b)' = Wealth(b)
  OBVIOUS
<1> DEFINE a == HoldAccount(id)
           h == HoldSize(id)
<1>1. a \in Accounts /\ h \in Nat
  BY PlacedOrder
<1>2. /\ accounts' = [accounts EXCEPT ![a] = [available |-> accounts[a].available - h,
                                              hold      |-> accounts[a].hold + h]]
      /\ bills' = bills
      /\ accounts = [x \in Accounts |-> accounts[x]]
  BY <1>1 DEF HoldBalance, TypeInv, AccountsOK
<1>3. accounts[a].available \in Int /\ accounts[a].hold \in Int
  BY <1>1 DEF TypeInv, AccountsOK
<1>4. /\ Wealth(b) = WealthOf(accounts[b], bills[b]) /\ Wealth(b) \in Int
      /\ Wealth(b)' = WealthOf(accounts'[b], bills'[b])
  BY WealthIs
<1> HIDE DEF a, h
<1>5. CASE b # a
  <2>1. accounts'[b] = accounts[b] /\ bills'[b] = bills[b]
    BY <1>2, <1>5
  <2> QED
    BY <1>4, <2>1
<1>6. CASE b = a
  <2>1. /\ accounts'[a].available = accounts[a].available - h
        /\ accounts'[a].hold = accounts[a].hold + h
        /\ bills'[a] = bills[a]
    BY <1>1, <1>2
  <2>2. /\ WealthOf(accounts[a], bills[a]) =
              accounts[a].available + accounts[a].hold + SumAlong(TotalIn, bills[a])
        /\ WealthOf(accounts'[a], bills'[a]) =
              accounts'[a].available + accounts'[a].hold + SumAlong(TotalIn, bills'[a])
    BY DEF WealthOf
  <2>3. (accounts[a].available - h) + (accounts[a].hold + h) = accounts[a].available + accounts[a].hold
    BY <1>1, <1>3
  <2>4. WealthOf(accounts'[a], bills'[a]) = WealthOf(accounts[a], bills[a])
    BY <2>1, <2>2, <2>3
  <2> QED
    BY <1>4, <1>6, <2>4
<1> QED
  BY <1>5, <1>6

LEMMA TwoChanges ==
    ASSUME NEW f, NEW g, NEW S, Summable(f, S), NEW x \in S, NEW y \in S, x # y,
           g[x] \in Int, g[y] \in Int,
           \A z \in S : z # x /\ z # y => g[z] = f[z]
    PROVE  SumFunctionOnSet(g, S) = SumFunctionOnSet(f, S) + (g[x] - f[x]) + (g[y] - f[y])
<1> DEFINE h == [z \in S |-> IF z = x THEN g[x] ELSE f[z]]
<1>1. /\ h[x] = g[x] /\ h[y] = f[y]
      /\ \A z \in S \ {x} : h[z] = f[z]
      /\ \A z \in S \ {y} : g[z] = h[z]
  OBVIOUS
<1>2. Summable(h, S)
  BY DEF Summable
<1> HIDE DEF h
<1>3. SumFunctionOnSet(h, S) = SumFunctionOnSet(f, S) + (h[x] - f[x])
  BY <1>1, SumChanges
<1>4. SumFunctionOnSet(g, S) = SumFunctionOnSet(h, S) + (g[y] - h[y])
  BY <1>1, <1>2, SumChanges
<1>5. SumFunctionOnSet(f, S) \in Int /\ f[x] \in Int /\ f[y] \in Int
  BY SumIsNumber DEF Summable
<1> QED
  BY <1>1, <1>3, <1>4, <1>5

\* One more fill.
LEMMA OneMoreFill ==
    ASSUME NEW id \in OrderIds, NEW s \in Seq(FillRecords), NEW f \in FillRecords, NEW currency
    PROVE  ComingOf(id, currency, Append(s, f)) =
              ComingOf(id, currency, s)
              + (IF GainCurrency(id) = currency THEN Moved(f, currency) ELSE 0 - Moved(f, currency))
<1> DEFINE e == MovedIn(currency)
<1>1. IsSequence(s) /\ Numbers(e, s) /\ SumAlong(e, s) \in Nat
  BY FillNumbers
<1>2. e[f] = Moved(f, currency) /\ Moved(f, currency) \in Nat
  <2>1. <<f>> \in Seq(FillRecords) /\ f \in Range(<<f>>)
    <3>1. IsSequence(<<f>>) /\ Len(<<f>>) = 1 /\ <<f>>[1] = f
      BY OneElement
    <3>2. <<f>>[1] \in Range(<<f>>)
      BY <3>1, SequenceFacts
    <3> QED
      BY <3>1, <3>2
  <2> QED
    BY <2>1, FillNumbers
<1>3. SumAlong(e, Append(s, f)) = SumAlong(e, s) + e[f]
  BY <1>1, <1>2, SumAlongAppend
<1> QED
  BY <1>1, <1>2, <1>3 DEF ComingOf

\* What one side of a trade will bring, the other will take.
LEMMA MakeFillsKeepsMoney ==
    ASSUME TypeInv, TypeInv', NEW announced, MakeFills(announced), NEW currency \in Currencies
    PROVE  MoneyIn(currency)' = MoneyIn(currency)
<1> DEFINE log == Head(logs)
           F == [id \in OrderIds |-> Coming(id, currency)]
           G == [id \in OrderIds |-> Coming(id, currency)']
<1>1. /\ IsExchangeLog(log)
      /\ UNCHANGED <<accounts, bills>>
      /\ \/ /\ log.kind = "match"
            /\ fills' = [id \in OrderIds |->
                           IF id \in {log.taker, log.maker}
                           THEN Append(fills[id], Fill(log)) ELSE fills[id]]
         \/ /\ log.kind = "done"
            /\ fills' = [id \in OrderIds |->
                           IF id = log.id THEN Append(fills[id], DoneFill(log))
                           ELSE fills[id]]
  BY MadeFills
<1> HIDE DEF log
<1>2. \A a \in Accounts : Wealth(a)' = Wealth(a)
  BY <1>1, WealthIs
<1>3. \A id \in OrderIds : /\ Coming(id, currency) = ComingOf(id, currency, fills[id])
                           /\ Coming(id, currency) \in Int
                           /\ Coming(id, currency)' = ComingOf(id, currency, fills'[id])
                           /\ Coming(id, currency)' \in Int
  BY ComingIs
<1>4. \A id \in OrderIds : fills[id] \in Seq(FillRecords)
  BY DEF TypeInv, FillsOK
<1>5. CASE log.kind = "match"
  <2>0. PICK x, y \in OrderIds : x = log.taker /\ y = log.maker
    BY <1>1, <1>5, FillOfLog
  <2> DEFINE f == Fill(log)
             m == Moved(f, currency)
  <2>1. /\ fills' = [id \in OrderIds |-> IF id \in {x, y} THEN Append(fills[id], f) ELSE fills[id]]
        /\ x \in OrderIds /\ y \in OrderIds /\ x # y /\ Side(y) = Opposite(Side(x))
        /\ f \in FillRecords
    BY <1>1, <1>5, <2>0, FillOfLog
  <2>2. m \in Nat
    <3>1. log.size \in Nat /\ log.price \in Nat
      BY <1>1, <1>5, FillOfLog
    <3>2. log.size * log.price \in Nat
      BY <3>1
    <3> QED
      BY <3>1, <3>2 DEF Moved, Fill
  <2> HIDE DEF f, m
  <2>3. /\ fills'[x] = Append(fills[x], f) /\ fills'[y] = Append(fills[y], f)
        /\ \A id \in OrderIds : id # x /\ id # y => fills'[id] = fills[id]
    BY <2>1
  <2>4. /\ F[x] \in Int /\ F[y] \in Int
        /\ G[x] = F[x] + (IF GainCurrency(x) = currency THEN m ELSE 0 - m)
        /\ G[y] = F[y] + (IF GainCurrency(y) = currency THEN m ELSE 0 - m)
    <3>1. /\ ComingOf(x, currency, Append(fills[x], f)) = ComingOf(x, currency, fills[x])
                + (IF GainCurrency(x) = currency THEN m ELSE 0 - m)
          /\ ComingOf(y, currency, Append(fills[y], f)) = ComingOf(y, currency, fills[y])
                + (IF GainCurrency(y) = currency THEN m ELSE 0 - m)
      BY <1>4, <2>1, OneMoreFill DEF m
    <3>2. F[x] = Coming(x, currency) /\ F[y] = Coming(y, currency)
          /\ G[x] = Coming(x, currency)' /\ G[y] = Coming(y, currency)'
      BY <2>1
    <3> QED
      BY <1>3, <2>1, <2>3, <3>1, <3>2
  <2>5. GainCurrency(x) = currency <=> GainCurrency(y) # currency
    <3>1. Side(x) \in Sides
      BY <2>1, PlacedOrder
    <3> QED
      BY <2>1, <3>1 DEF GainCurrency, Opposite, Sides, Currencies
  <2>6. /\ Summable(F, OrderIds)
        /\ \A id \in OrderIds : id # x /\ id # y => G[id] = F[id]
    BY <1>3, <2>3, FiniteConstants DEF Summable
  <2>7. G[x] \in Int /\ G[y] \in Int
    BY <1>3, <2>1
  <2> HIDE DEF F, G
  <2>8. SumFunctionOnSet(G, OrderIds) = SumFunctionOnSet(F, OrderIds) + (G[x] - F[x]) + (G[y] - F[y])
    BY <2>1, <2>6, <2>7, TwoChanges
  <2>9. (G[x] - F[x]) + (G[y] - F[y]) = 0
    BY <2>2, <2>4, <2>5
  <2>10. SumFunctionOnSet(G, OrderIds) = SumFunctionOnSet(F, OrderIds)
    <3>1. SumFunctionOnSet(F, OrderIds) \in Int
      BY <2>6, SumIsNumber
    <3> QED
      BY <2>4, <2>7, <2>8, <2>9, <3>1
  <2>11. SumFunction(F) = SumFunctionOnSet(F, OrderIds) /\ SumFunction(G) = SumFunctionOnSet(G, OrderIds)
    BY DEF SumFunction, F, G
  <2>12. /\ [id \in OrderIds |-> Coming(id, currency)] = F
         /\ [id \in OrderIds |-> Coming(id, currency)]' = G
    BY DEF F, G
  <2>13. [user \in Users |-> Wealth(<<user, currency>>)]' = [user \in Users |-> Wealth(<<user, currency>>)]
    <3>1. \A user \in Users : <<user, currency>> \in Accounts
      BY DEF Accounts
    <3> QED
      BY <1>2, <3>1
  <2> QED
    BY <2>10, <2>11, <2>12, <2>13 DEF MoneyIn
<1>6. CASE log.kind = "done"
  <2> DEFINE f == DoneFill(log)
  <2>1. /\ fills' = [id \in OrderIds |-> IF id = log.id THEN Append(fills[id], f) ELSE fills[id]]
        /\ f \in FillRecords /\ Moved(f, currency) = 0
    BY <1>1, <1>6, FillOfLog DEF Moved, DoneFill
  <2> HIDE DEF f
  <2>2. \A id \in OrderIds : Coming(id, currency)' = Coming(id, currency)
    <3> SUFFICES ASSUME NEW id \in OrderIds PROVE Coming(id, currency)' = Coming(id, currency)
      OBVIOUS
    <3>1. ComingOf(id, currency, Append(fills[id], f)) = ComingOf(id, currency, fills[id]) + 0
      <4>1. ComingOf(id, currency, Append(fills[id], f)) =
                ComingOf(id, currency, fills[id])
                + (IF GainCurrency(id) = currency THEN Moved(f, currency) ELSE 0 - Moved(f, currency))
        BY <1>4, <2>1, OneMoreFill
      <4>2. (IF GainCurrency(id) = currency THEN Moved(f, currency) ELSE 0 - Moved(f, currency)) = 0
        BY <2>1
      <4> QED
        BY <4>1, <4>2
    <3>2. fills'[id] = fills[id] \/ fills'[id] = Append(fills[id], f)
      BY <2>1
    <3>3. /\ Coming(id, currency) = ComingOf(id, currency, fills[id])
          /\ ComingOf(id, currency, fills[id]) \in Int
          /\ Coming(id, currency)' = ComingOf(id, currency, fills'[id])
      BY <1>3
    <3>4. ComingOf(id, currency, Append(fills[id], f)) = ComingOf(id, currency, fills[id])
      BY <3>1, <3>3
    <3> QED
      BY <3>2, <3>3, <3>4, Zenon
  <2> QED
    BY <1>2, <2>2, SameMoney
<1> QED
  BY <1>1, <1>5, <1>6

\* What a turn takes out of the fills, and what it leaves.
LEMMA TurnMoves ==
    ASSUME TypeInv, NEW id \in OrderIds, NEW announced, ExecuteFill(id, announced), Settles(id),
           NEW currency \in Currencies
    PROVE  LET end == Ended(id)
           IN  \E m \in Nat :
                  /\ SumAlong(MovedIn(currency), fills[id]) =
                        m + SumAlong(MovedIn(currency),
                                     SubSeq(fills[id], end.settled + 1, Len(fills[id])))
                  /\ currency = GainCurrency(id) => SumAlong(TotalIn, end.gain) = m
                  /\ currency = SpendCurrency(id) => SumAlong(TotalIn, end.spend) = 0 - m
                  /\ currency = "base" => end.row.filled = rows[id].filled + m
                  /\ currency = "quote" => end.row.executed = rows[id].executed + m
                  /\ currency = SpendCurrency(id) =>
                        SumAlong(HoldIn, end.spend) =
                           0 - m - (IF end.row.status \in Final
                                    THEN PositivePart(Rest(id, end.row)) ELSE 0)
<1> DEFINE s == UnsettledFills(id)
           n == Len(s)
           end == Ended(id)
           k == end.settled
           all == fills[id]
<1>1. /\ n \in 0 .. Len(all) /\ s = SubSeq(all, 1, n) /\ s \in Seq(FillRecords)
      /\ FillsSettled(id, rows[id], s, n, end)
      /\ k \in 0 .. Len(all)
  BY TurnFacts
<1>2. all \in Seq(FillRecords)
  BY DEF TypeInv, FillsOK
<1> HIDE DEF s, end, k, all, n
<1>3. k \in 0 .. n /\ n \in Nat /\ Len(all) \in Nat
  <2>1. k \in 0 .. n
    BY <1>1 DEF FillsSettled, k
  <2> QED
    BY <1>1, <1>2, <2>1
<1>4. SubSeq(s, 1, k) = SubSeq(all, 1, k)
  <2>1. SubSeq(SubSeq(all, 1, n), 1, k) = SubSeq(all, 1 + 1 - 1, 1 + k - 1)
    <3>1. 1 \in 1 .. Len(all) + 1 /\ n \in 1 - 1 .. Len(all) /\ 1 \in 1 .. n + 1 /\ k \in 0 .. n
      BY <1>1, <1>3
    <3> QED
      BY <1>2, <1>3, <3>1, SubSeqOfSubSeq
  <2> QED
    BY <1>1, <1>3, <2>1
<1> DEFINE m == SumAlong(MovedIn(currency), SubSeq(all, 1, k))
<1>5. MovedBy(s, k, currency) = m /\ m \in Nat
  <2>1. MovedBy(s, k, currency) = m
    BY <1>4 DEF MovedBy
  <2>2. k \in 0 .. Len(s)
    BY <1>3 DEF n
  <2> QED
    BY <1>1, <2>1, <2>2, MovedOneMore
<1>6. SumAlong(MovedIn(currency), all) = m + SumAlong(MovedIn(currency), SubSeq(all, k + 1, Len(all)))
  <2>1. IsSequence(all) /\ Numbers(MovedIn(currency), all)
    BY <1>2, FillNumbers
  <2> QED
    BY <1>1, <2>1, SumAlongParts
<1> HIDE DEF m
<1>7. /\ SumAlong(TotalIn, end.gain) = MovedBy(s, k, GainCurrency(id))
      /\ SumAlong(TotalIn, end.spend) = 0 - MovedBy(s, k, SpendCurrency(id))
  BY <1>1 DEF FillsSettled, k
<1>8. /\ currency = GainCurrency(id) => SumAlong(TotalIn, end.gain) = m
      /\ currency = SpendCurrency(id) => SumAlong(TotalIn, end.spend) = 0 - m
  BY <1>5, <1>7
<1>9. /\ end.row.filled = rows[id].filled + MovedBy(s, k, "base")
      /\ end.row.executed = rows[id].executed + MovedBy(s, k, "quote")
  BY <1>1 DEF FillsSettled, k
<1>10. /\ currency = "base" => end.row.filled = rows[id].filled + m
       /\ currency = "quote" => end.row.executed = rows[id].executed + m
  BY <1>5, <1>9
<1> DEFINE released == IF end.row.status \in Final THEN PositivePart(Rest(id, end.row)) ELSE 0
<1>11. SumAlong(HoldIn, end.spend) = 0 - MovedBy(s, k, SpendCurrency(id)) - released
  <2> DEFINE moved == MovedBy(s, k, SpendCurrency(id))
  <2>1. moved \in Nat
    <3>1. k \in 0 .. Len(s)
      BY <1>3 DEF n
    <3> QED
      BY <1>1, <3>1, MovedOneMore
  <2>2. /\ end.row.status \notin Final => SumAlong(HoldIn, end.spend) = 0 - moved
        /\ end.row.status \in Final =>
              SumAlong(HoldIn, end.spend) = 0 - moved - PositivePart(Rest(id, end.row))
    BY <1>1 DEF FillsSettled, k
  <2> HIDE DEF moved
  <2>3. (0 - moved) - 0 = 0 - moved
    BY <2>1
  <2> QED
    BY <2>2, <2>3 DEF moved
<1> HIDE DEF released
<1>12. currency = SpendCurrency(id) => SumAlong(HoldIn, end.spend) = 0 - m - released
  BY <1>5, <1>11
<1> QED
  BY <1>5, <1>6, <1>8, <1>10, <1>12 DEF end, k, all, released

\* More bills.
LEMMA MoreBills ==
    ASSUME NEW account \in [available : Int, hold : Int],
           NEW s \in Seq(BillRecords), NEW t \in Seq(BillRecords)
    PROVE  /\ WealthOf(account, s \o t) = WealthOf(account, s) + SumAlong(TotalIn, t)
           /\ SumAlong(TotalIn, t) \in Int
<1>1. /\ IsSequence(s) /\ Numbers(TotalIn, s) /\ SumAlong(HoldIn, s) \in Int
      /\ SumAlong(AvailableIn, s) \in Int
      /\ SumAlong(TotalIn, s) = SumAlong(AvailableIn, s) + SumAlong(HoldIn, s)
  BY BillNumbers
<1>2. /\ IsSequence(t) /\ Numbers(TotalIn, t) /\ SumAlong(HoldIn, t) \in Int
      /\ SumAlong(AvailableIn, t) \in Int
      /\ SumAlong(TotalIn, t) = SumAlong(AvailableIn, t) + SumAlong(HoldIn, t)
  BY BillNumbers
<1>3. SumAlong(TotalIn, s \o t) = SumAlong(TotalIn, s) + SumAlong(TotalIn, t)
  BY <1>1, <1>2, SumAlongConcat
<1>4. account.available \in Int /\ account.hold \in Int
  OBVIOUS
<1>5. SumAlong(TotalIn, s) \in Int /\ SumAlong(TotalIn, t) \in Int
  BY <1>1, <1>2
<1> QED
  BY <1>3, <1>4, <1>5 DEF WealthOf

\* Fills become bills.
LEMMA ExecuteFillKeepsMoney ==
    ASSUME TypeInv, TypeInv', NEW id \in OrderIds, NEW announced, ExecuteFill(id, announced),
           NEW currency \in Currencies
    PROVE  MoneyIn(currency)' = MoneyIn(currency)
<1>1. \A x \in OrderIds : /\ Coming(x, currency) = ComingOf(x, currency, fills[x])
                          /\ Coming(x, currency) \in Int
                          /\ Coming(x, currency)' = ComingOf(x, currency, fills'[x])
                          /\ Coming(x, currency)' \in Int
  BY ComingIs
<1>2. \A a \in Accounts : /\ Wealth(a) = WealthOf(accounts[a], bills[a]) /\ Wealth(a) \in Int
                          /\ Wealth(a)' = WealthOf(accounts'[a], bills'[a]) /\ Wealth(a)' \in Int
  BY WealthIs
<1>3. accounts' = accounts
  BY TurnFacts
<1>4. CASE ~ Settles(id)
  <2>1. bills' = bills /\ fills' = fills
    BY <1>4, TurnFacts
  <2>2. \A a \in Accounts : Wealth(a)' = Wealth(a)
    BY <1>2, <1>3, <2>1
  <2>3. \A x \in OrderIds : Coming(x, currency)' = Coming(x, currency)
    BY <1>1, <2>1
  <2> QED
    BY <2>2, <2>3, SameMoney
<1>5. CASE Settles(id)
  <2> DEFINE user == Placed[id].user
  <2>0. PICK gain, spend, k :
             /\ gain = Ended(id).gain /\ spend = Ended(id).spend /\ k = Ended(id).settled
    OBVIOUS
  <2>1. /\ FillsSettled(id, rows[id], UnsettledFills(id), Len(UnsettledFills(id)), Ended(id))
        /\ k \in 0 .. Len(fills[id])
        /\ bills' = [a \in Accounts |->
                       IF a = GainAccount(id) THEN bills[a] \o gain
                       ELSE IF a = HoldAccount(id) THEN bills[a] \o spend
                       ELSE bills[a]]
        /\ fills' = [fills EXCEPT ![id] = SubSeq(fills[id], k + 1, Len(fills[id]))]
    BY <1>5, <2>0, TurnFacts
  <2>2. gain \in Seq(BillRecords) /\ spend \in Seq(BillRecords)
    BY <2>0, <2>1 DEF FillsSettled
  <2>3. PICK m \in Nat :
            /\ SumAlong(MovedIn(currency), fills[id]) =
                  m + SumAlong(MovedIn(currency), SubSeq(fills[id], k + 1, Len(fills[id])))
            /\ currency = GainCurrency(id) => SumAlong(TotalIn, gain) = m
            /\ currency = SpendCurrency(id) => SumAlong(TotalIn, spend) = 0 - m
    BY <1>5, <2>0, TurnMoves
  <2>4. /\ GainAccount(id) = <<user, GainCurrency(id)>> /\ HoldAccount(id) = <<user, SpendCurrency(id)>>
        /\ user \in Users
        /\ GainCurrency(id) # SpendCurrency(id)
        /\ currency = GainCurrency(id) \/ currency = SpendCurrency(id)
    BY PlacedOrder DEF GainCurrency, SpendCurrency, Currencies
  <2> HIDE DEF user
  <2> DEFINE d == IF currency = GainCurrency(id) THEN m ELSE 0 - m
             W == [u \in Users |-> Wealth(<<u, currency>>)]
             V == [u \in Users |-> Wealth(<<u, currency>>)']
             F == [x \in OrderIds |-> Coming(x, currency)]
             G == [x \in OrderIds |-> Coming(x, currency)']
             a == <<user, currency>>
  <2>5. \A u \in Users : <<u, currency>> \in Accounts
    BY DEF Accounts
  <2>6. /\ d \in Int /\ a \in Accounts
        /\ accounts[a] \in [available : Int, hold : Int] /\ bills[a] \in Seq(BillRecords)
    BY <2>4, <2>5 DEF TypeInv, AccountsOK, BillsOK
  <2>7. Wealth(a)' = Wealth(a) + d
    <3>1. CASE currency = GainCurrency(id)
      <4>1. bills'[a] = bills[a] \o gain
        BY <2>1, <2>4, <2>6, <3>1
      <4>2. SumAlong(TotalIn, gain) = d
        BY <2>3, <3>1
      <4>3. WealthOf(accounts[a], bills[a] \o gain) = WealthOf(accounts[a], bills[a]) + d
        BY <2>2, <2>6, <4>2, MoreBills
      <4> QED
        BY <1>2, <1>3, <2>6, <4>1, <4>3
    <3>2. CASE currency # GainCurrency(id)
      <4>1. bills'[a] = bills[a] \o spend
        BY <2>1, <2>4, <2>6, <3>2
      <4>2. SumAlong(TotalIn, spend) = d
        BY <2>3, <2>4, <3>2
      <4>3. WealthOf(accounts[a], bills[a] \o spend) = WealthOf(accounts[a], bills[a]) + d
        BY <2>2, <2>6, <4>2, MoreBills
      <4> QED
        BY <1>2, <1>3, <2>6, <4>1, <4>3
    <3> QED
      BY <3>1, <3>2
  <2>8. ASSUME NEW u \in Users \ {user}
        PROVE  Wealth(<<u, currency>>)' = Wealth(<<u, currency>>)
    <3>1. <<u, currency>> \in Accounts /\ <<u, currency>> # GainAccount(id)
          /\ <<u, currency>> # HoldAccount(id)
      BY <2>4, <2>5
    <3>2. bills'[<<u, currency>>] = bills[<<u, currency>>]
      BY <2>1, <3>1
    <3> QED
      BY <1>2, <1>3, <3>1, <3>2
  <2>9. Coming(id, currency)' = Coming(id, currency) - d
    <3> DEFINE p == SumAlong(MovedIn(currency), fills[id])
               q == SumAlong(MovedIn(currency), SubSeq(fills[id], k + 1, Len(fills[id])))
    <3>1. fills'[id] = SubSeq(fills[id], k + 1, Len(fills[id]))
      BY <2>1 DEF TypeInv, FillsOK
    <3>2. SubSeq(fills[id], k + 1, Len(fills[id])) \in Seq(FillRecords)
      <4>1. fills[id] \in Seq(FillRecords)
        BY DEF TypeInv, FillsOK
      <4> QED
        BY <2>1, <4>1, RestOfSequence
    <3>3. p = m + q /\ q \in Nat
      <4>1. q \in Nat
        BY <3>2, FillNumbers
      <4> QED
        BY <2>3, <4>1
    <3>4. /\ Coming(id, currency) = IF GainCurrency(id) = currency THEN p ELSE 0 - p
          /\ Coming(id, currency)' = IF GainCurrency(id) = currency THEN q ELSE 0 - q
      BY <1>1, <3>1 DEF ComingOf
    <3> HIDE DEF p, q
    <3> QED
      BY <3>3, <3>4
  <2>10. ASSUME NEW x \in OrderIds \ {id}
         PROVE  Coming(x, currency)' = Coming(x, currency)
    <3>1. fills'[x] = fills[x]
      BY <2>1 DEF TypeInv, FillsOK
    <3> QED
      BY <1>1, <3>1
  <2>11. /\ [u \in Users |-> Wealth(<<u, currency>>)] = W
         /\ [u \in Users |-> Wealth(<<u, currency>>)]' = V
         /\ [x \in OrderIds |-> Coming(x, currency)] = F
         /\ [x \in OrderIds |-> Coming(x, currency)]' = G
    OBVIOUS
  <2>12. /\ SumFunction(W) = SumFunctionOnSet(W, Users) /\ SumFunction(V) = SumFunctionOnSet(V, Users)
         /\ SumFunction(F) = SumFunctionOnSet(F, OrderIds)
         /\ SumFunction(G) = SumFunctionOnSet(G, OrderIds)
    BY DEF SumFunction
  <2>13. /\ Summable(W, Users) /\ user \in Users /\ V[user] \in Int
         /\ V[user] = W[user] + d /\ W[user] \in Int
         /\ \A u \in Users \ {user} : V[u] = W[u]
    BY <1>2, <2>4, <2>5, <2>6, <2>7, <2>8, FiniteConstants DEF Summable
  <2>14. /\ Summable(F, OrderIds) /\ G[id] \in Int
         /\ G[id] = F[id] - d /\ F[id] \in Int
         /\ \A x \in OrderIds \ {id} : G[x] = F[x]
    BY <1>1, <2>9, <2>10, FiniteConstants DEF Summable
  <2> HIDE DEF W, V, F, G, d, a
  <2>15. SumFunctionOnSet(V, Users) = SumFunctionOnSet(W, Users) + (V[user] - W[user])
    BY <2>13, SumChanges
  <2>16. SumFunctionOnSet(G, OrderIds) = SumFunctionOnSet(F, OrderIds) + (G[id] - F[id])
    BY <2>14, SumChanges
  <2>17. SumFunctionOnSet(W, Users) \in Int /\ SumFunctionOnSet(F, OrderIds) \in Int
    BY <2>13, <2>14, SumIsNumber
  <2>18. SumFunctionOnSet(V, Users) + SumFunctionOnSet(G, OrderIds) =
            SumFunctionOnSet(W, Users) + SumFunctionOnSet(F, OrderIds)
    BY <2>6, <2>13, <2>14, <2>15, <2>16, <2>17
  <2> QED
    BY <2>11, <2>12, <2>18 DEF MoneyIn
<1> QED
  BY <1>4, <1>5

LEMMA InitMoney == Init => MoneyConserved
<1> SUFFICES ASSUME Init, NEW currency \in Currencies
             PROVE  MoneyIn(currency) = SumFunction([user \in Users |-> Balances[<<user, currency>>]])
  BY DEF MoneyConserved, MoneyIn
<1>1. << >> \in Seq(BillRecords) /\ << >> \in Seq(FillRecords)
  OBVIOUS
<1>2. SumFunction([i \in DOMAIN << >> |-> << >>[i].available + << >>[i].hold]) = 0
  BY <1>1, BillNumbers, SumAlongNothing
<1>3. SumFunction([i \in DOMAIN << >> |-> Moved(<< >>[i], currency)]) = 0
  BY <1>1, FillNumbers, SumAlongNothing
<1>4. ASSUME NEW user \in Users
      PROVE  Wealth(<<user, currency>>) = Balances[<<user, currency>>]
  <2> DEFINE a == <<user, currency>>
  <2>1. a \in Accounts /\ Balances[a] \in Nat
    BY ExchangeAssumption DEF Accounts
  <2> HIDE DEF a
  <2>2. accounts[a].available = Balances[a] /\ accounts[a].hold = 0 /\ bills[a] = << >>
    BY <2>1 DEF Init
  <2>3. SumFunction([i \in DOMAIN bills[a] |-> bills[a][i].available + bills[a][i].hold]) = 0
    BY <1>2, <2>2
  <2>4. Wealth(a) = accounts[a].available + accounts[a].hold + 0
    BY <2>3 DEF Wealth
  <2>5. Wealth(a) = Balances[a]
    BY <2>1, <2>2, <2>4
  <2> QED
    BY <2>5 DEF a
<1>5. ASSUME NEW id \in OrderIds
      PROVE  Coming(id, currency) = 0
  <2>1. fills[id] = << >>
    BY DEF Init
  <2>2. PICK n \in Nat : n = 0
    OBVIOUS
  <2>3. SumFunction([i \in DOMAIN fills[id] |-> Moved(fills[id][i], currency)]) = n
    BY <1>3, <2>1, <2>2
  <2>4. Coming(id, currency) = IF GainAccount(id)[2] = currency THEN n ELSE -n
    BY <2>3 DEF Coming
  <2>5. 0 - n = -n
    OBVIOUS
  <2>6. n = 0 - n
    BY <2>2
  <2>7. Coming(id, currency) = n
    BY <2>4, <2>5, <2>6, Zenon
  <2> QED
    BY <2>2, <2>7
<1> DEFINE F == [id \in OrderIds |-> Coming(id, currency)]
           B == [user \in Users |-> Balances[<<user, currency>>]]
<1>6. [user \in Users |-> Wealth(<<user, currency>>)] = B
  BY <1>4
<1>7. SumFunction(F) = 0
  <2>1. DOMAIN F = OrderIds /\ \A id \in OrderIds : F[id] = 0
    BY <1>5
  <2> HIDE DEF F
  <2> QED
    BY <2>1, FiniteConstants, SumOfZeros DEF SumFunction
<1>8. SumFunction(B) \in Int
  <2>1. DOMAIN B = Users /\ \A user \in Users : B[user] \in Int
    BY ExchangeAssumption DEF Accounts
  <2> HIDE DEF B
  <2> QED
    BY <2>1, FiniteConstants, SumIsNumber DEF SumFunction, Summable
<1>9. MoneyIn(currency) = SumFunction(B) + SumFunction(F)
  BY <1>6 DEF MoneyIn
<1> HIDE DEF B, F
<1>10. MoneyIn(currency) = SumFunction(B)
  BY <1>7, <1>8, <1>9
<1> QED
  BY <1>10 DEF B

\* No step makes or loses money.
LEMMA StepKeepsMoney ==
    ASSUME TypeInv, TypeInv', [Next]_vars, NEW currency \in Currencies
    PROVE  MoneyIn(currency)' = MoneyIn(currency)
<1>1. \A id \in OrderIds : /\ Coming(id, currency) = ComingOf(id, currency, fills[id])
                           /\ Coming(id, currency)' = ComingOf(id, currency, fills'[id])
  BY ComingIs
<1>2. \A a \in Accounts : /\ Wealth(a) = WealthOf(accounts[a], bills[a])
                          /\ Wealth(a)' = WealthOf(accounts'[a], bills'[a])
  BY WealthIs
<1>3. ASSUME UNCHANGED <<accounts, bills, fills>>
      PROVE  MoneyIn(currency)' = MoneyIn(currency)
  <2>1. \A a \in Accounts : Wealth(a)' = Wealth(a)
    BY <1>2, <1>3
  <2>2. \A id \in OrderIds : Coming(id, currency)' = Coming(id, currency)
    BY <1>1, <1>3
  <2> QED
    BY <2>1, <2>2, SameMoney
<1>4. ASSUME UNCHANGED fills, \A a \in Accounts : Wealth(a)' = Wealth(a)
      PROVE  MoneyIn(currency)' = MoneyIn(currency)
  <2>1. \A id \in OrderIds : Coming(id, currency)' = Coming(id, currency)
    BY <1>1, <1>4
  <2> QED
    BY <1>4, <2>1, SameMoney
<1>5. CASE Requesting
  <2>1. PICK id \in OrderIds : \/ CheckBalance(id) \/ HoldBalance(id)
                               \/ \E copies \in 0 .. 2 : SubmitOrder(id, copies)
                               \/ RequestCancel(id)
    BY <1>5 DEF Requesting
  <2>2. CASE HoldBalance(id)
    <3>1. fills' = fills
      BY <2>2 DEF HoldBalance
    <3> QED
      BY <1>4, <2>2, <3>1, HoldBalanceKeepsWealth
  <2>3. CASE ~ HoldBalance(id)
    <3>1. UNCHANGED <<accounts, bills, fills>>
      BY <2>1, <2>3 DEF CheckBalance, SubmitOrder, RequestCancel
    <3> QED
      BY <1>3, <3>1
  <2> QED
    BY <2>2, <2>3
<1>6. ASSUME NEW a \in Accounts, ExecuteBill(a)
      PROVE  MoneyIn(currency)' = MoneyIn(currency)
  <2>1. fills' = fills
    BY <1>6 DEF ExecuteBill
  <2> QED
    BY <1>4, <1>6, <2>1, ExecuteBillKeepsWealth
<1>7. ASSUME NEW done \in BOOLEAN, MakeFills(done)
      PROVE  MoneyIn(currency)' = MoneyIn(currency)
  BY <1>7, MakeFillsKeepsMoney
<1>8. ASSUME NEW done \in BOOLEAN, UpdateOrderStatus(done)
      PROVE  MoneyIn(currency)' = MoneyIn(currency)
  BY <1>3, <1>8 DEF UpdateOrderStatus
<1>9. ASSUME NEW done \in BOOLEAN, NEW id \in OrderIds, ExecuteFill(id, done)
      PROVE  MoneyIn(currency)' = MoneyIn(currency)
  BY <1>9, ExecuteFillKeepsMoney
<1>10. CASE HandleMessage \/ InspectFills \/ InspectBills \/ UNCHANGED vars
  BY <1>3, <1>10 DEF HandleMessage, InspectFills, InspectBills, vars
<1> QED
  BY <1>5, <1>6, <1>7, <1>8, <1>9, <1>10 DEF Next, Settling, Over

\* Of each currency there is in the accounts and in the bills to come, with
\* the trades of which one side is settled, what there was at first: neither
\* the loops of ExecuteFill and ExecuteBill nor the batches they are cut into
\* make or lose money.
THEOREM ExchangeConservesMoney == Spec => []MoneyConserved
<1>1. Init => MoneyConserved
  BY InitMoney
<1>2. TypeInv /\ TypeInv' /\ MoneyConserved /\ [Next]_vars => MoneyConserved'
  <2> SUFFICES ASSUME TypeInv, TypeInv', MoneyConserved, [Next]_vars, NEW currency \in Currencies
               PROVE  MoneyIn(currency)' =
                         SumFunction([user \in Users |-> Balances[<<user, currency>>]])
    BY DEF MoneyConserved, MoneyIn
  <2>1. MoneyIn(currency) = SumFunction([user \in Users |-> Balances[<<user, currency>>]])
    BY DEF MoneyConserved, MoneyIn
  <2>2. MoneyIn(currency)' = MoneyIn(currency)
    BY StepKeepsMoney
  <2> QED
    BY <2>1, <2>2, Zenon
<1> QED
  BY <1>1, <1>2, ExchangeTypeCorrect, PTL DEF Spec

-----------------------------------------------------------------------------
(* Sums of logs. *)

\* A property of every log of a sequence is one of its range.
LEMMA InLogs ==
    ASSUME NEW s, IsSequence(s), NEW x
    PROVE  /\ NoDone(s, x) <=> \A log \in Range(s) : ~ Ends(log, x)
           /\ NoMention(s, x) <=> \A log \in Range(s) : ~ Mentions(log, x)
<1>1. DOMAIN s = 1 .. Len(s) /\ Range(s) = {s[i] : i \in 1 .. Len(s)}
  BY SequenceFacts
<1> QED
  BY <1>1 DEF NoDone, NoMention

\* The logs of s, the ones of which UnitsIn and WorthIn are numbers.
AreLogs(s) == IsSequence(s) /\ \A log \in Range(s) : IsLog(log)

UnitsOf(x, S) == [log \in S |-> UnitsIn(log, x)]
WorthOf(x, S) == [log \in S |-> WorthIn(log, x)]

\* What the logs of a sequence trade of an order, as a sum along the sequence.
LEMMA LogSums ==
    ASSUME NEW s, AreLogs(s), NEW x, NEW S, Range(s) \subseteq S
    PROVE  /\ Units(s, x) = SumAlong(UnitsOf(x, S), s) /\ Numbers(UnitsOf(x, S), s)
           /\ Worth(s, x) = SumAlong(WorthOf(x, S), s) /\ Numbers(WorthOf(x, S), s)
           /\ Units(s, x) \in Nat /\ Worth(s, x) \in Nat
<1> DEFINE d == UnitsOf(x, S)
           e == WorthOf(x, S)
<1>1. /\ DOMAIN s = 1 .. Len(s) /\ Len(s) \in Nat
      /\ \A i \in DOMAIN s : s[i] \in Range(s)
  BY SequenceFacts DEF AreLogs
<1>2. \A log \in Range(s) : /\ UnitsIn(log, x) \in Nat /\ WorthIn(log, x) \in Nat
                            /\ d[log] = UnitsIn(log, x) /\ e[log] = WorthIn(log, x)
  BY LogAmounts DEF AreLogs, UnitsOf, WorthOf
<1> DEFINE u == [i \in DOMAIN s |-> UnitsIn(s[i], x)]
           w == [i \in DOMAIN s |-> WorthIn(s[i], x)]
<1>3. u = [i \in DOMAIN s |-> d[s[i]]] /\ w = [i \in DOMAIN s |-> e[s[i]]]
  BY <1>1, <1>2
<1>4. IsFiniteSet(DOMAIN s)
  <2>1. \A n \in Nat : IsFiniteSet(1 .. n)
    BY FS_Interval
  <2> QED
    BY <1>1, <2>1
<1>5. \A i \in DOMAIN s : u[i] \in Nat /\ w[i] \in Nat
  BY <1>1, <1>2
<1>6. Units(s, x) = SumFunctionOnSet(u, DOMAIN s) /\ Worth(s, x) = SumFunctionOnSet(w, DOMAIN s)
  BY DEF Units, Worth
<1>7. Units(s, x) = SumAlong(d, s) /\ Worth(s, x) = SumAlong(e, s)
  BY <1>3, <1>6 DEF SumAlong
<1>8. Numbers(d, s) /\ Numbers(e, s)
  BY <1>2 DEF Numbers
<1> HIDE DEF u, w, d, e
<1>9. Units(s, x) \in Nat /\ Worth(s, x) \in Nat
  BY <1>4, <1>5, <1>6, SumOfNaturals
<1> QED
  BY <1>7, <1>8, <1>9 DEF d, e

\* Two sequences of logs trade what each of them trades.
LEMMA MoreLogs ==
    ASSUME NEW s, AreLogs(s), NEW t, AreLogs(t), NEW x
    PROVE  /\ AreLogs(s \o t)
           /\ Units(s \o t, x) = Units(s, x) + Units(t, x)
           /\ Worth(s \o t, x) = Worth(s, x) + Worth(t, x)
           /\ NoDone(s \o t, x) <=> NoDone(s, x) /\ NoDone(t, x)
           /\ NoMention(s \o t, x) <=> NoMention(s, x) /\ NoMention(t, x)
<1> DEFINE S == Range(s) \cup Range(t)
           d == UnitsOf(x, S)
           e == WorthOf(x, S)
           u == s \o t
<1>1. IsSequence(s) /\ IsSequence(t)
  BY DEF AreLogs
<1>2. IsSequence(u) /\ Range(u) = S
  BY <1>1, ConcatSequence
<1>3. AreLogs(u)
  BY <1>2 DEF AreLogs
<1>4. /\ Range(s) \subseteq S /\ Range(t) \subseteq S /\ Range(u) \subseteq S
  BY <1>2
<1> HIDE DEF u, S
<1>5. /\ Units(s, x) = SumAlong(d, s) /\ Numbers(d, s)
      /\ Worth(s, x) = SumAlong(e, s) /\ Numbers(e, s)
  BY <1>4, LogSums
<1>6. /\ Units(t, x) = SumAlong(d, t) /\ Numbers(d, t)
      /\ Worth(t, x) = SumAlong(e, t) /\ Numbers(e, t)
  BY <1>4, LogSums
<1>7. Units(u, x) = SumAlong(d, u) /\ Worth(u, x) = SumAlong(e, u)
  BY <1>3, <1>4, LogSums
<1> HIDE DEF d, e
<1>8. SumAlong(d, s \o t) = SumAlong(d, s) + SumAlong(d, t)
  BY <1>1, <1>5, <1>6, SumAlongConcat
<1>9. SumAlong(e, s \o t) = SumAlong(e, s) + SumAlong(e, t)
  BY <1>1, <1>5, <1>6, SumAlongConcat
<1>10. /\ NoDone(u, x) <=> NoDone(s, x) /\ NoDone(t, x)
       /\ NoMention(u, x) <=> NoMention(s, x) /\ NoMention(t, x)
  <2>1. /\ NoDone(u, x) <=> \A log \in Range(u) : ~ Ends(log, x)
        /\ NoMention(u, x) <=> \A log \in Range(u) : ~ Mentions(log, x)
        /\ NoDone(s, x) <=> \A log \in Range(s) : ~ Ends(log, x)
        /\ NoMention(s, x) <=> \A log \in Range(s) : ~ Mentions(log, x)
        /\ NoDone(t, x) <=> \A log \in Range(t) : ~ Ends(log, x)
        /\ NoMention(t, x) <=> \A log \in Range(t) : ~ Mentions(log, x)
    BY <1>1, <1>2, InLogs
  <2> QED
    BY <1>2, <2>1 DEF S
<1> QED
  BY <1>3, <1>5, <1>6, <1>7, <1>8, <1>9, <1>10 DEF u

\* What a sequence of logs trades is what its first log and the others trade.
LEMMA FewerLogs ==
    ASSUME NEW s, AreLogs(s), s # << >>, NEW x
    PROVE  /\ AreLogs(Tail(s)) /\ IsLog(Head(s))
           /\ Units(s, x) = UnitsIn(Head(s), x) + Units(Tail(s), x)
           /\ Worth(s, x) = WorthIn(Head(s), x) + Worth(Tail(s), x)
           /\ NoDone(s, x) <=> ~ Ends(Head(s), x) /\ NoDone(Tail(s), x)
           /\ NoMention(s, x) <=> ~ Mentions(Head(s), x) /\ NoMention(Tail(s), x)
           /\ Units(Tail(s), x) \in Nat /\ Worth(Tail(s), x) \in Nat
<1> DEFINE S == Range(s)
           d == UnitsOf(x, S)
           e == WorthOf(x, S)
           t == Tail(s)
           h == Head(s)
<1>1. IsSequence(s) /\ IsSequence(t) /\ Range(t) \subseteq S /\ h \in S
  BY TailSequence DEF AreLogs
<1>2. AreLogs(t) /\ IsLog(h)
  BY <1>1 DEF AreLogs
<1>3. \A log \in Range(s) : log = h \/ log \in Range(t)
  <2>1. /\ Len(t) = Len(s) - 1 /\ h = s[1]
        /\ \A i \in 1 .. Len(s) - 1 : t[i] = s[i + 1]
    BY <1>1, TailSequence DEF AreLogs
  <2>2. /\ Len(s) \in Nat /\ Range(s) = {s[i] : i \in 1 .. Len(s)}
        /\ \A i \in 1 .. Len(t) : t[i] \in Range(t)
    BY <1>1, SequenceFacts
  <2> HIDE DEF t, h
  <2> SUFFICES ASSUME NEW i \in 1 .. Len(s) PROVE s[i] = h \/ s[i] \in Range(t)
    BY <2>2
  <2>3. CASE i = 1
    BY <2>1, <2>3
  <2>4. CASE i # 1
    <3>1. i - 1 \in 1 .. Len(t) /\ (i - 1) + 1 = i /\ i - 1 \in 1 .. Len(s) - 1
      BY <2>1, <2>2, <2>4
    <3>2. t[i - 1] = s[i]
      BY <2>1, <3>1
    <3> QED
      BY <2>2, <3>1, <3>2
  <2> QED
    BY <2>3, <2>4
<1> HIDE DEF t, h
<1>4. /\ Units(s, x) = SumAlong(d, s) /\ Numbers(d, s)
      /\ Worth(s, x) = SumAlong(e, s) /\ Numbers(e, s)
  BY LogSums
<1>5. /\ Units(t, x) = SumAlong(d, t) /\ Units(t, x) \in Nat
      /\ Worth(t, x) = SumAlong(e, t) /\ Worth(t, x) \in Nat
  BY <1>1, <1>2, LogSums
<1>6. d[h] = UnitsIn(h, x) /\ e[h] = WorthIn(h, x)
  BY <1>1 DEF UnitsOf, WorthOf
<1> HIDE DEF d, e
<1>7. SumAlong(d, s) = d[h] + SumAlong(d, t) /\ SumAlong(e, s) = e[h] + SumAlong(e, t)
  BY <1>1, <1>4, SumAlongTail DEF h, t
<1>8. /\ NoDone(s, x) <=> ~ Ends(h, x) /\ NoDone(t, x)
      /\ NoMention(s, x) <=> ~ Mentions(h, x) /\ NoMention(t, x)
  <2>1. /\ NoDone(s, x) <=> \A log \in Range(s) : ~ Ends(log, x)
        /\ NoMention(s, x) <=> \A log \in Range(s) : ~ Mentions(log, x)
        /\ NoDone(t, x) <=> \A log \in Range(t) : ~ Ends(log, x)
        /\ NoMention(t, x) <=> \A log \in Range(t) : ~ Mentions(log, x)
    BY <1>1, InLogs
  <2> QED
    BY <1>1, <1>3, <2>1
<1> QED
  BY <1>2, <1>4, <1>5, <1>6, <1>7, <1>8 DEF h, t

-----------------------------------------------------------------------------
(* What a message does to each order. *)

EntriesIn(b, x) == EntriesOf(b.depths[Side(x)], x)

\* Nothing is done to x and nothing is said of it.
Passes(b, x, r) == EntriesIn(r.book, x) = EntriesIn(b, x) /\ NoMention(r.logs, x)

\* Order x is taken out.
IsCancelled(b, x, r) ==
    /\ EntriesIn(b, x) # {} /\ EntriesIn(r.book, x) = {}
    /\ Units(r.logs, x) = 0 /\ Worth(r.logs, x) = 0 /\ ~ NoDone(r.logs, x)

\* Order x gives u units of what rests of it.
GivesUnits(b, x, r) ==
    \E m \in EntriesIn(b, x) : \E u \in 0 .. m.size :
        /\ EntriesIn(b, x) = {m}
        /\ Units(r.logs, x) = u /\ Worth(r.logs, x) = u * m.price
        /\ u = m.size => EntriesIn(r.book, x) = {} /\ ~ NoDone(r.logs, x)
        /\ u < m.size => EntriesIn(r.book, x) = {[m EXCEPT !.size = @ - u]} /\ NoDone(r.logs, x)

\* Order x is applied for the first time: it takes what it can, and rests or
\* is done.
IsApplied(x, r) ==
    \E taken, paid \in Nat :
        /\ Units(r.logs, x) = taken /\ Worth(r.logs, x) = paid
        /\ (IF Side(x) = "buy" THEN paid ELSE taken) <= HoldSize(x)
        /\ \/ EntriesIn(r.book, x) = {} /\ ~ NoDone(r.logs, x)
           \/ /\ Order(x).type = "limit" /\ NoDone(r.logs, x)
              /\ \E m \in EntriesIn(r.book, x) :
                    /\ EntriesIn(r.book, x) = {m}
                    /\ m.price = Order(x).price /\ taken + m.size = Order(x).size
                    /\ Side(x) = "buy" => paid <= m.price * taken

\* What CancelOrder does to an order: nothing, or it takes it off and tells its rest.
LEMMA CancelledOrder ==
    ASSUME NEW b, IsOrderBook(b), SidesAgree(b), NEW id \in OrderIds, NEW x \in OrderIds
    PROVE  LET r == CancelOrder(b, Order(id))
           IN  Passes(b, x, r) \/ (x = id /\ IsCancelled(b, x, r))
<1> DEFINE o == Order(id)
           r == CancelOrder(b, o)
           entry == EntriesOf(b.depths[o.side], o.id)
<1>1. o \in Orders /\ o.id = id /\ o.side = Side(id) /\ Side(id) \in Sides /\ Side(x) \in Sides
  BY PlacedOrder
<1>2. /\ \A side \in Sides : side # o.side => r.book.depths[side] = b.depths[side]
      /\ r.book.depths[o.side] = b.depths[o.side] \ entry
      /\ entry = {} => r.logs = << >>
      /\ entry # {} => \E log : /\ r.logs = <<log>> /\ IsLog(log) /\ Ends(log, o.id)
  BY <1>1, CancelEffects
<1>3. entry = EntriesIn(b, id)
  BY <1>1 DEF EntriesIn
<1> HIDE DEF o, r, entry
<1>4. NoMention(<< >>, x)
  <2>1. IsSequence(<< >>) /\ Range(<< >>) = {}
    BY EmptySequence
  <2> QED
    BY <2>1, InLogs
<1>5. \A m \in entry : m.id = id /\ m \in b.depths[Side(id)]
  BY <1>3 DEF EntriesIn, EntriesOf
<1>6. ASSUME x # id
      PROVE  Passes(b, x, r)
  <2>1. EntriesIn(r.book, x) = EntriesIn(b, x)
    <3>1. CASE Side(x) = o.side
      <4>1. \A m : m \in r.book.depths[Side(x)] <=> m \in b.depths[Side(x)] /\ m \notin entry
        BY <1>2, <3>1
      <4> QED
        BY <1>5, <1>6, <4>1 DEF EntriesIn, EntriesOf
    <3>2. CASE Side(x) # o.side
      BY <1>1, <1>2, <3>2 DEF EntriesIn
    <3> QED
      BY <3>1, <3>2
  <2>2. NoMention(r.logs, x)
    <3>1. CASE entry = {}
      BY <1>2, <1>4, <3>1
    <3>2. CASE entry # {}
      <4>1. PICK log : r.logs = <<log>> /\ Ends(log, o.id)
        BY <1>2, <3>2
      <4>2. IsSequence(<<log>>) /\ Len(<<log>>) = 1 /\ <<log>>[1] = log
        BY OneElement
      <4>3. DOMAIN <<log>> = 1 .. 1
        BY <4>2, SequenceFacts
      <4>4. ~ Mentions(log, x)
        BY <1>1, <1>6, <4>1 DEF Ends, Mentions
      <4>5. NoMention(<<log>>, x)
        BY <4>2, <4>3, <4>4 DEF NoMention
      <4> QED
        BY <4>1, <4>5
    <3> QED
      BY <3>1, <3>2
  <2> QED
    BY <2>1, <2>2 DEF Passes
<1>7. ASSUME x = id, entry = {}
      PROVE  Passes(b, x, r)
  <2>1. r.book.depths[Side(x)] = b.depths[Side(x)]
    BY <1>1, <1>2, <1>7
  <2> QED
    BY <1>2, <1>4, <1>7, <2>1 DEF Passes, EntriesIn
<1>8. ASSUME x = id, entry # {}
      PROVE  IsCancelled(b, x, r)
  <2>1. PICK log : r.logs = <<log>> /\ IsLog(log) /\ Ends(log, o.id)
    BY <1>2, <1>8
  <2>2. IsSequence(<<log>>) /\ Len(<<log>>) = 1 /\ <<log>>[1] = log
    BY OneElement
  <2>3. DOMAIN <<log>> = 1 .. 1
    BY <2>2, SequenceFacts
  <2>4. ~ NoDone(<<log>>, x)
    <3>1. 1 \in DOMAIN <<log>> /\ Ends(<<log>>[1], x)
      BY <1>1, <1>8, <2>1, <2>2, <2>3
    <3> QED
      BY <3>1 DEF NoDone
  <2>5. IsFiniteSet(DOMAIN <<log>>)
    <3>1. \A n \in Nat : IsFiniteSet(1 .. n)
      BY FS_Interval
    <3> QED
      BY <2>3, <3>1
  <2>6. \A i \in DOMAIN <<log>> : UnitsIn(<<log>>[i], x) = 0 /\ WorthIn(<<log>>[i], x) = 0
    BY <2>1, <2>2, <2>3 DEF UnitsIn, WorthIn, Ends
  <2>7. Units(<<log>>, x) = 0 /\ Worth(<<log>>, x) = 0
    BY <2>5, <2>6, SumOfZeros DEF Units, Worth
  <2>8. EntriesIn(r.book, x) = {}
    BY <1>1, <1>2, <1>3, <1>8 DEF EntriesIn, EntriesOf
  <2> QED
    BY <1>3, <1>8, <2>1, <2>4, <2>7, <2>8 DEF IsCancelled
<1>9. Passes(b, x, r) \/ (x = id /\ IsCancelled(b, x, r))
  BY <1>6, <1>7, <1>8
<1> QED
  BY <1>9 DEF r, o

\* What ApplyOrder does to the order it lets in, and to every other.
LEMMA AppliedOrder ==
    ASSUME NEW b, IsOrderBook(b), SidesAgree(b), NEW id \in OrderIds, NEW x \in OrderIds
    PROVE  LET r == ApplyOrder(b, Order(id))
           IN  /\ x = id /\ EntriesIn(b, x) = {} => IsApplied(x, r)
               /\ x # id => Passes(b, x, r) \/ GivesUnits(b, x, r)
<1> DEFINE o == Order(id)
           t == TakerOf(o)
           r == ApplyOrder(b, o)
           other == Opposite(t.side)
<1>1. /\ o \in Orders /\ o.id = id /\ o.side = Side(id) /\ Side(id) \in Sides /\ Side(x) \in Sides
  BY PlacedOrder
<1>2. /\ IsTaker(t) /\ t.id = id /\ t.side = Side(id) /\ t.type = o.type /\ t.size = o.size
      /\ t.funds = o.funds /\ (o.type = "limit" => t.price = o.price)
  BY <1>1, TakerOfOrder
<1>3. r = Complete(b, t)
  BY DEF ApplyOrder
<1> HIDE DEF r, t
<1>4. other \in Sides /\ other # t.side
  BY <1>1, <1>2, OppositeSide
<1>5. \A y \in OrderIds : Side(y) = t.side => EntriesOf(b.depths[other], y) = {}
  BY <1>4 DEF EntriesOf, SidesAgree
<1>6. ASSUME x = id, EntriesIn(b, x) = {}
      PROVE  IsApplied(x, r)
  <2> DEFINE left == Left(b, t)
             after == EntriesOf(r.book.depths[t.side], t.id)
             taken == TakenBy(b, t)
             paid == PaidBy(b, t)
  <2>1. EntriesOf(b.depths[other], t.id) = {}
    BY <1>2, <1>5
  <2>2. /\ Units(r.logs, t.id) = taken /\ Worth(r.logs, t.id) = paid
        /\ Rests(left) => NoDone(r.logs, t.id) /\ after = {left}
        /\ ~ Rests(left) => /\ EndsWithDone(r.logs, t.id)
                            /\ after = EntriesOf(b.depths[t.side], t.id)
    BY <1>2, <1>3, <2>1, CompleteForTaker
  <2>3. /\ taken \in Nat /\ paid \in Nat
        /\ BuysByFunds(t) => paid <= t.funds
        /\ ~ BuysByFunds(t) => taken <= t.size
        /\ t.side = "buy" => paid <= t.price * taken
    BY <1>2, LeftFacts
  <2>4. /\ left.price = t.price /\ left.type = t.type
        /\ ~ BuysByFunds(t) => left.size = t.size - taken
    BY <1>2, LeftIsTaker
  <2> HIDE DEF left, taken, paid
  <2>5. /\ o.size \in Nat /\ o.price \in Nat /\ o.funds \in Nat /\ o.type \in {"limit", "market"}
        /\ o.type = "limit" => o.funds = o.size * o.price
    BY <1>1, OrderFacts
  <2>6. (IF Side(x) = "buy" THEN paid ELSE taken) <= HoldSize(x)
    <3>1. HoldSize(x) = IF Side(x) = "buy" THEN o.funds ELSE o.size
      BY <1>6 DEF HoldSize
    <3>2. CASE Side(x) = "buy" /\ o.type = "limit"
      <4>1. taken <= o.size /\ paid <= o.price * taken
        BY <1>2, <1>6, <2>3, <3>2 DEF BuysByFunds
      <4>2. o.price * taken <= o.price * o.size
        BY <2>3, <2>5, <4>1
      <4>3. o.price * taken \in Nat /\ o.price * o.size = o.funds
        BY <2>3, <2>5, <3>2
      <4> HIDE DEF o
      <4> QED
        BY <2>3, <2>5, <3>1, <3>2, <4>1, <4>2, <4>3
    <3>3. CASE Side(x) = "buy" /\ o.type # "limit"
      BY <1>2, <1>6, <2>3, <2>5, <3>1, <3>3 DEF BuysByFunds
    <3>4. CASE Side(x) # "buy"
      BY <1>2, <1>6, <2>3, <3>1, <3>4 DEF BuysByFunds
    <3> QED
      BY <3>2, <3>3, <3>4
  <2>7. after = EntriesIn(r.book, x)
    BY <1>2, <1>6 DEF EntriesIn
  <2>8. ASSUME Rests(left)
        PROVE  /\ Order(x).type = "limit" /\ NoDone(r.logs, x)
               /\ EntriesIn(r.book, x) = {left}
               /\ left.price = Order(x).price /\ taken + left.size = Order(x).size
               /\ Side(x) = "buy" => paid <= left.price * taken
    <3>1. t.type = "limit" /\ o.type = "limit" /\ ~ BuysByFunds(t)
      BY <1>2, <2>4, <2>8 DEF Rests, BuysByFunds
    <3>2. taken + left.size = o.size
      BY <1>2, <2>3, <2>4, <2>5, <3>1
    <3> QED
      BY <1>2, <1>6, <2>2, <2>3, <2>4, <2>7, <2>8, <3>1, <3>2
  <2>9. ASSUME ~ Rests(left)
        PROVE  EntriesIn(r.book, x) = {} /\ ~ NoDone(r.logs, x)
    <3>1. ~ NoDone(r.logs, x)
      BY <1>2, <1>6, <2>2, <2>9 DEF EndsWithDone, NoDone
    <3> QED
      BY <1>2, <1>6, <2>2, <2>7, <2>9, <3>1 DEF EntriesIn
  <2>10. Units(r.logs, x) = taken /\ Worth(r.logs, x) = paid
    BY <1>2, <1>6, <2>2
  <2> HIDE DEF after
  <2> QED
    BY <2>3, <2>6, <2>8, <2>9, <2>10 DEF IsApplied
<1>7. ASSUME x # id, Side(x) = t.side
      PROVE  Passes(b, x, r)
  <2>1. EntriesOf(r.book.depths[t.side], x) = EntriesOf(b.depths[t.side], x)
    BY <1>2, <1>3, <1>7, OwnSideStays
  <2>2. NoMention(r.logs, x)
    BY <1>2, <1>3, <1>5, <1>7, CompletePasses
  <2> QED
    BY <1>7, <2>1, <2>2 DEF Passes, EntriesIn
<1>8. ASSUME x # id, Side(x) # t.side
      PROVE  Passes(b, x, r) \/ GivesUnits(b, x, r)
  <2>1. Side(x) = other
    BY <1>1, <1>2, <1>8 DEF Opposite, Sides
  <2>2. CASE EntriesIn(b, x) = {}
    <3>1. NoMention(r.logs, x) /\ EntriesOf(r.book.depths[other], x) = {}
      BY <1>2, <1>3, <1>8, <2>1, <2>2, CompletePasses DEF EntriesIn
    <3> QED
      BY <2>1, <2>2, <3>1 DEF Passes, EntriesIn
  <2>3. CASE EntriesIn(b, x) # {}
    <3>1. PICK m : m \in b.depths[other] /\ m.id = x
      BY <2>1, <2>3 DEF EntriesIn, EntriesOf
    <3>2. IsDepth(b.depths[other], other)
      BY <1>4 DEF IsOrderBook
    <3>3. EntriesIn(b, x) = {m}
      BY <2>1, <3>1, <3>2 DEF EntriesIn, EntriesOf, IsDepth
    <3>4. PICK u \in 0 .. m.size :
             /\ Units(r.logs, m.id) = u /\ Worth(r.logs, m.id) = u * m.price
             /\ u = m.size => /\ EndsWithDone(r.logs, m.id)
                              /\ EntriesOf(r.book.depths[other], m.id) = {}
             /\ u < m.size => /\ NoDone(r.logs, m.id)
                              /\ EntriesOf(r.book.depths[other], m.id) = {[m EXCEPT !.size = @ - u]}
      BY <1>2, <1>3, <1>8, <3>1, CompleteForMaker
    <3>5. EntriesIn(r.book, x) = EntriesOf(r.book.depths[other], m.id)
      BY <2>1, <3>1 DEF EntriesIn
    <3>6. EndsWithDone(r.logs, x) => ~ NoDone(r.logs, x)
      BY DEF EndsWithDone, NoDone
    <3> QED
      BY <3>1, <3>3, <3>4, <3>5, <3>6 DEF GivesUnits
  <2> QED
    BY <2>2, <2>3
<1>9. /\ x = id /\ EntriesIn(b, x) = {} => IsApplied(x, r)
      /\ x # id => Passes(b, x, r) \/ GivesUnits(b, x, r)
  BY <1>6, <1>7, <1>8
<1> QED
  BY <1>9 DEF r, o

\* What a message does to each order: nothing, to most; a maker gives some of
\* what rests of it; the order of the message is taken out, or, if the window
\* lets it in and it does not rest already, applied.
LEMMA HandledOrder ==
    ASSUME NEW b, IsOrderBook(b), SidesAgree(b), NEW bits, NEW id \in OrderIds,
           NEW c \in BOOLEAN, NEW x \in OrderIds
    PROVE  LET r == Handle(b, bits, [order |-> Order(id), cancel |-> c])
           IN  IF x = id /\ ~ c /\ ~ WindowRefuses(bits, id)
               THEN EntriesIn(b, x) = {} => IsApplied(x, r)
               ELSE \/ Passes(b, x, r)
                    \/ x = id /\ c /\ IsCancelled(b, x, r)
                    \/ GivesUnits(b, x, r)
<1> DEFINE message == [order |-> Order(id), cancel |-> c]
           r == Handle(b, bits, message)
           cancelled == CancelOrder(b, Order(id))
           applied == ApplyOrder(b, Order(id))
<1>1. message.order = Order(id) /\ message.cancel = c /\ Order(id).id = id
  BY PlacedOrder
<1> HIDE DEF message
<1>2. /\ c => r.book = cancelled.book /\ r.logs = cancelled.logs
      /\ ~ c /\ ~ WindowRefuses(bits, id) => r.book = applied.book /\ r.logs = applied.logs
      /\ ~ c /\ WindowRefuses(bits, id) => r.book = b /\ r.logs = << >>
  BY <1>1 DEF Handle
<1>3. Passes(b, x, cancelled) \/ (x = id /\ IsCancelled(b, x, cancelled))
  BY CancelledOrder
<1>4. /\ x = id /\ EntriesIn(b, x) = {} => IsApplied(x, applied)
      /\ x # id => Passes(b, x, applied) \/ GivesUnits(b, x, applied)
  BY AppliedOrder
<1> HIDE DEF r, cancelled, applied
<1>5. CASE c
  <2>1. Passes(b, x, r) \/ (x = id /\ IsCancelled(b, x, r))
    BY <1>2, <1>3, <1>5 DEF Passes, IsCancelled
  <2> QED
    BY <1>5, <2>1 DEF r, message
<1>6. CASE ~ c /\ WindowRefuses(bits, id)
  <2>1. NoMention(<< >>, x)
    <3>1. IsSequence(<< >>) /\ Range(<< >>) = {}
      BY EmptySequence
    <3> QED
      BY <3>1, InLogs
  <2>2. Passes(b, x, r)
    BY <1>2, <1>6, <2>1 DEF Passes
  <2> QED
    BY <1>6, <2>2 DEF r, message
<1>7. CASE ~ c /\ ~ WindowRefuses(bits, id)
  <2>1. /\ x = id /\ EntriesIn(b, x) = {} => IsApplied(x, r)
        /\ x # id => Passes(b, x, r) \/ GivesUnits(b, x, r)
    BY <1>2, <1>4, <1>7 DEF Passes, GivesUnits, IsApplied
  <2> QED
    BY <1>7, <2>1 DEF r, message
<1> QED
  BY <1>5, <1>6, <1>7

-----------------------------------------------------------------------------
(* What an order has traded, and what rests of it. *)

\* What an order has traded by its row, its fills to settle and the logs to
\* come.
Filled(x) == rows[x].filled + SumAlong(MovedIn("base"), fills[x]) + Units(logs, x)
Executed(x) == rows[x].executed + SumAlong(MovedIn("quote"), fills[x]) + Worth(logs, x)

\* An order has not spent more than it put on hold, what rests of it is what
\* it has not traded, and a buyer has paid at most its price for each unit.
Amounts(b, x, filled, executed) ==
    /\ (IF Side(x) = "buy" THEN executed ELSE filled) <= HoldSize(x)
    /\ \A m \in EntriesIn(b, x) :
          /\ Order(x).type = "limit"
          /\ m.price = Order(x).price /\ filled + m.size = Order(x).size
          /\ Side(x) = "buy" => executed <= m.price * filled

\* The orders in a book.
LEMMA EntryFacts ==
    ASSUME NEW b, IsOrderBook(b), NEW x \in OrderIds, NEW m \in EntriesIn(b, x)
    PROVE  /\ m.size \in Nat /\ m.size > 0 /\ m.price \in Nat
           /\ \A u \in Int : [m EXCEPT !.size = @ - u].size = m.size - u
                             /\ [m EXCEPT !.size = @ - u].price = m.price
<1>1. Side(x) \in Sides
  BY PlacedOrder
<1>2. m \in RestingOrders
  BY <1>1 DEF EntriesIn, EntriesOf, IsOrderBook, IsDepth
<1> QED
  BY <1>2, PricesAssumption DEF RestingOrders

\* Trades keep to these amounts.
LEMMA TradesKeepAmounts ==
    ASSUME NEW b, IsOrderBook(b), NEW x \in OrderIds, NEW r, IsSequence(r.logs),
           NEW filled \in Nat, NEW executed \in Nat, Amounts(b, x, filled, executed),
           Passes(b, x, r) \/ IsCancelled(b, x, r) \/ GivesUnits(b, x, r)
    PROVE  Amounts(r.book, x, filled + Units(r.logs, x), executed + Worth(r.logs, x))
<1>1. CASE Passes(b, x, r)
  <2>1. Units(r.logs, x) = 0 /\ Worth(r.logs, x) = 0 /\ EntriesIn(r.book, x) = EntriesIn(b, x)
    BY <1>1, UnmentionedOrder DEF Passes
  <2>2. filled + Units(r.logs, x) = filled /\ executed + Worth(r.logs, x) = executed
    BY <2>1
  <2> QED
    BY <2>1, <2>2 DEF Amounts
<1>2. CASE IsCancelled(b, x, r)
  <2>1. Units(r.logs, x) = 0 /\ Worth(r.logs, x) = 0 /\ EntriesIn(r.book, x) = {}
    BY <1>2 DEF IsCancelled
  <2>2. filled + Units(r.logs, x) = filled /\ executed + Worth(r.logs, x) = executed
    BY <2>1
  <2> QED
    BY <2>1, <2>2 DEF Amounts
<1>3. CASE GivesUnits(b, x, r)
  <2>0. PICK m \in EntriesIn(b, x) : \E u \in 0 .. m.size :
           /\ Units(r.logs, x) = u /\ Worth(r.logs, x) = u * m.price
           /\ u = m.size => EntriesIn(r.book, x) = {}
           /\ u < m.size => EntriesIn(r.book, x) = {[m EXCEPT !.size = @ - u]}
    BY <1>3 DEF GivesUnits
  <2>1. PICK u \in 0 .. m.size :
           /\ Units(r.logs, x) = u /\ Worth(r.logs, x) = u * m.price
           /\ u = m.size => EntriesIn(r.book, x) = {}
           /\ u < m.size => EntriesIn(r.book, x) = {[m EXCEPT !.size = @ - u]}
    BY <2>0
  <2> DEFINE p == m.price
             z == m.size
             o == Order(x)
             buys == Side(x) = "buy"
             rest == [m EXCEPT !.size = @ - u]
             more == filled + u
             paid == executed + u * p
  <2>2. z \in Nat /\ p \in Nat /\ rest.size = z - u /\ rest.price = p
    BY <2>1, EntryFacts
  <2>3. u \in Nat /\ u <= z
    BY <2>2
  <2>4. /\ o.type = "limit" /\ p = o.price /\ filled + z = o.size
        /\ buys => executed <= p * filled
    BY DEF Amounts
  <2>5. /\ o.size \in Nat /\ o.price \in Nat /\ o.funds = o.size * o.price
        /\ HoldSize(x) = IF buys THEN o.funds ELSE o.size
    BY <2>4, PlacedOrder, OrderFacts DEF HoldSize
  <2>6. u = z => EntriesIn(r.book, x) = {}
    BY <2>1
  <2>7. u # z => EntriesIn(r.book, x) = {rest}
    BY <2>1, <2>2, <2>3
  <2> HIDE DEF p, z, o, rest, buys
  <2>8. more <= o.size /\ more + (z - u) = o.size /\ more \in Nat
    BY <2>2, <2>3, <2>4
  <2>9. buys => paid <= p * more
    <3>1. p * more = p * filled + u * p
      BY <2>2, <2>3
    <3>2. p * filled \in Nat /\ u * p \in Nat
      BY <2>2, <2>3
    <3> HIDE DEF more
    <3> QED
      BY <2>4, <3>1, <3>2
  <2>10. buys => paid <= o.funds
    <3>1. p * more <= p * o.size
      <4>1. p \in Nat /\ o.size \in Nat
        BY <2>2, <2>5
      <4> HIDE DEF more
      <4> QED
        BY <2>8, <4>1
    <3>2. p * o.size = o.funds
      BY <2>2, <2>4, <2>5
    <3>3. paid \in Nat /\ p * more \in Nat /\ p * o.size \in Nat
      BY <2>2, <2>3, <2>5, <2>8
    <3> HIDE DEF paid, more
    <3> QED
      BY <2>9, <3>1, <3>2, <3>3
  <2>11. (IF buys THEN paid ELSE more) <= HoldSize(x)
    BY <2>5, <2>8, <2>10
  <2>12. filled + Units(r.logs, x) = more /\ executed + Worth(r.logs, x) = paid
    BY <2>1 DEF p
  <2> HIDE DEF paid, more
  <2>13. \A n \in EntriesIn(r.book, x) :
            /\ o.type = "limit" /\ n.price = o.price /\ more + n.size = o.size
            /\ buys => paid <= n.price * more
    BY <2>2, <2>4, <2>6, <2>7, <2>8, <2>9
  <2> QED
    BY <2>11, <2>12, <2>13 DEF Amounts, buys, o
<1> QED
  BY <1>1, <1>2, <1>3

\* So does the order that is applied.
LEMMA AppliedAmounts ==
    ASSUME NEW x \in OrderIds, NEW r, IsApplied(x, r)
    PROVE  Amounts(r.book, x, Units(r.logs, x), Worth(r.logs, x))
<1>1. PICK taken \in Nat, paid \in Nat :
         /\ Units(r.logs, x) = taken /\ Worth(r.logs, x) = paid
         /\ (IF Side(x) = "buy" THEN paid ELSE taken) <= HoldSize(x)
         /\ \/ EntriesIn(r.book, x) = {} /\ ~ NoDone(r.logs, x)
            \/ /\ Order(x).type = "limit" /\ NoDone(r.logs, x)
               /\ \E m \in EntriesIn(r.book, x) :
                     /\ EntriesIn(r.book, x) = {m}
                     /\ m.price = Order(x).price /\ taken + m.size = Order(x).size
                     /\ Side(x) = "buy" => paid <= m.price * taken
  BY DEF IsApplied
<1> QED
  BY <1>1 DEF Amounts

-----------------------------------------------------------------------------
(* The way of an order to the engine. *)

IdsWithinWindow == \A id \in OrderIds : id <= WindowCap

\* No message about an order, and none that submits it, waits for the engine.
NoMessage(x) == \A i \in DOMAIN topic : topic[i].order.id # x
NotSubmitted(x) == \A i \in DOMAIN topic : topic[i].order.id = x => topic[i].cancel

\* An order not in the database yet is nowhere else, and an order that the
\* engine has not handled has no trades.
StagesOK ==
    \A x \in OrderIds :
        /\ rows[x].status = "none" => /\ x \notin committed /\ x \notin missed
                                      /\ x \notin engine.seen /\ NoMessage(x)
        /\ x \in checked => rows[x].status = "none"
        /\ x \in committed => /\ NotSubmitted(x)
                              /\ x \notin engine.seen \/ x \in missed

\* The window holds the orders that the engine has handled, and no others.
WindowOK == \A x \in OrderIds : x \in engine.seen <=> Slot(x) \in engine.window

Untouched(x) ==
    /\ rows[x].filled = 0 /\ rows[x].executed = 0 /\ rows[x].status \notin Final
    /\ fills[x] = << >> /\ NoMention(logs, x) /\ EntriesIn(engine.book, x) = {}

UnseenOK == \A x \in OrderIds \ engine.seen : Untouched(x)

AmountsOK == \A x \in OrderIds : Amounts(engine.book, x, Filled(x), Executed(x))

\* An order is done by its row, by a fill to settle or by a log to come.
HasDone(s) == \E i \in DOMAIN s : s[i].done
IsDone(x) == rows[x].status \in Final \/ HasDone(fills[x]) \/ ~ NoDone(logs, x)

\* An order rests on the book, is done, or was missed by the engine; or it is
\* on its way to the engine.
EndsOK ==
    \A x \in OrderIds :
        /\ EntriesIn(engine.book, x) # {} => ~ IsDone(x) /\ x \notin missed
        /\ x \in engine.seen /\ EntriesIn(engine.book, x) = {} => IsDone(x) \/ x \in missed
        /\ x \in missed => /\ ~ IsDone(x) /\ EntriesIn(engine.book, x) = {}
                           /\ x \in engine.seen \/ (x \notin committed /\ NotSubmitted(x))
        /\ rows[x].status # "none" /\ x \notin engine.seen =>
              x \in committed \/ x \in missed \/ ~ NotSubmitted(x)

Ledger == StagesOK /\ WindowOK /\ UnseenOK /\ AmountsOK /\ EndsOK

\* What waits for the makers are logs of the engine.
LEMMA LogsAreLogs == TypeInv => AreLogs(logs)
BY DEF TypeInv, LogsOK, AreLogs, IsExchangeLog

\* The amounts of an order are numbers.
LEMMA TradedNumbers ==
    ASSUME TypeInv, NEW x \in OrderIds
    PROVE  /\ rows[x].filled \in Nat /\ rows[x].executed \in Nat
           /\ SumAlong(MovedIn("base"), fills[x]) \in Nat
           /\ SumAlong(MovedIn("quote"), fills[x]) \in Nat
           /\ Units(logs, x) \in Nat /\ Worth(logs, x) \in Nat
           /\ Filled(x) \in Nat /\ Executed(x) \in Nat
<1>1. rows[x] \in Rows /\ fills[x] \in Seq(FillRecords)
  BY DEF TypeInv, RowsOK, FillsOK
<1>2. rows[x].filled \in Nat /\ rows[x].executed \in Nat
  BY <1>1 DEF Rows
<1>3. /\ SumAlong(MovedIn("base"), fills[x]) \in Nat
      /\ SumAlong(MovedIn("quote"), fills[x]) \in Nat
  BY <1>1, FillNumbers
<1>4. Units(logs, x) \in Nat /\ Worth(logs, x) \in Nat
  BY LogsAreLogs, LogSums
<1> QED
  BY <1>2, <1>3, <1>4 DEF Filled, Executed

\* One fill more at the end.
LEMMA AppendFill ==
    ASSUME NEW s \in Seq(FillRecords), NEW f \in FillRecords
    PROVE  /\ \A c \in Currencies :
                 SumAlong(MovedIn(c), Append(s, f)) = SumAlong(MovedIn(c), s) + Moved(f, c)
           /\ HasDone(Append(s, f)) <=> HasDone(s) \/ f.done
<1>1. IsSequence(s) /\ Len(s) \in Nat
  BY SequenceOver, SequenceFacts
<1>2. ASSUME NEW c \in Currencies
      PROVE  SumAlong(MovedIn(c), Append(s, f)) = SumAlong(MovedIn(c), s) + Moved(f, c)
  <2>1. Numbers(MovedIn(c), s)
    BY FillNumbers
  <2>2. MovedIn(c)[f] = Moved(f, c) /\ Moved(f, c) \in Nat
    <3> DEFINE w == <<f>>
    <3>1. w \in Seq(FillRecords) /\ f \in Range(w)
      <4>1. IsSequence(<<f>>) /\ Len(<<f>>) = 1 /\ <<f>>[1] = f
        BY OneElement
      <4>2. Range(<<f>>) = {<<f>>[i] : i \in 1 .. 1}
        BY <4>1, SequenceFacts
      <4> QED
        BY <4>1, <4>2
    <3> HIDE DEF w
    <3> QED
      BY <3>1, FillNumbers
  <2> DEFINE e == MovedIn(c)
  <2> HIDE DEF e
  <2>3. e[f] \in Int
    BY <2>2 DEF e
  <2>4. SumAlong(e, Append(s, f)) = SumAlong(e, s) + e[f]
    BY <1>1, <2>1, <2>3, SumAlongAppend DEF e
  <2> QED
    BY <2>2, <2>4 DEF e
<1>3. HasDone(Append(s, f)) <=> HasDone(s) \/ f.done
  <2> DEFINE t == Append(s, f)
  <2>1. /\ DOMAIN s = 1 .. Len(s) /\ DOMAIN t = 1 .. Len(s) + 1
        /\ t[Len(s) + 1] = f /\ \A i \in 1 .. Len(s) : t[i] = s[i]
    BY <1>1
  <2> HIDE DEF t
  <2>2. HasDone(t) => HasDone(s) \/ f.done
    <3> SUFFICES ASSUME NEW i \in DOMAIN t, t[i].done PROVE HasDone(s) \/ f.done
      BY DEF HasDone
    <3>1. i \in 1 .. Len(s) \/ i = Len(s) + 1
      BY <1>1, <2>1
    <3> QED
      BY <2>1, <3>1 DEF HasDone
  <2>3. HasDone(s) => HasDone(t)
    <3> SUFFICES ASSUME NEW i \in DOMAIN s, s[i].done PROVE HasDone(t)
      BY DEF HasDone
    <3>1. i \in DOMAIN t /\ t[i] = s[i]
      BY <1>1, <2>1
    <3> QED
      BY <3>1 DEF HasDone
  <2>4. f.done => HasDone(t)
    <3>1. Len(s) + 1 \in DOMAIN t
      BY <1>1, <2>1
    <3> QED
      BY <2>1, <3>1 DEF HasDone
  <2> QED
    BY <2>2, <2>3, <2>4 DEF t
<1> QED
  BY <1>2, <1>3

-----------------------------------------------------------------------------
(* Settlement moves what an order has traded from the logs to the fills and *)
(* from the fills to the row, and loses none of it.                         *)

TradesStay ==
    \A x \in OrderIds : /\ Filled(x)' = Filled(x) /\ Executed(x)' = Executed(x)
                        /\ IsDone(x)' <=> IsDone(x)

\* The first log leaves the logs, and what it says is added elsewhere.
LEMMA LogRead ==
    ASSUME TypeInv, logs # << >>, logs' = Tail(logs), NEW x \in OrderIds
    PROVE  LET log == Head(logs)
           IN  /\ IsExchangeLog(log)
               /\ Units(logs, x) = UnitsIn(log, x) + Units(logs', x)
               /\ Worth(logs, x) = WorthIn(log, x) + Worth(logs', x)
               /\ NoDone(logs, x) <=> ~ Ends(log, x) /\ NoDone(logs', x)
               /\ NoMention(logs, x) <=> ~ Mentions(log, x) /\ NoMention(logs', x)
               /\ Units(logs', x) \in Nat /\ Worth(logs', x) \in Nat
               /\ UnitsIn(log, x) \in Nat /\ WorthIn(log, x) \in Nat
<1>1. AreLogs(logs)
  BY LogsAreLogs
<1>2. IsExchangeLog(Head(logs)) /\ IsLog(Head(logs))
  <2>1. Head(logs) \in Range(logs)
    BY TailSequence DEF TypeInv, LogsOK
  <2> QED
    BY <2>1 DEF TypeInv, LogsOK, IsExchangeLog
<1>3. UnitsIn(Head(logs), x) \in Nat /\ WorthIn(Head(logs), x) \in Nat
  BY <1>2, LogAmounts
<1> QED
  BY <1>1, <1>2, <1>3, FewerLogs

\* A log becomes fills.
LEMMA MakeFillsKeepsTrades ==
    ASSUME TypeInv, TypeInv', NEW announced, MakeFills(announced)
    PROVE  TradesStay
<1> DEFINE log == Head(logs)
<1>1. /\ logs # << >> /\ logs' = Tail(logs) /\ IsExchangeLog(log) /\ rows' = rows
      /\ \/ /\ log.kind = "match"
            /\ fills' = [id \in OrderIds |->
                           IF id \in {log.taker, log.maker}
                           THEN Append(fills[id], Fill(log)) ELSE fills[id]]
         \/ /\ log.kind = "done"
            /\ fills' = [id \in OrderIds |->
                           IF id = log.id THEN Append(fills[id], DoneFill(log))
                           ELSE fills[id]]
  BY MadeFills
<1> SUFFICES ASSUME NEW x \in OrderIds
             PROVE  /\ Filled(x)' = Filled(x) /\ Executed(x)' = Executed(x)
                    /\ IsDone(x)' <=> IsDone(x)
  BY DEF TradesStay
<1> DEFINE later == Units(logs', x)
           laterWorth == Worth(logs', x)
           u == UnitsIn(log, x)
           w == WorthIn(log, x)
           e == Ends(log, x)
<1>2. /\ Units(logs, x) = u + later /\ Worth(logs, x) = w + laterWorth
      /\ NoDone(logs, x) <=> ~ e /\ NoDone(logs', x)
      /\ later \in Nat /\ laterWorth \in Nat /\ u \in Nat /\ w \in Nat
  BY <1>1, LogRead
<1>3. fills[x] \in Seq(FillRecords)
  BY DEF TypeInv, FillsOK
<1>4. /\ log.kind = "match" => Fill(log) \in FillRecords
      /\ log.kind = "done" => DoneFill(log) \in FillRecords
  BY <1>1, FillOfLog
<1> DEFINE b == SumAlong(MovedIn("base"), fills[x])
           q == SumAlong(MovedIn("quote"), fills[x])
           bb == SumAlong(MovedIn("base"), fills'[x])
           qq == SumAlong(MovedIn("quote"), fills'[x])
<1>5. b \in Nat /\ q \in Nat /\ rows[x].filled \in Nat /\ rows[x].executed \in Nat
  BY TradedNumbers
<1> HIDE DEF log
<1>6. \A f \in FillRecords :
         fills'[x] = Append(fills[x], f) =>
            /\ bb = b + Moved(f, "base") /\ qq = q + Moved(f, "quote")
            /\ HasDone(fills'[x]) <=> HasDone(fills[x]) \/ f.done
  BY <1>3, AppendFill DEF Currencies
<1>7. bb = b + u /\ qq = q + w /\ (HasDone(fills'[x]) <=> HasDone(fills[x]) \/ e)
  <2>1. CASE log.kind = "match" /\ x \in {log.taker, log.maker}
    <3>1. Fill(log) \in FillRecords /\ fills'[x] = Append(fills[x], Fill(log))
      BY <1>1, <1>4, <2>1
    <3>2. /\ Moved(Fill(log), "base") = u /\ Moved(Fill(log), "quote") = w
          /\ Fill(log).done = FALSE /\ e = FALSE
      BY <2>1 DEF Moved, Fill, UnitsIn, WorthIn, Mentions, Ends
    <3> HIDE DEF b, q, bb, qq, u, w, e
    <3> QED
      BY <1>6, <3>1, <3>2
  <2>2. CASE log.kind = "done" /\ log.id = x
    <3>1. DoneFill(log) \in FillRecords /\ fills'[x] = Append(fills[x], DoneFill(log))
      BY <1>1, <1>4, <2>2
    <3>2. /\ Moved(DoneFill(log), "base") = 0 /\ Moved(DoneFill(log), "quote") = 0
          /\ u = 0 /\ w = 0 /\ DoneFill(log).done = TRUE /\ e = TRUE
      BY <2>2 DEF Moved, DoneFill, UnitsIn, WorthIn, Ends
    <3> HIDE DEF b, q, bb, qq, u, w, e
    <3> QED
      BY <1>6, <3>1, <3>2
  <2>3. CASE ~ (log.kind = "match" /\ x \in {log.taker, log.maker}) /\ ~ (log.kind = "done" /\ log.id = x)
    <3>1. fills'[x] = fills[x]
      BY <1>1, <2>3
    <3>2. u = 0 /\ w = 0 /\ e = FALSE
      BY <2>3 DEF UnitsIn, WorthIn, Mentions, Ends
    <3>3. bb = b /\ qq = q /\ (HasDone(fills'[x]) <=> HasDone(fills[x]))
      BY <3>1
    <3> HIDE DEF b, q, bb, qq, u, w, e
    <3> QED
      BY <1>5, <3>2, <3>3
  <2> QED
    BY <2>1, <2>2, <2>3
<1>8. IsDone(x)' <=> IsDone(x)
  BY <1>1, <1>2, <1>7 DEF IsDone
<1>9. /\ Filled(x) = rows[x].filled + b + (u + later)
      /\ Executed(x) = rows[x].executed + q + (w + laterWorth)
      /\ Filled(x)' = rows[x].filled + bb + later
      /\ Executed(x)' = rows[x].executed + qq + laterWorth
  BY <1>1, <1>2 DEF Filled, Executed
<1> HIDE DEF b, q, bb, qq, u, w, later, laterWorth
<1>10. Filled(x)' = Filled(x) /\ Executed(x)' = Executed(x)
  BY <1>2, <1>5, <1>7, <1>9
<1> QED
  BY <1>8, <1>10

\* An open log leaves nothing behind but a status.
LEMMA UpdateOrderStatusKeepsTrades ==
    ASSUME TypeInv, TypeInv', NEW updated, UpdateOrderStatus(updated)
    PROVE  /\ TradesStay
           /\ \A x \in OrderIds : /\ rows'[x].filled = rows[x].filled
                                  /\ rows'[x].executed = rows[x].executed
                                  /\ \/ rows'[x].status = rows[x].status
                                     \/ rows[x].status = "new" /\ rows'[x].status = "open"
<1> DEFINE log == Head(logs)
<1>1. /\ logs # << >> /\ log.kind = "open" /\ logs' = Tail(logs) /\ fills' = fills
      /\ rows' = rows \/ (rows[log.id].status = "new" /\ rows' = [rows EXCEPT ![log.id].status = "open"])
  BY DEF UpdateOrderStatus
<1>2. \A x \in OrderIds : rows[x] \in Rows
  BY DEF TypeInv, RowsOK
<1>3. \A x \in OrderIds : /\ rows'[x].filled = rows[x].filled
                          /\ rows'[x].executed = rows[x].executed
                          /\ \/ rows'[x].status = rows[x].status
                             \/ rows[x].status = "new" /\ rows'[x].status = "open"
  <2> SUFFICES ASSUME NEW x \in OrderIds
               PROVE  /\ rows'[x].filled = rows[x].filled
                      /\ rows'[x].executed = rows[x].executed
                      /\ \/ rows'[x].status = rows[x].status
                         \/ rows[x].status = "new" /\ rows'[x].status = "open"
    OBVIOUS
  <2>1. rows \in [OrderIds -> Rows]
    BY DEF TypeInv, RowsOK
  <2>2. CASE rows' = rows
    BY <2>2
  <2>3. CASE rows[log.id].status = "new" /\ rows' = [rows EXCEPT ![log.id].status = "open"]
    <3>1. rows'[x] = IF x = log.id THEN [rows[x] EXCEPT !.status = "open"] ELSE rows[x]
      BY <2>1, <2>3
    <3> QED
      BY <1>2, <2>3, <3>1 DEF Rows
  <2> QED
    BY <1>1, <2>2, <2>3
<1>4. TradesStay
  <2> SUFFICES ASSUME NEW x \in OrderIds
               PROVE  /\ Filled(x)' = Filled(x) /\ Executed(x)' = Executed(x)
                      /\ IsDone(x)' <=> IsDone(x)
    BY DEF TradesStay
  <2>1. /\ Units(logs, x) = UnitsIn(log, x) + Units(logs', x)
        /\ Worth(logs, x) = WorthIn(log, x) + Worth(logs', x)
        /\ NoDone(logs, x) <=> ~ Ends(log, x) /\ NoDone(logs', x)
        /\ Units(logs', x) \in Nat /\ Worth(logs', x) \in Nat
    BY <1>1, LogRead
  <2>2. UnitsIn(log, x) = 0 /\ WorthIn(log, x) = 0 /\ ~ Ends(log, x)
    BY <1>1 DEF UnitsIn, WorthIn, Ends
  <2>3. Units(logs', x) = Units(logs, x) /\ Worth(logs', x) = Worth(logs, x)
    BY <2>1, <2>2
  <2>4. Filled(x)' = Filled(x) /\ Executed(x)' = Executed(x)
    BY <1>1, <1>3, <2>3 DEF Filled, Executed
  <2>5. rows'[x].status \in Final <=> rows[x].status \in Final
    BY <1>3 DEF Final
  <2>6. IsDone(x)' <=> IsDone(x)
    BY <1>1, <2>1, <2>2, <2>5 DEF IsDone
  <2> QED
    BY <2>4, <2>6
<1> QED
  BY <1>3, <1>4

\* Fills become what the row says.
LEMMA ExecuteFillKeepsTrades ==
    ASSUME TypeInv, TypeInv', NEW id \in OrderIds, NEW announced, ExecuteFill(id, announced)
    PROVE  /\ TradesStay
           /\ \A x \in OrderIds \ {id} : rows'[x] = rows[x] /\ fills'[x] = fills[x]
           /\ ~ Settles(id) => rows'[id] = rows[id] /\ fills'[id] = fills[id]
           /\ Settles(id) => rows'[id].status = rows[id].status \/ rows'[id].status \in Final
<1>1. logs' = logs /\ (~ Settles(id) => rows' = rows /\ fills' = fills)
  BY TurnFacts
<1>2. CASE ~ Settles(id)
  BY <1>1, <1>2 DEF TradesStay, Filled, Executed, IsDone
<1>3. CASE Settles(id)
  <2>0. PICK row, k, n, s : /\ row = Ended(id).row /\ k = Ended(id).settled
                            /\ n = Len(UnsettledFills(id)) /\ s = UnsettledFills(id)
    OBVIOUS
  <2>1. /\ n \in 0 .. Len(fills[id]) /\ s = SubSeq(fills[id], 1, n)
        /\ FillsSettled(id, rows[id], s, n, Ended(id))
        /\ k \in 0 .. Len(fills[id])
        /\ rows' = [rows EXCEPT ![id] = row]
        /\ fills' = [fills EXCEPT ![id] = SubSeq(fills[id], k + 1, Len(fills[id]))]
    BY <1>3, <2>0, TurnFacts
  <2> DEFINE all == fills[id]
             rest == SubSeq(all, k + 1, Len(all))
  <2>2. /\ \A x \in OrderIds \ {id} : rows'[x] = rows[x] /\ fills'[x] = fills[x]
        /\ rows'[id] = row /\ fills'[id] = rest
    BY <2>1 DEF TypeInv, RowsOK, FillsOK
  <2>3. all \in Seq(FillRecords) /\ rows[id].status \notin Final
    BY <1>3 DEF TypeInv, FillsOK, Settles, Skipped
  <2>4. k \in 0 .. n /\ n \in Nat /\ Len(all) \in Nat
    BY <2>0, <2>1, <2>3 DEF FillsSettled
  <2>5. /\ row.status \notin Final => /\ row.status = rows[id].status /\ k = n
                                      /\ \A i \in 1 .. n : ~ s[i].done
        /\ row.status \in Final => k > 0 /\ s[k].done
    BY <2>0, <2>1 DEF FillsSettled
  <2> HIDE DEF all, rest
  <2>6. IsSequence(all)
    BY <2>3, SequenceOver
  <2>7. /\ \A i \in 1 .. n : s[i] = all[i]
        /\ IsSequence(rest) /\ Len(rest) = Len(all) - k
        /\ \A i \in 1 .. Len(all) - k : rest[i] = all[k + i]
        /\ DOMAIN all = 1 .. Len(all) /\ DOMAIN rest = 1 .. Len(rest)
    <3>1. /\ IsSequence(rest) /\ Len(rest) = Len(all) - k
          /\ \A i \in 1 .. Len(all) - k : rest[i] = all[k + i]
      BY <2>1, <2>6, SplitSequence DEF all, rest
    <3>2. \A i \in 1 .. n : s[i] = all[i]
      BY <2>1, <2>6, SplitSequence DEF all
    <3> QED
      BY <2>6, <3>1, <3>2, SequenceFacts
  <2>8. row.status \notin Final => (HasDone(rest) <=> HasDone(all))
    <3> SUFFICES ASSUME row.status \notin Final PROVE HasDone(rest) <=> HasDone(all)
      OBVIOUS
    <3>1. k = n /\ \A i \in 1 .. k : ~ all[i].done
      BY <2>5, <2>7
    <3>2. ASSUME NEW i \in DOMAIN rest, rest[i].done
          PROVE  HasDone(all)
      <4>1. i \in 1 .. Len(all) - k
        BY <2>7
      <4>2. k + i \in 1 .. Len(all)
        BY <2>4, <4>1
      <4>3. k + i \in DOMAIN all /\ all[k + i].done
        BY <2>7, <3>2, <4>1, <4>2
      <4> QED
        BY <4>3 DEF HasDone
    <3>3. ASSUME NEW i \in DOMAIN all, all[i].done
          PROVE  HasDone(rest)
      <4>1. i \in 1 .. Len(all) /\ i \notin 1 .. k
        BY <2>7, <3>1, <3>3
      <4>2. i - k \in 1 .. Len(all) - k /\ k + (i - k) = i
        BY <2>4, <4>1
      <4>3. i - k \in DOMAIN rest /\ rest[i - k].done
        BY <2>7, <3>3, <4>2
      <4> QED
        BY <4>3 DEF HasDone
    <3> QED
      BY <3>2, <3>3 DEF HasDone
  <2>9. row.status \in Final => HasDone(all)
    <3> SUFFICES ASSUME row.status \in Final PROVE HasDone(all)
      OBVIOUS
    <3>1. k \in 1 .. n /\ s[k].done
      BY <2>4, <2>5
    <3>2. k \in DOMAIN all /\ all[k].done
      BY <2>1, <2>4, <2>7, <3>1 DEF all
    <3> QED
      BY <3>2 DEF HasDone
  <2>10. ASSUME NEW x \in OrderIds
         PROVE  /\ Filled(x)' = Filled(x) /\ Executed(x)' = Executed(x)
                /\ IsDone(x)' <=> IsDone(x)
    <3>1. CASE x # id
      <4>1. rows'[x] = rows[x] /\ fills'[x] = fills[x]
        BY <2>2, <3>1
      <4> QED
        BY <1>1, <4>1 DEF Filled, Executed, IsDone
    <3>2. CASE x = id
      <4>1. IsDone(id)' <=> IsDone(id)
        BY <1>1, <2>2, <2>3, <2>8, <2>9 DEF IsDone, all
      <4>2. Filled(id)' = Filled(id)
        <5>1. PICK m \in Nat :
                 /\ SumAlong(MovedIn("base"), fills[id]) =
                       m + SumAlong(MovedIn("base"), SubSeq(fills[id], k + 1, Len(fills[id])))
                 /\ row.filled = rows[id].filled + m
          BY <1>3, <2>0, TurnMoves DEF Currencies
        <5> DEFINE p == SumAlong(MovedIn("base"), fills[id])
                   q == SumAlong(MovedIn("base"), rest)
                   u == Units(logs, id)
        <5>2. p \in Nat /\ u \in Nat /\ rows[id].filled \in Nat
          BY TradedNumbers
        <5>3. q \in Nat
          <6>1. rest \in Seq(FillRecords)
            BY <2>2 DEF TypeInv, FillsOK
          <6> QED
            BY <6>1, FillNumbers
        <5>4. p = m + q /\ row.filled = rows[id].filled + m
          BY <5>1 DEF rest, all
        <5>5. /\ Filled(id) = rows[id].filled + p + u
              /\ Filled(id)' = row.filled + q + u
          BY <1>1, <2>2 DEF Filled
        <5> HIDE DEF p, q, u
        <5> QED
          BY <5>2, <5>3, <5>4, <5>5
      <4>3. Executed(id)' = Executed(id)
        <5>1. PICK m \in Nat :
                 /\ SumAlong(MovedIn("quote"), fills[id]) =
                       m + SumAlong(MovedIn("quote"), SubSeq(fills[id], k + 1, Len(fills[id])))
                 /\ row.executed = rows[id].executed + m
          BY <1>3, <2>0, TurnMoves DEF Currencies
        <5> DEFINE p == SumAlong(MovedIn("quote"), fills[id])
                   q == SumAlong(MovedIn("quote"), rest)
                   u == Worth(logs, id)
        <5>2. p \in Nat /\ u \in Nat /\ rows[id].executed \in Nat
          BY TradedNumbers
        <5>3. q \in Nat
          <6>1. rest \in Seq(FillRecords)
            BY <2>2 DEF TypeInv, FillsOK
          <6> QED
            BY <6>1, FillNumbers
        <5>4. p = m + q /\ row.executed = rows[id].executed + m
          BY <5>1 DEF rest, all
        <5>5. /\ Executed(id) = rows[id].executed + p + u
              /\ Executed(id)' = row.executed + q + u
          BY <1>1, <2>2 DEF Executed
        <5> HIDE DEF p, q, u
        <5> QED
          BY <5>2, <5>3, <5>4, <5>5
      <4> QED
        BY <3>2, <4>1, <4>2, <4>3
    <3> QED
      BY <3>1, <3>2
  <2>11. rows'[id].status = rows[id].status \/ rows'[id].status \in Final
    BY <2>2, <2>5
  <2> QED
    BY <1>3, <2>2, <2>10, <2>11 DEF TradesStay
<1> QED
  BY <1>2, <1>3

\* The ledger lasts if nothing but fills, logs and rows change, trades stay,
\* and the orders that the engine has not handled are still untouched.
LEMMA SettlingKeepsLedger ==
    ASSUME Ledger, TradesStay, UNCHANGED <<engineVars, requestVars, topic>>,
           \A x \in OrderIds : rows'[x].status = "none" <=> rows[x].status = "none",
           \A x \in OrderIds \ engine.seen : Untouched(x)'
    PROVE  Ledger'
<1>1. /\ engine' = engine /\ missed' = missed /\ checked' = checked
      /\ committed' = committed /\ topic' = topic
  BY DEF engineVars, requestVars
<1>2. \A x \in OrderIds : (NoMessage(x)' <=> NoMessage(x)) /\ (NotSubmitted(x)' <=> NotSubmitted(x))
  BY <1>1 DEF NoMessage, NotSubmitted
<1>3. \A x \in OrderIds : /\ Filled(x)' = Filled(x) /\ Executed(x)' = Executed(x)
                          /\ IsDone(x)' <=> IsDone(x)
  BY DEF TradesStay
<1>4. StagesOK'
  BY <1>1, <1>2 DEF Ledger, StagesOK
<1>5. WindowOK'
  BY <1>1 DEF Ledger, WindowOK
<1>6. UnseenOK'
  BY <1>1 DEF UnseenOK
<1>7. AmountsOK'
  BY <1>1, <1>3 DEF Ledger, AmountsOK
<1>8. EndsOK'
  BY <1>1, <1>2, <1>3 DEF Ledger, EndsOK
<1> QED
  BY <1>4, <1>5, <1>6, <1>7, <1>8 DEF Ledger

\* A log becomes fills: what it traded moves from the logs to the fills.
LEMMA MakeFillsKeepsLedger ==
    ASSUME TypeInv, TypeInv', Ledger, NEW announced, MakeFills(announced)
    PROVE  Ledger'
<1> DEFINE log == Head(logs)
<1>1. /\ logs # << >> /\ logs' = Tail(logs) /\ rows' = rows
      /\ UNCHANGED <<engineVars, requestVars, topic>>
      /\ \/ /\ log.kind = "match"
            /\ fills' = [id \in OrderIds |->
                           IF id \in {log.taker, log.maker}
                           THEN Append(fills[id], Fill(log)) ELSE fills[id]]
         \/ /\ log.kind = "done"
            /\ fills' = [id \in OrderIds |->
                           IF id = log.id THEN Append(fills[id], DoneFill(log))
                           ELSE fills[id]]
  BY MadeFills
<1>2. TradesStay
  BY MakeFillsKeepsTrades
<1>3. ASSUME NEW x \in OrderIds \ engine.seen
      PROVE  Untouched(x)'
  <2>1. Untouched(x)
    BY DEF Ledger, UnseenOK
  <2>2. ~ Mentions(log, x) /\ NoMention(logs', x)
    BY <1>1, <2>1, LogRead DEF Untouched
  <2>3. fills'[x] = fills[x]
    BY <1>1, <2>2 DEF Mentions
  <2>4. engine' = engine
    BY <1>1 DEF engineVars
  <2> QED
    BY <1>1, <2>1, <2>2, <2>3, <2>4 DEF Untouched
<1> QED
  BY <1>1, <1>2, <1>3, SettlingKeepsLedger

\* An open log changes a status and no amount.
LEMMA UpdateOrderStatusKeepsLedger ==
    ASSUME TypeInv, TypeInv', Ledger, NEW updated, UpdateOrderStatus(updated)
    PROVE  Ledger'
<1>1. /\ logs # << >> /\ logs' = Tail(logs) /\ fills' = fills
      /\ UNCHANGED <<engineVars, requestVars, topic>>
  BY DEF UpdateOrderStatus
<1>2. /\ TradesStay
      /\ \A x \in OrderIds : /\ rows'[x].filled = rows[x].filled
                             /\ rows'[x].executed = rows[x].executed
                             /\ \/ rows'[x].status = rows[x].status
                                \/ rows[x].status = "new" /\ rows'[x].status = "open"
  BY UpdateOrderStatusKeepsTrades
<1>3. ASSUME NEW x \in OrderIds \ engine.seen
      PROVE  Untouched(x)'
  <2>1. Untouched(x)
    BY DEF Ledger, UnseenOK
  <2>2. NoMention(logs', x)
    BY <1>1, <2>1, LogRead DEF Untouched
  <2>3. engine' = engine
    BY <1>1 DEF engineVars
  <2> QED
    BY <1>1, <1>2, <2>1, <2>2, <2>3 DEF Untouched, Final
<1>4. \A x \in OrderIds : rows'[x].status = "none" <=> rows[x].status = "none"
  BY <1>2
<1> QED
  BY <1>1, <1>2, <1>3, <1>4, SettlingKeepsLedger

\* The executor moves what was traded from the fills to the row.
LEMMA ExecuteFillKeepsLedger ==
    ASSUME TypeInv, TypeInv', Ledger, NEW id \in OrderIds, NEW announced, ExecuteFill(id, announced)
    PROVE  Ledger'
<1>1. UNCHANGED <<engineVars, requestVars, topic>> /\ logs' = logs
  BY TurnFacts DEF engineVars, requestVars
<1>2. /\ TradesStay
      /\ \A x \in OrderIds \ {id} : rows'[x] = rows[x] /\ fills'[x] = fills[x]
      /\ ~ Settles(id) => rows'[id] = rows[id] /\ fills'[id] = fills[id]
      /\ Settles(id) => rows'[id].status = rows[id].status \/ rows'[id].status \in Final
  BY ExecuteFillKeepsTrades
<1>3. ASSUME NEW x \in OrderIds \ engine.seen
      PROVE  Untouched(x)'
  <2>1. Untouched(x)
    BY DEF Ledger, UnseenOK
  <2>2. rows'[x] = rows[x] /\ fills'[x] = fills[x]
    BY <1>2, <2>1 DEF Settles, Untouched
  <2>3. engine' = engine
    BY <1>1 DEF engineVars
  <2> QED
    BY <1>1, <2>1, <2>2, <2>3 DEF Untouched
<1>4. Settles(id) => rows[id].status # "none"
  <2> SUFFICES ASSUME Settles(id) PROVE rows[id].status # "none"
    OBVIOUS
  <2>1. id \in engine.seen
    BY DEF Ledger, UnseenOK, Untouched, Settles
  <2> QED
    BY <2>1 DEF Ledger, StagesOK
<1>5. \A x \in OrderIds : rows'[x].status = "none" <=> rows[x].status = "none"
  BY <1>2, <1>4 DEF Final
<1> QED
  BY <1>1, <1>2, <1>3, <1>5, SettlingKeepsLedger

-----------------------------------------------------------------------------
(* Requests keep the ledger. *)

\* A sequence is its first element and the others.
LEMMA SequenceOfHead ==
    ASSUME NEW s, IsSequence(s), s # << >>
    PROVE  /\ Range(s) = {Head(s)} \cup Range(Tail(s))
           /\ IsSequence(Tail(s))
<1> DEFINE t == Tail(s)
           h == Head(s)
<1>1. /\ IsSequence(t) /\ Range(t) \subseteq Range(s) /\ h \in Range(s)
      /\ Len(t) = Len(s) - 1 /\ h = s[1] /\ \A i \in 1 .. Len(s) - 1 : t[i] = s[i + 1]
  BY TailSequence
<1>2. /\ Len(s) \in Nat /\ Range(s) = {s[i] : i \in 1 .. Len(s)}
      /\ \A i \in 1 .. Len(t) : t[i] \in Range(t)
  BY <1>1, SequenceFacts
<1> HIDE DEF t, h
<1>3. ASSUME NEW i \in 1 .. Len(s) PROVE s[i] = h \/ s[i] \in Range(t)
  <2>1. CASE i = 1
    BY <1>1, <2>1
  <2>2. CASE i # 1
    <3>1. i - 1 \in 1 .. Len(t) /\ (i - 1) + 1 = i /\ i - 1 \in 1 .. Len(s) - 1
      BY <1>1, <1>2, <2>2
    <3>2. t[i - 1] = s[i]
      BY <1>1, <3>1
    <3> QED
      BY <1>2, <3>1, <3>2
  <2> QED
    BY <2>1, <2>2
<1>4. Range(s) = {h} \cup Range(t)
  BY <1>1, <1>2, <1>3
<1> QED
  BY <1>1, <1>4 DEF h, t

\* What NoMessage and NotSubmitted say, of any topic.
LEMMA InTopic ==
    ASSUME NEW s, IsSequence(s), NEW x
    PROVE  /\ (\A i \in DOMAIN s : s[i].order.id # x) <=> (\A m \in Range(s) : m.order.id # x)
           /\ (\A i \in DOMAIN s : s[i].order.id = x => s[i].cancel) <=>
              (\A m \in Range(s) : m.order.id = x => m.cancel)
<1>1. DOMAIN s = 1 .. Len(s) /\ Range(s) = {s[i] : i \in 1 .. Len(s)}
  BY SequenceFacts
<1> QED
  BY <1>1

\* What appended messages change of who has a message waiting.
LEMMA TopicGrows ==
    ASSUME TypeInv, NEW t \in Seq(MessageRecords), topic' = topic \o t, NEW x
    PROVE  /\ NoMessage(x)' <=> NoMessage(x) /\ \A m \in Range(t) : m.order.id # x
           /\ NotSubmitted(x)' <=>
                 NotSubmitted(x) /\ \A m \in Range(t) : m.order.id = x => m.cancel
<1>1. IsSequence(topic) /\ IsSequence(t)
  BY SequenceOver DEF TypeInv, TopicOK
<1>2. IsSequence(topic') /\ Range(topic') = Range(topic) \cup Range(t)
  BY <1>1, ConcatSequence
<1>3. /\ NoMessage(x) <=> \A m \in Range(topic) : m.order.id # x
      /\ NotSubmitted(x) <=> \A m \in Range(topic) : m.order.id = x => m.cancel
  BY <1>1, InTopic DEF NoMessage, NotSubmitted
<1>4. /\ NoMessage(x)' <=> \A m \in Range(topic') : m.order.id # x
      /\ NotSubmitted(x)' <=> \A m \in Range(topic') : m.order.id = x => m.cancel
  BY <1>2, InTopic DEF NoMessage, NotSubmitted
<1> QED
  BY <1>2, <1>3, <1>4

\* What the message taken off the topic changes of it.
LEMMA TopicShrinks ==
    ASSUME TypeInv, topic # << >>, topic' = Tail(topic), NEW x
    PROVE  /\ NoMessage(x) <=> NoMessage(x)' /\ Head(topic).order.id # x
           /\ NotSubmitted(x) <=>
                 NotSubmitted(x)' /\ (Head(topic).order.id = x => Head(topic).cancel)
<1>1. IsSequence(topic)
  BY SequenceOver DEF TypeInv, TopicOK
<1>2. IsSequence(topic') /\ Range(topic) = {Head(topic)} \cup Range(topic')
  BY <1>1, SequenceOfHead
<1>3. /\ NoMessage(x) <=> \A m \in Range(topic) : m.order.id # x
      /\ NotSubmitted(x) <=> \A m \in Range(topic) : m.order.id = x => m.cancel
  BY <1>1, InTopic DEF NoMessage, NotSubmitted
<1>4. /\ NoMessage(x)' <=> \A m \in Range(topic') : m.order.id # x
      /\ NotSubmitted(x)' <=> \A m \in Range(topic') : m.order.id = x => m.cancel
  BY <1>2, InTopic DEF NoMessage, NotSubmitted
<1> QED
  BY <1>2, <1>3, <1>4

\* The message of a submission or of a cancellation.
LEMMA OneMessage ==
    ASSUME NEW id \in OrderIds, NEW c \in BOOLEAN
    PROVE  LET m == [order |-> Order(id), cancel |-> c]
           IN  m \in MessageRecords /\ m.order.id = id /\ m.cancel = c
<1>1. [order |-> Order(id), cancel |-> c] \in MessageRecords
  BY MessageRecord
<1>2. Order(id).id = id
  BY PlacedOrder
<1> QED
  BY <1>1, <1>2

\* The balance is read: nothing is placed yet.
LEMMA CheckBalanceKeepsLedger ==
    ASSUME Ledger, NEW id \in OrderIds, CheckBalance(id)
    PROVE  Ledger'
<1>1. /\ rows[id].status = "none" /\ checked' = checked \cup {id}
      /\ UNCHANGED <<accounts, rows, bills, fills, committed, topic, engine, missed, logs>>
  BY DEF CheckBalance, engineVars
<1>2. StagesOK'
  BY <1>1 DEF Ledger, StagesOK, NoMessage, NotSubmitted
<1>3. WindowOK' /\ UnseenOK' /\ AmountsOK' /\ EndsOK'
  BY <1>1 DEF Ledger, WindowOK, UnseenOK, Untouched, AmountsOK, EndsOK, Filled, Executed,
              IsDone, NotSubmitted
<1> QED
  BY <1>2, <1>3 DEF Ledger

\* The funds are held and the row is written: the order has traded nothing.
LEMMA HoldBalanceKeepsLedger ==
    ASSUME TypeInv, Ledger, NEW id \in OrderIds, HoldBalance(id)
    PROVE  /\ Ledger'
           /\ rows[id].status = "none" /\ rows'[id].status = "new"
           /\ rows[id].filled = 0 /\ rows[id].executed = 0
           /\ rows'[id].filled = 0 /\ rows'[id].executed = 0
           /\ \A x \in OrderIds \ {id} : rows'[x] = rows[x]
<1>1. /\ id \in checked /\ checked' = checked \ {id} /\ committed' = committed \cup {id}
      /\ rows' = [rows EXCEPT ![id].status = "new"]
      /\ fills' = fills /\ topic' = topic /\ engine' = engine /\ missed' = missed /\ logs' = logs
  BY DEF HoldBalance, engineVars
<1>2. rows[id].status = "none"
  BY <1>1 DEF Ledger, StagesOK
<1>3. id \notin engine.seen /\ id \notin missed /\ id \notin committed /\ NoMessage(id)
  BY <1>2 DEF Ledger, StagesOK
<1>4. Untouched(id)
  BY <1>3 DEF Ledger, UnseenOK
<1>5. /\ rows'[id].status = "new" /\ rows'[id].filled = rows[id].filled
      /\ rows'[id].executed = rows[id].executed
      /\ \A x \in OrderIds \ {id} : rows'[x] = rows[x]
  <2>1. rows \in [OrderIds -> Rows]
    BY DEF TypeInv, RowsOK
  <2>2. rows[id] \in Rows
    BY <2>1
  <2>3. rows'[id] = [rows[id] EXCEPT !.status = "new"]
    BY <1>1, <2>1
  <2> QED
    BY <1>1, <2>1, <2>2, <2>3 DEF Rows
<1>6. rows[id].filled = 0 /\ rows[id].executed = 0
  BY <1>4 DEF Untouched
<1>7. NotSubmitted(id)
  BY <1>3 DEF NoMessage, NotSubmitted
<1>8. \A x \in OrderIds : (NoMessage(x)' <=> NoMessage(x)) /\ (NotSubmitted(x)' <=> NotSubmitted(x))
  BY <1>1 DEF NoMessage, NotSubmitted
<1>9. \A x \in OrderIds : /\ Filled(x)' = Filled(x) /\ Executed(x)' = Executed(x)
                          /\ IsDone(x)' <=> IsDone(x)
  <2>1. \A x \in OrderIds : rows'[x].status \in Final <=> rows[x].status \in Final
    BY <1>2, <1>5 DEF Final
  <2>2. \A x \in OrderIds : rows'[x].filled = rows[x].filled /\ rows'[x].executed = rows[x].executed
    BY <1>5
  <2> QED
    BY <1>1, <2>1, <2>2 DEF Filled, Executed, IsDone
<1>10. StagesOK'
  <2> SUFFICES ASSUME NEW x \in OrderIds
               PROVE  /\ rows'[x].status = "none" =>
                            /\ x \notin committed' /\ x \notin missed'
                            /\ x \notin engine'.seen /\ NoMessage(x)'
                      /\ x \in checked' => rows'[x].status = "none"
                      /\ x \in committed' => /\ NotSubmitted(x)'
                                             /\ x \notin engine'.seen \/ x \in missed'
    BY DEF StagesOK
  <2>1. CASE x = id
    BY <1>1, <1>3, <1>5, <1>7, <1>8, <2>1
  <2>2. CASE x # id
    BY <1>1, <1>5, <1>8, <2>2 DEF Ledger, StagesOK
  <2> QED
    BY <2>1, <2>2
<1>11. UnseenOK'
  BY <1>1, <1>5 DEF Ledger, UnseenOK, Untouched, Final
<1>12. AmountsOK' /\ WindowOK'
  BY <1>1, <1>9 DEF Ledger, AmountsOK, WindowOK
<1>13. EndsOK'
  <2> SUFFICES ASSUME NEW x \in OrderIds
               PROVE  /\ EntriesIn(engine.book, x) # {} => ~ IsDone(x) /\ x \notin missed
                      /\ x \in engine.seen /\ EntriesIn(engine.book, x) = {} =>
                            IsDone(x) \/ x \in missed
                      /\ x \in missed => /\ ~ IsDone(x) /\ EntriesIn(engine.book, x) = {}
                                         /\ x \in engine.seen \/ (x \notin committed' /\ NotSubmitted(x))
                      /\ rows'[x].status # "none" /\ x \notin engine.seen =>
                            x \in committed' \/ x \in missed \/ ~ NotSubmitted(x)
    BY <1>1, <1>8, <1>9 DEF EndsOK
  <2>1. CASE x = id
    BY <1>1, <1>3, <1>4, <2>1 DEF Untouched
  <2>2. CASE x # id
    BY <1>1, <1>5, <2>2 DEF Ledger, EndsOK
  <2> QED
    BY <2>1, <2>2
<1> QED
  BY <1>2, <1>5, <1>6, <1>10, <1>11, <1>12, <1>13 DEF Ledger

\* A cancellation is sent for an order that has a row.
LEMMA RequestCancelKeepsLedger ==
    ASSUME TypeInv, Ledger, NEW id \in OrderIds, RequestCancel(id)
    PROVE  Ledger'
<1> DEFINE m == [order |-> Order(id), cancel |-> TRUE]
<1>1. /\ rows[id].status # "none" /\ topic' = Append(topic, m)
      /\ UNCHANGED <<rows, fills, checked, committed, engine, missed, logs>>
  BY DEF RequestCancel, engineVars
<1>2. m \in MessageRecords /\ m.order.id = id /\ m.cancel = TRUE
  <2>1. TRUE \in BOOLEAN
    OBVIOUS
  <2> QED
    BY <2>1, OneMessage, Zenon
<1> HIDE DEF m
<1>3. /\ <<m>> \in Seq(MessageRecords) /\ topic' = topic \o <<m>>
      /\ Range(<<m>>) = {m}
  <2>1. IsSequence(topic)
    BY SequenceOver DEF TypeInv, TopicOK
  <2>2. IsSequence(<<m>>) /\ Len(<<m>>) = 1 /\ <<m>>[1] = m
    BY OneElement
  <2>3. Range(<<m>>) = {<<m>>[i] : i \in 1 .. 1}
    BY <2>2, SequenceFacts
  <2> QED
    BY <1>1, <1>2, <2>1, <2>2, <2>3, AppendConcat
<1>4. \A x \in OrderIds : /\ NotSubmitted(x)' <=> NotSubmitted(x)
                          /\ NoMessage(x)' <=> NoMessage(x) /\ x # id
  <2> SUFFICES ASSUME NEW x \in OrderIds
               PROVE  /\ NotSubmitted(x)' <=> NotSubmitted(x)
                      /\ NoMessage(x)' <=> NoMessage(x) /\ x # id
    OBVIOUS
  <2>1. /\ NoMessage(x)' <=> NoMessage(x) /\ \A n \in Range(<<m>>) : n.order.id # x
        /\ NotSubmitted(x)' <=>
              NotSubmitted(x) /\ \A n \in Range(<<m>>) : n.order.id = x => n.cancel
    BY <1>3, TopicGrows
  <2> QED
    BY <1>2, <1>3, <2>1
<1>5. StagesOK'
  BY <1>1, <1>4 DEF Ledger, StagesOK
<1>6. WindowOK' /\ UnseenOK' /\ AmountsOK'
  BY <1>1 DEF Ledger, WindowOK, UnseenOK, Untouched, AmountsOK, Filled, Executed
<1>7. EndsOK'
  <2>1. \A x \in OrderIds : IsDone(x)' <=> IsDone(x)
    BY <1>1 DEF IsDone
  <2> QED
    BY <1>1, <1>4, <2>1 DEF Ledger, EndsOK
<1> QED
  BY <1>5, <1>6, <1>7 DEF Ledger

\* The order is sent once, twice, or never.
LEMMA SubmitOrderKeepsLedger ==
    ASSUME TypeInv, Ledger, NEW id \in OrderIds, NEW copies \in 0 .. 2, SubmitOrder(id, copies)
    PROVE  Ledger'
<1> DEFINE m == [order |-> Order(id), cancel |-> FALSE]
           t == [i \in 1 .. copies |-> m]
<1>1. /\ id \in committed /\ committed' = committed \ {id} /\ topic' = topic \o t
      /\ missed' = IF copies = 0 THEN missed \cup {id} ELSE missed
      /\ UNCHANGED <<rows, fills, checked, engine, logs>>
  BY DEF SubmitOrder
<1>2. m \in MessageRecords /\ m.order.id = id /\ m.cancel = FALSE
  <2>1. FALSE \in BOOLEAN
    OBVIOUS
  <2> QED
    BY <2>1, OneMessage, Zenon
<1> HIDE DEF m
<1>3. /\ t \in Seq(MessageRecords)
      /\ \A n \in Range(t) : n = m
      /\ copies # 0 => m \in Range(t)
  <2>1. t \in Seq(MessageRecords) /\ Len(t) = copies /\ \A i \in 1 .. copies : t[i] = m
    BY <1>2
  <2> HIDE DEF t
  <2>2. IsSequence(t)
    BY <2>1, SequenceOver
  <2>3. Range(t) = {t[i] : i \in 1 .. copies}
    BY <2>1, <2>2, SequenceFacts
  <2>4. copies # 0 => 1 \in 1 .. copies
    OBVIOUS
  <2> QED
    BY <2>1, <2>3, <2>4
<1> HIDE DEF t
<1>4. \A x \in OrderIds : /\ x # id => /\ NotSubmitted(x)' <=> NotSubmitted(x)
                                       /\ NoMessage(x)' <=> NoMessage(x)
                          /\ NotSubmitted(id)' <=> NotSubmitted(id) /\ copies = 0
  <2> SUFFICES ASSUME NEW x \in OrderIds
               PROVE  /\ x # id => /\ NotSubmitted(x)' <=> NotSubmitted(x)
                                   /\ NoMessage(x)' <=> NoMessage(x)
                      /\ NotSubmitted(id)' <=> NotSubmitted(id) /\ copies = 0
    OBVIOUS
  <2>1. /\ NoMessage(x)' <=> NoMessage(x) /\ \A n \in Range(t) : n.order.id # x
        /\ NotSubmitted(x)' <=>
              NotSubmitted(x) /\ \A n \in Range(t) : n.order.id = x => n.cancel
    BY <1>1, <1>3, TopicGrows
  <2>2. NotSubmitted(id)' <=>
           NotSubmitted(id) /\ \A n \in Range(t) : n.order.id = id => n.cancel
    BY <1>1, <1>3, TopicGrows
  <2>3. copies = 0 => Range(t) = {}
    <3>1. t \in Seq(MessageRecords) /\ (copies = 0 => Len(t) = 0)
      BY <1>2 DEF t
    <3>2. IsSequence(t)
      BY <1>3, SequenceOver
    <3>3. Range(t) = {t[i] : i \in 1 .. Len(t)}
      BY <3>2, SequenceFacts
    <3> QED
      BY <3>1, <3>3
  <2>4. x # id => \A n \in Range(t) : n.order.id # x
    BY <1>2, <1>3
  <2>5. (\A n \in Range(t) : n.order.id = id => n.cancel) <=> copies = 0
    BY <1>2, <1>3, <2>3
  <2> QED
    BY <2>1, <2>2, <2>4, <2>5
<1>5. /\ rows[id].status # "none" /\ NotSubmitted(id)
      /\ id \notin engine.seen \/ id \in missed
      /\ id \notin engine.seen => id \notin missed
  BY <1>1 DEF Ledger, StagesOK, EndsOK
<1>6. ~ IsDone(id) /\ EntriesIn(engine.book, id) = {}
  <2>1. CASE id \in missed
    BY <2>1 DEF Ledger, EndsOK
  <2>2. CASE id \notin engine.seen
    <3>1. Untouched(id)
      BY <2>2 DEF Ledger, UnseenOK
    <3>2. NoDone(logs, id)
      BY <3>1, UnmentionedOrder DEF Untouched, TypeInv, LogsOK
    <3>3. ~ HasDone(fills[id])
      BY <3>1 DEF Untouched, HasDone
    <3> QED
      BY <3>1, <3>2, <3>3 DEF Untouched, IsDone
  <2> QED
    BY <1>5, <2>1, <2>2
<1>7. StagesOK'
  <2> SUFFICES ASSUME NEW x \in OrderIds
               PROVE  /\ rows'[x].status = "none" =>
                            /\ x \notin committed' /\ x \notin missed'
                            /\ x \notin engine'.seen /\ NoMessage(x)'
                      /\ x \in checked' => rows'[x].status = "none"
                      /\ x \in committed' => /\ NotSubmitted(x)'
                                             /\ x \notin engine'.seen \/ x \in missed'
    BY DEF StagesOK
  <2>1. CASE x = id
    BY <1>1, <1>5, <2>1 DEF Ledger, StagesOK
  <2>2. CASE x # id
    BY <1>1, <1>4, <2>2 DEF Ledger, StagesOK
  <2> QED
    BY <2>1, <2>2
<1>8. WindowOK' /\ UnseenOK' /\ AmountsOK'
  BY <1>1 DEF Ledger, WindowOK, UnseenOK, Untouched, AmountsOK, Filled, Executed
<1>9. EndsOK'
  <2>1. \A x \in OrderIds : IsDone(x)' <=> IsDone(x)
    BY <1>1 DEF IsDone
  <2> SUFFICES ASSUME NEW x \in OrderIds
               PROVE  /\ EntriesIn(engine.book, x) # {} => ~ IsDone(x) /\ x \notin missed'
                      /\ x \in engine.seen /\ EntriesIn(engine.book, x) = {} =>
                            IsDone(x) \/ x \in missed'
                      /\ x \in missed' => /\ ~ IsDone(x) /\ EntriesIn(engine.book, x) = {}
                                          /\ x \in engine.seen
                                             \/ (x \notin committed' /\ NotSubmitted(x)')
                      /\ rows[x].status # "none" /\ x \notin engine.seen =>
                            x \in committed' \/ x \in missed' \/ ~ NotSubmitted(x)'
    BY <1>1, <2>1 DEF EndsOK
  <2>2. CASE x = id
    BY <1>1, <1>4, <1>5, <1>6, <2>2 DEF Ledger, EndsOK
  <2>3. CASE x # id
    BY <1>1, <1>4, <2>3 DEF Ledger, EndsOK
  <2> QED
    BY <2>2, <2>3
<1> QED
  BY <1>7, <1>8, <1>9 DEF Ledger

-----------------------------------------------------------------------------
(* The engine keeps the ledger. *)

\* The remainder of a number below the divisor.
LEMMA ModSmall ==
    ASSUME NEW c \in Nat \ {0}, NEW x \in 0 .. c - 1
    PROVE  x % c = x
OBVIOUS

\* The remainder of the divisor.
LEMMA ModSelf ==
    ASSUME NEW c \in Nat \ {0}
    PROVE  c % c = 0
OBVIOUS

\* Ids within the window have slots of their own.
LEMMA SlotsDiffer ==
    ASSUME IdsWithinWindow, NEW x \in OrderIds, NEW y \in OrderIds, Slot(x) = Slot(y)
    PROVE  x = y
<1>1. WindowCap \in Nat \ {0}
  BY WindowCapAssumption
<1>2. x \in 1 .. WindowCap /\ y \in 1 .. WindowCap
  BY <1>1, OrderIdsAssumption DEF IdsWithinWindow
<1>3. ASSUME NEW z \in 1 .. WindowCap
      PROVE  Slot(z) = IF z = WindowCap THEN 0 ELSE z
  <2>1. CASE z = WindowCap
    BY <1>1, <2>1, ModSelf DEF Slot
  <2>2. CASE z # WindowCap
    <3>1. z \in 0 .. WindowCap - 1
      BY <1>1, <2>2
    <3> QED
      BY <1>1, <2>2, <3>1, ModSmall DEF Slot
  <2> QED
    BY <2>1, <2>2
<1>4. /\ Slot(x) = (IF x = WindowCap THEN 0 ELSE x)
      /\ Slot(y) = (IF y = WindowCap THEN 0 ELSE y)
  BY <1>2, <1>3
<1>5. x # 0 /\ y # 0
  BY <1>1, <1>2
<1>6. CASE x = WindowCap
  BY <1>4, <1>5, <1>6
<1>7. CASE y = WindowCap
  BY <1>4, <1>5, <1>7
<1>8. CASE x # WindowCap /\ y # WindowCap
  BY <1>4, <1>8
<1> QED
  BY <1>6, <1>7, <1>8

\* What a message does to an order: one that submits it for the first time
\* applies it, and any other leaves it, takes it out or trades with it.
Submits(id, c, x) == x = id /\ ~ c /\ x \notin engine.seen

HandledBy(id, c, r) ==
    /\ topic # << >> /\ Head(topic).order.id = id /\ Head(topic).cancel = c
    /\ topic' = Tail(topic) /\ logs' = logs \o r.logs /\ AreLogs(r.logs)
    /\ engine'.book = r.book /\ engine'.seen = engine.seen \cup {id}
    /\ \A x \in OrderIds : Slot(x) \in engine'.window <=> Slot(x) \in engine.window \/ x = id
    /\ missed' = IF c /\ id \notin engine.seen THEN missed \cup {id} ELSE missed
    /\ UNCHANGED <<rows, fills, checked, committed>>
    /\ \A x \in OrderIds :
          IF Submits(id, c, x) THEN EntriesIn(engine.book, x) = {} => IsApplied(x, r)
          ELSE \/ Passes(engine.book, x, r)
               \/ x = id /\ c /\ IsCancelled(engine.book, x, r)
               \/ GivesUnits(engine.book, x, r)

\* What handling a message does, in the terms of the ledger.
LEMMA HandleMessageFacts ==
    ASSUME TypeInv, Ledger, IdsWithinWindow, HandleMessage
    PROVE  \E id \in OrderIds, c \in BOOLEAN : \E r : HandledBy(id, c, r)
<1>1. topic # << >> /\ topic \in Seq(MessageRecords)
  BY DEF HandleMessage, TypeInv, TopicOK
<1>2. Head(topic) \in MessageRecords
  BY <1>1
<1>3. PICK id \in OrderIds, c \in BOOLEAN : Head(topic) = [order |-> Order(id), cancel |-> c]
  <2>1. \A m \in MessageRecords :
           \E id \in OrderIds, c \in BOOLEAN : m = [order |-> Order(id), cancel |-> c]
    BY DEF MessageRecords
  <2> QED
    BY <1>2, <2>1
<1> DEFINE message == [order |-> Order(id), cancel |-> c]
           r == Handle(engine.book, engine.window, message)
<1>4. message \in MessageRecords /\ message.order.id = id /\ message.cancel = c
  BY OneMessage
<1>5. /\ topic' = Tail(topic)
      /\ engine' = [book |-> r.book, window |-> r.window,
                    seen |-> engine.seen \cup {message.order.id}]
      /\ logs' = logs \o r.logs
      /\ missed' = IF message.cancel /\ message.order.id \notin engine.seen
                   THEN missed \cup {message.order.id} ELSE missed
      /\ UNCHANGED <<rows, fills, checked, committed>>
  BY <1>3 DEF HandleMessage, requestVars
<1>6. IsOrderBook(engine.book) /\ SidesAgree(engine.book)
  BY DEF TypeInv, EngineOK
<1>7. AreLogs(r.logs)
  <2>1. IsSequence(r.logs) /\ \A log \in Range(r.logs) : IsExchangeLog(log)
    BY <1>4, <1>6, HandledMessage
  <2> QED
    BY <2>1 DEF AreLogs, IsExchangeLog
<1>8. WindowRefuses(engine.window, id) <=> Slot(id) \in engine.window
  BY DEF WindowRefuses, IdsWithinWindow
<1>9. WindowRefuses(engine.window, id) <=> id \in engine.seen
  BY <1>8 DEF Ledger, WindowOK
<1>10. r.window = IF WindowRefuses(engine.window, id) THEN engine.window
                  ELSE engine.window \cup {Slot(id)}
  BY <1>4 DEF Handle, WindowPut
<1>11. \A x \in OrderIds :
          IF x = id /\ ~ c /\ ~ WindowRefuses(engine.window, id)
          THEN EntriesIn(engine.book, x) = {} => IsApplied(x, r)
          ELSE \/ Passes(engine.book, x, r)
               \/ x = id /\ c /\ IsCancelled(engine.book, x, r)
               \/ GivesUnits(engine.book, x, r)
  BY <1>6, HandledOrder
<1> HIDE DEF r, message
<1>12. \A x \in OrderIds : Slot(x) \in engine'.window <=> Slot(x) \in engine.window \/ x = id
  <2>1. engine'.window = r.window
    BY <1>5
  <2>2. \A x \in OrderIds : Slot(x) = Slot(id) <=> x = id
    BY SlotsDiffer
  <2> QED
    BY <1>8, <1>10, <2>1, <2>2
<1>13. \A x \in OrderIds :
          IF Submits(id, c, x) THEN EntriesIn(engine.book, x) = {} => IsApplied(x, r)
          ELSE \/ Passes(engine.book, x, r)
               \/ x = id /\ c /\ IsCancelled(engine.book, x, r)
               \/ GivesUnits(engine.book, x, r)
  BY <1>9, <1>11 DEF Submits
<1>14. Head(topic).order.id = id /\ Head(topic).cancel = c
  BY <1>3, <1>4 DEF message
<1>15. HandledBy(id, c, r)
  BY <1>1, <1>4, <1>5, <1>7, <1>12, <1>13, <1>14 DEF HandledBy
<1> QED
  BY <1>15

\* An order leaves the book when, and only when, a log says that it is done.
LEMMA EffectEnds ==
    ASSUME NEW b, IsOrderBook(b), NEW x \in OrderIds, NEW r, AreLogs(r.logs)
    PROVE  /\ Passes(b, x, r) => /\ EntriesIn(r.book, x) = EntriesIn(b, x)
                                 /\ NoMention(r.logs, x) /\ NoDone(r.logs, x)
           /\ IsCancelled(b, x, r) \/ GivesUnits(b, x, r) =>
                 /\ EntriesIn(b, x) # {}
                 /\ EntriesIn(r.book, x) = {} <=> ~ NoDone(r.logs, x)
           /\ IsApplied(x, r) => (EntriesIn(r.book, x) = {} <=> ~ NoDone(r.logs, x))
<1>1. Passes(b, x, r) => /\ EntriesIn(r.book, x) = EntriesIn(b, x)
                         /\ NoMention(r.logs, x) /\ NoDone(r.logs, x)
  BY UnmentionedOrder DEF Passes, AreLogs
<1>2. IsCancelled(b, x, r) => /\ EntriesIn(b, x) # {}
                              /\ EntriesIn(r.book, x) = {} <=> ~ NoDone(r.logs, x)
  BY DEF IsCancelled
<1>3. GivesUnits(b, x, r) => /\ EntriesIn(b, x) # {}
                             /\ EntriesIn(r.book, x) = {} <=> ~ NoDone(r.logs, x)
  <2> SUFFICES ASSUME GivesUnits(b, x, r)
               PROVE  /\ EntriesIn(b, x) # {}
                      /\ EntriesIn(r.book, x) = {} <=> ~ NoDone(r.logs, x)
    OBVIOUS
  <2>1. PICK m \in EntriesIn(b, x) : \E u \in 0 .. m.size :
           /\ u = m.size => EntriesIn(r.book, x) = {} /\ ~ NoDone(r.logs, x)
           /\ u < m.size => EntriesIn(r.book, x) = {[m EXCEPT !.size = @ - u]} /\ NoDone(r.logs, x)
    BY DEF GivesUnits
  <2>2. PICK u \in 0 .. m.size :
           /\ u = m.size => EntriesIn(r.book, x) = {} /\ ~ NoDone(r.logs, x)
           /\ u < m.size => EntriesIn(r.book, x) # {} /\ NoDone(r.logs, x)
    BY <2>1
  <2>3. m.size \in Nat
    BY EntryFacts
  <2>4. u = m.size \/ u < m.size
    BY <2>3
  <2> QED
    BY <2>2, <2>4
<1>4. IsApplied(x, r) => (EntriesIn(r.book, x) = {} <=> ~ NoDone(r.logs, x))
  <2>1. IsApplied(x, r) => \/ EntriesIn(r.book, x) = {} /\ ~ NoDone(r.logs, x)
                           \/ EntriesIn(r.book, x) # {} /\ NoDone(r.logs, x)
    BY DEF IsApplied
  <2> QED
    BY <2>1
<1> QED
  BY <1>1, <1>2, <1>3, <1>4

\* The engine keeps the ledger.
LEMMA HandleMessageKeepsLedger ==
    ASSUME TypeInv, TypeInv', Ledger, IdsWithinWindow, HandleMessage
    PROVE  Ledger'
<1>1. PICK id \in OrderIds, c \in BOOLEAN : \E r : HandledBy(id, c, r)
  BY HandleMessageFacts
<1>2. PICK r : HandledBy(id, c, r)
  BY <1>1
<1>3. /\ topic # << >> /\ Head(topic).order.id = id /\ Head(topic).cancel = c
      /\ topic' = Tail(topic) /\ logs' = logs \o r.logs /\ AreLogs(r.logs)
      /\ engine'.book = r.book /\ engine'.seen = engine.seen \cup {id}
      /\ missed' = IF c /\ id \notin engine.seen THEN missed \cup {id} ELSE missed
      /\ rows' = rows /\ fills' = fills /\ checked' = checked /\ committed' = committed
  BY <1>2 DEF HandledBy
<1>4. \A x \in OrderIds : Slot(x) \in engine'.window <=> Slot(x) \in engine.window \/ x = id
  BY <1>2 DEF HandledBy
<1> DEFINE b == engine.book
<1>5. \A x \in OrderIds :
         IF Submits(id, c, x) THEN EntriesIn(b, x) = {} => IsApplied(x, r)
         ELSE \/ Passes(b, x, r)
              \/ x = id /\ c /\ IsCancelled(b, x, r)
              \/ GivesUnits(b, x, r)
  BY <1>2 DEF HandledBy
<1>6. IsOrderBook(b)
  BY DEF TypeInv, EngineOK
<1>7. \A x \in OrderIds : /\ NoMessage(x) <=> NoMessage(x)' /\ id # x
                          /\ NotSubmitted(x) <=> NotSubmitted(x)' /\ (id = x => c)
  BY <1>3, TopicShrinks
<1>8. AreLogs(logs)
  BY LogsAreLogs
<1>9. \A x \in OrderIds : /\ Units(logs', x) = Units(logs, x) + Units(r.logs, x)
                          /\ Worth(logs', x) = Worth(logs, x) + Worth(r.logs, x)
                          /\ NoDone(logs', x) <=> NoDone(logs, x) /\ NoDone(r.logs, x)
                          /\ NoMention(logs', x) <=> NoMention(logs, x) /\ NoMention(r.logs, x)
  BY <1>3, <1>8, MoreLogs
<1>10. \A x \in OrderIds :
          /\ Units(r.logs, x) \in Nat /\ Worth(r.logs, x) \in Nat
  BY <1>3, LogSums
<1>11. \A x \in OrderIds : /\ Filled(x)' = Filled(x) + Units(r.logs, x)
                           /\ Executed(x)' = Executed(x) + Worth(r.logs, x)
  <2> SUFFICES ASSUME NEW x \in OrderIds
               PROVE  /\ Filled(x)' = Filled(x) + Units(r.logs, x)
                      /\ Executed(x)' = Executed(x) + Worth(r.logs, x)
    OBVIOUS
  <2> DEFINE p == SumAlong(MovedIn("base"), fills[x])
             q == SumAlong(MovedIn("quote"), fills[x])
             u == Units(r.logs, x)
             w == Worth(r.logs, x)
             uu == Units(logs, x)
             ww == Worth(logs, x)
  <2>1. /\ Filled(x) = rows[x].filled + p + uu
        /\ Executed(x) = rows[x].executed + q + ww
        /\ Filled(x)' = rows[x].filled + p + (uu + u)
        /\ Executed(x)' = rows[x].executed + q + (ww + w)
    BY <1>3, <1>9 DEF Filled, Executed
  <2>2. /\ rows[x].filled \in Nat /\ rows[x].executed \in Nat /\ p \in Nat /\ q \in Nat
        /\ u \in Nat /\ w \in Nat /\ uu \in Nat /\ ww \in Nat
    BY <1>10, TradedNumbers
  <2> HIDE DEF p, q, u, w, uu, ww
  <2>3. Filled(x)' = Filled(x) + u /\ Executed(x)' = Executed(x) + w
    BY <2>1, <2>2
  <2> QED
    BY <2>3 DEF u, w
<1>12. \A x \in OrderIds : IsDone(x)' <=> IsDone(x) \/ ~ NoDone(r.logs, x)
  BY <1>3, <1>9 DEF IsDone
\* An order that the message submits for the first time.
<1>13. ASSUME NEW x \in OrderIds, Submits(id, c, x)
       PROVE  /\ EntriesIn(b, x) = {} /\ ~ IsDone(x) /\ x \notin missed
              /\ IsApplied(x, r)
              /\ Filled(x) = 0 /\ Executed(x) = 0
  <2>1. x = id /\ ~ c /\ x \notin engine.seen
    BY <1>13 DEF Submits
  <2>2. Untouched(x)
    BY <2>1 DEF Ledger, UnseenOK
  <2>3. EntriesIn(b, x) = {}
    BY <2>2 DEF Untouched
  <2>4. Units(logs, x) = 0 /\ Worth(logs, x) = 0 /\ NoDone(logs, x)
    BY <1>8, <2>2, UnmentionedOrder DEF Untouched, AreLogs
  <2>5. ~ IsDone(x)
    BY <2>2, <2>4 DEF Untouched, IsDone, HasDone
  <2>6. x \notin missed
    BY <1>7, <2>1 DEF Ledger, EndsOK
  <2>7. IsApplied(x, r)
    BY <1>5, <1>13, <2>3
  <2>8. SumAlong(MovedIn("base"), fills[x]) = 0 /\ SumAlong(MovedIn("quote"), fills[x]) = 0
    BY <2>2, SumAlongNothing DEF Untouched
  <2>9. rows[x].filled = 0 /\ rows[x].executed = 0
    BY <2>2 DEF Untouched
  <2>10. Filled(x) = 0 + 0 + 0 /\ Executed(x) = 0 + 0 + 0
    BY <2>4, <2>8, <2>9 DEF Filled, Executed
  <2> QED
    BY <2>3, <2>5, <2>6, <2>7, <2>10
\* Any other order.
<1>14. ASSUME NEW x \in OrderIds, ~ Submits(id, c, x)
       PROVE  \/ /\ EntriesIn(r.book, x) = EntriesIn(b, x)
                 /\ NoMention(r.logs, x) /\ NoDone(r.logs, x)
              \/ /\ EntriesIn(b, x) # {}
                 /\ EntriesIn(r.book, x) = {} <=> ~ NoDone(r.logs, x)
  BY <1>3, <1>5, <1>6, <1>14, EffectEnds
<1>15. \A x \in OrderIds \ engine.seen : Untouched(x) /\ EntriesIn(b, x) = {} /\ ~ IsDone(x)
  <2> SUFFICES ASSUME NEW x \in OrderIds \ engine.seen
               PROVE  Untouched(x) /\ EntriesIn(b, x) = {} /\ ~ IsDone(x)
    OBVIOUS
  <2>1. Untouched(x)
    BY DEF Ledger, UnseenOK
  <2>2. NoDone(logs, x)
    BY <1>8, <2>1, UnmentionedOrder DEF Untouched, AreLogs
  <2> QED
    BY <2>1, <2>2 DEF Untouched, IsDone, HasDone
<1>16. StagesOK'
  <2> SUFFICES ASSUME NEW x \in OrderIds
               PROVE  /\ rows[x].status = "none" =>
                            /\ x \notin committed /\ x \notin missed'
                            /\ x \notin engine'.seen /\ NoMessage(x)'
                      /\ x \in checked => rows[x].status = "none"
                      /\ x \in committed => /\ NotSubmitted(x)'
                                            /\ x \notin engine'.seen \/ x \in missed'
    BY <1>3 DEF StagesOK
  <2>1. /\ rows[x].status = "none" => /\ x \notin committed /\ x \notin missed
                                      /\ x \notin engine.seen /\ NoMessage(x)
        /\ x \in checked => rows[x].status = "none"
        /\ x \in committed => /\ NotSubmitted(x)
                              /\ x \notin engine.seen \/ x \in missed
    BY DEF Ledger, StagesOK
  <2> QED
    BY <1>3, <1>7, <2>1
<1>17. WindowOK'
  BY <1>3, <1>4 DEF Ledger, WindowOK
<1>18. UnseenOK'
  <2> SUFFICES ASSUME NEW x \in OrderIds \ engine.seen, x # id PROVE Untouched(x)'
    BY <1>3 DEF UnseenOK
  <2>1. Untouched(x) /\ EntriesIn(b, x) = {}
    BY <1>15
  <2>2. EntriesIn(r.book, x) = {} /\ NoMention(r.logs, x)
    BY <1>14, <2>1 DEF Submits
  <2> QED
    BY <1>3, <1>9, <2>1, <2>2 DEF Untouched
<1>19. AmountsOK'
  <2> SUFFICES ASSUME NEW x \in OrderIds
               PROVE  Amounts(r.book, x, Filled(x) + Units(r.logs, x), Executed(x) + Worth(r.logs, x))
    BY <1>3, <1>11 DEF AmountsOK
  <2>1. CASE Submits(id, c, x)
    <3>1. Amounts(r.book, x, Units(r.logs, x), Worth(r.logs, x))
      BY <1>13, <2>1, AppliedAmounts
    <3>2. /\ Filled(x) + Units(r.logs, x) = Units(r.logs, x)
          /\ Executed(x) + Worth(r.logs, x) = Worth(r.logs, x)
      BY <1>10, <1>13, <2>1
    <3> QED
      BY <3>1, <3>2
  <2>2. CASE ~ Submits(id, c, x)
    <3>1. Filled(x) \in Nat /\ Executed(x) \in Nat
      BY TradedNumbers
    <3>2. Amounts(b, x, Filled(x), Executed(x))
      BY DEF Ledger, AmountsOK
    <3>3. Passes(b, x, r) \/ IsCancelled(b, x, r) \/ GivesUnits(b, x, r)
      BY <1>5, <2>2
    <3>4. IsSequence(r.logs)
      BY <1>3 DEF AreLogs
    <3> HIDE DEF b
    <3> QED
      BY <1>6, <3>1, <3>2, <3>3, <3>4, TradesKeepAmounts
  <2> QED
    BY <2>1, <2>2
<1>20. EndsOK'
  <2> SUFFICES ASSUME NEW x \in OrderIds
               PROVE  /\ EntriesIn(r.book, x) # {} => ~ IsDone(x)' /\ x \notin missed'
                      /\ x \in engine'.seen /\ EntriesIn(r.book, x) = {} =>
                            IsDone(x)' \/ x \in missed'
                      /\ x \in missed' => /\ ~ IsDone(x)' /\ EntriesIn(r.book, x) = {}
                                          /\ x \in engine'.seen
                                             \/ (x \notin committed /\ NotSubmitted(x)')
                      /\ rows[x].status # "none" /\ x \notin engine'.seen =>
                            x \in committed \/ x \in missed' \/ ~ NotSubmitted(x)'
    BY <1>3 DEF EndsOK
  <2>1. /\ EntriesIn(b, x) # {} => ~ IsDone(x) /\ x \notin missed
        /\ x \in engine.seen /\ EntriesIn(b, x) = {} => IsDone(x) \/ x \in missed
        /\ x \in missed => /\ ~ IsDone(x) /\ EntriesIn(b, x) = {}
                           /\ x \in engine.seen \/ (x \notin committed /\ NotSubmitted(x))
        /\ rows[x].status # "none" /\ x \notin engine.seen =>
              x \in committed \/ x \in missed \/ ~ NotSubmitted(x)
    BY DEF Ledger, EndsOK
  <2>2. IsDone(x)' <=> IsDone(x) \/ ~ NoDone(r.logs, x)
    BY <1>12
  <2>3. x \in missed' <=> x \in missed \/ (x = id /\ c /\ x \notin engine.seen)
    BY <1>3
  <2>4. x \in engine'.seen <=> x \in engine.seen \/ x = id
    BY <1>3
  <2>5. NotSubmitted(x) <=> NotSubmitted(x)' /\ (id = x => c)
    BY <1>7
  <2>6. x \notin engine.seen => EntriesIn(b, x) = {} /\ ~ IsDone(x)
    BY <1>15
  <2>7. CASE Submits(id, c, x)
    <3>1. EntriesIn(r.book, x) = {} <=> ~ NoDone(r.logs, x)
      BY <1>3, <1>6, <1>13, <2>7, EffectEnds
    <3>2. /\ EntriesIn(b, x) = {} /\ ~ IsDone(x) /\ x \notin missed
          /\ x = id /\ ~ c /\ x \notin engine.seen
      BY <1>13, <2>7 DEF Submits
    <3> HIDE DEF b
    <3> QED
      BY <2>1, <2>2, <2>3, <2>4, <2>5, <3>1, <3>2
  <2>8. CASE ~ Submits(id, c, x)
    <3>1. \/ /\ EntriesIn(r.book, x) = EntriesIn(b, x) /\ NoDone(r.logs, x)
          \/ /\ EntriesIn(b, x) # {}
             /\ EntriesIn(r.book, x) = {} <=> ~ NoDone(r.logs, x)
      BY <1>14, <2>8
    <3>2. x # id \/ c \/ x \in engine.seen
      BY <2>8 DEF Submits
    <3> HIDE DEF b
    <3> QED
      BY <2>1, <2>2, <2>3, <2>4, <2>5, <2>6, <3>1, <3>2
  <2> QED
    BY <2>7, <2>8
<1> QED
  BY <1>16, <1>17, <1>18, <1>19, <1>20 DEF Ledger

\* The ledger holds before the first request.
LEMMA InitLedger == Init => Ledger
<1> SUFFICES ASSUME Init PROVE Ledger
  OBVIOUS
<1>1. /\ checked = {} /\ committed = {} /\ topic = << >> /\ logs = << >> /\ missed = {}
      /\ engine.book = EmptyBook /\ engine.window = {} /\ engine.seen = {}
  BY DEF Init
<1>2. \A x \in OrderIds : /\ rows[x].status = "none" /\ rows[x].filled = 0
                          /\ rows[x].executed = 0 /\ fills[x] = << >>
  BY DEF Init, NoRow
<1>3. IsSequence(<< >>) /\ Range(<< >>) = {} /\ Len(<< >>) = 0
  BY EmptySequence
<1>4. \A x \in OrderIds : /\ NoMention(logs, x) /\ NoDone(logs, x)
                          /\ Units(logs, x) = 0 /\ Worth(logs, x) = 0
  <2>1. \A x \in OrderIds : NoMention(logs, x)
    BY <1>1, <1>3, InLogs
  <2> QED
    BY <1>1, <1>3, <2>1, UnmentionedOrder
<1>5. \A x \in OrderIds : EntriesIn(engine.book, x) = {}
  <2>1. \A x \in OrderIds : Side(x) \in Sides
    BY PlacedOrder
  <2>2. \A side \in Sides : EmptyBook.depths[side] = {}
    BY DEF EmptyBook
  <2> QED
    BY <1>1, <2>1, <2>2 DEF EntriesIn, EntriesOf
<1>6. \A x \in OrderIds : NoMessage(x) /\ ~ IsDone(x)
  BY <1>1, <1>2, <1>4 DEF NoMessage, IsDone, Final, HasDone
<1>7. StagesOK
  BY <1>1, <1>2, <1>6 DEF StagesOK
<1>8. WindowOK
  BY <1>1 DEF WindowOK
<1>9. UnseenOK
  BY <1>2, <1>4, <1>5 DEF UnseenOK, Untouched, Final
<1>10. AmountsOK
  <2> SUFFICES ASSUME NEW x \in OrderIds PROVE Amounts(engine.book, x, Filled(x), Executed(x))
    BY DEF AmountsOK
  <2>1. SumAlong(MovedIn("base"), fills[x]) = 0 /\ SumAlong(MovedIn("quote"), fills[x]) = 0
    BY <1>2, SumAlongNothing
  <2>2. Filled(x) = 0 + 0 + 0 /\ Executed(x) = 0 + 0 + 0
    BY <1>2, <1>4, <2>1 DEF Filled, Executed
  <2>3. HoldSize(x) \in Nat
    BY PlacedOrder
  <2> QED
    BY <1>5, <2>2, <2>3 DEF Amounts
<1>11. EndsOK
  BY <1>1, <1>2, <1>5, <1>6 DEF EndsOK
<1> QED
  BY <1>7, <1>8, <1>9, <1>10, <1>11 DEF Ledger

\* Every step keeps the ledger.
LEMMA StepKeepsLedger ==
    ASSUME IdsWithinWindow, TypeInv, TypeInv', Ledger, [Next]_vars
    PROVE  Ledger'
<1>1. ASSUME UNCHANGED <<rows, fills, requestVars, topic, engineVars, logs>>
      PROVE  Ledger'
  <2>1. TradesStay
    BY <1>1 DEF TradesStay, Filled, Executed, IsDone
  <2>2. engine' = engine
    BY <1>1 DEF engineVars
  <2>3. \A x \in OrderIds \ engine.seen : Untouched(x)'
    BY <1>1, <2>2 DEF Ledger, UnseenOK, Untouched
  <2>4. UNCHANGED <<engineVars, requestVars, topic>>
    BY <1>1 DEF engineVars, requestVars
  <2>5. \A x \in OrderIds : rows'[x].status = "none" <=> rows[x].status = "none"
    BY <1>1
  <2> QED
    BY <2>1, <2>3, <2>4, <2>5, SettlingKeepsLedger
<1>2. ASSUME NEW id \in OrderIds, CheckBalance(id)
      PROVE  Ledger'
  BY <1>2, CheckBalanceKeepsLedger
<1>3. ASSUME NEW id \in OrderIds, HoldBalance(id)
      PROVE  Ledger'
  BY <1>3, HoldBalanceKeepsLedger
<1>4. ASSUME NEW id \in OrderIds, NEW copies \in 0 .. 2, SubmitOrder(id, copies)
      PROVE  Ledger'
  BY <1>4, SubmitOrderKeepsLedger
<1>5. ASSUME NEW id \in OrderIds, RequestCancel(id)
      PROVE  Ledger'
  BY <1>5, RequestCancelKeepsLedger
<1>6. ASSUME NEW done \in BOOLEAN, MakeFills(done)
      PROVE  Ledger'
  BY <1>6, MakeFillsKeepsLedger
<1>7. ASSUME NEW done \in BOOLEAN, UpdateOrderStatus(done)
      PROVE  Ledger'
  BY <1>7, UpdateOrderStatusKeepsLedger
<1>8. ASSUME NEW done \in BOOLEAN, NEW id \in OrderIds, ExecuteFill(id, done)
      PROVE  Ledger'
  BY <1>8, ExecuteFillKeepsLedger
<1>9. CASE HandleMessage
  BY <1>9, HandleMessageKeepsLedger
<1>10. ASSUME NEW a \in Accounts, ExecuteBill(a)
       PROVE  Ledger'
  BY <1>1, <1>10 DEF ExecuteBill
<1>11. CASE InspectFills \/ InspectBills \/ UNCHANGED vars
  BY <1>1, <1>11 DEF InspectFills, InspectBills, vars
<1> QED
  BY <1>2, <1>3, <1>4, <1>5, <1>6, <1>7, <1>8, <1>9, <1>10, <1>11
     DEF Next, Requesting, Settling, Over

\* If the window can tell all orders apart, the ledger lasts.
LEMMA LedgerLasts == ASSUME IdsWithinWindow PROVE Spec => []Ledger
<1>1. Init => Ledger
  BY InitLedger
<1>2. TypeInv /\ TypeInv' /\ Ledger /\ [Next]_vars => Ledger'
  BY StepKeepsLedger
<1> QED
  BY <1>1, <1>2, ExchangeTypeCorrect, PTL DEF Spec

-----------------------------------------------------------------------------
(* Holds. *)

\* HeldFor and what an account has on hold, of the values they depend on.
HeldOf(id, row, a) ==
    IF row.status \notin Final \cup {"none"} /\ HoldAccount(id) = a THEN Rest(id, row) ELSE 0
HoldOf(account, s) == account.hold + SumAlong(HoldIn, s)

HoldsAt(a) == HoldOf(accounts[a], bills[a]) = SumFunction([x \in OrderIds |-> HeldOf(x, rows[x], a)])

\* HoldsCovered, account by account.
LEMMA HoldsAre == TypeInv => (HoldsCovered <=> \A a \in Accounts : HoldsAt(a))
<1> SUFFICES ASSUME TypeInv, NEW a \in Accounts
             PROVE  (accounts[a].hold + SumFunction([i \in DOMAIN bills[a] |-> bills[a][i].hold]) =
                        SumFunction([id \in OrderIds |-> HeldFor(id, a)])) <=> HoldsAt(a)
  BY DEF HoldsCovered
<1>1. bills[a] \in Seq(BillRecords)
  BY DEF TypeInv, BillsOK
<1>2. SumFunction([i \in DOMAIN bills[a] |-> bills[a][i].hold]) = SumAlong(HoldIn, bills[a])
  BY <1>1, BillNumbers
<1>3. \A id \in OrderIds : HeldFor(id, a) = HeldOf(id, rows[id], a)
  BY DEF HeldFor, HeldOf, Live
<1>4. [id \in OrderIds |-> HeldFor(id, a)] = [x \in OrderIds |-> HeldOf(x, rows[x], a)]
  BY <1>3
<1> QED
  BY <1>2, <1>4 DEF HoldsAt, HoldOf

\* What is held for an order is a number.
LEMMA HeldNumbers ==
    ASSUME NEW x \in OrderIds, NEW row \in Rows, NEW a
    PROVE  HeldOf(x, row, a) \in Int /\ Rest(x, row) \in Int
<1>1. row.filled \in Int /\ row.executed \in Int /\ HoldSize(x) \in Int
  BY PlacedOrder DEF Rows
<1>2. Rest(x, row) \in Int
  BY <1>1 DEF Rest
<1> QED
  BY <1>2 DEF HeldOf

\* The hold of an account is a number, and more bills add what they hold.
LEMMA HoldNumbers ==
    ASSUME NEW account \in [available : Int, hold : Int], NEW s \in Seq(BillRecords),
           NEW t \in Seq(BillRecords)
    PROVE  /\ HoldOf(account, s) \in Int /\ SumAlong(HoldIn, t) \in Int
           /\ HoldOf(account, s \o t) = HoldOf(account, s) + SumAlong(HoldIn, t)
<1>1. IsSequence(s) /\ Numbers(HoldIn, s) /\ SumAlong(HoldIn, s) \in Int
  BY BillNumbers
<1>2. IsSequence(t) /\ Numbers(HoldIn, t) /\ SumAlong(HoldIn, t) \in Int
  BY BillNumbers
<1>3. SumAlong(HoldIn, s \o t) = SumAlong(HoldIn, s) + SumAlong(HoldIn, t)
  BY <1>1, <1>2, SumAlongConcat
<1>4. account.hold \in Int
  OBVIOUS
<1> QED
  BY <1>1, <1>2, <1>3, <1>4 DEF HoldOf

\* The account and the row of one order change by the same.
LEMMA OneHoldChanges ==
    ASSUME TypeInv, TypeInv', NEW a \in Accounts, HoldsAt(a), NEW id \in OrderIds, NEW d \in Int,
           HoldOf(accounts'[a], bills'[a]) = HoldOf(accounts[a], bills[a]) + d,
           HeldOf(id, rows'[id], a) = HeldOf(id, rows[id], a) + d,
           \A x \in OrderIds \ {id} : rows'[x] = rows[x]
    PROVE  HoldsAt(a)'
<1> DEFINE F == [x \in OrderIds |-> HeldOf(x, rows[x], a)]
           G == [x \in OrderIds |-> HeldOf(x, rows'[x], a)]
<1>1. \A x \in OrderIds : rows[x] \in Rows /\ rows'[x] \in Rows
  BY DEF TypeInv, RowsOK
<1>2. \A x \in OrderIds : F[x] \in Int /\ G[x] \in Int
  BY <1>1, HeldNumbers
<1>3. /\ Summable(F, OrderIds) /\ G[id] \in Int /\ F[id] \in Int
      /\ G[id] = F[id] + d /\ \A x \in OrderIds \ {id} : G[x] = F[x]
  BY <1>2, FiniteConstants DEF Summable
<1>4. SumFunction(F) = SumFunctionOnSet(F, OrderIds) /\ SumFunction(G) = SumFunctionOnSet(G, OrderIds)
  BY DEF SumFunction
<1>5. HoldOf(accounts[a], bills[a]) = SumFunction(F)
  BY DEF HoldsAt
<1>6. HoldsAt(a)' <=> HoldOf(accounts'[a], bills'[a]) = SumFunction(G)
  BY DEF HoldsAt
<1> HIDE DEF F, G
<1>7. SumFunctionOnSet(G, OrderIds) = SumFunctionOnSet(F, OrderIds) + (G[id] - F[id])
  BY <1>3, SumChanges
<1>8. SumFunctionOnSet(F, OrderIds) \in Int
  BY <1>3, SumIsNumber
<1>9. SumFunctionOnSet(G, OrderIds) = SumFunctionOnSet(F, OrderIds) + d
  BY <1>3, <1>7, <1>8
<1> QED
  BY <1>4, <1>5, <1>6, <1>9

\* Where no hold and no rest changes, the hold stays covered.
LEMMA SameHolds ==
    ASSUME NEW a \in Accounts, HoldsAt(a),
           HoldOf(accounts'[a], bills'[a]) = HoldOf(accounts[a], bills[a]),
           \A x \in OrderIds : HeldOf(x, rows'[x], a) = HeldOf(x, rows[x], a)
    PROVE  HoldsAt(a)'
<1>1. [x \in OrderIds |-> HeldOf(x, rows'[x], a)] = [x \in OrderIds |-> HeldOf(x, rows[x], a)]
  OBVIOUS
<1> QED
  BY <1>1 DEF HoldsAt

\* What an order takes out of the available balance, it adds to the hold.
LEMMA HoldBalanceKeepsHolds ==
    ASSUME TypeInv, TypeInv', Ledger, NEW id \in OrderIds, HoldBalance(id),
           NEW a \in Accounts, HoldsAt(a)
    PROVE  HoldsAt(a)'
<1> DEFINE h == HoldSize(id)
           b == HoldAccount(id)
<1>1. /\ rows[id].status = "none" /\ rows'[id].status = "new"
      /\ rows'[id].filled = 0 /\ rows'[id].executed = 0
      /\ \A x \in OrderIds \ {id} : rows'[x] = rows[x]
  BY HoldBalanceKeepsLedger
<1>2. b \in Accounts /\ h \in Nat
  BY PlacedOrder
<1>3. Rest(id, rows'[id]) = h
  BY <1>1, <1>2 DEF Rest
<1>4. /\ bills' = bills
      /\ accounts' = [accounts EXCEPT ![b] = [available |-> @.available - h, hold |-> @.hold + h]]
  BY DEF HoldBalance
<1> HIDE DEF h, b
<1>5. /\ accounts \in [Accounts -> [available : Int, hold : Int]]
      /\ bills[a] \in Seq(BillRecords)
  BY DEF TypeInv, AccountsOK, BillsOK
<1>6. accounts'[a].hold = IF a = b THEN accounts[a].hold + h ELSE accounts[a].hold
  BY <1>2, <1>4, <1>5
<1> DEFINE d == IF a = b THEN h ELSE 0
<1>7. d \in Int
  BY <1>2
<1>8. HoldOf(accounts'[a], bills'[a]) = HoldOf(accounts[a], bills[a]) + d
  <2>1. SumAlong(HoldIn, bills[a]) \in Int /\ accounts[a].hold \in Int
    BY <1>5, BillNumbers
  <2> QED
    BY <1>2, <1>4, <1>6, <2>1 DEF HoldOf
<1>9. HeldOf(id, rows'[id], a) = HeldOf(id, rows[id], a) + d
  <2>1. HeldOf(id, rows[id], a) = 0
    BY <1>1 DEF HeldOf
  <2>2. HeldOf(id, rows'[id], a) = d
    BY <1>1, <1>3 DEF HeldOf, Final, b
  <2> QED
    BY <1>7, <2>1, <2>2
<1> HIDE DEF d
<1> QED
  BY <1>1, <1>7, <1>8, <1>9, OneHoldChanges

\* What a bill has to say is said once.
LEMMA ExecuteBillKeepsHolds ==
    ASSUME TypeInv, TypeInv', NEW b \in Accounts, ExecuteBill(b), NEW a \in Accounts, HoldsAt(a)
    PROVE  HoldsAt(a)'
<1> DEFINE s == UnsettledBills(b)
           t == SubSeq(bills[b], Len(s) + 1, Len(bills[b]))
<1>1. /\ accounts' = [accounts EXCEPT ![b] = AfterBills(accounts[b], s)]
      /\ bills' = [bills EXCEPT ![b] = t] /\ rows' = rows
  BY DEF ExecuteBill, TypeInv, AccountsOK, BillsOK
<1>2. bills[b] \in Seq(BillRecords) /\ accounts[b] \in [available : Int, hold : Int]
  BY DEF TypeInv, AccountsOK, BillsOK
<1>3. /\ Len(s) \in 0 .. Len(bills[b]) /\ s = SubSeq(bills[b], 1, Len(s))
      /\ s \in Seq(BillRecords) /\ t \in Seq(BillRecords)
  BY <1>2, BatchFacts DEF UnsettledBills
<1>4. HoldOf(accounts'[a], bills'[a]) = HoldOf(accounts[a], bills[a])
  <2>1. CASE a # b
    <3>1. accounts'[a] = accounts[a] /\ bills'[a] = bills[a]
      BY <1>1, <2>1 DEF TypeInv, AccountsOK, BillsOK
    <3> QED
      BY <3>1
  <2>2. CASE a = b
    <3>1. /\ accounts'[b] = AfterBills(accounts[b], s) /\ bills'[b] = t
      BY <1>1 DEF TypeInv, AccountsOK, BillsOK
    <3>2. AfterBills(accounts[b], s).hold = accounts[b].hold + SumAlong(HoldIn, s)
      BY <1>3, BillNumbers DEF AfterBills
    <3>3. SumAlong(HoldIn, bills[b]) = SumAlong(HoldIn, s) + SumAlong(HoldIn, t)
      <4>1. IsSequence(bills[b]) /\ Numbers(HoldIn, bills[b])
        BY <1>2, BillNumbers
      <4>2. SumAlong(HoldIn, bills[b]) =
               SumAlong(HoldIn, SubSeq(bills[b], 1, Len(s))) + SumAlong(HoldIn, t)
        BY <1>3, <4>1, SumAlongParts
      <4> QED
        BY <1>3, <4>2
    <3>4. SumAlong(HoldIn, s) \in Int /\ SumAlong(HoldIn, t) \in Int /\ accounts[b].hold \in Int
      BY <1>2, <1>3, BillNumbers
    <3> HIDE DEF s, t
    <3> QED
      BY <2>2, <3>1, <3>2, <3>3, <3>4 DEF HoldOf
  <2> QED
    BY <2>1, <2>2
<1> QED
  BY <1>1, <1>4, SameHolds

\* What a turn takes from what rests of the order, its bills take from the hold.
LEMMA ExecuteFillKeepsHolds ==
    ASSUME TypeInv, TypeInv', Ledger, Ledger', NEW id \in OrderIds, NEW announced,
           ExecuteFill(id, announced), NEW a \in Accounts, HoldsAt(a)
    PROVE  HoldsAt(a)'
<1>1. accounts' = accounts /\ (~ Settles(id) => rows' = rows /\ bills' = bills)
  BY TurnFacts
<1>2. CASE ~ Settles(id)
  BY <1>1, <1>2, SameHolds
<1>3. CASE Settles(id)
  <2>0. PICK row, gain, spend : /\ row = Ended(id).row /\ gain = Ended(id).gain
                                /\ spend = Ended(id).spend
    OBVIOUS
  <2>1. /\ FillsSettled(id, rows[id], UnsettledFills(id), Len(UnsettledFills(id)), Ended(id))
        /\ rows' = [rows EXCEPT ![id] = row]
        /\ bills' = [x \in Accounts |->
                       IF x = GainAccount(id) THEN bills[x] \o gain
                       ELSE IF x = HoldAccount(id) THEN bills[x] \o spend
                       ELSE bills[x]]
    BY <1>3, <2>0, TurnFacts
  <2>2. /\ gain \in Seq(BillRecords) /\ spend \in Seq(BillRecords)
        /\ SumAlong(HoldIn, gain) = 0 /\ row \in Rows
        /\ row.status \notin Final => row.status = rows[id].status
    BY <2>0, <2>1 DEF FillsSettled
  <2>3. rows'[id] = row /\ \A x \in OrderIds \ {id} : rows'[x] = rows[x]
    BY <2>1 DEF TypeInv, RowsOK
  <2>4. /\ HoldAccount(id) \in Accounts /\ GainAccount(id) \in Accounts
        /\ HoldAccount(id) # GainAccount(id) /\ HoldSize(id) \in Nat
    BY PlacedOrder
  <2>5. /\ accounts[a] \in [available : Int, hold : Int] /\ bills[a] \in Seq(BillRecords)
        /\ rows[id] \in Rows
    BY DEF TypeInv, AccountsOK, BillsOK, RowsOK
  <2>6. CASE a = HoldAccount(id)
    <3> DEFINE rest == Rest(id, rows[id])
               left == Rest(id, row)
               released == IF row.status \in Final THEN PositivePart(left) ELSE 0
    <3>1. PICK m \in Nat : /\ SumAlong(HoldIn, spend) = 0 - m - released
                           /\ left = rest - m
      <4>1. CASE Side(id) = "buy"
        <5>1. SpendCurrency(id) = "quote" /\ "quote" \in Currencies
          BY <4>1 DEF SpendCurrency, Currencies
        <5>2. PICK m \in Nat : /\ row.executed = rows[id].executed + m
                               /\ SumAlong(HoldIn, spend) = 0 - m - released
          BY <1>3, <2>0, <5>1, TurnMoves
        <5>3. left = rest - m
          <6>1. rows[id].executed \in Nat
            BY <2>5 DEF Rows
          <6> QED
            BY <2>4, <4>1, <5>2, <6>1 DEF Rest
        <5> QED
          BY <5>2, <5>3
      <4>2. CASE Side(id) # "buy"
        <5>1. SpendCurrency(id) = "base" /\ "base" \in Currencies
          BY <4>2 DEF SpendCurrency, Currencies
        <5>2. PICK m \in Nat : /\ row.filled = rows[id].filled + m
                               /\ SumAlong(HoldIn, spend) = 0 - m - released
          BY <1>3, <2>0, <5>1, TurnMoves
        <5>3. left = rest - m
          <6>1. rows[id].filled \in Nat
            BY <2>5 DEF Rows
          <6> QED
            BY <2>4, <4>2, <5>2, <6>1 DEF Rest
        <5> QED
          BY <5>2, <5>3
      <4> QED
        BY <4>1, <4>2
    <3>2. rest \in Int /\ left \in Int
      BY <2>2, <2>5, HeldNumbers
    <3>3. left >= 0
      <4>1. Amounts(engine'.book, id, Filled(id)', Executed(id)')
        BY DEF Ledger, AmountsOK
      <4>2. /\ Filled(id)' = row.filled + SumAlong(MovedIn("base"), fills'[id]) + Units(logs', id)
            /\ Executed(id)' = row.executed + SumAlong(MovedIn("quote"), fills'[id])
                               + Worth(logs', id)
        BY <2>3 DEF Filled, Executed
      <4>3. /\ SumAlong(MovedIn("base"), fills'[id]) \in Nat
            /\ SumAlong(MovedIn("quote"), fills'[id]) \in Nat
        <5>1. fills'[id] \in Seq(FillRecords)
          BY DEF TypeInv, FillsOK
        <5> QED
          BY <5>1, FillNumbers
      <4>4. Units(logs', id) \in Nat /\ Worth(logs', id) \in Nat
        <5>1. AreLogs(logs')
          BY DEF TypeInv, LogsOK, AreLogs, IsExchangeLog
        <5> QED
          BY <5>1, LogSums
      <4>5. row.filled \in Nat /\ row.executed \in Nat
        BY <2>2 DEF Rows
      <4>6. row.filled <= Filled(id)' /\ row.executed <= Executed(id)'
            /\ Filled(id)' \in Nat /\ Executed(id)' \in Nat
        BY <4>2, <4>3, <4>4, <4>5
      <4>7. (IF Side(id) = "buy" THEN Executed(id)' ELSE Filled(id)') <= HoldSize(id)
        BY <4>1 DEF Amounts
      <4> QED
        BY <2>4, <4>5, <4>6, <4>7 DEF Rest
    <3>4. released = IF row.status \in Final THEN left ELSE 0
      BY <3>2, <3>3 DEF PositivePart
    <3>5. rows[id].status \notin Final \cup {"none"}
      <4>1. rows[id].status \notin Final
        BY <1>3 DEF Settles, Skipped
      <4>2. id \in engine.seen
        BY <1>3 DEF Ledger, UnseenOK, Untouched, Settles
      <4> QED
        BY <4>1, <4>2 DEF Ledger, StagesOK
    <3>6. HeldOf(id, rows[id], a) = rest
      BY <2>6, <3>5 DEF HeldOf
    <3>7. HeldOf(id, rows'[id], a) = IF row.status \in Final THEN 0 ELSE left
      BY <2>2, <2>3, <2>6, <3>5 DEF HeldOf
    <3> DEFINE d == SumAlong(HoldIn, spend)
    <3>8. /\ d \in Int
          /\ HoldOf(accounts[a], bills[a] \o spend) = HoldOf(accounts[a], bills[a]) + d
      BY <2>2, <2>5, HoldNumbers
    <3>9. bills'[a] = bills[a] \o spend
      BY <2>1, <2>4, <2>6
    <3>10. HoldOf(accounts'[a], bills'[a]) = HoldOf(accounts[a], bills[a]) + d
      BY <1>1, <3>8, <3>9
    <3> HIDE DEF d, rest, left, released
    <3>11. d = 0 - m - (IF row.status \in Final THEN left ELSE 0) /\ left = rest - m
      BY <3>1, <3>4 DEF d
    <3>12. HeldOf(id, rows'[id], a) = HeldOf(id, rows[id], a) + d
      <4>1. CASE row.status \in Final
        <5>1. d = 0 - m - left /\ HeldOf(id, rows'[id], a) = 0
          BY <3>7, <3>11, <4>1
        <5> QED
          BY <3>2, <3>6, <3>11, <5>1
      <4>2. CASE row.status \notin Final
        <5>1. d = 0 - m - 0 /\ HeldOf(id, rows'[id], a) = left
          BY <3>7, <3>11, <4>2
        <5> QED
          BY <3>2, <3>6, <3>11, <5>1
      <4> QED
        BY <4>1, <4>2
    <3> QED
      BY <2>3, <3>8, <3>10, <3>12, OneHoldChanges
  <2>7. CASE a # HoldAccount(id)
    <3>1. \A x \in OrderIds : HeldOf(x, rows'[x], a) = HeldOf(x, rows[x], a)
      <4>1. HeldOf(id, rows'[id], a) = 0 /\ HeldOf(id, rows[id], a) = 0
        BY <2>7 DEF HeldOf
      <4> QED
        BY <2>3, <4>1
    <3>2. HoldOf(accounts'[a], bills'[a]) = HoldOf(accounts[a], bills[a])
      <4>1. CASE a = GainAccount(id)
        <5>1. bills'[a] = bills[a] \o gain
          BY <2>1, <4>1
        <5>2. /\ HoldOf(accounts[a], bills[a]) \in Int
              /\ HoldOf(accounts[a], bills[a] \o gain) =
                    HoldOf(accounts[a], bills[a]) + SumAlong(HoldIn, gain)
          BY <2>2, <2>5, HoldNumbers
        <5>3. HoldOf(accounts[a], bills[a] \o gain) = HoldOf(accounts[a], bills[a]) + 0
          BY <2>2, <5>2
        <5>4. HoldOf(accounts[a], bills[a] \o gain) = HoldOf(accounts[a], bills[a])
          BY <5>2, <5>3
        <5> QED
          BY <1>1, <5>1, <5>4
      <4>2. CASE a # GainAccount(id)
        <5>1. bills'[a] = bills[a]
          BY <2>1, <2>7, <4>2
        <5> QED
          BY <1>1, <5>1
      <4> QED
        BY <4>1, <4>2
    <3> QED
      BY <3>1, <3>2, SameHolds
  <2> QED
    BY <2>6, <2>7
<1> QED
  BY <1>2, <1>3

\* Nothing is held before the first request.
LEMMA InitHolds == Init => HoldsCovered
<1> SUFFICES ASSUME Init, NEW a \in Accounts PROVE HoldsAt(a)
  BY InitTypeInv, HoldsAre
<1>1. accounts[a].hold = 0 /\ bills[a] = << >> /\ \A x \in OrderIds : rows[x].status = "none"
  BY DEF Init, NoRow
<1>2. HoldOf(accounts[a], bills[a]) = 0
  <2>1. SumAlong(HoldIn, << >>) = 0
    BY SumAlongNothing
  <2> QED
    BY <1>1, <2>1 DEF HoldOf
<1> DEFINE F == [x \in OrderIds |-> HeldOf(x, rows[x], a)]
<1>3. \A x \in OrderIds : F[x] = 0
  BY <1>1 DEF HeldOf
<1>4. SumFunction(F) = SumFunctionOnSet(F, OrderIds)
  BY DEF SumFunction
<1>5. HoldsAt(a) <=> HoldOf(accounts[a], bills[a]) = SumFunction(F)
  BY DEF HoldsAt
<1> HIDE DEF F
<1>6. SumFunctionOnSet(F, OrderIds) = 0
  BY <1>3, FiniteConstants, SumOfZeros
<1> QED
  BY <1>2, <1>4, <1>5, <1>6

\* Every step keeps the holds covered.
LEMMA StepKeepsHolds ==
    ASSUME TypeInv, TypeInv', Ledger, Ledger', HoldsCovered, [Next]_vars
    PROVE  HoldsCovered'
<1> SUFFICES ASSUME NEW a \in Accounts PROVE HoldsAt(a)'
  <2>1. HoldsCovered' <=> (\A a \in Accounts : HoldsAt(a))'
    BY HoldsAre, PTL
  <2> QED
    BY <2>1
<1>1. HoldsAt(a)
  BY HoldsAre
<1>2. ASSUME UNCHANGED <<accounts, bills, rows>>
      PROVE  HoldsAt(a)'
  BY <1>1, <1>2, SameHolds
<1>3. ASSUME NEW id \in OrderIds, HoldBalance(id)
      PROVE  HoldsAt(a)'
  BY <1>1, <1>3, HoldBalanceKeepsHolds
<1>4. CASE Requesting
  BY <1>2, <1>3, <1>4 DEF Requesting, CheckBalance, SubmitOrder, RequestCancel
<1>5. ASSUME NEW b \in Accounts, ExecuteBill(b)
      PROVE  HoldsAt(a)'
  BY <1>1, <1>5, ExecuteBillKeepsHolds
<1>6. ASSUME NEW done \in BOOLEAN, MakeFills(done)
      PROVE  HoldsAt(a)'
  BY <1>2, <1>6 DEF MakeFills
<1>7. ASSUME NEW done \in BOOLEAN, UpdateOrderStatus(done)
      PROVE  HoldsAt(a)'
  <2>1. \A x \in OrderIds : /\ rows'[x].filled = rows[x].filled
                            /\ rows'[x].executed = rows[x].executed
                            /\ \/ rows'[x].status = rows[x].status
                               \/ rows[x].status = "new" /\ rows'[x].status = "open"
    BY <1>7, UpdateOrderStatusKeepsTrades
  <2>2. \A x \in OrderIds : HeldOf(x, rows'[x], a) = HeldOf(x, rows[x], a)
    BY <2>1 DEF HeldOf, Rest, Final
  <2>3. accounts' = accounts /\ bills' = bills
    BY <1>7 DEF UpdateOrderStatus
  <2> QED
    BY <1>1, <2>2, <2>3, SameHolds
<1>8. ASSUME NEW done \in BOOLEAN, NEW id \in OrderIds, ExecuteFill(id, done)
      PROVE  HoldsAt(a)'
  BY <1>1, <1>8, ExecuteFillKeepsHolds
<1>9. CASE HandleMessage \/ InspectFills \/ InspectBills \/ UNCHANGED vars
  BY <1>2, <1>9 DEF HandleMessage, InspectFills, InspectBills, vars
<1> QED
  BY <1>4, <1>5, <1>6, <1>7, <1>8, <1>9 DEF Next, Settling, Over

\* If the window can tell all orders apart, what an account has on hold, with
\* the bills to come, is always what the rows of its live orders say is left
\* of them: HoldBalance, the loop of ExecuteFill, that gives the rest of a
\* done order back, and ExecuteBill agree.
THEOREM ExchangeCoversHolds == ASSUME IdsWithinWindow PROVE Spec => []HoldsCovered
<1>1. Init => HoldsCovered
  BY InitHolds
<1>2. TypeInv /\ TypeInv' /\ Ledger /\ Ledger' /\ HoldsCovered /\ [Next]_vars => HoldsCovered'
  BY StepKeepsHolds
<1>3. Spec => []Ledger
  BY LedgerLasts
<1> QED
  BY <1>1, <1>2, <1>3, ExchangeTypeCorrect, PTL DEF Spec

\* If the window can tell all orders apart, the row of an order nothing is
\* under way for is live when, and only when, the order rests on the engine's
\* book, with what the row says is left, or was missed by the engine.
THEOREM ExchangeRowsTellBook == ASSUME IdsWithinWindow PROVE Spec => []RowsTellBook
<1>1. TypeInv /\ Ledger => RowsTellBook
  <2> SUFFICES ASSUME TypeInv, Ledger, NEW x \in OrderIds, rows[x].status # "none", Quiet(x)
               PROVE  LET rest == Entry(engine.book, Order(x))
                      IN  /\ Live(x) <=> (rest # {} \/ x \in missed)
                          /\ \A m \in rest : m.size = Order(x).size - rows[x].filled
    BY DEF RowsTellBook
  <2>1. Entry(engine.book, Order(x)) = EntriesIn(engine.book, x)
    <3>1. Order(x).side = Side(x) /\ Order(x).id = x
      BY PlacedOrder
    <3> QED
      BY <3>1 DEF Entry, EntriesIn, EntriesOf
  <2>2. x \notin committed /\ NoMessage(x) /\ NoMention(logs, x) /\ fills[x] = << >>
    BY DEF Quiet, NoMessage, NoMention, Mentions
  <2>3. NotSubmitted(x)
    BY <2>2 DEF NoMessage, NotSubmitted
  <2>4. Units(logs, x) = 0 /\ NoDone(logs, x)
    <3>1. IsSequence(logs)
      BY DEF TypeInv, LogsOK
    <3> QED
      BY <2>2, <3>1, UnmentionedOrder
  <2>5. Live(x) <=> ~ IsDone(x)
    BY <2>2, <2>4 DEF Live, IsDone, HasDone
  <2>6. Live(x) <=> (EntriesIn(engine.book, x) # {} \/ x \in missed)
    BY <2>2, <2>3, <2>5 DEF Ledger, EndsOK
  <2>7. ASSUME NEW m \in EntriesIn(engine.book, x)
        PROVE  m.size = Order(x).size - rows[x].filled
    <3>1. rows[x].filled \in Nat
      BY TradedNumbers
    <3>2. SumAlong(MovedIn("base"), fills[x]) = 0
      BY <2>2, SumAlongNothing
    <3>3. Filled(x) = rows[x].filled
      BY <2>4, <3>1, <3>2 DEF Filled
    <3>4. Filled(x) + m.size = Order(x).size
      BY <2>7 DEF Ledger, AmountsOK, Amounts
    <3>5. m.size \in Nat
      <4>1. IsOrderBook(engine.book)
        BY DEF TypeInv, EngineOK
      <4> QED
        BY <2>7, <4>1, EntryFacts
    <3> QED
      BY <3>1, <3>3, <3>4, <3>5
  <2> QED
    BY <2>1, <2>6, <2>7
<1>2. Spec => []Ledger
  BY LedgerLasts
<1> QED
  BY <1>1, <1>2, ExchangeTypeCorrect, PTL
=============================================================================
