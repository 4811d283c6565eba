--------------------------- MODULE MirrorProofs ----------------------------
(***************************************************************************)
(* The mirror of the order book, proved: it is the book at every step of   *)
(* every call, its level-2 changes tell a client that has a snapshot of    *)
(* its best levels all it can know of the others, and a stream restarted   *)
(* on a full snapshot loses nothing.                                       *)
(*                                                                         *)
(* The argument.  A fold over a sequence is the end of its steps, one by   *)
(* one (Folds).  Every log tells one of six things of the depths (Tells),  *)
(* and the mirror of the depths before it becomes the mirror of those      *)
(* after it (MirrorFollows).  That the logs tell the whole history of the  *)
(* depths (Recording) is inductive over the steps of the book.             *)
(***************************************************************************)
EXTENDS Mirror, OrderBookProofs

-----------------------------------------------------------------------------
(* Folds over sequences, for the five steps that are folded: a log into the  *)
(* mirror, an order of a snapshot, a log into the reader, a log into the      *)
(* mirror and the client that follows it, and a change into its view.         *)

Stepped(kind, acc, x) ==
    CASE kind = "apply" -> ApplyLog(acc, x)
      [] kind = "save" -> SaveAgain(acc, x)
      [] kind = "read" -> ReadLog(acc, x)
      [] kind = "follow" -> Follow(acc, x)
      [] kind = "show" -> Shown(acc, x)

\* The recursion of FoldLeft over sets of indices of s.
FoldsOn(kind, g, base, s, D) ==
    g = [T \in D |-> IF T = {} THEN base
                     ELSE Stepped(kind, g[T \ {Max(T)}], s[Max(T)])]

\* A set of indices has a last one.
LEMMA LastIndex ==
    ASSUME NEW n \in Nat, NEW T \in SUBSET (1 .. n), T # {}
    PROVE  /\ Max(T) \in T
           /\ \A x \in T : x <= Max(T)
<1> DEFINE Gaps == {n - x : x \in T}
<1>1. PICK y \in Gaps : \A z \in Gaps : y <= z
  <2>1. \A x \in T : n - x \in Nat
    OBVIOUS
  <2>2. Gaps \in SUBSET Nat
    BY <2>1
  <2>3. PICK x : x \in T
    OBVIOUS
  <2>4. n - x \in Gaps
    BY <2>3
  <2> QED
    BY <2>2, <2>4, LeastNumber
<1>2. PICK x \in T : y = n - x
  BY <1>1
<1>3. \A z \in T : x >= z
  <2> SUFFICES ASSUME NEW z \in T PROVE x >= z
    OBVIOUS
  <2>1. n - x <= n - z
    BY <1>1, <1>2
  <2> QED
    BY <2>1
<1>4. /\ Max(T) \in T
      /\ \A z \in T : Max(T) >= z
  BY <1>3 DEF Max
<1> QED
  BY <1>4

\* A fold over the first n indices exists.
LEMMA FoldsExist ==
    ASSUME NEW kind, NEW base, NEW s, NEW n \in Nat
    PROVE  \E g : FoldsOn(kind, g, base, s, SUBSET (1 .. n))
<1> DEFINE S == 1 .. n
           Small(k) == {T \in SUBSET S : Cardinality(T) <= k}
           Good == {k \in Nat : \E g : FoldsOn(kind, g, base, s, Small(k))}
<1>0. IsFiniteSet(S) /\ Cardinality(S) = n
  BY FS_Interval
<1>1. \A T \in SUBSET S : IsFiniteSet(T) /\ Cardinality(T) \in Nat
                          /\ Cardinality(T) <= n
  BY <1>0, FS_Subset, FS_CardinalityType
<1>2. \A T \in SUBSET S : T # {} => /\ Max(T) \in T
                                    /\ T \ {Max(T)} \in SUBSET S
                                    /\ Cardinality(T \ {Max(T)}) = Cardinality(T) - 1
  <2> SUFFICES ASSUME NEW T \in SUBSET S, T # {}
               PROVE  /\ Max(T) \in T /\ T \ {Max(T)} \in SUBSET S
                      /\ Cardinality(T \ {Max(T)}) = Cardinality(T) - 1
    OBVIOUS
  <2>1. Max(T) \in T
    BY LastIndex
  <2> QED
    BY <1>1, <2>1, FS_RemoveElement
<1>3. 0 \in Good
  <2> DEFINE g == [T \in Small(0) |-> base]
  <2>1. \A T \in Small(0) : T = {}
    BY <1>1, FS_EmptySet
  <2>2. FoldsOn(kind, g, base, s, Small(0))
    BY <2>1 DEF FoldsOn
  <2> QED
    BY <2>2
<1>4. ASSUME NEW k \in 1 .. n, k - 1 \in Good
      PROVE  k \in Good
  <2>1. PICK g : FoldsOn(kind, g, base, s, Small(k - 1))
    BY <1>4
  <2> DEFINE h == [T \in Small(k) |-> IF T = {} THEN base
                                      ELSE Stepped(kind, g[T \ {Max(T)}], s[Max(T)])]
  <2>3. \A T \in Small(k - 1) : T \in Small(k) /\ h[T] = g[T]
    <3>1. \A T \in Small(k - 1) : T \in Small(k)
      BY <1>1
    <3> QED
      BY <2>1, <3>1 DEF FoldsOn
  <2>4. \A T \in Small(k) : T # {} => T \ {Max(T)} \in Small(k - 1)
    BY <1>1, <1>2
  <2>5. FoldsOn(kind, h, base, s, Small(k))
    BY <2>3, <2>4 DEF FoldsOn
  <2> QED
    BY <2>5
<1> HIDE DEF Good
<1>5. n \in Good
  BY <1>3, <1>4, NumberInduction
<1>6. Small(n) = SUBSET S
  BY <1>1
<1> QED
  BY <1>5, <1>6 DEF Good

\* The steps of a fold over s, one by one.
Folds(kind, g, base, s) ==
    /\ g[0] = base
    /\ \A k \in 1 .. Len(s) : g[k] = Stepped(kind, g[k - 1], s[k])

\* The fold over s is where its steps end.
LEMMA StepsOfFold ==
    ASSUME NEW kind, NEW base, NEW s, IsSequence(s),
           NEW f, FoldsOn(kind, f, base, s, SUBSET (1 .. Len(s)))
    PROVE  \E g : Folds(kind, g, base, s) /\ f[1 .. Len(s)] = g[Len(s)]
<1> DEFINE n == Len(s)
           g == [k \in 0 .. n |-> f[1 .. k]]
<1>0. n \in Nat
  BY SequenceFacts
<1> HIDE DEF n
<1>1. g[0] = base
  <2>1. 1 .. 0 = {}
    OBVIOUS
  <2>2. f[{}] = base
    BY DEF FoldsOn
  <2> QED
    BY <1>0, <2>1, <2>2
<1>2. ASSUME NEW k \in 1 .. n
      PROVE  g[k] = Stepped(kind, g[k - 1], s[k])
  <2>0. k \in 1 .. k /\ 1 .. k # {}
    OBVIOUS
  <2>1. 1 .. k \in SUBSET (1 .. n) /\ 1 .. k # {} /\ k \in 1 .. k
    <3>1. \A j \in 1 .. k : j \in 1 .. n
      BY <1>0
    <3> QED
      BY <2>0, <3>1
  <2>2. Max(1 .. k) \in 1 .. k /\ k <= Max(1 .. k)
    BY <1>0, <2>1, LastIndex
  <2>3. Max(1 .. k) = k
    BY <2>2
  <2>4. (1 .. k) \ {k} = 1 .. (k - 1)
    OBVIOUS
  <2>5. f[1 .. k] = Stepped(kind, f[(1 .. k) \ {Max(1 .. k)}], s[Max(1 .. k)])
    BY <2>1 DEF FoldsOn, n
  <2>6. f[1 .. k] = Stepped(kind, f[1 .. (k - 1)], s[k])
    BY <2>3, <2>4, <2>5
  <2> QED
    BY <1>0, <2>6
<1>3. f[1 .. n] = g[n]
  BY <1>0
<1> QED
  BY <1>1, <1>2, <1>3 DEF Folds, n

\* The other folds, over the elements of s.
SavedAll(m, s) == FoldLeft(SaveAgain, m, s)
ReadAll(m, s) == FoldLeft(ReadLog, m, s)
FollowedAll(m, s) == FoldLeft(Follow, m, s)
ShownAll(m, s) == FoldLeft(Shown, m, s)

\* The fold of the logs into the mirror.
LEMMA ApplyFolds ==
    ASSUME NEW m, NEW s, IsSequence(s)
    PROVE  \E g : Folds("apply", g, m, s) /\ After(m, s) = g[Len(s)]
<1> DEFINE On(g) == g = [T \in SUBSET DOMAIN s |-> IF T = {} THEN m
                              ELSE ApplyLog(g[T \ {Max(T)}], s[Max(T)])]
<1>0. Len(s) \in Nat /\ DOMAIN s = 1 .. Len(s)
  BY SequenceFacts
<1>1. \A g : On(g) <=> FoldsOn("apply", g, m, s, SUBSET (1 .. Len(s)))
  BY <1>0 DEF FoldsOn, Stepped
<1>2. \E g : On(g)
  BY <1>0, <1>1, FoldsExist
<1> DEFINE f == CHOOSE g : On(g)
<1>3. On(f)
  BY <1>2
<1>4. After(m, s) = f[DOMAIN s]
  BY Zenon DEF After, FoldLeft, MapThenFoldSet
<1> HIDE DEF f
<1>5. FoldsOn("apply", f, m, s, SUBSET (1 .. Len(s)))
  BY <1>1, <1>3
<1> QED
  BY <1>0, <1>4, <1>5, StepsOfFold

\* The fold of the orders of a snapshot.
LEMMA SaveFolds ==
    ASSUME NEW m, NEW s, IsSequence(s)
    PROVE  \E g : Folds("save", g, m, s) /\ SavedAll(m, s) = g[Len(s)]
<1> DEFINE On(g) == g = [T \in SUBSET DOMAIN s |-> IF T = {} THEN m
                              ELSE SaveAgain(g[T \ {Max(T)}], s[Max(T)])]
<1>0. Len(s) \in Nat /\ DOMAIN s = 1 .. Len(s)
  BY SequenceFacts
<1>1. \A g : On(g) <=> FoldsOn("save", g, m, s, SUBSET (1 .. Len(s)))
  BY <1>0 DEF FoldsOn, Stepped
<1>2. \E g : On(g)
  BY <1>0, <1>1, FoldsExist
<1> DEFINE f == CHOOSE g : On(g)
<1>3. On(f)
  BY <1>2
<1>4. SavedAll(m, s) = f[DOMAIN s]
  BY Zenon DEF SavedAll, FoldLeft, MapThenFoldSet
<1> HIDE DEF f
<1>5. FoldsOn("save", f, m, s, SUBSET (1 .. Len(s)))
  BY <1>1, <1>3
<1> QED
  BY <1>0, <1>4, <1>5, StepsOfFold

\* The fold of the logs into the reader.
LEMMA ReadFolds ==
    ASSUME NEW m, NEW s, IsSequence(s)
    PROVE  \E g : Folds("read", g, m, s) /\ ReadAll(m, s) = g[Len(s)]
<1> DEFINE On(g) == g = [T \in SUBSET DOMAIN s |-> IF T = {} THEN m
                              ELSE ReadLog(g[T \ {Max(T)}], s[Max(T)])]
<1>0. Len(s) \in Nat /\ DOMAIN s = 1 .. Len(s)
  BY SequenceFacts
<1>1. \A g : On(g) <=> FoldsOn("read", g, m, s, SUBSET (1 .. Len(s)))
  BY <1>0 DEF FoldsOn, Stepped
<1>2. \E g : On(g)
  BY <1>0, <1>1, FoldsExist
<1> DEFINE f == CHOOSE g : On(g)
<1>3. On(f)
  BY <1>2
<1>4. ReadAll(m, s) = f[DOMAIN s]
  BY Zenon DEF ReadAll, FoldLeft, MapThenFoldSet
<1> HIDE DEF f
<1>5. FoldsOn("read", f, m, s, SUBSET (1 .. Len(s)))
  BY <1>1, <1>3
<1> QED
  BY <1>0, <1>4, <1>5, StepsOfFold

\* The fold of the logs into the mirror and the client.
LEMMA FollowFolds ==
    ASSUME NEW m, NEW s, IsSequence(s)
    PROVE  \E g : Folds("follow", g, m, s) /\ FollowedAll(m, s) = g[Len(s)]
<1> DEFINE On(g) == g = [T \in SUBSET DOMAIN s |-> IF T = {} THEN m
                              ELSE Follow(g[T \ {Max(T)}], s[Max(T)])]
<1>0. Len(s) \in Nat /\ DOMAIN s = 1 .. Len(s)
  BY SequenceFacts
<1>1. \A g : On(g) <=> FoldsOn("follow", g, m, s, SUBSET (1 .. Len(s)))
  BY <1>0 DEF FoldsOn, Stepped
<1>2. \E g : On(g)
  BY <1>0, <1>1, FoldsExist
<1> DEFINE f == CHOOSE g : On(g)
<1>3. On(f)
  BY <1>2
<1>4. FollowedAll(m, s) = f[DOMAIN s]
  BY Zenon DEF FollowedAll, FoldLeft, MapThenFoldSet
<1> HIDE DEF f
<1>5. FoldsOn("follow", f, m, s, SUBSET (1 .. Len(s)))
  BY <1>1, <1>3
<1> QED
  BY <1>0, <1>4, <1>5, StepsOfFold

\* The fold of changes into what the client shows.
LEMMA ShowFolds ==
    ASSUME NEW m, NEW s, IsSequence(s)
    PROVE  \E g : Folds("show", g, m, s) /\ ShownAll(m, s) = g[Len(s)]
<1> DEFINE On(g) == g = [T \in SUBSET DOMAIN s |-> IF T = {} THEN m
                              ELSE Shown(g[T \ {Max(T)}], s[Max(T)])]
<1>0. Len(s) \in Nat /\ DOMAIN s = 1 .. Len(s)
  BY SequenceFacts
<1>1. \A g : On(g) <=> FoldsOn("show", g, m, s, SUBSET (1 .. Len(s)))
  BY <1>0 DEF FoldsOn, Stepped
<1>2. \E g : On(g)
  BY <1>0, <1>1, FoldsExist
<1> DEFINE f == CHOOSE g : On(g)
<1>3. On(f)
  BY <1>2
<1>4. ShownAll(m, s) = f[DOMAIN s]
  BY Zenon DEF ShownAll, FoldLeft, MapThenFoldSet
<1> HIDE DEF f
<1>5. FoldsOn("show", f, m, s, SUBSET (1 .. Len(s)))
  BY <1>1, <1>3
<1> QED
  BY <1>0, <1>4, <1>5, StepsOfFold

\* t starts with the first n elements of s.
Starts(t, s, n) ==
    /\ n \in Nat /\ Len(s) \in Nat /\ Len(t) \in Nat
    /\ n <= Len(s) /\ n <= Len(t)
    /\ \A k \in 1 .. n : t[k] = s[k]

\* Folds that take the same n elements first agree up to there.
LEMMA FoldsAgree ==
    ASSUME NEW kind, NEW base, NEW s, NEW t, NEW g, NEW h, NEW n,
           Folds(kind, g, base, s), Folds(kind, h, base, t), Starts(t, s, n)
    PROVE  h[n] = g[n]
<1> DEFINE Good == {k \in 0 .. n : h[k] = g[k]}
<1>0. n \in Nat
  BY DEF Starts
<1>1. 0 \in Good
  BY <1>0 DEF Folds
<1>2. ASSUME NEW k \in 1 .. n, k - 1 \in Good PROVE k \in Good
  <2>1. /\ k \in 1 .. Len(s) /\ k \in 1 .. Len(t) /\ t[k] = s[k]
        /\ h[k - 1] = g[k - 1]
    BY <1>2 DEF Starts
  <2>2. g[k] = Stepped(kind, g[k - 1], s[k])
    BY <2>1 DEF Folds
  <2>3. h[k] = Stepped(kind, h[k - 1], t[k])
    BY <2>1 DEF Folds
  <2> QED
    BY <2>1, <2>2, <2>3
<1> HIDE DEF Good
<1>3. n \in Good
  BY <1>0, <1>1, <1>2, NumberInduction
<1> QED
  BY <1>3 DEF Good

\* The first n logs lead to the n-th step.
LEMMA AfterFirst ==
    ASSUME NEW m, NEW s, IsSequence(s), NEW g, Folds("apply", g, m, s),
           NEW n \in 0 .. Len(s)
    PROVE  After(m, SubSeq(s, 1, n)) = g[n]
<1> DEFINE t == SubSeq(s, 1, n)
<1>1. /\ Len(s) \in Nat /\ IsSequence(t) /\ Len(t) = n
      /\ \A k \in 1 .. n : t[k] = s[k]
  BY SequenceFacts, FirstPart
<1> HIDE DEF t
<1>2. PICK h : Folds("apply", h, m, t) /\ After(m, t) = h[Len(t)]
  BY <1>1, ApplyFolds
<1>3. h[n] = g[n]
  <2>1. Starts(t, s, n)
    BY <1>1 DEF Starts
  <2> QED
    BY <1>2, <2>1, FoldsAgree
<1> QED
  BY <1>1, <1>2, <1>3 DEF t

\* All of them to the last step.
LEMMA AfterAll ==
    ASSUME NEW m, NEW s, IsSequence(s), NEW g, Folds("apply", g, m, s)
    PROVE  After(m, s) = g[Len(s)]
<1>1. Len(s) \in Nat
  BY SequenceFacts
<1>2. PICK h : Folds("apply", h, m, s) /\ After(m, s) = h[Len(s)]
  BY ApplyFolds
<1>3. h[Len(s)] = g[Len(s)]
  <2>1. Starts(s, s, Len(s))
    BY <1>1 DEF Starts
  <2> QED
    BY <1>2, <2>1, FoldsAgree
<1> QED
  BY <1>2, <1>3

-----------------------------------------------------------------------------
(* One price level. *)

\* What the mirror tells of the orders at one price.
LevelOf(S) == [size |-> Volume(S), count |-> Cardinality(S)]

\* An order whose size has become n.
WithSize(o, n) == [o EXCEPT !.size = n]

\* A depth on which the size of o has become n.
Resized(depth, o, n) == (depth \ {o}) \cup (IF n = 0 THEN {} ELSE {WithSize(o, n)})

\* What a new size leaves of an order.
LEMMA WithSizeIs ==
    ASSUME NEW o \in RestingOrders, NEW n \in Nat, n > 0
    PROVE  /\ WithSize(o, n) \in RestingOrders
           /\ WithSize(o, n).id = o.id
           /\ WithSize(o, n).side = o.side
           /\ WithSize(o, n).price = o.price
           /\ WithSize(o, n).size = n
BY DEF WithSize, RestingOrders

\* What decrSize does to a depth.
LEMMA DecrSizeResizes ==
    ASSUME NEW depth, NEW o \in RestingOrders, NEW z \in Nat, z <= o.size
    PROVE  DecrSize(depth, o, z) = Resized(depth, o, o.size - z)
<1>1. o.size \in Nat
  BY DEF RestingOrders
<1>2. [o EXCEPT !.size = @ - z] = WithSize(o, o.size - z)
  BY DEF WithSize, RestingOrders
<1>3. z = o.size <=> o.size - z = 0
  BY <1>1
<1> QED
  BY <1>2, <1>3 DEF DecrSize, Resized

\* Nothing has no level, and only nothing has none.
LEMMA NoLevelIsEmpty ==
    ASSUME NEW side, NEW S, IsLine(S, side)
    PROVE  /\ Volume(S) \in Nat
           /\ Cardinality(S) \in Nat
           /\ S = {} => LevelOf(S) = NoLevel
           /\ S # {} => LevelOf(S).size > 0 /\ LevelOf(S) # NoLevel
<1>1. Volume(S) \in Nat
  BY VolumeFacts
<1>2. Cardinality(S) \in Nat
  BY FS_CardinalityType DEF IsLine
<1>3. ASSUME S = {} PROVE LevelOf(S) = NoLevel
  BY <1>3, NothingAhead, FS_EmptySet DEF LevelOf, NoLevel
<1>4. ASSUME NEW m \in S PROVE Volume(S) > 0
  <2>1. Volume(S) = Volume(S \ {m}) + m.size
    BY VolumeFacts
  <2>2. Volume(S \ {m}) \in Nat
    BY VolumeFacts
  <2>3. m.size \in Nat /\ m.size > 0
    BY RestingFacts DEF IsLine
  <2> QED
    BY <2>1, <2>2, <2>3
<1>5. ASSUME S # {} PROVE LevelOf(S).size > 0 /\ LevelOf(S) # NoLevel
  <2>1. Volume(S) > 0
    BY <1>4, <1>5
  <2> QED
    BY <1>1, <2>1 DEF LevelOf, NoLevel
<1> QED
  BY <1>1, <1>2, <1>3, <1>5

\* A new order joins a line.
LEMMA JoinsLine ==
    ASSUME NEW side, NEW S, IsLine(S, side), NEW o \in RestingOrders, o.side = side,
           \A x \in S : x.id # o.id
    PROVE  /\ IsLine(S \cup {o}, side)
           /\ Volume(S \cup {o}) = Volume(S) + o.size
           /\ Cardinality(S \cup {o}) = Cardinality(S) + 1
<1> DEFINE T == S \cup {o}
<1>1. IsDepth(T, side)
  BY DEF IsLine, IsDepth
<1>2. IsFiniteSet(T) /\ o \notin S /\ Cardinality(T) = Cardinality(S) + 1
  BY FS_AddElement DEF IsLine
<1>3. IsLine(T, side) /\ o \in T /\ T \ {o} = S
  BY <1>1, <1>2 DEF IsLine
<1> HIDE DEF T
<1>4. Volume(T) = Volume(T \ {o}) + o.size
  BY <1>3, VolumeFacts
<1> QED
  BY <1>2, <1>3, <1>4 DEF T

\* The level after an order has joined it.
LEMMA LevelJoined ==
    ASSUME NEW side, NEW S, IsLine(S, side), NEW o \in RestingOrders, o.side = side,
           \A x \in S : x.id # o.id
    PROVE  LevelAfter(LevelOf(S), 0, o.size) = LevelOf(S \cup {o})
<1>1. /\ Volume(S \cup {o}) = Volume(S) + o.size
      /\ Cardinality(S \cup {o}) = Cardinality(S) + 1
  BY JoinsLine
<1>2. Volume(S) \in Nat /\ Cardinality(S) \in Nat
  BY NoLevelIsEmpty
<1>3. o.size \in Nat
  BY DEF RestingOrders
<1> HIDE DEF LevelOf
<1>4. /\ LevelOf(S).size = Volume(S) /\ LevelOf(S).count = Cardinality(S)
      /\ LevelOf(S \cup {o}) = [size |-> Volume(S) + o.size, count |-> Cardinality(S) + 1]
  BY <1>1 DEF LevelOf
<1> QED
  BY <1>2, <1>3, <1>4 DEF LevelAfter

\* The size of an order changes, to zero when it leaves.
LEMMA ResizedLine ==
    ASSUME NEW side, NEW S, IsLine(S, side), NEW o \in S, NEW n \in Nat
    PROVE  /\ IsLine(Resized(S, o, n), side)
           /\ Volume(Resized(S, o, n)) = Volume(S) - (o.size - n)
           /\ Cardinality(Resized(S, o, n)) = Cardinality(S) - (IF n = 0 THEN 1 ELSE 0)
<1> DEFINE P == S \ {o}
<1>1. IsLine(P, side) /\ Cardinality(P) = Cardinality(S) - 1 /\ Cardinality(S) \in Nat
  BY PartIsLine, FS_RemoveElement, FS_CardinalityType DEF IsLine
<1>2. Volume(S) = Volume(P) + o.size /\ Volume(P) \in Nat
  BY VolumeFacts
<1>3. o \in RestingOrders /\ o.side = side /\ o.size \in Nat /\ \A x \in P : x.id # o.id
  <2>1. o.size \in Nat
    BY RestingFacts DEF IsLine
  <2> QED
    BY <2>1 DEF IsLine, IsDepth
<1>4. CASE n = 0
  <2>1. Resized(S, o, n) = P
    BY <1>4 DEF Resized
  <2> HIDE DEF P
  <2> QED
    BY <1>1, <1>2, <1>3, <1>4, <2>1
<1>5. CASE n > 0
  <2> DEFINE w == WithSize(o, n)
  <2>1. w \in RestingOrders /\ w.side = side /\ w.id = o.id /\ w.size = n
    BY <1>3, <1>5, WithSizeIs
  <2>2. Resized(S, o, n) = P \cup {w}
    BY <1>5 DEF Resized
  <2>3. \A x \in P : x.id # w.id
    BY <1>3, <2>1
  <2> HIDE DEF P, w
  <2>4. /\ IsLine(P \cup {w}, side)
        /\ Volume(P \cup {w}) = Volume(P) + w.size
        /\ Cardinality(P \cup {w}) = Cardinality(P) + 1
    BY <1>1, <2>1, <2>3, JoinsLine
  <2> QED
    BY <1>1, <1>2, <1>3, <1>5, <2>1, <2>2, <2>4
<1> QED
  BY <1>4, <1>5

\* The level after the size of one of its orders has gone down.
LEMMA LevelResized ==
    ASSUME NEW side, NEW S, IsLine(S, side), NEW o \in S, NEW n \in Nat
    PROVE  LevelAfter(LevelOf(S), o.size, n) = LevelOf(Resized(S, o, n))
<1> DEFINE R == Resized(S, o, n)
<1>1. /\ IsLine(R, side)
      /\ Volume(R) = Volume(S) - (o.size - n)
      /\ Cardinality(R) = Cardinality(S) - (IF n = 0 THEN 1 ELSE 0)
  BY ResizedLine
<1>2. Volume(S) \in Nat /\ Cardinality(S) \in Nat
  BY NoLevelIsEmpty
<1>3. o.size \in Nat /\ o.size > 0
  BY RestingFacts DEF IsLine
<1> HIDE DEF R
<1>4. Volume(R) = 0 <=> R = {}
  <2>1. R = {} => Volume(R) = 0
    BY NothingAhead
  <2>2. R # {} => LevelOf(R).size > 0
    BY <1>1, NoLevelIsEmpty
  <2> QED
    BY <2>1, <2>2 DEF LevelOf
<1>5. Volume(R) = 0 => LevelOf(R) = NoLevel
  BY <1>1, <1>4, NoLevelIsEmpty
<1>6. /\ LevelOf(S).size = Volume(S) /\ LevelOf(S).count = Cardinality(S)
      /\ LevelOf(R) = [size |-> Volume(R), count |-> Cardinality(R)]
  BY DEF LevelOf
<1>7. ASSUME Volume(R) = 0
      PROVE  LevelAfter(LevelOf(S), o.size, n) = LevelOf(R)
  BY <1>1, <1>2, <1>3, <1>5, <1>6, <1>7 DEF LevelAfter
<1>8. ASSUME Volume(R) # 0
      PROVE  LevelAfter(LevelOf(S), o.size, n) = LevelOf(R)
  BY <1>1, <1>2, <1>3, <1>6, <1>8 DEF LevelAfter
<1> QED
  BY <1>7, <1>8 DEF R

-----------------------------------------------------------------------------
(* The mirror of a book. *)

\* The two depths of a book, and the orders on them.
All(d) == d["buy"] \cup d["sell"]

GoodDepths(d) ==
    /\ d = [side \in Sides |-> d[side]]
    /\ \A side \in Sides : IsLine(d[side], side)
    /\ \A m \in d["buy"], n \in d["sell"] : m.id # n.id

There(d, side, price) == {m \in d[side] : m.price = price}

\* What the mirror tells of an order.
OrderOf(m) == [id |-> m.id, size |-> m.size, side |-> m.side, price |-> m.price]

LevelsOf(d) ==
    [side \in Sides |-> [price \in Prices |-> LevelOf(There(d, side, price))]]

\* m mirrors the depths d, whatever its numbers.
Mirrors(m, d) ==
    /\ m = [seq    |-> m.seq, logSeq |-> m.logSeq,
            orders |-> {OrderOf(x) : x \in All(d)}, lost |-> FALSE,
            levels |-> LevelsOf(d)]
    /\ m.seq \in Nat /\ m.logSeq \in Nat

\* m after a change of one level.
Changed(m, at, side, price, level, orders) ==
    [m EXCEPT !.seq = @ + 1, !.logSeq = at, !.levels[side][price] = level,
              !.orders = orders]

\* Depths that differ at one price of one side at most.
Elsewhere(d, e, side, price) ==
    \A s \in Sides, p \in Prices :
        (s = side /\ p = price) \/ There(e, s, p) = There(d, s, p)

\* The mirror n is one change ahead of m, which tells its new level.
OneChange(m, n, at, side, price) ==
    /\ n.seq = m.seq + 1
    /\ n.logSeq = at
    /\ \A s \in Sides, p \in Prices :
          (s = side /\ p = price) \/ n.levels[s][p] = m.levels[s][p]

\* What the mirror needs of the orders on good depths.
LEMMA GoodOrders ==
    ASSUME NEW d, GoodDepths(d), NEW m \in All(d)
    PROVE  /\ m \in RestingOrders /\ m.side \in Sides /\ m \in d[m.side]
           /\ m.price \in Prices /\ m.size \in Nat /\ m.size > 0
           /\ m \in There(d, m.side, m.price)
           /\ \A n \in All(d) : n.id = m.id => n = m
<1>1. ASSUME NEW side \in Sides, NEW x \in d[side]
      PROVE  x \in RestingOrders /\ x.side = side /\ x.price \in Prices
             /\ x.size \in Nat /\ x.size > 0
  <2>1. IsDepth(d[side], side)
    BY DEF GoodDepths, IsLine
  <2> QED
    BY <2>1, RestingFacts DEF IsDepth
<1>2. PICK side \in Sides : m \in d[side]
  BY DEF All, Sides
<1>3. \A n \in All(d) : n.id = m.id => n = m
  <2> SUFFICES ASSUME NEW n \in All(d), n.id = m.id PROVE n = m
    OBVIOUS
  <2>1. CASE n \in d[side]
    BY <1>2, <2>1 DEF GoodDepths, IsLine, IsDepth
  <2>2. CASE n \notin d[side]
    BY <1>2, <2>2 DEF GoodDepths, All, Sides
  <2> QED
    BY <2>1, <2>2
<1> QED
  BY <1>1, <1>2, <1>3 DEF There

\* Orders at one price stand in a line.
LEMMA ThereIsLine ==
    ASSUME NEW d, GoodDepths(d), NEW side \in Sides, NEW price
    PROVE  IsLine(There(d, side, price), side)
<1>1. IsLine(d[side], side) /\ There(d, side, price) \in SUBSET d[side]
  BY DEF GoodDepths, There
<1> QED
  BY <1>1, PartIsLine

\* A change of the orders at one price is a change of one level.
LEMMA MirrorChanges ==
    ASSUME NEW d, NEW e, NEW m, Mirrors(m, d), NEW at \in Nat,
           NEW side \in Sides, NEW price \in Prices, Elsewhere(d, e, side, price),
           NEW level, level = LevelOf(There(e, side, price)),
           NEW orders, orders = {OrderOf(x) : x \in All(e)}
    PROVE  /\ Mirrors(Changed(m, at, side, price, level, orders), e)
           /\ OneChange(m, Changed(m, at, side, price, level, orders), at, side, price)
<1> DEFINE n == Changed(m, at, side, price, level, orders)
           levels == [m.levels EXCEPT ![side][price] = level]
<1>1. /\ m = [seq |-> m.seq, logSeq |-> m.logSeq, orders |-> m.orders, lost |-> FALSE,
              levels |-> m.levels]
      /\ m.levels = LevelsOf(d) /\ m.seq \in Nat
  BY DEF Mirrors
<1>2. n = [seq |-> m.seq + 1, logSeq |-> at, orders |-> orders, lost |-> FALSE,
           levels |-> levels]
  <2>1. n = [m EXCEPT !.seq = @ + 1, !.logSeq = at, !.levels = levels, !.orders = orders]
    BY Zenon DEF Changed
  <2> HIDE DEF n, levels
  <2>2. /\ m = [seq |-> m.seq, logSeq |-> m.logSeq, orders |-> m.orders, lost |-> m.lost,
                levels |-> m.levels]
        /\ m.lost = FALSE
    BY <1>1
  <2>3. n = [seq |-> m.seq + 1, logSeq |-> at, orders |-> orders, lost |-> m.lost,
             levels |-> levels]
    BY <2>1, <2>2
  <2> QED
    BY <2>2, <2>3
<1>3. levels = LevelsOf(e)
  <2>1. levels = [s \in Sides |-> [p \in Prices |->
                    IF s = side /\ p = price THEN level ELSE LevelOf(There(d, s, p))]]
    BY <1>1 DEF LevelsOf
  <2>2. \A s \in Sides, p \in Prices :
           (IF s = side /\ p = price THEN level ELSE LevelOf(There(d, s, p)))
              = LevelOf(There(e, s, p))
    BY DEF Elsewhere
  <2> QED
    BY <2>1, <2>2 DEF LevelsOf
<1> HIDE DEF n, levels
<1>4. Mirrors(n, e)
  BY <1>1, <1>2, <1>3 DEF Mirrors
<1>5. OneChange(m, n, at, side, price)
  <2>1. n.levels = LevelsOf(e) /\ n.seq = m.seq + 1 /\ n.logSeq = at
    BY <1>2, <1>3
  <2>2. \A s \in Sides, p \in Prices :
           (s = side /\ p = price) \/ LevelsOf(e)[s][p] = LevelsOf(d)[s][p]
    BY DEF Elsewhere, LevelsOf
  <2> QED
    BY <1>1, <2>1, <2>2 DEF OneChange
<1> QED
  BY <1>4, <1>5 DEF n

\* An order joins its side, or its size changes.
With(d, o) == [d EXCEPT ![o.side] = @ \cup {o}]
Resize(d, o, n) == [d EXCEPT ![o.side] = Resized(@, o, n)]

NotOn(d, id) == \A x \in All(d) : x.id # id

\* Where an order joins.
LEMMA JoinsDepths ==
    ASSUME NEW d, GoodDepths(d), NEW o \in RestingOrders, NotOn(d, o.id)
    PROVE  /\ GoodDepths(With(d, o))
           /\ All(With(d, o)) = All(d) \cup {o}
           /\ There(With(d, o), o.side, o.price) = There(d, o.side, o.price) \cup {o}
           /\ Elsewhere(d, With(d, o), o.side, o.price)
<1> DEFINE side == o.side
           e == With(d, o)
<1>1. side \in Sides
  BY DEF RestingOrders
<1>2. /\ e = [s \in Sides |-> IF s = side THEN d[s] \cup {o} ELSE d[s]]
      /\ e[side] = d[side] \cup {o}
      /\ \A s \in Sides : s # side => e[s] = d[s]
  BY <1>1 DEF With, GoodDepths
<1>3. \A x \in d[side] : x.id # o.id
  BY <1>1 DEF NotOn, All, Sides
<1>4. IsLine(d[side], side) /\ o.side = side
  BY <1>1 DEF GoodDepths
<1> HIDE DEF e, side
<1>5. IsLine(d[side] \cup {o}, side)
  BY <1>3, <1>4, JoinsLine
<1>6. e = [s \in Sides |-> e[s]] /\ \A s \in Sides : IsLine(e[s], s)
  BY <1>2, <1>5 DEF GoodDepths
<1>7. All(e) = All(d) \cup {o}
  BY <1>1, <1>2 DEF All, Sides
<1>8. \A x \in e["buy"], y \in e["sell"] : x.id # y.id
  <2>1. \A x \in d["buy"], y \in d["sell"] : x.id # y.id
    BY DEF GoodDepths
  <2>2. \A x \in d["buy"] \cup d["sell"] : x.id # o.id
    BY DEF NotOn, All
  <2>3. CASE side = "buy"
    BY <1>2, <2>1, <2>2, <2>3 DEF Sides
  <2>4. CASE side = "sell"
    BY <1>2, <2>1, <2>2, <2>4 DEF Sides
  <2> QED
    BY <1>1, <2>3, <2>4 DEF Sides
<1>9. There(e, side, o.price) = There(d, side, o.price) \cup {o}
  BY <1>2 DEF There
<1>10. Elsewhere(d, e, side, o.price)
  <2> SUFFICES ASSUME NEW s \in Sides, NEW p \in Prices, ~ (s = side /\ p = o.price)
               PROVE  There(e, s, p) = There(d, s, p)
    BY DEF Elsewhere
  <2>1. CASE s = side
    BY <1>2, <2>1 DEF There
  <2>2. CASE s # side
    BY <1>2, <2>2 DEF There
  <2> QED
    BY <2>1, <2>2
<1>11. GoodDepths(e)
  BY <1>6, <1>8 DEF GoodDepths
<1> QED
  BY <1>7, <1>9, <1>10, <1>11 DEF e, side

\* Where the size of an order changes.
LEMMA ResizesDepths ==
    ASSUME NEW d, GoodDepths(d), NEW o \in All(d), NEW n \in Nat
    PROVE  /\ GoodDepths(Resize(d, o, n))
           /\ All(Resize(d, o, n)) = Resized(All(d), o, n)
           /\ There(Resize(d, o, n), o.side, o.price) = Resized(There(d, o.side, o.price), o, n)
           /\ Elsewhere(d, Resize(d, o, n), o.side, o.price)
<1> DEFINE side == o.side
           e == Resize(d, o, n)
           w == WithSize(o, n)
           new == IF n = 0 THEN {} ELSE {w}
<1>1. /\ side \in Sides /\ o \in d[side] /\ o \in RestingOrders
      /\ \A x \in All(d) : x.id = o.id => x = o
  BY GoodOrders
<1>2. /\ e = [s \in Sides |-> IF s = side THEN Resized(d[s], o, n) ELSE d[s]]
      /\ e[side] = Resized(d[side], o, n)
      /\ \A s \in Sides : s # side => e[s] = d[s]
  BY <1>1 DEF Resize, GoodDepths
<1>3. \A x \in new : x.id = o.id /\ x.price = o.price
  BY <1>1, WithSizeIs
<1>4. \A S : Resized(S, o, n) = (S \ {o}) \cup new
  BY DEF Resized
<1>5. IsLine(Resized(d[side], o, n), side)
  <2>1. IsLine(d[side], side)
    BY <1>1 DEF GoodDepths
  <2> QED
    BY <1>1, <2>1, ResizedLine
<1>6. \A s \in Sides : s # side => o \notin d[s]
  BY <1>1 DEF GoodDepths, Sides
<1> HIDE DEF e, side, new
<1>7. e = [s \in Sides |-> e[s]] /\ \A s \in Sides : IsLine(e[s], s)
  BY <1>2, <1>5 DEF GoodDepths
<1>8. All(e) = (All(d) \ {o}) \cup new
  <2>1. CASE side = "buy"
    BY <1>2, <1>4, <1>6, <2>1 DEF All, Sides
  <2>2. CASE side = "sell"
    BY <1>2, <1>4, <1>6, <2>2 DEF All, Sides
  <2> QED
    BY <1>1, <2>1, <2>2 DEF Sides
<1>9. \A x \in e["buy"], y \in e["sell"] : x.id # y.id
  <2>1. \A x \in d["buy"], y \in d["sell"] : x.id # y.id
    BY DEF GoodDepths
  <2>2. \A x \in e[side] : \E y \in d[side] : x.id = y.id
    BY <1>1, <1>2, <1>3, <1>4
  <2>3. CASE side = "buy"
    BY <1>2, <2>1, <2>2, <2>3 DEF Sides
  <2>4. CASE side = "sell"
    BY <1>2, <2>1, <2>2, <2>4 DEF Sides
  <2> QED
    BY <1>1, <2>3, <2>4 DEF Sides
<1>10. There(e, side, o.price) = (There(d, side, o.price) \ {o}) \cup new
  BY <1>2, <1>3, <1>4 DEF There
<1>11. Elsewhere(d, e, side, o.price)
  <2> SUFFICES ASSUME NEW s \in Sides, NEW p \in Prices, ~ (s = side /\ p = o.price)
               PROVE  There(e, s, p) = There(d, s, p)
    BY DEF Elsewhere
  <2>1. CASE s = side
    BY <1>2, <1>3, <1>4, <2>1 DEF There
  <2>2. CASE s # side
    BY <1>2, <2>2 DEF There
  <2> QED
    BY <2>1, <2>2
<1>12. GoodDepths(e)
  BY <1>7, <1>9 DEF GoodDepths
<1> QED
  BY <1>4, <1>8, <1>10, <1>11, <1>12 DEF e, side

\* What the mirror holds of an order.
LEMMA HeldOnMirror ==
    ASSUME NEW d, GoodDepths(d), NEW m, Mirrors(m, d)
    PROVE  /\ \A id : NotOn(d, id) => Held(m, id) = {}
           /\ \A o \in All(d) : Held(m, o.id) = {OrderOf(o)}
<1>1. m.orders = {OrderOf(x) : x \in All(d)}
  BY DEF Mirrors
<1>2. \A x : OrderOf(x).id = x.id
  BY DEF OrderOf
<1>3. ASSUME NEW id, NotOn(d, id) PROVE Held(m, id) = {}
  BY <1>1, <1>2, <1>3 DEF Held, NotOn
<1>4. ASSUME NEW o \in All(d) PROVE Held(m, o.id) = {OrderOf(o)}
  <2>1. \A x \in All(d) : x.id = o.id => x = o
    BY GoodOrders
  <2> HIDE DEF OrderOf
  <2>2. Held(m, o.id) = {OrderOf(x) : x \in {y \in All(d) : y.id = o.id}}
    BY <1>1, <1>2 DEF Held
  <2>3. {y \in All(d) : y.id = o.id} = {o}
    BY <2>1
  <2> QED
    BY <2>2, <2>3
<1> QED
  BY <1>3, <1>4

-----------------------------------------------------------------------------
(* saveOrder, and a log. *)

\* A new order is saved.
LEMMA SavesNew ==
    ASSUME NEW d, GoodDepths(d), NEW m, Mirrors(m, d), NEW at \in Nat,
           NEW o \in RestingOrders, NotOn(d, o.id)
    PROVE  /\ Mirrors(SaveOrder(m, at, o.id, o.size, o.price, o.side), With(d, o))
           /\ OneChange(m, SaveOrder(m, at, o.id, o.size, o.price, o.side), at, o.side, o.price)
<1> DEFINE side == o.side
           price == o.price
           S == There(d, side, price)
           level == LevelAfter(LevelOf(S), 0, o.size)
           orders == m.orders \cup {OrderOf(o)}
           n == SaveOrder(m, at, o.id, o.size, o.price, o.side)
<1>1. /\ side \in Sides /\ price \in Prices /\ o.size \in Nat /\ o.size > 0
  BY DEF RestingOrders
<1>2. Held(m, o.id) = {}
  BY HeldOnMirror
<1>3. m.levels[side][price] = LevelOf(S)
  BY <1>1 DEF Mirrors, LevelsOf
<1>4. n = Changed(m, at, side, price, level, orders)
  <2>1. /\ ~ (o.size < 0) /\ o.size # 0
        /\ [id |-> o.id, size |-> o.size, side |-> o.side, price |-> o.price] = OrderOf(o)
    BY <1>1 DEF OrderOf
  <2> QED
    BY <1>2, <1>3, <2>1, Zenon DEF SaveOrder, Changed
<1>5. level = LevelOf(There(With(d, o), side, price))
  <2>1. IsLine(S, side)
    BY <1>1, ThereIsLine
  <2>2. \A x \in S : x.id # o.id
    BY <1>1 DEF There, NotOn, All, Sides
  <2>3. There(With(d, o), side, price) = S \cup {o}
    BY JoinsDepths
  <2> HIDE DEF S
  <2> QED
    BY <2>1, <2>2, <2>3, LevelJoined
<1>6. orders = {OrderOf(x) : x \in All(With(d, o))}
  <2>1. All(With(d, o)) = All(d) \cup {o}
    BY JoinsDepths
  <2>2. m.orders = {OrderOf(x) : x \in All(d)}
    BY DEF Mirrors
  <2> HIDE DEF OrderOf
  <2> QED
    BY <2>1, <2>2
<1>7. Elsewhere(d, With(d, o), side, price)
  BY JoinsDepths
<1> HIDE DEF side, price, S, level, orders, n
<1>8. /\ Mirrors(Changed(m, at, side, price, level, orders), With(d, o))
      /\ OneChange(m, Changed(m, at, side, price, level, orders), at, side, price)
  BY <1>1, <1>5, <1>6, <1>7, MirrorChanges
<1>9. Mirrors(n, With(d, o)) /\ OneChange(m, n, at, side, price)
  BY <1>4, <1>8
<1> QED
  BY <1>9 DEF n, side, price

\* An order is saved with another size.
LEMMA SavesResized ==
    ASSUME NEW d, GoodDepths(d), NEW m, Mirrors(m, d), NEW at \in Nat,
           NEW o \in All(d), NEW k \in Nat
    PROVE  /\ Mirrors(SaveOrder(m, at, o.id, k, o.price, o.side), Resize(d, o, k))
           /\ OneChange(m, SaveOrder(m, at, o.id, k, o.price, o.side), at, o.side, o.price)
<1> DEFINE side == o.side
           price == o.price
           S == There(d, side, price)
           held == {OrderOf(o)}
           level == LevelAfter(LevelOf(S), o.size, k)
           orders == (m.orders \ held) \cup
                        {[x EXCEPT !.size = k] : x \in IF k = 0 THEN {} ELSE held}
           n == SaveOrder(m, at, o.id, k, o.price, o.side)
<1>1. /\ side \in Sides /\ price \in Prices /\ o.size \in Nat /\ o.size > 0
      /\ o \in S /\ o \in RestingOrders
      /\ \A x \in All(d) : x.id = o.id => x = o
  BY GoodOrders
<1>2. Held(m, o.id) = held
  BY HeldOnMirror
<1>3. m.levels[side][price] = LevelOf(S)
  BY <1>1 DEF Mirrors, LevelsOf
<1>4. IsLine(S, side)
  BY <1>1, ThereIsLine
<1>5. LevelOf(S) # NoLevel
  <2> HIDE DEF S
  <2> QED
    BY <1>1, <1>4, NoLevelIsEmpty
<1>6. (CHOOSE x \in held : TRUE).size = o.size /\ held # {}
  <2>1. OrderOf(o) \in held /\ OrderOf(o).size = o.size /\ \A x \in held : x = OrderOf(o)
    BY DEF OrderOf
  <2> HIDE DEF held, OrderOf
  <2>2. (CHOOSE x \in held : TRUE) \in held
    BY <2>1
  <2> QED
    BY <2>1, <2>2
<1>7. n = Changed(m, at, side, price, level, orders)
  <2>1. ~ (k < 0)
    OBVIOUS
  <2> DEFINE old == (CHOOSE x \in held : TRUE).size
             f == LevelAfter(LevelOf(S), old, k)
  <2>2. level = f
    BY <1>6
  <2> HIDE DEF level, held
  <2>3. n = Changed(m, at, side, price, f, orders)
    BY <1>2, <1>3, <1>5, <1>6, <2>1, Zenon DEF SaveOrder, Changed
  <2> QED
    BY <2>2, <2>3
<1>8. level = LevelOf(There(Resize(d, o, k), side, price))
  <2>1. There(Resize(d, o, k), side, price) = Resized(S, o, k)
    BY ResizesDepths
  <2> HIDE DEF S
  <2> QED
    BY <1>1, <1>4, <2>1, LevelResized
<1>9. orders = {OrderOf(x) : x \in All(Resize(d, o, k))}
  <2>1. All(Resize(d, o, k)) = Resized(All(d), o, k)
    BY ResizesDepths
  <2>2. m.orders = {OrderOf(x) : x \in All(d)}
    BY DEF Mirrors
  <2>3. [OrderOf(o) EXCEPT !.size = k] = OrderOf(WithSize(o, k))
    BY <1>1 DEF OrderOf, WithSize, RestingOrders
  <2>4. \A x \in All(d) : OrderOf(x) = OrderOf(o) => x = o
    <3>1. \A x : OrderOf(x).id = x.id
      BY DEF OrderOf
    <3> HIDE DEF OrderOf
    <3> QED
      BY <1>1, <3>1
  <2> HIDE DEF OrderOf
  <2>5. m.orders \ held = {OrderOf(x) : x \in All(d) \ {o}}
    BY <2>2, <2>4
  <2>6. {[x EXCEPT !.size = k] : x \in IF k = 0 THEN {} ELSE held} =
           {OrderOf(x) : x \in IF k = 0 THEN {} ELSE {WithSize(o, k)}}
    BY <2>3
  <2> QED
    BY <2>1, <2>5, <2>6 DEF Resized
<1>10. Elsewhere(d, Resize(d, o, k), side, price)
  BY ResizesDepths
<1> HIDE DEF side, price, S, level, orders, n
<1>11. /\ Mirrors(Changed(m, at, side, price, level, orders), Resize(d, o, k))
       /\ OneChange(m, Changed(m, at, side, price, level, orders), at, side, price)
  BY <1>1, <1>8, <1>9, <1>10, MirrorChanges
<1>12. Mirrors(n, Resize(d, o, k)) /\ OneChange(m, n, at, side, price)
  BY <1>7, <1>11
<1> QED
  BY <1>12 DEF n, side, price

\* What a log tells of the book: d has become e.
Opens(d, log, e) ==
    \E o \in RestingOrders :
        /\ log.kind = "open" /\ log.id = o.id /\ log.remaining = o.size
        /\ log.price = o.price /\ log.side = o.side
        /\ NotOn(d, o.id) /\ e = With(d, o)

Trades(d, log, e) ==
    \E o \in All(d) :
        /\ log.kind = "match" /\ log.maker = o.id
        /\ log.price = o.price /\ log.side = o.side
        /\ log.size \in Nat /\ 0 < log.size /\ log.size <= o.size
        /\ e = Resize(d, o, o.size - log.size)

Leaves(d, log, e) ==
    \E o \in All(d) :
        /\ log.kind = "done" /\ log.id = o.id /\ log.remaining = o.size
        /\ log.price = o.price /\ log.side = o.side
        /\ e = Resize(d, o, 0)

Reopens(d, log, e) ==
    \E o \in All(d) :
        /\ log.kind = "open" /\ log.id = o.id /\ log.remaining \in Nat
        /\ log.price = o.price /\ log.side = o.side
        /\ e = Resize(d, o, log.remaining)

Lingers(d, log, e) ==
    \E o \in All(d) :
        /\ log.kind = "done" /\ log.id = o.id /\ log.remaining = 0
        /\ log.price = o.price /\ log.side = o.side
        /\ e = d

IsGone(d, log, e) == log.kind = "done" /\ NotOn(d, log.id) /\ e = d

Tells(d, log, e) ==
    \/ Opens(d, log, e) \/ Trades(d, log, e) \/ Leaves(d, log, e)
    \/ Reopens(d, log, e) \/ Lingers(d, log, e) \/ IsGone(d, log, e)

\* The mirror n after a log is m, or one change ahead of it.
Follows(m, n, log) ==
    \/ n = m
    \/ /\ OneChange(m, n, log.seq, log.side, log.price)
       /\ log.side \in Sides /\ log.price \in Prices

\* An order given the size it has.
LEMMA SameSize ==
    ASSUME NEW d, GoodDepths(d), NEW o \in All(d)
    PROVE  Resize(d, o, o.size) = d
<1>1. /\ o \in RestingOrders /\ o.side \in Sides /\ o \in d[o.side]
      /\ o.size \in Nat /\ o.size > 0
  BY GoodOrders
<1>2. WithSize(o, o.size) = o
  BY <1>1 DEF WithSize, RestingOrders
<1>3. Resized(d[o.side], o, o.size) = d[o.side]
  BY <1>1, <1>2 DEF Resized
<1>4. d = [side \in Sides |-> d[side]]
  BY DEF GoodDepths
<1> QED
  BY <1>1, <1>3, <1>4 DEF Resize

\* The mirror understands every log as the book meant it.
LEMMA MirrorFollows ==
    ASSUME NEW d, GoodDepths(d), NEW m, Mirrors(m, d), NEW log, log.seq \in Nat,
           NEW e, Tells(d, log, e)
    PROVE  GoodDepths(e) /\ Mirrors(ApplyLog(m, log), e) /\ Follows(m, ApplyLog(m, log), log)
<1> DEFINE n == ApplyLog(m, log)
<1>1. m.lost = FALSE
  BY DEF Mirrors
<1>2. ASSUME Opens(d, log, e) PROVE GoodDepths(e) /\ Mirrors(n, e) /\ Follows(m, n, log)
  <2>1. PICK o \in RestingOrders :
           /\ log.kind = "open" /\ log.id = o.id /\ log.remaining = o.size
           /\ log.price = o.price /\ log.side = o.side
           /\ NotOn(d, o.id) /\ e = With(d, o)
    BY <1>2 DEF Opens
  <2>2. n = SaveOrder(m, log.seq, o.id, o.size, o.price, o.side)
    BY <1>1, <2>1 DEF ApplyLog
  <2>3. /\ Mirrors(SaveOrder(m, log.seq, o.id, o.size, o.price, o.side), e)
        /\ OneChange(m, SaveOrder(m, log.seq, o.id, o.size, o.price, o.side), log.seq, o.side, o.price)
    BY <2>1, SavesNew
  <2>4. GoodDepths(e)
    BY <2>1, JoinsDepths
  <2>5. o.side \in Sides /\ o.price \in Prices
    BY DEF RestingOrders
  <2> HIDE DEF n
  <2> QED
    BY <2>1, <2>2, <2>3, <2>4, <2>5 DEF Follows
<1>3. ASSUME NEW o \in All(d), NEW k \in Nat, e = Resize(d, o, k),
             log.price = o.price, log.side = o.side,
             n = SaveOrder(m, log.seq, o.id, k, o.price, o.side)
      PROVE  GoodDepths(e) /\ Mirrors(n, e) /\ Follows(m, n, log)
  <2>1. /\ Mirrors(SaveOrder(m, log.seq, o.id, k, o.price, o.side), e)
        /\ OneChange(m, SaveOrder(m, log.seq, o.id, k, o.price, o.side), log.seq, o.side, o.price)
    BY <1>3, SavesResized
  <2>2. GoodDepths(e)
    BY <1>3, ResizesDepths
  <2>3. o.side \in Sides /\ o.price \in Prices
    BY GoodOrders
  <2> HIDE DEF n
  <2> QED
    BY <1>3, <2>1, <2>2, <2>3 DEF Follows
<1>4. ASSUME NEW o \in All(d)
      PROVE  /\ Held(m, o.id) # {} /\ (CHOOSE x \in Held(m, o.id) : TRUE).size = o.size
             /\ o.size \in Nat /\ o.size > 0
  <2>1. Held(m, o.id) = {OrderOf(o)} /\ OrderOf(o).size = o.size
    BY HeldOnMirror DEF OrderOf
  <2>2. (CHOOSE x \in Held(m, o.id) : TRUE) \in Held(m, o.id)
    BY <2>1
  <2>3. o.size \in Nat /\ o.size > 0
    BY GoodOrders
  <2> HIDE DEF OrderOf
  <2> QED
    BY <2>1, <2>2, <2>3
<1>5. ASSUME Trades(d, log, e) PROVE GoodDepths(e) /\ Mirrors(n, e) /\ Follows(m, n, log)
  <2>1. PICK o \in All(d) :
           /\ log.kind = "match" /\ log.maker = o.id
           /\ log.price = o.price /\ log.side = o.side
           /\ log.size \in Nat /\ 0 < log.size /\ log.size <= o.size
           /\ e = Resize(d, o, o.size - log.size)
    BY <1>5 DEF Trades
  <2>2. o.size - log.size \in Nat
    BY <1>4, <2>1
  <2>3. n = SaveOrder(m, log.seq, o.id, o.size - log.size, o.price, o.side)
    BY <1>1, <1>4, <2>1 DEF ApplyLog
  <2> HIDE DEF n
  <2> QED
    BY <1>3, <2>1, <2>2, <2>3
<1>6. ASSUME Leaves(d, log, e) PROVE GoodDepths(e) /\ Mirrors(n, e) /\ Follows(m, n, log)
  <2>1. PICK o \in All(d) :
           /\ log.kind = "done" /\ log.id = o.id /\ log.remaining = o.size
           /\ log.price = o.price /\ log.side = o.side
           /\ e = Resize(d, o, 0)
    BY <1>6 DEF Leaves
  <2>2. o.size \in Nat /\ o.size - log.remaining = 0
    BY <1>4, <2>1
  <2>3. n = SaveOrder(m, log.seq, o.id, o.size - log.remaining, o.price, o.side)
    BY <1>1, <1>4, <2>1 DEF ApplyLog
  <2>4. n = SaveOrder(m, log.seq, o.id, 0, o.price, o.side)
    BY <2>2, <2>3
  <2> HIDE DEF n
  <2> QED
    BY <1>3, <2>1, <2>2, <2>4
<1>7. ASSUME IsGone(d, log, e) PROVE GoodDepths(e) /\ Mirrors(n, e) /\ Follows(m, n, log)
  <2>1. Held(m, log.id) = {} /\ log.kind = "done" /\ e = d
    BY <1>7, HeldOnMirror DEF IsGone
  <2>2. n = m
    BY <1>1, <2>1 DEF ApplyLog
  <2> HIDE DEF n
  <2> QED
    BY <2>1, <2>2 DEF Follows
<1>8. ASSUME Reopens(d, log, e) PROVE GoodDepths(e) /\ Mirrors(n, e) /\ Follows(m, n, log)
  <2>1. PICK o \in All(d) :
           /\ log.kind = "open" /\ log.id = o.id /\ log.remaining \in Nat
           /\ log.price = o.price /\ log.side = o.side
           /\ e = Resize(d, o, log.remaining)
    BY <1>8 DEF Reopens
  <2>2. n = SaveOrder(m, log.seq, o.id, log.remaining, o.price, o.side)
    BY <1>1, <2>1 DEF ApplyLog
  <2> HIDE DEF n
  <2> QED
    BY <1>3, <2>1, <2>2
<1>9. ASSUME Lingers(d, log, e) PROVE GoodDepths(e) /\ Mirrors(n, e) /\ Follows(m, n, log)
  <2>1. PICK o \in All(d) :
           /\ log.kind = "done" /\ log.id = o.id /\ log.remaining = 0
           /\ log.price = o.price /\ log.side = o.side
           /\ e = d
    BY <1>9 DEF Lingers
  <2>2. o.size - log.remaining = o.size /\ o.size \in Nat
    BY <1>4, <2>1
  <2>3. n = SaveOrder(m, log.seq, o.id, o.size - log.remaining, o.price, o.side)
    BY <1>1, <1>4, <2>1 DEF ApplyLog
  <2>4. n = SaveOrder(m, log.seq, o.id, o.size, o.price, o.side)
    BY <2>2, <2>3
  <2>5. e = Resize(d, o, o.size)
    BY <2>1, SameSize
  <2> HIDE DEF n
  <2> QED
    BY <1>3, <2>1, <2>2, <2>4, <2>5
<1> HIDE DEF n
<1>10. GoodDepths(e) /\ Mirrors(n, e) /\ Follows(m, n, log)
  BY <1>2, <1>5, <1>6, <1>7, <1>8, <1>9 DEF Tells
<1> QED
  BY <1>10 DEF n

-----------------------------------------------------------------------------
(* A log of a whole history. *)

NoDepths == [side \in Sides |-> {}]

\* h is the book before the first log of s, and after each of them.
History(h, s) ==
    /\ IsSequence(s)
    /\ h[0] = NoDepths
    /\ \A k \in 1 .. Len(s) : s[k].seq = k /\ Tells(h[k - 1], s[k], h[k])

\* The mirror starts with an empty book.
LEMMA NewMirrorIsEmpty == GoodDepths(NoDepths) /\ Mirrors(NewMirror, NoDepths)
<1>1. \A side \in Sides : NoDepths[side] = {}
  BY DEF NoDepths
<1>2. NoDepths["buy"] = {} /\ NoDepths["sell"] = {}
  BY <1>1 DEF Sides
<1>3. \A side : IsLine({}, side)
  BY FS_EmptySet DEF IsLine, IsDepth
<1>4. GoodDepths(NoDepths)
  BY <1>1, <1>2, <1>3 DEF GoodDepths, NoDepths
<1>5. {OrderOf(x) : x \in All(NoDepths)} = {}
  BY <1>2 DEF All
<1>6. LevelOf({}) = NoLevel
  BY <1>3, NoLevelIsEmpty
<1>7. LevelsOf(NoDepths) = [side \in Sides |-> [price \in Prices |-> NoLevel]]
  <2>1. \A side \in Sides, price \in Prices : There(NoDepths, side, price) = {}
    BY <1>1 DEF There
  <2> QED
    BY <1>6, <2>1 DEF LevelsOf
<1>8. /\ NewMirror.seq = 0 /\ NewMirror.logSeq = 0
      /\ NewMirror = [seq |-> 0, logSeq |-> 0, orders |-> {}, lost |-> FALSE,
                      levels |-> [side \in Sides |-> [price \in Prices |-> NoLevel]]]
  BY DEF NewMirror
<1> QED
  BY <1>4, <1>5, <1>7, <1>8 DEF Mirrors

\* After each log the mirror has the book, and what it read last of a change
\* is the log it was changed by.
MirrorsHistory(g, h, s) ==
    /\ \A k \in 0 .. Len(s) : /\ GoodDepths(h[k]) /\ Mirrors(g[k], h[k])
                              /\ g[k].logSeq \in 0 .. k
                              /\ g[g[k].logSeq] = g[k]
    /\ \A k \in 1 .. Len(s) : Follows(g[k - 1], g[k], s[k])

\* The mirror follows the book through the whole history.
LEMMA HistoryIsMirrored ==
    ASSUME NEW s, NEW h, History(h, s), NEW g, Folds("apply", g, NewMirror, s)
    PROVE  MirrorsHistory(g, h, s)
<1>0. Len(s) \in Nat
  BY SequenceFacts DEF History
<1> DEFINE Good == {k \in 0 .. Len(s) : /\ GoodDepths(h[k]) /\ Mirrors(g[k], h[k])
                                        /\ g[k].logSeq \in 0 .. k
                                        /\ g[g[k].logSeq] = g[k]
                                        /\ k > 0 => Follows(g[k - 1], g[k], s[k])}
<1>1. 0 \in Good
  <2>1. g[0] = NewMirror /\ h[0] = NoDepths /\ NewMirror.logSeq = 0
    BY DEF Folds, History, NewMirror
  <2> QED
    BY <1>0, <2>1, NewMirrorIsEmpty
<1>2. ASSUME NEW k \in 1 .. Len(s), k - 1 \in Good PROVE k \in Good
  <2>1. /\ GoodDepths(h[k - 1]) /\ Mirrors(g[k - 1], h[k - 1])
        /\ g[k - 1].logSeq \in 0 .. (k - 1)
        /\ g[g[k - 1].logSeq] = g[k - 1]
    BY <1>2
  <2>2. s[k].seq = k /\ Tells(h[k - 1], s[k], h[k]) /\ s[k].seq \in Nat
    BY DEF History
  <2>3. g[k] = ApplyLog(g[k - 1], s[k])
    BY DEF Folds, Stepped
  <2>4. GoodDepths(h[k]) /\ Mirrors(g[k], h[k]) /\ Follows(g[k - 1], g[k], s[k])
    BY <2>1, <2>2, <2>3, MirrorFollows
  <2>5. CASE g[k] = g[k - 1]
    BY <1>0, <2>1, <2>4, <2>5
  <2>6. CASE g[k] # g[k - 1]
    <3>1. g[k].logSeq = k
      BY <2>2, <2>4, <2>6 DEF Follows, OneChange
    <3> QED
      BY <1>0, <2>4, <3>1
  <2> QED
    BY <2>5, <2>6
<1> HIDE DEF Good
<1>3. \A k \in 0 .. Len(s) : k \in Good
  <2> SUFFICES ASSUME NEW n \in 0 .. Len(s) PROVE n \in Good
    OBVIOUS
  <2>1. \A k \in 1 .. n : k - 1 \in Good => k \in Good
    BY <1>0, <1>2
  <2> QED
    BY <1>1, <2>1, NumberInduction
<1> QED
  BY <1>0, <1>3 DEF Good, MirrorsHistory

-----------------------------------------------------------------------------
(* An order that is let in again, beyond the window, finds on the book what *)
(* is left of its first life, and the two differ in their size only.        *)

\* An order of a depth, and a limit order that is the taker, has the funds of
\* the order stored under its id.
FundsMatchRows ==
    /\ \A side \in Sides : \A m \in depths[side] : rows[m.id].funds = m.funds
    /\ taker # NoOrder /\ taker.type = "limit" => rows[taker.id].funds = taker.funds

EntriesMatch == LimitsKept /\ FundsMatchRows

\* Rows that are stored stay, and nothing joins a depth.
LEMMA FundsStillMatch ==
    ASSUME Structure, EntriesMatch,
           \A id \in OrderIds : rows[id] # NoOrder => rows'[id] = rows[id],
           \A side \in Sides : depths'[side] \subseteq depths[side]
    PROVE  \A side \in Sides : \A m \in depths'[side] : rows'[m.id].funds = m.funds
<1>1. \A side \in Sides : \A m \in depths[side] : m.id \in OrderIds /\ rows[m.id] # NoOrder
  BY DEF Structure, DepthsOK, IsDepth, RestingOrders, EntriesMatch, LimitsKept, OrdersMatchRows
<1> QED
  BY <1>1 DEF EntriesMatch, FundsMatchRows

\* What is left of a maker keeps the funds of the maker.
LEMMA MatchMakerFunds ==
    ASSUME Structure, EntriesMatch, MatchMaker
    PROVE  FundsMatchRows'
<1> DEFINE maker == BestMaker
           size  == Min({Wanted, maker.size})
           less  == [maker EXCEPT !.size = @ - size]
<1>1. /\ taker' = Pay(maker, size) /\ rows' = rows /\ taker # NoOrder
      /\ depths' = [depths EXCEPT ![maker.side] = DecrSize(@, maker, size)]
  BY DEF MatchMaker, MeetsMaker
<1>2. /\ taker \in Takers /\ maker \in MakerDepth /\ maker \in RestingOrders
      /\ maker.side = Opposite(taker.side) /\ maker.side \in Sides
      /\ depths \in [Sides -> SUBSET RestingOrders]
  BY TradeFacts DEF Structure, VariablesTyped
<1>3. /\ taker'.id = taker.id /\ taker'.type = taker.type
      /\ taker.type = "limit" => taker'.funds = taker.funds
  BY <1>1, <1>2 DEF Pay, Takers, BuysByFunds
<1>4. less.id = maker.id /\ less.funds = maker.funds
  BY <1>2 DEF RestingOrders
<1>5. maker \in depths[maker.side]
  BY <1>2 DEF MakerDepth
<1> HIDE DEF less, maker, size
<1>6. \A side \in Sides : \A m \in depths'[side] :
         \E n \in depths[side] : n.id = m.id /\ n.funds = m.funds
  BY <1>1, <1>2, <1>4, <1>5 DEF DecrSize, less
<1>7. \A side \in Sides : \A m \in depths'[side] : rows'[m.id].funds = m.funds
  BY <1>1, <1>6 DEF EntriesMatch, FundsMatchRows
<1>8. taker'.type = "limit" => rows'[taker'.id].funds = taker'.funds
  <2>1. taker.type = "limit" => rows[taker.id].funds = taker.funds
    BY <1>1 DEF EntriesMatch, FundsMatchRows
  <2>2. rows' = rows
    BY <1>1
  <2> QED
    BY <1>3, <2>1, <2>2
<1> QED
  BY <1>7, <1>8 DEF FundsMatchRows

\* Every step keeps that.
LEMMA NextEntriesMatch ==
    ASSUME Structure, EntriesMatch, [Next]_vars
    PROVE  EntriesMatch'
<1>1. LimitsKept'
  BY NextKeepsLimits DEF EntriesMatch
<1>2. ASSUME NEW order \in Orders, StartOrder(order) PROVE FundsMatchRows'
  <2>1. /\ rows'[order.id] = order
        /\ \A id \in OrderIds : rows[id] # NoOrder => rows'[id] = rows[id]
    BY <1>2, RowsStay DEF StartOrder
  <2>2. depths' = depths /\ taker' = TakerOf(order)
    BY <1>2 DEF StartOrder
  <2>3. /\ TakerOf(order).type = order.type
        /\ order.type = "limit" => TakerOf(order) = order
    BY OrderFields
  <2>4. \A side \in Sides : depths'[side] \subseteq depths[side]
    BY <2>2
  <2>5. \A side \in Sides : \A m \in depths'[side] : rows'[m.id].funds = m.funds
    BY <2>1, <2>4, FundsStillMatch
  <2> QED
    BY <2>1, <2>2, <2>3, <2>5 DEF FundsMatchRows
<1>3. ASSUME NEW order \in Orders, RefuseOrder(order) \/ Cancel(order) PROVE FundsMatchRows'
  <2>1. /\ order.side \in Sides /\ taker' = NoOrder
        /\ \A id \in OrderIds : rows[id] # NoOrder => rows'[id] = rows[id]
    BY <1>3, OrderFields, RowsStay DEF RefuseOrder, Cancel, Receive, Idle
  <2>2. depths \in [Sides -> SUBSET RestingOrders]
    BY DEF Structure, VariablesTyped
  <2>3. \/ depths' = depths
        \/ depths' = [depths EXCEPT ![order.side] =
                         @ \ {m \in depths[order.side] : m.id = order.id}]
    BY <1>3 DEF RefuseOrder, Cancel, CancelOrder, Entry, bookVars
  <2>4. \A side \in Sides : depths'[side] \subseteq depths[side]
    BY <2>1, <2>2, <2>3
  <2>5. \A side \in Sides : \A m \in depths'[side] : rows'[m.id].funds = m.funds
    BY <2>1, <2>4, FundsStillMatch
  <2> QED
    BY <2>1, <2>5 DEF FundsMatchRows
<1>4. ASSUME Rest \/ Finish PROVE FundsMatchRows'
  <2>1. rows' = rows /\ taker' = NoOrder
    BY <1>4 DEF Rest, Finish
  <2>2. CASE Finish
    BY <2>1, <2>2 DEF Finish, EntriesMatch, FundsMatchRows
  <2>3. CASE Rest
    <3>1. /\ depths' = [depths EXCEPT ![taker.side] =
                           {m \in @ : m.id # taker.id} \cup {taker}]
          /\ depths \in [Sides -> SUBSET RestingOrders]
          /\ taker.type = "limit" /\ taker # NoOrder
      BY <2>3 DEF Rest, LoopOver, Rests, Add, Structure, VariablesTyped
    <3>2. \A side \in Sides : \A m \in depths'[side] :
             m \in depths[side] \/ m = taker
      BY <3>1
    <3> QED
      BY <2>1, <3>1, <3>2 DEF EntriesMatch, FundsMatchRows
  <2> QED
    BY <1>4, <2>2, <2>3
<1>5. ASSUME DivideByZero \/ Over \/ UNCHANGED vars PROVE FundsMatchRows'
  BY <1>5 DEF DivideByZero, Over, vars, bookVars, EntriesMatch, FundsMatchRows
<1>6. FundsMatchRows'
  BY <1>2, <1>3, <1>4, <1>5, MatchMakerFunds DEF Next, CallStep
<1> QED
  BY <1>1, <1>6 DEF EntriesMatch

\* And it holds at the start.
LEMMA InitEntriesMatch == Init => EntriesMatch
  BY DEF Init, EmptyBook, EntriesMatch, FundsMatchRows, LimitsKept, OrdersMatchRows,
     PartiesAreStored, PriceProtection, Sides

-----------------------------------------------------------------------------
(* The logs of the order book tell its whole history. *)

\* h tells how the logs s led to the depths d.
Recorded(s, d) == \E h : History(h, s) /\ h[Len(s)] = d

Recording == Recorded(logs, depths) /\ logSeq = Len(logs)

\* One more log.
LEMMA RecordsMore ==
    ASSUME NEW s, NEW d, Recorded(s, d), NEW log, log.seq = Len(s) + 1,
           NEW e, Tells(d, log, e)
    PROVE  Recorded(Append(s, log), e) /\ Len(Append(s, log)) = Len(s) + 1
<1> DEFINE n == Len(s)
           t == Append(s, log)
<1>1. PICK h : History(h, s) /\ h[n] = d
  BY DEF Recorded
<1>2. IsSequence(s) /\ n \in Nat
  BY <1>1, SequenceFacts DEF History
<1>3. /\ IsSequence(t) /\ Len(t) = n + 1 /\ t[n + 1] = log
      /\ \A i \in 1 .. n : t[i] = s[i]
  BY <1>2, AppendSequence
<1> DEFINE g == [k \in 0 .. n + 1 |-> IF k = n + 1 THEN e ELSE h[k]]
<1> HIDE DEF n, t
<1>4. /\ g[n + 1] = e
      /\ \A k \in 0 .. n : g[k] = h[k]
  BY <1>2
<1> HIDE DEF g
<1>5. g[0] = NoDepths
  BY <1>1, <1>2, <1>4 DEF History
<1>6. ASSUME NEW k \in 1 .. n + 1 PROVE t[k].seq = k /\ Tells(g[k - 1], t[k], g[k])
  <2>1. CASE k = n + 1
    <3>1. k - 1 = n /\ n \in 0 .. n
      BY <1>2, <2>1
    <3> QED
      BY <1>1, <1>3, <1>4, <2>1, <3>1 DEF n
  <2>2. CASE k # n + 1
    <3>1. k \in 1 .. n /\ k \in 0 .. n /\ k - 1 \in 0 .. n
      BY <1>2, <2>2
    <3>2. s[k].seq = k /\ Tells(h[k - 1], s[k], h[k])
      BY <1>1, <3>1 DEF History, n
    <3> QED
      BY <1>3, <1>4, <3>1, <3>2
  <2> QED
    BY <2>1, <2>2
<1>7. History(g, t)
  BY <1>3, <1>5, <1>6 DEF History
<1> QED
  BY <1>3, <1>4, <1>7 DEF Recorded, n, t

\* The depths are what the mirror needs.
LEMMA DepthsAreGood ==
    ASSUME Structure, EntriesMatch, FiniteDepths
    PROVE  GoodDepths(depths)
<1>1. depths = [side \in Sides |-> depths[side]]
  BY DEF Structure, VariablesTyped
<1>2. \A side \in Sides : IsLine(depths[side], side)
  BY DEF Structure, DepthsOK, FiniteDepths, IsLine
<1>3. ASSUME NEW m \in depths["buy"], NEW n \in depths["sell"] PROVE m.id # n.id
  <2>1. "buy" \in Sides /\ "sell" \in Sides
    BY DEF Sides
  <2>2. m.side = "buy" /\ n.side = "sell"
    BY <2>1 DEF Structure, DepthsOK, IsDepth
  <2>3. rows[m.id].side = m.side /\ rows[n.id].side = n.side
    BY <2>1 DEF EntriesMatch, LimitsKept, OrdersMatchRows
  <2> QED
    BY <2>2, <2>3
<1> QED
  BY <1>1, <1>2, <1>3 DEF GoodDepths

\* At the start there is nothing to tell.
LEMMA InitRecords == Init => Recording
<1> SUFFICES ASSUME Init PROVE Recording
  OBVIOUS
<1>1. logs = << >> /\ depths = NoDepths /\ logSeq = 0
  BY DEF Init, EmptyBook, NoDepths
<1> DEFINE h == [k \in {0} |-> NoDepths]
<1>2. h[0] = NoDepths
  OBVIOUS
<1> HIDE DEF h
<1>3. IsSequence(<< >>) /\ Len(<< >>) = 0
  BY EmptySequence
<1>4. IsSequence(logs) /\ Len(logs) = 0
  BY <1>1, <1>3
<1>5. History(h, logs)
  BY <1>2, <1>4 DEF History
<1> QED
  BY <1>1, <1>2, <1>4, <1>5 DEF Recording, Recorded

\* An iteration tells the trade, and that a maker bought out is gone.
LEMMA MatchMakerRecords ==
    ASSUME Structure, EntriesMatch, FiniteDepths, Recording, MatchMaker
    PROVE  Recording'
<1> DEFINE maker == BestMaker
           size  == Min({Wanted, maker.size})
           match == MatchLog(logSeq + 1, tradeSeq + 1, taker, maker, size)
           done  == DoneLog(logSeq + 2, [maker EXCEPT !.size = 0], 0, "filled")
           new   == TradeLogs(maker, size)
           e     == Resize(depths, maker, maker.size - size)
           s     == Append(logs, match)
<1>1. /\ logs' = logs \o new /\ logSeq' = logSeq + Len(new)
      /\ depths' = [depths EXCEPT ![maker.side] = DecrSize(@, maker, size)]
  BY DEF MatchMaker
<1>2. /\ maker \in MakerDepth /\ maker \in RestingOrders /\ maker.side \in Sides
      /\ size \in Nat /\ size > 0 /\ size <= maker.size
      /\ taker \in Takers
  BY TradeFacts
<1>3. maker \in depths[maker.side] /\ maker.size \in Nat
  BY <1>2, TradeFacts DEF MakerDepth, RestingOrders
<1>4. maker \in All(depths)
  BY <1>2, <1>3 DEF All, Sides
<1>5. logs \in Seq(Logs) /\ logSeq \in Nat /\ tradeSeq \in Nat /\ logSeq = Len(logs)
      /\ Recorded(logs, depths)
  BY DEF Structure, VariablesTyped, Recording
<1>6. /\ match \in Logs /\ match.kind = "match" /\ match.maker = maker.id
      /\ match.price = maker.price /\ match.side = maker.side
      /\ match.size = size /\ match.seq = logSeq + 1
  BY <1>2, <1>5 DEF MatchLog, Logs, Takers, RestingOrders
<1>7. done \in Logs /\ done.kind = "done" /\ done.id = maker.id /\ done.seq = logSeq + 2
  BY <1>2, <1>5 DEF DoneLog, Logs, RestingOrders
<1> HIDE DEF maker, size, match, done
<1>8. depths' = e
  <2>1. DecrSize(depths[maker.side], maker, size) =
           Resized(depths[maker.side], maker, maker.size - size)
    BY <1>2, DecrSizeResizes
  <2> QED
    BY <1>1, <2>1 DEF Resize
<1> HIDE DEF e
<1>9. Tells(depths, match, e)
  BY <1>2, <1>4, <1>6 DEF Tells, Trades, e
<1>10. Recorded(s, e) /\ Len(s) = logSeq + 1
  BY <1>5, <1>6, <1>9, RecordsMore
<1>11. CASE size = maker.size
  <2>1. new = <<match, done>>
    BY <1>11 DEF TradeLogs, match, done, maker, size
  <2>2. logs \o <<match, done>> = Append(Append(logs, match), done)
        /\ Len(<<match, done>>) = 2
    BY <1>5, <1>6, <1>7
  <2> HIDE DEF new
  <2>3. logs' = Append(s, done) /\ logSeq' = logSeq + 2
    BY <1>1, <2>1, <2>2
  <2>4. NotOn(e, done.id)
    <3>1. maker.size - size = 0 /\ 0 < maker.size
      BY <1>2, <1>3, <1>11
    <3>2. All(e) = Resized(All(depths), maker, 0)
      <4>1. GoodDepths(depths)
        BY DepthsAreGood
      <4> QED
        BY <1>4, <3>1, <4>1, ResizesDepths DEF e
    <3>3. All(e) = All(depths) \ {maker}
      BY <3>2 DEF Resized
    <3>4. \A x \in All(depths) : x.id = maker.id => x = maker
      BY <1>4, DepthsAreGood, GoodOrders
    <3> QED
      BY <1>7, <3>3, <3>4 DEF NotOn
  <2>5. Tells(e, done, e)
    BY <1>7, <2>4 DEF Tells, IsGone
  <2>6. done.seq = Len(s) + 1
    BY <1>5, <1>7, <1>10
  <2> HIDE DEF s
  <2>7. Recorded(Append(s, done), e) /\ Len(Append(s, done)) = Len(s) + 1
    BY <1>10, <2>5, <2>6, RecordsMore
  <2> QED
    BY <1>5, <1>8, <1>10, <2>3, <2>7 DEF Recording
<1>12. CASE size # maker.size
  <2>1. new = <<match>>
    BY <1>12 DEF TradeLogs, match, maker, size
  <2>2. logs \o <<match>> = Append(logs, match) /\ Len(<<match>>) = 1
    BY <1>5, <1>6
  <2> HIDE DEF new
  <2> QED
    BY <1>1, <1>8, <1>10, <2>1, <2>2 DEF Recording
<1> QED
  BY <1>11, <1>12

\* The call ends: the log tells that the taker joins its side, or is gone; or,
\* of an order that was let in again, that what is left of its first life has
\* another size now, or the size it had.
LEMMA CallEndsRecords ==
    ASSUME Structure, EntriesMatch, FiniteDepths, Recording, Rest \/ Finish
    PROVE  Recording'
<1> DEFINE log == ClosingLog(logSeq + 1, taker)
<1>1. logs' = Append(logs, log) /\ logSeq' = logSeq + 1 /\ taker # NoOrder
  BY DEF Rest, Finish, LoopOver
<1>2. /\ taker \in Takers /\ taker.side \in Sides /\ taker.size \in Nat
      /\ logs \in Seq(Logs) /\ logSeq \in Nat /\ logSeq = Len(logs)
      /\ Recorded(logs, depths) /\ GoodDepths(depths)
  BY <1>1, DepthsAreGood DEF Structure, VariablesTyped, Takers, Recording
<1>3. log.seq = logSeq + 1 /\ log.id = taker.id
  BY <1>2 DEF ClosingLog, OpenLog, DoneLog, Takers
<1>4. ASSUME NEW m \in All(depths), m.id = taker.id
      PROVE  /\ m \in RestingOrders /\ taker.type = "limit"
             /\ m.side = taker.side /\ m.price = taker.price /\ m.funds = taker.funds
             /\ m \in depths[taker.side]
             /\ \A x \in depths[taker.side] : x.id = taker.id => x = m
  <2>1. /\ m \in RestingOrders /\ m.side \in Sides /\ m \in depths[m.side]
        /\ \A x \in All(depths) : x.id = m.id => x = m
    BY <1>2, GoodOrders
  <2>2. /\ rows[m.id].type = "limit" /\ rows[m.id].side = m.side
        /\ rows[m.id].price = m.price /\ rows[m.id].funds = m.funds
    BY <2>1 DEF EntriesMatch, LimitsKept, OrdersMatchRows, FundsMatchRows
  <2>3. rows[taker.id].type = taker.type /\ rows[taker.id].side = taker.side
    BY <1>1 DEF EntriesMatch, LimitsKept, OrdersMatchRows
  <2>4. taker.type = "limit"
    BY <1>4, <2>2, <2>3
  <2>5. rows[taker.id].price = taker.price /\ rows[taker.id].funds = taker.funds
    BY <1>1, <2>4 DEF EntriesMatch, LimitsKept, OrdersMatchRows, FundsMatchRows
  <2>6. depths[taker.side] \subseteq All(depths)
    BY <1>2 DEF All, Sides
  <2> QED
    BY <1>4, <2>1, <2>2, <2>3, <2>4, <2>5, <2>6
<1>5. CASE Rest
  <2>1. Rests(taker) /\ taker.size > 0
    BY <1>5 DEF Rest, Rests
  <2>2. taker \in RestingOrders
    BY <1>1, <1>2, <2>1 DEF Structure, TakerOK, Takers, RestingOrders, Rests
  <2>3. /\ log.kind = "open" /\ log.remaining = taker.size
        /\ log.price = taker.price /\ log.side = taker.side
    BY <2>1 DEF ClosingLog, OpenLog
  <2> HIDE DEF log
  <2>4. Tells(depths, log, depths')
    <3>1. CASE NotOn(depths, taker.id)
      <4>1. \A x \in depths[taker.side] : x.id # taker.id
        BY <1>2, <3>1 DEF NotOn, All, Sides
      <4>2. {x \in depths[taker.side] : x.id # taker.id} = depths[taker.side]
        BY <4>1
      <4>3. depths' = With(depths, taker)
        BY <1>5, <4>2 DEF Rest, With, Add
      <4> QED
        BY <1>3, <2>2, <2>3, <3>1, <4>3 DEF Tells, Opens
    <3>2. CASE ~ NotOn(depths, taker.id)
      <4>1. PICK m \in All(depths) : m.id = taker.id
        BY <3>2 DEF NotOn
      <4>2. /\ m \in RestingOrders /\ m.side = taker.side /\ m.price = taker.price
            /\ m.funds = taker.funds /\ m \in depths[taker.side]
            /\ \A x \in depths[taker.side] : x.id = taker.id => x = m
        BY <1>4, <4>1
      <4>3. WithSize(m, taker.size) = taker
        BY <2>2, <4>1, <4>2 DEF WithSize, RestingOrders
      <4>4. {x \in depths[taker.side] : x.id # taker.id} = depths[taker.side] \ {m}
        BY <4>1, <4>2
      <4>5. depths' = Resize(depths, m, taker.size)
        <5>1. Add(depths[taker.side], taker) = Resized(depths[taker.side], m, taker.size)
          BY <2>1, <4>3, <4>4 DEF Add, Resized
        <5> QED
          BY <1>5, <4>2, <5>1 DEF Rest, Resize
      <4> QED
        BY <1>2, <1>3, <2>3, <4>1, <4>2, <4>5 DEF Tells, Reopens
    <3> QED
      BY <3>1, <3>2
  <2>5. Recorded(Append(logs, log), depths') /\ Len(Append(logs, log)) = Len(logs) + 1
    BY <1>2, <1>3, <2>4, RecordsMore
  <2> QED
    BY <1>1, <1>2, <2>5 DEF Recording
<1>6. CASE Finish
  <2>1. ~ Rests(taker) /\ depths' = depths
    BY <1>6 DEF Finish
  <2>2. /\ log.kind = "done"
        /\ taker.type = "limit" => /\ log.remaining = 0 /\ log.side = taker.side
                                   /\ log.price = taker.price
    BY <1>2, <2>1 DEF ClosingLog, DoneLog, Rests
  <2> HIDE DEF log
  <2>3. Tells(depths, log, depths)
    <3>1. CASE NotOn(depths, taker.id)
      BY <1>3, <2>2, <3>1 DEF Tells, IsGone
    <3>2. CASE ~ NotOn(depths, taker.id)
      <4>1. PICK m \in All(depths) : m.id = taker.id
        BY <3>2 DEF NotOn
      <4>2. taker.type = "limit" /\ m.side = taker.side /\ m.price = taker.price
        BY <1>4, <4>1
      <4> QED
        BY <1>3, <2>2, <4>1, <4>2 DEF Tells, Lingers
    <3> QED
      BY <3>1, <3>2
  <2>4. Recorded(Append(logs, log), depths) /\ Len(Append(logs, log)) = Len(logs) + 1
    BY <1>2, <1>3, <2>3, RecordsMore
  <2> QED
    BY <1>1, <1>2, <2>1, <2>4 DEF Recording
<1> QED
  BY <1>5, <1>6

\* A cancellation tells that the order has left, when it was there.
LEMMA CancelRecords ==
    ASSUME Structure, EntriesMatch, FiniteDepths, Recording,
           NEW order \in Orders, Cancel(order)
    PROVE  Recording'
<1> DEFINE entry == {e \in depths[order.side] : e.id = order.id}
           m     == CHOOSE e \in entry : TRUE
           done  == DoneLog(logSeq + 1, m, m.size, "cancelled")
<1>1. order.side \in Sides
  BY OrderFields
<1>2. /\ logs \in Seq(Logs) /\ logSeq \in Nat /\ logSeq = Len(logs)
      /\ depths \in [Sides -> SUBSET RestingOrders]
      /\ Recorded(logs, depths)
  BY DEF Structure, VariablesTyped, Recording
<1>3. \/ depths' = depths /\ logSeq' = logSeq /\ logs' = logs \o << >>
      \/ /\ entry # {}
         /\ depths' = [depths EXCEPT ![order.side] = @ \ entry]
         /\ logSeq' = logSeq + 1
         /\ logs' = logs \o <<done>>
  BY DEF Cancel, CancelOrder, Entry
<1>4. CASE depths' = depths /\ logSeq' = logSeq /\ logs' = logs \o << >>
  <2>1. logs' = logs
    BY <1>2, <1>4
  <2> QED
    BY <1>2, <1>4, <2>1 DEF Recording
<1>5. CASE /\ entry # {}
           /\ depths' = [depths EXCEPT ![order.side] = @ \ entry]
           /\ logSeq' = logSeq + 1
           /\ logs' = logs \o <<done>>
  <2>1. m \in depths[order.side] /\ m.id = order.id
    BY <1>5
  <2> HIDE DEF m
  <2>2. IsDepth(depths[order.side], order.side)
    BY <1>1 DEF Structure, DepthsOK
  <2>3. entry = {m} /\ m.side = order.side /\ m \in RestingOrders
    BY <2>1, <2>2 DEF IsDepth
  <2>4. m \in All(depths)
    BY <1>1, <2>1 DEF All, Sides
  <2>5. /\ done \in Logs /\ done.kind = "done" /\ done.id = m.id /\ done.remaining = m.size
        /\ done.price = m.price /\ done.side = m.side /\ done.seq = logSeq + 1
    BY <1>2, <2>3 DEF DoneLog, Logs, RestingOrders
  <2> HIDE DEF entry, done
  <2>6. depths' = Resize(depths, m, 0)
    BY <1>1, <1>2, <1>5, <2>3 DEF Resize, Resized
  <2>7. Tells(depths, done, Resize(depths, m, 0))
    BY <2>4, <2>5 DEF Tells, Leaves
  <2>8. Recorded(Append(logs, done), Resize(depths, m, 0)) /\ Len(Append(logs, done)) = Len(logs) + 1
    BY <1>2, <2>5, <2>7, RecordsMore
  <2>9. logs' = Append(logs, done)
    BY <1>2, <1>5, <2>5
  <2> QED
    BY <1>2, <1>5, <2>6, <2>8, <2>9 DEF Recording
<1> QED
  BY <1>3, <1>4, <1>5

\* No step of the book leaves its logs behind.
LEMMA NextRecords ==
    ASSUME Structure, EntriesMatch, FiniteDepths, Recording, [Next]_vars
    PROVE  Recording'
<1>1. CASE UNCHANGED <<logs, depths, logSeq>>
  BY <1>1 DEF Recording
<1>2. ASSUME NEW order \in Orders, StartOrder(order) \/ RefuseOrder(order)
      PROVE  UNCHANGED <<logs, depths, logSeq>>
  BY <1>2 DEF StartOrder, RefuseOrder, bookVars
<1>3. CASE DivideByZero \/ Over \/ UNCHANGED vars
  BY <1>1, <1>3 DEF DivideByZero, Over, vars, bookVars
<1>4. ASSUME NEW order \in Orders, Cancel(order)
      PROVE  Recording'
  BY <1>4, CancelRecords
<1>5. CASE MatchMaker \/ Rest \/ Finish
  BY <1>5, MatchMakerRecords, CallEndsRecords
<1> QED
  BY <1>1, <1>2, <1>3, <1>4, <1>5 DEF Next, CallStep

\* What the logs have told so far, at every step of every call.
Told == Recording /\ GoodDepths(depths)

\* So it is as long as the process runs.
LEMMA TheBookIsTold == Spec => []Told
<1> DEFINE IInv == Structure /\ EntriesMatch /\ BookSound /\ Recording
<1>1. Init => IInv
  BY InitStructure, InitEntriesMatch, InitRecords, InitSound
<1>2. IInv /\ [Next]_vars => IInv'
  BY NextStructure, NextEntriesMatch, NextSound, NextRecords DEF BookSound
<1>3. IInv => Told
  BY DepthsAreGood DEF Told, BookSound
<1> QED
  BY <1>1, <1>2, <1>3, PTL DEF Spec

\* The logs as the mirror reads them, one after the other: the book h and the
\* mirror g after each of them.
Reading(h, g) ==
    /\ IsSequence(logs) /\ Len(logs) \in Nat
    /\ \A k \in 1 .. Len(logs) : logs[k].seq = k
    /\ h[Len(logs)] = depths
    /\ Folds("apply", g, NewMirror, logs)
    /\ MirrorsHistory(g, h, logs)
    /\ g[0] = NewMirror
    /\ After(NewMirror, logs) = g[Len(logs)]

\* The mirror can read them.
LEMMA LogsAreRead == Told => \E h, g : Reading(h, g)
<1> SUFFICES ASSUME Told PROVE \E h, g : Reading(h, g)
  OBVIOUS
<1>1. PICK h : History(h, logs) /\ h[Len(logs)] = depths
  BY DEF Told, Recording, Recorded
<1>2. IsSequence(logs) /\ Len(logs) \in Nat /\ \A k \in 1 .. Len(logs) : logs[k].seq = k
  BY <1>1, SequenceFacts DEF History
<1>3. PICK g : Folds("apply", g, NewMirror, logs) /\ After(NewMirror, logs) = g[Len(logs)]
  BY <1>2, ApplyFolds
<1>4. MirrorsHistory(g, h, logs)
  BY <1>1, <1>3, HistoryIsMirrored
<1>5. g[0] = NewMirror
  BY <1>3 DEF Folds
<1> QED
  BY <1>1, <1>2, <1>3, <1>4, <1>5 DEF Reading

\* The mirror of what has been told is the book.
LEMMA ToldIsMirrored == Told => MirrorIsBook
<1> SUFFICES ASSUME Told PROVE MirrorIsBook
  OBVIOUS
<1> DEFINE mirror == After(NewMirror, logs)
<1>1. PICK h, g : Reading(h, g)
  BY LogsAreRead
<1>2. Mirrors(mirror, depths)
  <2>1. Len(logs) \in 0 .. Len(logs)
    BY <1>1 DEF Reading
  <2> QED
    BY <1>1, <2>1 DEF Reading, MirrorsHistory
<1> HIDE DEF mirror
<1>3. mirror.lost = FALSE /\ mirror.orders = {OrderOf(m) : m \in All(depths)}
      /\ mirror.levels = LevelsOf(depths)
  BY <1>2 DEF Mirrors
<1>4. mirror.orders = {[id |-> m.id, size |-> m.size, side |-> m.side, price |-> m.price] :
                          m \in depths["buy"] \cup depths["sell"]}
  BY <1>3 DEF OrderOf, All
<1>5. ASSUME NEW side \in Sides, NEW price \in Prices
      PROVE  mirror.levels[side][price] =
               [size |-> Volume({m \in depths[side] : m.price = price}),
                count |-> Cardinality({m \in depths[side] : m.price = price})]
  BY <1>3 DEF LevelsOf, LevelOf, There
<1> QED
  BY <1>3, <1>4, <1>5 DEF MirrorIsBook, mirror

\* The mirror never panics over a log and has, after every log, the orders of
\* the book and, at each price, their number and size, orders let in twice
\* included: saveOrder keeps its levels in step with what ApplyOrder and
\* CancelOrder do to the depths.
THEOREM MirrorKeepsUp == Spec => []MirrorIsBook
<1>1. Spec => []Told
  BY TheBookIsTold
<1>2. Told => MirrorIsBook
  BY ToldIsMirrored
<1> QED
  BY <1>1, <1>2, PTL

\* What is left of a sequence after its first n elements.
LEMMA LastPart ==
    ASSUME NEW s, IsSequence(s), NEW n \in 0 .. Len(s), Len(s) \in Nat
    PROVE  /\ IsSequence(SubSeq(s, n + 1, Len(s)))
           /\ Len(SubSeq(s, n + 1, Len(s))) = Len(s) - n
           /\ \A i \in 1 .. Len(s) - n : SubSeq(s, n + 1, Len(s))[i] = s[n + i]
<1> DEFINE t == SubSeq(s, n + 1, Len(s))
<1>1. \A i \in n + 1 .. Len(s) : s[i] \in Range(s)
  BY SequenceFacts
<1>2. /\ t \in Seq(Range(s))
      /\ Len(t) = IF n + 1 <= Len(s) THEN Len(s) - (n + 1) + 1 ELSE 0
      /\ \A i \in 1 .. Len(s) - (n + 1) + 1 : t[i] = s[n + 1 + i - 1]
  BY <1>1, SubSeqProperties
<1> HIDE DEF t
<1>3. IsSequence(t)
  BY <1>2, SequenceOver
<1>4. \A i : i \in 1 .. Len(s) - n => i \in 1 .. Len(s) - (n + 1) + 1 /\ n + 1 + i - 1 = n + i
  OBVIOUS
<1>5. Len(t) = Len(s) - n
  BY <1>2
<1>6. \A i \in 1 .. Len(s) - n : t[i] = s[n + i]
  BY <1>2, <1>4
<1> QED
  BY <1>3, <1>5, <1>6 DEF t

\* Nothing to show.
LEMMA ShowsNothing == ASSUME NEW view PROVE ShownAll(view, << >>) = view
<1>1. IsSequence(<< >>) /\ Len(<< >>) = 0
  BY EmptySequence
<1>2. PICK g : Folds("show", g, view, << >>) /\ ShownAll(view, << >>) = g[0]
  BY <1>1, ShowFolds
<1> QED
  BY <1>2 DEF Folds

\* One change to show.
LEMMA ShowsOne == ASSUME NEW view, NEW c PROVE ShownAll(view, <<c>>) = Shown(view, c)
<1> DEFINE s == <<c>>
<1>1. s \in Seq({c}) /\ Len(s) = 1 /\ s[1] = c
  OBVIOUS
<1> HIDE DEF s
<1>2. IsSequence(s)
  BY <1>1, SequenceOver
<1>3. PICK g : Folds("show", g, view, s) /\ ShownAll(view, s) = g[1]
  BY <1>1, <1>2, ShowFolds
<1>4. g[1] = Stepped("show", g[0], c) /\ g[0] = view
  BY <1>1, <1>3 DEF Folds
<1> QED
  BY <1>3, <1>4 DEF Stepped, s

\* What a client has that started on mirror m0 and follows m: the levels of m
\* but for those the snapshot of m0 left out and no change has told of.
Viewed(m0, m, told) ==
    [side \in Sides |-> [price \in Prices |->
       IF BeyondBest(m0, side, price) /\ <<side, price>> \notin told
       THEN 0 ELSE m.levels[side][price].size]]

Following(m0, m, told) ==
    [mirror |-> m, view |-> Viewed(m0, m, told), told |-> told]

\* The levels told of after one more log.
ToldAfter(told, m, log) ==
    told \cup {<<Change(m, log)[i].side, Change(m, log)[i].price>> :
                  i \in DOMAIN Change(m, log)}

\* The snapshot leaves out what is beyond the best levels, and nothing else.
LEMMA SnapshotIsViewed ==
    ASSUME NEW m
    PROVE  Watching(m) = Following(m, m, {})
<1>1. ASSUME NEW side \in Sides, NEW price \in Prices
      PROVE  BeyondBest(m, side, price)
               <=> Cardinality(VisitedBefore(m, side, price)) >= SnapshotLevels
  <2>1. VisitedBefore(m, side, price) =
          {p \in {q \in Prices : m.levels[side][q] # NoLevel} :
              (side = "buy" /\ p > price) \/ (side = "sell" /\ p < price)}
    BY DEF VisitedBefore, Sides
  <2> QED
    BY Zenon, <2>1 DEF BeyondBest
<1>2. \A side \in Sides : \A price \in Prices :
         (IF Cardinality(VisitedBefore(m, side, price)) >= SnapshotLevels
          THEN 0 ELSE m.levels[side][price].size)
           = (IF BeyondBest(m, side, price) /\ <<side, price>> \notin {}
              THEN 0 ELSE m.levels[side][price].size)
  BY Zenon, <1>1
<1>3. SnapshotLevel2(m) = Viewed(m, m, {})
  BY <1>2 DEF SnapshotLevel2, Viewed
<1> QED
  BY Zenon, <1>3 DEF Watching, Following

\* The next log reaches the mirror and the client.
LEMMA ClientFollows ==
    ASSUME NEW m0, NEW told, NEW d, NEW m, Mirrors(m, d), NEW e, NEW log,
           Mirrors(ApplyLog(m, log), e), Follows(m, ApplyLog(m, log), log)
    PROVE  Follow(Following(m0, m, told), log)
             = Following(m0, ApplyLog(m, log), ToldAfter(told, m, log))
<1> DEFINE n    == ApplyLog(m, log)
           view == Viewed(m0, m, told)
           new  == Change(m, log)
           more == ToldAfter(told, m, log)
           c    == [seq |-> n.seq, side |-> log.side, price |-> log.price,
                    size |-> n.levels[log.side][log.price].size]
<1>1. new = IF n.seq > m.seq THEN <<c>> ELSE << >>
  BY DEF Change
<1>2. Follow(Following(m0, m, told), log) =
         [mirror |-> n, view |-> ShownAll(view, new), told |-> more]
  BY Zenon DEF Follow, ShownAll, Following, ToldAfter
<1>3. m.seq \in Nat /\ (n = m \/ OneChange(m, n, log.seq, log.side, log.price))
  BY DEF Mirrors, Follows
<1> SUFFICES ShownAll(view, new) = Viewed(m0, n, more)
  BY Zenon, <1>2 DEF Following
<1>4. CASE n = m
  <2>1. new = << >>
    BY <1>1, <1>3, <1>4
  <2>2. DOMAIN new = {}
    BY <2>1
  <2>3. more = told
    BY <2>2 DEF ToldAfter
  <2> HIDE DEF new, more, view, n
  <2>4. ShownAll(view, new) = view
    BY <2>1, ShowsNothing
  <2> QED
    BY <1>4, <2>3, <2>4 DEF view
<1>5. CASE n # m
  <2>1. /\ OneChange(m, n, log.seq, log.side, log.price)
        /\ log.side \in Sides /\ log.price \in Prices
    BY <1>5 DEF Follows
  <2>2. n.seq > m.seq
    BY <1>3, <2>1 DEF OneChange
  <2>3. new = <<c>>
    BY <1>1, <2>2
  <2>4. c.side = log.side /\ c.price = log.price
        /\ c.size = n.levels[log.side][log.price].size
    OBVIOUS
  <2>5. DOMAIN new = {1} /\ new[1] = c
    BY <2>3
  <2>6. more = told \cup {<<log.side, log.price>>}
    BY <2>4, <2>5 DEF ToldAfter
  <2> HIDE DEF new, more, view, n, c
  <2>7. ShownAll(view, new) = Shown(view, c)
    BY <2>3, ShowsOne
  <2>8. Shown(view, c) = Viewed(m0, n, more)
    <3> DEFINE LeftOut(side, price) == BeyondBest(m0, side, price) /\ <<side, price>> \notin told
               line == [view[log.side] EXCEPT ![log.price] = c.size]
    <3>1. view = [side \in Sides |-> [price \in Prices |->
                    IF LeftOut(side, price) THEN 0 ELSE m.levels[side][price].size]]
      BY DEF view, Viewed
    <3>2. Shown(view, c) = [view EXCEPT ![log.side][log.price] = c.size]
      BY <2>4 DEF Shown
    <3> HIDE DEF LeftOut
    <3>3. line = [price \in Prices |-> IF price = log.price THEN c.size
                     ELSE IF LeftOut(log.side, price) THEN 0 ELSE m.levels[log.side][price].size]
      BY <2>1, <3>1
    <3>4. Shown(view, c) = [view EXCEPT ![log.side] = line]
      BY Zenon, <3>2
    <3> HIDE DEF line
    <3>5. Shown(view, c) = [side \in Sides |-> IF side = log.side THEN line
             ELSE [price \in Prices |-> IF LeftOut(side, price) THEN 0
                                        ELSE m.levels[side][price].size]]
      BY <2>1, <3>1, <3>4
    <3>6. Shown(view, c) = [side \in Sides |-> [price \in Prices |->
             IF side = log.side /\ price = log.price THEN c.size
             ELSE IF LeftOut(side, price) THEN 0 ELSE m.levels[side][price].size]]
      BY <3>3, <3>5
    <3>7. ASSUME NEW side \in Sides, NEW price \in Prices
          PROVE  (IF side = log.side /\ price = log.price THEN c.size
                  ELSE IF LeftOut(side, price) THEN 0 ELSE m.levels[side][price].size)
                 = (IF BeyondBest(m0, side, price) /\ <<side, price>> \notin more
                    THEN 0 ELSE n.levels[side][price].size)
      <4>1. CASE side = log.side /\ price = log.price
        <5>1. <<side, price>> \in more
          BY <2>6, <4>1
        <5> QED
          BY <2>4, <4>1, <5>1
      <4>2. CASE ~(side = log.side /\ price = log.price)
        <5>1. n.levels[side][price] = m.levels[side][price]
          BY <2>1, <4>2 DEF OneChange
        <5>2. <<side, price>> \in more <=> <<side, price>> \in told
          BY <2>6, <4>2
        <5> QED
          BY <4>2, <5>1, <5>2 DEF LeftOut
      <4> QED
        BY <4>1, <4>2
    <3> QED
      BY <3>6, <3>7 DEF Viewed
  <2> QED
    BY <2>7, <2>8
<1> QED
  BY <1>4, <1>5

\* From the snapshot of any moment on, the client follows the mirror.
LEMMA ClientKeepsUp ==
    ASSUME NEW h, NEW g, Reading(h, g), NEW n \in 0 .. Len(logs)
    PROVE  \E told : FollowedAll(Watching(g[n]), SubSeq(logs, n + 1, Len(logs)))
                       = Following(g[n], g[Len(logs)], told)
<1> DEFINE t == SubSeq(logs, n + 1, Len(logs))
           left == Len(logs) - n
<1>1. /\ IsSequence(logs) /\ Len(logs) \in Nat
      /\ Folds("apply", g, NewMirror, logs) /\ MirrorsHistory(g, h, logs)
  BY DEF Reading
<1>2. IsSequence(t) /\ Len(t) = left /\ \A i \in 1 .. left : t[i] = logs[n + i]
  BY <1>1, LastPart
<1>3. left \in Nat /\ n + left = Len(logs)
  BY <1>1
<1> HIDE DEF t, left
<1>4. PICK c : Folds("follow", c, Watching(g[n]), t) /\ FollowedAll(Watching(g[n]), t) = c[left]
  BY <1>2, FollowFolds
<1> DEFINE Good == {k \in 0 .. left : \E told : c[k] = Following(g[n], g[n + k], told)}
<1>5. 0 \in Good
  <2>1. c[0] = Watching(g[n]) /\ n + 0 = n
    BY <1>4 DEF Folds
  <2>2. c[0] = Following(g[n], g[n + 0], {})
    BY Zenon, <2>1, SnapshotIsViewed
  <2> QED
    BY <1>3, <2>2
<1>6. ASSUME NEW k \in 1 .. left, k - 1 \in Good PROVE k \in Good
  <2> DEFINE at == n + k
  <2>1. /\ at \in 1 .. Len(logs) /\ n + (k - 1) = at - 1
        /\ at - 1 \in 0 .. Len(logs) /\ at \in 0 .. Len(logs)
    BY <1>1, <1>3
  <2>2. t[k] = logs[at]
    BY <1>2
  <2>3. PICK told : c[k - 1] = Following(g[n], g[n + (k - 1)], told)
    BY <1>6
  <2> HIDE DEF at
  <2>4. c[k - 1] = Following(g[n], g[at - 1], told)
    BY Zenon, <2>1, <2>3
  <2>5. c[k] = Follow(c[k - 1], t[k])
    <3>1. c[k] = Stepped("follow", c[k - 1], t[k])
      BY <1>2, <1>4 DEF Folds
    <3> QED
      BY <3>1 DEF Stepped
  <2>6. g[at] = ApplyLog(g[at - 1], logs[at])
    <3>1. g[at] = Stepped("apply", g[at - 1], logs[at])
      BY <1>1, <2>1 DEF Folds
    <3> QED
      BY <3>1 DEF Stepped
  <2>7. Mirrors(g[at - 1], h[at - 1]) /\ Mirrors(g[at], h[at])
        /\ Follows(g[at - 1], g[at], logs[at])
    BY <1>1, <2>1 DEF MirrorsHistory
  <2>8. \E more : Follow(Following(g[n], g[at - 1], told), logs[at])
                    = Following(g[n], g[at], more)
    <3> DEFINE m0  == g[n]
               m   == g[at - 1]
               d   == h[at - 1]
               e   == h[at]
               log == logs[at]
    <3>1. Mirrors(m, d) /\ Mirrors(ApplyLog(m, log), e)
          /\ Follows(m, ApplyLog(m, log), log)
      BY Zenon, <2>6, <2>7
    <3> HIDE DEF m0, m, d, e, log
    <3>2. Follow(Following(m0, m, told), log)
            = Following(m0, ApplyLog(m, log), ToldAfter(told, m, log))
      BY <3>1, ClientFollows
    <3> QED
      BY Zenon, <2>6, <3>2 DEF m0, m, log
  <2>9. \E more : c[k] = Following(g[n], g[at], more)
    BY Zenon, <2>2, <2>4, <2>5, <2>8
  <2>10. \E more : c[k] = Following(g[n], g[n + k], more)
    BY Zenon, <2>9 DEF at
  <2>11. k \in 0 .. left
    BY <1>3
  <2> QED
    BY Zenon, <2>10, <2>11
<1> HIDE DEF Good
<1>7. left \in Good
  BY <1>3, <1>5, <1>6, NumberInduction
<1>8. \E told : c[left] = Following(g[n], g[n + left], told)
  BY <1>7 DEF Good
<1> QED
  BY Zenon, <1>3, <1>4, <1>8 DEF t

\* A client of the mirror follows it, whenever it came.
LEMMA ToldIsFollowed == Told => ChangesTellLevels
<1> SUFFICES ASSUME Told PROVE ChangesTellLevels
  OBVIOUS
<1>1. PICK h, g : Reading(h, g)
  BY LogsAreRead
<1>2. /\ IsSequence(logs) /\ Folds("apply", g, NewMirror, logs)
      /\ After(NewMirror, logs) = g[Len(logs)]
  BY <1>1 DEF Reading
<1> SUFFICES ASSUME NEW n \in 0 .. Len(logs)
             PROVE  LET start  == After(NewMirror, SubSeq(logs, 1, n))
                        client == FoldLeft(Follow, Watching(start),
                                           SubSeq(logs, n + 1, Len(logs)))
                    IN  \A side \in Sides, price \in Prices :
                          client.view[side][price] =
                            IF BeyondBest(start, side, price)
                               /\ <<side, price>> \notin client.told
                            THEN 0
                            ELSE After(NewMirror, logs).levels[side][price].size
  BY Zenon DEF ChangesTellLevels
<1> DEFINE start  == After(NewMirror, SubSeq(logs, 1, n))
           client == FoldLeft(Follow, Watching(start), SubSeq(logs, n + 1, Len(logs)))
           end    == After(NewMirror, logs)
<1>3. start = g[n]
  BY <1>2, AfterFirst
<1>4. client = FollowedAll(Watching(start), SubSeq(logs, n + 1, Len(logs)))
  BY Zenon DEF FollowedAll
<1> HIDE DEF start, client, end
<1>5. PICK told : client = Following(start, g[Len(logs)], told)
  BY Zenon, <1>1, <1>3, <1>4, ClientKeepsUp
<1>6. client.told = told /\ client.view = Viewed(start, end, told)
  BY <1>2, <1>5 DEF Following, end
<1>7. \A side \in Sides, price \in Prices :
         client.view[side][price] =
            IF BeyondBest(start, side, price) /\ <<side, price>> \notin client.told
            THEN 0 ELSE end.levels[side][price].size
  BY <1>6 DEF Viewed
<1> QED
  BY Zenon, <1>7 DEF start, client, end

\* A client that has the level-2 snapshot of any moment and every change
\* numbered after it has the levels of the mirror, but for those the snapshot
\* left out and no change has told of since: the Level2Change that saveOrder
\* returns tells all that the log changed.
THEOREM ChangesAreEnough == Spec => []ChangesTellLevels
<1>1. Spec => []Told
  BY TheBookIsTold
<1>2. Told => ChangesTellLevels
  BY ToldIsFollowed
<1> QED
  BY <1>1, <1>2, PTL

-----------------------------------------------------------------------------
(* A restart on a snapshot. *)

\* The orders of a snapshot are saved one after the other, each once.
InTurn(s, S) ==
    /\ IsSequence(s) /\ Len(s) \in Nat
    /\ S = {s[i] : i \in 1 .. Len(s)}
    /\ \A i, j \in 1 .. Len(s) : s[i] = s[j] => i = j

\* SetToSeq puts a finite set in turn.
LEMMA SetInTurn ==
    ASSUME NEW S, IsFiniteSet(S)
    PROVE  InTurn(SetToSeq(S), S)
<1> DEFINE n == Cardinality(S)
           s == SetToSeq(S)
<1>1. n \in Nat /\ ExistsBijection(1 .. n, S)
  BY FS_CardinalityType
<1>2. PICK f \in [1 .. n -> S] : IsInjective(f)
  BY <1>1 DEF ExistsBijection, Bijection, Injection
<1>3. s \in [1 .. n -> S] /\ IsInjective(s)
  BY <1>2, Zenon DEF SetToSeq
<1> HIDE DEF s
<1>4. s \in Injection(1 .. n, S)
  BY <1>3 DEF Injection
<1>5. Cardinality(1 .. n) = n
  BY <1>1, FS_Interval
<1> HIDE DEF n
<1>6. s \in Surjection(1 .. n, S)
  BY <1>4, <1>5, FS_Injection DEF n
<1>7. s \in Seq(S) /\ Len(s) = n
  BY <1>1, <1>3
<1>8. IsSequence(s)
  BY <1>7, SequenceOver
<1>9. S = {s[i] : i \in 1 .. n}
  BY <1>3, <1>6 DEF Surjection
<1>10. \A i, j \in 1 .. n : s[i] = s[j] => i = j
  BY <1>3 DEF IsInjective
<1> QED
  BY <1>1, <1>7, <1>8, <1>9, <1>10 DEF InTurn, s

\* The orders of a book are finitely many.
LEMMA OrdersAreFinite ==
    ASSUME NEW d, GoodDepths(d)
    PROVE  IsFiniteSet({OrderOf(x) : x \in All(d)})
<1> DEFINE S == {OrderOf(x) : x \in All(d)}
           f == [x \in All(d) |-> OrderOf(x)]
<1>1. IsFiniteSet(d["buy"]) /\ IsFiniteSet(d["sell"])
  BY DEF GoodDepths, IsLine, Sides
<1>2. IsFiniteSet(All(d))
  BY <1>1, FS_Union DEF All
<1>3. f \in Surjection(All(d), S)
  BY DEF Surjection
<1> HIDE DEF f, S
<1>4. IsFiniteSet(S)
  BY <1>2, <1>3, FS_Surjection
<1> QED
  BY <1>4 DEF S

\* The part of the book d that has been saved.
Saved(d, s, k) ==
    [side \in Sides |-> {x \in d[side] : OrderOf(x) \in {s[i] : i \in 1 .. k}}]

\* Saving an order of d puts it where it was.
LEMMA SavesInTurn ==
    ASSUME NEW d, GoodDepths(d), NEW s, InTurn(s, {OrderOf(x) : x \in All(d)}),
           NEW k \in 1 .. Len(s)
    PROVE  \E o \in RestingOrders :
              /\ s[k] = OrderOf(o)
              /\ NotOn(Saved(d, s, k - 1), o.id)
              /\ Saved(d, s, k) = With(Saved(d, s, k - 1), o)
<1> DEFINE before == Saved(d, s, k - 1)
           after  == Saved(d, s, k)
<1>1. /\ Len(s) \in Nat
      /\ \A i, j \in 1 .. Len(s) : s[i] = s[j] => i = j
  BY DEF InTurn
<1>2. PICK o \in All(d) : s[k] = OrderOf(o)
  <2>1. s[k] \in {s[i] : i \in 1 .. Len(s)}
    OBVIOUS
  <2>2. s[k] \in {OrderOf(x) : x \in All(d)}
    BY <2>1 DEF InTurn
  <2> QED
    BY <2>2
<1>3. /\ o \in RestingOrders /\ o.side \in Sides /\ o \in d[o.side]
      /\ \A x \in All(d) : x.id = o.id => x = o
  BY <1>2, GoodOrders
<1>4. \A x \in All(d) : OrderOf(x) = s[k] => x = o
  BY <1>2, <1>3 DEF OrderOf
<1>5. \A side \in Sides : d[side] \subseteq All(d)
  BY DEF All, Sides
<1>6. s[k] \notin {s[i] : i \in 1 .. k - 1}
  BY <1>1
<1>7. {s[i] : i \in 1 .. k} = {s[i] : i \in 1 .. k - 1} \cup {s[k]}
  <2>1. 1 .. k = (1 .. k - 1) \cup {k}
    OBVIOUS
  <2> QED
    BY <2>1
<1> HIDE DEF OrderOf
<1>8. /\ before = [side \in Sides |-> before[side]] /\ after = [side \in Sides |-> after[side]]
      /\ \A side \in Sides :
            /\ before[side] = {x \in d[side] : OrderOf(x) \in {s[i] : i \in 1 .. k - 1}}
            /\ after[side] = {x \in d[side] : OrderOf(x) \in {s[i] : i \in 1 .. k}}
  BY DEF Saved
<1> HIDE DEF before, after
<1>9. \A side \in Sides : side # o.side => o \notin d[side]
  BY <1>3 DEF GoodDepths, IsLine, IsDepth
<1>10. NotOn(before, o.id)
  <2>1. ASSUME NEW side \in Sides, NEW x \in before[side] PROVE x.id # o.id
    <3>1. x \in All(d) /\ x # o
      BY <1>2, <1>5, <1>6, <1>8
    <3> QED
      BY <1>3, <3>1
  <2> QED
    BY <2>1 DEF NotOn, All, Sides
<1>11. \A side \in Sides : after[side] = IF side = o.side THEN before[side] \cup {o}
                                                        ELSE before[side]
  <2> SUFFICES ASSUME NEW side \in Sides
               PROVE  after[side] = IF side = o.side THEN before[side] \cup {o}
                                                     ELSE before[side]
    OBVIOUS
  <2>1. \A x \in d[side] : OrderOf(x) = s[k] <=> x = o
    BY <1>2, <1>4, <1>5
  <2>2. after[side] = before[side] \cup {x \in d[side] : x = o}
    BY <1>7, <1>8, <2>1
  <2> QED
    BY <1>3, <1>9, <2>2
<1>12. after = With(before, o)
  BY <1>3, <1>8, <1>11 DEF With
<1> QED
  BY <1>2, <1>3, <1>10, <1>12 DEF before, after

\* The orders of a book, saved in any turn, make a mirror of it.
LEMMA SavedMirrors ==
    ASSUME NEW d, GoodDepths(d), NEW s, InTurn(s, {OrderOf(x) : x \in All(d)})
    PROVE  Mirrors(SavedAll(NewMirror, s), d)
<1> DEFINE n == Len(s)
<1>1. IsSequence(s) /\ n \in Nat /\ {OrderOf(x) : x \in All(d)} = {s[i] : i \in 1 .. n}
  BY DEF InTurn
<1>2. PICK g : Folds("save", g, NewMirror, s) /\ SavedAll(NewMirror, s) = g[n]
  BY <1>1, SaveFolds
<1> DEFINE Good == {k \in 0 .. n : GoodDepths(Saved(d, s, k)) /\ Mirrors(g[k], Saved(d, s, k))}
<1>3. 0 \in Good
  <2>1. {s[i] : i \in 1 .. 0} = {}
    OBVIOUS
  <2>2. Saved(d, s, 0) = NoDepths
    BY <2>1 DEF Saved, NoDepths
  <2>3. g[0] = NewMirror
    BY <1>2 DEF Folds
  <2> QED
    BY <1>1, <2>2, <2>3, NewMirrorIsEmpty
<1>4. ASSUME NEW k \in 1 .. n, k - 1 \in Good PROVE k \in Good
  <2>1. GoodDepths(Saved(d, s, k - 1)) /\ Mirrors(g[k - 1], Saved(d, s, k - 1))
    BY <1>4
  <2>2. PICK o \in RestingOrders :
           /\ s[k] = OrderOf(o)
           /\ NotOn(Saved(d, s, k - 1), o.id)
           /\ Saved(d, s, k) = With(Saved(d, s, k - 1), o)
    BY SavesInTurn
  <2>3. g[k] = SaveAgain(g[k - 1], s[k])
    <3>1. g[k] = Stepped("save", g[k - 1], s[k])
      BY <1>2 DEF Folds
    <3> QED
      BY <3>1 DEF Stepped
  <2>4. s[k].id = o.id /\ s[k].size = o.size /\ s[k].price = o.price /\ s[k].side = o.side
    BY <2>2 DEF OrderOf
  <2>5. g[k] = SaveOrder(g[k - 1], 0, o.id, o.size, o.price, o.side)
    BY <2>3, <2>4 DEF SaveAgain
  <2>6. GoodDepths(Saved(d, s, k))
    BY <2>1, <2>2, JoinsDepths
  <2>7. Mirrors(SaveOrder(g[k - 1], 0, o.id, o.size, o.price, o.side), Saved(d, s, k))
    BY <2>1, <2>2, SavesNew
  <2> QED
    BY <1>1, <2>5, <2>6, <2>7
<1> HIDE DEF Good
<1>5. n \in Good
  BY <1>1, <1>3, <1>4, NumberInduction
<1>6. Saved(d, s, n) = d
  <2>1. \A side \in Sides : \A x \in d[side] : OrderOf(x) \in {s[i] : i \in 1 .. n}
    <3>1. \A side \in Sides : d[side] \subseteq All(d)
      BY DEF All, Sides
    <3> QED
      BY <1>1, <3>1
  <2>2. \A side \in Sides : {x \in d[side] : OrderOf(x) \in {s[i] : i \in 1 .. n}} = d[side]
    BY <2>1
  <2>3. d = [side \in Sides |-> d[side]]
    BY DEF GoodDepths
  <2> QED
    BY <2>2, <2>3 DEF Saved
<1> QED
  BY <1>2, <1>5, <1>6 DEF Good

\* The fields of a mirror.
LEMMA MirrorFields ==
    ASSUME NEW d, NEW m, Mirrors(m, d)
    PROVE  /\ m = [seq |-> m.seq, logSeq |-> m.logSeq, orders |-> m.orders, lost |-> m.lost,
                   levels |-> m.levels]
           /\ m.orders = {OrderOf(x) : x \in All(d)} /\ m.lost = FALSE
           /\ m.levels = LevelsOf(d)
<1> DEFINE orders == {OrderOf(x) : x \in All(d)}
           levels == LevelsOf(d)
<1>1. m = [seq |-> m.seq, logSeq |-> m.logSeq, orders |-> orders, lost |-> FALSE,
           levels |-> levels]
  BY DEF Mirrors
<1> HIDE DEF orders, levels
<1>2. m.orders = orders /\ m.lost = FALSE /\ m.levels = levels
  BY <1>1
<1>3. m = [seq |-> m.seq, logSeq |-> m.logSeq, orders |-> m.orders, lost |-> m.lost,
           levels |-> m.levels]
  BY <1>1, <1>2
<1> QED
  BY <1>2, <1>3 DEF orders, levels

\* The restored mirror is the mirror the snapshot was taken of.
LEMMA RestoreIsSame ==
    ASSUME NEW d, GoodDepths(d), NEW m, Mirrors(m, d)
    PROVE  Restore(SnapshotFull(m)) = m
<1> DEFINE snapshot == SnapshotFull(m)
           n == SavedAll(NewMirror, SetToSeq(snapshot.orders))
<1>1. snapshot.seq = m.seq /\ snapshot.logSeq = m.logSeq /\ snapshot.orders = m.orders
  BY DEF SnapshotFull
<1>2. m.orders = {OrderOf(x) : x \in All(d)}
  BY DEF Mirrors
<1>3. Restore(snapshot) = [n EXCEPT !.seq = snapshot.seq, !.logSeq = snapshot.logSeq]
  BY Zenon DEF Restore, SavedAll
<1> HIDE DEF snapshot
<1>4. InTurn(SetToSeq(snapshot.orders), {OrderOf(x) : x \in All(d)})
  BY <1>1, <1>2, OrdersAreFinite, SetInTurn
<1>5. Mirrors(n, d)
  BY <1>4, SavedMirrors
<1> HIDE DEF n
<1>6. /\ n = [seq |-> n.seq, logSeq |-> n.logSeq, orders |-> n.orders, lost |-> n.lost,
              levels |-> n.levels]
      /\ n.orders = m.orders /\ n.lost = m.lost /\ n.levels = m.levels
      /\ m = [seq |-> m.seq, logSeq |-> m.logSeq, orders |-> m.orders, lost |-> m.lost,
              levels |-> m.levels]
  BY <1>5, MirrorFields
<1>7. Restore(snapshot) = [seq |-> snapshot.seq, logSeq |-> snapshot.logSeq,
                           orders |-> n.orders, lost |-> n.lost, levels |-> n.levels]
  BY <1>3, <1>6
<1> QED
  BY <1>1, <1>6, <1>7 DEF snapshot

\* The reader after the k-th log of the topic, when it was set to read on
\* after the log numbered from.
ReaderAt(g, from, k) ==
    IF k <= from THEN [lastSeq |-> from, mirror |-> g[from]]
                 ELSE [lastSeq |-> k, mirror |-> g[k]]

\* One more log of the topic.
LEMMA ReadsOn ==
    ASSUME NEW h, NEW g, Reading(h, g), NEW from \in Nat, NEW k \in 1 .. Len(logs)
    PROVE  ReadLog(ReaderAt(g, from, k - 1), logs[k]) = ReaderAt(g, from, k)
<1> DEFINE before == ReaderAt(g, from, k - 1)
<1>1. Len(logs) \in Nat /\ logs[k].seq = k /\ k \in Nat
  BY DEF Reading
<1>2. g[k] = ApplyLog(g[k - 1], logs[k])
  <2>1. g[k] = Stepped("apply", g[k - 1], logs[k])
    BY DEF Reading, Folds
  <2> QED
    BY <2>1 DEF Stepped
<1>3. CASE k <= from
  <2>1. k - 1 <= from
    BY <1>1, <1>3
  <2>2. before = [lastSeq |-> from, mirror |-> g[from]] /\ before = ReaderAt(g, from, k)
    BY <1>3, <2>1 DEF ReaderAt
  <2> HIDE DEF before
  <2>3. logs[k].seq <= before.lastSeq
    BY <1>1, <1>3, <2>2
  <2> QED
    BY <2>2, <2>3 DEF ReadLog, before
<1>4. CASE ~ (k <= from)
  <2>1. before = [lastSeq |-> k - 1, mirror |-> g[k - 1]]
    <3>1. CASE k - 1 <= from
      <4>1. k - 1 = from
        BY <1>1, <1>4, <3>1
      <4> QED
        BY <3>1, <4>1 DEF ReaderAt
    <3>2. CASE ~ (k - 1 <= from)
      BY <3>2 DEF ReaderAt
    <3> QED
      BY <3>1, <3>2
  <2> HIDE DEF before
  <2>2. before.lastSeq = k - 1 /\ before.mirror = g[k - 1]
    BY <2>1
  <2>3. /\ ~ (logs[k].seq <= before.lastSeq)
        /\ logs[k].seq = before.lastSeq + 1
    BY <1>1, <2>2
  <2>4. ReadLog(before, logs[k]) =
           [lastSeq |-> logs[k].seq, mirror |-> ApplyLog(before.mirror, logs[k])]
    BY <2>3 DEF ReadLog
  <2>5. ReaderAt(g, from, k) = [lastSeq |-> k, mirror |-> g[k]]
    BY <1>4 DEF ReaderAt
  <2> QED
    BY <1>1, <1>2, <2>2, <2>4, <2>5 DEF before
<1> QED
  BY <1>3, <1>4

\* A stream restarted on the snapshot of any moment reads itself up to date.
LEMMA RestartCatchesUp ==
    ASSUME NEW h, NEW g, Reading(h, g), NEW n \in 0 .. Len(logs)
    PROVE  Resumed(SnapshotFull(g[n]), logs) = g[Len(logs)]
<1> DEFINE from == g[n].logSeq
           snapshot == SnapshotFull(g[n])
           last == Len(logs)
<1>1. IsSequence(logs) /\ last \in Nat /\ MirrorsHistory(g, h, logs)
  BY DEF Reading
<1>2. GoodDepths(h[n]) /\ Mirrors(g[n], h[n]) /\ from \in 0 .. n /\ g[from] = g[n]
  BY <1>1 DEF MirrorsHistory
<1>3. Restore(snapshot) = g[n] /\ snapshot.logSeq = from
  BY <1>2, RestoreIsSame DEF SnapshotFull
<1>4. Resumed(snapshot, logs) =
         ReadAll([lastSeq |-> snapshot.logSeq, mirror |-> Restore(snapshot)], logs).mirror
  BY Zenon DEF Resumed, ReadAll
<1> HIDE DEF from, snapshot, last
<1>5. from \in Nat /\ from <= last
  BY <1>1, <1>2 DEF last
<1>6. [lastSeq |-> snapshot.logSeq, mirror |-> Restore(snapshot)] = ReaderAt(g, from, 0)
  BY <1>2, <1>3, <1>5 DEF ReaderAt
<1>7. PICK r : /\ Folds("read", r, ReaderAt(g, from, 0), logs)
               /\ ReadAll(ReaderAt(g, from, 0), logs) = r[last]
  BY <1>1, ReadFolds DEF last
<1> DEFINE Good == {k \in 0 .. last : r[k] = ReaderAt(g, from, k)}
<1>8. 0 \in Good
  BY <1>1, <1>7 DEF Folds
<1>9. ASSUME NEW k \in 1 .. last, k - 1 \in Good PROVE k \in Good
  <2>1. r[k - 1] = ReaderAt(g, from, k - 1)
    BY <1>9
  <2>2. r[k] = ReadLog(r[k - 1], logs[k])
    <3>1. r[k] = Stepped("read", r[k - 1], logs[k])
      BY <1>7 DEF Folds, last
    <3> QED
      BY <3>1 DEF Stepped
  <2>3. ReadLog(ReaderAt(g, from, k - 1), logs[k]) = ReaderAt(g, from, k)
    BY <1>5, ReadsOn DEF last
  <2> QED
    BY <1>1, <2>1, <2>2, <2>3
<1> HIDE DEF Good
<1>10. last \in Good
  BY <1>1, <1>8, <1>9, NumberInduction
<1>11. r[last] = ReaderAt(g, from, last)
  BY <1>10 DEF Good
<1>12. ReaderAt(g, from, last).mirror = g[last]
  <2>1. CASE last <= from
    <3>1. last = from
      BY <1>1, <1>5, <2>1
    <3> QED
      BY <2>1, <3>1 DEF ReaderAt
  <2>2. CASE ~ (last <= from)
    BY <2>2 DEF ReaderAt
  <2> QED
    BY <2>1, <2>2
<1> QED
  BY <1>4, <1>6, <1>7, <1>11, <1>12 DEF last, snapshot

\* So does a restart at any moment.
LEMMA ToldIsResumed == Told => RestartKeepsMirror
<1> SUFFICES ASSUME Told PROVE RestartKeepsMirror
  OBVIOUS
<1>1. PICK h, g : Reading(h, g)
  BY LogsAreRead
<1>2. /\ IsSequence(logs) /\ Folds("apply", g, NewMirror, logs)
      /\ After(NewMirror, logs) = g[Len(logs)]
  BY <1>1 DEF Reading
<1>3. ASSUME NEW n \in 0 .. Len(logs)
      PROVE  Resumed(SnapshotFull(After(NewMirror, SubSeq(logs, 1, n))), logs)
               = After(NewMirror, logs)
  BY <1>1, <1>2, AfterFirst, RestartCatchesUp
<1> QED
  BY Zenon, <1>3 DEF RestartKeepsMirror

\* A stream restarted on the snapshot of any moment ends with the mirror, and
\* the number of its last change, it would have without the restart: Restore
\* loses nothing of the book, and the log the stream reads on after is the last
\* one that had changed it.
THEOREM RestartLosesNothing == Spec => []RestartKeepsMirror
<1>1. Spec => []Told
  BY TheBookIsTold
<1>2. Told => RestartKeepsMirror
  BY ToldIsResumed
<1> QED
  BY <1>1, <1>2, PTL

=============================================================================
