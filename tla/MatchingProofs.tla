--------------------------- MODULE MatchingProofs ---------------------------
(***************************************************************************)
(* Facts about sums and about the operators of Matching that the proofs    *)
(* about the order book, the engine and the exchange rest on.              *)
(***************************************************************************)
EXTENDS Matching, TLAPS, NaturalsInduction, WellFoundedInduction, FiniteSetTheorems,
        SequenceTheorems

Below == {ss \in Nat \X Nat : ss[1] < ss[2]}

\* A set of numbers that is not empty has a least one.
LEMMA LeastNumber ==
    ASSUME NEW T \in SUBSET Nat, T # {}
    PROVE  \E x \in T : \A y \in T : x <= y
<1>1. IsWellFoundedOn(Below, Nat)
  BY NatLessThanWellFounded DEF OpToRel, Below
<1>2. PICK x \in T : \A y \in T : ~ (<<y, x>> \in Below)
  BY <1>1, WFMin
<1>3. ASSUME NEW y \in T, y < x
      PROVE  <<y, x>> \in Below
  BY <1>3 DEF Below
<1>4. \A y \in T : ~ (y < x)
  BY <1>2, <1>3, Zenon
<1> QED
  BY <1>4

\* The smaller of two amounts.
LEMMA LeastOfTwo ==
    ASSUME NEW a \in Nat, NEW b \in Nat
    PROVE  /\ Min({a, b}) \in {a, b}
           /\ Min({a, b}) <= a
           /\ Min({a, b}) <= b
<1>1. \E x \in {a, b} : \A y \in {a, b} : x <= y
  OBVIOUS
<1> QED
  BY <1>1 DEF Min

\* What is bought with a part of the funds costs no more than the funds.
LEMMA SpendsWithinFunds ==
    ASSUME NEW f \in Nat, NEW p \in Nat \ {0}, NEW s \in Nat, s <= f \div p
    PROVE  s * p <= f
  OBVIOUS

\* Buying at a lower price costs no more.
LEMMA CheaperCostsLess ==
    ASSUME NEW s \in Nat, NEW p \in Nat, NEW q \in Nat, p <= q
    PROVE  s * p <= s * q
  OBVIOUS

-----------------------------------------------------------------------------
(* Induction over the finite sets and over the numbers, for a set of those  *)
(* that have been shown to be good.                                         *)

\* What holds of the empty set, and of a set if of what is left without any
\* one of its elements, holds of every finite set.
LEMMA SetInduction ==
    ASSUME NEW S, IsFiniteSet(S), NEW Good, {} \in Good,
           \A T \in SUBSET S : T # {} /\ (\A x \in T : T \ {x} \in Good) => T \in Good
    PROVE  S \in Good
<1> DEFINE Bad == {T \in SUBSET S : T \notin Good}
           Counts == {Cardinality(T) : T \in Bad}
<1>1. \A T \in SUBSET S : IsFiniteSet(T) /\ Cardinality(T) \in Nat
  BY FS_Subset, FS_CardinalityType
<1>2. SUFFICES ASSUME Bad # {} PROVE FALSE
  OBVIOUS
<1>3. Counts \in SUBSET Nat /\ Counts # {}
  BY <1>1, <1>2
<1>4. PICK n \in Counts : \A k \in Counts : n <= k
  BY <1>3, LeastNumber
<1>5. PICK T \in Bad : Cardinality(T) = n
  BY <1>4
<1>6. T # {}
  BY <1>5
<1>7. ASSUME NEW x \in T
      PROVE  T \ {x} \in Good
  <2>1. Cardinality(T \ {x}) = Cardinality(T) - 1
    BY <1>1, <1>5, <1>7, FS_RemoveElement
  <2>2. T \ {x} \in SUBSET S /\ Cardinality(T) \in Nat
    BY <1>1, <1>5
  <2>3. T \ {x} \notin Bad
    BY <1>4, <1>5, <2>1, <2>2
  <2> QED
    BY <2>2, <2>3
<1> QED
  BY <1>5, <1>6, <1>7

\* What holds of zero, and of a number if of the one before, holds of all.
LEMMA NumberInduction ==
    ASSUME NEW n \in Nat, NEW Good, 0 \in Good,
           \A k \in 1 .. n : k - 1 \in Good => k \in Good
    PROVE  n \in Good
<1> DEFINE Bad == {k \in 0 .. n : k \notin Good}
<1> SUFFICES ASSUME Bad # {} PROVE FALSE
  OBVIOUS
<1>0. Bad \in SUBSET Nat
  OBVIOUS
<1>1. PICK k \in Bad : \A j \in Bad : k <= j
  BY <1>0, LeastNumber
<1>2. k \in 1 .. n /\ k - 1 \in 0 .. n /\ ~ (k <= k - 1)
  BY <1>1
<1> QED
  BY <1>1, <1>2

-----------------------------------------------------------------------------
(* Sums. *)

Summable(f, S) == IsFiniteSet(S) /\ \A x \in S : f[x] \in Int

AnyOf(s) == CHOOSE x \in s : TRUE

\* The recursion of SumFunctionOnSet over the subsets of D.
SumsOn(g, f, D) ==
    g = [s \in D |-> IF s = {} THEN 0 ELSE f[AnyOf(s)] + g[s \ {AnyOf(s)}]]

LEMMA SumsExist ==
    ASSUME NEW f, NEW S, IsFiniteSet(S)
    PROVE  \E g : SumsOn(g, f, SUBSET S)
<1> DEFINE Small(n) == {T \in SUBSET S : Cardinality(T) <= n}
           Good == {n \in Nat : \E g : SumsOn(g, f, Small(n))}
<1>1. \A T \in SUBSET S : IsFiniteSet(T) /\ Cardinality(T) \in Nat
                          /\ Cardinality(T) <= Cardinality(S)
  BY FS_Subset, FS_CardinalityType
<1>2. \A T \in SUBSET S : T # {} => /\ AnyOf(T) \in T
                                    /\ T \ {AnyOf(T)} \in SUBSET S
                                    /\ Cardinality(T \ {AnyOf(T)}) = Cardinality(T) - 1
  <2> SUFFICES ASSUME NEW T \in SUBSET S, T # {}
               PROVE  /\ AnyOf(T) \in T /\ T \ {AnyOf(T)} \in SUBSET S
                      /\ Cardinality(T \ {AnyOf(T)}) = Cardinality(T) - 1
    OBVIOUS
  <2>1. AnyOf(T) \in T
    BY DEF AnyOf
  <2> QED
    BY <1>1, <2>1, FS_RemoveElement
<1>3. 0 \in Good
  <2> DEFINE g == [s \in Small(0) |-> 0]
  <2>1. \A s \in Small(0) : s = {}
    BY <1>1, FS_EmptySet
  <2>2. SumsOn(g, f, Small(0))
    BY <2>1 DEF SumsOn
  <2> QED
    BY <2>2
<1>4. ASSUME NEW n \in 1 .. Cardinality(S), n - 1 \in Good
      PROVE  n \in Good
  <2>1. PICK g : SumsOn(g, f, Small(n - 1))
    BY <1>4
  <2> DEFINE h == [s \in Small(n) |-> IF s = {} THEN 0
                                      ELSE f[AnyOf(s)] + g[s \ {AnyOf(s)}]]
  <2>2. Cardinality(S) \in Nat
    BY <1>1
  <2>3. \A s \in Small(n - 1) : s \in Small(n) /\ h[s] = g[s]
    <3>1. \A s \in Small(n - 1) : s \in Small(n)
      BY <1>1, <2>2
    <3> QED
      BY <2>1, <3>1 DEF SumsOn
  <2>4. \A s \in Small(n) : s # {} => s \ {AnyOf(s)} \in Small(n - 1)
    BY <1>1, <1>2, <2>2
  <2>5. SumsOn(h, f, Small(n))
    BY <2>3, <2>4 DEF SumsOn
  <2> QED
    BY <2>2, <2>5
<1> HIDE DEF Good
<1>5. Cardinality(S) \in Nat /\ Cardinality(S) \in Good
  BY <1>1, <1>3, <1>4, NumberInduction
<1>6. Small(Cardinality(S)) = SUBSET S
  BY <1>1
<1> QED
  BY <1>5, <1>6 DEF Good

\* What SumFunctionOnSet is: of nothing zero, of a set what one element adds
\* to the sum of the others.
LEMMA SumUnfolds ==
    ASSUME NEW f, NEW S, IsFiniteSet(S)
    PROVE  \E g : SumsOn(g, f, SUBSET S) /\ SumFunctionOnSet(f, S) = g[S]
<1> DEFINE g == CHOOSE g : SumsOn(g, f, SUBSET S)
<1>1. SumsOn(g, f, SUBSET S)
  BY SumsExist
<1>2. SumFunctionOnSet(f, S) = g[S]
  BY Zenon DEF SumFunctionOnSet, FoldFunctionOnSet, MapThenFoldSet, SumsOn, AnyOf
<1> QED
  BY <1>1, <1>2

LEMMA SumOfNone ==
    ASSUME NEW f
    PROVE  SumFunctionOnSet(f, {}) = 0
<1>1. PICK g : SumsOn(g, f, SUBSET {}) /\ SumFunctionOnSet(f, {}) = g[{}]
  BY SumUnfolds, FS_EmptySet
<1> QED
  BY <1>1 DEF SumsOn

LEMMA SumOfRest ==
    ASSUME NEW f, NEW S, IsFiniteSet(S), S # {}
    PROVE  SumFunctionOnSet(f, S) =
              f[AnyOf(S)] + SumFunctionOnSet(f, S \ {AnyOf(S)})
<1> DEFINE T == S \ {AnyOf(S)}
<1>1. T \in SUBSET S /\ IsFiniteSet(T)
  BY FS_RemoveElement
<1>2. PICK g : SumsOn(g, f, SUBSET S) /\ SumFunctionOnSet(f, S) = g[S]
  BY SumUnfolds
<1>3. PICK h : SumsOn(h, f, SUBSET T) /\ SumFunctionOnSet(f, T) = h[T]
  BY <1>1, SumUnfolds
<1> DEFINE Good == {U \in SUBSET T : g[U] = h[U]}
<1>4. T \in Good
  <2>1. /\ \A U \in SUBSET S : g[U] = IF U = {} THEN 0 ELSE f[AnyOf(U)] + g[U \ {AnyOf(U)}]
        /\ \A U \in SUBSET T : h[U] = IF U = {} THEN 0 ELSE f[AnyOf(U)] + h[U \ {AnyOf(U)}]
    BY <1>2, <1>3 DEF SumsOn
  <2>2. {} \in Good
    BY <2>1
  <2>3. ASSUME NEW U \in SUBSET T, U # {}, \A x \in U : U \ {x} \in Good
        PROVE  U \in Good
    <3>1. AnyOf(U) \in U
      BY <2>3 DEF AnyOf
    <3>2. g[U \ {AnyOf(U)}] = h[U \ {AnyOf(U)}]
      BY <2>3, <3>1
    <3> QED
      BY <1>1, <2>1, <2>3, <3>2
  <2> HIDE DEF Good, T
  <2> QED
    BY <1>1, <2>2, <2>3, SetInduction
<1>5. g[S] = f[AnyOf(S)] + g[T]
  BY <1>2 DEF SumsOn
<1> QED
  BY <1>2, <1>3, <1>4, <1>5

LEMMA AnyOfSet ==
    ASSUME NEW S, S # {}
    PROVE  AnyOf(S) \in S
BY DEF AnyOf

LEMMA PartIsSummable ==
    ASSUME NEW f, NEW S, Summable(f, S), NEW T \in SUBSET S
    PROVE  Summable(f, T)
BY FS_Subset DEF Summable

LEMMA SumIsNumber ==
    ASSUME NEW f, NEW S, Summable(f, S)
    PROVE  SumFunctionOnSet(f, S) \in Int
<1> DEFINE Good == {T \in SUBSET S : SumFunctionOnSet(f, T) \in Int}
<1>1. {} \in Good
  BY SumOfNone
<1>2. ASSUME NEW T \in SUBSET S, T # {}, \A x \in T : T \ {x} \in Good
      PROVE  T \in Good
  <2>1. IsFiniteSet(T) /\ AnyOf(T) \in T
    BY <1>2, FS_Subset, AnyOfSet DEF Summable
  <2>2. SumFunctionOnSet(f, T \ {AnyOf(T)}) \in Int /\ f[AnyOf(T)] \in Int
    BY <1>2, <2>1 DEF Summable
  <2> QED
    BY <1>2, <2>1, <2>2, SumOfRest
<1>3. IsFiniteSet(S)
  BY DEF Summable
<1> HIDE DEF Good
<1>4. S \in Good
  BY <1>1, <1>2, <1>3, SetInduction
<1> QED
  BY <1>4 DEF Good

\* The sum depends on what is added only.
LEMMA SumSame ==
    ASSUME NEW f, NEW g, NEW S, IsFiniteSet(S), \A x \in S : f[x] = g[x]
    PROVE  SumFunctionOnSet(f, S) = SumFunctionOnSet(g, S)
<1> DEFINE Good == {T \in SUBSET S : SumFunctionOnSet(f, T) = SumFunctionOnSet(g, T)}
<1>1. {} \in Good
  BY SumOfNone
<1>2. ASSUME NEW T \in SUBSET S, T # {}, \A x \in T : T \ {x} \in Good
      PROVE  T \in Good
  <2>1. IsFiniteSet(T) /\ AnyOf(T) \in T
    BY <1>2, FS_Subset, AnyOfSet
  <2>2. /\ SumFunctionOnSet(f, T \ {AnyOf(T)}) = SumFunctionOnSet(g, T \ {AnyOf(T)})
        /\ f[AnyOf(T)] = g[AnyOf(T)]
    BY <1>2, <2>1
  <2>3. /\ SumFunctionOnSet(f, T) = f[AnyOf(T)] + SumFunctionOnSet(f, T \ {AnyOf(T)})
        /\ SumFunctionOnSet(g, T) = g[AnyOf(T)] + SumFunctionOnSet(g, T \ {AnyOf(T)})
    BY <1>2, <2>1, SumOfRest
  <2> QED
    BY <2>2, <2>3
<1> HIDE DEF Good
<1>4. S \in Good
  BY <1>1, <1>2, SetInduction
<1> QED
  BY <1>4 DEF Good

\* Any element may be added last.
LEMMA SumTakesOut ==
    ASSUME NEW f, NEW S, Summable(f, S), NEW x \in S
    PROVE  SumFunctionOnSet(f, S) = f[x] + SumFunctionOnSet(f, S \ {x})
<1> DEFINE Sum(T) == SumFunctionOnSet(f, T)
           Good == {T \in SUBSET S : \A y \in T : Sum(T) = f[y] + Sum(T \ {y})}
<1>1. {} \in Good
  OBVIOUS
<1>2. ASSUME NEW T \in SUBSET S, T # {}, \A y \in T : T \ {y} \in Good
      PROVE  T \in Good
  <2> SUFFICES ASSUME NEW y \in T PROVE Sum(T) = f[y] + Sum(T \ {y})
    BY <1>2
  <2> DEFINE c == AnyOf(T)
             U == (T \ {c}) \ {y}
  <2>1. c \in T /\ IsFiniteSet(T)
    BY <1>2, FS_Subset, AnyOfSet DEF Summable
  <2>2. Sum(T) = f[c] + Sum(T \ {c})
    BY <1>2, <2>1, SumOfRest
  <2>3. CASE y = c
    BY <2>2, <2>3
  <2>4. CASE y # c
    <3>1. y \in T \ {c} /\ c \in T \ {y} /\ (T \ {y}) \ {c} = U
      BY <2>1, <2>4
    <3>2. Sum(T \ {c}) = f[y] + Sum(U)
      BY <1>2, <2>1, <3>1
    <3>3. Sum(T \ {y}) = f[c] + Sum((T \ {y}) \ {c})
      BY <1>2, <3>1
    <3>4. f[c] \in Int /\ f[y] \in Int /\ Sum(U) \in Int
      <4>1. U \in SUBSET S
        OBVIOUS
      <4>2. Sum(U) \in Int
        BY <4>1, PartIsSummable, SumIsNumber
      <4> QED
        BY <2>1, <4>2 DEF Summable
    <3> HIDE DEF U, c, Sum
    <3>5. Sum(T \ {y}) = f[c] + Sum(U)
      BY <3>1, <3>3
    <3> QED
      BY <2>2, <3>2, <3>4, <3>5
  <2> QED
    BY <2>3, <2>4
<1>3. IsFiniteSet(S)
  BY DEF Summable
<1> HIDE DEF Good
<1>4. S \in Good
  BY <1>1, <1>2, <1>3, SetInduction
<1> QED
  BY <1>4 DEF Good

\* What a change of one summand does to the sum.
LEMMA SumChanges ==
    ASSUME NEW f, NEW g, NEW S, Summable(f, S), NEW x \in S, g[x] \in Int,
           \A y \in S \ {x} : g[y] = f[y]
    PROVE  SumFunctionOnSet(g, S) = SumFunctionOnSet(f, S) + (g[x] - f[x])
<1>1. Summable(g, S) /\ f[x] \in Int /\ IsFiniteSet(S \ {x}) /\ Summable(f, S \ {x})
  BY FS_RemoveElement DEF Summable
<1>2. SumFunctionOnSet(f, S) = f[x] + SumFunctionOnSet(f, S \ {x})
  BY SumTakesOut
<1>3. SumFunctionOnSet(g, S) = g[x] + SumFunctionOnSet(g, S \ {x})
  BY <1>1, SumTakesOut
<1>4. SumFunctionOnSet(g, S \ {x}) = SumFunctionOnSet(f, S \ {x})
  BY <1>1, SumSame
<1>5. SumFunctionOnSet(f, S \ {x}) \in Int
  BY <1>1, SumIsNumber
<1> QED
  BY <1>1, <1>2, <1>3, <1>4, <1>5

\* Positive summands give no negative sum.
LEMMA SumOfNaturals ==
    ASSUME NEW f, NEW S, IsFiniteSet(S), \A x \in S : f[x] \in Nat
    PROVE  SumFunctionOnSet(f, S) \in Nat
<1> DEFINE Good == {T \in SUBSET S : SumFunctionOnSet(f, T) \in Nat}
<1>1. {} \in Good
  BY SumOfNone
<1>2. ASSUME NEW T \in SUBSET S, T # {}, \A x \in T : T \ {x} \in Good
      PROVE  T \in Good
  <2>1. IsFiniteSet(T) /\ AnyOf(T) \in T
    BY <1>2, FS_Subset, AnyOfSet
  <2>2. SumFunctionOnSet(f, T \ {AnyOf(T)}) \in Nat /\ f[AnyOf(T)] \in Nat
    BY <1>2, <2>1
  <2> QED
    BY <1>2, <2>1, <2>2, SumOfRest
<1> HIDE DEF Good
<1>3. S \in Good
  BY <1>1, <1>2, SetInduction
<1> QED
  BY <1>3 DEF Good

LEMMA SumOfZeros ==
    ASSUME NEW f, NEW S, IsFiniteSet(S), \A x \in S : f[x] = 0
    PROVE  SumFunctionOnSet(f, S) = 0
<1> DEFINE Good == {T \in SUBSET S : SumFunctionOnSet(f, T) = 0}
<1>1. {} \in Good
  BY SumOfNone
<1>2. ASSUME NEW T \in SUBSET S, T # {}, \A x \in T : T \ {x} \in Good
      PROVE  T \in Good
  <2>1. IsFiniteSet(T) /\ AnyOf(T) \in T
    BY <1>2, FS_Subset, AnyOfSet
  <2>2. SumFunctionOnSet(f, T \ {AnyOf(T)}) = 0 /\ f[AnyOf(T)] = 0
    BY <1>2, <2>1
  <2> QED
    BY <1>2, <2>1, <2>2, SumOfRest
<1> HIDE DEF Good
<1>3. S \in Good
  BY <1>1, <1>2, SetInduction
<1> QED
  BY <1>3 DEF Good

\* The sum over a sequence with one more element.
LEMMA SumOneMore ==
    ASSUME NEW s, NEW n \in Nat, Summable(s, 1 .. n + 1)
    PROVE  SumFunctionOnSet(s, 1 .. n + 1) = SumFunctionOnSet(s, 1 .. n) + s[n + 1]
<1>1. (1 .. n + 1) \ {n + 1} = 1 .. n /\ n + 1 \in 1 .. n + 1 /\ 1 .. n \subseteq 1 .. n + 1
  OBVIOUS
<1>2. SumFunctionOnSet(s, 1 .. n + 1) =
         s[n + 1] + SumFunctionOnSet(s, (1 .. n + 1) \ {n + 1})
  BY <1>1, SumTakesOut
<1>4. SumFunctionOnSet(s, 1 .. n + 1) = s[n + 1] + SumFunctionOnSet(s, 1 .. n)
  BY <1>1, <1>2, Zenon
<1>3. SumFunctionOnSet(s, 1 .. n) \in Int /\ s[n + 1] \in Int
  BY <1>1, PartIsSummable, SumIsNumber DEF Summable
<1> QED
  BY <1>3, <1>4

\* The sum over a sequence is that of its first part and of the rest.
LEMMA SumOfParts ==
    ASSUME NEW u, NEW t, NEW k \in Nat, NEW n \in Nat, Summable(u, 1 .. k + n),
           \A i \in 1 .. n : u[k + i] = t[i]
    PROVE  SumFunctionOnSet(u, 1 .. k + n) =
              SumFunctionOnSet(u, 1 .. k) + SumFunctionOnSet(t, 1 .. n)
<1> DEFINE Good == {j \in 0 .. n : SumFunctionOnSet(u, 1 .. k + j) =
                        SumFunctionOnSet(u, 1 .. k) + SumFunctionOnSet(t, 1 .. j)}
<1>1. \A j \in 0 .. n : /\ 1 .. k + j \subseteq 1 .. k + n
                        /\ \A i \in 1 .. j : k + i \in 1 .. k + n
  OBVIOUS
<1>2. \A j \in 0 .. n : Summable(u, 1 .. k + j) /\ SumFunctionOnSet(u, 1 .. k + j) \in Int
  BY <1>1, PartIsSummable, SumIsNumber
<1>3. \A j \in 0 .. n : Summable(t, 1 .. j)
  <2> SUFFICES ASSUME NEW j \in 0 .. n PROVE Summable(t, 1 .. j)
    OBVIOUS
  <2>1. \A i \in 1 .. j : i \in 1 .. n /\ k + i \in 1 .. k + n
    OBVIOUS
  <2>2. \A i \in 1 .. j : t[i] \in Int
    BY <2>1 DEF Summable
  <2>3. IsFiniteSet(1 .. j)
    BY FS_Interval
  <2> QED
    BY <2>2, <2>3 DEF Summable
<1>4. 0 \in Good
  <2>1. 1 .. 0 = {} /\ k + 0 = k /\ 0 \in 0 .. n
    OBVIOUS
  <2>2. SumFunctionOnSet(u, 1 .. k) \in Int
    BY <1>2, <2>1
  <2>3. SumFunctionOnSet(t, 1 .. 0) = 0 /\ SumFunctionOnSet(u, 1 .. k + 0) =
                                              SumFunctionOnSet(u, 1 .. k)
    BY <2>1, SumOfNone, Zenon
  <2> QED
    BY <2>1, <2>2, <2>3
<1>5. ASSUME NEW j \in 1 .. n, j - 1 \in Good
      PROVE  j \in Good
  <2>1. /\ j - 1 \in Nat /\ (j - 1) + 1 = j /\ k + (j - 1) \in Nat
        /\ (k + (j - 1)) + 1 = k + j /\ j \in 0 .. n
    OBVIOUS
  <2>2. SumFunctionOnSet(t, 1 .. j) = SumFunctionOnSet(t, 1 .. j - 1) + t[j]
    BY <1>3, <2>1, SumOneMore
  <2>3. SumFunctionOnSet(u, 1 .. k + j) = SumFunctionOnSet(u, 1 .. k + (j - 1)) + u[k + j]
    BY <1>2, <2>1, SumOneMore
  <2>4. /\ SumFunctionOnSet(t, 1 .. j - 1) \in Int /\ t[j] \in Int
        /\ SumFunctionOnSet(u, 1 .. k) \in Int /\ u[k + j] = t[j]
    <3>1. j - 1 \in 0 .. n /\ 0 \in 0 .. n /\ k + 0 = k /\ j \in 1 .. j
      OBVIOUS
    <3> QED
      BY <1>2, <1>3, <2>1, <3>1, SumIsNumber DEF Summable
  <2>5. SumFunctionOnSet(u, 1 .. k + (j - 1)) =
           SumFunctionOnSet(u, 1 .. k) + SumFunctionOnSet(t, 1 .. j - 1)
    BY <1>5
  <2> QED
    BY <2>1, <2>2, <2>3, <2>4, <2>5
<1> HIDE DEF Good
<1>6. n \in Good
  BY <1>4, <1>5, NumberInduction
<1> QED
  BY <1>6 DEF Good

-----------------------------------------------------------------------------
(* Sequences and what is in them. *)

IsSequence(s) == s \in Seq(Range(s))

LEMMA SequenceFacts ==
    ASSUME NEW s, IsSequence(s)
    PROVE  /\ Len(s) \in Nat
           /\ DOMAIN s = 1 .. Len(s)
           /\ \A i \in 1 .. Len(s) : s[i] \in Range(s)
           /\ Range(s) = {s[i] : i \in 1 .. Len(s)}
           /\ s # << >> <=> Len(s) > 0
<1>1. s \in Seq(Range(s))
  BY DEF IsSequence
<1>2. Len(s) \in Nat /\ DOMAIN s = 1 .. Len(s)
  BY <1>1, LenProperties
<1>3. s # << >> <=> Len(s) > 0
  BY <1>1, <1>2, EmptySeq
<1> QED
  BY <1>2, <1>3 DEF Range

LEMMA SequenceOver ==
    ASSUME NEW S, NEW s \in Seq(S)
    PROVE  IsSequence(s) /\ Range(s) \subseteq S
BY SeqOfRange, RangeOfSeq DEF IsSequence

LEMMA EmptySequence == IsSequence(<< >>) /\ Range(<< >>) = {} /\ Len(<< >>) = 0
<1> SUFFICES ASSUME NEW S, S = {}, NEW s, s = << >>
             PROVE  IsSequence(s) /\ Range(s) = S /\ Len(s) = 0
  BY Zenon
<1>1. s \in Seq(S) /\ Len(s) = 0
  BY EmptySeq
<1>2. IsSequence(s) /\ Range(s) \subseteq S
  BY <1>1, SequenceOver
<1> QED
  BY <1>1, <1>2

LEMMA AppendSequence ==
    ASSUME NEW s, IsSequence(s), NEW e
    PROVE  /\ IsSequence(Append(s, e))
           /\ Range(Append(s, e)) = Range(s) \cup {e}
           /\ Len(Append(s, e)) = Len(s) + 1
           /\ Append(s, e) # << >>
           /\ \A i \in 1 .. Len(s) : Append(s, e)[i] = s[i]
           /\ Append(s, e)[Len(s) + 1] = e
<1> DEFINE S == Range(s) \cup {e}
           t == Append(s, e)
<1>1. s \in Seq(S) /\ e \in S
  BY SeqMonotonic DEF IsSequence
<1>2. /\ t \in Seq(S) /\ t # << >> /\ Len(t) = Len(s) + 1
      /\ \A i \in 1 .. Len(s) : t[i] = s[i]
      /\ t[Len(s) + 1] = e
  BY <1>1, AppendProperties
<1>3. IsSequence(t)
  BY <1>2, SequenceOver
<1> HIDE DEF t
<1>4. Len(s) \in Nat
  BY SequenceFacts
<1>5. Range(t) = S
  <2>1. Range(t) = {t[i] : i \in 1 .. Len(s) + 1}
    BY <1>2, <1>3, SequenceFacts
  <2>2. Range(s) = {s[i] : i \in 1 .. Len(s)}
    BY SequenceFacts
  <2> QED
    BY <1>2, <1>4, <2>1, <2>2
<1> QED
  BY <1>2, <1>3, <1>5 DEF t

LEMMA OneElement ==
    ASSUME NEW e
    PROVE  IsSequence(<<e>>) /\ Len(<<e>>) = 1 /\ <<e>>[1] = e
<1>1. <<e>> \in Seq({e})
  OBVIOUS
<1>2. IsSequence(<<e>>)
  BY <1>1, SequenceOver
<1> QED
  BY <1>2

LEMMA TailSequence ==
    ASSUME NEW s, IsSequence(s), s # << >>
    PROVE  /\ IsSequence(Tail(s))
           /\ Range(Tail(s)) \subseteq Range(s)
           /\ Len(Tail(s)) = Len(s) - 1
           /\ Head(s) \in Range(s)
           /\ Head(s) = s[1]
           /\ \A i \in 1 .. Len(s) - 1 : Tail(s)[i] = s[i + 1]
<1>1. s \in Seq(Range(s))
  BY DEF IsSequence
<1>2. /\ Head(s) \in Range(s) /\ Tail(s) \in Seq(Range(s)) /\ Len(Tail(s)) = Len(s) - 1
      /\ \A i \in 1 .. Len(Tail(s)) : Tail(s)[i] = s[i + 1]
  BY <1>1, HeadTailProperties
<1>3. Head(s) = s[1]
  BY <1>1 
<1> QED
  BY <1>2, <1>3, SequenceOver

LEMMA ConcatSequence ==
    ASSUME NEW s, IsSequence(s), NEW t, IsSequence(t)
    PROVE  /\ IsSequence(s \o t)
           /\ Range(s \o t) = Range(s) \cup Range(t)
           /\ Len(s \o t) = Len(s) + Len(t)
           /\ \A i \in 1 .. Len(s) : (s \o t)[i] = s[i]
           /\ \A i \in 1 .. Len(t) : (s \o t)[Len(s) + i] = t[i]
<1> DEFINE S == Range(s) \cup Range(t)
<1>1. s \in Seq(S) /\ t \in Seq(S)
  BY SeqMonotonic DEF IsSequence
<1>2. /\ s \o t \in Seq(S) /\ Len(s \o t) = Len(s) + Len(t)
      /\ \A i \in 1 .. Len(s) + Len(t) :
            (s \o t)[i] = IF i <= Len(s) THEN s[i] ELSE t[i - Len(s)]
  BY <1>1, ConcatProperties
<1>3. Range(s \o t) = Range(s) \cup Range(t)
  BY <1>1, RangeConcatenation
<1>4. Len(s) \in Nat /\ Len(t) \in Nat
  BY SequenceFacts
<1>5. \A i \in 1 .. Len(s) : (s \o t)[i] = s[i]
  BY <1>2, <1>4
<1>6. ASSUME NEW i \in 1 .. Len(t)
      PROVE  (s \o t)[Len(s) + i] = t[i]
  <2>1. Len(s) + i \in 1 .. Len(s) + Len(t) /\ ~ (Len(s) + i <= Len(s))
        /\ (Len(s) + i) - Len(s) = i
    BY <1>4
  <2> QED
    BY <1>2, <2>1
<1> QED
  BY <1>2, <1>3, <1>5, <1>6, SequenceOver

LEMMA FirstPart ==
    ASSUME NEW s, IsSequence(s), NEW n \in 0 .. Len(s)
    PROVE  /\ IsSequence(SubSeq(s, 1, n))
           /\ Range(SubSeq(s, 1, n)) \subseteq Range(s)
           /\ Len(SubSeq(s, 1, n)) = n
           /\ \A i \in 1 .. n : SubSeq(s, 1, n)[i] = s[i]
<1>1. Len(s) \in Nat /\ \A i \in 1 .. Len(s) : s[i] \in Range(s)
  BY SequenceFacts
<1>2. \A i \in 1 .. n : s[i] \in Range(s)
  BY <1>1
<1>3. /\ SubSeq(s, 1, n) \in Seq(Range(s))
      /\ Len(SubSeq(s, 1, n)) = IF 1 <= n THEN n - 1 + 1 ELSE 0
      /\ \A i \in 1 .. n - 1 + 1 : SubSeq(s, 1, n)[i] = s[1 + i - 1]
  BY <1>1, <1>2, SubSeqProperties
<1>4. n \in Nat /\ Len(SubSeq(s, 1, n)) = n
  BY <1>1, <1>3
<1>5. ASSUME NEW i \in 1 .. n
      PROVE  SubSeq(s, 1, n)[i] = s[i]
  <2>1. i \in 1 .. n - 1 + 1 /\ 1 + i - 1 = i
    BY <1>4
  <2> QED
    BY <1>3, <2>1
<1> QED
  BY <1>3, <1>4, <1>5, SequenceOver

LEMMA FunctionSequence ==
    ASSUME NEW n \in Nat, NEW f, f = [i \in 1 .. n |-> f[i]]
    PROVE  IsSequence(f) /\ Len(f) = n
<1>1. f \in [1 .. n -> Range(f)]
  BY DEF Range
<1>2. f \in Seq(Range(f))
  BY <1>1, SeqDef
<1>3. DOMAIN f = 1 .. Len(f) /\ Len(f) \in Nat
  BY <1>2, LenProperties
<1>4. DOMAIN f = 1 .. n
  BY <1>1
<1>5. Len(f) = n
  BY <1>3, <1>4
<1> QED
  BY <1>2, <1>5 DEF IsSequence

LEMMA ConcatIndices ==
    ASSUME NEW s, IsSequence(s), NEW t, IsSequence(t)
    PROVE  /\ Len(s) \in Nat /\ Len(t) \in Nat /\ Len(s \o t) = Len(s) + Len(t)
           /\ \A i \in 1 .. Len(s) : (s \o t)[i] = s[i]
           /\ \A i \in 1 .. Len(t) : (s \o t)[Len(s) + i] = t[i]
BY SMTT(30), ConcatSequence, SequenceFacts

-----------------------------------------------------------------------------
\* A depth: orders of one side, each id once.
IsDepth(depth, side) ==
    /\ depth \in SUBSET RestingOrders
    /\ \A m \in depth : m.side = side
    /\ \A m, n \in depth : m.id = n.id => m = n

\* The lower, the earlier in the queue.
Urgency(m) == IF m.side = "sell" THEN m.price ELSE InfPrice - m.price

\* The queue of a depth that is not empty has a first order.
LEMMA FirstIsFirst ==
    ASSUME NEW side \in Sides, NEW depth, IsDepth(depth, side), depth # {}
    PROVE  /\ First(depth) \in depth
           /\ \A n \in depth \ {First(depth)} : Precedes(First(depth), n)
<1> DEFINE Ranks == {Urgency(m) : m \in depth}
<1>1. \A m \in depth : /\ m.id \in Nat /\ m.price \in Nat /\ m.price < InfPrice
                       /\ InfPrice \in Nat /\ m.side = side
  BY OrderIdsAssumption, PricesAssumption, InfPriceAssumption
     DEF IsDepth, RestingOrders
<1>2. \A m \in depth : Urgency(m) \in Nat
  BY <1>1 DEF Urgency, Sides
<1>3. PICK u \in Ranks : \A v \in Ranks : u <= v
  <2>1. Ranks \in SUBSET Nat /\ Ranks # {}
    BY <1>2
  <2> QED
    BY <2>1, LeastNumber
<1> DEFINE Ids == {m.id : m \in {n \in depth : Urgency(n) = u}}
<1>4. PICK i \in Ids : \A j \in Ids : i <= j
  <2>1. Ids \in SUBSET Nat /\ Ids # {}
    BY <1>1
  <2> QED
    BY <2>1, LeastNumber
<1>5. PICK m \in depth : Urgency(m) = u /\ m.id = i
  BY <1>4
<1>6. \A n \in depth \ {m} : Precedes(m, n)
  <2> SUFFICES ASSUME NEW n \in depth, n # m
               PROVE  Precedes(m, n)
    OBVIOUS
  <2>1. Urgency(m) <= Urgency(n)
    BY <1>3, <1>5
  <2>2. Urgency(m) = Urgency(n) => m.id < n.id
    <3> SUFFICES ASSUME Urgency(m) = Urgency(n)
                 PROVE  m.id < n.id
      OBVIOUS
    <3>1. m.id <= n.id
      BY <1>4, <1>5
    <3>2. m.id # n.id
      BY DEF IsDepth
    <3> QED
      BY <3>1, <3>2, <1>1
  <2> QED
    BY <1>1, <2>1, <2>2 DEF Urgency, Precedes, Sides
<1> QED
  BY <1>6 DEF First

-----------------------------------------------------------------------------
(* What a message makes of the book and of the window, as Engine uses it. *)

\* A book as the calls leave it.
IsBook(b) ==
    /\ b = [depths |-> b.depths, logSeq |-> b.logSeq, tradeSeq |-> b.tradeSeq]
    /\ b.depths = [side \in Sides |-> b.depths[side]]
    /\ \A side \in Sides : IsFiniteSet(b.depths[side])
    /\ b.logSeq \in Nat
    /\ b.tradeSeq \in Nat

\* The result of a call goes on from b: one log for each number taken.
ContinuesBook(result, b) ==
    /\ IsBook(result.book)
    /\ result.book.logSeq >= b.logSeq
    /\ result.logs = [i \in 1 .. result.book.logSeq - b.logSeq |-> result.logs[i]]
    /\ \A i \in 1 .. result.book.logSeq - b.logSeq :
          result.logs[i].seq = b.logSeq + i

\* The closing log has the number it is given.
LEMMA ClosingSeq == ASSUME NEW n, NEW taker PROVE ClosingLog(n, taker).seq = n
BY DEF ClosingLog, OpenLog, DoneLog

\* The matches and done logs of makers, and the closing log, take one number each.
LEMMA CompleteContinues ==
    ASSUME NEW b, IsBook(b), NEW taker, taker.side \in Sides
    PROVE  ContinuesBook(Complete(b, taker), b)
<1> DEFINE other   == Opposite(taker.side)
           makers  == Makers(b, taker)
           take    == Takes(b, taker)
           hit     == Hit(b, taker)
           emptied == Emptied(b, taker)
           line    == InLine(hit)
           left    == Left(b, taker)
           closing == Cardinality(hit) + Cardinality(emptied) + 1
           cut     == (b.depths[other] \ hit) \cup
                   {[m EXCEPT !.size = @ - take[m]] : m \in hit \ emptied}
           own     == b.depths[taker.side]
           r == Complete(b, taker)
<1>1. other \in Sides
  BY DEF Sides, Opposite
<1>2. IsFiniteSet(b.depths[other]) /\ IsFiniteSet(own)
  BY <1>1 DEF IsBook
<1>3. IsFiniteSet(makers)
  BY <1>2, FS_Subset DEF Makers
<1> HIDE DEF makers
<1>4. IsFiniteSet(hit) /\ IsFiniteSet(emptied)
  BY <1>3, FS_Subset DEF Hit, Emptied, makers
<1> HIDE DEF hit, emptied
<1>5. closing \in Nat \ {0}
  BY <1>4, FS_CardinalityType
<1>6. Cardinality(hit) \in Nat
  BY <1>4, FS_CardinalityType
<1> HIDE DEF take, closing, left
<1>7. IsFiniteSet(cut)
  <2>1. IsFiniteSet(b.depths[other] \ hit)
    BY <1>2, FS_Subset
  <2>2. IsFiniteSet(hit \ emptied)
    BY <1>4, FS_Subset
  <2> DEFINE parts == {[m EXCEPT !.size = @ - take[m]] : m \in hit \ emptied}
             f == [m \in hit \ emptied |-> [m EXCEPT !.size = @ - take[m]]]
  <2>3. f \in Surjection(hit \ emptied, parts)
    BY Zenon DEF Surjection
  <2>4. IsFiniteSet(parts)
    BY <2>2, <2>3, FS_Surjection
  <2> QED
    BY <2>1, <2>4, FS_Union
<1> HIDE DEF cut
<1> DEFINE rest == IF Rests(left) THEN Add(own, left) ELSE own
<1>8. IsFiniteSet(rest)
  <2>1. IsFiniteSet({m \in own : m.id # left.id})
    BY <1>2, FS_Subset
  <2> QED
    BY <1>2, <2>1, FS_AddElement DEF Add
<1> HIDE DEF rest
<1>9. r.book = [depths |-> [b.depths EXCEPT ![other] = cut, ![taker.side] = rest],
                logSeq |-> b.logSeq + closing,
                tradeSeq |-> b.tradeSeq + Cardinality(hit)]
  BY DEF Complete, rest, cut, left, closing, hit, emptied, take, makers
<1>10. r.logs = [i \in 1 .. closing |->
              IF i = closing THEN ClosingLog(b.logSeq + i, left)
              ELSE LET k == (i + 1) \div 2
                       m == line[k]
                   IN  IF i % 2 = 1
                       THEN MatchLog(b.logSeq + i, b.tradeSeq + k,
                                     taker, m, take[m])
                       ELSE DoneLog(b.logSeq + i,
                                    [m EXCEPT !.size = 0], 0, "filled")]
  BY DEF Complete, rest, cut, left, closing, hit, emptied, take, makers
<1> HIDE DEF r, line, other, own
<1>11. IsBook(r.book) /\ r.book.logSeq - b.logSeq = closing /\ r.book.logSeq >= b.logSeq
  <2>1. /\ r.book.logSeq = b.logSeq + closing
        /\ r.book.tradeSeq = b.tradeSeq + Cardinality(hit)
        /\ r.book = [depths |-> r.book.depths, logSeq |-> r.book.logSeq,
                     tradeSeq |-> r.book.tradeSeq]
        /\ r.book.depths = [b.depths EXCEPT ![other] = cut, ![taker.side] = rest]
    BY <1>9
  <2>2. /\ b.logSeq \in Nat /\ b.tradeSeq \in Nat
        /\ b.depths = [side \in Sides |-> b.depths[side]]
        /\ \A side \in Sides : IsFiniteSet(b.depths[side])
    BY DEF IsBook
  <2>3. r.book.depths = [side \in Sides |-> r.book.depths[side]]
    BY <2>1, <2>2
  <2>4. \A side \in Sides : IsFiniteSet(r.book.depths[side])
    BY <1>1, <1>7, <1>8, <2>1, <2>2
  <2>5. /\ r.book.logSeq \in Nat /\ r.book.tradeSeq \in Nat
        /\ r.book.logSeq - b.logSeq = closing /\ r.book.logSeq >= b.logSeq
    BY <1>5, <1>6, <2>1, <2>2
  <2>6. IsBook(r.book)
    BY <2>1, <2>3, <2>4, <2>5, Zenon DEF IsBook
  <2> QED
    BY <2>5, <2>6
<1>12. r.logs = [i \in 1 .. closing |-> r.logs[i]]
  BY <1>10, Zenon
<1>13. \A i \in 1 .. closing : r.logs[i].seq = b.logSeq + i
  BY <1>10, ClosingSeq DEF MatchLog, DoneLog
<1> QED
  BY <1>11, <1>12, <1>13 DEF ContinuesBook, r

\* A cancellation takes one number, or none.
LEMMA CancelContinues ==
    ASSUME NEW b, IsBook(b), NEW order, order.side \in Sides
    PROVE  ContinuesBook(CancelOrder(b, order), b)
<1> DEFINE entry == Entry(b, order)
           m == CHOOSE e \in entry : TRUE
           r == CancelOrder(b, order)
           side == order.side
<1>0. /\ b.logSeq \in Nat /\ b.tradeSeq \in Nat
      /\ b.depths = [s \in Sides |-> b.depths[s]]
      /\ b = [depths |-> b.depths, logSeq |-> b.logSeq, tradeSeq |-> b.tradeSeq]
      /\ \A s \in Sides : IsFiniteSet(b.depths[s])
  BY DEF IsBook
<1>1. CASE entry = {}
  <2>1. r = [book |-> b, logs |-> << >>]
    BY <1>1 DEF CancelOrder
  <2> HIDE DEF r
  <2>2. b.logSeq - b.logSeq = 0 /\ b.logSeq >= b.logSeq /\ 1 .. 0 = {}
    BY <1>0
  <2>3. r.logs = [i \in 1 .. 0 |-> r.logs[i]]
    BY <2>1, <2>2
  <2> QED
    BY <2>1, <2>2, <2>3 DEF ContinuesBook, r
<1>2. CASE entry # {}
  <2>1. /\ r.book = [b EXCEPT !.depths[side] = @ \ entry, !.logSeq = @ + 1]
        /\ r.logs = <<DoneLog(b.logSeq + 1, m, m.size, "cancelled")>>
    BY <1>2 DEF CancelOrder
  <2> HIDE DEF r, m, entry
  <2>2. r.book = [depths |-> [b.depths EXCEPT ![side] = @ \ entry],
                  logSeq |-> b.logSeq + 1, tradeSeq |-> b.tradeSeq]
    BY <1>0, <2>1
  <2>3. /\ r.book = [depths |-> r.book.depths, logSeq |-> r.book.logSeq,
                     tradeSeq |-> r.book.tradeSeq]
        /\ r.book.depths = [s \in Sides |-> r.book.depths[s]]
        /\ r.book.depths[side] = b.depths[side] \ entry
        /\ \A s \in Sides \ {side} : r.book.depths[s] = b.depths[s]
        /\ r.book.logSeq = b.logSeq + 1 /\ r.book.tradeSeq = b.tradeSeq
    <3> DEFINE depths == [b.depths EXCEPT ![side] = @ \ entry]
    <3> HIDE DEF side
    <3>1. side \in Sides
      BY DEF side
    <3>2. /\ depths = [s \in Sides |-> depths[s]]
          /\ depths[side] = b.depths[side] \ entry
          /\ \A s \in Sides \ {side} : depths[s] = b.depths[s]
      BY <1>0, <3>1
    <3> HIDE DEF depths
    <3>3. r.book = [depths |-> depths, logSeq |-> b.logSeq + 1, tradeSeq |-> b.tradeSeq]
      BY <2>2 DEF depths
    <3>4. /\ r.book.depths = depths
          /\ r.book.logSeq = b.logSeq + 1 /\ r.book.tradeSeq = b.tradeSeq
      BY <3>3
    <3>5. r.book = [depths |-> r.book.depths, logSeq |-> r.book.logSeq,
                    tradeSeq |-> r.book.tradeSeq]
      BY <3>3, <3>4, Zenon
    <3> QED
      BY <3>2, <3>4, <3>5, Zenon
  <2>4. IsFiniteSet(b.depths[side] \ entry)
    BY <1>0, FS_Subset
  <2>5. \A s \in Sides : IsFiniteSet(r.book.depths[s])
    BY <1>0, <2>3, <2>4
  <2>6. /\ r.book.logSeq \in Nat /\ r.book.tradeSeq \in Nat
        /\ r.book.logSeq - b.logSeq = 1 /\ r.book.logSeq >= b.logSeq
    BY <1>0, <2>3
  <2>7. IsBook(r.book)
    BY <2>3, <2>5, <2>6, Zenon DEF IsBook
  <2>8. /\ r.logs = [i \in 1 .. 1 |-> r.logs[i]]
        /\ r.logs[1].seq = b.logSeq + 1
    BY <2>1 DEF DoneLog
  <2> QED
    BY <2>6, <2>7, <2>8 DEF ContinuesBook, r
<1> QED
  BY <1>1, <1>2

\* A message continues the book: one log for each number it moves on.
LEMMA HandleContinues ==
    ASSUME NEW b, IsBook(b), NEW bits, NEW message \in Messages
    PROVE  ContinuesBook(Handle(b, bits, message), b)
<1> DEFINE order == message.order
           still == [book |-> b, logs |-> << >>]
           r == Handle(b, bits, message)
<1>1. order.side \in Sides
  BY DEF Messages, Orders, LimitOrders, MarketBuys, MarketSells, Sides
<1>2. TakerOf(order).side \in Sides
  <2>1. order = [id |-> order.id, side |-> order.side, type |-> order.type,
                 size |-> order.size, price |-> order.price, funds |-> order.funds]
    BY DEF Messages, Orders, LimitOrders, MarketBuys, MarketSells
  <2> QED
    BY <1>1, <2>1 DEF TakerOf
<1>3. ContinuesBook(CancelOrder(b, order), b)
  BY <1>1, CancelContinues
<1>4. ContinuesBook(ApplyOrder(b, order), b)
  BY <1>2, CompleteContinues DEF ApplyOrder
<1>5. ContinuesBook(still, b)
  <2>1. b.logSeq \in Nat
    BY DEF IsBook
  <2>2. b.logSeq - b.logSeq = 0 /\ b.logSeq >= b.logSeq /\ 1 .. 0 = {}
    BY <2>1
  <2>3. still.logs = [i \in 1 .. 0 |-> still.logs[i]]
    BY <2>1, <2>2
  <2> QED
    BY <2>1, <2>2, <2>3 DEF ContinuesBook
<1>6. \/ r.book = CancelOrder(b, order).book /\ r.logs = CancelOrder(b, order).logs
      \/ r.book = still.book /\ r.logs = still.logs
      \/ r.book = ApplyOrder(b, order).book /\ r.logs = ApplyOrder(b, order).logs
  BY Zenon DEF Handle
<1> QED
  BY <1>3, <1>4, <1>5, <1>6, Zenon DEF ContinuesBook

\* A message is about an order of the product.
LEMMA MessageId ==
    ASSUME NEW message \in Messages
    PROVE  message.order.id \in OrderIds
<1>1. CASE message.order \in LimitOrders
  BY <1>1 DEF LimitOrders
<1>2. CASE message.order \in MarketBuys
  BY <1>2 DEF MarketBuys
<1>3. CASE message.order \in MarketSells
  BY <1>3 DEF MarketSells
<1> QED
  BY <1>1, <1>2, <1>3 DEF Messages, Orders

\* What a message makes of the bitmap.
LEMMA HandleWindow ==
    ASSUME NEW b, NEW bits \in SUBSET (0 .. WindowCap - 1), NEW message \in Messages
    PROVE  LET r == Handle(b, bits, message)
           IN  bits \subseteq r.window /\ r.window \in SUBSET (0 .. WindowCap - 1)
<1>1. message.order.id \in Nat
  BY OrderIdsAssumption, MessageId
<1>2. Slot(message.order.id) \in 0 .. WindowCap - 1
  BY <1>1, WindowCapAssumption DEF Slot
<1>3. Handle(b, bits, message).window =
         IF WindowRefuses(bits, message.order.id) THEN bits
         ELSE bits \cup {Slot(message.order.id)}
  BY DEF Handle, WindowPut
<1> QED
  BY <1>2, <1>3

\* No id is ever refused.
IdsBeyondWindow == \A id \in OrderIds : id > WindowCap

\* The bitmap does not tell two books apart whose orders are all beyond it.
LEMMA HandleRepeats ==
    ASSUME NEW b, NEW bits, NEW other, NEW message \in Messages,
           IdsBeyondWindow \/ bits = other
    PROVE  LET r == Handle(b, bits, message)
               s == Handle(b, other, message)
           IN  /\ r.book = s.book
               /\ r.logs = s.logs
               /\ IdsBeyondWindow \/ r.window = s.window
<1>1. CASE bits = other
  BY <1>1, Zenon
<1>2. CASE IdsBeyondWindow
  <2>1. message.order.id \in OrderIds
    BY MessageId
  <2>2. ~ (message.order.id <= WindowCap)
    <3> DEFINE id == message.order.id
    <3> HIDE DEF id
    <3>1. id \in OrderIds
      BY <2>1 DEF id
    <3>2. id \in Nat /\ WindowCap \in Nat /\ id > WindowCap
      BY <1>2, <3>1, OrderIdsAssumption, WindowCapAssumption DEF IdsBeyondWindow
    <3>3. ~ (id <= WindowCap)
      BY <3>2
    <3> QED
      BY <3>3 DEF id
  <2>3. ~ WindowRefuses(bits, message.order.id) /\ ~ WindowRefuses(other, message.order.id)
    BY <2>2 DEF WindowRefuses
  <2>4. /\ Handle(b, bits, message).book = Handle(b, other, message).book
        /\ Handle(b, bits, message).logs = Handle(b, other, message).logs
    BY <2>3 DEF Handle
  <2> QED
    BY <1>2, <2>4
<1> QED
  BY <1>1, <1>2

-----------------------------------------------------------------------------
(* Makers in line. *)

\* A part of a depth, with finitely many orders.
IsLine(S, side) == IsDepth(S, side) /\ IsFiniteSet(S)

LEMMA PartIsLine ==
    ASSUME NEW side, NEW S, IsLine(S, side), NEW T \in SUBSET S
    PROVE  IsLine(T, side)
BY FS_Subset DEF IsLine, IsDepth

\* What the numbers of a resting order are.
LEMMA RestingFacts ==
    ASSUME NEW side, NEW S, IsDepth(S, side), NEW m \in S
    PROVE  /\ m.id \in OrderIds /\ m.id \in Nat
           /\ m.price \in Prices /\ m.price \in Nat
           /\ m.size \in Nat /\ m.size > 0
           /\ m.side = side
           /\ m.size * m.price \in Nat
<1>1. m \in RestingOrders /\ m.side = side
  BY DEF IsDepth
<1>2. m.id \in OrderIds /\ m.price \in Prices /\ m.size \in Nat \ {0}
  BY <1>1 DEF RestingOrders
<1>3. m.id \in Nat /\ m.price \in Nat /\ m.size \in Nat /\ m.size > 0
  <2>1. m.id \in Nat
    BY <1>2, OrderIdsAssumption
  <2>2. m.price \in Nat
    BY <1>2, PricesAssumption
  <2>3. m.size \in Nat /\ m.size > 0
    BY <1>2
  <2> QED
    BY <2>1, <2>2, <2>3
<1>4. m.size * m.price \in Nat
  BY <1>3
<1> QED
  BY <1>1, <1>2, <1>3, <1>4

\* Priority is a strict total order on a depth.
LEMMA PriorityIsOrder ==
    ASSUME NEW side \in Sides, NEW S, IsDepth(S, side)
    PROVE  /\ \A m \in S : ~ Precedes(m, m)
           /\ \A m, n \in S : m = n \/ Precedes(m, n) \/ Precedes(n, m)
           /\ \A m, n \in S : Precedes(m, n) => ~ Precedes(n, m)
           /\ \A m, n, o \in S : Precedes(m, n) /\ Precedes(n, o) => Precedes(m, o)
<1>1. \A m \in S : m.id \in Nat /\ m.price \in Nat /\ m.side = side
  BY RestingFacts
<1>2. \A m, n \in S : m.id = n.id => m = n
  BY DEF IsDepth
<1>3. side = "buy" \/ side = "sell"
  BY DEF Sides
<1>4. \A m, n \in S : Precedes(m, n) <=>
         \/ side = "sell" /\ m.price < n.price
         \/ side = "buy" /\ m.price > n.price
         \/ m.price = n.price /\ m.id < n.id
  BY <1>1 DEF Precedes
<1>5. ASSUME NEW m \in S PROVE ~ Precedes(m, m)
  BY <1>1, <1>4
<1>6. ASSUME NEW m \in S, NEW n \in S
      PROVE  /\ m = n \/ Precedes(m, n) \/ Precedes(n, m)
             /\ Precedes(m, n) => ~ Precedes(n, m)
  <2>1. m.id \in Nat /\ m.price \in Nat /\ n.id \in Nat /\ n.price \in Nat
    BY <1>1
  <2>2. m.id = n.id => m = n
    BY <1>2
  <2> QED
    BY <1>3, <1>4, <2>1, <2>2
<1>7. ASSUME NEW m \in S, NEW n \in S, NEW o \in S, Precedes(m, n), Precedes(n, o)
      PROVE  Precedes(m, o)
  <2>1. /\ m.id \in Nat /\ m.price \in Nat /\ n.id \in Nat /\ n.price \in Nat
        /\ o.id \in Nat /\ o.price \in Nat
    BY <1>1
  <2> QED
    BY <1>3, <1>4, <1>7, <2>1
<1> QED
  BY <1>5, <1>6, <1>7

Rank(S, m) == Cardinality(Ahead(S, m))

\* Who comes later has more ahead of it.
LEMMA RankGrows ==
    ASSUME NEW side \in Sides, NEW S, IsLine(S, side), NEW m \in S
    PROVE  /\ IsFiniteSet(Ahead(S, m)) /\ Ahead(S, m) \subseteq S \ {m}
           /\ Rank(S, m) \in 0 .. Cardinality(S) - 1
           /\ \A n \in S : Precedes(m, n) => /\ Ahead(S, m) \cup {m} \subseteq Ahead(S, n)
                                             /\ Rank(S, m) < Rank(S, n)
<1>0. IsDepth(S, side) /\ IsFiniteSet(S)
  BY DEF IsLine
<1>1. \A n \in S : Ahead(S, n) \subseteq S \ {n}
  BY <1>0, PriorityIsOrder DEF Ahead
<1>2. \A n \in S : IsFiniteSet(Ahead(S, n)) /\ Rank(S, n) \in Nat
  BY <1>0, <1>1, FS_Subset, FS_CardinalityType DEF Rank
<1>3. IsFiniteSet(S \ {m}) /\ Cardinality(S \ {m}) = Cardinality(S) - 1 /\ Cardinality(S) \in Nat
  BY <1>0, FS_RemoveElement, FS_CardinalityType
<1>4. Rank(S, m) <= Cardinality(S) - 1
  BY <1>1, <1>3, FS_Subset DEF Rank
<1>5. ASSUME NEW n \in S, Precedes(m, n)
      PROVE  Ahead(S, m) \cup {m} \subseteq Ahead(S, n) /\ Rank(S, m) < Rank(S, n)
  <2>1. Ahead(S, m) \cup {m} \subseteq Ahead(S, n)
    BY <1>0, <1>5, PriorityIsOrder DEF Ahead
  <2>2. Cardinality(Ahead(S, m) \cup {m}) = Rank(S, m) + 1
    BY <1>1, <1>2, FS_AddElement DEF Rank
  <2>3. Cardinality(Ahead(S, m) \cup {m}) <= Rank(S, n)
    BY <1>2, <2>1, FS_Subset DEF Rank
  <2> QED
    BY <1>2, <2>1, <2>2, <2>3
<1> QED
  BY <1>1, <1>2, <1>3, <1>4, <1>5

\* Everyone has a place in line, and every place is somebody's.
LEMMA EveryPlace ==
    ASSUME NEW side \in Sides, NEW S, IsLine(S, side)
    PROVE  /\ Cardinality(S) \in Nat
           /\ \A k \in 1 .. Cardinality(S) : InLine(S)[k] \in S /\ Rank(S, InLine(S)[k]) = k - 1
           /\ \A m \in S : /\ Rank(S, m) + 1 \in 1 .. Cardinality(S)
                           /\ InLine(S)[Rank(S, m) + 1] = m
<1> DEFINE n == Cardinality(S)
           rank == [m \in S |-> Rank(S, m)]
           Ranks == 0 .. n - 1
<1>1. IsDepth(S, side) /\ IsFiniteSet(S) /\ n \in Nat
  BY FS_CardinalityType DEF IsLine
<1>2. \A m \in S : Rank(S, m) \in 0 .. n - 1
  BY RankGrows
<1>3. ASSUME NEW l \in S, NEW m \in S, Rank(S, l) = Rank(S, m)
      PROVE  l = m
  <2>1. ~ (Rank(S, l) < Rank(S, m)) /\ ~ (Rank(S, m) < Rank(S, l))
    BY <1>2, <1>3
  <2> QED
    BY <1>1, <2>1, RankGrows, PriorityIsOrder
<1>4. rank \in Injection(S, Ranks)
  <2>1. rank \in [S -> Ranks]
    BY <1>2
  <2> QED
    BY <1>3, <2>1 DEF Injection, IsInjective
<1>5. IsFiniteSet(Ranks) /\ Cardinality(Ranks) = n
  BY <1>1, FS_Interval
<1>6. rank \in Surjection(S, Ranks)
  BY <1>4, <1>5, FS_Injection
<1>7. \A r \in Ranks : \E m \in S : Rank(S, m) = r
  BY <1>6 DEF Surjection
<1>8. ASSUME NEW k \in 1 .. n
      PROVE  InLine(S)[k] \in S /\ Rank(S, InLine(S)[k]) = k - 1
  <2>1. InLine(S)[k] = CHOOSE m \in S : Rank(S, m) = k - 1
    BY DEF InLine, Rank
  <2>2. \E m \in S : Rank(S, m) = k - 1
    BY <1>1, <1>7
  <2> QED
    BY <2>1, <2>2
<1>9. ASSUME NEW m \in S
      PROVE  Rank(S, m) + 1 \in 1 .. n /\ InLine(S)[Rank(S, m) + 1] = m
  <2>1. Rank(S, m) + 1 \in 1 .. n /\ (Rank(S, m) + 1) - 1 = Rank(S, m)
    BY <1>1, <1>2
  <2> QED
    BY <1>3, <1>8, <2>1
<1> QED
  BY <1>1, <1>8, <1>9

LEMMA SumOverPart ==
    ASSUME NEW f, NEW D, IsFiniteSet(D)
    PROVE  SumFunction([x \in D |-> f[x]]) = SumFunctionOnSet(f, D)
<1> DEFINE g == [x \in D |-> f[x]]
<1>1. DOMAIN g = D /\ \A x \in D : g[x] = f[x]
  OBVIOUS
<1> HIDE DEF g
<1>2. SumFunction(g) = SumFunctionOnSet(g, D)
  BY <1>1 DEF SumFunction
<1>3. SumFunctionOnSet(g, D) = SumFunctionOnSet(f, D)
  BY <1>1, SumSame
<1> QED
  BY <1>2, <1>3 DEF g

\* A part of naturals adds up to no more than all.
LEMMA SumOfPart ==
    ASSUME NEW f, NEW S, IsFiniteSet(S), \A x \in S : f[x] \in Nat, NEW D \in SUBSET S
    PROVE  /\ SumFunctionOnSet(f, D) \in Nat
           /\ SumFunctionOnSet(f, S) \in Nat
           /\ SumFunctionOnSet(f, D) <= SumFunctionOnSet(f, S)
<1> DEFINE Good == {T \in SUBSET S : SumFunctionOnSet(f, T \cap D) <= SumFunctionOnSet(f, T)}
<1>0. \A T \in SUBSET S : /\ IsFiniteSet(T) /\ SumFunctionOnSet(f, T) \in Nat
                          /\ IsFiniteSet(T \cap D) /\ SumFunctionOnSet(f, T \cap D) \in Nat
  <2> SUFFICES ASSUME NEW T \in SUBSET S
               PROVE  IsFiniteSet(T) /\ SumFunctionOnSet(f, T) \in Nat
    BY FS_Subset
  <2>1. IsFiniteSet(T)
    BY FS_Subset
  <2> QED
    BY <2>1, SumOfNaturals
<1>1. {} \in Good
  <2>1. {} \cap D = {}
    OBVIOUS
  <2> QED
    BY <2>1, SumOfNone
<1>2. ASSUME NEW T \in SUBSET S, T # {}, \A x \in T : T \ {x} \in Good
      PROVE  T \in Good
  <2> DEFINE c == AnyOf(T)
             rest == SumFunctionOnSet(f, (T \ {c}) \cap D)
  <2>1. c \in T /\ IsFiniteSet(T) /\ f[c] \in Nat /\ T \ {c} \in SUBSET S
    BY <1>0, <1>2, AnyOfSet
  <2>2. SumFunctionOnSet(f, T) = f[c] + SumFunctionOnSet(f, T \ {c})
    BY <1>2, <2>1, SumOfRest
  <2>3. rest <= SumFunctionOnSet(f, T \ {c})
    BY <1>2, <2>1
  <2>4. /\ SumFunctionOnSet(f, T \ {c}) \in Nat /\ rest \in Nat
        /\ SumFunctionOnSet(f, T) \in Nat
    BY <1>0, <2>1
  <2>5. SumFunctionOnSet(f, T \cap D) <= rest + f[c]
    <3>1. CASE c \in D
      <4>1. c \in T \cap D /\ (T \cap D) \ {c} = (T \ {c}) \cap D
        BY <2>1, <3>1
      <4>2. Summable(f, T \cap D)
        BY <1>0 DEF Summable
      <4>3. SumFunctionOnSet(f, T \cap D) = f[c] + SumFunctionOnSet(f, (T \cap D) \ {c})
        BY <4>1, <4>2, SumTakesOut
      <4>4. SumFunctionOnSet(f, T \cap D) = f[c] + rest
        BY <4>1, <4>3, Zenon
      <4> HIDE DEF rest, c
      <4> QED
        BY <2>1, <2>4, <4>4
    <3>2. CASE c \notin D
      <4>1. T \cap D = (T \ {c}) \cap D
        BY <3>2
      <4>2. SumFunctionOnSet(f, T \cap D) = rest
        BY <4>1, Zenon
      <4> HIDE DEF rest, c
      <4> QED
        BY <2>1, <2>4, <4>2
    <3> QED
      BY <3>1, <3>2
  <2>6. SumFunctionOnSet(f, T \cap D) \in Nat
    BY <1>0
  <2> HIDE DEF rest, c
  <2> QED
    BY <2>1, <2>2, <2>3, <2>4, <2>5, <2>6
<1> HIDE DEF Good
<1>3. S \in Good
  BY <1>1, <1>2, SetInduction
<1>4. S \cap D = D
  OBVIOUS
<1> QED
  BY <1>0, <1>3, <1>4 DEF Good

LEMMA VolumeFacts ==
    ASSUME NEW side, NEW S, IsLine(S, side), NEW D \in SUBSET S
    PROVE  /\ Volume(D) \in Nat /\ Volume(S) \in Nat /\ Volume(D) <= Volume(S)
           /\ \A m \in D : Volume(D) = Volume(D \ {m}) + m.size
<1> DEFINE f == [m \in S |-> m.size]
<1>1. \A m \in S : f[m] = m.size /\ f[m] \in Nat
  BY RestingFacts DEF IsLine
<1>2. IsFiniteSet(S) /\ IsFiniteSet(D)
  BY FS_Subset DEF IsLine
<1>3. ASSUME NEW E \in SUBSET S
      PROVE  Volume(E) = SumFunctionOnSet(f, E)
  <2>1. IsFiniteSet(E)
    BY <1>2, FS_Subset
  <2>2. [m \in E |-> m.size] = [m \in E |-> f[m]]
    BY <1>1
  <2>3. Volume(E) = SumFunction([m \in E |-> f[m]])
    BY <2>2 DEF Volume
  <2> HIDE DEF f
  <2> QED
    BY <2>1, <2>3, SumOverPart
<1> HIDE DEF f
<1>4. Volume(D) \in Nat /\ Volume(S) \in Nat /\ Volume(D) <= Volume(S)
  BY <1>1, <1>2, <1>3, SumOfPart
<1>5. ASSUME NEW m \in D
      PROVE  Volume(D) = Volume(D \ {m}) + m.size
  <2>1. Summable(f, D)
    BY <1>1, <1>2 DEF Summable
  <2>2. SumFunctionOnSet(f, D) = f[m] + SumFunctionOnSet(f, D \ {m})
    BY <2>1, SumTakesOut
  <2>3. D \ {m} \in SUBSET S /\ IsFiniteSet(D \ {m})
    BY <1>2, FS_Subset
  <2>4. Volume(D) = m.size + Volume(D \ {m}) /\ m.size \in Nat
    BY <1>1, <1>3, <2>2, <2>3
  <2>5. Volume(D \ {m}) \in Nat
    BY <1>1, <1>3, <2>3, SumOfNaturals
  <2> QED
    BY <2>4, <2>5
<1> QED
  BY <1>4, <1>5

LEMMA CostFacts ==
    ASSUME NEW side, NEW S, IsLine(S, side), NEW D \in SUBSET S
    PROVE  /\ Cost(D) \in Nat /\ Cost(S) \in Nat /\ Cost(D) <= Cost(S)
           /\ \A m \in D : Cost(D) = Cost(D \ {m}) + m.size * m.price
<1> DEFINE f == [m \in S |-> m.size * m.price]
<1>1. \A m \in S : f[m] = m.size * m.price /\ f[m] \in Nat
  BY RestingFacts DEF IsLine
<1>2. IsFiniteSet(S) /\ IsFiniteSet(D)
  BY FS_Subset DEF IsLine
<1>3. ASSUME NEW E \in SUBSET S
      PROVE  Cost(E) = SumFunctionOnSet(f, E)
  <2>1. IsFiniteSet(E)
    BY <1>2, FS_Subset
  <2>2. [m \in E |-> m.size * m.price] = [m \in E |-> f[m]]
    BY <1>1
  <2>3. Cost(E) = SumFunction([m \in E |-> f[m]])
    BY <2>2 DEF Cost
  <2> HIDE DEF f
  <2> QED
    BY <2>1, <2>3, SumOverPart
<1> HIDE DEF f
<1>4. Cost(D) \in Nat /\ Cost(S) \in Nat /\ Cost(D) <= Cost(S)
  BY <1>1, <1>2, <1>3, SumOfPart
<1>5. ASSUME NEW m \in D
      PROVE  Cost(D) = Cost(D \ {m}) + m.size * m.price
  <2>1. Summable(f, D)
    BY <1>1, <1>2 DEF Summable
  <2>2. SumFunctionOnSet(f, D) = f[m] + SumFunctionOnSet(f, D \ {m})
    BY <2>1, SumTakesOut
  <2>3. D \ {m} \in SUBSET S /\ IsFiniteSet(D \ {m})
    BY <1>2, FS_Subset
  <2> DEFINE c == m.size * m.price
  <2>4. c = f[m] /\ c \in Nat
    BY <1>1
  <2> HIDE DEF c
  <2>5. Cost(D) = c + Cost(D \ {m})
    BY <1>3, <2>2, <2>3, <2>4
  <2>6. Cost(D \ {m}) \in Nat
    BY <1>1, <1>3, <2>3, SumOfNaturals
  <2>7. Cost(D) = Cost(D \ {m}) + c
    BY <2>4, <2>5, <2>6
  <2> QED
    BY <2>7 DEF c
<1> QED
  BY <1>4, <1>5

-----------------------------------------------------------------------------
(* What the taker takes of a line of makers. *)

\* Of a part of the funds, how many units it buys.
LEMMA UnitsForFunds ==
    ASSUME NEW a \in Int, NEW p \in Nat, p # 0
    PROVE  /\ a \div p \in Int
           /\ (a \div p) * p <= a
           /\ a < 0 => a \div p < 0
           /\ a \div p > 0 => a > 0
           /\ \A s \in Nat : s * p <= a => s <= a \div p
<1>1. a \div p \in Int
  OBVIOUS
<1>2. (a \div p) * p <= a /\ a < ((a \div p) + 1) * p
  OBVIOUS
<1> DEFINE q == a \div p
<1> HIDE DEF q
<1>3. q \in Int /\ q * p <= a /\ a < (q + 1) * p
  BY <1>1, <1>2 DEF q
<1>4. a < 0 => q < 0
  BY <1>3
<1>5. q > 0 => a > 0
  BY <1>3
<1>6. \A s \in Nat : s * p <= a => s <= q
  <2> SUFFICES ASSUME NEW s \in Nat, s * p <= a, ~ (s <= q) PROVE FALSE
    BY <1>3
  <2>1. s - (q + 1) \in Nat
    BY <1>3
  <2>2. (s - (q + 1)) * p \in Nat
    BY <2>1
  <2>3. s * p = (q + 1) * p + (s - (q + 1)) * p
    BY <1>3
  <2>4. (q + 1) * p \in Int /\ s * p \in Int
    BY <1>3
  <2> QED
    BY <1>3, <2>2, <2>3, <2>4
<1> QED
  BY <1>3, <1>4, <1>5, <1>6 DEF q

\* A taker as ApplyOrder meets it, against makers on a side.
Meets(taker, side) ==
    /\ BuysByFunds(taker) => taker.funds \in Nat /\ side = "sell"
    /\ ~ BuysByFunds(taker) => taker.size \in Nat

LEMMA TakeFacts ==
    ASSUME NEW side \in Sides, NEW S, IsLine(S, side), NEW taker, Meets(taker, side),
           NEW m \in S
    PROVE  /\ Take(taker, S, m) \in Nat
           /\ Take(taker, S, m) <= m.size
           /\ Take(taker, S, m) * m.price \in Nat
<1>1. m.size \in Nat /\ m.price \in Nat
  BY RestingFacts DEF IsLine
<1>2. Volume(Ahead(S, m)) \in Nat /\ Cost(Ahead(S, m)) \in Nat
  BY VolumeFacts, CostFacts DEF Ahead
<1>3. Take(taker, S, m) \in Nat /\ Take(taker, S, m) <= m.size
  <2>1. CASE ~ BuysByFunds(taker)
    BY <1>1, <1>2, <2>1 DEF Take, Clip, Meets
  <2>2. CASE BuysByFunds(taker)
    <3>1. m.price # 0 => (taker.funds - Cost(Ahead(S, m))) \div m.price \in Int
      <4>1. taker.funds - Cost(Ahead(S, m)) \in Int
        BY <1>2, <2>2 DEF Meets
      <4> QED
        BY <1>1, <4>1, UnitsForFunds
    <3> QED
      BY <1>1, <2>2, <3>1 DEF Take, Clip
  <2> QED
    BY <2>1, <2>2
<1>4. Take(taker, S, m) * m.price \in Nat
  BY <1>1, <1>3
<1> QED
  BY <1>3, <1>4

\* Whoever stands before one that trades is bought out.
LEMMA AheadBoughtOut ==
    ASSUME NEW side \in Sides, NEW S, IsLine(S, side), NEW taker, Meets(taker, side),
           NEW m \in S, NEW n \in S, Precedes(m, n), Take(taker, S, n) > 0
    PROVE  Take(taker, S, m) = m.size
<1> DEFINE am == Ahead(S, m)
           an == Ahead(S, n)
<1>1. /\ m.size \in Nat /\ m.price \in Nat /\ n.size \in Nat /\ n.price \in Nat
      /\ m.size * m.price \in Nat /\ m.side = side /\ n.side = side
      /\ m.size > 0
  BY RestingFacts DEF IsLine
<1>2. /\ am \cup {m} \subseteq an /\ am \cup {m} \in SUBSET S /\ an \in SUBSET S
      /\ m \notin am /\ (am \cup {m}) \ {m} = am
  BY RankGrows DEF Ahead
<1>3. IsLine(an, side) /\ am \cup {m} \in SUBSET an
  BY <1>2, PartIsLine
<1>4. /\ Volume(am) + m.size <= Volume(an) /\ Volume(am) \in Nat /\ Volume(an) \in Nat
  <2>1. Volume(am \cup {m}) <= Volume(an) /\ Volume(an) \in Nat
    BY <1>3, VolumeFacts
  <2>2. Volume(am \cup {m}) = Volume((am \cup {m}) \ {m}) + m.size
    BY <1>2, VolumeFacts
  <2>3. Volume(am \cup {m}) = Volume(am) + m.size
    BY <1>2, <2>2, Zenon
  <2>4. Volume(am) \in Nat
    BY <1>2, VolumeFacts
  <2> QED
    BY <2>1, <2>3, <2>4
<1>5. /\ Cost(am) + m.size * m.price <= Cost(an) /\ Cost(am) \in Nat /\ Cost(an) \in Nat
  <2>1. Cost(am \cup {m}) <= Cost(an) /\ Cost(an) \in Nat
    BY <1>3, CostFacts
  <2>2. Cost(am \cup {m}) = Cost((am \cup {m}) \ {m}) + m.size * m.price
    BY <1>2, CostFacts
  <2>3. Cost(am \cup {m}) = Cost(am) + m.size * m.price
    BY <1>2, <2>2, Zenon
  <2>4. Cost(am) \in Nat
    BY <1>2, CostFacts
  <2> QED
    BY <2>1, <2>3, <2>4
<1> HIDE DEF am, an
<1>6. CASE ~ BuysByFunds(taker)
  <2>1. Take(taker, S, n) = Clip(taker.size - Volume(an), n.size)
    BY <1>6 DEF Take, an
  <2>2. taker.size - Volume(an) > 0 /\ taker.size \in Nat
    BY <1>1, <1>4, <1>6, <2>1 DEF Clip, Meets
  <2>3. taker.size - Volume(am) >= m.size
    BY <1>1, <1>4, <2>2
  <2>4. Take(taker, S, m) = Clip(taker.size - Volume(am), m.size)
    BY <1>6 DEF Take, am
  <2> QED
    BY <1>1, <1>4, <2>2, <2>3, <2>4 DEF Clip
<1>7. CASE BuysByFunds(taker)
  <2>0. taker.funds \in Nat /\ side = "sell"
    BY <1>7 DEF Meets
  <2>1. m.price <= n.price
    BY <1>1, <2>0 DEF Precedes
  <2>2. CASE m.price = 0
    BY <1>7, <2>2 DEF Take
  <2>3. CASE m.price # 0
    <3>1. n.price # 0
      BY <1>1, <2>1, <2>3
    <3>2. Take(taker, S, n) = Clip((taker.funds - Cost(an)) \div n.price, n.size)
      BY <1>7, <3>1 DEF Take, an
    <3> DEFINE q == (taker.funds - Cost(an)) \div n.price
               r == (taker.funds - Cost(am)) \div m.price
    <3>3. q \in Int /\ (q > 0 => taker.funds - Cost(an) > 0)
      <4>1. taker.funds - Cost(an) \in Int
        BY <1>5, <2>0
      <4> QED
        BY <1>1, <3>1, <4>1, UnitsForFunds
    <3>4. taker.funds - Cost(am) \in Int /\ r \in Int
          /\ (m.size * m.price <= taker.funds - Cost(am) => m.size <= r)
      <4>1. taker.funds - Cost(am) \in Int
        BY <1>5, <2>0
      <4> QED
        BY <1>1, <2>3, <4>1, UnitsForFunds
    <3>5. Take(taker, S, m) = Clip(r, m.size)
      BY <1>7, <2>3 DEF Take, am
    <3> HIDE DEF q, r
    <3>6. q > 0
      BY <1>1, <3>2, <3>3 DEF Clip, q
    <3>7. m.size * m.price <= taker.funds - Cost(am)
      BY <1>1, <1>5, <2>0, <3>3, <3>6
    <3> QED
      BY <1>1, <3>4, <3>5, <3>7 DEF Clip
  <2> QED
    BY <2>2, <2>3
<1> QED
  BY <1>6, <1>7

\* Makers with everyone who stands before them.
FrontPart(D, S) == D \in SUBSET S /\ \A m \in D : Ahead(S, m) \subseteq D

LEMMA LastInLine ==
    ASSUME NEW side \in Sides, NEW S, IsLine(S, side), NEW D, FrontPart(D, S), D # {}
    PROVE  \E m \in D : D \ {m} = Ahead(S, m) /\ FrontPart(D \ {m}, S)
<1> DEFINE n == Cardinality(S)
           Places == {n - Rank(S, m) : m \in D}
<1>1. IsDepth(S, side) /\ n \in Nat
  BY FS_CardinalityType DEF IsLine
<1>2. D \in SUBSET S /\ \A m \in D : Rank(S, m) \in 0 .. n - 1
  BY RankGrows DEF FrontPart
<1>3. Places \in SUBSET Nat /\ Places # {}
  BY <1>1, <1>2
<1>4. PICK p \in Places : \A q \in Places : p <= q
  BY <1>3, LeastNumber
<1>5. PICK m \in D : p = n - Rank(S, m)
  BY <1>4
<1>6. ASSUME NEW x \in D \ {m} PROVE Precedes(x, m)
  <2>1. n - Rank(S, m) <= n - Rank(S, x)
    BY <1>4, <1>5
  <2>2. ~ (Rank(S, m) < Rank(S, x))
    BY <1>1, <1>2, <2>1
  <2> QED
    BY <1>1, <1>2, <2>2, RankGrows, PriorityIsOrder
<1>7. D \ {m} = Ahead(S, m)
  <2>1. Ahead(S, m) \subseteq D \ {m}
    BY <1>2, RankGrows DEF FrontPart
  <2> QED
    BY <1>2, <1>6, <2>1 DEF Ahead
<1>8. FrontPart(D \ {m}, S)
  <2> SUFFICES ASSUME NEW x \in D \ {m} PROVE Ahead(S, x) \subseteq D \ {m}
    BY <1>2 DEF FrontPart
  <2>1. Ahead(S, x) \subseteq Ahead(S, m)
    BY <1>2, <1>6, RankGrows
  <2> QED
    BY <1>7, <2>1
<1> QED
  BY <1>7, <1>8

\* A taker that counts its size takes as much as there is, and no more than it
\* asks for.
LEMMA TakesItsSize ==
    ASSUME NEW side \in Sides, NEW S, IsLine(S, side), NEW taker, Meets(taker, side),
           ~ BuysByFunds(taker)
    PROVE  LET all == SumFunctionOnSet([m \in S |-> Take(taker, S, m)], S)
           IN  all = IF Volume(S) <= taker.size THEN Volume(S) ELSE taker.size
<1> DEFINE f == [m \in S |-> Take(taker, S, m)]
           size == taker.size
           Fits(D) == SumFunctionOnSet(f, D) = IF Volume(D) <= size THEN Volume(D) ELSE size
           Good == {D \in SUBSET S : FrontPart(D, S) => Fits(D)}
<1>1. size \in Nat /\ IsFiniteSet(S)
  BY DEF Meets, IsLine
<1>2. \A m \in S : f[m] = Take(taker, S, m) /\ f[m] \in Nat
  BY TakeFacts
<1>3. {} \in Good
  <2>1. Volume({}) = 0
    <3>1. [m \in {} |-> m.size] = [m \in {} |-> 0]
      OBVIOUS
    <3> QED
      BY SumOfNone DEF Volume, SumFunction
  <2> QED
    BY <1>1, <2>1, SumOfNone
<1> HIDE DEF f
<1>4. ASSUME NEW D \in SUBSET S, D # {}, \A x \in D : D \ {x} \in Good
      PROVE  D \in Good
  <2> SUFFICES ASSUME FrontPart(D, S) PROVE Fits(D)
    OBVIOUS
  <2>1. PICK m \in D : D \ {m} = Ahead(S, m) /\ FrontPart(D \ {m}, S)
    BY <1>4, LastInLine
  <2> DEFINE E == D \ {m}
             v == Volume(E)
             s == SumFunctionOnSet(f, E)
  <2>2. Fits(E)
    BY <1>4, <2>1
  <2>3. Summable(f, D)
    BY <1>1, <1>2, FS_Subset DEF Summable
  <2>4. SumFunctionOnSet(f, D) = f[m] + s
    BY <2>3, SumTakesOut
  <2>5. Volume(D) = v + m.size /\ v \in Nat
    BY VolumeFacts
  <2>6. f[m] = Clip(size - v, m.size)
    BY <1>2, <2>1 DEF Take
  <2>7. m.size \in Nat /\ m.size > 0
    BY RestingFacts DEF IsLine
  <2>8. s = IF v <= size THEN v ELSE size
    BY <2>2
  <2> HIDE DEF v, s, E, size
  <2>9. SumFunctionOnSet(f, D) = IF v + m.size <= size THEN v + m.size ELSE size
    BY <1>1, <2>4, <2>5, <2>6, <2>7, <2>8 DEF Clip
  <2> QED
    BY <2>5, <2>9
<1> HIDE DEF Good
<1>5. S \in Good
  BY <1>1, <1>3, <1>4, SetInduction
<1>6. FrontPart(S, S)
  BY DEF FrontPart, Ahead
<1> QED
  BY <1>5, <1>6 DEF Good, f

\* A market buy pays no more than its funds.
LEMMA PaysItsFunds ==
    ASSUME NEW side \in Sides, NEW S, IsLine(S, side), NEW taker, Meets(taker, side),
           BuysByFunds(taker)
    PROVE  SumFunctionOnSet([m \in S |-> Take(taker, S, m) * m.price], S) <= taker.funds
<1> DEFINE f == [m \in S |-> Take(taker, S, m) * m.price]
           funds == taker.funds
           Fits(D) == /\ SumFunctionOnSet(f, D) <= funds
                      /\ Cost(D) <= funds => SumFunctionOnSet(f, D) = Cost(D)
           Good == {D \in SUBSET S : FrontPart(D, S) => Fits(D)}
<1>1. funds \in Nat /\ IsFiniteSet(S) /\ side = "sell"
  BY DEF Meets, IsLine
<1>2. \A m \in S : f[m] = Take(taker, S, m) * m.price /\ f[m] \in Nat
  BY TakeFacts
<1>3. {} \in Good
  <2>1. Cost({}) = 0
    <3>1. [m \in {} |-> m.size * m.price] = [m \in {} |-> 0]
      OBVIOUS
    <3> QED
      BY SumOfNone DEF Cost, SumFunction
  <2> QED
    BY <1>1, <2>1, SumOfNone
<1> HIDE DEF f
<1>4. ASSUME NEW D \in SUBSET S, D # {}, \A x \in D : D \ {x} \in Good
      PROVE  D \in Good
  <2> SUFFICES ASSUME FrontPart(D, S) PROVE Fits(D)
    OBVIOUS
  <2>1. PICK m \in D : D \ {m} = Ahead(S, m) /\ FrontPart(D \ {m}, S)
    BY <1>4, LastInLine
  <2> DEFINE E == D \ {m}
             c == Cost(E)
             s == SumFunctionOnSet(f, E)
             price == m.price
             size == m.size
             got == Take(taker, S, m)
  <2>2. s <= funds /\ (c <= funds => s = c)
    BY <1>4, <2>1
  <2>3. SumFunctionOnSet(f, D) = f[m] + s /\ s \in Nat
    <3>1. Summable(f, D)
      BY <1>1, <1>2, FS_Subset DEF Summable
    <3>2. IsFiniteSet(E)
      BY <1>1, FS_Subset
    <3>3. s \in Nat
      BY <1>2, <3>2, SumOfNaturals
    <3> QED
      BY <3>1, <3>3, SumTakesOut
  <2>5. Cost(D) = c + size * price /\ c \in Nat
    BY CostFacts
  <2>6. f[m] = got * price /\ f[m] \in Nat /\ got \in Nat /\ got <= size
    BY <1>2, TakeFacts
  <2>7. size \in Nat /\ size > 0 /\ price \in Nat /\ size * price \in Nat
    BY RestingFacts DEF IsLine
  <2>8. price # 0 => got = Clip((funds - c) \div price, size)
    BY <2>1 DEF Take
  <2>9. price = 0 => got = size
    BY DEF Take
  <2> HIDE DEF c, s, E, funds, price, size, got
  <2>10. CASE price = 0
    <3>1. got * price = 0 /\ size * price = 0
      BY <2>6, <2>7, <2>10
    <3> QED
      BY <1>1, <2>2, <2>3, <2>5, <2>6, <3>1
  <2>11. CASE price # 0 /\ c <= funds
    <3> DEFINE q == (funds - c) \div price
    <3>1. funds - c \in Int
      BY <1>1, <2>5
    <3>2. /\ q \in Int /\ q * price <= funds - c
          /\ \A z \in Nat : z * price <= funds - c => z <= q
      BY <2>7, <2>11, <3>1, UnitsForFunds
    <3> HIDE DEF q
    <3>3. got = Clip(q, size)
      BY <2>8, <2>11 DEF q
    <3>4. got <= q \/ got = 0
      BY <2>7, <3>2, <3>3 DEF Clip
    <3>5. got * price <= funds - c
      <4>1. CASE got = 0
        <5>1. got * price = 0 /\ 0 <= funds - c
          BY <1>1, <2>5, <2>7, <2>11, <4>1
        <5> QED
          BY <5>1
      <4>2. CASE got <= q
        <5>1. got * price <= q * price
          <6>1. q \in Nat
            BY <2>6, <3>2, <4>2
          <6> QED
            BY <2>6, <2>7, <4>2, <6>1
        <5>2. got * price \in Int /\ q * price \in Int
          BY <2>6, <2>7, <3>2
        <5> QED
          BY <3>1, <3>2, <5>1, <5>2
      <4> QED
        BY <3>4, <4>1, <4>2
    <3>6. c + size * price <= funds => got = size
      <4>1. c + size * price <= funds => size * price <= funds - c
        BY <1>1, <2>5, <2>7
      <4> QED
        BY <2>7, <3>2, <3>3, <4>1 DEF Clip
    <3>7. SumFunctionOnSet(f, D) = got * price + c
      BY <2>2, <2>3, <2>6, <2>11
    <3>8. SumFunctionOnSet(f, D) <= funds
      BY <1>1, <2>5, <2>6, <3>5, <3>7
    <3>9. Cost(D) <= funds => SumFunctionOnSet(f, D) = Cost(D)
      BY <2>5, <2>6, <2>7, <3>6, <3>7
    <3> QED
      BY <3>8, <3>9
  <2>12. CASE price # 0 /\ ~ (c <= funds)
    <3> DEFINE q == (funds - c) \div price
    <3>1. funds - c \in Int /\ funds - c < 0
      BY <1>1, <2>5, <2>12
    <3>2. q \in Int /\ q < 0
      BY <2>7, <2>12, <3>1, UnitsForFunds
    <3> HIDE DEF q
    <3>3. got = Clip(q, size)
      BY <2>8, <2>12 DEF q
    <3>4. got = 0
      BY <3>2, <3>3 DEF Clip
    <3>5. f[m] = 0
      BY <2>6, <2>7, <3>4
    <3> QED
      BY <1>1, <2>2, <2>3, <2>5, <2>7, <2>12, <3>5
  <2> QED
    BY <2>10, <2>11, <2>12
<1> HIDE DEF Good
<1>5. S \in Good
  BY <1>1, <1>3, <1>4, SetInduction
<1>6. FrontPart(S, S)
  BY DEF FrontPart, Ahead
<1> QED
  BY <1>5, <1>6 DEF Good, f

-----------------------------------------------------------------------------
(* What a whole call logs and leaves on the book. *)

\* A book whose depths are depths.
IsOrderBook(b) == IsBook(b) /\ \A side \in Sides : IsDepth(b.depths[side], side)

\* What TakerOf makes of an order.
IsTaker(t) ==
    /\ t = [id |-> t.id, side |-> t.side, type |-> t.type, size |-> t.size,
            price |-> t.price, funds |-> t.funds]
    /\ t.id \in OrderIds /\ t.side \in Sides /\ t.type \in {"limit", "market"}
    /\ t.size \in Nat /\ t.price \in Nat /\ t.funds \in Nat
    /\ t.type = "limit" => t.price \in Prices

LEMMA OppositeSide ==
    ASSUME NEW side \in Sides
    PROVE  Opposite(side) \in Sides /\ Opposite(side) # side
BY DEF Opposite, Sides

LEMMA TakerMeetsMakers ==
    ASSUME NEW b, IsOrderBook(b), NEW t, IsTaker(t)
    PROVE  /\ IsLine(Makers(b, t), Opposite(t.side))
           /\ Makers(b, t) \subseteq b.depths[Opposite(t.side)]
           /\ Meets(t, Opposite(t.side))
           /\ Hit(b, t) \subseteq Makers(b, t)
           /\ Emptied(b, t) \subseteq Hit(b, t)
           /\ \A m \in Makers(b, t) :
                 /\ Takes(b, t)[m] = Take(t, Makers(b, t), m)
                 /\ Takes(b, t)[m] \in Nat /\ Takes(b, t)[m] <= m.size
                 /\ Takes(b, t)[m] * m.price \in Nat
<1> DEFINE side == Opposite(t.side)
           S == Makers(b, t)
<1>1. side \in Sides
  BY OppositeSide DEF IsTaker
<1>2. S \subseteq b.depths[side]
  BY DEF Makers
<1>3. IsDepth(b.depths[side], side) /\ IsFiniteSet(b.depths[side])
  BY <1>1 DEF IsOrderBook, IsBook
<1>4. IsLine(S, side)
  BY <1>2, <1>3, PartIsLine DEF IsLine
<1>5. Meets(t, side)
  BY DEF Meets, IsTaker, BuysByFunds, Opposite
<1> HIDE DEF side
<1>6. \A m \in S : Takes(b, t)[m] = Take(t, S, m)
  BY DEF Takes
<1>7. \A m \in S : /\ Takes(b, t)[m] \in Nat /\ Takes(b, t)[m] <= m.size
                   /\ Takes(b, t)[m] * m.price \in Nat
  BY <1>1, <1>4, <1>5, <1>6, TakeFacts
<1>8. Hit(b, t) \subseteq S
  BY DEF Hit
<1>9. Emptied(b, t) \subseteq Hit(b, t)
  <2> SUFFICES ASSUME NEW m \in Emptied(b, t) PROVE m \in Hit(b, t)
    OBVIOUS
  <2>1. m \in S /\ Takes(b, t)[m] = m.size
    BY DEF Emptied
  <2>2. m.size > 0
    BY <1>4, <2>1, RestingFacts DEF IsLine
  <2> QED
    BY <2>1, <2>2 DEF Hit
<1> QED
  BY <1>2, <1>4, <1>5, <1>6, <1>7, <1>8, <1>9 DEF side

\* All but the last of those hit are bought out.
LEMMA HitAndEmptied ==
    ASSUME NEW b, IsOrderBook(b), NEW t, IsTaker(t)
    PROVE  LET hit     == Hit(b, t)
               emptied == Emptied(b, t)
           IN  /\ IsLine(hit, Opposite(t.side))
               /\ Cardinality(hit) \in Nat /\ Cardinality(emptied) \in Nat
               /\ Cardinality(emptied) <= Cardinality(hit)
               /\ Cardinality(hit) <= Cardinality(emptied) + 1
               /\ \A k \in 1 .. Cardinality(hit) :
                     k <= Cardinality(emptied) <=> InLine(hit)[k] \in emptied
<1> DEFINE hit == Hit(b, t)
           emptied == Emptied(b, t)
           side == Opposite(t.side)
           S == Makers(b, t)
           n == Cardinality(hit)
           e == Cardinality(emptied)
<1>1. /\ IsLine(S, side) /\ Meets(t, side) /\ hit \in SUBSET S /\ emptied \in SUBSET hit
      /\ side \in Sides
      /\ \A m \in S : /\ Takes(b, t)[m] = Take(t, S, m)
                      /\ Takes(b, t)[m] \in Nat
  BY TakerMeetsMakers, OppositeSide DEF IsTaker
<1>2. /\ \A m \in S : m \in hit <=> Take(t, S, m) > 0
      /\ \A m \in S : m \in emptied <=> Take(t, S, m) = m.size
  BY <1>1 DEF Hit, Emptied
<1> HIDE DEF hit, emptied, side, S
<1>3. IsLine(hit, side) /\ IsFiniteSet(hit) /\ IsFiniteSet(emptied)
  BY <1>1, PartIsLine, FS_Subset DEF IsLine
<1>4. n \in Nat /\ e \in Nat /\ e <= n /\ (e = n => emptied = hit)
  BY <1>1, <1>3, FS_CardinalityType, FS_Subset
<1>5. \A m, o \in hit : Precedes(m, o) => m \in emptied
  <2> SUFFICES ASSUME NEW m \in hit, NEW o \in hit, Precedes(m, o) PROVE m \in emptied
    OBVIOUS
  <2>1. m \in S /\ o \in S /\ Take(t, S, o) > 0
    BY <1>1, <1>2
  <2>2. Take(t, S, m) = m.size
    BY <1>1, <2>1, AheadBoughtOut
  <2> QED
    BY <1>2, <2>1, <2>2
<1>6. CASE emptied = hit
  <2>1. \A k \in 1 .. n : InLine(hit)[k] \in emptied
    BY <1>1, <1>3, <1>6, EveryPlace
  <2>2. e = n
    BY <1>6
  <2> QED
    BY <1>3, <1>4, <2>1, <2>2 DEF hit, emptied, side
<1>7. CASE emptied # hit
  <2>1. PICK last \in hit : last \notin emptied
    BY <1>1, <1>7
  <2>2. \A m \in hit : m # last => Precedes(m, last) /\ m \in emptied
    BY <1>1, <1>3, <1>5, <2>1, PriorityIsOrder DEF IsLine
  <2>3. emptied = hit \ {last}
    BY <1>1, <2>1, <2>2
  <2>4. e = n - 1
    BY <1>3, <2>1, <2>3, FS_RemoveElement
  <2>5. Ahead(hit, last) = hit \ {last}
    <3>1. Ahead(hit, last) \subseteq hit \ {last}
      BY <1>1, <1>3, RankGrows
    <3> QED
      BY <2>2, <3>1 DEF Ahead
  <2>6. Rank(hit, last) = n - 1
    BY <2>3, <2>4, <2>5 DEF Rank
  <2>7. /\ \A k \in 1 .. n : InLine(hit)[k] \in hit /\ Rank(hit, InLine(hit)[k]) = k - 1
        /\ InLine(hit)[Rank(hit, last) + 1] = last
    BY <1>1, <1>3, <2>1, EveryPlace
  <2>8. \A k \in 1 .. n : k <= e <=> InLine(hit)[k] \in emptied
    <3> SUFFICES ASSUME NEW k \in 1 .. n
                 PROVE  k <= e <=> InLine(hit)[k] # last
      BY <2>3, <2>7
    <3>1. CASE k = n
      <4>1. k = (n - 1) + 1
        BY <1>4, <3>1
      <4>2. InLine(hit)[k] = last
        BY <2>6, <2>7, <4>1
      <4> QED
        BY <1>4, <2>4, <3>1, <4>2
    <3>2. CASE k # n
      <4>1. Rank(hit, InLine(hit)[k]) = k - 1 /\ k - 1 # n - 1
        BY <1>4, <2>7, <3>2
      <4>2. InLine(hit)[k] # last
        BY <2>6, <4>1
      <4> QED
        BY <1>4, <2>4, <3>2, <4>2
    <3> QED
      BY <3>1, <3>2
  <2> QED
    BY <1>3, <1>4, <2>4, <2>8 DEF hit, emptied, side
<1> QED
  BY <1>6, <1>7

-----------------------------------------------------------------------------
(* The logs of a whole call, one by one. *)

LEMMA CompleteLogs ==
    ASSUME NEW b, IsOrderBook(b), NEW t, IsTaker(t)
    PROVE  LET r    == Complete(b, t)
               hit  == Hit(b, t)
               line == InLine(hit)
               n    == Cardinality(hit)
               e    == Cardinality(Emptied(b, t))
           IN  /\ r.logs = [i \in 1 .. n + e + 1 |-> r.logs[i]]
               /\ r.logs[n + e + 1] = ClosingLog(b.logSeq + (n + e + 1), Left(b, t))
               /\ \A k \in 1 .. n :
                     /\ 2 * k - 1 \in 1 .. n + e
                     /\ line[k] \in hit
                     /\ r.logs[2 * k - 1] = MatchLog(b.logSeq + (2 * k - 1), b.tradeSeq + k,
                                                     t, line[k], Takes(b, t)[line[k]])
               /\ \A k \in 1 .. e :
                     /\ 2 * k \in 1 .. n + e
                     /\ k \in 1 .. n /\ line[k] \in Emptied(b, t)
                     /\ r.logs[2 * k] = DoneLog(b.logSeq + 2 * k,
                                                [line[k] EXCEPT !.size = 0], 0, "filled")
               /\ \A i \in 1 .. n + e :
                     (\E k \in 1 .. n : i = 2 * k - 1) \/ (\E k \in 1 .. e : i = 2 * k)
<1> DEFINE r    == Complete(b, t)
           hit  == Hit(b, t)
           line == InLine(hit)
           take == Takes(b, t)
           n    == Cardinality(hit)
           e    == Cardinality(Emptied(b, t))
           last == n + e + 1
           log(i) == IF i = last THEN ClosingLog(b.logSeq + i, Left(b, t))
                     ELSE LET k == (i + 1) \div 2
                              m == line[k]
                          IN  IF i % 2 = 1
                              THEN MatchLog(b.logSeq + i, b.tradeSeq + k, t, m, take[m])
                              ELSE DoneLog(b.logSeq + i, [m EXCEPT !.size = 0], 0, "filled")
<1>1. r.logs = [i \in 1 .. last |-> log(i)]
  BY DEF Complete
<1>2. /\ n \in Nat /\ e \in Nat /\ e <= n /\ n <= e + 1
      /\ \A k \in 1 .. n : k <= e <=> line[k] \in Emptied(b, t)
      /\ IsLine(hit, Opposite(t.side)) /\ Opposite(t.side) \in Sides
  BY HitAndEmptied, OppositeSide DEF IsTaker
<1>3. \A k \in 1 .. n : line[k] \in hit
  BY <1>2, EveryPlace
<1> HIDE DEF r, hit, line, take, n, e
<1>4. r.logs[last] = ClosingLog(b.logSeq + last, Left(b, t))
  <2>1. last \in 1 .. last
    BY <1>2
  <2>2. r.logs[last] = log(last)
    BY <1>1, <2>1
  <2> HIDE DEF last
  <2> QED
    BY <2>2
<1>5. ASSUME NEW k \in 1 .. n
      PROVE  /\ 2 * k - 1 \in 1 .. n + e
             /\ r.logs[2 * k - 1] = MatchLog(b.logSeq + (2 * k - 1), b.tradeSeq + k,
                                             t, line[k], take[line[k]])
  <2>1. /\ 2 * k - 1 \in 1 .. n + e /\ 2 * k - 1 \in 1 .. last /\ 2 * k - 1 # last
        /\ ((2 * k - 1) + 1) \div 2 = k /\ (2 * k - 1) % 2 = 1
    BY <1>2
  <2>2. r.logs[2 * k - 1] = log(2 * k - 1)
    BY <1>1, <2>1
  <2>3. log(2 * k - 1) = MatchLog(b.logSeq + (2 * k - 1), b.tradeSeq + k,
                                  t, line[k], take[line[k]])
    <3> DEFINE i == 2 * k - 1
    <3>1. i # last /\ (i + 1) \div 2 = k /\ i % 2 = 1
      BY <2>1
    <3> HIDE DEF i, last
    <3>2. log(i) = MatchLog(b.logSeq + i, b.tradeSeq + k, t, line[k], take[line[k]])
      BY <3>1
    <3> QED
      BY <3>2 DEF i
  <2> QED
    BY <2>1, <2>2, <2>3
<1>6. ASSUME NEW k \in 1 .. e
      PROVE  /\ 2 * k \in 1 .. n + e
             /\ k \in 1 .. n /\ line[k] \in Emptied(b, t)
             /\ r.logs[2 * k] = DoneLog(b.logSeq + 2 * k,
                                        [line[k] EXCEPT !.size = 0], 0, "filled")
  <2>1. /\ 2 * k \in 1 .. n + e /\ 2 * k \in 1 .. last /\ 2 * k # last /\ k \in 1 .. n
        /\ (2 * k + 1) \div 2 = k /\ (2 * k) % 2 # 1 /\ k <= e
    BY <1>2
  <2>2. r.logs[2 * k] = log(2 * k)
    BY <1>1, <2>1
  <2>3. log(2 * k) = DoneLog(b.logSeq + 2 * k, [line[k] EXCEPT !.size = 0], 0, "filled")
    <3> DEFINE i == 2 * k
    <3>1. i # last /\ (i + 1) \div 2 = k /\ i % 2 # 1
      BY <2>1
    <3> HIDE DEF i, last
    <3>2. log(i) = DoneLog(b.logSeq + i, [line[k] EXCEPT !.size = 0], 0, "filled")
      BY <3>1
    <3> QED
      BY <3>2 DEF i
  <2> QED
    BY <1>2, <2>1, <2>2, <2>3
<1>7. ASSUME NEW i \in 1 .. n + e
      PROVE  (\E k \in 1 .. n : i = 2 * k - 1) \/ (\E k \in 1 .. e : i = 2 * k)
  <2>1. CASE i % 2 = 1
    <3>1. (i + 1) \div 2 \in 1 .. n /\ i = 2 * ((i + 1) \div 2) - 1
      BY <1>2, <2>1
    <3> QED
      BY <3>1
  <2>2. CASE i % 2 # 1
    <3>1. i \div 2 \in 1 .. e /\ i = 2 * (i \div 2)
      BY <1>2, <2>2
    <3> QED
      BY <3>1
  <2> QED
    BY <2>1, <2>2
<1>8. r.logs = [i \in 1 .. last |-> r.logs[i]]
  BY <1>1
<1> QED
  BY <1>3, <1>4, <1>5, <1>6, <1>7, <1>8 DEF r, hit, line, take, n, e

\* What is below a multiple, one by one, is so in all.
LEMMA SumOfCheaper ==
    ASSUME NEW f, NEW g, NEW c \in Nat, NEW S, IsFiniteSet(S),
           \A x \in S : f[x] \in Nat /\ g[x] \in Nat /\ f[x] <= c * g[x]
    PROVE  SumFunctionOnSet(f, S) <= c * SumFunctionOnSet(g, S)
<1> DEFINE Good == {T \in SUBSET S : SumFunctionOnSet(f, T) <= c * SumFunctionOnSet(g, T)}
<1>1. {} \in Good
  <2>1. SumFunctionOnSet(f, {}) = 0 /\ SumFunctionOnSet(g, {}) = 0
    BY SumOfNone
  <2>2. 0 <= c * 0
    OBVIOUS
  <2> QED
    BY <2>1, <2>2
<1>2. ASSUME NEW T \in SUBSET S, T # {}, \A x \in T : T \ {x} \in Good
      PROVE  T \in Good
  <2>1. PICK x \in T : TRUE
    BY <1>2
  <2>2. IsFiniteSet(T) /\ IsFiniteSet(T \ {x})
    BY FS_Subset
  <2>3. Summable(f, T) /\ Summable(g, T)
    BY <2>2 DEF Summable
  <2>4. /\ SumFunctionOnSet(f, T) = f[x] + SumFunctionOnSet(f, T \ {x})
        /\ SumFunctionOnSet(g, T) = g[x] + SumFunctionOnSet(g, T \ {x})
    BY <2>3, SumTakesOut
  <2>5. SumFunctionOnSet(f, T \ {x}) \in Nat /\ SumFunctionOnSet(g, T \ {x}) \in Nat
    BY <2>2, SumOfNaturals
  <2>6. SumFunctionOnSet(f, T \ {x}) <= c * SumFunctionOnSet(g, T \ {x})
    BY <1>2
  <2>7. \A u, v, w, z \in Nat : u <= c * w /\ v <= c * z => u + v <= c * (w + z)
    OBVIOUS
  <2>8. f[x] \in Nat /\ g[x] \in Nat /\ f[x] <= c * g[x]
    OBVIOUS
  <2>9. f[x] + SumFunctionOnSet(f, T \ {x}) <= c * (g[x] + SumFunctionOnSet(g, T \ {x}))
    BY <2>5, <2>6, <2>7, <2>8
  <2> QED
    BY <2>4, <2>9
<1> HIDE DEF Good
<1>3. S \in Good
  BY <1>1, <1>2, SetInduction
<1> QED
  BY <1>3 DEF Good

\* The units and the funds that change hands.
TakenBy(b, t) == SumFunctionOnSet(Takes(b, t), Hit(b, t))
PaidBy(b, t) == SumFunctionOnSet([m \in Makers(b, t) |-> Takes(b, t)[m] * m.price], Hit(b, t))

\* A taker takes no more than its size and pays no more than its funds, or
\* its price for each unit.
LEMMA LeftFacts ==
    ASSUME NEW b, IsOrderBook(b), NEW t, IsTaker(t)
    PROVE  /\ TakenBy(b, t) \in Nat /\ PaidBy(b, t) \in Nat
           /\ BuysByFunds(t) =>
                 /\ PaidBy(b, t) <= t.funds
                 /\ Left(b, t) = [t EXCEPT !.funds = @ - PaidBy(b, t)]
           /\ ~ BuysByFunds(t) =>
                 /\ TakenBy(b, t) <= t.size
                 /\ Left(b, t) = [t EXCEPT !.size = @ - TakenBy(b, t)]
           /\ t.side = "buy" => PaidBy(b, t) <= t.price * TakenBy(b, t)
<1> DEFINE S    == Makers(b, t)
           hit  == Hit(b, t)
           take == Takes(b, t)
           cost == [m \in S |-> take[m] * m.price]
           side == Opposite(t.side)
<1>1. /\ IsLine(S, side) /\ Meets(t, side) /\ side \in Sides
      /\ hit \subseteq S
      /\ \A m \in S : /\ take[m] = Take(t, S, m) /\ take[m] \in Nat
                      /\ take[m] * m.price \in Nat /\ m.price \in Nat
                      /\ Crosses(t, m)
  <2>1. /\ IsLine(S, side) /\ Meets(t, side) /\ hit \subseteq S
        /\ \A m \in S : /\ take[m] = Take(t, S, m) /\ take[m] \in Nat
                        /\ take[m] * m.price \in Nat
    BY TakerMeetsMakers
  <2>2. side \in Sides
    BY OppositeSide DEF IsTaker
  <2>3. \A m \in S : m.price \in Nat
    BY <2>1, RestingFacts DEF IsLine
  <2>4. \A m \in S : Crosses(t, m)
    BY DEF Makers
  <2> QED
    BY <2>1, <2>2, <2>3, <2>4
<1>2. take = [m \in S |-> Take(t, S, m)]
  BY DEF Takes
<1>3. \A m \in S : cost[m] = take[m] * m.price
  OBVIOUS
<1>4. cost = [m \in S |-> Take(t, S, m) * m.price]
  BY <1>1
<1>5. /\ TakenBy(b, t) = SumFunctionOnSet(take, hit)
      /\ PaidBy(b, t) = SumFunctionOnSet(cost, hit)
  BY DEF TakenBy, PaidBy
<1>6. Left(b, t) = IF BuysByFunds(t)
                   THEN [t EXCEPT !.funds = @ - SumFunction([m \in hit |-> take[m] * m.price])]
                   ELSE [t EXCEPT !.size = @ - SumFunction([m \in hit |-> take[m]])]
  BY DEF Left
<1>7. IsFiniteSet(S) /\ IsFiniteSet(hit)
  BY <1>1, FS_Subset DEF IsLine
<1>8. SumFunction([m \in hit |-> take[m]]) = SumFunctionOnSet(take, hit)
  BY <1>7, SumOverPart
<1>9. SumFunction([m \in hit |-> take[m] * m.price]) = SumFunctionOnSet(cost, hit)
  <2>1. [m \in hit |-> take[m] * m.price] = [m \in hit |-> cost[m]]
    BY <1>1, <1>3
  <2> HIDE DEF cost, take, hit
  <2>2. SumFunction([m \in hit |-> cost[m]]) = SumFunctionOnSet(cost, hit)
    BY <1>7, SumOverPart
  <2> QED
    BY <2>1, <2>2
<1> HIDE DEF S, hit, take, cost, side
<1>10. /\ SumFunctionOnSet(take, hit) \in Nat /\ SumFunctionOnSet(take, S) \in Nat
       /\ SumFunctionOnSet(take, hit) <= SumFunctionOnSet(take, S)
  BY <1>1, <1>7, SumOfPart
<1>11. /\ SumFunctionOnSet(cost, hit) \in Nat /\ SumFunctionOnSet(cost, S) \in Nat
       /\ SumFunctionOnSet(cost, hit) <= SumFunctionOnSet(cost, S)
  BY <1>1, <1>3, <1>7, SumOfPart
<1>12. t.size \in Nat /\ t.funds \in Nat /\ t.price \in Nat
  BY DEF IsTaker
<1>13. ASSUME BuysByFunds(t)
       PROVE  /\ PaidBy(b, t) <= t.funds
              /\ Left(b, t) = [t EXCEPT !.funds = @ - PaidBy(b, t)]
  <2>1. SumFunctionOnSet(cost, S) <= t.funds
    BY <1>1, <1>4, <1>13, PaysItsFunds
  <2> QED
    BY <1>5, <1>6, <1>9, <1>11, <1>12, <1>13, <2>1
<1>14. ASSUME ~ BuysByFunds(t)
       PROVE  /\ TakenBy(b, t) <= t.size
              /\ Left(b, t) = [t EXCEPT !.size = @ - TakenBy(b, t)]
  <2>1. SumFunctionOnSet(take, S) = IF Volume(S) <= t.size THEN Volume(S) ELSE t.size
    BY <1>1, <1>2, <1>14, TakesItsSize
  <2>2. Volume(S) \in Nat
    BY <1>1, VolumeFacts
  <2> QED
    BY <1>5, <1>6, <1>8, <1>10, <1>12, <1>14, <2>1, <2>2
<1>15. ASSUME t.side = "buy"
       PROVE  PaidBy(b, t) <= t.price * TakenBy(b, t)
  <2>1. \A m \in hit : m.price <= t.price
    BY <1>1, <1>12, <1>15 DEF Crosses
  <2>2. \A x, y, z \in Nat : x <= y => z * x <= y * z
    OBVIOUS
  <2>3. \A m \in hit : cost[m] \in Nat /\ take[m] \in Nat /\ cost[m] <= t.price * take[m]
    BY <1>1, <1>3, <1>12, <2>1, <2>2
  <2> QED
    BY <1>5, <1>7, <1>12, <2>3, SumOfCheaper
<1> QED
  BY <1>5, <1>10, <1>11, <1>13, <1>14, <1>15

\* A sum of which only one number is not zero.
LEMMA SumOfOne ==
    ASSUME NEW f, NEW S, IsFiniteSet(S), NEW x \in S, f[x] \in Int,
           \A y \in S \ {x} : f[y] = 0
    PROVE  SumFunctionOnSet(f, S) = f[x]
<1>1. Summable(f, S) /\ IsFiniteSet(S \ {x})
  BY FS_Subset DEF Summable
<1>2. SumFunctionOnSet(f, S) = f[x] + SumFunctionOnSet(f, S \ {x})
  BY <1>1, SumTakesOut
<1>3. SumFunctionOnSet(f, S \ {x}) = 0
  BY <1>1, SumOfZeros
<1> QED
  BY <1>2, <1>3

\* The same numbers in other places, and zero elsewhere.
LEMMA SumMoved ==
    ASSUME NEW f, NEW S, Summable(f, S), NEW g, NEW T, Summable(g, T),
           NEW p \in [T -> S],
           \A x, y \in T : p[x] = p[y] => x = y,
           \A y \in T : f[p[y]] = g[y],
           \A x \in S : f[x] # 0 => \E y \in T : p[y] = x
    PROVE  SumFunctionOnSet(f, S) = SumFunctionOnSet(g, T)
<1> DEFINE Rest(U) == S \ {p[y] : y \in T \ U}
           Good == {U \in SUBSET T : SumFunctionOnSet(f, Rest(U)) = SumFunctionOnSet(g, U)}
<1>1. \A U \in SUBSET T : Summable(f, Rest(U)) /\ IsFiniteSet(Rest(U)) /\ Summable(g, U)
  <2> SUFFICES ASSUME NEW U \in SUBSET T
               PROVE  Summable(f, Rest(U)) /\ Summable(g, U)
    BY DEF Summable
  <2> QED
    BY PartIsSummable
<1>2. {} \in Good
  <2>1. \A x \in Rest({}) : f[x] = 0
    OBVIOUS
  <2>2. SumFunctionOnSet(f, Rest({})) = 0
    BY <1>1, <2>1, SumOfZeros
  <2>3. SumFunctionOnSet(g, {}) = 0
    BY SumOfNone
  <2> QED
    BY <2>2, <2>3
<1>3. ASSUME NEW U \in SUBSET T, U # {}, \A x \in U : U \ {x} \in Good
      PROVE  U \in Good
  <2>1. PICK x \in U : TRUE
    BY <1>3
  <2>2. p[x] \in Rest(U) /\ Rest(U) \ {p[x]} = Rest(U \ {x})
    OBVIOUS
  <2>3. Summable(f, Rest(U)) /\ Summable(g, U)
    BY <1>1
  <2> HIDE DEF Rest
  <2>4. SumFunctionOnSet(f, Rest(U)) = f[p[x]] + SumFunctionOnSet(f, Rest(U) \ {p[x]})
    BY <2>2, <2>3, SumTakesOut
  <2>5. SumFunctionOnSet(g, U) = g[x] + SumFunctionOnSet(g, U \ {x})
    BY <2>3, SumTakesOut
  <2>6. SumFunctionOnSet(f, Rest(U \ {x})) = SumFunctionOnSet(g, U \ {x})
    BY <1>3
  <2>7. f[p[x]] = g[x]
    OBVIOUS
  <2>8. SumFunctionOnSet(f, Rest(U)) = SumFunctionOnSet(g, U)
    BY <2>2, <2>4, <2>5, <2>6, <2>7
  <2> QED
    BY <2>8
<1>4. IsFiniteSet(T)
  BY DEF Summable
<1> HIDE DEF Good
<1>5. T \in Good
  BY <1>2, <1>3, <1>4, SetInduction
<1>6. Rest(T) = S
  OBVIOUS
<1> QED
  BY <1>5, <1>6 DEF Good

-----------------------------------------------------------------------------
(* What logs say of an order. *)

Mentions(log, x) == IF log.kind = "match" THEN x \in {log.taker, log.maker} ELSE log.id = x

\* The units and the funds that a log says the order trades.
UnitsIn(log, x) == IF log.kind = "match" /\ Mentions(log, x) THEN log.size ELSE 0
WorthIn(log, x) == IF log.kind = "match" /\ Mentions(log, x) THEN log.size * log.price ELSE 0

Units(s, x) == SumFunctionOnSet([i \in DOMAIN s |-> UnitsIn(s[i], x)], DOMAIN s)
Worth(s, x) == SumFunctionOnSet([i \in DOMAIN s |-> WorthIn(s[i], x)], DOMAIN s)

Ends(log, x) == log.kind = "done" /\ log.id = x

\* The last that is said of the order is that it is done, and it is said once.
EndsWithDone(s, x) ==
    \E i \in DOMAIN s : /\ Ends(s[i], x)
                        /\ \A j \in DOMAIN s : Mentions(s[j], x) /\ j # i =>
                              j < i /\ ~ Ends(s[j], x)

NoDone(s, x) == \A i \in DOMAIN s : ~ Ends(s[i], x)

NoMention(s, x) == \A i \in DOMAIN s : ~ Mentions(s[i], x)

IsLog(log) ==
    /\ log.kind \in {"match", "open", "done"}
    /\ log.kind = "match" => /\ log.taker \in OrderIds /\ log.maker \in OrderIds
                             /\ log.size \in Nat /\ log.price \in Nat
    /\ log.kind # "match" => log.id \in OrderIds
    /\ log.kind = "done" => log.remaining \in Nat /\ log.reason \in {"filled", "cancelled"}

LEMMA LogAmounts ==
    ASSUME NEW log, IsLog(log), NEW x
    PROVE  UnitsIn(log, x) \in Nat /\ WorthIn(log, x) \in Nat
BY DEF IsLog, UnitsIn, WorthIn

LEMMA UnmentionedOrder ==
    ASSUME NEW s, IsSequence(s), NEW x, NoMention(s, x)
    PROVE  Units(s, x) = 0 /\ Worth(s, x) = 0 /\ NoDone(s, x)
<1>1. DOMAIN s = 1 .. Len(s) /\ Len(s) \in Nat
  BY SequenceFacts
<1>2. IsFiniteSet(DOMAIN s)
  BY <1>1, FS_Interval
<1>3. \A i \in DOMAIN s : UnitsIn(s[i], x) = 0 /\ WorthIn(s[i], x) = 0
  BY DEF NoMention, UnitsIn, WorthIn
<1>4. Units(s, x) = 0
  BY <1>2, <1>3, SumOfZeros DEF Units
<1>5. Worth(s, x) = 0
  BY <1>2, <1>3, SumOfZeros DEF Worth
<1>6. NoDone(s, x)
  BY DEF NoMention, NoDone, Mentions, Ends
<1> QED
  BY <1>4, <1>5, <1>6

-----------------------------------------------------------------------------
(* What a whole call says of each order, and does to it. *)

\* How the depths come out.
LEMMA CompleteDepths ==
    ASSUME NEW b, IsOrderBook(b), NEW t, IsTaker(t)
    PROVE  LET depths == Complete(b, t).book.depths
               hit    == Hit(b, t)
               other  == Opposite(t.side)
           IN  /\ depths[other] =
                    (b.depths[other] \ hit) \cup
                    {[m EXCEPT !.size = @ - Takes(b, t)[m]] : m \in hit \ Emptied(b, t)}
               /\ depths[t.side] = IF Rests(Left(b, t))
                                   THEN Add(b.depths[t.side], Left(b, t))
                                   ELSE b.depths[t.side]
<1> DEFINE other == Opposite(t.side)
           hit   == Hit(b, t)
           left  == Left(b, t)
           own   == b.depths[t.side]
           cut   == (b.depths[other] \ hit) \cup
                    {[m EXCEPT !.size = @ - Takes(b, t)[m]] : m \in hit \ Emptied(b, t)}
           kept  == IF Rests(left) THEN Add(own, left) ELSE own
<1>1. Complete(b, t).book.depths = [b.depths EXCEPT ![other] = cut, ![t.side] = kept]
  BY DEF Complete
<1>2. other \in Sides /\ t.side \in Sides /\ other # t.side
  BY OppositeSide DEF IsTaker
<1>3. b.depths = [side \in Sides |-> b.depths[side]]
  BY DEF IsOrderBook, IsBook
<1> HIDE DEF other, cut, kept
<1>4. /\ Complete(b, t).book.depths[other] = cut
      /\ Complete(b, t).book.depths[t.side] = kept
  BY <1>1, <1>2, <1>3
<1> QED
  BY <1>4 DEF other, cut, kept

\* What is left of a taker could be a taker.
LEMMA LeftIsTaker ==
    ASSUME NEW b, IsOrderBook(b), NEW t, IsTaker(t)
    PROVE  /\ IsTaker(Left(b, t))
           /\ Left(b, t).id = t.id /\ Left(b, t).side = t.side /\ Left(b, t).type = t.type
           /\ Left(b, t).price = t.price
           /\ Left(b, t).funds = IF BuysByFunds(t) THEN t.funds - PaidBy(b, t) ELSE t.funds
           /\ Left(b, t).size = IF BuysByFunds(t) THEN t.size ELSE t.size - TakenBy(b, t)
<1>1. CASE BuysByFunds(t)
  <2>1. /\ Left(b, t) = [t EXCEPT !.funds = @ - PaidBy(b, t)]
        /\ PaidBy(b, t) \in Nat /\ PaidBy(b, t) <= t.funds /\ t.funds \in Nat
    BY <1>1, LeftFacts DEF IsTaker
  <2>2. t.funds - PaidBy(b, t) \in Nat
    BY <2>1
  <2> QED
    BY <1>1, <2>1, <2>2 DEF IsTaker
<1>2. CASE ~ BuysByFunds(t)
  <2>1. /\ Left(b, t) = [t EXCEPT !.size = @ - TakenBy(b, t)]
        /\ TakenBy(b, t) \in Nat /\ TakenBy(b, t) <= t.size /\ t.size \in Nat
    BY <1>2, LeftFacts DEF IsTaker
  <2>2. t.size - TakenBy(b, t) \in Nat
    BY <2>1
  <2> QED
    BY <1>2, <2>1, <2>2 DEF IsTaker
<1> QED
  BY <1>1, <1>2

LEMMA ClosingLogFacts ==
    ASSUME NEW n, NEW t, IsTaker(t)
    PROVE  /\ IsLog(ClosingLog(n, t))
           /\ ClosingLog(n, t).kind = IF Rests(t) THEN "open" ELSE "done"
           /\ ClosingLog(n, t).id = t.id
<1>1. CASE Rests(t)
  BY <1>1 DEF ClosingLog, OpenLog, IsLog, IsTaker
<1>2. CASE ~ Rests(t) /\ t.type = "market"
  <2>1. ClosingLog(n, t) = DoneLog(n, [t EXCEPT !.price = 0], 0, DoneReason(t))
    BY <1>2 DEF ClosingLog
  <2>2. [t EXCEPT !.price = 0].id = t.id /\ t.id \in OrderIds
    BY DEF IsTaker
  <2>3. DoneReason(t) \in {"filled", "cancelled"}
    BY DEF DoneReason
  <2> QED
    BY <1>2, <2>1, <2>2, <2>3 DEF DoneLog, IsLog
<1>3. CASE ~ Rests(t) /\ t.type # "market"
  <2>1. ClosingLog(n, t) = DoneLog(n, t, t.size, DoneReason(t))
    BY <1>3 DEF ClosingLog
  <2>2. DoneReason(t) \in {"filled", "cancelled"}
    BY DEF DoneReason
  <2> QED
    BY <1>3, <2>1, <2>2 DEF DoneLog, IsLog, IsTaker
<1> QED
  BY <1>1, <1>2, <1>3

\* Each log of a call: a match of the taker with a maker, a maker that is done,
\* or, as the last one, the closing log.
LEMMA CompleteTellsWho ==
    ASSUME NEW b, IsOrderBook(b), NEW t, IsTaker(t)
    PROVE  LET logs == Complete(b, t).logs
               hit  == Hit(b, t)
           IN  /\ IsSequence(logs) /\ Len(logs) > 0
               /\ \A i \in 1 .. Len(logs) : IsLog(logs[i])
               /\ logs[Len(logs)].kind = (IF Rests(Left(b, t)) THEN "open" ELSE "done")
               /\ logs[Len(logs)].id = t.id
               /\ \A i \in 1 .. Len(logs) - 1 :
                     \/ /\ logs[i].kind = "match" /\ logs[i].taker = t.id
                        /\ \E m \in hit : /\ logs[i].maker = m.id /\ logs[i].price = m.price
                                          /\ logs[i].size = Takes(b, t)[m]
                                          /\ i = 2 * (Rank(hit, m) + 1) - 1
                     \/ /\ logs[i].kind = "done"
                        /\ \E m \in Emptied(b, t) : /\ logs[i].id = m.id
                                                    /\ i = 2 * (Rank(hit, m) + 1)
               /\ \A m \in hit :
                     LET i == 2 * (Rank(hit, m) + 1) - 1
                     IN  /\ i \in 1 .. Len(logs) - 1
                         /\ logs[i].kind = "match" /\ logs[i].taker = t.id
                         /\ logs[i].maker = m.id /\ logs[i].price = m.price
                         /\ logs[i].size = Takes(b, t)[m]
               /\ \A m \in Emptied(b, t) :
                     LET i == 2 * (Rank(hit, m) + 1)
                     IN  /\ i \in 1 .. Len(logs) - 1
                         /\ logs[i].kind = "done" /\ logs[i].id = m.id
<1> DEFINE logs == Complete(b, t).logs
           hit  == Hit(b, t)
           emptied == Emptied(b, t)
           take == Takes(b, t)
           line == InLine(hit)
           n    == Cardinality(hit)
           e    == Cardinality(emptied)
           left == Left(b, t)
           side == Opposite(t.side)
<1>1. /\ logs = [i \in 1 .. n + e + 1 |-> logs[i]]
      /\ logs[n + e + 1] = ClosingLog(b.logSeq + (n + e + 1), left)
      /\ \A k \in 1 .. n :
            /\ 2 * k - 1 \in 1 .. n + e
            /\ line[k] \in hit
            /\ logs[2 * k - 1] = MatchLog(b.logSeq + (2 * k - 1), b.tradeSeq + k,
                                          t, line[k], take[line[k]])
      /\ \A k \in 1 .. e :
            /\ 2 * k \in 1 .. n + e
            /\ k \in 1 .. n /\ line[k] \in emptied
            /\ logs[2 * k] = DoneLog(b.logSeq + 2 * k, [line[k] EXCEPT !.size = 0], 0, "filled")
      /\ \A i \in 1 .. n + e :
            (\E k \in 1 .. n : i = 2 * k - 1) \/ (\E k \in 1 .. e : i = 2 * k)
  BY CompleteLogs
<1>2. /\ n \in Nat /\ e \in Nat /\ IsLine(hit, side) /\ side \in Sides
      /\ \A k \in 1 .. n : k <= e <=> line[k] \in emptied
  BY HitAndEmptied, OppositeSide DEF IsTaker
<1>3. emptied \subseteq hit
  BY TakerMeetsMakers
<1>4. \A m \in hit : take[m] \in Nat
  BY TakerMeetsMakers
<1>5. IsTaker(left) /\ left.id = t.id /\ t.id \in OrderIds
  BY LeftIsTaker DEF IsTaker
<1> HIDE DEF logs, hit, emptied, take, line, n, e, left, side
<1>6. n + e + 1 \in Nat /\ n + e + 1 > 0 /\ (n + e + 1) - 1 = n + e
  BY <1>2
<1>7. IsSequence(logs) /\ Len(logs) = n + e + 1
  BY <1>1, <1>6, FunctionSequence
<1>8. /\ logs[Len(logs)].kind = (IF Rests(left) THEN "open" ELSE "done")
      /\ logs[Len(logs)].id = t.id
      /\ IsLog(logs[Len(logs)])
  <2> DEFINE log == ClosingLog(b.logSeq + (n + e + 1), left)
  <2>1. logs[Len(logs)] = log
    BY <1>1, <1>7
  <2>2. IsLog(log) /\ log.kind = (IF Rests(left) THEN "open" ELSE "done") /\ log.id = t.id
    BY <1>5, ClosingLogFacts
  <2> QED
    BY <2>1, <2>2, Zenon
<1>9. \A m \in hit : /\ m.id \in OrderIds /\ m.price \in Nat
                     /\ m = [m EXCEPT !.size = m.size]
                     /\ [m EXCEPT !.size = 0].id = m.id
  <2> SUFFICES ASSUME NEW m \in hit
               PROVE  /\ m.id \in OrderIds /\ m.price \in Nat /\ [m EXCEPT !.size = 0].id = m.id
                      /\ m = [m EXCEPT !.size = m.size]
    OBVIOUS
  <2>1. IsDepth(hit, side)
    BY <1>2 DEF IsLine
  <2>2. m.id \in OrderIds /\ m.price \in Nat
    BY <2>1, RestingFacts
  <2>3. m \in RestingOrders
    BY <2>1 DEF IsDepth
  <2> QED
    BY <2>2, <2>3 DEF RestingOrders
<1>10. \A m \in hit : Rank(hit, m) + 1 \in 1 .. n /\ line[Rank(hit, m) + 1] = m
  BY <1>2, EveryPlace DEF n, line
<1>11. \A k \in 1 .. n : Rank(hit, line[k]) + 1 = k
  BY <1>2, EveryPlace, SMT DEF n, line
<1>12. \A m \in emptied : Rank(hit, m) + 1 \in 1 .. e
  BY <1>2, <1>3, <1>10
<1>13. ASSUME NEW k \in 1 .. n
       PROVE  LET i == 2 * k - 1
                  m == line[k]
              IN  /\ i \in 1 .. n + e /\ m \in hit
                  /\ logs[i].kind = "match" /\ logs[i].taker = t.id
                  /\ logs[i].maker = m.id /\ logs[i].price = m.price
                  /\ logs[i].size = take[m]
  <2>1. /\ 2 * k - 1 \in 1 .. n + e /\ line[k] \in hit
        /\ logs[2 * k - 1] = MatchLog(b.logSeq + (2 * k - 1), b.tradeSeq + k,
                                      t, line[k], take[line[k]])
    BY <1>1
  <2> QED
    BY <2>1 DEF MatchLog
<1>14. ASSUME NEW k \in 1 .. e
       PROVE  LET i == 2 * k
                  m == line[k]
              IN  /\ i \in 1 .. n + e /\ m \in emptied
                  /\ logs[i].kind = "done" /\ logs[i].id = m.id
                  /\ logs[i].remaining = 0 /\ logs[i].reason = "filled"
  <2>1. /\ 2 * k \in 1 .. n + e /\ line[k] \in emptied /\ k \in 1 .. n
        /\ logs[2 * k] = DoneLog(b.logSeq + 2 * k, [line[k] EXCEPT !.size = 0], 0, "filled")
    BY <1>1
  <2>2. [line[k] EXCEPT !.size = 0].id = line[k].id
    BY <1>3, <1>9, <2>1
  <2> QED
    BY <2>1, <2>2 DEF DoneLog
<1>15. ASSUME NEW i \in 1 .. n + e
       PROVE  /\ IsLog(logs[i])
              /\ \/ /\ logs[i].kind = "match" /\ logs[i].taker = t.id
                    /\ \E m \in hit : /\ logs[i].maker = m.id /\ logs[i].price = m.price
                                      /\ logs[i].size = take[m]
                                      /\ i = 2 * (Rank(hit, m) + 1) - 1
                 \/ /\ logs[i].kind = "done"
                    /\ \E m \in emptied : logs[i].id = m.id /\ i = 2 * (Rank(hit, m) + 1)
  <2>1. CASE \E k \in 1 .. n : i = 2 * k - 1
    <3>1. PICK k \in 1 .. n : i = 2 * k - 1
      BY <2>1
    <3>2. line[k] \in hit /\ Rank(hit, line[k]) + 1 = k
      BY <1>11, <1>13
    <3>3. /\ logs[i].kind = "match" /\ logs[i].taker = t.id
          /\ logs[i].maker = line[k].id /\ logs[i].price = line[k].price
          /\ logs[i].size = take[line[k]]
      BY <1>13, <3>1
    <3>4. IsLog(logs[i])
      BY <1>4, <1>5, <1>9, <3>2, <3>3 DEF IsLog
    <3> QED
      BY <3>1, <3>2, <3>3, <3>4
  <2>2. CASE \E k \in 1 .. e : i = 2 * k
    <3>1. PICK k \in 1 .. e : i = 2 * k
      BY <2>2
    <3>2. line[k] \in emptied /\ line[k] \in hit /\ Rank(hit, line[k]) + 1 = k
      BY <1>1, <1>3, <1>11
    <3>3. /\ logs[i].kind = "done" /\ logs[i].id = line[k].id
          /\ logs[i].remaining = 0 /\ logs[i].reason = "filled"
      BY <1>14, <3>1
    <3>4. IsLog(logs[i])
      BY <1>9, <3>2, <3>3 DEF IsLog
    <3> QED
      BY <3>1, <3>2, <3>3, <3>4
  <2> QED
    BY <1>1, <2>1, <2>2
<1>16. \A i \in 1 .. Len(logs) : IsLog(logs[i])
  <2> SUFFICES ASSUME NEW i \in 1 .. n + e + 1 PROVE IsLog(logs[i])
    BY <1>7
  <2>1. i \in 1 .. n + e \/ i = n + e + 1
    BY <1>2
  <2> QED
    BY <1>7, <1>8, <1>15, <2>1
<1>17. \A m \in hit :
          LET i == 2 * (Rank(hit, m) + 1) - 1
          IN  /\ i \in 1 .. n + e
              /\ logs[i].kind = "match" /\ logs[i].taker = t.id
              /\ logs[i].maker = m.id /\ logs[i].price = m.price
              /\ logs[i].size = take[m]
  <2> SUFFICES ASSUME NEW m \in hit, NEW k, k = Rank(hit, m) + 1
               PROVE  LET i == 2 * k - 1
                      IN  /\ i \in 1 .. n + e
                          /\ logs[i].kind = "match" /\ logs[i].taker = t.id
                          /\ logs[i].maker = m.id /\ logs[i].price = m.price
                          /\ logs[i].size = take[m]
    BY Zenon
  <2>1. k \in 1 .. n /\ line[k] = m
    BY <1>10
  <2> QED
    BY <1>13, <2>1
<1>18. \A m \in emptied :
          LET i == 2 * (Rank(hit, m) + 1)
          IN  /\ i \in 1 .. n + e
              /\ logs[i].kind = "done" /\ logs[i].id = m.id
  <2> SUFFICES ASSUME NEW m \in emptied, NEW k, k = Rank(hit, m) + 1
               PROVE  LET i == 2 * k
                      IN  /\ i \in 1 .. n + e
                          /\ logs[i].kind = "done" /\ logs[i].id = m.id
    BY Zenon
  <2>1. k \in 1 .. e /\ line[k] = m
    BY <1>3, <1>10, <1>12
  <2> QED
    BY <1>14, <2>1
<1>19. Len(logs) > 0 /\ Len(logs) - 1 = n + e
  BY <1>6, <1>7
<1> QED
  <2>1. \A i \in 1 .. Len(logs) - 1 :
           \/ /\ logs[i].kind = "match" /\ logs[i].taker = t.id
              /\ \E m \in hit : /\ logs[i].maker = m.id /\ logs[i].price = m.price
                                /\ logs[i].size = take[m]
                                /\ i = 2 * (Rank(hit, m) + 1) - 1
           \/ /\ logs[i].kind = "done"
              /\ \E m \in emptied : logs[i].id = m.id /\ i = 2 * (Rank(hit, m) + 1)
    BY <1>15, <1>19
  <2>2. \A m \in hit :
           LET i == 2 * (Rank(hit, m) + 1) - 1
           IN  /\ i \in 1 .. Len(logs) - 1
               /\ logs[i].kind = "match" /\ logs[i].taker = t.id
               /\ logs[i].maker = m.id /\ logs[i].price = m.price
               /\ logs[i].size = take[m]
    BY <1>17, <1>19
  <2>3. \A m \in emptied :
           LET i == 2 * (Rank(hit, m) + 1)
           IN  /\ i \in 1 .. Len(logs) - 1
               /\ logs[i].kind = "done" /\ logs[i].id = m.id
    BY <1>18, <1>19
  <2> QED
    BY <1>7, <1>8, <1>16, <1>19, <2>1, <2>2, <2>3 DEF logs, hit, emptied, take, left

\* Every order of a depth keeps its place, is reduced or is taken out.
LEMMA CutDepth ==
    ASSUME NEW b, IsOrderBook(b), NEW t, IsTaker(t)
    PROVE  LET other == Opposite(t.side)
               after == Complete(b, t).book.depths[other]
           IN  /\ \A n \in after : \E m \in b.depths[other] :
                     /\ m \notin Emptied(b, t) /\ n.id = m.id
                     /\ n = IF m \in Hit(b, t) THEN [m EXCEPT !.size = @ - Takes(b, t)[m]] ELSE m
               /\ \A m \in b.depths[other] :
                     /\ m \in Hit(b, t) \ Emptied(b, t) =>
                           /\ [m EXCEPT !.size = @ - Takes(b, t)[m]] \in after
                           /\ Takes(b, t)[m] \in Nat /\ Takes(b, t)[m] < m.size
                     /\ m \notin Hit(b, t) => m \in after
               /\ \A m \in Hit(b, t) :
                     /\ [m EXCEPT !.size = @ - Takes(b, t)[m]].id = m.id
                     /\ m \in b.depths[other]
<1> DEFINE other == Opposite(t.side)
           after == Complete(b, t).book.depths[other]
           hit   == Hit(b, t)
           emptied == Emptied(b, t)
           less(m) == [m EXCEPT !.size = @ - Takes(b, t)[m]]
<1>1. after = (b.depths[other] \ hit) \cup {less(m) : m \in hit \ emptied}
  BY CompleteDepths
<1>2. /\ hit \subseteq b.depths[other] /\ emptied \subseteq hit
      /\ \A m \in hit : Takes(b, t)[m] \in Nat /\ Takes(b, t)[m] <= m.size
      /\ \A m \in hit : m \in Makers(b, t)
  BY TakerMeetsMakers
<1>3. \A m \in hit : m \notin emptied => Takes(b, t)[m] # m.size
  BY <1>2 DEF Emptied
<1>4. \A m \in hit : m.size \in Nat /\ less(m).id = m.id
  <2> SUFFICES ASSUME NEW m \in hit PROVE m.size \in Nat /\ less(m).id = m.id
    OBVIOUS
  <2>1. IsDepth(b.depths[other], other)
    BY OppositeSide DEF IsOrderBook, IsTaker
  <2>2. m.size \in Nat
    BY <1>2, <2>1, RestingFacts
  <2>3. m \in RestingOrders
    BY <1>2, <2>1 DEF IsDepth
  <2> QED
    BY <2>2, <2>3 DEF RestingOrders
<1> HIDE DEF hit, emptied, less, after, other
<1>5. \A m \in hit \ emptied : Takes(b, t)[m] \in Nat /\ Takes(b, t)[m] < m.size
  BY <1>2, <1>3, <1>4
<1>6. \A n \in after : \E m \in b.depths[other] :
         m \notin emptied /\ n.id = m.id /\ n = IF m \in hit THEN less(m) ELSE m
  BY <1>1, <1>2, <1>4
<1>7. \A m \in b.depths[other] :
         /\ m \in hit \ emptied => less(m) \in after
         /\ m \notin hit => m \in after
  BY <1>1
<1> QED
  BY <1>2, <1>4, <1>5, <1>6, <1>7, Zenon DEF hit, emptied, less, after, other

\* A reduced order is one that may rest.
LEMMA ReducedOrder ==
    ASSUME NEW m \in RestingOrders, NEW u \in Nat, u < m.size
    PROVE  /\ [m EXCEPT !.size = @ - u] \in RestingOrders
           /\ [m EXCEPT !.size = @ - u].id = m.id
           /\ [m EXCEPT !.size = @ - u].side = m.side
           /\ [m EXCEPT !.size = @ - u].price = m.price
           /\ [m EXCEPT !.size = @ - u].size = m.size - u
<1>1. m.size - u \in Nat \ {0}
  BY DEF RestingOrders
<1> DEFINE n == m.size - u
<1>2. [m EXCEPT !.size = @ - u] = [m EXCEPT !.size = n] /\ n \in Nat \ {0}
  BY <1>1
<1> HIDE DEF n
<1>3. /\ [m EXCEPT !.size = n] \in RestingOrders
      /\ [m EXCEPT !.size = n].id = m.id
      /\ [m EXCEPT !.size = n].side = m.side
      /\ [m EXCEPT !.size = n].price = m.price
      /\ [m EXCEPT !.size = n].size = n
  BY <1>2 DEF RestingOrders
<1> QED
  BY <1>2, <1>3 DEF n

LEMMA AddKeepsDepth ==
    ASSUME NEW side, NEW depth, IsDepth(depth, side), NEW o \in RestingOrders, o.side = side
    PROVE  IsDepth(Add(depth, o), side)
BY DEF IsDepth, Add

\* A call leaves a book.
LEMMA CompleteKeepsBook ==
    ASSUME NEW b, IsOrderBook(b), NEW t, IsTaker(t)
    PROVE  IsOrderBook(Complete(b, t).book)
<1> DEFINE other  == Opposite(t.side)
           depths == Complete(b, t).book.depths
           left   == Left(b, t)
<1>1. IsBook(Complete(b, t).book)
  BY CompleteContinues DEF ContinuesBook, IsOrderBook, IsTaker
<1>2. other \in Sides /\ t.side \in Sides /\ \A side \in Sides : side = t.side \/ side = other
  BY DEF Opposite, Sides, IsTaker
<1>3. IsDepth(b.depths[other], other) /\ IsDepth(b.depths[t.side], t.side)
  BY <1>2 DEF IsOrderBook
<1>4. IsDepth(depths[other], other)
  <2>1. ASSUME NEW n \in depths[other]
        PROVE  /\ n \in RestingOrders /\ n.side = other
               /\ \E m \in b.depths[other] :
                     /\ n.id = m.id
                     /\ n = IF m \in Hit(b, t) THEN [m EXCEPT !.size = @ - Takes(b, t)[m]] ELSE m
    <3>1. PICK m \in b.depths[other] :
             /\ m \notin Emptied(b, t)
             /\ n = IF m \in Hit(b, t) THEN [m EXCEPT !.size = @ - Takes(b, t)[m]] ELSE m
      BY CutDepth
    <3>2. m \in RestingOrders /\ m.side = other
      BY <1>3 DEF IsDepth
    <3>3. CASE m \in Hit(b, t)
      <4>1. Takes(b, t)[m] \in Nat /\ Takes(b, t)[m] < m.size
        BY <3>1, <3>3, CutDepth
      <4>2. n = [m EXCEPT !.size = @ - Takes(b, t)[m]]
        BY <3>1, <3>3
      <4>3. n \in RestingOrders /\ n.side = other /\ n.id = m.id
        BY <3>2, <4>1, <4>2, ReducedOrder
      <4> QED
        BY <3>1, <4>3
    <3>4. CASE m \notin Hit(b, t)
      <4>1. n = m
        BY <3>1, <3>4
      <4> QED
        BY <3>1, <3>2, <4>1
    <3> QED
      BY <3>3, <3>4
  <2>2. ASSUME NEW n \in depths[other], NEW o \in depths[other], n.id = o.id
        PROVE  n = o
    <3>1. PICK m \in b.depths[other] :
             /\ n.id = m.id
             /\ n = IF m \in Hit(b, t) THEN [m EXCEPT !.size = @ - Takes(b, t)[m]] ELSE m
      BY <2>1
    <3>2. PICK l \in b.depths[other] :
             /\ o.id = l.id
             /\ o = IF l \in Hit(b, t) THEN [l EXCEPT !.size = @ - Takes(b, t)[l]] ELSE l
      BY <2>1
    <3>3. l = m
      BY <1>3, <2>2, <3>1, <3>2 DEF IsDepth
    <3> QED
      BY <3>1, <3>2, <3>3, Zenon
  <2> QED
    BY <2>1, <2>2 DEF IsDepth
<1>5. IsDepth(depths[t.side], t.side)
  <2>1. depths[t.side] = IF Rests(left) THEN Add(b.depths[t.side], left) ELSE b.depths[t.side]
    BY CompleteDepths
  <2>2. CASE Rests(left)
    <3>1. IsTaker(left) /\ left.side = t.side
      BY LeftIsTaker
    <3>2. left \in RestingOrders
      <4>1. /\ left.id \in OrderIds /\ left.side \in Sides /\ left.type = "limit"
            /\ left.size \in Nat \ {0} /\ left.price \in Prices /\ left.funds \in Nat
        BY <2>2, <3>1 DEF Rests, IsTaker
      <4>2. left = [id |-> left.id, side |-> left.side, type |-> left.type, size |-> left.size,
                    price |-> left.price, funds |-> left.funds]
        BY <3>1 DEF IsTaker
      <4> HIDE DEF left
      <4> QED
        BY <4>1, <4>2 DEF RestingOrders
    <3> QED
      BY <1>3, <2>1, <2>2, <3>1, <3>2, AddKeepsDepth
  <2>3. CASE ~ Rests(left)
    BY <1>3, <2>1, <2>3
  <2> QED
    BY <2>2, <2>3
<1> QED
  BY <1>1, <1>2, <1>4, <1>5 DEF IsOrderBook

\* The entries of one order in a depth.
EntriesOf(depth, x) == {m \in depth : m.id = x}

\* On its own side a taker leaves the others alone.
LEMMA OwnSideStays ==
    ASSUME NEW b, IsOrderBook(b), NEW t, IsTaker(t), NEW x, x # t.id
    PROVE  EntriesOf(Complete(b, t).book.depths[t.side], x) = EntriesOf(b.depths[t.side], x)
<1>1. Complete(b, t).book.depths[t.side] = IF Rests(Left(b, t))
                                           THEN Add(b.depths[t.side], Left(b, t))
                                           ELSE b.depths[t.side]
  BY CompleteDepths
<1>2. Left(b, t).id = t.id
  BY LeftIsTaker
<1> QED
  BY <1>1, <1>2 DEF EntriesOf, Add

\* A call has nothing to say of who is neither its taker nor across the book.
LEMMA CompletePasses ==
    ASSUME NEW b, IsOrderBook(b), NEW t, IsTaker(t), NEW x, x # t.id,
           EntriesOf(b.depths[Opposite(t.side)], x) = {}
    PROVE  /\ NoMention(Complete(b, t).logs, x)
           /\ EntriesOf(Complete(b, t).book.depths[Opposite(t.side)], x) = {}
<1> DEFINE other == Opposite(t.side)
           logs  == Complete(b, t).logs
           hit   == Hit(b, t)
<1>1. \A m \in b.depths[other] : m.id # x
  BY DEF EntriesOf
<1>2. hit \subseteq b.depths[other] /\ Emptied(b, t) \subseteq hit
  BY TakerMeetsMakers
<1>3. /\ IsSequence(logs) /\ Len(logs) > 0
      /\ logs[Len(logs)].kind = (IF Rests(Left(b, t)) THEN "open" ELSE "done")
      /\ logs[Len(logs)].id = t.id
      /\ \A i \in 1 .. Len(logs) - 1 :
            \/ /\ logs[i].kind = "match" /\ logs[i].taker = t.id
               /\ \E m \in hit : logs[i].maker = m.id
            \/ /\ logs[i].kind = "done"
               /\ \E m \in Emptied(b, t) : logs[i].id = m.id
  BY CompleteTellsWho
<1>4. \A n \in Complete(b, t).book.depths[other] : \E m \in b.depths[other] : n.id = m.id
  <2> SUFFICES ASSUME NEW n \in Complete(b, t).book.depths[other]
               PROVE  \E m \in b.depths[other] : n.id = m.id
    OBVIOUS
  <2> QED
    BY CutDepth
<1> HIDE DEF logs, hit, other
<1>5. DOMAIN logs = 1 .. Len(logs) /\ Len(logs) \in Nat
  BY <1>3, SequenceFacts
<1>6. ASSUME NEW i \in 1 .. Len(logs)
      PROVE  ~ Mentions(logs[i], x)
  <2>1. CASE i = Len(logs)
    BY <1>3, <2>1 DEF Mentions
  <2>2. CASE i # Len(logs)
    <3>0. Len(logs) \in Nat
      BY <1>5
    <3>1. i \in 1 .. Len(logs) - 1
      BY <2>2, <3>0
    <3> QED
      BY <1>1, <1>2, <1>3, <3>1 DEF Mentions
  <2> QED
    BY <2>1, <2>2
<1>7. NoMention(logs, x)
  BY <1>5, <1>6 DEF NoMention
<1>8. EntriesOf(Complete(b, t).book.depths[other], x) = {}
  BY <1>1, <1>4 DEF EntriesOf
<1> QED
  BY <1>7, <1>8 DEF logs, other

\* A maker trades, and is done once and for all if and only if nothing of it is
\* left.
LEMMA CompleteForMaker ==
    ASSUME NEW b, IsOrderBook(b), NEW t, IsTaker(t),
           NEW m \in b.depths[Opposite(t.side)], m.id # t.id
    PROVE  LET logs  == Complete(b, t).logs
               after == EntriesOf(Complete(b, t).book.depths[Opposite(t.side)], m.id)
           IN  \E u \in 0 .. m.size :
                  /\ Units(logs, m.id) = u /\ Worth(logs, m.id) = u * m.price
                  /\ \A i \in DOMAIN logs : Mentions(logs[i], m.id) => logs[i].kind # "open"
                  /\ u = m.size => EndsWithDone(logs, m.id) /\ after = {}
                  /\ u < m.size => NoDone(logs, m.id) /\ after = {[m EXCEPT !.size = @ - u]}
<1> DEFINE other == Opposite(t.side)
           depth == Complete(b, t).book.depths[other]
           after == EntriesOf(depth, m.id)
           logs  == Complete(b, t).logs
           hit   == Hit(b, t)
           take  == Takes(b, t)
<1>1. other \in Sides /\ IsDepth(b.depths[other], other)
  BY OppositeSide DEF IsOrderBook, IsTaker
<1>2. /\ m \in RestingOrders /\ m.size \in Nat /\ m.size > 0 /\ m.price \in Nat /\ m.price \in Prices
      /\ m.id \in OrderIds
      /\ \A n \in b.depths[other] : n.id = m.id => n = m
  <2>1. m \in RestingOrders /\ \A n \in b.depths[other] : n.id = m.id => n = m
    BY <1>1 DEF IsDepth
  <2>2. /\ m.size \in Nat /\ m.size > 0 /\ m.price \in Nat /\ m.price \in Prices
        /\ m.id \in OrderIds
    BY <1>1, RestingFacts
  <2> QED
    BY <2>1, <2>2
<1>3. /\ hit \subseteq b.depths[other] /\ Emptied(b, t) \subseteq hit /\ hit \subseteq Makers(b, t)
      /\ \A n \in hit : take[n] \in Nat /\ take[n] <= n.size
  BY TakerMeetsMakers
<1>4. /\ IsSequence(logs) /\ Len(logs) > 0
      /\ \A i \in 1 .. Len(logs) : IsLog(logs[i])
      /\ logs[Len(logs)].kind = (IF Rests(Left(b, t)) THEN "open" ELSE "done")
      /\ logs[Len(logs)].id = t.id
      /\ \A i \in 1 .. Len(logs) - 1 :
            \/ /\ logs[i].kind = "match" /\ logs[i].taker = t.id
               /\ \E n \in hit : /\ logs[i].maker = n.id /\ logs[i].price = n.price
                                 /\ logs[i].size = take[n]
                                 /\ i = 2 * (Rank(hit, n) + 1) - 1
            \/ /\ logs[i].kind = "done"
               /\ \E n \in Emptied(b, t) : /\ logs[i].id = n.id
                                           /\ i = 2 * (Rank(hit, n) + 1)
  BY CompleteTellsWho
<1>5. \A n \in hit :
         LET i == 2 * (Rank(hit, n) + 1) - 1
         IN  /\ i \in 1 .. Len(logs) - 1
             /\ logs[i].kind = "match" /\ logs[i].taker = t.id
             /\ logs[i].maker = n.id /\ logs[i].price = n.price
             /\ logs[i].size = take[n]
  BY CompleteTellsWho
<1>6. \A n \in Emptied(b, t) :
         LET i == 2 * (Rank(hit, n) + 1)
         IN  /\ i \in 1 .. Len(logs) - 1
             /\ logs[i].kind = "done" /\ logs[i].id = n.id
  BY CompleteTellsWho
<1>7. /\ \A n \in depth : \E o \in b.depths[other] :
             /\ o \notin Emptied(b, t) /\ n.id = o.id
             /\ n = IF o \in hit THEN [o EXCEPT !.size = @ - take[o]] ELSE o
      /\ m \in hit \ Emptied(b, t) => /\ [m EXCEPT !.size = @ - take[m]] \in depth
                                      /\ take[m] < m.size
      /\ m \notin hit => m \in depth
      /\ m \in hit => [m EXCEPT !.size = @ - take[m]].id = m.id
  <2>1. \A n \in depth : \E o \in b.depths[other] :
             /\ o \notin Emptied(b, t) /\ n.id = o.id
             /\ n = IF o \in hit THEN [o EXCEPT !.size = @ - take[o]] ELSE o
    BY CutDepth
  <2>2. /\ m \in hit \ Emptied(b, t) => /\ [m EXCEPT !.size = @ - take[m]] \in depth
                                        /\ take[m] < m.size
        /\ m \notin hit => m \in depth
        /\ m \in hit => [m EXCEPT !.size = @ - take[m]].id = m.id
    BY CutDepth
  <2> QED
    BY <2>1, <2>2
<1>8. IsFiniteSet(1 .. Len(logs)) /\ DOMAIN logs = 1 .. Len(logs) /\ Len(logs) \in Nat
  <2>1. DOMAIN logs = 1 .. Len(logs) /\ Len(logs) \in Nat
    BY <1>4, SequenceFacts
  <2> QED
    BY <2>1, FS_Interval
<1>9. \A n \in depth : n.id = m.id =>
         /\ m \notin Emptied(b, t)
         /\ n = IF m \in hit THEN [m EXCEPT !.size = @ - take[m]] ELSE m
  BY <1>2, <1>7, Zenon
<1>10. \A n \in hit : n.id = m.id => n = m
  BY <1>2, <1>3
<1> DEFINE k == Rank(hit, m) + 1
<1>11. \A i \in 1 .. Len(logs) :
          Mentions(logs[i], m.id) =>
             /\ m \in hit
             /\ \/ i = 2 * k - 1 /\ logs[i].kind = "match"
                \/ i = 2 * k /\ logs[i].kind = "done" /\ m \in Emptied(b, t)
  <2> SUFFICES ASSUME NEW i \in 1 .. Len(logs), Mentions(logs[i], m.id)
               PROVE  /\ m \in hit
                      /\ \/ i = 2 * k - 1 /\ logs[i].kind = "match"
                         \/ i = 2 * k /\ logs[i].kind = "done" /\ m \in Emptied(b, t)
    OBVIOUS
  <2>1. i # Len(logs)
    BY <1>4 DEF Mentions
  <2>2. i \in 1 .. Len(logs) - 1
    BY <1>8, <2>1
  <2> QED
    BY <1>3, <1>4, <1>10, <2>2 DEF Mentions
<1> HIDE DEF other, depth, after, logs, hit, take
<1>12. CASE m \notin hit
  <2>1. NoMention(logs, m.id)
    BY <1>8, <1>11, <1>12 DEF NoMention
  <2>2. Units(logs, m.id) = 0 /\ Worth(logs, m.id) = 0 /\ NoDone(logs, m.id)
    BY <1>4, <2>1, UnmentionedOrder
  <2>3. after = {[m EXCEPT !.size = @ - 0]}
    <3>1. m \in depth
      BY <1>7, <1>12
    <3>2. after = {m}
      BY <1>9, <1>12, <3>1 DEF after, EntriesOf
    <3>3. [m EXCEPT !.size = @ - 0] = m
      BY <1>2 DEF RestingOrders
    <3> QED
      BY <3>2, <3>3
  <2>4. 0 \in 0 .. m.size /\ 0 * m.price = 0 /\ 0 < m.size
    BY <1>2
  <2>5. \A i \in DOMAIN logs : Mentions(logs[i], m.id) => logs[i].kind # "open"
    BY <2>1 DEF NoMention
  <2> QED
    BY <2>2, <2>3, <2>4, <2>5 DEF after, depth, other, logs
<1>13. CASE m \in hit
  <2> DEFINE i == 2 * k - 1
  <2>1. /\ i \in 1 .. Len(logs) /\ i \in DOMAIN logs
        /\ logs[i].kind = "match" /\ logs[i].taker = t.id
        /\ logs[i].maker = m.id /\ logs[i].price = m.price
        /\ logs[i].size = take[m] /\ take[m] \in Nat /\ take[m] <= m.size
    <3>1. i \in 1 .. Len(logs) - 1
      BY <1>5, <1>13
    <3>2. i \in 1 .. Len(logs)
      BY <1>8, <3>1
    <3> QED
      BY <1>3, <1>5, <1>8, <1>13, <3>2
  <2>2. /\ UnitsIn(logs[i], m.id) = take[m]
        /\ WorthIn(logs[i], m.id) = take[m] * m.price
        /\ take[m] \in Int /\ take[m] * m.price \in Int
    <3>1. Mentions(logs[i], m.id)
      BY <2>1 DEF Mentions
    <3> QED
      BY <1>2, <2>1, <3>1 DEF UnitsIn, WorthIn
  <2>3. \A j \in (1 .. Len(logs)) \ {i} : UnitsIn(logs[j], m.id) = 0 /\ WorthIn(logs[j], m.id) = 0
    <3> SUFFICES ASSUME NEW j \in 1 .. Len(logs), j # i
                 PROVE  ~ (logs[j].kind = "match" /\ Mentions(logs[j], m.id))
      BY DEF UnitsIn, WorthIn
    <3> QED
      BY <1>11
  <2> HIDE DEF i
  <2>4. Units(logs, m.id) = take[m]
    <3> DEFINE f == [j \in 1 .. Len(logs) |-> UnitsIn(logs[j], m.id)]
    <3>1. f[i] = take[m] /\ \A j \in (1 .. Len(logs)) \ {i} : f[j] = 0
      BY <2>1, <2>2, <2>3
    <3> HIDE DEF f
    <3>2. SumFunctionOnSet(f, 1 .. Len(logs)) = take[m]
      BY <1>8, <2>1, <2>2, <3>1, SumOfOne
    <3> QED
      BY <1>8, <3>2 DEF f, Units
  <2>5. Worth(logs, m.id) = take[m] * m.price
    <3> DEFINE f == [j \in 1 .. Len(logs) |-> WorthIn(logs[j], m.id)]
    <3>1. f[i] = take[m] * m.price /\ \A j \in (1 .. Len(logs)) \ {i} : f[j] = 0
      BY <2>1, <2>2, <2>3
    <3> HIDE DEF f
    <3>2. SumFunctionOnSet(f, 1 .. Len(logs)) = take[m] * m.price
      BY <1>8, <2>1, <2>2, <3>1, SumOfOne
    <3> QED
      BY <1>8, <3>2 DEF f, Worth
  <2>6. take[m] \in 0 .. m.size
    BY <1>2, <2>1
  <2>7. \A j \in DOMAIN logs : Mentions(logs[j], m.id) => logs[j].kind # "open"
    BY <1>8, <1>11
  <2>8. take[m] = m.size <=> m \in Emptied(b, t)
    BY <1>3, <1>13 DEF Emptied, take
  <2>9. ASSUME take[m] = m.size
        PROVE  EndsWithDone(logs, m.id) /\ after = {}
    <3>1. m \in Emptied(b, t)
      BY <2>8, <2>9
    <3>2. after = {}
      BY <1>9, <3>1 DEF after, EntriesOf
    <3> DEFINE d == 2 * k
    <3>3. d \in 1 .. Len(logs) - 1 /\ logs[d].kind = "done" /\ logs[d].id = m.id
      BY <1>6, <3>1
    <3>4. d \in DOMAIN logs /\ Ends(logs[d], m.id) /\ d \in Nat
      BY <1>8, <3>3 DEF Ends
    <3>5. \A j \in DOMAIN logs : Mentions(logs[j], m.id) /\ j # d => j < d /\ ~ Ends(logs[j], m.id)
      <4> SUFFICES ASSUME NEW j \in 1 .. Len(logs), Mentions(logs[j], m.id), j # d
                   PROVE  j < d /\ ~ Ends(logs[j], m.id)
        BY <1>8
      <4>1. j = 2 * k - 1 /\ logs[j].kind = "match"
        BY <1>11
      <4>2. j < d
        BY <3>4, <4>1
      <4> QED
        BY <4>1, <4>2 DEF Ends
    <3> QED
      BY <3>2, <3>4, <3>5 DEF EndsWithDone
  <2>10. ASSUME take[m] < m.size
         PROVE  NoDone(logs, m.id) /\ after = {[m EXCEPT !.size = @ - take[m]]}
    <3>1. m \notin Emptied(b, t)
      BY <1>2, <2>1, <2>8, <2>10
    <3>2. NoDone(logs, m.id)
      <4> SUFFICES ASSUME NEW j \in 1 .. Len(logs), Ends(logs[j], m.id) PROVE FALSE
        BY <1>8 DEF NoDone
      <4>1. Mentions(logs[j], m.id) /\ logs[j].kind = "done"
        BY DEF Ends, Mentions
      <4> QED
        BY <1>11, <3>1, <4>1
    <3>3. [m EXCEPT !.size = @ - take[m]] \in depth /\ [m EXCEPT !.size = @ - take[m]].id = m.id
      BY <1>7, <1>13, <3>1
    <3>4. \A n \in depth : n.id = m.id => n = [m EXCEPT !.size = @ - take[m]]
      BY <1>9, <1>13
    <3> QED
      BY <3>2, <3>3, <3>4 DEF after, EntriesOf
  <2> DEFINE u == take[m]
  <2> HIDE DEF u
  <2>11. /\ u \in 0 .. m.size
         /\ Units(logs, m.id) = u /\ Worth(logs, m.id) = u * m.price
         /\ \A j \in DOMAIN logs : Mentions(logs[j], m.id) => logs[j].kind # "open"
         /\ u = m.size => EndsWithDone(logs, m.id) /\ after = {}
         /\ u < m.size => NoDone(logs, m.id) /\ after = {[m EXCEPT !.size = @ - u]}
    BY <2>4, <2>5, <2>6, <2>7, <2>9, <2>10 DEF u
  <2> QED
    BY <2>11 DEF after, depth, other, logs
<1> QED
  BY <1>12, <1>13

\* The taker trades with all it hits; the closing log tells whether it rests.
LEMMA CompleteForTaker ==
    ASSUME NEW b, IsOrderBook(b), NEW t, IsTaker(t),
           EntriesOf(b.depths[Opposite(t.side)], t.id) = {}
    PROVE  LET logs  == Complete(b, t).logs
               left  == Left(b, t)
               after == EntriesOf(Complete(b, t).book.depths[t.side], t.id)
           IN  /\ Units(logs, t.id) = TakenBy(b, t) /\ Worth(logs, t.id) = PaidBy(b, t)
               /\ Rests(left) => NoDone(logs, t.id) /\ after = {left}
               /\ ~ Rests(left) => /\ EndsWithDone(logs, t.id)
                                   /\ after = EntriesOf(b.depths[t.side], t.id)
<1> DEFINE other == Opposite(t.side)
           own   == b.depths[t.side]
           after == EntriesOf(Complete(b, t).book.depths[t.side], t.id)
           logs  == Complete(b, t).logs
           left  == Left(b, t)
           hit   == Hit(b, t)
           take  == Takes(b, t)
           cost  == [m \in Makers(b, t) |-> take[m] * m.price]
           last  == Len(logs)
           p     == [m \in hit |-> 2 * (Rank(hit, m) + 1) - 1]
<1>1. \A m \in b.depths[other] : m.id # t.id
  BY DEF EntriesOf
<1>2. /\ hit \subseteq b.depths[other] /\ Emptied(b, t) \subseteq hit /\ hit \subseteq Makers(b, t)
      /\ \A m \in hit : take[m] \in Nat /\ take[m] * m.price \in Nat
  BY TakerMeetsMakers
<1>3. /\ IsSequence(logs) /\ Len(logs) > 0
      /\ \A i \in 1 .. Len(logs) : IsLog(logs[i])
      /\ logs[Len(logs)].kind = (IF Rests(left) THEN "open" ELSE "done")
      /\ logs[Len(logs)].id = t.id
      /\ \A i \in 1 .. Len(logs) - 1 :
            \/ /\ logs[i].kind = "match" /\ logs[i].taker = t.id
               /\ \E m \in hit : i = 2 * (Rank(hit, m) + 1) - 1
            \/ /\ logs[i].kind = "done"
               /\ \E m \in Emptied(b, t) : logs[i].id = m.id
  BY CompleteTellsWho
<1>4. \A m \in hit :
         LET i == 2 * (Rank(hit, m) + 1) - 1
         IN  /\ i \in 1 .. Len(logs) - 1
             /\ logs[i].kind = "match" /\ logs[i].taker = t.id
             /\ logs[i].price = m.price /\ logs[i].size = take[m]
  BY CompleteTellsWho
<1>5. IsFiniteSet(hit) /\ IsDepth(hit, other) /\ other \in Sides
  BY HitAndEmptied, OppositeSide DEF IsLine, IsTaker
<1>6. Complete(b, t).book.depths[t.side] = IF Rests(left) THEN Add(own, left) ELSE own
  BY CompleteDepths
<1>7. left.id = t.id
  BY LeftIsTaker
<1>8. DOMAIN logs = 1 .. last /\ last \in Nat
  BY <1>3, SequenceFacts
<1>9. IsFiniteSet(1 .. last)
  <2>1. \A n \in Nat : IsFiniteSet(1 .. n)
    BY FS_Interval
  <2> QED
    BY <1>8, <2>1
<1>10. \A m, n \in hit : p[m] = p[n] => m = n
  <2> SUFFICES ASSUME NEW m \in hit, NEW n \in hit, p[m] = p[n]
               PROVE  m = n
    OBVIOUS
  <2>1. Rank(hit, m) \in Int /\ Rank(hit, n) \in Int
    BY <1>5, RankGrows DEF IsLine
  <2>2. Rank(hit, m) = Rank(hit, n)
    BY <2>1
  <2>3. \A x, y \in hit : Precedes(x, y) => Rank(hit, x) < Rank(hit, y)
    BY <1>5, RankGrows DEF IsLine
  <2>4. m = n \/ Precedes(m, n) \/ Precedes(n, m)
    BY <1>5, PriorityIsOrder
  <2> QED
    BY <2>1, <2>2, <2>3, <2>4
<1>11. \A m \in hit : p[m] = 2 * (Rank(hit, m) + 1) - 1
  OBVIOUS
<1>12. TakenBy(b, t) = SumFunctionOnSet(take, hit) /\ PaidBy(b, t) = SumFunctionOnSet(cost, hit)
  BY DEF TakenBy, PaidBy
<1>13. \A m \in hit : cost[m] = take[m] * m.price
  BY <1>2
<1>14. p = [m \in hit |-> p[m]]
  OBVIOUS
<1> HIDE DEF other, own, after, logs, left, hit, take, cost, last, p
<1>15. \A m \in hit : /\ p[m] \in 1 .. last
                      /\ logs[p[m]].kind = "match" /\ logs[p[m]].taker = t.id
                      /\ logs[p[m]].price = m.price /\ logs[p[m]].size = take[m]
  <2> SUFFICES ASSUME NEW m \in hit
               PROVE  /\ p[m] \in 1 .. last
                      /\ logs[p[m]].kind = "match" /\ logs[p[m]].taker = t.id
                      /\ logs[p[m]].price = m.price /\ logs[p[m]].size = take[m]
    OBVIOUS
  <2>1. /\ p[m] \in 1 .. last - 1
        /\ logs[p[m]].kind = "match" /\ logs[p[m]].taker = t.id
        /\ logs[p[m]].price = m.price /\ logs[p[m]].size = take[m]
    BY <1>4, <1>11, Zenon DEF last
  <2>2. p[m] \in 1 .. last
    BY <1>8, <2>1
  <2> QED
    BY <2>1, <2>2
<1>16. p \in [hit -> 1 .. last]
  BY <1>14, <1>15
<1>17. ASSUME NEW i \in 1 .. last
       PROVE  /\ i = last => logs[i].kind # "match"
              /\ logs[i].kind = "match" /\ Mentions(logs[i], t.id) => \E m \in hit : p[m] = i
              /\ Mentions(logs[i], t.id) /\ i # last => i < last /\ logs[i].kind = "match"
  <2>1. CASE i = last
    BY <1>3, <2>1 DEF last
  <2>2. CASE i # last
    <3>1. i \in 1 .. last - 1 /\ i < last
      BY <1>8, <2>2
    <3>2. i \in 1 .. Len(logs) - 1
      BY <3>1 DEF last
    <3>3. CASE logs[i].kind = "match" /\ \E m \in hit : i = 2 * (Rank(hit, m) + 1) - 1
      BY <1>11, <2>2, <3>1, <3>3
    <3>4. CASE logs[i].kind = "done" /\ \E m \in Emptied(b, t) : logs[i].id = m.id
      <4>1. ~ Mentions(logs[i], t.id)
        BY <1>1, <1>2, <3>4 DEF Mentions
      <4> QED
        BY <2>2, <3>4, <4>1
    <3> QED
      BY <1>3, <3>2, <3>3, <3>4
  <2> QED
    BY <2>1, <2>2
<1>18. \A m \in hit : /\ UnitsIn(logs[p[m]], t.id) = take[m]
                      /\ WorthIn(logs[p[m]], t.id) = cost[m]
  <2> SUFFICES ASSUME NEW m \in hit
               PROVE  /\ UnitsIn(logs[p[m]], t.id) = take[m]
                      /\ WorthIn(logs[p[m]], t.id) = cost[m]
    OBVIOUS
  <2>1. Mentions(logs[p[m]], t.id)
    BY <1>15 DEF Mentions
  <2> QED
    BY <1>13, <1>15, <2>1 DEF UnitsIn, WorthIn
<1>19. \A i \in 1 .. last : UnitsIn(logs[i], t.id) \in Nat /\ WorthIn(logs[i], t.id) \in Nat
  <2> SUFFICES ASSUME NEW i \in 1 .. last
               PROVE  UnitsIn(logs[i], t.id) \in Nat /\ WorthIn(logs[i], t.id) \in Nat
    OBVIOUS
  <2>1. IsLog(logs[i])
    BY <1>3 DEF last
  <2> QED
    BY <2>1, LogAmounts
<1>20. \A i \in 1 .. last : (UnitsIn(logs[i], t.id) # 0 \/ WorthIn(logs[i], t.id) # 0) =>
          \E m \in hit : p[m] = i
  BY <1>17 DEF UnitsIn, WorthIn
<1>21. Units(logs, t.id) = TakenBy(b, t)
  <2> DEFINE f == [i \in 1 .. last |-> UnitsIn(logs[i], t.id)]
  <2>1. /\ \A i \in 1 .. last : f[i] \in Int
        /\ \A m \in hit : take[m] \in Int
        /\ \A m \in hit : f[p[m]] = take[m]
        /\ \A i \in 1 .. last : f[i] # 0 => \E m \in hit : p[m] = i
    BY <1>2, <1>15, <1>18, <1>19, <1>20
  <2> HIDE DEF f
  <2>2. Summable(f, 1 .. last) /\ Summable(take, hit)
    BY <1>5, <1>9, <2>1 DEF Summable
  <2> DEFINE D == 1 .. last
  <2>4. /\ Summable(f, D) /\ p \in [hit -> D]
        /\ \A i \in D : f[i] # 0 => \E m \in hit : p[m] = i
    BY <1>16, <2>1, <2>2
  <2>5. \A m \in hit : f[p[m]] = take[m]
    BY <2>1
  <2> HIDE DEF D
  <2>6. SumFunctionOnSet(f, D) = SumFunctionOnSet(take, hit)
    BY <1>10, <2>2, <2>4, <2>5, SumMoved
  <2>3. SumFunctionOnSet(f, 1 .. last) = SumFunctionOnSet(take, hit)
    BY <2>6 DEF D
  <2> QED
    BY <1>8, <1>12, <2>3 DEF f, Units
<1>22. Worth(logs, t.id) = PaidBy(b, t)
  <2> DEFINE f == [i \in 1 .. last |-> WorthIn(logs[i], t.id)]
  <2>1. /\ \A i \in 1 .. last : f[i] \in Int
        /\ \A m \in hit : cost[m] \in Int
        /\ \A m \in hit : f[p[m]] = cost[m]
        /\ \A i \in 1 .. last : f[i] # 0 => \E m \in hit : p[m] = i
    BY <1>2, <1>13, <1>15, <1>18, <1>19, <1>20
  <2> HIDE DEF f
  <2>2. Summable(f, 1 .. last) /\ Summable(cost, hit)
    BY <1>5, <1>9, <2>1 DEF Summable
  <2> DEFINE D == 1 .. last
  <2>4. /\ Summable(f, D) /\ p \in [hit -> D]
        /\ \A i \in D : f[i] # 0 => \E m \in hit : p[m] = i
    BY <1>16, <2>1, <2>2
  <2>5. \A m \in hit : f[p[m]] = cost[m]
    BY <2>1
  <2> HIDE DEF D
  <2>6. SumFunctionOnSet(f, D) = SumFunctionOnSet(cost, hit)
    BY <1>10, <2>2, <2>4, <2>5, SumMoved
  <2>3. SumFunctionOnSet(f, 1 .. last) = SumFunctionOnSet(cost, hit)
    BY <2>6 DEF D
  <2> QED
    BY <1>8, <1>12, <2>3 DEF f, Worth
<1>23. last \in DOMAIN logs /\ last \in 1 .. last
  BY <1>3, <1>8 DEF last
<1>24. ASSUME Rests(left)
       PROVE  NoDone(logs, t.id) /\ after = {left}
  <2>1. ASSUME NEW i \in 1 .. last, Ends(logs[i], t.id) PROVE FALSE
    <3>1. Mentions(logs[i], t.id) /\ logs[i].kind = "done"
      BY <2>1 DEF Ends, Mentions
    <3>2. i = last
      BY <1>17, <3>1
    <3> QED
      BY <1>3, <1>24, <3>1, <3>2 DEF last
  <2>2. after = {left}
    BY <1>6, <1>7, <1>24 DEF after, EntriesOf, Add
  <2> QED
    BY <1>8, <2>1, <2>2 DEF NoDone
<1>25. ASSUME ~ Rests(left)
       PROVE  EndsWithDone(logs, t.id) /\ after = EntriesOf(own, t.id)
  <2>1. Ends(logs[last], t.id)
    BY <1>3, <1>25 DEF last, Ends
  <2>2. \A j \in DOMAIN logs : Mentions(logs[j], t.id) /\ j # last => j < last /\ ~ Ends(logs[j], t.id)
    BY <1>8, <1>17 DEF Ends
  <2>3. after = EntriesOf(own, t.id)
    BY <1>6, <1>25 DEF after
  <2> QED
    BY <1>23, <2>1, <2>2, <2>3 DEF EndsWithDone
<1> QED
  BY <1>21, <1>22, <1>24, <1>25 DEF logs, left, after, own

\* What an order is.
LEMMA OrderFacts ==
    ASSUME NEW o \in Orders
    PROVE  /\ o = [id |-> o.id, side |-> o.side, type |-> o.type, size |-> o.size,
                   price |-> o.price, funds |-> o.funds]
           /\ o.id \in OrderIds /\ o.side \in Sides /\ o.type \in {"limit", "market"}
           /\ o.size \in Nat /\ o.price \in Nat /\ o.funds \in Nat
           /\ o.type = "limit" => o.price \in Prices /\ o.size > 0 /\ o.funds = o.size * o.price
           /\ o.type = "market" => o.price = 0
<1>1. CASE o \in LimitOrders
  <2>1. /\ o \in [id : OrderIds, side : Sides, type : {"limit"}, size : Sizes,
                  price : Prices, funds : {z * p : z \in Sizes, p \in Prices}]
        /\ o.funds = o.size * o.price
    BY <1>1 DEF LimitOrders
  <2>2. o.size \in Sizes /\ o.price \in Prices
    BY <2>1
  <2>3. o.size \in Nat \ {0}
    BY <2>2, SizesAssumption
  <2>4. o.price \in Nat
    BY <2>2, PricesAssumption
  <2>5. o.size \in Nat /\ o.size > 0 /\ o.funds \in Nat
    BY <2>1, <2>3, <2>4
  <2> QED
    BY <2>1, <2>2, <2>4, <2>5
<1>2. CASE o \in MarketBuys
  <2>1. o \in [id : OrderIds, side : {"buy"}, type : {"market"}, size : {0},
               price : {0}, funds : Budgets]
    BY <1>2 DEF MarketBuys
  <2>2. o.funds \in Nat
    BY <2>1, BudgetsAssumption
  <2> QED
    BY <2>1, <2>2 DEF Sides
<1>3. CASE o \in MarketSells
  <2>1. o \in [id : OrderIds, side : {"sell"}, type : {"market"}, size : Sizes,
               price : {0}, funds : {0}]
    BY <1>3 DEF MarketSells
  <2>2. o.size \in Nat
    BY <2>1, SizesAssumption
  <2> QED
    BY <2>1, <2>2 DEF Sides
<1> QED
  BY <1>1, <1>2, <1>3 DEF Orders

\* The taker that an order becomes.
LEMMA TakerOfOrder ==
    ASSUME NEW o \in Orders
    PROVE  /\ IsTaker(TakerOf(o))
           /\ TakerOf(o).id = o.id /\ TakerOf(o).side = o.side /\ TakerOf(o).type = o.type
           /\ TakerOf(o).size = o.size /\ TakerOf(o).funds = o.funds
           /\ o.type = "limit" => TakerOf(o).price = o.price
<1>1. /\ o = [id |-> o.id, side |-> o.side, type |-> o.type, size |-> o.size,
              price |-> o.price, funds |-> o.funds]
      /\ o.id \in OrderIds /\ o.side \in Sides /\ o.type \in {"limit", "market"}
      /\ o.size \in Nat /\ o.price \in Nat /\ o.funds \in Nat
      /\ o.type = "limit" => o.price \in Prices
  BY OrderFacts
<1>2. CASE o.type = "market"
  <2> DEFINE p == IF o.side = "buy" THEN InfPrice ELSE 0
  <2>1. p \in Nat
    BY InfPriceAssumption
  <2>2. TakerOf(o) = [o EXCEPT !.price = p]
    BY <1>2 DEF TakerOf
  <2> HIDE DEF p
  <2> QED
    BY <1>1, <1>2, <2>1, <2>2 DEF IsTaker
<1>3. CASE o.type # "market"
  BY <1>1, <1>3 DEF TakerOf, IsTaker
<1> QED
  BY <1>2, <1>3

\* A cancellation takes out the entry, if there is one, and says so.
LEMMA CancelEffects ==
    ASSUME NEW b, IsOrderBook(b), NEW o \in Orders
    PROVE  LET r     == CancelOrder(b, o)
               entry == EntriesOf(b.depths[o.side], o.id)
           IN  /\ IsOrderBook(r.book)
               /\ \A side \in Sides : side # o.side => r.book.depths[side] = b.depths[side]
               /\ r.book.depths[o.side] = b.depths[o.side] \ entry
               /\ entry = {} => r.logs = << >>
               /\ entry # {} => \E log : /\ r.logs = <<log>> /\ IsLog(log)
                                         /\ Ends(log, o.id)
<1> DEFINE r     == CancelOrder(b, o)
           entry == EntriesOf(b.depths[o.side], o.id)
           m     == CHOOSE e \in entry : TRUE
<1>1. o.side \in Sides /\ o.id \in OrderIds
  BY OrderFacts
<1>2. Entry(b, o) = entry
  BY DEF Entry, EntriesOf
<1>3. IsBook(r.book)
  BY <1>1, CancelContinues DEF ContinuesBook, IsOrderBook
<1>4. \A side \in Sides : IsDepth(b.depths[side], side)
  BY DEF IsOrderBook
<1>5. CASE entry = {}
  <2>1. r = [book |-> b, logs |-> << >>]
    BY <1>2, <1>5, Zenon DEF CancelOrder
  <2>2. r.book = b /\ r.logs = << >> /\ b.depths[o.side] \ entry = b.depths[o.side]
    BY <1>5, <2>1
  <2> QED
    BY <1>5, <2>2
<1>6. CASE entry # {}
  <2> DEFINE log == DoneLog(b.logSeq + 1, m, m.size, "cancelled")
             new == [b EXCEPT !.depths[o.side] = @ \ entry, !.logSeq = @ + 1]
  <2>1. r = [book |-> new, logs |-> <<log>>]
    BY <1>2, <1>6, Zenon DEF CancelOrder
  <2>2. m \in entry
    BY <1>6
  <2>3. /\ b = [depths |-> b.depths, logSeq |-> b.logSeq, tradeSeq |-> b.tradeSeq]
        /\ b.depths = [side \in Sides |-> b.depths[side]]
    BY DEF IsOrderBook, IsBook
  <2>4. m.id = o.id /\ m \in b.depths[o.side]
    BY <2>2 DEF EntriesOf
  <2>5. m.size \in Nat
    BY <1>1, <1>4, <2>4, RestingFacts
  <2>6. IsLog(log) /\ Ends(log, o.id)
    BY <1>1, <2>4, <2>5 DEF DoneLog, IsLog, Ends
  <2> HIDE DEF entry, log, m
  <2>7. new.depths = [b.depths EXCEPT ![o.side] = @ \ entry]
    BY <2>3
  <2> HIDE DEF new
  <2>8. /\ r.book.depths = [b.depths EXCEPT ![o.side] = @ \ entry]
        /\ r.logs = <<log>>
    BY <2>1, <2>7
  <2>9. /\ r.book.depths[o.side] = b.depths[o.side] \ entry
        /\ \A side \in Sides : side # o.side => r.book.depths[side] = b.depths[side]
    BY <1>1, <2>3, <2>8
  <2>10. \A side \in Sides : IsDepth(r.book.depths[side], side)
    <3> SUFFICES ASSUME NEW side \in Sides PROVE IsDepth(r.book.depths[side], side)
      OBVIOUS
    <3>1. r.book.depths[side] \subseteq b.depths[side]
      BY <2>9
    <3> QED
      BY <1>4, <3>1 DEF IsDepth
  <2>11. IsOrderBook(r.book)
    BY <1>3, <2>10 DEF IsOrderBook
  <2> QED
    BY <1>6, <2>6, <2>8, <2>9, <2>11 DEF r, entry
<1> QED
  BY <1>5, <1>6

-----------------------------------------------------------------------------
(* Sums along a sequence: e gives each element its number. *)

SumAlong(e, s) == SumFunctionOnSet([i \in DOMAIN s |-> e[s[i]]], DOMAIN s)

Numbers(e, s) == \A x \in Range(s) : e[x] \in Int

LEMMA AlongIsSummable ==
    ASSUME NEW s, IsSequence(s), NEW e, Numbers(e, s)
    PROVE  /\ SumAlong(e, s) = SumFunctionOnSet([i \in 1 .. Len(s) |-> e[s[i]]], 1 .. Len(s))
           /\ Summable([i \in 1 .. Len(s) |-> e[s[i]]], 1 .. Len(s))
           /\ SumAlong(e, s) \in Int
<1>1. DOMAIN s = 1 .. Len(s) /\ Len(s) \in Nat /\ \A i \in 1 .. Len(s) : s[i] \in Range(s)
  BY SequenceFacts
<1>2. IsFiniteSet(1 .. Len(s))
  BY <1>1, FS_Interval
<1> DEFINE f == [i \in 1 .. Len(s) |-> e[s[i]]]
<1>3. \A i \in 1 .. Len(s) : f[i] \in Int
  BY <1>1 DEF Numbers
<1>4. SumAlong(e, s) = SumFunctionOnSet(f, 1 .. Len(s))
  BY <1>1 DEF SumAlong
<1> HIDE DEF f
<1>5. Summable(f, 1 .. Len(s))
  BY <1>2, <1>3 DEF Summable
<1>6. SumFunctionOnSet(f, 1 .. Len(s)) \in Int
  BY <1>5, SumIsNumber
<1> QED
  BY <1>4, <1>5, <1>6 DEF f

LEMMA SumAlongNothing ==
    ASSUME NEW e
    PROVE  SumAlong(e, << >>) = 0
<1> SUFFICES ASSUME NEW s, s = << >> PROVE SumAlong(e, s) = 0
  BY Zenon
<1>1. DOMAIN s = {}
  OBVIOUS
<1>2. SumFunctionOnSet([i \in DOMAIN s |-> e[s[i]]], {}) = 0
  BY SumOfNone
<1> QED
  BY <1>1, <1>2 DEF SumAlong

LEMMA SumAlongOne ==
    ASSUME NEW e, NEW x, e[x] \in Int
    PROVE  SumAlong(e, <<x>>) = e[x]
<1>1. IsSequence(<<x>>) /\ Len(<<x>>) = 1 /\ <<x>>[1] = x
  BY OneElement
<1> DEFINE s == <<x>>
<1> HIDE DEF s
<1>2. IsSequence(s) /\ Len(s) = 1 /\ s[1] = x
  BY <1>1 DEF s
<1>3. DOMAIN s = 1 .. 1
  BY <1>2, SequenceFacts
<1> DEFINE f == [i \in 1 .. 1 |-> e[s[i]]]
<1>4. SumAlong(e, s) = SumFunctionOnSet(f, 1 .. 1)
  BY <1>3 DEF SumAlong
<1>5. f[1] = e[x] /\ IsFiniteSet(1 .. 1) /\ 1 \in 1 .. 1 /\ (1 .. 1) \ {1} = {}
  <2>1. IsFiniteSet(1 .. 1)
    <3>1. \A n \in Nat : IsFiniteSet(1 .. n)
      BY FS_Interval
    <3> QED
      BY <3>1
  <2> QED
    BY <1>2, <2>1
<1> HIDE DEF f
<1>6. SumFunctionOnSet(f, 1 .. 1) = f[1]
  BY <1>5, SumOfOne
<1> QED
  BY <1>4, <1>5, <1>6 DEF s

LEMMA SumAlongConcat ==
    ASSUME NEW s, IsSequence(s), NEW t, IsSequence(t), NEW e, Numbers(e, s), Numbers(e, t)
    PROVE  SumAlong(e, s \o t) = SumAlong(e, s) + SumAlong(e, t)
<1> DEFINE w == s \o t
           k == Len(s)
           n == Len(t)
           u == [i \in 1 .. k + n |-> e[w[i]]]
           f == [i \in 1 .. k |-> e[s[i]]]
           g == [i \in 1 .. n |-> e[t[i]]]
<1>1. /\ IsSequence(w) /\ Len(w) = k + n /\ Range(w) = Range(s) \cup Range(t)
      /\ \A i \in 1 .. k : w[i] = s[i]
      /\ \A i \in 1 .. n : w[k + i] = t[i]
  BY ConcatSequence
<1>2. k \in Nat /\ n \in Nat
  BY SequenceFacts
<1>3. Numbers(e, w)
  BY <1>1 DEF Numbers
<1> HIDE DEF w
<1>4. /\ SumAlong(e, w) = SumFunctionOnSet(u, 1 .. k + n) /\ Summable(u, 1 .. k + n)
      /\ SumAlong(e, s) = SumFunctionOnSet(f, 1 .. k) /\ Summable(f, 1 .. k)
      /\ SumAlong(e, t) = SumFunctionOnSet(g, 1 .. n) /\ Summable(g, 1 .. n)
  <2>1. SumAlong(e, w) = SumFunctionOnSet(u, 1 .. k + n) /\ Summable(u, 1 .. k + n)
    BY <1>1, <1>3, AlongIsSummable
  <2>2. SumAlong(e, s) = SumFunctionOnSet(f, 1 .. k) /\ Summable(f, 1 .. k)
    BY AlongIsSummable
  <2>3. SumAlong(e, t) = SumFunctionOnSet(g, 1 .. n) /\ Summable(g, 1 .. n)
    BY AlongIsSummable
  <2> QED
    BY <2>1, <2>2, <2>3
<1> HIDE DEF k, n
<1>5. \A i \in 1 .. n : u[k + i] = g[i]
  <2> SUFFICES ASSUME NEW i \in 1 .. n PROVE u[k + i] = g[i]
    OBVIOUS
  <2>1. k + i \in 1 .. k + n
    BY <1>2
  <2>2. w[k + i] = t[i]
    BY <1>1 DEF k, n
  <2> QED
    BY <2>1, <2>2
<1>6. \A i \in 1 .. k : u[i] = f[i]
  <2> SUFFICES ASSUME NEW i \in 1 .. k PROVE u[i] = f[i]
    OBVIOUS
  <2>1. i \in 1 .. k + n
    BY <1>2
  <2>2. w[i] = s[i]
    BY <1>1 DEF k
  <2> QED
    BY <2>1, <2>2
<1> HIDE DEF u, f, g
<1>7. SumFunctionOnSet(u, 1 .. k + n) = SumFunctionOnSet(u, 1 .. k) + SumFunctionOnSet(g, 1 .. n)
  BY <1>2, <1>4, <1>5, SumOfParts
<1>8. SumFunctionOnSet(u, 1 .. k) = SumFunctionOnSet(f, 1 .. k)
  <2>1. IsFiniteSet(1 .. k)
    BY <1>4 DEF Summable
  <2> QED
    BY <1>6, <2>1, SumSame
<1> QED
  BY <1>4, <1>7, <1>8 DEF w

\* A sequence is its first n elements and the others.
LEMMA SplitSequence ==
    ASSUME NEW s, IsSequence(s), NEW n \in 0 .. Len(s)
    PROVE  /\ s = SubSeq(s, 1, n) \o SubSeq(s, n + 1, Len(s))
           /\ IsSequence(SubSeq(s, 1, n)) /\ Range(SubSeq(s, 1, n)) \subseteq Range(s)
           /\ Len(SubSeq(s, 1, n)) = n
           /\ \A i \in 1 .. n : SubSeq(s, 1, n)[i] = s[i]
           /\ IsSequence(SubSeq(s, n + 1, Len(s)))
           /\ Range(SubSeq(s, n + 1, Len(s))) \subseteq Range(s)
           /\ Len(SubSeq(s, n + 1, Len(s))) = Len(s) - n
           /\ \A i \in 1 .. Len(s) - n : SubSeq(s, n + 1, Len(s))[i] = s[n + i]
<1> DEFINE a == SubSeq(s, 1, n)
           b == SubSeq(s, n + 1, Len(s))
<1>1. Len(s) \in Nat /\ DOMAIN s = 1 .. Len(s) /\ \A i \in 1 .. Len(s) : s[i] \in Range(s)
  BY SequenceFacts
<1>2. IsSequence(a) /\ Range(a) \subseteq Range(s) /\ Len(a) = n /\ \A i \in 1 .. n : a[i] = s[i]
  BY FirstPart
<1>3. /\ b \in Seq(Range(s)) /\ Len(b) = Len(s) - n
      /\ \A i \in 1 .. Len(s) - n : b[i] = s[n + i]
  <2> DEFINE l == Len(s)
  <2>1. n + 1 \in Int /\ l \in Int /\ \A i \in n + 1 .. l : s[i] \in Range(s)
    BY <1>1
  <2>2. /\ b \in Seq(Range(s))
        /\ Len(b) = IF n + 1 <= l THEN l - (n + 1) + 1 ELSE 0
        /\ \A i \in 1 .. l - (n + 1) + 1 : b[i] = s[n + 1 + i - 1]
    BY <2>1, SubSeqProperties
  <2> HIDE DEF b
  <2>0. n \in Int /\ l \in Int /\ 0 <= n /\ n <= l
    BY <1>1
  <2> HIDE DEF l
  <2>3. Len(b) = l - n /\ l - (n + 1) + 1 = l - n
    BY <2>0, <2>2
  <2>4. ASSUME NEW i \in 1 .. l - n PROVE b[i] = s[n + i]
    <3>1. n + 1 + i - 1 = n + i /\ i \in 1 .. l - (n + 1) + 1
      BY <2>0, <2>3
    <3> QED
      BY <2>2, <3>1
  <2> QED
    BY <2>2, <2>3, <2>4 DEF l
<1> HIDE DEF a, b
<1>4. IsSequence(b) /\ Range(b) \subseteq Range(s)
  BY <1>3, SequenceOver
<1>5. /\ IsSequence(a \o b) /\ Len(a \o b) = n + (Len(s) - n)
      /\ \A i \in 1 .. n : (a \o b)[i] = s[i]
      /\ \A i \in 1 .. Len(s) - n : (a \o b)[n + i] = s[n + i]
  <2>1. /\ IsSequence(a \o b) /\ Len(a \o b) = Len(a) + Len(b)
        /\ \A i \in 1 .. Len(a) : (a \o b)[i] = a[i]
        /\ \A i \in 1 .. Len(b) : (a \o b)[Len(a) + i] = b[i]
    <3>1. IsSequence(a) /\ IsSequence(b)
      BY <1>2, <1>4
    <3>2. IsSequence(a \o b)
      BY <3>1, ConcatSequence
    <3>3. /\ Len(a \o b) = Len(a) + Len(b)
          /\ \A i \in 1 .. Len(a) : (a \o b)[i] = a[i]
          /\ \A i \in 1 .. Len(b) : (a \o b)[Len(a) + i] = b[i]
      BY <3>1, ConcatIndices, SMTT(60)
    <3> QED
      BY <3>2, <3>3, Zenon
  <2>2. Len(a) = n /\ Len(b) = Len(s) - n
    BY <1>2, <1>3
  <2>3. /\ \A i \in 1 .. n : (a \o b)[i] = a[i]
        /\ \A i \in 1 .. Len(s) - n : (a \o b)[n + i] = b[i]
    BY <2>1, <2>2, Zenon
  <2> QED
    BY <1>2, <1>3, <2>1, <2>2, <2>3, Zenon
<1>6. Len(a \o b) = Len(s)
  <2>1. \A x, y \in Int : x + (y - x) = y
    OBVIOUS
  <2>2. n \in Int /\ Len(s) \in Int
    BY <1>1
  <2> QED
    BY <1>5, <2>1, <2>2
<1>7. ASSUME NEW i \in 1 .. Len(s) PROVE (a \o b)[i] = s[i]
  <2>1. CASE i <= n
    BY <1>5, <2>1
  <2>2. CASE ~ (i <= n)
    <3>0. Len(s) \in Int /\ n \in Int
      BY <1>1
    <3>1. i - n \in 1 .. Len(s) - n /\ n + (i - n) = i
      BY <2>2, <3>0
    <3>2. (a \o b)[n + (i - n)] = s[n + (i - n)]
      BY <1>5, <3>1
    <3> QED
      BY <3>1, <3>2
  <2> QED
    BY <2>1, <2>2
<1> DEFINE S == Range(s) \cup Range(a \o b)
<1>8. s \in Seq(S) /\ a \o b \in Seq(S)
  BY <1>5, SeqMonotonic DEF IsSequence
<1> HIDE DEF S
<1>9. s = a \o b
  BY <1>6, <1>7, <1>8, SeqEqual
<1> QED
  BY <1>2, <1>3, <1>4, <1>9 DEF a, b

LEMMA SumAlongParts ==
    ASSUME NEW s, IsSequence(s), NEW n \in 0 .. Len(s), NEW e, Numbers(e, s)
    PROVE  SumAlong(e, s) = SumAlong(e, SubSeq(s, 1, n)) + SumAlong(e, SubSeq(s, n + 1, Len(s)))
<1> DEFINE a == SubSeq(s, 1, n)
           b == SubSeq(s, n + 1, Len(s))
<1>1. /\ s = a \o b /\ IsSequence(a) /\ IsSequence(b)
      /\ Range(a) \subseteq Range(s) /\ Range(b) \subseteq Range(s)
  BY SplitSequence
<1> HIDE DEF a, b
<1>2. Numbers(e, a) /\ Numbers(e, b)
  BY <1>1 DEF Numbers
<1>3. SumAlong(e, a \o b) = SumAlong(e, a) + SumAlong(e, b)
  BY <1>1, <1>2, SumAlongConcat
<1> QED
  BY <1>1, <1>3 DEF a, b

LEMMA AppendConcat ==
    ASSUME NEW s, IsSequence(s), NEW x
    PROVE  Append(s, x) = s \o <<x>>
<1> DEFINE S == Range(s) \cup {x}
<1>1. s \in Seq(S) /\ x \in S
  BY SeqMonotonic DEF IsSequence
<1> QED
  BY <1>1, AppendIsConcat

LEMMA SumAlongAppend ==
    ASSUME NEW s, IsSequence(s), NEW x, NEW e, Numbers(e, s), e[x] \in Int
    PROVE  SumAlong(e, Append(s, x)) = SumAlong(e, s) + e[x]
<1>1. IsSequence(<<x>>) /\ Numbers(e, <<x>>)
  <2>1. IsSequence(<<x>>) /\ Len(<<x>>) = 1 /\ <<x>>[1] = x
    BY OneElement
  <2> QED
    BY <2>1 DEF Numbers, Range
<1>2. SumAlong(e, s \o <<x>>) = SumAlong(e, s) + SumAlong(e, <<x>>)
  BY <1>1, SumAlongConcat
<1>3. Append(s, x) = s \o <<x>>
  BY AppendConcat
<1> QED
  BY <1>2, <1>3, SumAlongOne

LEMMA SumAlongTail ==
    ASSUME NEW s, IsSequence(s), s # << >>, NEW e, Numbers(e, s)
    PROVE  SumAlong(e, s) = e[Head(s)] + SumAlong(e, Tail(s))
<1>1. Len(s) \in Nat /\ Len(s) > 0 /\ s \in Seq(Range(s))
  BY SequenceFacts DEF IsSequence
<1>2. 1 \in 0 .. Len(s)
  BY <1>1
<1>3. SumAlong(e, s) = SumAlong(e, SubSeq(s, 1, 1)) + SumAlong(e, SubSeq(s, 1 + 1, Len(s)))
  BY <1>2, SumAlongParts
<1>4. Tail(s) = SubSeq(s, 1 + 1, Len(s))
  BY <1>1, TailIsSubSeq
<1>5. Head(s) \in Range(s) /\ Head(s) = s[1]
  BY TailSequence
<1>6. SubSeq(s, 1, 1) = <<Head(s)>>
  <2>1. /\ IsSequence(SubSeq(s, 1, 1)) /\ Range(SubSeq(s, 1, 1)) \subseteq Range(s)
        /\ Len(SubSeq(s, 1, 1)) = 1 /\ \A i \in 1 .. 1 : SubSeq(s, 1, 1)[i] = s[i]
    BY <1>2, SplitSequence
  <2>2. SubSeq(s, 1, 1) \in Seq(Range(s))
    BY <2>1, SeqMonotonic DEF IsSequence
  <2>3. <<Head(s)>> \in Seq(Range(s)) /\ Len(<<Head(s)>>) = 1 /\ <<Head(s)>>[1] = s[1]
    BY <1>5
  <2>4. \A i \in 1 .. Len(SubSeq(s, 1, 1)) : SubSeq(s, 1, 1)[i] = <<Head(s)>>[i]
    BY <2>1, <2>3
  <2> QED
    BY <2>1, <2>2, <2>3, <2>4, SeqEqual
<1>7. e[Head(s)] \in Int
  BY <1>5 DEF Numbers
<1> QED
  BY <1>3, <1>4, <1>6, <1>7, SumAlongOne

\* The same numbers under two names.
LEMMA SumAlongSame ==
    ASSUME NEW s, IsSequence(s), NEW e, NEW f, \A x \in Range(s) : e[x] = f[x]
    PROVE  SumAlong(e, s) = SumAlong(f, s)
<1>1. DOMAIN s = 1 .. Len(s) /\ Len(s) \in Nat /\ \A i \in 1 .. Len(s) : s[i] \in Range(s)
  BY SequenceFacts
<1>2. [i \in DOMAIN s |-> e[s[i]]] = [i \in DOMAIN s |-> f[s[i]]]
  BY <1>1
<1> QED
  BY <1>2 DEF SumAlong

LEMMA SumAlongZeros ==
    ASSUME NEW s, IsSequence(s), NEW e, \A x \in Range(s) : e[x] = 0
    PROVE  SumAlong(e, s) = 0
<1>1. DOMAIN s = 1 .. Len(s) /\ Len(s) \in Nat /\ \A i \in 1 .. Len(s) : s[i] \in Range(s)
  BY SequenceFacts
<1>2. IsFiniteSet(DOMAIN s)
  BY <1>1, FS_Interval
<1> DEFINE f == [i \in DOMAIN s |-> e[s[i]]]
<1>3. \A i \in DOMAIN s : f[i] = 0
  BY <1>1
<1> HIDE DEF f
<1>4. SumFunctionOnSet(f, DOMAIN s) = 0
  BY <1>2, <1>3, SumOfZeros
<1> QED
  BY <1>4 DEF f, SumAlong

\* Two numbers at a time.
LEMMA SumOfSums ==
    ASSUME NEW S, IsFiniteSet(S), NEW t, NEW a, NEW h,
           \A x \in S : h[x] \in Int /\ a[x] \in Int /\ t[x] = a[x] + h[x]
    PROVE  SumFunctionOnSet(t, S) = SumFunctionOnSet(a, S) + SumFunctionOnSet(h, S)
<1> DEFINE Good == {T \in SUBSET S : SumFunctionOnSet(t, T) =
                                     SumFunctionOnSet(a, T) + SumFunctionOnSet(h, T)}
<1>1. {} \in Good
  <2>1. SumFunctionOnSet(t, {}) = 0 /\ SumFunctionOnSet(a, {}) = 0 /\ SumFunctionOnSet(h, {}) = 0
    BY SumOfNone
  <2> QED
    BY <2>1
<1>2. ASSUME NEW T \in SUBSET S, T # {}, \A x \in T : T \ {x} \in Good
      PROVE  T \in Good
  <2>1. PICK x \in T : TRUE
    BY <1>2
  <2>2. IsFiniteSet(T)
    BY FS_Subset
  <2>3. Summable(t, T) /\ Summable(a, T) /\ Summable(h, T)
    BY <2>2 DEF Summable
  <2>4. /\ SumFunctionOnSet(t, T) = t[x] + SumFunctionOnSet(t, T \ {x})
        /\ SumFunctionOnSet(a, T) = a[x] + SumFunctionOnSet(a, T \ {x})
        /\ SumFunctionOnSet(h, T) = h[x] + SumFunctionOnSet(h, T \ {x})
    BY <2>3, SumTakesOut
  <2>5. SumFunctionOnSet(a, T \ {x}) \in Int /\ SumFunctionOnSet(h, T \ {x}) \in Int
    BY <2>3, PartIsSummable, SumIsNumber
  <2>6. SumFunctionOnSet(t, T \ {x}) =
           SumFunctionOnSet(a, T \ {x}) + SumFunctionOnSet(h, T \ {x})
    BY <1>2
  <2>7. t[x] = a[x] + h[x] /\ a[x] \in Int /\ h[x] \in Int
    OBVIOUS
  <2> QED
    BY <2>4, <2>5, <2>6, <2>7
<1> HIDE DEF Good
<1>3. S \in Good
  BY <1>1, <1>2, SetInduction
<1> QED
  BY <1>3 DEF Good

-----------------------------------------------------------------------------
(* The loop of a call, one turn at a time: what is left to do after a turn  *)
(* is what was left before, but for the trade of that turn.                 *)

\* What the taker asks of a maker, and what it is charged for a trade.
Asked(t, f) == IF BuysByFunds(t) THEN t.funds \div f.price ELSE t.size

Charged(t, f, z) == IF BuysByFunds(t) THEN [t EXCEPT !.funds = @ - z * f.price]
                                      ELSE [t EXCEPT !.size = @ - z]

\* The book and the logs of a trade of z units with f.
Traded(b, t, f, z) ==
    [depths   |-> [b.depths EXCEPT ![Opposite(t.side)] = DecrSize(@, f, z)],
     logSeq   |-> b.logSeq + (IF z = f.size THEN 2 ELSE 1),
     tradeSeq |-> b.tradeSeq + 1]

TurnLogs(b, t, f, z) ==
    LET match == MatchLog(b.logSeq + 1, b.tradeSeq + 1, t, f, z)
    IN  IF z = f.size
        THEN <<match, DoneLog(b.logSeq + 2, [f EXCEPT !.size = 0], 0, "filled")>>
        ELSE <<match>>

\* The loop meets the first maker f, and they trade z units.
Turn(b, t, f, z) ==
    /\ IsOrderBook(b) /\ IsTaker(t)
    /\ f \in b.depths[Opposite(t.side)]
    /\ \A n \in b.depths[Opposite(t.side)] \ {f} : Precedes(f, n)
    /\ Crosses(t, f)
    /\ BuysByFunds(t) => f.price # 0
    /\ Asked(t, f) > 0
    /\ z = Min({Asked(t, f), f.size})

\* Nobody stands ahead of the first of a line.
LEMMA NothingAhead == Volume({}) = 0 /\ Cost({}) = 0
<1>1. \A f : SumFunction([m \in {} |-> f[m]]) = 0
  BY FS_EmptySet, SumOverPart, SumOfNone
<1>2. SumFunction([m \in {} |-> [n \in {} |-> n.size][m]]) = 0
  BY <1>1
<1>3. [m \in {} |-> [n \in {} |-> n.size][m]] = [m \in {} |-> m.size]
  OBVIOUS
<1>4. SumFunction([m \in {} |-> [n \in {} |-> n.size * n.price][m]]) = 0
  BY <1>1
<1>5. [m \in {} |-> [n \in {} |-> n.size * n.price][m]] = [m \in {} |-> m.size * m.price]
  OBVIOUS
<1> QED
  BY <1>2, <1>3, <1>4, <1>5 DEF Volume, Cost

\* The numbers of a turn.
LEMMA TurnNumbers ==
    ASSUME NEW b, NEW t, NEW f, NEW z, Turn(b, t, f, z)
    PROVE  /\ Opposite(t.side) \in Sides /\ Opposite(t.side) # t.side
           /\ f \in RestingOrders
           /\ f.size \in Nat /\ f.size > 0 /\ f.price \in Nat
           /\ Asked(t, f) \in Nat /\ t.size \in Nat /\ t.funds \in Nat
           /\ z \in Nat /\ z > 0 /\ z <= f.size /\ z <= Asked(t, f)
           /\ z = Asked(t, f) \/ z = f.size
           /\ z * f.price \in Nat
           /\ BuysByFunds(t) => z * f.price <= t.funds /\ f.price > 0
           /\ ~ BuysByFunds(t) => z <= t.size
<1>1. Opposite(t.side) \in Sides /\ Opposite(t.side) # t.side
  BY OppositeSide DEF Turn, IsTaker
<1>2. IsDepth(b.depths[Opposite(t.side)], Opposite(t.side))
  BY <1>1 DEF Turn, IsOrderBook
<1>3. f.size \in Nat /\ f.size > 0 /\ f.price \in Nat
  BY <1>2, RestingFacts DEF Turn
<1>4. f \in RestingOrders
  BY <1>2 DEF Turn, IsDepth
<1>5. t.size \in Nat /\ t.funds \in Nat
  BY DEF Turn, IsTaker
<1>6. BuysByFunds(t) => f.price > 0
  BY <1>3 DEF Turn
<1>7. Asked(t, f) \in Nat
  <2>1. Asked(t, f) \in Int
    BY <1>3, <1>5, <1>6 DEF Asked
  <2> QED
    BY <2>1 DEF Turn
<1>8. z \in {Asked(t, f), f.size} /\ z <= Asked(t, f) /\ z <= f.size
  BY <1>3, <1>7, LeastOfTwo DEF Turn
<1>9. z \in Nat /\ z > 0
  BY <1>3, <1>7, <1>8 DEF Turn
<1>10. BuysByFunds(t) => z * f.price <= t.funds
  BY <1>3, <1>5, <1>6, <1>8, <1>9, SpendsWithinFunds DEF Asked
<1>11. z * f.price \in Nat
  BY <1>3, <1>9
<1>12. ~ BuysByFunds(t) => z <= t.size
  BY <1>8 DEF Asked
<1> QED
  BY <1>1, <1>3, <1>4, <1>5, <1>6, <1>7, <1>8, <1>9, <1>10, <1>11, <1>12

\* A call gives the first maker what the turn gives it.
LEMMA TurnTakes ==
    ASSUME NEW b, NEW t, NEW f, NEW z, Turn(b, t, f, z)
    PROVE  /\ f \in Makers(b, t)
           /\ Ahead(Makers(b, t), f) = {}
           /\ \A n \in Makers(b, t) \ {f} : Precedes(f, n)
           /\ Takes(b, t)[f] = z
           /\ f \in Hit(b, t)
           /\ f \in Emptied(b, t) <=> z = f.size
<1> DEFINE S == Makers(b, t)
           side == Opposite(t.side)
<1>1. f \in S /\ S \subseteq b.depths[side]
  BY DEF Turn, Makers
<1>2. \A n \in S \ {f} : Precedes(f, n)
  BY <1>1 DEF Turn
<1>3. IsDepth(S, side) /\ side \in Sides
  BY TakerMeetsMakers, TurnNumbers DEF Turn, IsLine
<1>4. Ahead(S, f) = {}
  BY <1>1, <1>2, <1>3, PriorityIsOrder DEF Ahead
<1>5. Take(t, S, f) = z
  <2>1. /\ f.size \in Nat /\ f.size > 0 /\ Asked(t, f) \in Nat
        /\ z <= f.size /\ z <= Asked(t, f)
        /\ z = Asked(t, f) \/ z = f.size
        /\ t.size \in Nat /\ t.funds \in Nat
    BY TurnNumbers
  <2>2. CASE ~ BuysByFunds(t)
    <3>1. Take(t, S, f) = Clip(t.size - 0, f.size)
      BY <1>4, <2>2, NothingAhead DEF Take
    <3> QED
      BY <2>1, <2>2, <3>1 DEF Clip, Asked
  <2>3. CASE BuysByFunds(t)
    <3>1. Take(t, S, f) = Clip((t.funds - 0) \div f.price, f.size)
      BY <1>4, <2>3, NothingAhead DEF Take, Turn
    <3>2. t.funds - 0 = t.funds
      BY <2>1
    <3>3. Take(t, S, f) = Clip(Asked(t, f), f.size)
      BY <2>3, <3>1, <3>2 DEF Asked
    <3> QED
      BY <2>1, <3>3 DEF Clip
  <2> QED
    BY <2>2, <2>3
<1>6. Takes(b, t)[f] = z
  BY <1>1, <1>5 DEF Takes
<1>7. f \in Hit(b, t)
  BY <1>1, <1>6, TurnNumbers DEF Hit
<1>8. f \in Emptied(b, t) <=> z = f.size
  BY <1>1, <1>6 DEF Emptied
<1> QED
  BY <1>1, <1>2, <1>4, <1>6, <1>7, <1>8

\* A turn leaves a book and a taker.
LEMMA TurnKeeps ==
    ASSUME NEW b, NEW t, NEW f, NEW z, Turn(b, t, f, z)
    PROVE  LET c == Traded(b, t, f, z)
               u == Charged(t, f, z)
           IN  /\ IsOrderBook(c) /\ IsTaker(u)
               /\ u.id = t.id /\ u.side = t.side /\ u.type = t.type /\ u.price = t.price
               /\ BuysByFunds(u) <=> BuysByFunds(t)
               /\ u.funds = IF BuysByFunds(t) THEN t.funds - z * f.price ELSE t.funds
               /\ u.size = IF BuysByFunds(t) THEN t.size ELSE t.size - z
               /\ c.depths[t.side] = b.depths[t.side]
               /\ c.depths[Opposite(t.side)] = DecrSize(b.depths[Opposite(t.side)], f, z)
               /\ c.logSeq = b.logSeq + (IF z = f.size THEN 2 ELSE 1)
               /\ c.tradeSeq = b.tradeSeq + 1
<1> DEFINE c == Traded(b, t, f, z)
           u == Charged(t, f, z)
           side == Opposite(t.side)
           D == b.depths[side]
<1>1. /\ side \in Sides /\ side # t.side /\ t.side \in Sides
      /\ f \in RestingOrders /\ f \in D
      /\ f.size \in Nat /\ z \in Nat /\ z <= f.size /\ z * f.price \in Nat
      /\ BuysByFunds(t) => z * f.price <= t.funds
      /\ ~ BuysByFunds(t) => z <= t.size
  BY TurnNumbers DEF Turn, IsTaker
<1>2. /\ t = [id |-> t.id, side |-> t.side, type |-> t.type, size |-> t.size,
              price |-> t.price, funds |-> t.funds]
      /\ t.size \in Nat /\ t.funds \in Nat
  BY DEF Turn, IsTaker
<1>3. u = [id |-> t.id, side |-> t.side, type |-> t.type,
           size |-> IF BuysByFunds(t) THEN t.size ELSE t.size - z,
           price |-> t.price,
           funds |-> IF BuysByFunds(t) THEN t.funds - z * f.price ELSE t.funds]
  BY <1>2 DEF Charged
<1>4. /\ u.id = t.id /\ u.side = t.side /\ u.type = t.type /\ u.price = t.price
      /\ u.funds = IF BuysByFunds(t) THEN t.funds - z * f.price ELSE t.funds
      /\ u.size = IF BuysByFunds(t) THEN t.size ELSE t.size - z
  BY <1>3
<1>5. u.funds \in Nat /\ u.size \in Nat
  BY <1>1, <1>2, <1>4
<1>6. u = [id |-> u.id, side |-> u.side, type |-> u.type, size |-> u.size,
           price |-> u.price, funds |-> u.funds]
  BY <1>3
<1>7. IsTaker(u)
  BY <1>4, <1>5, <1>6 DEF IsTaker, Turn
<1>8. BuysByFunds(u) <=> BuysByFunds(t)
  BY <1>4 DEF BuysByFunds
<1>9. b.depths = [s \in Sides |-> b.depths[s]] /\ \A s \in Sides : IsFiniteSet(b.depths[s])
  BY DEF Turn, IsOrderBook, IsBook
<1>10. IsDepth(D, side)
  BY <1>1 DEF Turn, IsOrderBook
<1>11. /\ c.depths = [b.depths EXCEPT ![side] = DecrSize(D, f, z)]
       /\ c.logSeq = b.logSeq + (IF z = f.size THEN 2 ELSE 1)
       /\ c.tradeSeq = b.tradeSeq + 1
       /\ c = [depths |-> c.depths, logSeq |-> c.logSeq, tradeSeq |-> c.tradeSeq]
  BY DEF Traded
<1>12. /\ c.depths[side] = DecrSize(D, f, z)
       /\ \A s \in Sides : s # side => c.depths[s] = b.depths[s]
       /\ c.depths = [s \in Sides |-> c.depths[s]]
  BY <1>1, <1>9, <1>11
<1>13. IsDepth(DecrSize(D, f, z), side)
  <2>1. CASE z = f.size
    BY <1>10, <2>1 DEF DecrSize, IsDepth
  <2>2. CASE z # f.size
    <3> DEFINE g == [f EXCEPT !.size = @ - z]
    <3>1. z < f.size
      BY <1>1, <2>2
    <3>2. g \in RestingOrders /\ g.id = f.id /\ g.side = f.side
      BY <1>1, <3>1, ReducedOrder
    <3>3. DecrSize(D, f, z) = (D \ {f}) \cup {g}
      BY <2>2 DEF DecrSize
    <3> HIDE DEF g
    <3> QED
      BY <1>1, <1>10, <3>2, <3>3 DEF IsDepth
  <2> QED
    BY <2>1, <2>2
<1>14. IsFiniteSet(DecrSize(D, f, z))
  <2>1. IsFiniteSet(D)
    BY <1>1, <1>9
  <2>2. IsFiniteSet(D \ {f})
    BY <2>1, FS_Subset
  <2>3. IsFiniteSet((D \ {f}) \cup {[f EXCEPT !.size = @ - z]})
    BY <2>2, FS_AddElement
  <2> QED
    BY <2>2, <2>3 DEF DecrSize
<1>15. b.logSeq \in Nat /\ b.tradeSeq \in Nat
  BY DEF Turn, IsOrderBook, IsBook
<1>16. IsBook(c)
  BY <1>1, <1>9, <1>11, <1>12, <1>14, <1>15 DEF IsBook
<1>17. \A s \in Sides : IsDepth(c.depths[s], s)
  BY <1>12, <1>13 DEF Turn, IsOrderBook
<1> HIDE DEF c, u
<1>18. IsOrderBook(c)
  BY <1>16, <1>17 DEF IsOrderBook
<1> QED
  BY <1>1, <1>4, <1>7, <1>8, <1>11, <1>12, <1>18 DEF c, u, side

\* A maker is bought out: the others stand as far from the front as before,
\* for a taker that has that much less.
LEMMA TurnEmpties ==
    ASSUME NEW b, NEW t, NEW f, NEW z, Turn(b, t, f, z), z = f.size
    PROVE  LET c == Traded(b, t, f, z)
               u == Charged(t, f, z)
           IN  /\ Makers(c, u) = Makers(b, t) \ {f}
               /\ \A m \in Makers(c, u) : Takes(c, u)[m] = Takes(b, t)[m]
               /\ Hit(c, u) = Hit(b, t) \ {f}
               /\ Emptied(c, u) = Emptied(b, t) \ {f}
               /\ Left(c, u) = Left(b, t)
<1> DEFINE c == Traded(b, t, f, z)
           u == Charged(t, f, z)
           S == Makers(b, t)
           T == S \ {f}
           side == Opposite(t.side)
           D == b.depths[side]
<1>1. /\ IsOrderBook(b) /\ IsTaker(t) /\ IsOrderBook(c) /\ IsTaker(u)
      /\ u.id = t.id /\ u.side = t.side /\ u.type = t.type /\ u.price = t.price
      /\ BuysByFunds(u) <=> BuysByFunds(t)
      /\ u.funds = IF BuysByFunds(t) THEN t.funds - z * f.price ELSE t.funds
      /\ u.size = IF BuysByFunds(t) THEN t.size ELSE t.size - z
      /\ c.depths[side] = D \ {f}
  <2>1. DecrSize(D, f, z) = D \ {f}
    BY DEF DecrSize
  <2>2. IsOrderBook(b) /\ IsTaker(t)
    BY DEF Turn
  <2>3. /\ IsOrderBook(c) /\ IsTaker(u)
        /\ u.id = t.id /\ u.side = t.side /\ u.type = t.type /\ u.price = t.price
        /\ BuysByFunds(u) <=> BuysByFunds(t)
        /\ u.funds = IF BuysByFunds(t) THEN t.funds - z * f.price ELSE t.funds
        /\ u.size = IF BuysByFunds(t) THEN t.size ELSE t.size - z
        /\ c.depths[side] = DecrSize(D, f, z)
    BY TurnKeeps
  <2> QED
    BY <2>1, <2>2, <2>3
<1>2. /\ f \in S /\ Ahead(S, f) = {} /\ \A n \in S \ {f} : Precedes(f, n)
      /\ Takes(b, t)[f] = z /\ f \in Hit(b, t) /\ f \in Emptied(b, t)
  BY TurnTakes
<1>3. /\ side \in Sides /\ f.size \in Nat /\ f.price \in Nat /\ z * f.price \in Nat
      /\ t.size \in Nat /\ t.funds \in Nat /\ z \in Nat
      /\ BuysByFunds(t) => z * f.price <= t.funds /\ f.price > 0
      /\ ~ BuysByFunds(t) => z <= t.size
  BY TurnNumbers
<1> HIDE DEF c, u
<1>4. Makers(c, u) = T
  <2>1. \A m : Crosses(u, m) <=> Crosses(t, m)
    BY <1>1 DEF Crosses
  <2> QED
    BY <1>1, <2>1 DEF Makers
<1>5. /\ IsLine(S, side) /\ IsDepth(S, side)
      /\ \A m \in S : /\ Takes(b, t)[m] = Take(t, S, m)
                      /\ Takes(b, t)[m] \in Nat /\ Takes(b, t)[m] * m.price \in Nat
                      /\ m.price \in Nat
  BY <1>1, TakerMeetsMakers, RestingFacts DEF IsLine
<1>6. ASSUME NEW m \in T
      PROVE  Take(u, T, m) = Take(t, S, m)
  <2>1. Ahead(S, m) = Ahead(T, m) \cup {f} /\ f \notin Ahead(T, m)
    BY <1>2 DEF Ahead
  <2>2. Ahead(S, m) \in SUBSET S /\ f \in Ahead(S, m) /\ Ahead(S, m) \ {f} = Ahead(T, m)
    BY <2>1 DEF Ahead
  <2>3. /\ Volume(Ahead(S, m)) = Volume(Ahead(T, m)) + f.size
        /\ Cost(Ahead(S, m)) = Cost(Ahead(T, m)) + f.size * f.price
    <3>1. Volume(Ahead(S, m)) = Volume(Ahead(S, m) \ {f}) + f.size
      BY <1>5, <2>2, VolumeFacts
    <3>2. Cost(Ahead(S, m)) = Cost(Ahead(S, m) \ {f}) + f.size * f.price
      BY <1>5, <2>2, CostFacts
    <3> QED
      BY <2>2, <3>1, <3>2
  <2>4. Volume(Ahead(T, m)) \in Nat /\ Cost(Ahead(T, m)) \in Nat
    <3>1. Ahead(T, m) \in SUBSET S
      BY DEF Ahead
    <3> QED
      BY <1>5, <3>1, VolumeFacts, CostFacts
  <2> DEFINE v == Volume(Ahead(T, m))
             k == Cost(Ahead(T, m))
  <2> HIDE DEF v, k
  <2>5. CASE ~ BuysByFunds(t)
    <3>1. t.size - (v + f.size) = u.size - v
      BY <1>1, <1>3, <2>4, <2>5 DEF v
    <3>2. Take(t, S, m) = Clip(t.size - (v + f.size), m.size)
      BY <2>3, <2>5 DEF Take, v
    <3>3. Take(u, T, m) = Clip(u.size - v, m.size)
      BY <1>1, <2>5 DEF Take, v
    <3> QED
      BY <3>1, <3>2, <3>3
  <2>6. CASE BuysByFunds(t)
    <3>1. t.funds - (k + f.size * f.price) = u.funds - k
      <4>1. z * f.price = f.size * f.price
        OBVIOUS
      <4>2. u.funds = t.funds - f.size * f.price /\ f.size * f.price \in Nat
        BY <1>1, <1>3, <2>6, <4>1
      <4> QED
        BY <1>3, <2>4, <4>2 DEF k
    <3>2. Take(t, S, m) = IF m.price = 0 THEN m.size
                          ELSE Clip((t.funds - (k + f.size * f.price)) \div m.price, m.size)
      BY <2>3, <2>6 DEF Take, k
    <3>3. Take(u, T, m) = IF m.price = 0 THEN m.size
                          ELSE Clip((u.funds - k) \div m.price, m.size)
      BY <1>1, <2>6 DEF Take, k
    <3> QED
      BY <3>1, <3>2, <3>3
  <2> QED
    BY <2>5, <2>6
<1>7. \A m \in T : Takes(c, u)[m] = Takes(b, t)[m]
  BY <1>4, <1>5, <1>6 DEF Takes
<1>8. Hit(c, u) = Hit(b, t) \ {f} /\ Emptied(c, u) = Emptied(b, t) \ {f}
  BY <1>4, <1>7 DEF Hit, Emptied
<1>9. Left(c, u) = Left(b, t)
  <2> DEFINE hit == Hit(b, t)
             H == hit \ {f}
             take == Takes(b, t)
             pay == [m \in S |-> take[m] * m.price]
  <2>1. IsFiniteSet(hit) /\ hit \subseteq S
    BY <1>5, FS_Subset DEF Hit, IsLine
  <2>2. Summable(take, hit) /\ Summable(pay, hit)
    BY <1>5, <2>1 DEF Summable
  <2>3. /\ SumFunctionOnSet(take, hit) = take[f] + SumFunctionOnSet(take, H)
        /\ SumFunctionOnSet(pay, hit) = pay[f] + SumFunctionOnSet(pay, H)
    BY <1>2, <2>2, SumTakesOut
  <2>4. TakenBy(b, t) = z + SumFunctionOnSet(take, H)
    BY <1>2, <2>3 DEF TakenBy
  <2>5. PaidBy(b, t) = z * f.price + SumFunctionOnSet(pay, H)
    <3>1. pay[f] = z * f.price
      BY <1>2
    <3> QED
      BY <2>3, <3>1 DEF PaidBy
  <2>6. IsFiniteSet(H) /\ H \subseteq T
    BY <2>1, FS_Subset
  <2>7. TakenBy(c, u) = SumFunctionOnSet(take, H)
    BY <1>7, <1>8, <2>6, SumSame DEF TakenBy
  <2>8. PaidBy(c, u) = SumFunctionOnSet(pay, H)
    <3> DEFINE q == [m \in T |-> Takes(c, u)[m] * m.price]
    <3>1. \A m \in H : q[m] = pay[m]
      BY <1>7, <2>6
    <3>2. SumFunctionOnSet(q, H) = SumFunctionOnSet(pay, H)
      BY <2>6, <3>1, SumSame
    <3> QED
      BY <1>4, <1>8, <3>2 DEF PaidBy
  <2> DEFINE r == SumFunctionOnSet(take, H)
             s == SumFunctionOnSet(pay, H)
  <2>9. r \in Nat /\ s \in Nat
    BY <1>1, <2>7, <2>8, LeftFacts
  <2> HIDE DEF r, s
  <2>10. /\ Left(b, t).id = t.id /\ Left(b, t).side = t.side /\ Left(b, t).type = t.type
         /\ Left(b, t).price = t.price /\ IsTaker(Left(b, t))
         /\ Left(b, t).funds = IF BuysByFunds(t) THEN t.funds - (z * f.price + s) ELSE t.funds
         /\ Left(b, t).size = IF BuysByFunds(t) THEN t.size ELSE t.size - (z + r)
    BY <1>1, <2>4, <2>5, LeftIsTaker DEF r, s
  <2>11. /\ Left(c, u).id = t.id /\ Left(c, u).side = t.side /\ Left(c, u).type = t.type
         /\ Left(c, u).price = t.price /\ IsTaker(Left(c, u))
         /\ Left(c, u).funds = IF BuysByFunds(t) THEN u.funds - s ELSE u.funds
         /\ Left(c, u).size = IF BuysByFunds(t) THEN u.size ELSE u.size - r
    BY <1>1, <2>7, <2>8, LeftIsTaker DEF r, s
  <2>12. /\ BuysByFunds(t) => t.funds - (z * f.price + s) = u.funds - s
         /\ ~ BuysByFunds(t) => t.size - (z + r) = u.size - r
    BY <1>1, <1>3, <2>9
  <2>13. Left(c, u).funds = Left(b, t).funds /\ Left(c, u).size = Left(b, t).size
    BY <1>1, <2>10, <2>11, <2>12
  <2> QED
    BY <2>10, <2>11, <2>13 DEF IsTaker
<1> QED
  BY <1>4, <1>7, <1>8, <1>9 DEF c, u

\* A maker is not bought out: there is nothing left for the others.
LEMMA TurnExhausts ==
    ASSUME NEW b, NEW t, NEW f, NEW z, Turn(b, t, f, z), z # f.size
    PROVE  LET c == Traded(b, t, f, z)
               u == Charged(t, f, z)
           IN  /\ Hit(b, t) = {f} /\ Emptied(b, t) = {}
               /\ Hit(c, u) = {} /\ Emptied(c, u) = {}
               /\ Left(b, t) = u /\ Left(c, u) = u
<1> DEFINE c == Traded(b, t, f, z)
           u == Charged(t, f, z)
           S == Makers(b, t)
           side == Opposite(t.side)
           D == b.depths[side]
           g == [f EXCEPT !.size = @ - z]
<1>1. /\ IsOrderBook(b) /\ IsTaker(t) /\ IsOrderBook(c) /\ IsTaker(u)
      /\ u.id = t.id /\ u.side = t.side /\ u.type = t.type /\ u.price = t.price
      /\ BuysByFunds(u) <=> BuysByFunds(t)
      /\ u.funds = IF BuysByFunds(t) THEN t.funds - z * f.price ELSE t.funds
      /\ u.size = IF BuysByFunds(t) THEN t.size ELSE t.size - z
      /\ c.depths[side] = (D \ {f}) \cup {g}
  <2>1. DecrSize(D, f, z) = (D \ {f}) \cup {g}
    BY DEF DecrSize
  <2>2. IsOrderBook(b) /\ IsTaker(t)
    BY DEF Turn
  <2>3. /\ IsOrderBook(c) /\ IsTaker(u)
        /\ u.id = t.id /\ u.side = t.side /\ u.type = t.type /\ u.price = t.price
        /\ BuysByFunds(u) <=> BuysByFunds(t)
        /\ u.funds = IF BuysByFunds(t) THEN t.funds - z * f.price ELSE t.funds
        /\ u.size = IF BuysByFunds(t) THEN t.size ELSE t.size - z
        /\ c.depths[side] = DecrSize(D, f, z)
    BY TurnKeeps
  <2> QED
    BY <2>1, <2>2, <2>3
<1>2. /\ f \in S /\ Ahead(S, f) = {} /\ \A n \in S \ {f} : Precedes(f, n)
      /\ Takes(b, t)[f] = z /\ f \in Hit(b, t) /\ f \notin Emptied(b, t)
  BY TurnTakes
<1>3. /\ side \in Sides /\ f \in RestingOrders
      /\ f.size \in Nat /\ f.price \in Nat /\ z * f.price \in Nat
      /\ t.size \in Nat /\ t.funds \in Nat /\ z \in Nat /\ z < f.size
      /\ BuysByFunds(t) => z * f.price <= t.funds /\ f.price > 0
      /\ ~ BuysByFunds(t) => z <= t.size
      /\ z = Asked(t, f) /\ f.side = side
  <2>1. f.side = side
    BY TurnNumbers DEF Turn, IsOrderBook, IsDepth
  <2> QED
    BY <2>1, TurnNumbers
<1>4. g.price = f.price /\ g.side = f.side
  BY <1>3, ReducedOrder
<1> HIDE DEF c, u, g
<1>5. /\ IsLine(S, side) /\ IsDepth(S, side) /\ Meets(t, side) /\ S \subseteq D
      /\ Hit(b, t) \subseteq S /\ Emptied(b, t) \subseteq Hit(b, t)
      /\ \A m \in S : Takes(b, t)[m] = Take(t, S, m)
  BY <1>1, TakerMeetsMakers DEF IsLine
<1>6. Hit(b, t) = {f} /\ Emptied(b, t) = {}
  <2>1. ASSUME NEW m \in Hit(b, t), m # f
        PROVE  FALSE
    <3>1. m \in S /\ Take(t, S, m) > 0
      BY <1>5 DEF Hit
    <3>2. Take(t, S, f) = f.size
      BY <1>2, <1>3, <1>5, <2>1, <3>1, AheadBoughtOut
    <3> QED
      BY <1>2, <1>3, <1>5, <3>2
  <2> QED
    BY <1>2, <1>5, <2>1
\* What is left of the funds is below the price of the maker.
<1>7. BuysByFunds(t) => u.funds < f.price /\ u.funds \in Nat
  <2> SUFFICES ASSUME BuysByFunds(t) PROVE u.funds < f.price /\ u.funds \in Nat
    OBVIOUS
  <2>1. z = t.funds \div f.price
    BY <1>3 DEF Asked
  <2>2. \A a \in Nat, p \in Nat : p > 0 => a - (a \div p) * p < p
    OBVIOUS
  <2>3. t.funds - z * f.price < f.price
    BY <1>3, <2>1, <2>2
  <2> QED
    BY <1>1, <1>3, <2>3
<1>8. ~ BuysByFunds(t) => u.size = 0
  BY <1>1, <1>3 DEF Asked
<1>9. /\ IsLine(Makers(c, u), side) /\ IsDepth(Makers(c, u), side)
      /\ Makers(c, u) \subseteq c.depths[side]
      /\ Emptied(c, u) \subseteq Hit(c, u) /\ Hit(c, u) \subseteq Makers(c, u)
      /\ \A m \in Makers(c, u) : Takes(c, u)[m] = Take(u, Makers(c, u), m)
  BY <1>1, TakerMeetsMakers DEF IsLine
<1>10. \A m \in Makers(c, u) : Take(u, Makers(c, u), m) = 0
  <2> SUFFICES ASSUME NEW m \in Makers(c, u)
               PROVE  Take(u, Makers(c, u), m) = 0
    OBVIOUS
  <2> DEFINE a == Ahead(Makers(c, u), m)
  <2>1. a \in SUBSET Makers(c, u)
    BY DEF Ahead
  <2>2. Volume(a) \in Nat /\ Cost(a) \in Nat
    BY <1>3, <1>9, <2>1, VolumeFacts, CostFacts
  <2>3. m.size \in Nat /\ m.size > 0 /\ m.price \in Nat
    BY <1>9, RestingFacts
  <2>4. CASE ~ BuysByFunds(t)
    <3>1. Take(u, Makers(c, u), m) = Clip(0 - Volume(a), m.size)
      BY <1>1, <1>8, <2>4 DEF Take
    <3> QED
      BY <2>2, <2>3, <3>1 DEF Clip
  <2>5. CASE BuysByFunds(t)
    <3>1. side = "sell"
      BY <1>5, <2>5 DEF Meets
    <3>2. m.price >= f.price
      <4>1. m \in D \ {f} \/ m = g
        BY <1>1, <1>9
      <4>2. CASE m = g
        BY <1>3, <1>4, <4>2
      <4>3. CASE m \in D \ {f}
        <5>1. Precedes(f, m)
          BY <4>3 DEF Turn
        <5> QED
          BY <1>3, <2>3, <3>1, <5>1 DEF Precedes
      <4> QED
        BY <4>1, <4>2, <4>3
    <3> DEFINE x == u.funds - Cost(a)
               q == x \div m.price
    <3>3. Take(u, Makers(c, u), m) = Clip(q, m.size)
      BY <1>1, <1>3, <2>3, <2>5, <3>2 DEF Take
    <3>4. x \in Int /\ x < m.price /\ m.price # 0
      BY <1>3, <1>7, <2>2, <2>3, <2>5, <3>2
    <3> HIDE DEF x
    <3>5. q \in Int /\ q * m.price <= x
      BY <2>3, <3>4, UnitsForFunds
    <3> HIDE DEF q
    <3>6. \A i \in Int, p \in Nat : i > 0 => i * p >= p
      OBVIOUS
    <3>7. ~ (q > 0)
      <4> SUFFICES ASSUME q > 0 PROVE FALSE
        OBVIOUS
      <4>1. q * m.price >= m.price /\ q * m.price \in Int
        BY <2>3, <3>5, <3>6
      <4> QED
        BY <2>3, <3>4, <3>5, <4>1
    <3> QED
      BY <2>3, <3>3, <3>5, <3>7 DEF Clip
  <2> QED
    BY <2>4, <2>5
<1>11. Hit(c, u) = {} /\ Emptied(c, u) = {}
  BY <1>9, <1>10 DEF Hit
<1>12. Left(c, u) = u
  <2>1. TakenBy(c, u) = 0 /\ PaidBy(c, u) = 0
    BY <1>11, SumOfNone DEF TakenBy, PaidBy
  <2>2. /\ Left(c, u).id = u.id /\ Left(c, u).side = u.side /\ Left(c, u).type = u.type
        /\ Left(c, u).price = u.price /\ IsTaker(Left(c, u))
        /\ Left(c, u).funds = IF BuysByFunds(u) THEN u.funds - 0 ELSE u.funds
        /\ Left(c, u).size = IF BuysByFunds(u) THEN u.size ELSE u.size - 0
    BY <1>1, <2>1, LeftIsTaker
  <2>3. u.funds - 0 = u.funds /\ u.size - 0 = u.size
    BY <1>1 DEF IsTaker
  <2> QED
    BY <1>1, <2>2, <2>3 DEF IsTaker
<1>13. Left(b, t) = u
  <2>1. TakenBy(b, t) = z /\ PaidBy(b, t) = z * f.price
    <3> DEFINE take == Takes(b, t)
               pay == [m \in S |-> take[m] * m.price]
    <3>1. take[f] = z /\ pay[f] = z * f.price
      BY <1>2
    <3>2. IsFiniteSet({f})
      BY FS_Singleton
    <3>3. SumFunctionOnSet(take, {f}) = take[f]
      BY <1>3, <3>1, <3>2, SumOfOne
    <3>4. SumFunctionOnSet(pay, {f}) = pay[f]
      <4> HIDE DEF pay
      <4> QED
        BY <1>3, <3>1, <3>2, SumOfOne
    <3> QED
      BY <1>6, <3>1, <3>3, <3>4 DEF TakenBy, PaidBy
  <2>2. /\ Left(b, t).id = t.id /\ Left(b, t).side = t.side /\ Left(b, t).type = t.type
        /\ Left(b, t).price = t.price /\ IsTaker(Left(b, t))
        /\ Left(b, t).funds = IF BuysByFunds(t) THEN t.funds - z * f.price ELSE t.funds
        /\ Left(b, t).size = IF BuysByFunds(t) THEN t.size ELSE t.size - z
    BY <1>1, <2>1, LeftIsTaker
  <2> QED
    BY <1>1, <2>2 DEF IsTaker
<1> QED
  BY <1>6, <1>11, <1>12, <1>13 DEF c, u

\* The numbers of a whole call.
LEMMA CompleteNumbers ==
    ASSUME NEW b, NEW t
    PROVE  LET n == Cardinality(Hit(b, t))
               e == Cardinality(Emptied(b, t))
           IN  /\ Complete(b, t).book.logSeq = b.logSeq + (n + e + 1)
               /\ Complete(b, t).book.tradeSeq = b.tradeSeq + n
BY DEF Complete

\* Two calls that leave the same on both sides, and the same numbers, leave
\* the same book.
LEMMA SameBook ==
    ASSUME NEW b, IsBook(b), NEW c, IsBook(c), NEW side \in Sides,
           b.depths[side] = c.depths[side],
           b.depths[Opposite(side)] = c.depths[Opposite(side)],
           b.logSeq = c.logSeq, b.tradeSeq = c.tradeSeq
    PROVE  b = c
<1>1. \A s \in Sides : s = side \/ s = Opposite(side)
  BY DEF Sides, Opposite
<1>2. \A s \in Sides : b.depths[s] = c.depths[s]
  BY <1>1
<1>3. b.depths = c.depths
  BY <1>2 DEF IsBook
<1> QED
  BY <1>3 DEF IsBook

\* After a turn the rest of the call leaves the book the whole call leaves.
LEMMA TurnBook ==
    ASSUME NEW b, NEW t, NEW f, NEW z, Turn(b, t, f, z)
    PROVE  Complete(Traded(b, t, f, z), Charged(t, f, z)).book = Complete(b, t).book
<1> DEFINE c == Traded(b, t, f, z)
           u == Charged(t, f, z)
           other == Opposite(t.side)
           n == Cardinality(Hit(b, t))
           e == Cardinality(Emptied(b, t))
           v == Cardinality(Hit(c, u))
           w == Cardinality(Emptied(c, u))
<1>1. /\ IsOrderBook(b) /\ IsTaker(t) /\ t.side \in Sides
      /\ other \in Sides /\ other # t.side
      /\ f.size \in Nat /\ z \in Nat
      /\ b.logSeq \in Nat /\ b.tradeSeq \in Nat
  BY TurnNumbers DEF Turn, IsTaker, IsOrderBook, IsBook
<1>2. /\ IsOrderBook(c) /\ IsTaker(u) /\ u.side = t.side
      /\ c.depths[t.side] = b.depths[t.side]
      /\ c.depths[other] = DecrSize(b.depths[other], f, z)
      /\ c.logSeq = b.logSeq + (IF z = f.size THEN 2 ELSE 1)
      /\ c.tradeSeq = b.tradeSeq + 1
  BY TurnKeeps
<1>3. /\ f \in Hit(b, t) /\ Takes(b, t)[f] = z
      /\ f \in Emptied(b, t) <=> z = f.size
  BY TurnTakes
<1>4. /\ IsFiniteSet(Hit(b, t)) /\ IsFiniteSet(Emptied(b, t))
      /\ n \in Nat /\ e \in Nat /\ v \in Nat /\ w \in Nat
  <2>1. IsLine(Hit(b, t), other) /\ n \in Nat /\ e \in Nat
    BY <1>1, HitAndEmptied
  <2>2. v \in Nat /\ w \in Nat
    BY <1>2, HitAndEmptied
  <2>3. Emptied(b, t) \subseteq Hit(b, t)
    BY <1>1, TakerMeetsMakers
  <2> QED
    BY <2>1, <2>2, <2>3, FS_Subset DEF IsLine
<1> HIDE DEF c, u, n, e, v, w
<1> DEFINE B == Complete(b, t).book
           C == Complete(c, u).book
<1>5. /\ B.depths[other] =
           (b.depths[other] \ Hit(b, t)) \cup
           {[m EXCEPT !.size = @ - Takes(b, t)[m]] : m \in Hit(b, t) \ Emptied(b, t)}
      /\ B.depths[t.side] = IF Rests(Left(b, t)) THEN Add(b.depths[t.side], Left(b, t))
                                                 ELSE b.depths[t.side]
  BY <1>1, CompleteDepths
<1>6. /\ C.depths[other] =
           (c.depths[other] \ Hit(c, u)) \cup
           {[m EXCEPT !.size = @ - Takes(c, u)[m]] : m \in Hit(c, u) \ Emptied(c, u)}
      /\ C.depths[t.side] = IF Rests(Left(c, u)) THEN Add(b.depths[t.side], Left(c, u))
                                                 ELSE b.depths[t.side]
  BY <1>2, CompleteDepths
<1>7. /\ B.logSeq = b.logSeq + (n + e + 1) /\ B.tradeSeq = b.tradeSeq + n
      /\ C.logSeq = c.logSeq + (v + w + 1) /\ C.tradeSeq = c.tradeSeq + v
  BY CompleteNumbers DEF n, e, v, w
<1>8. IsBook(B) /\ IsBook(C)
  BY <1>1, <1>2, CompleteKeepsBook DEF IsOrderBook
<1> HIDE DEF B, C
<1>9. CASE z = f.size
  <2>1. /\ \A m \in Hit(c, u) : Takes(c, u)[m] = Takes(b, t)[m]
        /\ Hit(c, u) = Hit(b, t) \ {f}
        /\ Emptied(c, u) = Emptied(b, t) \ {f}
        /\ Left(c, u) = Left(b, t)
    <3>1. Hit(c, u) \subseteq Makers(c, u)
      BY <1>2, TakerMeetsMakers
    <3> QED
      BY <1>9, <3>1, TurnEmpties DEF c, u
  <2>2. f \in Emptied(b, t)
    BY <1>3, <1>9
  <2>3. v = n - 1 /\ w = e - 1
    BY <1>3, <1>4, <2>1, <2>2, FS_RemoveElement DEF n, e, v, w
  <2>4. B.logSeq = C.logSeq /\ B.tradeSeq = C.tradeSeq
    BY <1>1, <1>2, <1>4, <1>7, <1>9, <2>3
  <2>5. Hit(c, u) \ Emptied(c, u) = Hit(b, t) \ Emptied(b, t)
    BY <2>1, <2>2
  <2>6. C.depths[other] = B.depths[other]
    <3>1. c.depths[other] = b.depths[other] \ {f}
      BY <1>2, <1>9 DEF DecrSize
    <3>2. c.depths[other] \ Hit(c, u) = b.depths[other] \ Hit(b, t)
      BY <1>3, <2>1, <3>1
    <3>3. {[m EXCEPT !.size = @ - Takes(c, u)[m]] : m \in Hit(c, u) \ Emptied(c, u)} =
          {[m EXCEPT !.size = @ - Takes(b, t)[m]] : m \in Hit(b, t) \ Emptied(b, t)}
      BY <2>1, <2>5
    <3> QED
      BY <1>5, <1>6, <3>2, <3>3
  <2>7. C.depths[t.side] = B.depths[t.side]
    BY <1>5, <1>6, <2>1
  <2>8. B = C
    BY <1>1, <1>8, <2>4, <2>6, <2>7, SameBook DEF other
  <2> QED
    BY <2>8 DEF B, C, c, u
<1>10. CASE z # f.size
  <2>1. /\ Hit(b, t) = {f} /\ Emptied(b, t) = {}
        /\ Hit(c, u) = {} /\ Emptied(c, u) = {}
        /\ Left(b, t) = Left(c, u)
    BY <1>10, TurnExhausts DEF c, u
  <2>2. n = 1 /\ e = 0 /\ v = 0 /\ w = 0
    BY <2>1, FS_EmptySet, FS_Singleton DEF n, e, v, w
  <2>3. B.logSeq = C.logSeq /\ B.tradeSeq = C.tradeSeq
    BY <1>1, <1>2, <1>7, <1>10, <2>2
  <2>4. C.depths[other] = B.depths[other]
    <3>1. c.depths[other] = (b.depths[other] \ {f}) \cup {[f EXCEPT !.size = @ - z]}
      BY <1>2, <1>10 DEF DecrSize
    <3>2. C.depths[other] = c.depths[other]
      BY <1>6, <2>1
    <3>3. {[m EXCEPT !.size = @ - Takes(b, t)[m]] : m \in {f} \ {}} = {[f EXCEPT !.size = @ - z]}
      BY <1>3
    <3>4. B.depths[other] = (b.depths[other] \ {f}) \cup {[f EXCEPT !.size = @ - z]}
      BY <1>5, <2>1, <3>3
    <3> QED
      BY <3>1, <3>2, <3>4
  <2>5. C.depths[t.side] = B.depths[t.side]
    BY <1>5, <1>6, <2>1
  <2>6. B = C
    BY <1>1, <1>8, <2>3, <2>4, <2>5, SameBook DEF other
  <2> QED
    BY <2>6 DEF B, C, c, u
<1> QED
  BY <1>9, <1>10

\* f is the first of a line.
Leads(f, S, side) ==
    /\ side \in Sides /\ IsLine(S, side)
    /\ f \in S /\ \A n \in S \ {f} : Precedes(f, n)

\* A bought-out first maker leaves, and everyone moves up by one.
LEMMA LineMovesUp ==
    ASSUME NEW side, NEW S, NEW f, Leads(f, S, side)
    PROVE  LET T == S \ {f}
           IN  /\ InLine(S)[1] = f
               /\ Cardinality(T) = Cardinality(S) - 1
               /\ \A k \in 1 .. Cardinality(T) : InLine(T)[k] = InLine(S)[k + 1]
<1> DEFINE T == S \ {f}
<1>0. /\ side \in Sides /\ IsLine(S, side)
      /\ f \in S /\ \A n \in S \ {f} : Precedes(f, n)
  BY DEF Leads
<1>1. IsDepth(S, side) /\ IsFiniteSet(S) /\ IsLine(T, side)
  BY <1>0, PartIsLine DEF IsLine
<1>2. Cardinality(T) = Cardinality(S) - 1 /\ Cardinality(S) \in Nat
  BY <1>0, <1>1, FS_RemoveElement, FS_CardinalityType
<1>3. Ahead(S, f) = {}
  BY <1>0, <1>1, PriorityIsOrder DEF Ahead
<1>4. Rank(S, f) = 0
  BY <1>3, FS_EmptySet DEF Rank
<1>5. InLine(S)[1] = f
  BY <1>0, <1>4, EveryPlace
<1>6. ASSUME NEW m \in T
      PROVE  Rank(S, m) = Rank(T, m) + 1 /\ Rank(T, m) \in Nat
  <2>1. Ahead(S, m) = Ahead(T, m) \cup {f} /\ f \notin Ahead(T, m)
    BY <1>0, <1>6 DEF Ahead
  <2>2. IsFiniteSet(Ahead(T, m))
    BY <1>1, FS_Subset DEF Ahead
  <2> QED
    BY <2>1, <2>2, FS_AddElement, FS_CardinalityType DEF Rank
<1>7. ASSUME NEW k \in 1 .. Cardinality(T)
      PROVE  InLine(T)[k] = InLine(S)[k + 1]
  <2> DEFINE m == InLine(T)[k]
  <2>1. m \in T /\ Rank(T, m) = k - 1
    BY <1>0, <1>1, EveryPlace
  <2>2. Rank(S, m) + 1 = k + 1
    BY <1>6, <2>1
  <2>3. InLine(S)[Rank(S, m) + 1] = m
    BY <1>0, <2>1, EveryPlace
  <2> QED
    BY <2>2, <2>3
<1> QED
  BY <1>2, <1>5, <1>7

\* Sequences with the same entries are the same.
LEMMA SameSequence ==
    ASSUME NEW s, IsSequence(s), NEW t, IsSequence(t), Len(s) = Len(t),
           \A i \in 1 .. Len(s) : s[i] = t[i]
    PROVE  s = t
<1> DEFINE S == Range(s) \cup Range(t)
<1>1. s \in Seq(S) /\ t \in Seq(S)
  BY SeqMonotonic DEF IsSequence
<1> HIDE DEF S
<1> QED
  BY <1>1, SeqEqual

\* The sequence begins with p and goes on with q.
Joins(s, p, q) ==
    /\ IsSequence(s) /\ IsSequence(p) /\ IsSequence(q)
    /\ Len(s) = Len(p) + Len(q)
    /\ \A i \in 1 .. Len(p) : s[i] = p[i]
    /\ \A i \in 1 .. Len(q) : s[Len(p) + i] = q[i]

\* Then it is their concatenation.
LEMMA TwoParts ==
    ASSUME NEW s, NEW p, NEW q, Joins(s, p, q)
    PROVE  s = p \o q
<1>0. /\ IsSequence(s) /\ IsSequence(p) /\ IsSequence(q)
      /\ Len(s) = Len(p) + Len(q)
      /\ \A i \in 1 .. Len(p) : s[i] = p[i]
      /\ \A i \in 1 .. Len(q) : s[Len(p) + i] = q[i]
  BY DEF Joins
<1>1. IsSequence(p \o q)
  BY <1>0, ConcatSequence
<1>2. /\ Len(p) \in Nat /\ Len(q) \in Nat /\ Len(p \o q) = Len(p) + Len(q)
      /\ \A i \in 1 .. Len(p) : (p \o q)[i] = p[i]
      /\ \A i \in 1 .. Len(q) : (p \o q)[Len(p) + i] = q[i]
  BY <1>0, ConcatIndices
<1>3. ASSUME NEW i \in 1 .. Len(s)
      PROVE  s[i] = (p \o q)[i]
  <2>1. CASE i <= Len(p)
    <3>1. i \in 1 .. Len(p)
      BY <1>2, <2>1
    <3> QED
      BY <1>0, <1>2, <3>1
  <2>2. CASE i > Len(p)
    <3> DEFINE j == i - Len(p)
    <3>1. j \in 1 .. Len(q) /\ i = Len(p) + j
      BY <1>0, <1>2, <2>2
    <3> HIDE DEF j
    <3>2. s[Len(p) + j] = q[j] /\ (p \o q)[Len(p) + j] = q[j]
      BY <1>0, <1>2, <3>1
    <3> QED
      BY <3>1, <3>2
  <2> QED
    BY <1>0, <1>2, <2>1, <2>2
<1> QED
  BY <1>0, <1>1, <1>2, <1>3, SameSequence

\* The logs of a turn, one or two.
LEMMA TurnLogsAre ==
    ASSUME NEW b, NEW t, NEW f, NEW z
    PROVE  LET s == TurnLogs(b, t, f, z)
           IN  /\ IsSequence(s)
               /\ Len(s) = IF z = f.size THEN 2 ELSE 1
               /\ s[1] = MatchLog(b.logSeq + 1, b.tradeSeq + 1, t, f, z)
               /\ z = f.size =>
                     s[2] = DoneLog(b.logSeq + 2, [f EXCEPT !.size = 0], 0, "filled")
<1> DEFINE x == MatchLog(b.logSeq + 1, b.tradeSeq + 1, t, f, z)
           y == DoneLog(b.logSeq + 2, [f EXCEPT !.size = 0], 0, "filled")
<1>1. TurnLogs(b, t, f, z) = IF z = f.size THEN <<x, y>> ELSE <<x>>
  BY DEF TurnLogs
<1> HIDE DEF x, y
<1>2. IsSequence(<<x>>) /\ Len(<<x>>) = 1 /\ <<x>>[1] = x
  BY OneElement
<1>3. IsSequence(<<x, y>>) /\ Len(<<x, y>>) = 2 /\ <<x, y>>[1] = x /\ <<x, y>>[2] = y
  <2>1. <<x, y>> \in Seq({x, y}) /\ Len(<<x, y>>) = 2 /\ <<x, y>>[1] = x /\ <<x, y>>[2] = y
    OBVIOUS
  <2> QED
    BY <2>1, SequenceOver
<1> QED
  BY <1>1, <1>2, <1>3 DEF x, y

\* A turn tells the trade, and the done log of a maker that is bought out.
LEMMA TurnLogsCount ==
    ASSUME NEW b, NEW t, NEW f, NEW z
    PROVE  /\ IsSequence(TurnLogs(b, t, f, z))
           /\ Len(TurnLogs(b, t, f, z)) = IF z = f.size THEN 2 ELSE 1
<1> DEFINE s == TurnLogs(b, t, f, z)
<1>1. /\ IsSequence(s)
      /\ Len(s) = IF z = f.size THEN 2 ELSE 1
      /\ s[1] = MatchLog(b.logSeq + 1, b.tradeSeq + 1, t, f, z)
      /\ z = f.size => s[2] = DoneLog(b.logSeq + 2, [f EXCEPT !.size = 0], 0, "filled")
  BY TurnLogsAre
<1> QED
  BY <1>1

\* The logs of a call are those of the first turn, and then those of the rest
\* of the call.
LEMMA TurnLogsFirst ==
    ASSUME NEW b, NEW t, NEW f, NEW z, Turn(b, t, f, z)
    PROVE  Complete(b, t).logs =
              TurnLogs(b, t, f, z) \o Complete(Traded(b, t, f, z), Charged(t, f, z)).logs
<1> DEFINE c == Traded(b, t, f, z)
           u == Charged(t, f, z)
           n == Cardinality(Hit(b, t))
           e == Cardinality(Emptied(b, t))
           v == Cardinality(Hit(c, u))
           w == Cardinality(Emptied(c, u))
           L == Complete(b, t).logs
           M == Complete(c, u).logs
           H == TurnLogs(b, t, f, z)
           line == InLine(Hit(b, t))
           next == InLine(Hit(c, u))
           take == Takes(b, t)
           left == Takes(c, u)
<1>1. /\ IsOrderBook(b) /\ IsTaker(t)
      /\ b.logSeq \in Nat /\ b.tradeSeq \in Nat
      /\ Opposite(t.side) \in Sides
  BY TurnNumbers DEF Turn, IsOrderBook, IsBook
<1>2. /\ IsOrderBook(c) /\ IsTaker(u) /\ u.id = t.id
      /\ c.logSeq = b.logSeq + (IF z = f.size THEN 2 ELSE 1)
      /\ c.tradeSeq = b.tradeSeq + 1
  BY TurnKeeps
<1>3. /\ f \in Makers(b, t) /\ f \in Hit(b, t) /\ Takes(b, t)[f] = z
      /\ \A m \in Makers(b, t) \ {f} : Precedes(f, m)
  BY TurnTakes
<1>4. f \in Emptied(b, t) <=> z = f.size
  BY TurnTakes
<1>5. /\ IsLine(Hit(b, t), Opposite(t.side)) /\ n \in Nat /\ e \in Nat
      /\ Hit(b, t) \subseteq Makers(b, t) /\ Emptied(b, t) \subseteq Hit(b, t)
  BY <1>1, HitAndEmptied, TakerMeetsMakers
<1>6. v \in Nat /\ w \in Nat /\ Hit(c, u) \subseteq Makers(c, u) /\ Emptied(c, u) \subseteq Hit(c, u)
  BY <1>2, HitAndEmptied, TakerMeetsMakers
<1> HIDE DEF c, u
<1>7. /\ L = [i \in 1 .. n + e + 1 |-> L[i]]
      /\ L[n + e + 1] = ClosingLog(b.logSeq + (n + e + 1), Left(b, t))
      /\ \A k \in 1 .. n :
            L[2 * k - 1] = MatchLog(b.logSeq + (2 * k - 1), b.tradeSeq + k,
                                    t, line[k], take[line[k]])
      /\ \A k \in 1 .. e :
            L[2 * k] = DoneLog(b.logSeq + 2 * k, [line[k] EXCEPT !.size = 0], 0, "filled")
  BY <1>1, CompleteLogs
<1>8. /\ M = [i \in 1 .. v + w + 1 |-> M[i]]
      /\ M[v + w + 1] = ClosingLog(c.logSeq + (v + w + 1), Left(c, u))
      /\ \A k \in 1 .. v :
            /\ next[k] \in Hit(c, u)
            /\ M[2 * k - 1] = MatchLog(c.logSeq + (2 * k - 1), c.tradeSeq + k,
                                       u, next[k], left[next[k]])
      /\ \A k \in 1 .. w :
            M[2 * k] = DoneLog(c.logSeq + 2 * k, [next[k] EXCEPT !.size = 0], 0, "filled")
      /\ \A i \in 1 .. v + w :
            (\E k \in 1 .. v : i = 2 * k - 1) \/ (\E k \in 1 .. w : i = 2 * k)
  BY <1>2, CompleteLogs
<1>9. /\ IsSequence(H) /\ Len(H) = IF z = f.size THEN 2 ELSE 1
      /\ H[1] = MatchLog(b.logSeq + 1, b.tradeSeq + 1, t, f, z)
      /\ z = f.size => H[2] = DoneLog(b.logSeq + 2, [f EXCEPT !.size = 0], 0, "filled")
  BY TurnLogsAre
<1> HIDE DEF H, L, M
<1>10. IsSequence(L) /\ Len(L) = n + e + 1
  BY <1>5, <1>7, FunctionSequence
<1>11. IsSequence(M) /\ Len(M) = v + w + 1
  BY <1>6, <1>8, FunctionSequence
<1>12. ASSUME z = f.size PROVE L = H \o M
  <2>1. /\ \A m \in Hit(c, u) : left[m] = take[m]
        /\ Hit(c, u) = Hit(b, t) \ {f} /\ Emptied(c, u) = Emptied(b, t) \ {f}
        /\ Left(c, u) = Left(b, t)
    BY <1>6, <1>12, TurnEmpties DEF c, u
  <2>2. IsFiniteSet(Emptied(b, t)) /\ f \in Emptied(b, t)
    BY <1>4, <1>5, <1>12, FS_Subset DEF IsLine
  <2>3. w = e - 1
    BY <2>1, <2>2, FS_RemoveElement
  <2>4. \A m \in Hit(b, t) \ {f} : Precedes(f, m)
    BY <1>3, <1>5
  <2>5. /\ line[1] = f /\ v = n - 1
        /\ \A k \in 1 .. v : next[k] = line[k + 1]
    <3> DEFINE S == Hit(b, t)
               T == S \ {f}
    <3>1. /\ InLine(S)[1] = f /\ Cardinality(T) = Cardinality(S) - 1
          /\ \A k \in 1 .. Cardinality(T) : InLine(T)[k] = InLine(S)[k + 1]
      <4>1. Opposite(t.side) \in Sides /\ IsLine(S, Opposite(t.side)) /\ f \in S
        BY <1>1, <1>3, <1>5
      <4>2. \A m \in S \ {f} : Precedes(f, m)
        BY <2>4
      <4>3. Leads(f, S, Opposite(t.side))
        BY <4>1, <4>2 DEF Leads
      <4> HIDE DEF S
      <4> QED
        BY <4>3, LineMovesUp
    <3>2. Hit(c, u) = T
      BY <2>1
    <3> HIDE DEF T
    <3> QED
      BY <3>1, <3>2 DEF n, v, line, next
  <2> HIDE DEF n, e, v, w, line, next, take, left
  <2>6. Len(H) = 2 /\ c.logSeq = b.logSeq + 2
    BY <1>2, <1>9, <1>12
  <2>7. L[1] = H[1] /\ L[2] = H[2]
    <3>1. 1 \in 1 .. n /\ 1 \in 1 .. e
      BY <1>5, <1>6, <2>3, <2>5
    <3>2. L[2 * 1 - 1] = MatchLog(b.logSeq + (2 * 1 - 1), b.tradeSeq + 1, t, line[1], take[line[1]])
      BY <1>7, <3>1
    <3>3. L[2 * 1] = DoneLog(b.logSeq + 2 * 1, [line[1] EXCEPT !.size = 0], 0, "filled")
      BY <1>7, <3>1
    <3>4. take[f] = z
      BY <1>3 DEF take
    <3> QED
      BY <1>9, <1>12, <2>5, <3>2, <3>3, <3>4
  <2>8. ASSUME NEW i \in 1 .. v + w + 1
        PROVE  L[2 + i] = M[i]
    <3>1. CASE i = v + w + 1
      <4>1. 2 + i = n + e + 1 /\ b.logSeq + (n + e + 1) = c.logSeq + (v + w + 1)
        BY <1>1, <1>5, <1>6, <2>3, <2>5, <2>6, <3>1
      <4> QED
        BY <1>7, <1>8, <2>1, <3>1, <4>1
    <3>2. ASSUME NEW k \in 1 .. v, i = 2 * k - 1
          PROVE  L[2 + i] = M[i]
      <4>1. /\ k + 1 \in 1 .. n /\ 2 + i = 2 * (k + 1) - 1
            /\ b.logSeq + (2 * (k + 1) - 1) = c.logSeq + (2 * k - 1)
            /\ b.tradeSeq + (k + 1) = c.tradeSeq + k
        BY <1>1, <1>2, <1>5, <1>6, <2>5, <2>6, <3>2
      <4>2. L[2 * (k + 1) - 1] = MatchLog(b.logSeq + (2 * (k + 1) - 1), b.tradeSeq + (k + 1),
                                          t, line[k + 1], take[line[k + 1]])
        BY <1>7, <4>1
      <4>3. M[2 * k - 1] = MatchLog(c.logSeq + (2 * k - 1), c.tradeSeq + k,
                                    u, next[k], left[next[k]])
        BY <1>8
      <4>4. next[k] = line[k + 1] /\ left[next[k]] = take[line[k + 1]]
        BY <1>8, <2>1, <2>5
      <4>5. MatchLog(c.logSeq + (2 * k - 1), c.tradeSeq + k, u, next[k], left[next[k]]) =
            MatchLog(c.logSeq + (2 * k - 1), c.tradeSeq + k, t, next[k], left[next[k]])
        BY <1>2 DEF MatchLog
      <4> QED
        BY <3>2, <4>1, <4>2, <4>3, <4>4, <4>5
    <3>3. ASSUME NEW k \in 1 .. w, i = 2 * k
          PROVE  L[2 + i] = M[i]
      <4>1. /\ k + 1 \in 1 .. e /\ 2 + i = 2 * (k + 1)
            /\ b.logSeq + 2 * (k + 1) = c.logSeq + 2 * k
        BY <1>1, <1>2, <1>5, <1>6, <2>3, <2>6, <3>3
      <4>2. L[2 * (k + 1)] = DoneLog(b.logSeq + 2 * (k + 1), [line[k + 1] EXCEPT !.size = 0],
                                     0, "filled")
        BY <1>7, <4>1
      <4>3. M[2 * k] = DoneLog(c.logSeq + 2 * k, [next[k] EXCEPT !.size = 0], 0, "filled")
        BY <1>8
      <4>4. k \in 1 .. v
        <5>1. w <= v
          BY <1>2, HitAndEmptied DEF v, w
        <5> QED
          BY <1>6, <5>1
      <4>5. next[k] = line[k + 1]
        BY <2>5, <4>4
      <4> QED
        BY <3>3, <4>1, <4>2, <4>3, <4>5
    <3>4. i # v + w + 1 => i \in 1 .. v + w
      BY <1>6
    <3> QED
      BY <1>8, <3>1, <3>2, <3>3, <3>4
  <2>9. Len(L) = Len(H) + Len(M)
    <3>1. n \in Nat /\ e \in Nat /\ w = e - 1 /\ v = n - 1
      BY <1>5, <2>3, <2>5
    <3> QED
      BY <1>10, <1>11, <2>6, <3>1
  <2>10. \A i \in 1 .. Len(H) : L[i] = H[i]
    BY <2>6, <2>7
  <2>11. \A i \in 1 .. Len(M) : L[Len(H) + i] = M[i]
    BY <1>11, <2>6, <2>8
  <2>12. IsSequence(L) /\ IsSequence(H) /\ IsSequence(M)
    BY <1>9, <1>10, <1>11
  <2>13. Len(L) = Len(H) + Len(M)
    BY <2>9
  <2>14. Joins(L, H, M)
    BY <2>10, <2>11, <2>12, <2>13 DEF Joins
  <2> QED
    BY <2>14, TwoParts
<1>13. ASSUME z # f.size PROVE L = H \o M
  <2>1. /\ Hit(b, t) = {f} /\ Emptied(b, t) = {}
        /\ Hit(c, u) = {} /\ Emptied(c, u) = {}
        /\ Left(b, t) = Left(c, u)
    BY <1>13, TurnExhausts DEF c, u
  <2>2. n = 1 /\ e = 0 /\ v = 0 /\ w = 0
    BY <2>1, FS_EmptySet, FS_Singleton
  <2>3. line[1] = f
    <3>1. line[1] \in Hit(b, t)
      BY <1>1, <1>5, <2>2, EveryPlace
    <3> QED
      BY <2>1, <3>1
  <2>4. take[f] = z
    BY <1>3
  <2> HIDE DEF n, e, v, w, line, next, take, left
  <2>5. Len(H) = 1 /\ Len(M) = 1 /\ Len(L) = 2 /\ c.logSeq = b.logSeq + 1
    BY <1>2, <1>9, <1>10, <1>11, <1>13, <2>2
  <2>6. L[1] = H[1]
    <3>1. L[2 * 1 - 1] = MatchLog(b.logSeq + (2 * 1 - 1), b.tradeSeq + 1, t, line[1], take[line[1]])
      BY <1>7, <2>2
    <3> QED
      BY <1>9, <2>3, <2>4, <3>1
  <2>7. L[1 + 1] = M[1]
    <3>1. b.logSeq + (1 + 0 + 1) = c.logSeq + (0 + 0 + 1)
      BY <1>1, <2>5
    <3>2. L[1 + 0 + 1] = M[0 + 0 + 1]
      BY <1>7, <1>8, <2>1, <2>2, <3>1
    <3> QED
      BY <3>2
  <2>8. \A i \in 1 .. Len(H) : L[i] = H[i]
    BY <2>5, <2>6
  <2>9. \A i \in 1 .. Len(M) : L[Len(H) + i] = M[i]
    BY <2>5, <2>7
  <2>12. IsSequence(L) /\ IsSequence(H) /\ IsSequence(M)
    BY <1>9, <1>10, <1>11
  <2>13. Len(L) = Len(H) + Len(M)
    BY <2>5
  <2>14. Joins(L, H, M)
    BY <2>8, <2>9, <2>12, <2>13 DEF Joins
  <2> QED
    BY <2>14, TwoParts
<1> QED
  BY <1>12, <1>13 DEF H, L, M, c, u

\* No maker is left that the taker crosses and could pay a unit of.
Unserved(b, t) ==
    \A m \in b.depths[Opposite(t.side)] : Crosses(t, m) =>
        IF BuysByFunds(t) THEN m.price > 0 /\ t.funds < m.price ELSE t.size = 0

\* The book of a call whose loop is over.
Closed(b, t) ==
    [depths   |-> IF Rests(t) THEN [b.depths EXCEPT ![t.side] = Add(@, t)] ELSE b.depths,
     logSeq   |-> b.logSeq + 1,
     tradeSeq |-> b.tradeSeq]

\* Then the call trades no more.
LEMMA NothingTaken ==
    ASSUME NEW b, NEW t, IsOrderBook(b), IsTaker(t), Unserved(b, t)
    PROVE  Hit(b, t) = {} /\ Emptied(b, t) = {} /\ Left(b, t) = t
<1> DEFINE S == Makers(b, t)
           side == Opposite(t.side)
<1>1. /\ IsLine(S, side) /\ IsDepth(S, side) /\ Meets(t, side) /\ side \in Sides
      /\ Emptied(b, t) \subseteq Hit(b, t) /\ Hit(b, t) \subseteq S
      /\ \A m \in S : Takes(b, t)[m] = Take(t, S, m)
      /\ t.size \in Nat /\ t.funds \in Nat
  BY TakerMeetsMakers, OppositeSide DEF IsLine, IsTaker
<1>2. \A m \in S : IF BuysByFunds(t) THEN m.price > 0 /\ t.funds < m.price ELSE t.size = 0
  BY DEF Unserved, Makers
<1> HIDE DEF S, side
<1>3. \A m \in S : Take(t, S, m) = 0
  <2> SUFFICES ASSUME NEW m \in S PROVE Take(t, S, m) = 0
    OBVIOUS
  <2> DEFINE a == Ahead(S, m)
  <2>1. a \in SUBSET S
    BY DEF Ahead
  <2>2. Volume(a) \in Nat /\ Cost(a) \in Nat
    BY <1>1, <2>1, VolumeFacts, CostFacts
  <2>3. m.size \in Nat /\ m.size > 0 /\ m.price \in Nat
    BY <1>1, RestingFacts
  <2>4. CASE ~ BuysByFunds(t)
    <3>1. Take(t, S, m) = Clip(0 - Volume(a), m.size)
      BY <1>2, <2>4 DEF Take
    <3> QED
      BY <2>2, <2>3, <3>1 DEF Clip
  <2>5. CASE BuysByFunds(t)
    <3> DEFINE x == t.funds - Cost(a)
               q == x \div m.price
    <3>1. m.price > 0 /\ t.funds < m.price
      BY <1>2, <2>5
    <3>2. Take(t, S, m) = Clip(q, m.size)
      BY <2>3, <2>5, <3>1 DEF Take
    <3>3. x \in Int /\ x < m.price /\ m.price # 0
      BY <1>1, <2>2, <2>3, <3>1
    <3> HIDE DEF x
    <3>4. q \in Int /\ q * m.price <= x
      BY <2>3, <3>3, UnitsForFunds
    <3> HIDE DEF q
    <3>5. \A i \in Int, p \in Nat : i > 0 => i * p >= p
      OBVIOUS
    <3>6. ~ (q > 0)
      <4> SUFFICES ASSUME q > 0 PROVE FALSE
        OBVIOUS
      <4>1. q * m.price >= m.price /\ q * m.price \in Int
        BY <2>3, <3>4, <3>5
      <4> QED
        BY <2>3, <3>3, <3>4, <4>1
    <3> QED
      BY <2>3, <3>2, <3>4, <3>6 DEF Clip
  <2> QED
    BY <2>4, <2>5
<1>4. Hit(b, t) = {} /\ Emptied(b, t) = {}
  BY <1>1, <1>3 DEF Hit, S
<1>5. TakenBy(b, t) = 0 /\ PaidBy(b, t) = 0
  BY <1>4, SumOfNone DEF TakenBy, PaidBy
<1>6. /\ Left(b, t).id = t.id /\ Left(b, t).side = t.side /\ Left(b, t).type = t.type
      /\ Left(b, t).price = t.price /\ IsTaker(Left(b, t))
      /\ Left(b, t).funds = IF BuysByFunds(t) THEN t.funds - 0 ELSE t.funds
      /\ Left(b, t).size = IF BuysByFunds(t) THEN t.size ELSE t.size - 0
  BY <1>5, LeftIsTaker
<1>7. t.funds - 0 = t.funds /\ t.size - 0 = t.size
  BY <1>1
<1>8. Left(b, t) = t
  BY <1>6, <1>7 DEF IsTaker
<1> QED
  BY <1>4, <1>8

\* Adding an order to a depth keeps it finite.
LEMMA AddIsFinite ==
    ASSUME NEW depth, IsFiniteSet(depth), NEW o
    PROVE  IsFiniteSet(Add(depth, o))
<1>1. IsFiniteSet({m \in depth : m.id # o.id})
  BY FS_Subset
<1> QED
  BY <1>1, FS_AddElement DEF Add

\* What is left to do is the last log, and to rest if the order rests.
LEMMA NothingLeft ==
    ASSUME NEW b, NEW t, IsOrderBook(b), IsTaker(t), Unserved(b, t)
    PROVE  Complete(b, t) = [book |-> Closed(b, t), logs |-> <<ClosingLog(b.logSeq + 1, t)>>]
<1> DEFINE B == Complete(b, t).book
           C == Closed(b, t)
           L == Complete(b, t).logs
           log == ClosingLog(b.logSeq + 1, t)
           other == Opposite(t.side)
<1>1. Hit(b, t) = {} /\ Emptied(b, t) = {} /\ Left(b, t) = t
  BY NothingTaken
<1>2. Cardinality(Hit(b, t)) = 0 /\ Cardinality(Emptied(b, t)) = 0
  BY <1>1, FS_EmptySet
<1>3. /\ IsBook(b) /\ t.side \in Sides /\ other \in Sides /\ other # t.side
      /\ b.logSeq \in Nat /\ b.tradeSeq \in Nat
      /\ \A side \in Sides : IsFiniteSet(b.depths[side])
      /\ b.depths = [side \in Sides |-> b.depths[side]]
  BY OppositeSide DEF IsOrderBook, IsTaker, IsBook
<1>4. B.logSeq = b.logSeq + 1 /\ B.tradeSeq = b.tradeSeq
  <2>1. B.logSeq = b.logSeq + (0 + 0 + 1) /\ B.tradeSeq = b.tradeSeq + 0
    BY <1>2, CompleteNumbers
  <2> QED
    BY <1>3, <2>1
<1>5. /\ B.depths[other] = b.depths[other]
      /\ B.depths[t.side] = IF Rests(t) THEN Add(b.depths[t.side], t) ELSE b.depths[t.side]
  <2>1. /\ B.depths[other] =
              (b.depths[other] \ Hit(b, t)) \cup
              {[m EXCEPT !.size = @ - Takes(b, t)[m]] : m \in Hit(b, t) \ Emptied(b, t)}
        /\ B.depths[t.side] = IF Rests(Left(b, t)) THEN Add(b.depths[t.side], Left(b, t))
                                                   ELSE b.depths[t.side]
    BY CompleteDepths
  <2> HIDE DEF B, other
  <2> QED
    BY <1>1, <2>1
<1>6. IsBook(B)
  BY CompleteKeepsBook DEF IsOrderBook
<1>7. /\ C.depths[other] = b.depths[other]
      /\ C.depths[t.side] = IF Rests(t) THEN Add(b.depths[t.side], t) ELSE b.depths[t.side]
      /\ C.logSeq = b.logSeq + 1 /\ C.tradeSeq = b.tradeSeq
      /\ C.depths = [side \in Sides |-> C.depths[side]]
      /\ C = [depths |-> C.depths, logSeq |-> C.logSeq, tradeSeq |-> C.tradeSeq]
  BY <1>3 DEF Closed
<1> HIDE DEF B, C
<1>8. IsBook(C)
  <2>1. \A side \in Sides : side = t.side \/ side = other
    BY <1>3 DEF Sides, Opposite
  <2>2. IsFiniteSet(C.depths[other]) /\ IsFiniteSet(C.depths[t.side])
    BY <1>3, <1>7, AddIsFinite
  <2>3. \A side \in Sides : IsFiniteSet(C.depths[side])
    BY <2>1, <2>2
  <2>4. C.logSeq \in Nat /\ C.tradeSeq \in Nat
    BY <1>3, <1>7
  <2> QED
    BY <1>7, <2>3, <2>4 DEF IsBook
<1>9. B = C
  <2>1. B.depths[t.side] = C.depths[t.side] /\ B.depths[other] = C.depths[other]
    BY <1>5, <1>7
  <2>2. B.logSeq = C.logSeq /\ B.tradeSeq = C.tradeSeq
    BY <1>4, <1>7
  <2> QED
    BY <1>3, <1>6, <1>8, <2>1, <2>2, SameBook DEF other
<1>10. L = <<log>>
  <2> DEFINE n == Cardinality(Hit(b, t))
             e == Cardinality(Emptied(b, t))
  <2>1. /\ L = [i \in 1 .. n + e + 1 |-> L[i]]
        /\ L[n + e + 1] = ClosingLog(b.logSeq + (n + e + 1), Left(b, t))
    BY CompleteLogs
  <2>2. n + e + 1 = 1 /\ 1 \in Nat
    BY <1>2
  <2>3. L = [i \in 1 .. 1 |-> L[i]] /\ L[1] = log
    BY <1>1, <2>1, <2>2
  <2> HIDE DEF L, log
  <2>4. IsSequence(L) /\ Len(L) = 1
    BY <2>3, FunctionSequence
  <2>5. IsSequence(<<log>>) /\ Len(<<log>>) = 1 /\ <<log>>[1] = log
    BY OneElement
  <2>6. \A i \in 1 .. 1 : L[i] = <<log>>[i]
    BY <2>3, <2>5
  <2> QED
    BY <2>4, <2>5, <2>6, SameSequence
<1>11. Complete(b, t) = [book |-> B, logs |-> L]
  BY DEF Complete, B
<1> QED
  BY <1>9, <1>10, <1>11 DEF C

\* Where the loop breaks, the taker can trade with no maker that is left: not
\* with the first one, and so with none.
LEMMA BreaksUnserved ==
    ASSUME NEW b, NEW t, IsOrderBook(b), IsTaker(t), NEW f,
           Leads(f, b.depths[Opposite(t.side)], Opposite(t.side)),
           ~ Crosses(t, f) \/ Asked(t, f) = 0,
           BuysByFunds(t) => f.price > 0
    PROVE  Unserved(b, t)
<1> DEFINE D == b.depths[Opposite(t.side)]
           side == Opposite(t.side)
<1>1. /\ f \in D /\ \A n \in D \ {f} : Precedes(f, n)
      /\ side \in Sides /\ IsDepth(D, side)
  BY DEF Leads, IsLine
<1>2. /\ t.side \in Sides /\ t.size \in Nat /\ t.funds \in Nat /\ t.price \in Nat
      /\ f.price \in Nat /\ f.side = side
      /\ \A m \in D : m.price \in Nat /\ m.side = side
  BY <1>1, RestingFacts DEF IsTaker
<1> SUFFICES ASSUME NEW m \in D, Crosses(t, m)
             PROVE  IF BuysByFunds(t) THEN m.price > 0 /\ t.funds < m.price ELSE t.size = 0
  BY DEF Unserved
<1>3. IF side = "sell" THEN f.price <= m.price ELSE m.price <= f.price
  <2>1. CASE m = f
    BY <1>2, <2>1
  <2>2. CASE m # f
    <3>1. Precedes(f, m)
      BY <1>1, <2>2
    <3> QED
      BY <1>2, <3>1 DEF Precedes, Opposite, Sides
  <2> QED
    BY <2>1, <2>2
<1>4. Crosses(t, f)
  BY <1>2, <1>3 DEF Crosses, Opposite, Sides
<1>5. Asked(t, f) = 0
  BY <1>4
<1>6. CASE ~ BuysByFunds(t)
  BY <1>5, <1>6 DEF Asked
<1>7. CASE BuysByFunds(t)
  <2>1. t.funds \div f.price = 0
    BY <1>5, <1>7 DEF Asked
  <2>2. \A a \in Nat, p \in Nat : p > 0 /\ a \div p = 0 => a < p
    OBVIOUS
  <2>3. t.funds < f.price /\ f.price > 0
    BY <1>2, <1>7, <2>1, <2>2
  <2>4. side = "sell"
    BY <1>7 DEF BuysByFunds, Opposite
  <2> QED
    BY <1>2, <1>3, <1>7, <2>3, <2>4
<1> QED
  BY <1>6, <1>7

=============================================================================
