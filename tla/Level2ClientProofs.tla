------------------------- MODULE Level2ClientProofs -------------------------
(***************************************************************************)
(* Theorems about the level-2 view of a client: it is exact, it only moves *)
(* forward, and it comes to the number the level-2 writer believes it has. *)
(*                                                                         *)
(* The invariant follows the numbers from the view through what is queued  *)
(* for the peer to what the level-2 writer holds back.                     *)
(***************************************************************************)
EXTENDS Level2Client, TLAPS, SequenceTheorems, NaturalsInduction, WellFoundedInduction

Numbers == 0 .. MaxChanges
Changes == 1 .. MaxChanges

\* What may stand in l2ChangeCh.
Entries == Numbers \cup {Other}

\* What may stand in writeCh.
Queued ==
    {ChangeMessage(n) : n \in Changes} \cup {Snapshot(n) : n \in Numbers}
        \cup {Update(c) : c \in Seq(Changes) \ {<< >>}}

TypeInv ==
    /\ touches \in [Changes -> Changed]
    /\ seq \in Numbers
    /\ saved \in -1 .. seq
    /\ publishing \in BOOLEAN /\ (publishing => seq \in Changes)
    /\ writeCh \in Seq(Queued)
    /\ l2ChangeCh \in Seq(Entries)
    /\ state \in [resendSnapshot : BOOLEAN, changes : Seq(Changes), lastSeq : Numbers]
    /\ state.resendSnapshot => state.changes = << >>
    /\ mixed \in BOOLEAN
    /\ view.seq \in -1 .. MaxChanges
    /\ view.seq = -1 => view = Blank

\* The messages of a queue that are written to the peer.
ForPeer(ch) == {i \in 1 .. Len(ch) : ch[i].kind # "change"}

\* The numbers a message leads to, and from.
Top(m) == IF m.kind = "snapshot" THEN m.seq ELSE m.changes[Len(m.changes)]
Bottom(m) == IF m.kind = "snapshot" THEN m.seq ELSE m.changes[1] - 1

\* A view that stands at v leads to n once the messages before j are written.
Reaches(v, ch, j, n) == v = n \/ \E i \in ForPeer(ch) : i < j /\ Top(ch[i]) = n

\* The messages lead from v to last and never back.
Ordered(v, ch, last) ==
    /\ v <= last
    /\ \A i \in ForPeer(ch) : v <= Top(ch[i]) /\ Top(ch[i]) <= last
    /\ \A i, j \in ForPeer(ch) : i < j => Top(ch[i]) <= Top(ch[j])

\* Changes that follow each other, the first of them low + 1.
Consecutive(changes, low) == \A k \in 1 .. Len(changes) : changes[k] = low + k

\* No change is missing in the messages or between them, and none is old.
Chained(v, ch) ==
    /\ \A i \in ForPeer(ch) : v <= Bottom(ch[i])
    /\ \A i, j \in ForPeer(ch) : i < j => Top(ch[i]) <= Bottom(ch[j])
    /\ \A j \in ForPeer(ch) :
          ch[j].kind = "update" =>
              /\ Consecutive(ch[j].changes, Bottom(ch[j]))
              /\ Reaches(v, ch, j, Bottom(ch[j]))

\* The number behind which the changes held back begin.
Low == state.lastSeq - Len(state.changes)

All == Len(writeCh) + 1

InOrder ==
    /\ Ordered(view.seq, writeCh, state.lastSeq)
    /\ ~state.resendSnapshot /\ state.changes = << >> =>
          Reaches(view.seq, writeCh, All, state.lastSeq)

\* What the view shows, having begun with a snapshot.
Shown ==
    /\ view.from \in Numbers /\ view.from <= view.seq
    /\ view.levels = ViewAt(view.from, view.seq)

Exact ==
    ~mixed =>
        /\ view.seq # -1 => Shown
        /\ Chained(view.seq, writeCh)
        /\ Ordered(view.seq, writeCh, Low)
        /\ ~state.resendSnapshot =>
              /\ Consecutive(state.changes, Low)
              /\ Reaches(view.seq, writeCh, All, Low)

L2Inv == TypeInv /\ InOrder /\ Exact

-----------------------------------------------------------------------------
(* Messages and queues. *)

LEMMA NumberFacts ==
    /\ MaxChanges \in Nat
    /\ \A n \in Numbers : n \in Int
    /\ \A n \in Changes : n \in Numbers /\ n \in Int
BY Level2Assumption DEF Numbers, Changes

LEMMA UpdateFacts ==
    ASSUME NEW c \in Seq(Changes), c # << >>
    PROVE  /\ Len(c) \in Nat \ {0}
           /\ \A k \in 1 .. Len(c) : c[k] \in Changes
           /\ c[1] \in Changes /\ c[1] - 1 \in Numbers
           /\ c[Len(c)] \in Changes
<1>1. Len(c) \in Nat /\ Len(c) # 0
  BY LenProperties, EmptySeq
<1>2. \A k \in 1 .. Len(c) : c[k] \in Changes
  BY ElementOfSeq
<1>3. 1 \in 1 .. Len(c) /\ Len(c) \in 1 .. Len(c)
  BY <1>1
<1>4. c[1] \in Changes /\ c[Len(c)] \in Changes
  BY <1>2, <1>3
<1>5. c[1] - 1 \in Numbers
  BY <1>4, NumberFacts DEF Numbers, Changes
<1> QED
  BY <1>1, <1>2, <1>4, <1>5

LEMMA QueuedFacts ==
    ASSUME NEW m \in Queued
    PROVE  /\ m.kind \in {"change", "snapshot", "update"}
           /\ m.kind = "change" => m.seq \in Changes
           /\ m.kind = "snapshot" => m.seq \in Numbers
           /\ m.kind = "update" => m.changes \in Seq(Changes) /\ m.changes # << >>
           /\ m.kind # "change" => Top(m) \in Numbers /\ Bottom(m) \in Numbers
<1>1. CASE m \in {ChangeMessage(n) : n \in Changes}
  BY <1>1 DEF ChangeMessage
<1>2. CASE m \in {Snapshot(n) : n \in Numbers}
  <2>1. m.kind = "snapshot" /\ m.seq \in Numbers
    BY <1>2 DEF Snapshot
  <2> QED
    BY <2>1 DEF Top, Bottom
<1>3. CASE m \in {Update(c) : c \in Seq(Changes) \ {<< >>}}
  <2>1. m.kind = "update" /\ m.changes \in Seq(Changes) /\ m.changes # << >>
    BY <1>3 DEF Update
  <2>2. Top(m) \in Numbers /\ Bottom(m) \in Numbers
    BY <2>1, UpdateFacts, NumberFacts DEF Top, Bottom
  <2> QED
    BY <2>1, <2>2
<1> QED
  BY <1>1, <1>2, <1>3 DEF Queued

LEMMA ForPeerFacts ==
    ASSUME NEW ch \in Seq(Queued)
    PROVE  /\ Len(ch) \in Nat
           /\ \A i \in 1 .. Len(ch) : ch[i] \in Queued
           /\ \A i \in ForPeer(ch) : /\ i \in 1 .. Len(ch) /\ i \in Int
                                     /\ ch[i] \in Queued /\ ch[i].kind # "change"
                                     /\ Top(ch[i]) \in Int /\ Bottom(ch[i]) \in Int
<1>1. Len(ch) \in Nat /\ \A i \in 1 .. Len(ch) : ch[i] \in Queued
  BY LenProperties, ElementOfSeq
<1> QED
  BY <1>1, QueuedFacts, NumberFacts DEF ForPeer

\* d is ch with message m behind it.
Extends(d, ch, m) ==
    /\ Len(d) = Len(ch) + 1
    /\ \A i \in ForPeer(ch) : d[i] = ch[i]
    /\ m.kind = "change" => ForPeer(d) = ForPeer(ch)
    /\ m.kind # "change" => ForPeer(d) = ForPeer(ch) \cup {Len(ch) + 1}
    /\ d[Len(ch) + 1] = m

LEMMA AppendExtends ==
    ASSUME NEW ch \in Seq(Queued), NEW m \in Queued
    PROVE  Append(ch, m) \in Seq(Queued) /\ Extends(Append(ch, m), ch, m)
<1> DEFINE d == Append(ch, m)
<1>1. /\ d \in Seq(Queued) /\ Len(d) = Len(ch) + 1 /\ Len(ch) \in Nat
      /\ \A i \in 1 .. Len(ch) : d[i] = ch[i]
      /\ d[Len(ch) + 1] = m
  BY AppendProperties, LenProperties
<1> HIDE DEF d
<1>2. 1 .. Len(d) = 1 .. Len(ch) \cup {Len(ch) + 1}
  BY <1>1
<1> QED
  BY <1>1, <1>2 DEF Extends, ForPeer, d

\* d is ch without its first message.
Shortens(d, ch) ==
    /\ Len(ch) = Len(d) + 1
    /\ \A i \in ForPeer(d) : i + 1 \in ForPeer(ch) /\ d[i] = ch[i + 1]
    /\ \A i \in ForPeer(ch) : i # 1 => i - 1 \in ForPeer(d) /\ d[i - 1] = ch[i]
    /\ 1 \in ForPeer(ch) <=> Head(ch).kind # "change"
    /\ Head(ch) = ch[1]

LEMMA TailShortens ==
    ASSUME NEW ch \in Seq(Queued), ch # << >>
    PROVE  /\ Tail(ch) \in Seq(Queued) /\ Shortens(Tail(ch), ch)
           /\ Head(ch) \in Queued
<1> DEFINE d == Tail(ch)
<1>1. /\ d \in Seq(Queued) /\ Len(d) = Len(ch) - 1 /\ Len(ch) \in Nat /\ Len(ch) # 0
      /\ \A i \in 1 .. Len(d) : d[i] = ch[i + 1]
      /\ Head(ch) \in Queued
  BY HeadTailProperties, LenProperties, EmptySeq
<1>2. Head(ch) = ch[1]
  OBVIOUS
<1> HIDE DEF d
<1>3. ASSUME NEW i \in ForPeer(d)
      PROVE  i + 1 \in ForPeer(ch) /\ d[i] = ch[i + 1]
  BY <1>1 DEF ForPeer
<1>4. ASSUME NEW i \in ForPeer(ch), i # 1
      PROVE  i - 1 \in ForPeer(d) /\ d[i - 1] = ch[i]
  <2>1. i - 1 \in 1 .. Len(d) /\ (i - 1) + 1 = i
    BY <1>1, <1>4 DEF ForPeer
  <2>2. d[i - 1] = ch[i]
    BY <1>1, <2>1
  <2> QED
    BY <2>1, <2>2 DEF ForPeer
<1>5. 1 \in ForPeer(ch) <=> Head(ch).kind # "change"
  BY <1>1, <1>2 DEF ForPeer
<1>6. Len(ch) = Len(d) + 1
  BY <1>1
<1>7. Shortens(d, ch)
  BY <1>2, <1>3, <1>4, <1>5, <1>6 DEF Shortens
<1> QED
  BY <1>1, <1>7, Zenon DEF d

-----------------------------------------------------------------------------
(* A message joins a queue. *)

LEMMA ChangeJoins ==
    ASSUME NEW ch \in Seq(Queued), NEW d, NEW m \in Queued, Extends(d, ch, m),
           m.kind = "change", NEW v
    PROVE  /\ \A last : Ordered(v, ch, last) => Ordered(v, d, last)
           /\ Chained(v, ch) => Chained(v, d)
           /\ \A n : Reaches(v, ch, Len(ch) + 1, n) => Reaches(v, d, Len(d) + 1, n)
<1>1. /\ ForPeer(d) = ForPeer(ch) /\ \A i \in ForPeer(ch) : d[i] = ch[i]
      /\ Len(d) = Len(ch) + 1 /\ Len(ch) \in Nat
      /\ \A i \in ForPeer(ch) : i \in 1 .. Len(ch)
  BY ForPeerFacts DEF Extends
<1>2. \A last : Ordered(v, ch, last) => Ordered(v, d, last)
  BY <1>1 DEF Ordered
<1>3. \A j, n : Reaches(v, ch, j, n) => Reaches(v, d, j, n)
  BY <1>1 DEF Reaches
<1>4. Chained(v, ch) => Chained(v, d)
  BY <1>1, <1>3 DEF Chained
<1>5. \A n : Reaches(v, ch, Len(ch) + 1, n) => Reaches(v, d, Len(d) + 1, n)
  BY <1>1 DEF Reaches
<1> QED
  BY <1>2, <1>4, <1>5

LEMMA MessageJoins ==
    ASSUME NEW ch \in Seq(Queued), NEW d, NEW m \in Queued, Extends(d, ch, m),
           m.kind # "change", NEW v \in Int, NEW last \in Int,
           Ordered(v, ch, last), last <= Top(m)
    PROVE  /\ Ordered(v, d, Top(m))
           /\ Reaches(v, d, Len(d) + 1, Top(m))
<1>1. /\ ForPeer(d) = ForPeer(ch) \cup {Len(ch) + 1}
      /\ \A i \in ForPeer(ch) : d[i] = ch[i]
      /\ Len(d) = Len(ch) + 1 /\ Len(ch) \in Nat /\ d[Len(ch) + 1] = m
      /\ \A i \in ForPeer(ch) : i \in 1 .. Len(ch) /\ i \in Int /\ Top(ch[i]) \in Int
      /\ Top(m) \in Int
  BY ForPeerFacts, QueuedFacts, NumberFacts DEF Extends
<1>2. /\ v <= last
      /\ \A i \in ForPeer(ch) : v <= Top(ch[i]) /\ Top(ch[i]) <= last
      /\ \A i, j \in ForPeer(ch) : i < j => Top(ch[i]) <= Top(ch[j])
  BY DEF Ordered
<1>3. \A i \in ForPeer(d) : v <= Top(d[i]) /\ Top(d[i]) <= Top(m)
  BY <1>1, <1>2
<1>4. ASSUME NEW i \in ForPeer(d), NEW j \in ForPeer(d), i < j
      PROVE  Top(d[i]) <= Top(d[j])
  <2>1. i \in ForPeer(ch)
    BY <1>1, <1>4
  <2>2. CASE j \in ForPeer(ch)
    BY <1>1, <1>2, <1>4, <2>1, <2>2
  <2>3. CASE j = Len(ch) + 1
    BY <1>1, <1>3, <2>3
  <2> QED
    BY <1>1, <2>2, <2>3
<1>5. Ordered(v, d, Top(m))
  BY <1>1, <1>2, <1>3, <1>4 DEF Ordered
<1>6. Reaches(v, d, Len(d) + 1, Top(m))
  <2>1. Len(ch) + 1 \in ForPeer(d) /\ Len(ch) + 1 < Len(d) + 1
    BY <1>1
  <2> QED
    BY <1>1, <2>1 DEF Reaches
<1> QED
  BY <1>5, <1>6

LEMMA MessageChains ==
    ASSUME NEW ch \in Seq(Queued), NEW d, NEW m \in Queued, Extends(d, ch, m),
           m.kind # "change", NEW v \in Int, NEW low \in Int,
           Ordered(v, ch, low), Chained(v, ch), low <= Bottom(m),
           m.kind = "update" => /\ low = Bottom(m)
                                /\ Consecutive(m.changes, low)
                                /\ Reaches(v, ch, Len(ch) + 1, low)
    PROVE  Chained(v, d)
<1>1. /\ ForPeer(d) = ForPeer(ch) \cup {Len(ch) + 1}
      /\ \A i \in ForPeer(ch) : d[i] = ch[i]
      /\ Len(d) = Len(ch) + 1 /\ Len(ch) \in Nat /\ d[Len(ch) + 1] = m
      /\ \A i \in ForPeer(ch) : /\ i \in 1 .. Len(ch) /\ i \in Int
                                /\ Top(ch[i]) \in Int /\ Bottom(ch[i]) \in Int
      /\ Bottom(m) \in Int
  BY ForPeerFacts, QueuedFacts, NumberFacts DEF Extends
<1>2. /\ v <= low
      /\ \A i \in ForPeer(ch) : v <= Top(ch[i]) /\ Top(ch[i]) <= low
  BY DEF Ordered
<1>3. /\ \A i \in ForPeer(ch) : v <= Bottom(ch[i])
      /\ \A i, j \in ForPeer(ch) : i < j => Top(ch[i]) <= Bottom(ch[j])
      /\ \A j \in ForPeer(ch) :
            ch[j].kind = "update" => /\ Consecutive(ch[j].changes, Bottom(ch[j]))
                                     /\ Reaches(v, ch, j, Bottom(ch[j]))
  BY DEF Chained
<1>4. ASSUME NEW j \in ForPeer(ch) \cup {Len(ch) + 1}, NEW n, Reaches(v, ch, j, n)
      PROVE  Reaches(v, d, j, n)
  BY <1>1, <1>4 DEF Reaches
<1>5. \A i \in ForPeer(d) : v <= Bottom(d[i])
  BY <1>1, <1>2, <1>3
<1>6. ASSUME NEW i \in ForPeer(d), NEW j \in ForPeer(d), i < j
      PROVE  Top(d[i]) <= Bottom(d[j])
  <2>1. i \in ForPeer(ch)
    BY <1>1, <1>6
  <2>2. CASE j \in ForPeer(ch)
    BY <1>1, <1>3, <1>6, <2>1, <2>2
  <2>3. CASE j = Len(ch) + 1
    <3>1. d[i] = ch[i] /\ d[j] = m /\ Top(ch[i]) \in Int
      BY <1>1, <2>1, <2>3
    <3>2. Top(ch[i]) <= low
      BY <1>2, <2>1
    <3> QED
      BY <1>1, <3>1, <3>2
  <2> QED
    BY <1>1, <2>2, <2>3
<1>7. ASSUME NEW j \in ForPeer(d), d[j].kind = "update"
      PROVE  Consecutive(d[j].changes, Bottom(d[j])) /\ Reaches(v, d, j, Bottom(d[j]))
  <2>1. CASE j \in ForPeer(ch)
    <3>1. d[j] = ch[j]
      BY <1>1, <2>1
    <3>2. Consecutive(ch[j].changes, Bottom(ch[j])) /\ Reaches(v, ch, j, Bottom(ch[j]))
      BY <1>3, <1>7, <2>1, <3>1
    <3> QED
      BY <1>4, <2>1, <3>1, <3>2
  <2>2. CASE j = Len(ch) + 1
    <3>1. d[j] = m
      BY <1>1, <2>2
    <3>2. Consecutive(m.changes, Bottom(m)) /\ Reaches(v, ch, j, Bottom(m))
      BY <1>7, <2>2, <3>1
    <3> QED
      BY <1>4, <2>2, <3>1, <3>2
  <2> QED
    BY <1>1, <2>1, <2>2
<1> QED
  BY <1>5, <1>6, <1>7 DEF Chained

-----------------------------------------------------------------------------
(* A message leaves a queue. *)

\* Where the view stands once message h is written.
After(v, h) == IF h.kind = "change" THEN v ELSE Top(h)

LEMMA LeavesOrdered ==
    ASSUME NEW ch \in Seq(Queued), NEW d \in Seq(Queued), Shortens(d, ch),
           NEW v \in Int, NEW last \in Int, Ordered(v, ch, last)
    PROVE  /\ Ordered(After(v, Head(ch)), d, last)
           /\ v <= After(v, Head(ch)) /\ After(v, Head(ch)) \in Int
<1> DEFINE w == After(v, Head(ch))
<1>1. /\ \A i \in ForPeer(d) : i + 1 \in ForPeer(ch) /\ d[i] = ch[i + 1]
      /\ 1 \in ForPeer(ch) <=> Head(ch).kind # "change"
      /\ Head(ch) = ch[1]
  BY DEF Shortens
<1>2. /\ v <= last
      /\ \A i \in ForPeer(ch) : v <= Top(ch[i]) /\ Top(ch[i]) <= last
      /\ \A i, j \in ForPeer(ch) : i < j => Top(ch[i]) <= Top(ch[j])
  BY DEF Ordered
<1>3. /\ \A i \in ForPeer(ch) : i \in 1 .. Len(ch) /\ i \in Int /\ Top(ch[i]) \in Int
      /\ \A i \in ForPeer(d) : i \in 1 .. Len(d) /\ i \in Int
  BY ForPeerFacts
<1>4. w \in Int /\ v <= w /\ w <= last
  BY <1>1, <1>2, <1>3 DEF After
<1>5. ASSUME NEW i \in ForPeer(d)
      PROVE  w <= Top(d[i]) /\ Top(d[i]) <= last
  <2>1. i + 1 \in ForPeer(ch) /\ d[i] = ch[i + 1] /\ 1 < i + 1
    BY <1>1, <1>3
  <2>2. CASE Head(ch).kind = "change"
    BY <1>2, <2>1, <2>2 DEF After
  <2>3. CASE Head(ch).kind # "change"
    BY <1>1, <1>2, <2>1, <2>3 DEF After
  <2> QED
    BY <2>2, <2>3
<1>6. ASSUME NEW i \in ForPeer(d), NEW j \in ForPeer(d), i < j
      PROVE  Top(d[i]) <= Top(d[j])
  <2>1. i + 1 < j + 1
    BY <1>3, <1>6
  <2> QED
    BY <1>1, <1>2, <2>1
<1> QED
  BY <1>4, <1>5, <1>6 DEF Ordered

LEMMA LeavesReaching ==
    ASSUME NEW ch \in Seq(Queued), NEW d \in Seq(Queued), Shortens(d, ch),
           NEW v \in Int, NEW n \in Int, Ordered(v, ch, n), Reaches(v, ch, Len(ch) + 1, n)
    PROVE  Reaches(After(v, Head(ch)), d, Len(d) + 1, n)
<1>1. /\ \A i \in ForPeer(ch) : i # 1 => i - 1 \in ForPeer(d) /\ d[i - 1] = ch[i]
      /\ 1 \in ForPeer(ch) <=> Head(ch).kind # "change"
      /\ Head(ch) = ch[1]
  BY DEF Shortens
<1>2. /\ \A i \in ForPeer(ch) : i \in 1 .. Len(ch) /\ i \in Int /\ Top(ch[i]) \in Int
      /\ \A i \in ForPeer(d) : i \in 1 .. Len(d) /\ i \in Int
      /\ Len(d) \in Nat
  BY ForPeerFacts
<1>3. CASE v = n
  <2>1. 1 \in ForPeer(ch) => v <= Top(ch[1]) /\ Top(ch[1]) <= n
    BY DEF Ordered
  <2>2. After(v, Head(ch)) = n
    BY <1>1, <1>2, <1>3, <2>1 DEF After
  <2> QED
    BY <2>2 DEF Reaches
<1>4. CASE v # n
  <2>1. PICK i \in ForPeer(ch) : Top(ch[i]) = n
    BY <1>4 DEF Reaches
  <2>2. CASE i = 1
    <3>1. After(v, Head(ch)) = n
      BY <1>1, <2>1, <2>2 DEF After
    <3> QED
      BY <3>1 DEF Reaches
  <2>3. CASE i # 1
    <3>1. i - 1 \in ForPeer(d) /\ d[i - 1] = ch[i] /\ i - 1 < Len(d) + 1
      BY <1>1, <1>2, <2>3
    <3> QED
      BY <2>1, <3>1 DEF Reaches
  <2> QED
    BY <2>2, <2>3
<1> QED
  BY <1>3, <1>4

LEMMA LeavesChained ==
    ASSUME NEW ch \in Seq(Queued), NEW d \in Seq(Queued), Shortens(d, ch),
           NEW v \in Int, NEW last \in Int, Ordered(v, ch, last), Chained(v, ch)
    PROVE  Chained(After(v, Head(ch)), d)
<1> DEFINE w == After(v, Head(ch))
<1>1. /\ \A i \in ForPeer(d) : i + 1 \in ForPeer(ch) /\ d[i] = ch[i + 1]
      /\ \A i \in ForPeer(ch) : i # 1 => i - 1 \in ForPeer(d) /\ d[i - 1] = ch[i]
      /\ 1 \in ForPeer(ch) <=> Head(ch).kind # "change"
      /\ Head(ch) = ch[1]
  BY DEF Shortens
<1>2. /\ \A i \in ForPeer(ch) : v <= Bottom(ch[i])
      /\ \A i, j \in ForPeer(ch) : i < j => Top(ch[i]) <= Bottom(ch[j])
      /\ \A j \in ForPeer(ch) :
            ch[j].kind = "update" => /\ Consecutive(ch[j].changes, Bottom(ch[j]))
                                     /\ Reaches(v, ch, j, Bottom(ch[j]))
  BY DEF Chained
<1>3. /\ \A i \in ForPeer(ch) : /\ i \in 1 .. Len(ch) /\ i \in Int
                                /\ Top(ch[i]) \in Int /\ Bottom(ch[i]) \in Int
      /\ \A i \in ForPeer(d) : i \in 1 .. Len(d) /\ i \in Int
      /\ \A i \in ForPeer(ch) : v <= Top(ch[i])
  BY ForPeerFacts DEF Ordered
<1>4. ASSUME NEW i \in ForPeer(d)
      PROVE  w <= Bottom(d[i])
  <2>1. i + 1 \in ForPeer(ch) /\ d[i] = ch[i + 1] /\ 1 < i + 1
    BY <1>1, <1>3
  <2>2. CASE Head(ch).kind = "change"
    BY <1>2, <2>1, <2>2 DEF After
  <2>3. CASE Head(ch).kind # "change"
    BY <1>1, <1>2, <2>1, <2>3 DEF After
  <2> QED
    BY <2>2, <2>3
<1>5. ASSUME NEW i \in ForPeer(d), NEW j \in ForPeer(d), i < j
      PROVE  Top(d[i]) <= Bottom(d[j])
  <2>1. i + 1 < j + 1
    BY <1>3, <1>5
  <2> QED
    BY <1>1, <1>2, <2>1
<1>6. ASSUME NEW j \in ForPeer(d), d[j].kind = "update"
      PROVE  Consecutive(d[j].changes, Bottom(d[j])) /\ Reaches(w, d, j, Bottom(d[j]))
  <2>1. j + 1 \in ForPeer(ch) /\ d[j] = ch[j + 1] /\ 1 < j + 1 /\ j \in Int
    BY <1>1, <1>3
  <2>2. /\ Consecutive(d[j].changes, Bottom(d[j]))
        /\ Reaches(v, ch, j + 1, Bottom(d[j]))
        /\ Bottom(d[j]) \in Int
    BY <1>2, <1>3, <1>6, <2>1
  <2> SUFFICES Reaches(w, d, j, Bottom(d[j]))
    BY <2>2
  <2>3. CASE v = Bottom(d[j])
    <3>1. CASE Head(ch).kind = "change"
      BY <2>3, <3>1 DEF After, Reaches
    <3>2. CASE Head(ch).kind # "change"
      <4>1. 1 \in ForPeer(ch) /\ w = Top(ch[1])
        BY <1>1, <3>2 DEF After
      <4>2. v <= Top(ch[1]) /\ Top(ch[1]) <= Bottom(d[j]) /\ Top(ch[1]) \in Int
        BY <1>2, <1>3, <2>1, <4>1
      <4>3. w = Bottom(d[j])
        BY <2>2, <2>3, <4>1, <4>2
      <4> QED
        BY <4>3 DEF Reaches
    <3> QED
      BY <3>1, <3>2
  <2>4. CASE v # Bottom(d[j])
    <3>1. PICK i \in ForPeer(ch) : i < j + 1 /\ Top(ch[i]) = Bottom(d[j])
      BY <2>2, <2>4 DEF Reaches
    <3>2. CASE i = 1
      <4>1. w = Bottom(d[j])
        BY <1>1, <3>1, <3>2 DEF After
      <4> QED
        BY <4>1 DEF Reaches
    <3>3. CASE i # 1
      <4>1. i - 1 \in ForPeer(d) /\ d[i - 1] = ch[i] /\ i - 1 < j
        BY <1>1, <1>3, <2>1, <3>1, <3>3
      <4> QED
        BY <3>1, <4>1 DEF Reaches
    <3> QED
      BY <3>2, <3>3
  <2> QED
    BY <2>2, <2>3, <2>4
<1> QED
  BY <1>4, <1>5, <1>6 DEF Chained

\* The first message of the queue starts where the view is.
LEMMA FirstFollowsView ==
    ASSUME NEW ch \in Seq(Queued), NEW v \in Int, Chained(v, ch),
           1 \in ForPeer(ch), ch[1].kind = "update"
    PROVE  v = Bottom(ch[1]) /\ Consecutive(ch[1].changes, v)
<1>1. Reaches(v, ch, 1, Bottom(ch[1])) /\ Consecutive(ch[1].changes, Bottom(ch[1]))
  BY DEF Chained
<1>2. \A i \in ForPeer(ch) : i \in 1 .. Len(ch) /\ ~ (i < 1)
  BY ForPeerFacts
<1> QED
  BY <1>1, <1>2 DEF Reaches

-----------------------------------------------------------------------------
(* What an update makes of the levels. *)

LEMMA MaxIs ==
    ASSUME NEW S \in SUBSET Int, NEW x \in S, \A y \in S : y <= x
    PROVE  Max(S) = x
<1>1. \A z \in S : (\A y \in S : z >= y) => z = x
  OBVIOUS
<1>2. x >= x /\ \A y \in S : x >= y
  OBVIOUS
<1> QED
  BY <1>1, <1>2 DEF Max

\* Numbers up to a bound have a greatest one.
LEMMA GreatestNumber ==
    ASSUME NEW n \in Nat, NEW S \in SUBSET (1 .. n), S # {}
    PROVE  \E x \in S : \A y \in S : y <= x
<1> DEFINE gaps == {n - y : y \in S}
           Below == {ss \in Nat \X Nat : ss[1] < ss[2]}
<1>1. gaps \in SUBSET Nat /\ gaps # {}
  <2>1. \A y \in S : n - y \in Nat
    OBVIOUS
  <2>2. gaps \subseteq Nat
    BY <2>1
  <2>3. PICK y \in S : TRUE
    OBVIOUS
  <2>4. n - y \in gaps
    OBVIOUS
  <2> QED
    BY <2>2, <2>4
<1>2. IsWellFoundedOn(Below, Nat)
  BY NatLessThanWellFounded DEF OpToRel
<1> HIDE DEF gaps
<1>3. PICK g \in gaps : \A h \in gaps : ~ (<<h, g>> \in Below)
  BY <1>1, <1>2, WFMin
<1>4. ASSUME NEW h \in gaps, h < g
      PROVE  <<h, g>> \in Below
  BY <1>1, <1>4
<1>5. \A h \in gaps : ~ (h < g)
  BY <1>3, <1>4, Zenon
<1>6. PICK x \in S : g = n - x
  BY DEF gaps
<1>7. ASSUME NEW y \in S
      PROVE  y <= x
  <2>1. ~ (n - y < g)
    BY <1>5 DEF gaps
  <2> QED
    BY <1>6, <2>1
<1> QED
  BY <1>7

\* The last change of a level is at most the n it is looked for among, and is
\* among the first n what it is among fewer, unless a later one sets the level.
LEMMA LastChangeIs ==
    ASSUME touches \in [Changes -> Changed], NEW n \in Numbers, NEW l
    PROVE  /\ LastChange(n, l) \in 0 .. n
           /\ \A i \in 1 .. n : touches[i].level = l => i <= LastChange(n, l)
           /\ LastChange(n, l) # 0 => touches[LastChange(n, l)].level = l
<1> DEFINE T == {0} \cup {i \in 1 .. n : touches[i].level = l}
<1>1. n \in Nat /\ T \in SUBSET Int /\ LastChange(n, l) = Max(T)
  BY NumberFacts DEF LastChange, Numbers
<1>2. CASE {i \in 1 .. n : touches[i].level = l} = {}
  <2>1. 0 \in T /\ \A y \in T : y <= 0
    BY <1>2
  <2>2. Max(T) = 0
    BY <1>1, <2>1, MaxIs
  <2> QED
    BY <1>1, <1>2, <2>2
<1>3. CASE {i \in 1 .. n : touches[i].level = l} # {}
  <2> DEFINE S == {i \in 1 .. n : touches[i].level = l}
  <2>1. PICK x \in S : \A y \in S : y <= x
    <3>1. S \in SUBSET (1 .. n)
      OBVIOUS
    <3> QED
      BY <1>1, <1>3, <3>1, GreatestNumber
  <2>2. x \in T /\ \A y \in T : y <= x
    BY <1>1, <2>1
  <2>3. Max(T) = x
    BY <1>1, <2>2, MaxIs
  <2>4. x \in 1 .. n /\ touches[x].level = l /\ LastChange(n, l) = x
    BY <1>1, <2>1, <2>3
  <2>5. \A i \in 1 .. n : touches[i].level = l => i <= x
    BY <2>1
  <2> HIDE DEF T, S
  <2> QED
    BY <1>1, <2>4, <2>5
<1> QED
  BY <1>2, <1>3

\* A peer that has just got a snapshot has what is in it.
LEMMA SnapshotIsView ==
    ASSUME touches \in [Changes -> Changed], NEW n \in Numbers
    PROVE  SnapshotAt(n) = ViewAt(n, n)
<1>1. ASSUME NEW l \in Levels
      PROVE  LastChange(n, l) <= n
  BY LastChangeIs, NumberFacts DEF Numbers
<1> QED
  BY <1>1 DEF SnapshotAt, ViewAt

\* Changes that follow a view make it that of the last of them.
LEMMA PutOverIsView ==
    ASSUME touches \in [Changes -> Changed],
           NEW s \in Numbers, NEW low \in Numbers, s <= low,
           NEW c \in Seq(Changes), c # << >>, Consecutive(c, low)
    PROVE  PutOver(ViewAt(s, low), c) = ViewAt(s, c[Len(c)])
<1> DEFINE top == c[Len(c)]
<1>1. /\ Len(c) \in Nat /\ Len(c) >= 1 /\ DOMAIN c = 1 .. Len(c)
      /\ low \in Nat /\ s \in Nat /\ top \in Changes
  BY UpdateFacts, LenProperties, NumberFacts DEF Numbers
<1>2. \A k \in 1 .. Len(c) : c[k] = low + k
  BY DEF Consecutive
<1>3. top = low + Len(c)
  BY <1>1, <1>2
<1>4. top \in Numbers
  BY <1>1, NumberFacts
<1> HIDE DEF top
<1>5. ASSUME NEW l \in Levels
      PROVE  PutOver(ViewAt(s, low), c)[l] = ViewAt(s, top)[l]
  <2> DEFINE mine == {k \in DOMAIN c : touches[c[k]].level = l}
             before == LastChange(low, l)
             after == LastChange(top, l)
  <2>1. /\ ViewAt(s, low)[l] =
              IF before <= s /\ CutOff(s, l) THEN 0 ELSE SizeOf(before)
        /\ ViewAt(s, top)[l] =
              IF after <= s /\ CutOff(s, l) THEN 0 ELSE SizeOf(after)
        /\ PutOver(ViewAt(s, low), c)[l] =
              IF mine = {} THEN ViewAt(s, low)[l] ELSE SizeOf(c[Max(mine)])
    BY DEF ViewAt, BookAt, PutOver
  <2>2. /\ before \in 0 .. low /\ after \in 0 .. top
        /\ \A i \in 1 .. low : touches[i].level = l => i <= before
        /\ \A i \in 1 .. top : touches[i].level = l => i <= after
        /\ before # 0 => touches[before].level = l
        /\ after # 0 => touches[after].level = l
    BY <1>4, LastChangeIs
  <2> HIDE DEF before, after
  <2>3. \A k \in 1 .. Len(c) : k \in mine <=> touches[low + k].level = l
    BY <1>1, <1>2
  <2>4. mine \in SUBSET Int /\ \A k \in mine : k \in 1 .. Len(c)
    BY <1>1
  <2>5. CASE mine = {}
    <3>1. after <= low
      <4>1. CASE after > low
        <5>1. after - low \in 1 .. Len(c) /\ low + (after - low) = after
          BY <1>1, <1>3, <2>2, <4>1
        <5>2. touches[after].level = l
          BY <1>1, <2>2, <4>1
        <5>3. after - low \in mine
          BY <2>3, <5>1, <5>2
        <5> QED
          BY <2>5, <5>3
      <4> QED
        BY <1>1, <1>3, <2>2, <4>1
    <3>2. before <= after /\ after <= before
      BY <1>1, <1>3, <2>2, <3>1
    <3>3. before = after
      BY <1>1, <1>3, <2>2, <3>2
    <3> QED
      BY <2>1, <2>5, <3>3
  <2>6. CASE mine # {}
    <3>1. PICK k \in mine : \A j \in mine : j <= k
      BY <1>1, <2>4, <2>6, GreatestNumber
    <3>2. Max(mine) = k /\ k \in 1 .. Len(c)
      BY <2>4, <3>1, MaxIs
    <3>3. c[k] = low + k /\ touches[low + k].level = l /\ low + k \in 1 .. top
      BY <1>1, <1>2, <1>3, <2>3, <3>1, <3>2
    <3>4. low + k <= after
      BY <2>2, <3>3
    <3>5. touches[after].level = l /\ after > low
      BY <1>1, <1>3, <2>2, <3>2, <3>4
    <3>6. after - low \in 1 .. Len(c) /\ low + (after - low) = after
      BY <1>1, <1>3, <2>2, <3>5
    <3>7. after - low \in mine
      BY <2>3, <3>5, <3>6
    <3>8. after = low + k
      <4>1. after - low <= k
        BY <3>1, <3>7
      <4> QED
        BY <1>1, <3>2, <3>4, <3>6, <4>1
    <3>9. ~ (after <= s)
      BY <1>1, <3>2, <3>8
    <3> HIDE DEF mine
    <3> QED
      BY <2>1, <2>6, <3>2, <3>3, <3>8, <3>9
  <2> QED
    BY <2>5, <2>6
<1>6. /\ PutOver(ViewAt(s, low), c) = [l \in Levels |-> PutOver(ViewAt(s, low), c)[l]]
      /\ ViewAt(s, top) = [l \in Levels |-> ViewAt(s, top)[l]]
  BY DEF PutOver, ViewAt
<1>7. PutOver(ViewAt(s, low), c) = ViewAt(s, top)
  BY <1>5, <1>6
<1> QED
  BY <1>7 DEF top

-----------------------------------------------------------------------------
(* The invariant holds at the start and is kept by every step. *)

LEMMA Whole ==
    ASSUME TypeInv
    PROVE  /\ writeCh \in Seq(Queued) /\ Len(writeCh) \in Nat
           /\ view.seq \in Int
           /\ state.lastSeq \in Numbers /\ state.lastSeq \in Int
           /\ state.changes \in Seq(Changes) /\ Len(state.changes) \in Nat
           /\ Low \in Int /\ Low <= state.lastSeq
<1>1. /\ state.lastSeq \in Numbers /\ state.lastSeq \in Int
      /\ state.changes \in Seq(Changes) /\ Len(state.changes) \in Nat
      /\ writeCh \in Seq(Queued) /\ Len(writeCh) \in Nat
  BY NumberFacts, LenProperties DEF TypeInv
<1>2. view.seq \in Int
  BY DEF TypeInv
<1> QED
  BY <1>1, <1>2 DEF Low

LEMMA ShownStays ==
    ASSUME UNCHANGED <<touches, view>>
    PROVE  Shown' = Shown
BY DEF Shown, ViewAt, LastChange, CutOff, BookAt, SizeOf

LEMMA ViewShown ==
    ASSUME UNCHANGED touches,
           view'.from \in Numbers, view'.from <= view'.seq,
           view'.levels = ViewAt(view'.from, view'.seq)
    PROVE  Shown'
BY DEF Shown, ViewAt, LastChange, CutOff, BookAt, SizeOf

LEMMA FollowingStays ==
    ASSUME InOrder, Exact, UNCHANGED <<touches, writeCh, state, view, mixed>>
    PROVE  InOrder' /\ Exact'
<1>1. Shown' = Shown /\ Low' = Low /\ All' = All
  BY ShownStays DEF Low, All
<1> QED
  BY <1>1 DEF InOrder, Exact

LEMMA ChangeQueued ==
    ASSUME TypeInv, InOrder, Exact, NEW n \in Changes,
           writeCh' = Append(writeCh, ChangeMessage(n)),
           UNCHANGED <<touches, state, view, mixed>>
    PROVE  /\ writeCh' \in Seq(Queued)
           /\ InOrder' /\ Exact'
<1> DEFINE m == ChangeMessage(n)
           d == Append(writeCh, m)
<1>1. m \in Queued /\ m.kind = "change"
  BY DEF Queued, ChangeMessage
<1>2. writeCh \in Seq(Queued) /\ writeCh' = d
  BY Whole
<1> HIDE DEF m
<1>3. d \in Seq(Queued) /\ Extends(d, writeCh, m)
  BY <1>1, <1>2, AppendExtends
<1> HIDE DEF d
<1>4. /\ \A last : Ordered(view.seq, writeCh, last) => Ordered(view.seq, d, last)
      /\ Chained(view.seq, writeCh) => Chained(view.seq, d)
      /\ \A k : Reaches(view.seq, writeCh, Len(writeCh) + 1, k)
                  => Reaches(view.seq, d, Len(d) + 1, k)
  BY <1>1, <1>2, <1>3, ChangeJoins
<1>5. /\ Shown' = Shown
      /\ Low' = Low /\ All' = Len(d) + 1
  BY <1>2, ShownStays DEF Low, All
<1>6. InOrder'
  BY <1>2, <1>4, <1>5 DEF InOrder, All
<1>7. Exact'
  BY <1>2, <1>4, <1>5 DEF Exact, All
<1> QED
  BY <1>2, <1>3, <1>6, <1>7

LEMMA MessageLeaves ==
    ASSUME TypeInv, InOrder, Exact, writeCh # << >>, writeCh' = Tail(writeCh),
           view'.seq = After(view.seq, Head(writeCh)),
           ~ mixed /\ view'.seq # -1 => Shown',
           UNCHANGED <<touches, state, mixed>>
    PROVE  /\ writeCh' \in Seq(Queued)
           /\ InOrder' /\ Exact'
           /\ view.seq <= view'.seq
<1> DEFINE d == Tail(writeCh)
<1>1. /\ writeCh \in Seq(Queued) /\ writeCh' = d
      /\ view.seq \in Int /\ state.lastSeq \in Int /\ Low \in Int
  BY Whole
<1>2. d \in Seq(Queued) /\ Shortens(d, writeCh)
  BY <1>1, TailShortens
<1> HIDE DEF d
<1>3. Ordered(view.seq, writeCh, state.lastSeq)
  BY DEF InOrder
<1>4. Ordered(view'.seq, d, state.lastSeq) /\ view.seq <= view'.seq
  BY <1>1, <1>2, <1>3, LeavesOrdered
<1>5. Low' = Low /\ All' = Len(d) + 1
  BY <1>1 DEF Low, All
<1>6. InOrder'
  <2>1. ASSUME ~ state.resendSnapshot, state.changes = << >>
        PROVE  Reaches(view'.seq, d, Len(d) + 1, state.lastSeq)
    BY <1>1, <1>2, <1>3, <2>1, LeavesReaching DEF InOrder, All
  <2> QED
    BY <1>1, <1>4, <1>5, <2>1 DEF InOrder
<1>7. ASSUME ~ mixed
      PROVE  /\ Chained(view'.seq, d)
             /\ Ordered(view'.seq, d, Low)
             /\ ~ state.resendSnapshot =>
                   /\ Consecutive(state.changes, Low)
                   /\ Reaches(view'.seq, d, Len(d) + 1, Low)
  <2>1. Chained(view.seq, writeCh) /\ Ordered(view.seq, writeCh, Low)
    BY <1>7 DEF Exact
  <2>2. Chained(view'.seq, d) /\ Ordered(view'.seq, d, Low)
    BY <1>1, <1>2, <2>1, LeavesChained, LeavesOrdered
  <2>3. ASSUME ~ state.resendSnapshot
        PROVE  /\ Consecutive(state.changes, Low)
               /\ Reaches(view'.seq, d, Len(d) + 1, Low)
    BY <1>1, <1>2, <1>7, <2>1, <2>3, LeavesReaching DEF Exact, All
  <2> QED
    BY <2>2, <2>3
<1>8. Exact'
  BY <1>1, <1>5, <1>7 DEF Exact
<1> QED
  BY <1>1, <1>2, <1>4, <1>6, <1>8

LEMMA WriteToPeerKeeps ==
    ASSUME L2Inv, WriteToPeer
    PROVE  L2Inv' /\ view.seq <= view'.seq
<1> DEFINE m == Head(writeCh)
<1>1. /\ writeCh # << >> /\ writeCh' = Tail(writeCh) /\ m.kind # "change"
      /\ UNCHANGED <<touches, seq, saved, publishing, l2ChangeCh, state, mixed>>
  BY DEF WriteToPeer, marketVars, applierVars, l2Vars
<1>2. /\ writeCh \in Seq(Queued) /\ view.seq \in Int
  BY Whole DEF L2Inv
<1>3. m \in Queued /\ Shortens(Tail(writeCh), writeCh)
  BY <1>1, <1>2, TailShortens
<1>4. view' = IF m.kind = "snapshot"
              THEN [seq |-> m.seq, from |-> m.seq, levels |-> SnapshotAt(m.seq)]
              ELSE [seq |-> Last(m.changes), from |-> view.from,
                    levels |-> PutOver(view.levels, m.changes)]
  BY DEF WriteToPeer
<1>5. m = writeCh[1] /\ 1 \in ForPeer(writeCh)
  BY <1>1, <1>3 DEF Shortens
<1> HIDE DEF m
<1>6. view'.seq = Top(m)
  BY <1>4 DEF Top, Last
<1>7. view'.seq \in Numbers /\ view'.seq # -1
  BY <1>1, <1>3, <1>6, QueuedFacts, Level2Assumption DEF Numbers
<1>8. ASSUME ~ mixed
      PROVE  Shown'
  <2>1. CASE m.kind = "snapshot"
    <3>1. view'.levels = SnapshotAt(m.seq) /\ view'.from = m.seq /\ view'.seq = m.seq
      BY <1>4, <2>1
    <3>2. m.seq \in Numbers /\ touches \in [Changes -> Changed]
      BY <1>3, <2>1, QueuedFacts DEF L2Inv, TypeInv
    <3>3. SnapshotAt(m.seq) = ViewAt(m.seq, m.seq)
      BY <3>2, SnapshotIsView
    <3> QED
      BY <1>1, <3>1, <3>2, <3>3, ViewShown, NumberFacts
  <2>2. CASE m.kind # "snapshot"
    <3>1. m.kind = "update" /\ m.changes \in Seq(Changes) /\ m.changes # << >>
          /\ Bottom(m) \in Numbers
      BY <1>1, <1>3, <2>2, QueuedFacts
    <3>2. view.seq = Bottom(m) /\ Consecutive(m.changes, view.seq)
      BY <1>2, <1>5, <1>8, <3>1, FirstFollowsView DEF L2Inv, Exact
    <3>3. view.seq \in Numbers /\ view.seq # -1
      BY <3>1, <3>2, Level2Assumption DEF Numbers
    <3>4. Shown
      BY <1>8, <3>3 DEF L2Inv, Exact
    <3>5. /\ touches \in [Changes -> Changed]
          /\ view.from \in Numbers /\ view.from <= view.seq
          /\ view.levels = ViewAt(view.from, view.seq)
      BY <3>4 DEF L2Inv, TypeInv, Shown
    <3>6. PutOver(ViewAt(view.from, view.seq), m.changes)
            = ViewAt(view.from, m.changes[Len(m.changes)])
      BY <3>1, <3>2, <3>3, <3>5, PutOverIsView
    <3>7. /\ view'.levels = PutOver(view.levels, m.changes)
          /\ view'.from = view.from
          /\ view'.seq = m.changes[Len(m.changes)]
      BY <1>4, <2>2 DEF Last
    <3>8. view'.from <= view'.seq
      <4>1. view.seq <= view'.seq
        <5>1. Ordered(view.seq, writeCh, state.lastSeq)
          BY DEF L2Inv, InOrder
        <5> QED
          BY <1>5, <1>6, <5>1 DEF Ordered
      <4> QED
        BY <1>7, <3>3, <3>5, <3>7, <4>1, NumberFacts
    <3>9. view'.levels = ViewAt(view'.from, view'.seq)
      BY <3>5, <3>6, <3>7
    <3> QED
      BY <1>1, <3>5, <3>7, <3>8, <3>9, ViewShown
  <2> QED
    BY <2>1, <2>2
<1>9. view'.seq = After(view.seq, m)
  BY <1>1, <1>6 DEF After
<1>10. /\ writeCh' \in Seq(Queued) /\ InOrder' /\ Exact' /\ view.seq <= view'.seq
  BY <1>1, <1>8, <1>9, MessageLeaves DEF L2Inv, m
<1>11. view'.seq \in -1 .. MaxChanges
  BY <1>7, Level2Assumption DEF Numbers
<1>12. TypeInv'
  BY <1>1, <1>7, <1>10, <1>11 DEF L2Inv, TypeInv
<1> QED
  BY <1>10, <1>12 DEF L2Inv

LEMMA ForwardChangeKeeps ==
    ASSUME L2Inv, ForwardChange
    PROVE  L2Inv' /\ view' = view
<1>1. /\ writeCh # << >> /\ writeCh' = Tail(writeCh) /\ Head(writeCh).kind = "change"
      /\ l2ChangeCh' = Append(l2ChangeCh, Head(writeCh).seq)
      /\ UNCHANGED <<touches, seq, saved, publishing, state, mixed, view>>
  BY DEF ForwardChange, marketVars, applierVars, l2Vars
<1>2. Head(writeCh) \in Queued
  BY <1>1, Whole, TailShortens DEF L2Inv
<1>3. Head(writeCh).seq \in Numbers
  BY <1>1, <1>2, QueuedFacts, NumberFacts
<1>4. l2ChangeCh' \in Seq(Entries)
  BY <1>1, <1>3, AppendProperties DEF L2Inv, TypeInv, Entries
<1>5. ~ mixed /\ view'.seq # -1 => Shown'
  BY <1>1, ShownStays DEF L2Inv, Exact
<1>6. writeCh' \in Seq(Queued) /\ InOrder' /\ Exact'
  BY <1>1, <1>5, MessageLeaves DEF L2Inv, After
<1>7. TypeInv'
  BY <1>1, <1>4, <1>6 DEF L2Inv, TypeInv
<1> QED
  BY <1>1, <1>6, <1>7 DEF L2Inv

LEMMA NothingHeld ==
    ASSUME NEW c, c = << >>
    PROVE  /\ c \in Seq(Changes) /\ Len(c) = 0
           /\ \A low : Consecutive(c, low)
<1>1. c \in Seq(Changes) /\ Len(c) = 0
  BY EmptySeq
<1> QED
  BY <1>1 DEF Consecutive

LEMMA FurtherOn ==
    ASSUME NEW ch \in Seq(Queued), NEW v \in Int, NEW a \in Int, NEW b \in Int,
           Ordered(v, ch, a), a <= b
    PROVE  Ordered(v, ch, b)
BY ForPeerFacts DEF Ordered

LEMMA TakeKeepsQueue ==
    ASSUME TypeInv, NEW n, Take(n)
    PROVE  l2ChangeCh' \in Seq(Entries)
BY HeadTailProperties DEF Take, TypeInv

LEMMA SendSnapshotKeeps ==
    ASSUME L2Inv, NEW n \in Numbers, SendSnapshot(n)
    PROVE  L2Inv' /\ view' = view
<1> DEFINE m == Snapshot(saved)
           d == Append(writeCh, m)
<1>1. /\ saved # None /\ state.lastSeq <= saved
      /\ state' = [state EXCEPT !.lastSeq = saved, !.resendSnapshot = FALSE]
      /\ writeCh' = d
      /\ mixed' = (mixed \/ state.changes # << >>)
      /\ UNCHANGED <<touches, seq, saved, publishing, view>>
  BY DEF SendSnapshot, Usable, marketVars, applierVars
<1>2. /\ writeCh \in Seq(Queued) /\ view.seq \in Int /\ state.lastSeq \in Int
      /\ state.changes \in Seq(Changes) /\ Low \in Int /\ Low <= state.lastSeq
  BY Whole DEF L2Inv
<1>3. saved \in Numbers /\ saved \in Int
  BY SMTT(30), <1>1, Level2Assumption DEF L2Inv, TypeInv, None, Numbers
<1>4. m \in Queued /\ m.kind = "snapshot" /\ Top(m) = saved /\ Bottom(m) = saved
  BY <1>3 DEF Queued, Snapshot, Top, Bottom
<1>5. /\ state' \in [resendSnapshot : BOOLEAN, changes : Seq(Changes), lastSeq : Numbers]
      /\ state'.lastSeq = saved /\ state'.resendSnapshot = FALSE
      /\ state'.changes = state.changes
  BY <1>1, <1>3 DEF L2Inv, TypeInv
<1> HIDE DEF m
<1>6. d \in Seq(Queued) /\ Extends(d, writeCh, m)
  BY <1>2, <1>4, AppendExtends
<1> HIDE DEF d
<1>7. All' = Len(d) + 1 /\ Low' = saved - Len(state.changes)
  BY <1>1, <1>5 DEF All, Low
<1>8. Ordered(view.seq, d, saved) /\ Reaches(view.seq, d, Len(d) + 1, saved)
  BY <1>1, <1>2, <1>4, <1>6, MessageJoins DEF L2Inv, InOrder
<1>9. InOrder'
  BY <1>1, <1>5, <1>7, <1>8 DEF InOrder
<1>10. ASSUME ~ mixed'
       PROVE  /\ Chained(view.seq, d) /\ Low' = saved
              /\ \A low : Consecutive(state'.changes, low)
              /\ view.seq # -1 => Shown'
  <2>1. ~ mixed /\ state.changes = << >>
    BY <1>1, <1>10
  <2>2. Len(state.changes) = 0 /\ \A low : Consecutive(state.changes, low)
    BY <2>1, NothingHeld
  <2>3. Low = state.lastSeq /\ Low' = saved
    BY <1>2, <1>3, <1>7, <2>2 DEF Low
  <2>4. Chained(view.seq, writeCh) /\ Ordered(view.seq, writeCh, Low)
    BY <2>1 DEF L2Inv, Exact
  <2>5. Chained(view.seq, d)
    BY <1>1, <1>2, <1>4, <1>6, <2>3, <2>4, MessageChains
  <2>6. view.seq # -1 => Shown'
    BY <1>1, <2>1, ShownStays DEF L2Inv, Exact
  <2> QED
    BY <1>5, <2>2, <2>3, <2>5, <2>6
<1>11. Exact'
  BY <1>1, <1>5, <1>7, <1>8, <1>10 DEF Exact
<1>12. TypeInv'
  <2>1. l2ChangeCh' \in Seq(Entries)
    BY TakeKeepsQueue DEF SendSnapshot, L2Inv
  <2>2. mixed' \in BOOLEAN
    BY <1>1
  <2> QED
    BY <1>1, <1>5, <1>6, <2>1, <2>2 DEF L2Inv, TypeInv
<1> QED
  BY <1>1, <1>9, <1>11, <1>12 DEF L2Inv

LEMMA NoticeGapKeeps ==
    ASSUME L2Inv, NEW n \in Numbers, NoticeGap(n)
    PROVE  L2Inv' /\ view' = view
<1>1. /\ n > state.lastSeq
      /\ state' = [resendSnapshot |-> TRUE, changes |-> << >>, lastSeq |-> n]
      /\ UNCHANGED <<touches, seq, saved, publishing, writeCh, mixed, view>>
  BY DEF NoticeGap, marketVars, applierVars
<1>2. /\ writeCh \in Seq(Queued) /\ view.seq \in Int /\ state.lastSeq \in Int
      /\ Low \in Int /\ Low <= state.lastSeq /\ n \in Int
  BY Whole, NumberFacts DEF L2Inv
<1>3. state'.resendSnapshot = TRUE /\ state'.changes = << >> /\ state'.lastSeq = n
  BY <1>1
<1>4. state'.changes \in Seq(Changes) /\ Len(state'.changes) = 0
  BY <1>3, NothingHeld
<1>5. Low' = n /\ All' = All
  BY <1>1, <1>2, <1>3, <1>4 DEF Low, All
<1>6. Ordered(view.seq, writeCh, n)
  BY <1>1, <1>2, FurtherOn DEF L2Inv, InOrder
<1>7. InOrder'
  BY <1>1, <1>3, <1>6 DEF InOrder
<1>8. Exact'
  <2>1. ASSUME ~ mixed
        PROVE  view.seq # -1 => Shown'
    BY <1>1, <2>1, ShownStays DEF L2Inv, Exact
  <2>2. ~ mixed => Chained(view.seq, writeCh)
    BY DEF L2Inv, Exact
  <2> QED
    BY <1>1, <1>3, <1>5, <1>6, <2>1, <2>2 DEF Exact
<1>9. TypeInv'
  <2>1. l2ChangeCh' \in Seq(Entries)
    BY TakeKeepsQueue DEF NoticeGap, L2Inv
  <2>2. state' \in [resendSnapshot : BOOLEAN, changes : Seq(Changes), lastSeq : Numbers]
    BY <1>1, <1>3, <1>4
  <2> QED
    BY <1>1, <1>3, <2>1, <2>2 DEF L2Inv, TypeInv
<1> QED
  BY <1>1, <1>7, <1>8, <1>9 DEF L2Inv

LEMMA SendUpdateKeeps ==
    ASSUME L2Inv, NEW n \in Numbers, SendUpdate(n)
    PROVE  L2Inv' /\ view' = view
<1> DEFINE c == Append(state.changes, n)
           m == Update(c)
           d == Append(writeCh, m)
<1>1. /\ ~ state.resendSnapshot /\ n = state.lastSeq + 1
      /\ UNCHANGED <<touches, seq, saved, publishing, mixed, view>>
      /\ \/ /\ state' = [state EXCEPT !.lastSeq = n, !.changes = c]
            /\ UNCHANGED writeCh
         \/ /\ state' = [state EXCEPT !.lastSeq = n, !.changes = << >>]
            /\ writeCh' = d
  BY DEF SendUpdate, WantsSnapshot, Follows, marketVars, applierVars
<1>2. /\ writeCh \in Seq(Queued) /\ view.seq \in Int /\ state.lastSeq \in Int
      /\ state.lastSeq \in Numbers /\ n \in Int
      /\ state.changes \in Seq(Changes) /\ Len(state.changes) \in Nat
      /\ Low \in Int /\ Low <= state.lastSeq
  BY Whole, NumberFacts DEF L2Inv
<1>3. n \in Changes
  BY <1>1, <1>2 DEF Numbers, Changes
<1>4. /\ c \in Seq(Changes) /\ c # << >> /\ Len(c) = Len(state.changes) + 1
      /\ \A i \in 1 .. Len(state.changes) : c[i] = state.changes[i]
      /\ c[Len(c)] = n
  BY <1>2, <1>3, AppendProperties
<1> HIDE DEF c
<1>5. /\ m \in Queued /\ m.kind = "update" /\ m.changes = c
      /\ Top(m) = n /\ Bottom(m) = c[1] - 1
  BY <1>4 DEF Queued, Update, Top, Bottom
<1> HIDE DEF m
<1>6. d \in Seq(Queued) /\ Extends(d, writeCh, m)
  BY <1>2, <1>5, AppendExtends
<1> HIDE DEF d
<1>7. l2ChangeCh' \in Seq(Entries)
  BY TakeKeepsQueue DEF SendUpdate, L2Inv
<1>8. ASSUME ~ mixed
      PROVE  /\ Consecutive(c, Low)
             /\ Chained(view.seq, writeCh) /\ Ordered(view.seq, writeCh, Low)
             /\ Reaches(view.seq, writeCh, All, Low)
             /\ view.seq # -1 => Shown'
  <2>1. /\ Consecutive(state.changes, Low)
        /\ Chained(view.seq, writeCh) /\ Ordered(view.seq, writeCh, Low)
        /\ Reaches(view.seq, writeCh, All, Low)
    BY <1>1, <1>8 DEF L2Inv, Exact
  <2>2. n = Low + Len(c)
    BY SMTT(30), <1>1, <1>2, <1>4 DEF Low
  <2>3. ASSUME NEW k \in 1 .. Len(c)
        PROVE  c[k] = Low + k
    <3>1. k \in 1 .. Len(state.changes) \/ k = Len(c)
      BY <1>2, <1>4
    <3> QED
      BY <1>4, <2>1, <2>2, <3>1 DEF Consecutive
  <2>4. view.seq # -1 => Shown'
    BY <1>1, <1>8, ShownStays DEF L2Inv, Exact
  <2> QED
    BY <2>1, <2>3, <2>4 DEF Consecutive
<1>9. Ordered(view.seq, writeCh, n)
  BY <1>1, <1>2, FurtherOn DEF L2Inv, InOrder
<1>10. CASE /\ state' = [state EXCEPT !.lastSeq = n, !.changes = c]
            /\ UNCHANGED writeCh
  <2>1. /\ state' \in [resendSnapshot : BOOLEAN, changes : Seq(Changes), lastSeq : Numbers]
        /\ state'.lastSeq = n /\ state'.changes = c /\ ~ state'.resendSnapshot
    BY <1>1, <1>4, <1>10 DEF L2Inv, TypeInv
  <2>2. Low' = Low /\ All' = All
    BY <1>1, <1>2, <1>4, <1>10, <2>1 DEF Low, All
  <2>3. InOrder'
    BY <1>1, <1>4, <1>9, <1>10, <2>1 DEF InOrder
  <2>4. Exact'
    BY <1>1, <1>8, <1>10, <2>1, <2>2 DEF Exact
  <2>5. TypeInv'
    BY <1>1, <1>7, <1>10, <2>1 DEF L2Inv, TypeInv
  <2> QED
    BY <1>1, <2>3, <2>4, <2>5 DEF L2Inv
<1>11. CASE /\ state' = [state EXCEPT !.lastSeq = n, !.changes = << >>]
            /\ writeCh' = d
  <2>1. state'.lastSeq = n /\ state'.changes = << >> /\ ~ state'.resendSnapshot
    BY <1>1, <1>11 DEF L2Inv, TypeInv
  <2>2. /\ state'.changes \in Seq(Changes) /\ Len(state'.changes) = 0
        /\ \A low : Consecutive(state'.changes, low)
    BY <2>1, NothingHeld
  <2>3. state' \in [resendSnapshot : BOOLEAN, changes : Seq(Changes), lastSeq : Numbers]
    BY <1>11, <2>1, <2>2 DEF L2Inv, TypeInv
  <2>4. Low' = n /\ All' = Len(d) + 1
    BY <1>2, <1>11, <2>1, <2>2 DEF Low, All
  <2>5. Ordered(view.seq, d, n) /\ Reaches(view.seq, d, Len(d) + 1, n)
    BY <1>1, <1>2, <1>5, <1>6, MessageJoins DEF L2Inv, InOrder
  <2>6. InOrder'
    BY <1>1, <1>11, <2>1, <2>4, <2>5 DEF InOrder
  <2>7. ASSUME ~ mixed
        PROVE  Chained(view.seq, d)
    <3>1. Bottom(m) = Low
      <4>1. 1 \in 1 .. Len(c)
        BY <1>2, <1>4
      <4> QED
        BY <1>2, <1>5, <1>8, <2>7, <4>1 DEF Consecutive
    <3> QED
      BY <1>2, <1>5, <1>6, <1>8, <2>7, <3>1, MessageChains DEF All
  <2>8. Exact'
    BY <1>1, <1>8, <1>11, <2>1, <2>2, <2>4, <2>5, <2>7 DEF Exact
  <2>9. TypeInv'
    BY <1>1, <1>6, <1>7, <1>11, <2>1, <2>3 DEF L2Inv, TypeInv
  <2> QED
    BY <1>1, <2>6, <2>8, <2>9 DEF L2Inv
<1> QED
  BY <1>1, <1>10, <1>11

LEMMA InitEstablishes ==
    ASSUME Init
    PROVE  L2Inv
<1>1. /\ touches \in [Changes -> Changed]
      /\ seq = 0 /\ saved = -1 /\ publishing = FALSE
      /\ writeCh = << >> /\ l2ChangeCh = << >>
      /\ state = [resendSnapshot |-> TRUE, changes |-> << >>, lastSeq |-> 0]
      /\ view = Blank /\ mixed = FALSE
  BY Level2Assumption DEF Init, None, Changes
<1>2. writeCh \in Seq(Queued) /\ l2ChangeCh \in Seq(Entries) /\ Len(writeCh) = 0
  BY <1>1, EmptySeq
<1>3. /\ state.resendSnapshot = TRUE /\ state.changes = << >> /\ state.lastSeq = 0
      /\ view.seq = -1
  BY <1>1 DEF Blank, None
<1>4. state.changes \in Seq(Changes) /\ Len(state.changes) = 0
  BY <1>3, NothingHeld
<1>5. ForPeer(writeCh) = {}
  BY <1>2 DEF ForPeer
<1>6. Low = 0
  <2>1. state.lastSeq = 0 /\ Len(state.changes) = 0
    BY <1>3, <1>4
  <2> QED
    BY <2>1 DEF Low
<1>7. Ordered(view.seq, writeCh, 0) /\ Chained(view.seq, writeCh)
  BY <1>3, <1>5 DEF Ordered, Chained
<1>8. InOrder /\ Exact
  BY <1>3, <1>6, <1>7 DEF InOrder, Exact
<1>9. TypeInv
  <2>1. state \in [resendSnapshot : BOOLEAN, changes : Seq(Changes), lastSeq : Numbers]
    <3>1. << >> \in Seq(Changes) /\ 0 \in Numbers
      BY <1>3, <1>4, Level2Assumption DEF Numbers
    <3> QED
      BY <1>1, <3>1
  <2>2. seq \in Numbers /\ saved \in -1 .. seq /\ view.seq \in -1 .. MaxChanges
    BY <1>1, <1>3, Level2Assumption DEF Numbers
  <2> QED
    BY <1>1, <1>2, <1>3, <2>1, <2>2 DEF TypeInv
<1> QED
  BY <1>8, <1>9 DEF L2Inv

LEMMA ChangeBookKeeps ==
    ASSUME L2Inv, ChangeBook
    PROVE  L2Inv' /\ view' = view
<1>1. /\ seq < MaxChanges /\ seq' = seq + 1 /\ publishing' = TRUE
      /\ saved' = seq' \/ saved' = saved
      /\ UNCHANGED <<touches, writeCh, l2ChangeCh, state, view, mixed>>
  BY DEF ChangeBook, marketVars, l2Vars
<1>2. seq \in Numbers /\ saved \in -1 .. seq
  BY DEF L2Inv, TypeInv
<1>3. seq' \in Numbers /\ seq' \in Changes /\ saved' \in -1 .. seq'
  BY <1>1, <1>2, Level2Assumption DEF Numbers, Changes
<1>4. TypeInv'
  BY <1>1, <1>3 DEF L2Inv, TypeInv
<1> QED
  BY <1>1, <1>4, FollowingStays DEF L2Inv

LEMMA PublishKeeps ==
    ASSUME L2Inv, Publish
    PROVE  L2Inv' /\ view' = view
<1>1. /\ publishing /\ publishing' = FALSE
      /\ writeCh' = Append(writeCh, ChangeMessage(seq)) \/ writeCh' = writeCh
      /\ UNCHANGED <<touches, seq, saved, l2ChangeCh, state, view, mixed>>
  BY DEF Publish, marketVars, l2Vars
<1>2. seq \in Changes
  BY <1>1 DEF L2Inv, TypeInv
<1>3. writeCh' \in Seq(Queued) /\ InOrder' /\ Exact'
  <2>1. CASE writeCh' = Append(writeCh, ChangeMessage(seq))
    BY <1>1, <1>2, <2>1, ChangeQueued DEF L2Inv
  <2>2. CASE writeCh' = writeCh
    BY <1>1, <2>2, FollowingStays DEF L2Inv, TypeInv
  <2> QED
    BY <1>1, <2>1, <2>2
<1>4. TypeInv'
  BY <1>1, <1>3 DEF L2Inv, TypeInv
<1> QED
  BY <1>1, <1>3, <1>4 DEF L2Inv

LEMMA RenewSnapshotKeeps ==
    ASSUME L2Inv, RenewSnapshot
    PROVE  L2Inv' /\ view' = view
<1>1. /\ saved' = seq
      /\ UNCHANGED <<touches, seq, publishing, writeCh, l2ChangeCh, state, view, mixed>>
  BY DEF RenewSnapshot, marketVars, l2Vars
<1>2. saved' \in -1 .. seq
  BY <1>1 DEF L2Inv, TypeInv, Numbers
<1>3. TypeInv'
  BY <1>1, <1>2 DEF L2Inv, TypeInv
<1> QED
  BY <1>1, <1>3, FollowingStays DEF L2Inv

\* A step that moves neither the applier nor what leads to the view, but for
\* the queue of changes.
LEMMA OtherStepKeeps ==
    ASSUME L2Inv, l2ChangeCh' \in Seq(Entries),
           UNCHANGED <<touches, seq, saved, publishing, writeCh, state, view, mixed>>
    PROVE  L2Inv' /\ view' = view
<1>1. TypeInv'
  BY DEF L2Inv, TypeInv
<1> QED
  BY <1>1, FollowingStays DEF L2Inv

LEMMA AskedForSnapshot ==
    ASSUME TypeInv, l2ChangeCh' = Append(l2ChangeCh, 0)
    PROVE  l2ChangeCh' \in Seq(Entries)
BY Level2Assumption, AppendProperties DEF TypeInv, Entries, Numbers

LEMMA ReaderKeeps ==
    ASSUME L2Inv, Subscribe \/ Unsubscribe \/ ReaderStep \/ OtherProduct
    PROVE  L2Inv' /\ view' = view
<1>1. l2ChangeCh' \in Seq(Entries)
  <2>1. CASE AskForSnapshot
    BY <2>1, AskedForSnapshot DEF AskForSnapshot, L2Inv
  <2>2. CASE Subscribe \/ Unsubscribe \/ LookAtQueue
    BY <2>2 DEF Subscribe, Unsubscribe, LookAtQueue, L2Inv, TypeInv
  <2>3. CASE OtherProduct
    BY <2>3, AppendProperties DEF OtherProduct, Entries, L2Inv, TypeInv
  <2> QED
    BY <2>1, <2>2, <2>3 DEF ReaderStep
<1>2. UNCHANGED <<touches, seq, saved, publishing, writeCh, state, view, mixed>>
  BY DEF Subscribe, Unsubscribe, ReaderStep, LookAtQueue, AskForSnapshot, OtherProduct,
         marketVars, applierVars, l2Vars
<1> QED
  BY <1>1, <1>2, OtherStepKeeps

LEMMA L2StepKeeps ==
    ASSUME L2Inv, L2Step
    PROVE  L2Inv' /\ view' = view
<1>1. CASE AskAgain
  <2>1. l2ChangeCh' \in Seq(Entries)
    BY <1>1, AskedForSnapshot DEF AskAgain, L2Inv
  <2>2. UNCHANGED <<touches, seq, saved, publishing, writeCh, state, view, mixed>>
    BY <1>1 DEF AskAgain, marketVars, applierVars
  <2> QED
    BY <2>1, <2>2, OtherStepKeeps
<1>2. ASSUME NEW n \in Entries,
             WaitForSnapshot(n) \/ DropOld(n) \/ (n = Other /\ TakeOther)
      PROVE  L2Inv' /\ view' = view
  <2>1. Take(n)
    BY <1>2 DEF WaitForSnapshot, DropOld, TakeOther
  <2>2. l2ChangeCh' \in Seq(Entries)
    BY <2>1, TakeKeepsQueue DEF L2Inv
  <2>3. UNCHANGED <<touches, seq, saved, publishing, writeCh, state, view, mixed>>
    BY <1>2 DEF WaitForSnapshot, DropOld, TakeOther, marketVars, applierVars, l2Vars
  <2> QED
    BY <2>2, <2>3, OtherStepKeeps
<1>3. ASSUME NEW n \in Numbers, SendSnapshot(n) \/ NoticeGap(n) \/ SendUpdate(n)
      PROVE  L2Inv' /\ view' = view
  BY <1>3, SendSnapshotKeeps, NoticeGapKeeps, SendUpdateKeeps
<1> QED
  BY <1>1, <1>2, <1>3 DEF L2Step, Numbers, Entries

LEMMA StutterKeeps ==
    ASSUME L2Inv, UNCHANGED vars
    PROVE  L2Inv' /\ view' = view
<1>1. UNCHANGED <<touches, seq, saved, publishing, writeCh, l2ChangeCh, state, view, mixed>>
  BY DEF vars, marketVars, applierVars, l2Vars
<1> QED
  BY <1>1, OtherStepKeeps DEF L2Inv, TypeInv

LEMMA NextKeeps ==
    ASSUME L2Inv, [Next]_vars
    PROVE  L2Inv' /\ view.seq <= view'.seq
<1>1. view.seq \in Int
  BY Whole DEF L2Inv
<1>2. CASE WriteToPeer
  BY <1>2, WriteToPeerKeeps
<1>3. CASE ChangeBook \/ Publish \/ RenewSnapshot
  BY <1>1, <1>3, ChangeBookKeeps, PublishKeeps, RenewSnapshotKeeps
<1>4. CASE Subscribe \/ Unsubscribe \/ ReaderStep \/ OtherProduct
  BY <1>1, <1>4, ReaderKeeps
<1>5. CASE ForwardChange
  BY <1>1, <1>5, ForwardChangeKeeps
<1>6. CASE L2Step
  BY <1>1, <1>6, L2StepKeeps
<1>7. CASE Over \/ UNCHANGED vars
  BY <1>1, <1>7, StutterKeeps DEF Over
<1> QED
  BY <1>2, <1>3, <1>4, <1>5, <1>6, <1>7 DEF Next, WriterStep

-----------------------------------------------------------------------------
(* The theorems. *)

LEMMA Invariance == Spec => []L2Inv
<1>1. Init => L2Inv
  BY InitEstablishes
<1>2. L2Inv /\ [Next]_vars => L2Inv'
  BY NextKeeps
<1> QED
  BY <1>1, <1>2, PTL DEF Spec

\* The view of the peer is the book at the number it has come to, but for the
\* levels its snapshot had no room for and that have not changed since, whatever
\* was lost, queued twice or skipped on its way (runL2ChangeWriter, the numbers
\* it keeps, and the limit of SnapshotLevel2): a snapshot and the updates behind
\* it follow each other without a gap, unless a snapshot was sent while changes
\* were held back.
THEOREM ViewIsTheBook == Spec => []ViewExact
<1>1. L2Inv => ViewExact
  <2> SUFFICES ASSUME L2Inv, view # Blank, ~ mixed
               PROVE  view.levels = ViewAt(view.from, view.seq)
    BY DEF ViewExact
  <2>1. view.seq # -1
    BY DEF L2Inv, TypeInv
  <2> QED
    BY <2>1 DEF L2Inv, Exact, Shown
<1> QED
  BY <1>1, Invariance, PTL

\* When nothing is queued for the peer and nothing is held back for it, the
\* peer stands where runL2ChangeWriter believes it to stand (lastSeq).
THEOREM QuietViewIsUpToDate == Spec => []QuietViewIsLast
<1>1. L2Inv => QuietViewIsLast
  <2> SUFFICES ASSUME L2Inv, writeCh = << >>, ~ state.resendSnapshot,
                      state.changes = << >>
               PROVE  view.seq = state.lastSeq
    BY DEF QuietViewIsLast
  <2>1. Reaches(view.seq, writeCh, All, state.lastSeq)
    BY DEF L2Inv, InOrder
  <2>2. Len(writeCh) = 0
    BY EmptySeq
  <2>3. ForPeer(writeCh) = {}
    BY <2>2 DEF ForPeer
  <2> QED
    BY <2>1, <2>3 DEF Reaches
<1> QED
  BY <1>1, Invariance, PTL

\* No message takes the peer back to an earlier book: a snapshot is sent only
\* if it is at least as new as lastSeq, and an update only if it follows it.
THEOREM ViewNeverGoesBack == Spec => ViewMovesForward
<1>1. L2Inv /\ [Next]_vars => [view'.seq >= view.seq]_vars
  <2> SUFFICES ASSUME L2Inv, [Next]_vars
               PROVE  view'.seq >= view.seq
    OBVIOUS
  <2>1. L2Inv' /\ view.seq <= view'.seq
    BY NextKeeps
  <2>2. view.seq \in Int /\ view'.seq \in Int
    BY <2>1 DEF L2Inv, TypeInv
  <2> QED
    BY <2>1, <2>2
<1> QED
  BY <1>1, Invariance, PTL DEF Spec, ViewMovesForward
=============================================================================
