--------------------------- MODULE PushHubProofs ---------------------------
(***************************************************************************)
(* What can be proved of the push hub: a client whose reader has gone is   *)
(* in no channel, and a subscriber of the ticker has been sent the last    *)
(* one, for any clients and channels, any capacity of the queues and any   *)
(* number of messages and requests.                                        *)
(***************************************************************************)
EXTENDS PushHub, TLAPS

Reader(c) == <<c, "reader">>

\* The variables that the invariants below read.
TypeInv ==
    /\ subscribers \in [Channels -> SUBSET Clients]
    /\ pending \in Goroutines \cup {Nobody}
    /\ published \in [Channels -> Nat]
    /\ publisher \in [Channels -> {"idle", "locking", "sending"}]
    /\ toSend \in [Channels -> SUBSET Clients]
    /\ mu \in [Clients -> Goroutines \cup {Nobody}]
    /\ channels \in [Clients -> SUBSET Channels]
    /\ pc \in [Goroutines -> {"serving", "subscribe", "unsubscribe", "close", "ticker",
                              "send", "closed", "gone"}]
    /\ todo \in [Goroutines -> SUBSET Channels]
    /\ lastTicker \in Nat
    /\ carried \in [Clients -> Nat]
    /\ tickers \in [Clients -> SUBSET Nat]

\* A client in the hub knows the channels it is in.
ClientKnows == \A c \in Clients, ch \in Channels : c \in subscribers[ch] => ch \in channels[c]

\* A goroutine has the mutex only where it needs it.
MutexHeld ==
    \A c \in Clients :
        mu[c] = Reader(c) => pc[Reader(c)] \in {"subscribe", "unsubscribe", "close"}

\* A reader that closes has still all the channels before it its client is in.
ClosesAll ==
    \A c \in Clients, ch \in Channels :
        /\ pc[Reader(c)] = "close" /\ mu[c] = Reader(c)
        /\ c \in subscribers[ch]
        => ch \in todo[Reader(c)]

LeavingInv == ClientKnows /\ MutexHeld /\ ClosesAll /\ NoGhosts

\* Whoever waits for the hub has the mutex of its client, and something to do.
PendingHolds == pending # Nobody => mu[pending[1]] = pending /\ todo[pending] # {}

\* A reader subscribes to one channel, which its client was not in when the
\* reader took the mutex.
SubscribesAnew ==
    \A c \in Clients : pc[Reader(c)] = "subscribe" =>
        /\ \E ch \in Channels : todo[Reader(c)] = {ch}
        /\ mu[c] = Reader(c) => ~(todo[Reader(c)] \subseteq channels[c])

\* The last ticker is the last one published, and only a publication under way
\* has clients to reach.
LastPublished ==
    /\ lastTicker = published[Ticker]
    /\ publisher[Ticker] # "sending" => toSend[Ticker] = {}

\* What a subscriber of the ticker has been sent, is about to be sent by the
\* publisher, or has in the hands of its own reader.
TickerReaches ==
    \A c \in subscribers[Ticker] :
        /\ lastTicker # 0
        /\ publisher[Ticker] # "locking"
        /\ c \notin toSend[Ticker]
        => \/ lastTicker \in tickers[c]
           \/ pc[Reader(c)] = "ticker"
           \/ pc[Reader(c)] = "send" /\ carried[c] = lastTicker

TickerInv == PendingHolds /\ SubscribesAnew /\ LastPublished /\ TickerReaches

-----------------------------------------------------------------------------

\* The first component of a goroutine is its client.
LEMMA GoroutineOfClient ==
    ASSUME NEW c \in Clients, NEW role \in {"reader", "writer"}
    PROVE  /\ <<c, role>> \in Goroutines
           /\ <<c, role>>[1] = c /\ <<c, role>>[2] = role
           /\ <<c, role>> # Nobody
  BY DEF Goroutines, Nobody

\* Every variable the proofs read keeps its type.
LEMMA TypeHolds == Spec => []TypeInv
<1>1. Init => TypeInv
  BY DEF Init, TypeInv, Goroutines, Nobody, Ticker, Channels
<1>2. TypeInv /\ [Next]_vars => TypeInv'
  <2> SUFFICES ASSUME TypeInv, [Next]_vars PROVE TypeInv'
    OBVIOUS
  <2> USE DEF TypeInv
  <2>1. ASSUME NEW ch \in Channels, Produce(ch) PROVE TypeInv'
    BY <2>1 DEF Produce, hubVars, clientVars, goVars
  <2>2. ASSUME NEW ch \in Channels, PublisherStep(ch) PROVE TypeInv'
    <3>1. CASE LockToPublish(ch)
      BY <3>1 DEF LockToPublish, clientVars, goVars
    <3>2. ASSUME NEW c \in Clients, SendTo(ch, c) PROVE TypeInv'
      BY <3>2 DEF SendTo, hubVars, clientVars, goVars
    <3>3. CASE Published(ch)
      BY <3>3 DEF Published, clientVars, goVars
    <3> QED BY <2>2, <3>1, <3>2, <3>3 DEF PublisherStep
  <2>3. ASSUME NEW c \in Clients, NEW ch \in Channels, NEW what \in {"subscribe", "unsubscribe"},
               Request(c, what, ch)
        PROVE TypeInv'
    BY <2>3 DEF Request, hubVars, publisherVars, Goroutines
  <2>4. ASSUME NEW c \in Clients, ReadFails(c) \/ BadMessage(c) \/ WriteFails(c) \/ PeerLeaves(c)
        PROVE TypeInv'
    BY <2>4 DEF ReadFails, BadMessage, WriteFails, PeerLeaves, hubVars, publisherVars,
                clientVars, goVars, Goroutines
  <2>5. ASSUME NEW c \in Clients, NEW role \in {"reader", "writer"},
               GoroutineStep(<<c, role>>)
        PROVE TypeInv'
    <3> DEFINE g == <<c, role>>
    <3>0. g \in Goroutines /\ g[1] = c /\ g[2] = role
      BY GoroutineOfClient
    <3> HIDE DEF g
    <3>1. CASE LockClient(c, role)
      <4>1. g = <<c, role>>
        BY DEF g
      <4>2. CASE pc[g] = "subscribe" /\ todo[g] \subseteq channels[c]
        BY <3>0, <3>1, <4>1, <4>2 DEF LockClient, hubVars, publisherVars
      <4>3. CASE ~(pc[g] = "subscribe" /\ todo[g] \subseteq channels[c])
        <5>1. (IF pc[g] = "close" THEN ToClose(c) ELSE todo[g]) \in SUBSET Channels
          BY <3>0 DEF ToClose
        <5> QED BY SMTT(30), <3>0, <3>1, <4>1, <4>3, <5>1 DEF LockClient, hubVars, publisherVars
      <4> QED BY <4>2, <4>3
    <3>2. CASE LockHub(g)
      BY <3>0, <3>2 DEF LockHub, publisherVars, clientVars, goVars
    <3>3. CASE CloseOver(g)
      BY <3>0, <3>3 DEF CloseOver, hubVars, publisherVars
    <3>4. ASSUME NEW ch \in Channels, CloseChannel(g, ch) PROVE TypeInv'
      BY <3>0, <3>4 DEF CloseChannel, HasHub, publisherVars, clientVars
    <3> QED BY <2>5, <3>0, <3>1, <3>2, <3>3, <3>4 DEF GoroutineStep, g
  <2>6. ASSUME NEW c \in Clients, NEW ch \in Channels, Subscribe(c, ch) PROVE TypeInv'
    BY <2>6 DEF Subscribe, HasHub, AfterSubscribing, publisherVars, Goroutines
  <2>7. ASSUME NEW c \in Clients, NEW ch \in Channels, Unsubscribe(c, ch) PROVE TypeInv'
    BY <2>7 DEF Unsubscribe, HasHub, publisherVars, Goroutines
  <2>8. ASSUME NEW c \in Clients,
               Deliver(c) \/ CloseConn(c) \/ ReadLastTicker(c) \/ QueueLastTicker(c)
        PROVE TypeInv'
    <3>1. CASE Deliver(c)
      BY <3>1 DEF Deliver, hubVars, publisherVars, clientVars, goVars
    <3>2. CASE CloseConn(c)
      BY <3>2 DEF CloseConn, hubVars, publisherVars, Goroutines
    <3>3. CASE ReadLastTicker(c)
      BY <3>3 DEF ReadLastTicker, hubVars, publisherVars, clientVars, Goroutines
    <3>4. CASE QueueLastTicker(c)
      <4>1. carried[c] \in Nat /\ tickers[c] \cup {carried[c]} \in SUBSET Nat
        OBVIOUS
      <4> QED BY <3>4, <4>1 DEF QueueLastTicker, hubVars, publisherVars, clientVars, Goroutines
    <3> QED BY <2>8, <3>1, <3>2, <3>3, <3>4
  <2>9. CASE UNCHANGED vars
    BY <2>9 DEF vars, hubVars, publisherVars, clientVars, goVars
  <2> QED
    BY ZenonT(40), <2>1, <2>2, <2>3, <2>4, <2>5, <2>6, <2>7, <2>8, <2>9
    DEF Next, ReaderStep, WriterStep
<1> QED BY <1>1, <1>2, PTL DEF Spec

-----------------------------------------------------------------------------

\* A client leaves the channels it is in by the hands of whoever closes it.
LEMMA LeavingHolds == Spec => []LeavingInv
<1>1. Init => LeavingInv
  BY DEF Init, LeavingInv, ClientKnows, MutexHeld, ClosesAll, NoGhosts, Goroutines,
         Reader, Nobody
<1>2. TypeInv /\ LeavingInv /\ [Next]_vars => LeavingInv'
  <2> SUFFICES ASSUME TypeInv, LeavingInv, [Next]_vars PROVE LeavingInv'
    OBVIOUS
  <2> USE DEF TypeInv, LeavingInv, ClientKnows, MutexHeld, ClosesAll, NoGhosts, Reader
  <2>1. ASSUME UNCHANGED <<subscribers, channels, mu, pc, todo>> PROVE LeavingInv'
    BY <2>1
  <2>2. ASSUME NEW ch \in Channels, Produce(ch) \/ PublisherStep(ch) PROVE LeavingInv'
    BY <2>1, <2>2 DEF Produce, PublisherStep, LockToPublish, SendTo, Published, hubVars,
                      clientVars, goVars
  <2>3. ASSUME NEW c \in Clients, NEW ch \in Channels, NEW what \in {"subscribe", "unsubscribe"},
               Request(c, what, ch)
        PROVE LeavingInv'
    BY <2>3 DEF Request, hubVars, Goroutines, Nobody
  <2>4. ASSUME NEW c \in Clients, Deliver(c) \/ PeerLeaves(c) PROVE LeavingInv'
    BY <2>1, <2>4 DEF Deliver, PeerLeaves, hubVars, clientVars, goVars
  <2>5. ASSUME NEW c \in Clients, ReadFails(c) \/ BadMessage(c) PROVE LeavingInv'
    BY ZenonT(40), <2>5 DEF ReadFails, BadMessage, hubVars, clientVars, Goroutines, Nobody
  <2>6. ASSUME NEW c \in Clients, WriteFails(c) \/ CloseConn(c) PROVE LeavingInv'
    <3>1. CASE WriteFails(c)
      BY <3>1 DEF WriteFails, hubVars, clientVars, Goroutines
    <3>2. CASE CloseConn(c)
      BY <3>2 DEF CloseConn, hubVars, Goroutines
    <3> QED BY <2>6, <3>1, <3>2
  <2>7. ASSUME NEW c \in Clients, ReadLastTicker(c) \/ QueueLastTicker(c) PROVE LeavingInv'
    <3>1. CASE ReadLastTicker(c)
      BY <3>1 DEF ReadLastTicker, hubVars, clientVars, Goroutines
    <3>2. CASE QueueLastTicker(c)
      BY <3>2 DEF QueueLastTicker, hubVars, clientVars, Goroutines
    <3> QED BY <2>7, <3>1, <3>2
  <2>8. ASSUME NEW c \in Clients, NEW role \in {"reader", "writer"},
               GoroutineStep(<<c, role>>)
        PROVE LeavingInv'
    <3> DEFINE g == <<c, role>>
    <3>0. g \in Goroutines /\ g[1] = c /\ g[2] = role
      BY GoroutineOfClient
    <3>1. CASE LockClient(c, role)
      <4>1. \A d \in Clients : /\ Reader(d) \in Goroutines /\ Reader(d) # Nobody
                               /\ Reader(d) = g <=> d = c /\ role = "reader"
        BY GoroutineOfClient
      <4>2. UNCHANGED <<subscribers, channels>> /\ mu[c] = Nobody
        BY <3>1 DEF LockClient, hubVars
      <4>3. CASE pc[g] = "subscribe" /\ todo[g] \subseteq channels[c]
        <5>1. /\ UNCHANGED mu
              /\ pc' = [pc EXCEPT ![g] = "serving"] /\ todo' = [todo EXCEPT ![g] = {}]
          BY <3>1, <4>3 DEF LockClient
        <5> HIDE DEF g
        <5> HIDE DEF LeavingInv, TypeInv, ClientKnows, MutexHeld, ClosesAll, NoGhosts
        <5>2. ASSUME NEW d \in Clients, Reader(d) # g
              PROVE  pc'[Reader(d)] = pc[Reader(d)] /\ todo'[Reader(d)] = todo[Reader(d)]
          BY <3>0, <4>1, <5>1, <5>2 DEF TypeInv
        <5>3. pc'[g] = "serving"
          BY <3>0, <5>1 DEF TypeInv
        <5>4. ClientKnows'
          BY <4>2 DEF LeavingInv, ClientKnows
        <5>5. MutexHeld'
          <6>1. ASSUME NEW d \in Clients, mu'[d] = Reader(d)
                PROVE  pc'[Reader(d)] \in {"subscribe", "unsubscribe", "close"}
            <7>1. Reader(d) # g
              BY <4>1, <4>2, <5>1, <6>1
            <7> QED BY <5>1, <5>2, <6>1, <7>1 DEF LeavingInv, MutexHeld
          <6> QED BY <6>1 DEF MutexHeld
        <5>6. ClosesAll'
          BY <4>1, <4>2, <5>1, <5>2, <5>3 DEF LeavingInv, ClosesAll
        <5>7. ASSUME NEW d \in Clients, pc'[Reader(d)] = "gone"
              PROVE  pc[Reader(d)] = "gone"
          BY <5>2, <5>3, <5>7
        <5>8. NoGhosts'
          BY <4>2, <5>7 DEF LeavingInv, NoGhosts
        <5> QED BY <5>4, <5>5, <5>6, <5>8 DEF LeavingInv
      <4>4. CASE ~(pc[g] = "subscribe" /\ todo[g] \subseteq channels[c])
        <5>1. /\ UNCHANGED pc /\ mu' = [mu EXCEPT ![c] = g]
              /\ pc[g] \in {"subscribe", "unsubscribe", "close"}
              /\ todo' = [todo EXCEPT ![g] = IF pc[g] = "close" THEN channels[c] ELSE @]
          BY <3>1, <4>4 DEF LockClient, ToClose
        <5> HIDE DEF g, LeavingInv, TypeInv, ClientKnows, MutexHeld, ClosesAll, NoGhosts
        <5>2. \A d \in Clients : /\ d # c => mu'[d] = mu[d]
                                 /\ Reader(d) # g => todo'[Reader(d)] = todo[Reader(d)]
          BY <3>0, <4>1, <5>1 DEF TypeInv
        <5>3. mu'[c] = g /\ (pc[g] = "close" => todo'[g] = channels[c])
          BY <3>0, <5>1 DEF TypeInv
        <5>4. MutexHeld' /\ ClientKnows' /\ NoGhosts'
          BY <4>1, <4>2, <5>1, <5>2, <5>3
             DEF LeavingInv, MutexHeld, ClientKnows, NoGhosts
        <5>5. ASSUME NEW d \in Clients, NEW ch \in Channels,
                     pc'[Reader(d)] = "close" /\ mu'[d] = Reader(d), d \in subscribers'[ch]
              PROVE ch \in todo'[Reader(d)]
          <6>1. CASE d = c
            <7>1. ch \in channels[c]
              BY <4>2, <5>5, <6>1 DEF LeavingInv, ClientKnows
            <7>2. Reader(d) = g
              BY <5>3, <5>5, <6>1
            <7>3. pc[g] = "close"
              BY <5>1, <5>5, <7>2
            <7> QED BY <5>3, <7>1, <7>2, <7>3
          <6>2. CASE d # c
            <7>1. mu[d] = Reader(d) /\ Reader(d) # g
              BY <4>1, <5>2, <5>5, <6>2
            <7>2. pc[Reader(d)] = "close" /\ d \in subscribers[ch]
              BY <4>2, <5>1, <5>5
            <7>3. ch \in todo[Reader(d)]
              BY <7>1, <7>2 DEF LeavingInv, ClosesAll
            <7> QED BY <5>2, <7>1, <7>3
          <6> QED BY <6>1, <6>2
        <5>6. ClosesAll'
          BY <5>5 DEF ClosesAll
        <5> QED BY <5>4, <5>6 DEF LeavingInv
      <4> QED BY <4>3, <4>4
    <3>2. CASE LockHub(g)
      BY <2>1, <3>2 DEF LockHub, clientVars, goVars
    <3>3. CASE CloseOver(g)
      BY ZenonT(40), <3>0, <3>3 DEF CloseOver, hubVars, Goroutines, Nobody
    <3>4. ASSUME NEW ch \in Channels, CloseChannel(g, ch) PROVE LeavingInv'
      BY <3>0, <3>4 DEF CloseChannel, HasHub, clientVars, Goroutines
    <3> QED BY <2>8, <3>0, <3>1, <3>2, <3>3, <3>4 DEF GoroutineStep
  <2>9. ASSUME NEW c \in Clients, NEW ch \in Channels, Subscribe(c, ch) PROVE LeavingInv'
    BY <2>9 DEF Subscribe, HasHub, AfterSubscribing, Goroutines, Nobody
  <2>10. ASSUME NEW c \in Clients, NEW ch \in Channels, Unsubscribe(c, ch) PROVE LeavingInv'
    BY <2>10 DEF Unsubscribe, HasHub, Goroutines, Nobody
  <2>11. CASE UNCHANGED vars
    BY <2>1, <2>11 DEF vars, hubVars, clientVars, goVars
  <2> QED
    BY <2>2, <2>3, <2>4, <2>5, <2>6, <2>7, <2>8, <2>9, <2>10, <2>11
    DEF Next, ReaderStep, WriterStep
<1> QED BY <1>1, <1>2, TypeHolds, PTL DEF Spec

\* NoGhosts: a client whose reader has gone is in no channel of the hub.
THEOREM GoneLeaveTheHub == Spec => []NoGhosts
<1>1. LeavingInv => NoGhosts
  BY DEF LeavingInv
<1> QED BY <1>1, LeavingHolds, PTL

-----------------------------------------------------------------------------

\* What a goroutine does without waiting for the peer leaves the streams, the
\* channels and whatever is under way with a ticker alone.
LEMMA StepOfGoroutine ==
    ASSUME TypeInv, NEW c \in Clients, NEW role \in {"reader", "writer"},
           GoroutineStep(<<c, role>>)
    PROVE  /\ UNCHANGED <<publisherVars, channels, carried, tickers>>
           /\ subscribers'[Ticker] \subseteq subscribers[Ticker]
           /\ \A d \in Clients : \/ pc'[Reader(d)] = pc[Reader(d)]
                                 \/ /\ pc[Reader(d)] \in {"subscribe", "unsubscribe", "close"}
                                    /\ pc'[Reader(d)] \in {"serving", "gone"}
<1> USE DEF TypeInv, Reader, Goroutines, clientVars, goVars, Channels
<1> DEFINE g == <<c, role>>
<1>0. g \in Goroutines /\ g[1] = c /\ g[2] = role
  BY GoroutineOfClient
<1>1. CASE LockClient(c, role)
  BY <1>1 DEF LockClient, hubVars
<1>2. CASE LockHub(g)
  BY <1>2 DEF LockHub
<1>3. CASE CloseOver(g)
  BY <1>0, <1>3 DEF CloseOver, hubVars
<1>4. ASSUME NEW ch \in Channels, CloseChannel(g, ch)
      PROVE  /\ UNCHANGED <<publisherVars, channels, pc, carried, tickers>>
             /\ subscribers'[Ticker] \subseteq subscribers[Ticker]
  BY <1>0, <1>4 DEF CloseChannel
<1> QED BY <1>0, <1>1, <1>2, <1>3, <1>4 DEF GoroutineStep

\* TickerReaches outlives a step that leaves alone the tickers and the readers
\* about to queue one, and subscribes nobody.
LEMMA TickerStays ==
    ASSUME TickerReaches, subscribers[Ticker] \subseteq Clients,
           UNCHANGED <<lastTicker, carried, tickers>>,
           publisher'[Ticker] = publisher[Ticker], toSend'[Ticker] = toSend[Ticker],
           subscribers'[Ticker] \subseteq subscribers[Ticker],
           \A c \in Clients : pc[Reader(c)] \in {"ticker", "send"} =>
               pc'[Reader(c)] = pc[Reader(c)]
    PROVE  TickerReaches'
BY DEF TickerReaches, Reader

\* Whoever waits for the hub holds the mutex of its client all the while.
LEMMA PendingKept == TypeInv /\ PendingHolds /\ [Next]_vars => PendingHolds'
<1> SUFFICES ASSUME TypeInv, PendingHolds, [Next]_vars PROVE PendingHolds'
  OBVIOUS
<1> USE DEF TypeInv, PendingHolds
<1>0. \A g \in Goroutines : g[1] \in Clients
  BY DEF Goroutines
<1>1. ASSUME UNCHANGED <<pending, mu, todo>> PROVE PendingHolds'
  BY <1>1
<1>2. ASSUME NEW ch \in Channels, Produce(ch) \/ PublisherStep(ch) PROVE PendingHolds'
  BY <1>1, <1>2 DEF Produce, PublisherStep, LockToPublish, SendTo, Published, hubVars,
                    clientVars, goVars
<1>3. ASSUME NEW c \in Clients, NEW ch \in Channels, NEW what \in {"subscribe", "unsubscribe"},
             Request(c, what, ch)
      PROVE PendingHolds'
  BY <1>3 DEF Request, hubVars, Goroutines
<1>4. ASSUME NEW c \in Clients,
             \/ ReadFails(c) \/ BadMessage(c) \/ WriteFails(c) \/ PeerLeaves(c)
             \/ Deliver(c) \/ CloseConn(c) \/ ReadLastTicker(c) \/ QueueLastTicker(c)
      PROVE PendingHolds'
  BY <1>1, <1>4 DEF ReadFails, BadMessage, WriteFails, PeerLeaves, Deliver, CloseConn,
                    ReadLastTicker, QueueLastTicker, hubVars, clientVars, goVars
<1>5. ASSUME NEW c \in Clients, NEW role \in {"reader", "writer"},
             GoroutineStep(<<c, role>>)
      PROVE PendingHolds'
  <2> DEFINE g == <<c, role>>
  <2>0. g \in Goroutines /\ g[1] = c /\ g[2] = role /\ g # Nobody
    BY GoroutineOfClient
  <2>1. CASE LockClient(c, role)
    BY <1>0, <2>0, <2>1 DEF LockClient, hubVars
  <2>2. CASE LockHub(g)
    BY <2>0, <2>2 DEF LockHub, clientVars, goVars
  <2>3. CASE CloseOver(g)
    BY <1>0, <2>0, <2>3 DEF CloseOver, hubVars
  <2>4. ASSUME NEW ch \in Channels, CloseChannel(g, ch) PROVE PendingHolds'
    BY <2>4 DEF CloseChannel, HasHub
  <2> QED BY <1>5, <2>0, <2>1, <2>2, <2>3, <2>4 DEF GoroutineStep
<1>6. ASSUME NEW c \in Clients, NEW ch \in Channels, Subscribe(c, ch) \/ Unsubscribe(c, ch)
      PROVE PendingHolds'
  BY <1>6 DEF Subscribe, Unsubscribe, HasHub
<1>7. CASE UNCHANGED vars
  BY <1>1, <1>7 DEF vars, hubVars, clientVars, goVars
<1> QED
  BY <1>2, <1>3, <1>4, <1>5, <1>6, <1>7 DEF Next, ReaderStep, WriterStep

\* A reader about to subscribe has one channel, and is still to subscribe to it.
LEMMA SubscribesKept ==
    TypeInv /\ LeavingInv /\ SubscribesAnew /\ [Next]_vars => SubscribesAnew'
<1> SUFFICES ASSUME TypeInv, MutexHeld, SubscribesAnew, [Next]_vars PROVE SubscribesAnew'
  BY DEF LeavingInv
<1> USE DEF TypeInv, MutexHeld, SubscribesAnew, Reader
<1>1. ASSUME UNCHANGED <<mu, channels, todo>>,
             \A c \in Clients : pc'[Reader(c)] = "subscribe" => pc[Reader(c)] = "subscribe"
      PROVE SubscribesAnew'
  BY <1>1
<1>2. ASSUME NEW ch \in Channels, Produce(ch) \/ PublisherStep(ch) PROVE SubscribesAnew'
  BY <1>1, <1>2 DEF Produce, PublisherStep, LockToPublish, SendTo, Published,
                    clientVars, goVars
<1>3. ASSUME NEW c \in Clients, NEW ch \in Channels, NEW what \in {"subscribe", "unsubscribe"},
             Request(c, what, ch)
      PROVE SubscribesAnew'
  BY <1>3 DEF Request, Goroutines
<1>4. ASSUME NEW c \in Clients, ReadFails(c) \/ BadMessage(c) \/ WriteFails(c) \/ PeerLeaves(c)
      PROVE SubscribesAnew'
  BY <1>1, <1>4 DEF ReadFails, BadMessage, WriteFails, PeerLeaves, clientVars, goVars, Goroutines
<1>5. ASSUME NEW c \in Clients,
             Deliver(c) \/ CloseConn(c) \/ ReadLastTicker(c) \/ QueueLastTicker(c)
      PROVE SubscribesAnew'
  <2>1. CASE Deliver(c)
    BY <1>1, <2>1 DEF Deliver, clientVars, goVars
  <2>2. CASE CloseConn(c)
    BY <1>1, <2>2 DEF CloseConn, Goroutines
  <2>3. CASE ReadLastTicker(c)
    BY <1>1, <2>3 DEF ReadLastTicker, clientVars, Goroutines
  <2>4. CASE QueueLastTicker(c)
    BY <1>1, <2>4 DEF QueueLastTicker, clientVars, Goroutines
  <2> QED BY <1>5, <2>1, <2>2, <2>3, <2>4
<1>6. ASSUME NEW c \in Clients, NEW role \in {"reader", "writer"},
             GoroutineStep(<<c, role>>)
      PROVE SubscribesAnew'
  <2> DEFINE g == <<c, role>>
  <2>0. g \in Goroutines /\ g[1] = c /\ g[2] = role /\ g # Nobody
    BY GoroutineOfClient
  <2>1. CASE LockClient(c, role)
    <3>1. UNCHANGED channels /\ mu[c] = Nobody
      BY <2>1 DEF LockClient
    <3>2. CASE pc[g] = "subscribe" /\ todo[g] \subseteq channels[c]
      <4>1. /\ UNCHANGED mu
            /\ pc' = [pc EXCEPT ![g] = "serving"] /\ todo' = [todo EXCEPT ![g] = {}]
        BY <2>1, <3>2 DEF LockClient
      <4> QED BY <2>0, <3>1, <4>1 DEF Goroutines
    <3>3. CASE ~(pc[g] = "subscribe" /\ todo[g] \subseteq channels[c])
      <4>1. /\ UNCHANGED pc /\ mu' = [mu EXCEPT ![c] = g]
            /\ pc[g] # "close" => todo'[g] = todo[g]
            /\ \A h \in Goroutines : h # g => todo'[h] = todo[h]
        BY <2>0, <2>1, <3>3 DEF LockClient, ToClose
      <4>2. ASSUME NEW d \in Clients, pc[Reader(d)] = "subscribe"
            PROVE  todo'[Reader(d)] = todo[Reader(d)]
        BY <4>1, <4>2 DEF Goroutines
      <4>3. ASSUME NEW d \in Clients, pc[Reader(d)] = "subscribe", mu'[d] = Reader(d)
            PROVE  ~(todo[Reader(d)] \subseteq channels[d])
        <5>1. CASE d = c
          <6>1. Reader(d) = g
            BY <4>1, <4>3, <5>1
          <6> QED BY <3>3, <4>3, <5>1, <6>1
        <5>2. CASE d # c
          <6>1. mu[d] = Reader(d)
            BY <4>1, <4>3, <5>2
          <6> QED BY <4>3, <6>1
        <5> QED BY <5>1, <5>2
      <4>4. ASSUME NEW d \in Clients, pc'[Reader(d)] = "subscribe"
            PROVE  /\ \E ch \in Channels : todo'[Reader(d)] = {ch}
                   /\ mu'[d] = Reader(d) => ~(todo'[Reader(d)] \subseteq channels'[d])
        <5>1. pc[Reader(d)] = "subscribe"
          BY <4>1, <4>4
        <5>2. todo'[Reader(d)] = todo[Reader(d)] /\ channels'[d] = channels[d]
          BY <3>1, <4>2, <5>1
        <5>3. \E ch \in Channels : todo[Reader(d)] = {ch}
          BY <5>1
        <5> QED BY <4>3, <5>1, <5>2, <5>3
      <4> QED BY <4>4
    <3> QED BY <3>2, <3>3
  <2>2. CASE LockHub(g)
    BY <1>1, <2>2 DEF LockHub, clientVars, goVars
  <2>3. CASE CloseOver(g)
    BY <2>0, <2>3 DEF CloseOver, Goroutines, Nobody
  <2>4. ASSUME NEW ch \in Channels, CloseChannel(g, ch) PROVE SubscribesAnew'
    BY <2>0, <2>4 DEF CloseChannel, clientVars, Goroutines
  <2> QED BY <1>6, <2>0, <2>1, <2>2, <2>3, <2>4 DEF GoroutineStep
<1>7. ASSUME NEW c \in Clients, NEW ch \in Channels, Subscribe(c, ch) \/ Unsubscribe(c, ch)
      PROVE SubscribesAnew'
  <2>1. /\ pc'[Reader(c)] # "subscribe" /\ mu' = [mu EXCEPT ![c] = Nobody]
        /\ \A d \in Clients : d # c =>
              /\ pc'[Reader(d)] = pc[Reader(d)]
              /\ todo'[Reader(d)] = todo[Reader(d)]
              /\ channels'[d] = channels[d]
    <3>1. CASE Subscribe(c, ch)
      BY <3>1 DEF Subscribe, AfterSubscribing, Goroutines
    <3>2. CASE Unsubscribe(c, ch)
      BY <3>2 DEF Unsubscribe, Goroutines
    <3> QED BY <1>7, <3>1, <3>2
  <2>2. ASSUME NEW d \in Clients, d # c
        PROVE  mu'[d] = mu[d]
    BY <2>1, <2>2
  <2>3. ASSUME NEW d \in Clients, pc'[Reader(d)] = "subscribe"
        PROVE  /\ \E k \in Channels : todo'[Reader(d)] = {k}
               /\ mu'[d] = Reader(d) => ~(todo'[Reader(d)] \subseteq channels'[d])
    <3>1. d # c
      BY <2>1, <2>3
    <3> QED BY <2>1, <2>2, <2>3, <3>1
  <2> QED BY <2>3
<1>8. CASE UNCHANGED vars
  BY <1>1, <1>8 DEF vars, clientVars, goVars
<1> HIDE DEF TypeInv, MutexHeld, SubscribesAnew, Reader
<1> QED
  BY <1>2, <1>3, <1>4, <1>5, <1>6, <1>7, <1>8 DEF Next, ReaderStep, WriterStep

\* The client of a reader that gets the hub to subscribe to a channel is not
\* in it yet, so that AfterSubscribing always has it sent the last ticker.
LEMMA SubscribesNew ==
    ASSUME LeavingInv, PendingHolds, SubscribesAnew,
           NEW c \in Clients, NEW ch \in Channels, Subscribe(c, ch)
    PROVE  c \notin subscribers[ch]
<1>1. /\ pending = Reader(c) /\ ch \in todo[Reader(c)] /\ pc[Reader(c)] = "subscribe"
      /\ Reader(c)[1] = c /\ Reader(c) # Nobody
  BY GoroutineOfClient DEF Subscribe, HasHub, Reader
<1>2. mu[c] = Reader(c)
  BY <1>1 DEF PendingHolds
<1>3. todo[Reader(c)] = {ch} /\ ~(todo[Reader(c)] \subseteq channels[c])
  BY <1>1, <1>2 DEF SubscribesAnew
<1> QED BY <1>3 DEF LeavingInv, ClientKnows

\* NoTickerMissed: a client that has subscribed to the ticker has been sent the
\* last one, however its subscription and the publication fell.
THEOREM TickerNotMissed == Spec => []NoTickerMissed
<1>1. Init => TickerInv
  BY DEF Init, TickerInv, PendingHolds, SubscribesAnew, LastPublished, TickerReaches,
         Goroutines, Reader, Channels
<1>2. TypeInv /\ LeavingInv /\ TickerInv /\ [Next]_vars => TickerInv'
  <2> SUFFICES ASSUME TypeInv, LeavingInv, TickerInv, [Next]_vars
               PROVE  LastPublished' /\ TickerReaches'
    BY PendingKept, SubscribesKept DEF TickerInv
  <2>0. /\ PendingHolds /\ SubscribesAnew /\ LastPublished /\ TickerReaches
        /\ subscribers[Ticker] \subseteq Clients /\ Ticker \in Channels
    BY DEF TickerInv, TypeInv, Channels
  <2>1. ASSUME NEW ch \in Channels, Produce(ch) PROVE LastPublished' /\ TickerReaches'
    <3>1. CASE ch = Ticker
      BY <2>0, <2>1, <3>1 DEF Produce, LastPublished, TickerReaches, TypeInv, hubVars
    <3>2. CASE ch # Ticker
      BY <2>0, <2>1, <3>2, TickerStays
      DEF Produce, LastPublished, TypeInv, hubVars, goVars
    <3> QED BY <3>1, <3>2
  <2>2. ASSUME NEW ch \in Channels, PublisherStep(ch) PROVE LastPublished' /\ TickerReaches'
    <3>1. CASE LockToPublish(ch)
      <4>1. CASE ch = Ticker
        BY <2>0, <3>1, <4>1 DEF LockToPublish, LastPublished, TickerReaches, TypeInv
      <4>2. CASE ch # Ticker
        BY <2>0, <3>1, <4>2, TickerStays DEF LockToPublish, LastPublished, TypeInv, goVars
      <4> QED BY <4>1, <4>2
    <3>2. ASSUME NEW c \in Clients, SendTo(ch, c) PROVE LastPublished' /\ TickerReaches'
      <4>1. CASE ch = Ticker
        BY <2>0, <3>2, <4>1
        DEF SendTo, LastPublished, TickerReaches, TypeInv, hubVars, goVars
      <4>2. CASE ch # Ticker
        BY <2>0, <3>2, <4>2, TickerStays DEF SendTo, LastPublished, TypeInv, hubVars, goVars
      <4> QED BY <4>1, <4>2
    <3>3. CASE Published(ch)
      <4>1. publisher[ch] = "sending" /\ UNCHANGED <<published, toSend, lastTicker, tickers>>
        BY <3>3 DEF Published
      <4>2. UNCHANGED <<subscribers, pc, carried>>
            /\ publisher' = [publisher EXCEPT ![ch] = "idle"] /\ toSend[ch] = {}
        BY <3>3 DEF Published, goVars
      <4> QED BY <2>0, <4>1, <4>2 DEF LastPublished, TickerReaches, TypeInv
    <3> QED BY <2>2, <3>1, <3>2, <3>3 DEF PublisherStep
  <2>3. ASSUME UNCHANGED <<publisherVars, carried, tickers>>,
               subscribers'[Ticker] \subseteq subscribers[Ticker],
               \A c \in Clients : pc[Reader(c)] \in {"ticker", "send"} =>
                   pc'[Reader(c)] = pc[Reader(c)]
        PROVE  LastPublished' /\ TickerReaches'
    BY <2>0, <2>3, TickerStays DEF LastPublished, publisherVars
  <2>4. ASSUME NEW c \in Clients, NEW ch \in Channels, NEW what \in {"subscribe", "unsubscribe"},
               Request(c, what, ch)
        PROVE  LastPublished' /\ TickerReaches'
    BY <2>3, <2>4 DEF Request, TypeInv, Reader, Goroutines, hubVars
  <2>5. ASSUME NEW c \in Clients,
               ReadFails(c) \/ BadMessage(c) \/ WriteFails(c) \/ PeerLeaves(c)
        PROVE  LastPublished' /\ TickerReaches'
    BY <2>3, <2>5 DEF ReadFails, BadMessage, WriteFails, PeerLeaves, TypeInv, Reader,
                      Goroutines, hubVars, goVars
  <2>6. ASSUME NEW c \in Clients, Deliver(c) \/ CloseConn(c)
        PROVE  LastPublished' /\ TickerReaches'
    BY <2>3, <2>6 DEF Deliver, CloseConn, TypeInv, Reader, Goroutines, hubVars, goVars
  <2>7. ASSUME NEW c \in Clients, NEW role \in {"reader", "writer"},
               GoroutineStep(<<c, role>>)
        PROVE  LastPublished' /\ TickerReaches'
    <3>1. \A d \in Clients : pc[Reader(d)] \in {"ticker", "send"} =>
              pc'[Reader(d)] = pc[Reader(d)]
      BY <2>7, StepOfGoroutine
    <3> QED BY <2>3, <2>7, <3>1, StepOfGoroutine
  <2>8. ASSUME NEW c \in Clients, NEW ch \in Channels, Subscribe(c, ch)
        PROVE  LastPublished' /\ TickerReaches'
    <3>1. c \notin subscribers[ch]
      BY <2>0, <2>8, SubscribesNew
    <3>2. CASE ch = Ticker
      BY <2>0, <2>8, <3>1, <3>2
      DEF Subscribe, AfterSubscribing, LastPublished, TickerReaches, TypeInv, Reader,
          Goroutines, publisherVars
    <3>3. CASE ch # Ticker
      <4>1. UNCHANGED <<publisherVars, carried, tickers>> /\ pc[Reader(c)] = "subscribe"
        BY <2>8, <3>3 DEF Subscribe, HasHub, Reader
      <4>2. subscribers'[Ticker] = subscribers[Ticker]
        BY <2>0, <2>8, <3>3 DEF Subscribe, TypeInv
      <4>3. \A d \in Clients : pc[Reader(d)] \in {"ticker", "send"} =>
                pc'[Reader(d)] = pc[Reader(d)]
        BY <2>8, <4>1 DEF Subscribe, TypeInv, Reader, Goroutines
      <4> QED BY <2>3, <4>1, <4>2, <4>3
    <3> QED BY <3>2, <3>3
  <2>9. ASSUME NEW c \in Clients, NEW ch \in Channels, Unsubscribe(c, ch)
        PROVE  LastPublished' /\ TickerReaches'
    BY <2>0, <2>3, <2>9 DEF Unsubscribe, TypeInv, Reader, Goroutines
  <2>10. ASSUME NEW c \in Clients, ReadLastTicker(c)
         PROVE  LastPublished' /\ TickerReaches'
    BY <2>0, <2>10 DEF ReadLastTicker, LastPublished, TickerReaches, TypeInv, Reader,
                       Goroutines, hubVars, publisherVars
  <2>11. ASSUME NEW c \in Clients, QueueLastTicker(c)
         PROVE  LastPublished' /\ TickerReaches'
    BY <2>0, <2>11 DEF QueueLastTicker, LastPublished, TickerReaches, TypeInv, Reader,
                       Goroutines, hubVars, publisherVars
  <2>12. CASE UNCHANGED vars
    BY <2>3, <2>12 DEF vars, hubVars, goVars
  <2> QED
    BY <2>1, <2>2, <2>4, <2>5, <2>6, <2>7, <2>8, <2>9, <2>10, <2>11, <2>12
    DEF Next, ReaderStep, WriterStep
<1>3. TickerInv => NoTickerMissed
  BY DEF TickerInv, LastPublished, TickerReaches, NoTickerMissed, Reader
<1> QED BY <1>1, <1>2, <1>3, TypeHolds, LeavingHolds, PTL DEF Spec

=============================================================================
