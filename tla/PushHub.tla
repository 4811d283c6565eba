------------------------------ MODULE PushHub ------------------------------
(***************************************************************************)
(* pushing/subscription.go, client.go and ticker_stream.go: publishers     *)
(* send messages to the queues of the subscribed clients under the read    *)
(* lock of the hub; the reader of a client subscribes and unsubscribes,    *)
(* its writer empties the queue, and each of them, when its connection     *)
(* fails it, takes the client out of the hub, under the mutex of the       *)
(* client and the write lock of the hub.                                   *)
(*                                                                         *)
(* One publisher per channel.  Of a queue only the length is kept.  The    *)
(* level-2 writer of a client is in Level2Client.                          *)
(***************************************************************************)
EXTENDS Naturals, FiniteSets

CONSTANTS
    Clients,
    Feeds,          \* channels other than the ticker: match, level2, order, funds
    WriteCap,       \* capacity of writeCh (256)
    MaxPublished,   \* bound: messages of a channel
    MaxRequests     \* bound: requests of all clients

ASSUME HubAssumption ==
    WriteCap \in Nat \ {0} /\ MaxPublished \in Nat /\ MaxRequests \in Nat

Ticker == "ticker"
Channels == Feeds \cup {Ticker}
Goroutines == Clients \X {"reader", "writer"}
Nobody == << >>

VARIABLES
    subscribers,    \* of each channel (subscription.subscribers)
    publishing,     \* publishers that hold the read lock of the hub
    pending,        \* who has called Lock: it waits for them and keeps new ones out
    published,      \* messages of each channel so far
    publisher,      \* "idle", "locking" or "sending"
    toSend,         \* clients a publication has still to reach
    lastTicker,     \* lastTickers, 0 if none
    conn,           \* connection of a client: "open", "broken" by the peer, "closed"
    mu,             \* goroutine that holds the mutex of the client
    channels,       \* Client.channels
    writeCh,        \* number of messages in the queue
    pc,             \* what a goroutine does: "serving", "subscribe", "unsubscribe",
                    \* "close", "ticker", "send", "closed" or "gone"
    todo,           \* channels it has still to do that for
    carried,        \* the ticker a reader is about to queue
    requests,       \* so far
    tickers         \* auxiliary: tickers queued for a client since it subscribed

hubVars == <<subscribers, publishing, pending>>
publisherVars == <<published, publisher, toSend, lastTicker>>
clientVars == <<conn, mu, channels, requests>>
goVars == <<pc, todo, carried>>
vars == <<hubVars, publisherVars, clientVars, writeCh, goVars, tickers>>

Init ==
    /\ subscribers = [ch \in Channels |-> {}]
    /\ publishing = {} /\ pending = Nobody
    /\ published = [ch \in Channels |-> 0]
    /\ publisher = [ch \in Channels |-> "idle"]
    /\ toSend = [ch \in Channels |-> {}]
    /\ lastTicker = 0
    /\ conn = [c \in Clients |-> "open"]
    /\ mu = [c \in Clients |-> Nobody]
    /\ channels = [c \in Clients |-> {}]
    /\ requests = 0
    /\ writeCh = [c \in Clients |-> 0]
    /\ pc = [g \in Goroutines |-> "serving"]
    /\ todo = [g \in Goroutines |-> {}]
    /\ carried = [c \in Clients |-> 0]
    /\ tickers = [c \in Clients |-> {}]

-----------------------------------------------------------------------------
(* The streams. *)

\* A stream has a message; the ticker is stored before it is published.
Produce(ch) ==
    /\ publisher[ch] = "idle"
    /\ published[ch] < MaxPublished
    /\ published' = [published EXCEPT ![ch] = @ + 1]
    /\ lastTicker' = IF ch = Ticker THEN published'[ch] ELSE lastTicker
    /\ publisher' = [publisher EXCEPT ![ch] = "locking"]
    /\ UNCHANGED <<hubVars, toSend, clientVars, writeCh, goVars, tickers>>

\* publish: a waiting Lock keeps new readers of the lock out.
LockToPublish(ch) ==
    /\ publisher[ch] = "locking"
    /\ pending = Nobody
    /\ publisher' = [publisher EXCEPT ![ch] = "sending"]
    /\ publishing' = publishing \cup {ch}
    /\ toSend' = [toSend EXCEPT ![ch] = subscribers[ch]]
    /\ UNCHANGED <<subscribers, pending, published, lastTicker, clientVars,
                   writeCh, goVars, tickers>>

\* Waits while the queue is full.
SendTo(ch, c) ==
    /\ c \in toSend[ch]
    /\ writeCh[c] < WriteCap
    /\ writeCh' = [writeCh EXCEPT ![c] = @ + 1]
    /\ toSend' = [toSend EXCEPT ![ch] = @ \ {c}]
    /\ tickers' = IF ch = Ticker
                  THEN [tickers EXCEPT ![c] = @ \cup {published[ch]}] ELSE tickers
    /\ UNCHANGED <<hubVars, published, publisher, lastTicker, clientVars, goVars>>

\* Variant: the read lock is not given back.
PublishedLocked(ch) ==
    /\ publisher[ch] = "sending"
    /\ toSend[ch] = {}
    /\ publisher' = [publisher EXCEPT ![ch] = "idle"]
    /\ UNCHANGED <<hubVars, published, toSend, lastTicker, clientVars, writeCh, goVars,
                   tickers>>

Published(ch) ==
    /\ publisher[ch] = "sending"
    /\ toSend[ch] = {}
    /\ publisher' = [publisher EXCEPT ![ch] = "idle"]
    /\ publishing' = publishing \ {ch}
    /\ UNCHANGED <<subscribers, pending, published, toSend, lastTicker, clientVars,
                   writeCh, goVars, tickers>>

-----------------------------------------------------------------------------
(* The goroutines of a client. *)

\* onMessage, for one channel.
Request(c, what, ch) ==
    LET g == <<c, "reader">>
    IN  /\ pc[g] = "serving"
        /\ conn[c] = "open"
        /\ requests < MaxRequests
        /\ requests' = requests + 1
        /\ pc' = [pc EXCEPT ![g] = what]
        /\ todo' = [todo EXCEPT ![g] = {ch}]
        /\ UNCHANGED <<hubVars, publisherVars, conn, mu, channels, writeCh,
                       carried, tickers>>

\* runReader ends when the connection fails ...
ReadFails(c) ==
    LET g == <<c, "reader">>
    IN  /\ pc[g] = "serving"
        /\ conn[c] # "open"
        /\ pc' = [pc EXCEPT ![g] = "close"]
        /\ UNCHANGED <<hubVars, publisherVars, clientVars, writeCh, todo, carried,
                       tickers>>

\* ... and on a message that is no request, the connection staying open.
BadMessage(c) ==
    LET g == <<c, "reader">>
    IN  /\ pc[g] = "serving"
        /\ conn[c] = "open"
        /\ requests < MaxRequests
        /\ requests' = requests + 1
        /\ pc' = [pc EXCEPT ![g] = "close"]
        /\ UNCHANGED <<hubVars, publisherVars, conn, mu, channels, writeCh, todo,
                       carried, tickers>>

\* runWriter writes a message to the connection ...
Deliver(c) ==
    /\ pc[<<c, "writer">>] = "serving"
    /\ conn[c] = "open"
    /\ writeCh[c] > 0
    /\ writeCh' = [writeCh EXCEPT ![c] = @ - 1]
    /\ UNCHANGED <<hubVars, publisherVars, clientVars, goVars, tickers>>

\* ... or fails to, the peer being gone or too slow: then, or when a ping
\* fails, it ends.
WriteFails(c) ==
    LET g == <<c, "writer">>
    IN  /\ pc[g] = "serving"
        /\ writeCh[c] > 0 \/ conn[c] # "open"
        /\ pc' = [pc EXCEPT ![g] = "close"]
        /\ writeCh' = [writeCh EXCEPT ![c] = IF @ > 0 THEN @ - 1 ELSE 0]
        /\ UNCHANGED <<hubVars, publisherVars, clientVars, todo, carried, tickers>>

\* Variant: a client is closed only once.
ToCloseOnce(c) == IF conn[c] = "closed" THEN {} ELSE channels[c]

\* Reader and writer both close all channels, whoever is first.
ToClose(c) == channels[c]

\* subscribe, unsubscribe and close begin by taking the mutex of the client.
LockClient(c, role) ==
    LET g     == <<c, role>>
        known == pc[g] = "subscribe" /\ todo[g] \subseteq channels[c]
    IN  /\ pc[g] \in {"subscribe", "unsubscribe", "close"}
        /\ mu[c] = Nobody
        /\ IF known
           THEN /\ pc' = [pc EXCEPT ![g] = "serving"]
                /\ todo' = [todo EXCEPT ![g] = {}]
                /\ UNCHANGED mu
           ELSE /\ mu' = [mu EXCEPT ![c] = g]
                /\ todo' = [todo EXCEPT ![g] =
                              IF pc[g] = "close" THEN ToClose(c) ELSE @]
                /\ UNCHANGED pc
        /\ UNCHANGED <<hubVars, publisherVars, conn, channels, requests, writeCh,
                       carried, tickers>>

\* They call Lock of the hub once for each channel.
LockHub(g) ==
    /\ mu[g[1]] = g
    /\ todo[g] # {}
    /\ pending = Nobody
    /\ pending' = g
    /\ UNCHANGED <<subscribers, publishing, publisherVars, clientVars, writeCh,
                   goVars, tickers>>

\* The lock is had when nobody publishes any more, and is given back at once.
HasHub(g, ch) ==
    /\ pending = g
    /\ publishing = {}
    /\ ch \in todo[g]
    /\ pending' = Nobody

\* Variant: a new subscriber is not sent the last ticker.
AfterSubscribingNothing(c, ch) == "serving"

AfterSubscribing(c, ch) ==
    IF ch = Ticker /\ c \notin subscribers[ch] THEN "ticker" ELSE "serving"

Subscribe(c, ch) ==
    LET g == <<c, "reader">>
    IN  /\ HasHub(g, ch)
        /\ pc[g] = "subscribe"
        /\ subscribers' = [subscribers EXCEPT ![ch] = @ \cup {c}]
        /\ channels' = [channels EXCEPT ![c] =
                          IF c \in subscribers[ch] THEN @ ELSE @ \cup {ch}]
        /\ mu' = [mu EXCEPT ![c] = Nobody]
        /\ pc' = [pc EXCEPT ![g] = AfterSubscribing(c, ch)]
        /\ todo' = [todo EXCEPT ![g] = {}]
        /\ tickers' = IF ch = Ticker THEN [tickers EXCEPT ![c] = {}] ELSE tickers
        /\ UNCHANGED <<publishing, publisherVars, conn, requests, writeCh, carried>>

Unsubscribe(c, ch) ==
    LET g == <<c, "reader">>
    IN  /\ HasHub(g, ch)
        /\ pc[g] = "unsubscribe"
        /\ subscribers' = [subscribers EXCEPT ![ch] = @ \ {c}]
        /\ channels' = [channels EXCEPT ![c] =
                          IF c \in subscribers[ch] THEN @ \ {ch} ELSE @]
        /\ mu' = [mu EXCEPT ![c] = Nobody]
        /\ pc' = [pc EXCEPT ![g] = "serving"]
        /\ todo' = [todo EXCEPT ![g] = {}]
        /\ UNCHANGED <<publishing, publisherVars, conn, requests, writeCh, carried,
                       tickers>>

\* close leaves Client.channels as it is.
CloseChannel(g, ch) ==
    /\ HasHub(g, ch)
    /\ pc[g] = "close"
    /\ subscribers' = [subscribers EXCEPT ![ch] = @ \ {g[1]}]
    /\ todo' = [todo EXCEPT ![g] = @ \ {ch}]
    /\ UNCHANGED <<publishing, publisherVars, clientVars, writeCh, pc, carried, tickers>>

CloseOver(g) ==
    /\ pc[g] = "close"
    /\ mu[g[1]] = g
    /\ todo[g] = {}
    /\ mu' = [mu EXCEPT ![g[1]] = Nobody]
    /\ pc' = [pc EXCEPT ![g] = IF g[2] = "reader" THEN "gone" ELSE "closed"]
    /\ UNCHANGED <<hubVars, publisherVars, conn, channels, requests, writeCh, todo,
                   carried, tickers>>

\* Variant: the writer leaves the connection open.
CloseConnNever(c) ==
    LET g == <<c, "writer">>
    IN  /\ pc[g] = "closed"
        /\ pc' = [pc EXCEPT ![g] = "gone"]
        /\ UNCHANGED <<hubVars, publisherVars, clientVars, writeCh, todo, carried, tickers>>

\* The last thing runWriter does; runReader then fails to read.
CloseConn(c) ==
    LET g == <<c, "writer">>
    IN  /\ pc[g] = "closed"
        /\ pc' = [pc EXCEPT ![g] = "gone"]
        /\ conn' = [conn EXCEPT ![c] = "closed"]
        /\ UNCHANGED <<hubVars, publisherVars, mu, channels, requests, writeCh, todo,
                       carried, tickers>>

\* A new subscriber of the ticker gets the last one, read and then queued
\* without a lock.
ReadLastTicker(c) ==
    LET g == <<c, "reader">>
    IN  /\ pc[g] = "ticker"
        /\ pc' = [pc EXCEPT ![g] = IF lastTicker = 0 THEN "serving" ELSE "send"]
        /\ carried' = [carried EXCEPT ![c] = lastTicker]
        /\ UNCHANGED <<hubVars, publisherVars, clientVars, writeCh, todo, tickers>>

QueueLastTicker(c) ==
    LET g == <<c, "reader">>
    IN  /\ pc[g] = "send"
        /\ writeCh[c] < WriteCap
        /\ writeCh' = [writeCh EXCEPT ![c] = @ + 1]
        /\ tickers' = [tickers EXCEPT ![c] = @ \cup {carried[c]}]
        /\ carried' = [carried EXCEPT ![c] = 0]
        /\ pc' = [pc EXCEPT ![g] = "serving"]
        /\ UNCHANGED <<hubVars, publisherVars, clientVars, todo>>

-----------------------------------------------------------------------------

PeerLeaves(c) ==
    /\ conn[c] = "open"
    /\ conn' = [conn EXCEPT ![c] = "broken"]
    /\ UNCHANGED <<hubVars, publisherVars, mu, channels, requests, writeCh, goVars,
                   tickers>>

PublisherStep(ch) ==
    \/ LockToPublish(ch)
    \/ \E c \in Clients : SendTo(ch, c)
    \/ Published(ch)

\* What a goroutine does without waiting for the peer.
GoroutineStep(g) ==
    \/ LockClient(g[1], g[2]) \/ LockHub(g) \/ CloseOver(g)
    \/ \E ch \in Channels : CloseChannel(g, ch)

ReaderStep(c) ==
    \/ GoroutineStep(<<c, "reader">>)
    \/ \E ch \in Channels : Subscribe(c, ch) \/ Unsubscribe(c, ch)
    \/ ReadLastTicker(c) \/ QueueLastTicker(c)

WriterStep(c) ==
    \/ GoroutineStep(<<c, "writer">>)
    \/ Deliver(c) \/ CloseConn(c)

Next ==
    \/ \E ch \in Channels : Produce(ch) \/ PublisherStep(ch)
    \/ \E c \in Clients :
          \/ \E ch \in Channels, what \in {"subscribe", "unsubscribe"} : Request(c, what, ch)
          \/ ReadFails(c) \/ BadMessage(c) \/ WriteFails(c) \/ PeerLeaves(c)
          \/ ReaderStep(c) \/ WriterStep(c)

Spec == Init /\ [][Next]_vars

\* Goroutines that can go on do; a read or a write on a connection that is
\* gone fails in the end (pings are written every 54 seconds).
FairSpec ==
    /\ Spec
    /\ \A ch \in Channels : WF_vars(PublisherStep(ch))
    /\ \A c \in Clients :
          /\ WF_vars(ReaderStep(c))
          /\ WF_vars(WriterStep(c))
          /\ WF_vars(ReadFails(c))
          /\ WF_vars(conn[c] # "open" /\ WriteFails(c))

-----------------------------------------------------------------------------
(* Properties. *)

\* A client that has subscribed to the ticker has been sent the last one,
\* however its subscription and the publication fell.
NoTickerMissed ==
    \A c \in subscribers[Ticker] :
        /\ pc[<<c, "reader">>] \notin {"ticker", "send"}
        /\ publisher[Ticker] = "idle"
        /\ lastTicker # 0
        => lastTicker \in tickers[c]

\* When the reader of a client is gone, so are its subscriptions.
NoGhosts ==
    \A c \in Clients : pc[<<c, "reader">>] = "gone" =>
        \A ch \in Channels : c \notin subscribers[ch]

\* A queue nobody will empty.
Clogged ==
    \E c \in Clients : writeCh[c] = WriteCap /\ pc[<<c, "writer">>] # "serving"

\* A publication reaches everybody in the end, and so does the next, unless
\* the queue of a client has filled up whose writer has stopped serving it.
PublishReturns ==
    \A ch \in Channels : publisher[ch] = "locking" ~> publisher[ch] = "idle" \/ Clogged

\* When the writer of a client has failed, both its goroutines end, with the
\* same exception; by NoGhosts it has then left the hub.
DeadClientLeaves ==
    \A c \in Clients :
        pc[<<c, "writer">>] = "close" ~>
            \/ pc[<<c, "writer">>] = "gone" /\ pc[<<c, "reader">>] = "gone"
            \/ Clogged

=============================================================================
