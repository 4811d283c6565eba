----------------------------- MODULE LogService -----------------------------
(***************************************************************************)
(* What the matching engine promises the readers of its log, as if it      *)
(* never crashed: it takes the messages of the order topic one after the   *)
(* other, and publishes the logs they give, each once, in order, with none *)
(* missing and none ever changed (Spec); or, where a crash may lose logs,  *)
(* an unbroken stretch of them (LossySpec).                                *)
(***************************************************************************)
EXTENDS Integers, Sequences

CONSTANTS
    Messages,           \* what the order topic is made of
    EmptyBook,          \* the book no message has been applied to
    Handle(_, _, _)     \* the book, window and logs a message leads to

VARIABLES
    topic,      \* the order topic
    handled,    \* how many of its messages have been handled
    book,       \* the order book
    window,     \* the bits of its de-duplication window
    journal,    \* the logs of the messages handled so far
    published   \* the logs readers have got

vars == <<topic, handled, book, window, journal, published>>

Init ==
    /\ topic \in Seq(Messages)
    /\ handled = 0
    /\ book = EmptyBook
    /\ window = {}
    /\ journal = << >>
    /\ published = << >>

HandleNext ==
    /\ handled < Len(topic)
    /\ handled' = handled + 1
    /\ \E result \in {Handle(book, window, topic[handled + 1])} :
          /\ book' = result.book
          /\ window' = result.window
          /\ journal' = journal \o result.logs
    /\ UNCHANGED <<topic, published>>

\* Readers whose logs began with the one at place a get some more of them.
PublishFrom(a) ==
    /\ \E n \in a + Len(published) - 1 .. Len(journal) :
          /\ published = SubSeq(journal, a, a + Len(published) - 1)
          /\ published' = SubSeq(journal, a, n)
    /\ UNCHANGED <<topic, handled, book, window, journal>>

Next == HandleNext \/ PublishFrom(1)

Spec == Init /\ [][Next]_vars

\* The weaker promise: the first logs, or the last ones, may never come.
LossyNext == HandleNext \/ \E a \in 1 .. Len(journal) : PublishFrom(a)

LossySpec == Init /\ [][LossyNext]_vars

=============================================================================
